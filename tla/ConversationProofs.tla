------------------------- MODULE ConversationProofs -------------------------
(***************************************************************************)
(* The parts between the user and the model, each for every value of its   *)
(* constants: the command line as a host (Terminal), components that are   *)
(* stored and loaded (Components), spans of middlewares (Hooks), a call of  *)
(* the model (ModelCall), what a bash line may run (Permissions).          *)
(*                                                                         *)
(* Terminal.  The conversation on the screen is held by exactly one worker *)
(* or by none (Exclusive, OnScreen), every message that was typed is in it,*)
(* in the inbox, with the worker that begins, or given up by the user      *)
(* (NothingLost), and between turns the store has it as it is (SavedOK).   *)
(* Until a click runs a command under a turn, whose effects the property   *)
(* excepts.                                                                *)
(*                                                                         *)
(* Components.  What a config holds and what only a live object has are    *)
(* different arguments (Apart), so what was written of an object is what a *)
(* new one is built from; a chain of live objects is followed down once    *)
(* (MadeNodes).                                                            *)
(*                                                                         *)
(* Hooks.  A pass that no middleware cuts short is heard by all of them, so*)
(* the span of a run that is under way is open or was left open by a hook  *)
(* in front of the tracer.                                                 *)
(*                                                                         *)
(* ModelCall.  While a try is open, what has been gathered of its frames,  *)
(* kind by kind and index by index, is what the frames say (Gathering), and*)
(* nothing of an earlier try is shown (Quiet); ids of Ollama's calls are   *)
(* numbered by the frames that brought them (Indexed).                     *)
(*                                                                         *)
(* Permissions.  Of a line without control words and hidden expansions,    *)
(* whose scripts are all found and none deeper than is read, the Policy    *)
(* sees every command the shell starts (StartedIsRead); an approval is the person's or follows from what the   *)
(* person allowed always (CallKept), and while nobody approves, what is    *)
(* asked for stays to be asked for (StillAsked).                           *)
(***************************************************************************)
EXTENDS Terminal, Components, Hooks, ModelCall, Permissions, LoopLemmas, FiniteSetTheorems, WellFoundedInduction, TLAPS

-----------------------------------------------------------------------------
(* The command line.                                                       *)

-----------------------------------------------------------------------------
(* Terminal: types of what a worker and the form do.                       *)

Works == [at : Places, works : Objects, before : SUBSET Conversation,
          task : SUBSET TypedMessages, cards : 0..MaxAsked, questions : 0..MaxAsked,
          killed : BOOLEAN]
Requests == [of : HostWorkers \cup {Nobody}, kind : {"none", "card", "form"},
             state : {"none", "open", "answered", "cancelled"},
             open : SUBSET (1..MaxAsked), tab : 0..MaxAsked + 1, typing : BOOLEAN]

LEMMA NoneTypes == NoJob \in Works /\ NoJob.at = "idle" /\ ~NoJob.killed /\ NoRequest \in Requests
BY TerminalConstants DEF NoJob, Works, Places, Objects, NoRequest, Requests, Nobody

LEMMA GoesTo ==
    ASSUME TerminalTypeOK, NEW w \in HostWorkers, NEW place \in Places, Goes(w, place)
    PROVE  /\ job' \in [HostWorkers -> Works]
           /\ job'[w].at = place /\ ~job'[w].killed
           /\ job'[w].works = job[w].works /\ job'[w].before = job[w].before
           /\ \A v \in HostWorkers \ {w} : job'[v] = job[v]
<1>1. job \in [HostWorkers -> Works]
  BY DEF TerminalTypeOK, Works
<1>2. job[w] \in Works
  BY <1>1
<1> DEFINE next == [job[w] EXCEPT !.at = place, !.killed = FALSE]
<1>3. /\ next \in Works /\ next.at = place /\ ~next.killed
      /\ next.works = job[w].works /\ next.before = job[w].before
  BY <1>2 DEF Works
<1>4. job' = [job EXCEPT ![w] = next]
  BY <1>1, <1>2 DEF Goes
<1> QED
  BY <1>1, <1>3, <1>4

LEMMA OverIs ==
    ASSUME TerminalTypeOK, NEW w \in HostWorkers, Over(w)
    PROVE  /\ job' \in [HostWorkers -> Works] /\ job'[w] = NoJob
           /\ \A v \in HostWorkers \ {w} : job'[v] = job[v]
BY NoneTypes DEF TerminalTypeOK, Works, Over

LEMMA SpawnIs ==
    ASSUME TerminalTypeOK, NEW w \in HostWorkers, NEW place \in Places,
           NEW task \in SUBSET TypedMessages, Spawn(w, place, task)
    PROVE  /\ job' \in [HostWorkers -> Works]
           /\ job'[w].at = place /\ job'[w].task = task /\ ~job'[w].killed
           /\ \A v \in HostWorkers \ {w} :
                job'[v].at = job[v].at /\ job'[v].works = job[v].works
                /\ job'[v].before = job[v].before /\ job'[v].task = job[v].task
                /\ job'[v].killed = Alive(v)
<1> DEFINE new == [NoJob EXCEPT !.at = place, !.task = task, !.works = shown]
<1> DEFINE cut(v) == [job[v] EXCEPT !.killed = Alive(v)]
<1>1. \A v \in HostWorkers : job[v] \in Works
  BY DEF TerminalTypeOK, Works
<1>2. new \in Works /\ new.at = place /\ new.task = task /\ ~new.killed
  BY NoneTypes DEF NoJob, Works, TerminalTypeOK
<1>3. \A v \in HostWorkers :
         /\ cut(v) \in Works /\ cut(v).at = job[v].at /\ cut(v).works = job[v].works
         /\ cut(v).before = job[v].before /\ cut(v).task = job[v].task
         /\ cut(v).killed = Alive(v)
  BY <1>1 DEF Works, Alive
<1>4. job' = [v \in HostWorkers |-> IF v = w THEN new ELSE cut(v)]
  BY DEF Spawn
<1> HIDE DEF new, cut
<1> QED
  BY <1>2, <1>3, <1>4

\* The run of a worker takes a task on the conversation that is shown.
LEMMA RunsOnIs ==
    ASSUME TerminalTypeOK, NEW w \in HostWorkers, NEW task \in SUBSET TypedMessages,
           NEW snapshot \in SUBSET Conversation, RunsOn(w, task, snapshot)
    PROVE  /\ job' \in [HostWorkers -> Works]
           /\ job'[w].at = "run" /\ job'[w].works = shown /\ job'[w].before = snapshot
           /\ job'[w].killed = job[w].killed
           /\ \A v \in HostWorkers \ {w} : job'[v] = job[v]
           /\ contexts' \in [Objects -> Conversation]
           /\ contexts'[shown].session = Shown.session
           /\ Held(contexts'[shown]) = Held(Shown) \cup task
<1>1. job \in [HostWorkers -> Works] /\ contexts \in [Objects -> Conversation] /\ shown \in Objects
  BY DEF TerminalTypeOK, Works
<1>2. job[w] \in Works /\ contexts[shown] \in Conversation
  BY <1>1
<1> DEFINE next == [job[w] EXCEPT !.at = "run", !.works = shown, !.task = task, !.before = snapshot]
<1> DEFINE c == [Shown EXCEPT !.told = @ \cup task, !.inbox = @ \ task]
<1>3. /\ next \in Works /\ next.at = "run" /\ next.works = shown /\ next.before = snapshot
      /\ next.killed = job[w].killed
  BY <1>1, <1>2 DEF Works, Places
<1>4. c \in Conversation /\ c.session = Shown.session /\ Held(c) = Held(Shown) \cup task
  BY <1>2 DEF Conversation, Held, Shown
<1>5. job' = [job EXCEPT ![w] = next]
  BY <1>1, <1>2 DEF RunsOn
<1>6. contexts' = [contexts EXCEPT ![shown] = c]
  BY <1>1, <1>2 DEF RunsOn, Shown
<1> HIDE DEF next, c
<1> QED
  BY <1>1, <1>3, <1>4, <1>5, <1>6

Pauses(w, place, cards, questions) ==
    job' = [job EXCEPT ![w].at = place, ![w].cards = cards, ![w].questions = questions]

LEMMA PausesAt ==
    ASSUME TerminalTypeOK, NEW w \in HostWorkers, NEW place \in Places,
           NEW cards \in 0..MaxAsked, NEW questions \in 0..MaxAsked,
           Pauses(w, place, cards, questions)
    PROVE  /\ job' \in [HostWorkers -> Works]
           /\ job'[w].at = place /\ job'[w].works = job[w].works
           /\ job'[w].before = job[w].before /\ job'[w].killed = job[w].killed
           /\ \A v \in HostWorkers \ {w} : job'[v] = job[v]
<1>1. job \in [HostWorkers -> Works]
  BY DEF TerminalTypeOK, Works
<1>2. job[w] \in Works
  BY <1>1
<1> DEFINE next == [job[w] EXCEPT !.at = place, !.cards = cards, !.questions = questions]
<1>3. /\ next \in Works /\ next.at = place /\ next.works = job[w].works
      /\ next.before = job[w].before /\ next.killed = job[w].killed
  BY <1>2 DEF Works
<1>4. job' = [job EXCEPT ![w] = next]
  BY <1>1, <1>2 DEF Pauses
<1> HIDE DEF next
<1> QED
  BY <1>1, <1>3, <1>4

LEMMA SwitchIs ==
    ASSUME TerminalTypeOK, NEW o \in Objects, NEW c \in Conversation, SwitchTo(o, c)
    PROVE  /\ contexts' \in [Objects -> Conversation] /\ shown' = o /\ Shown' = c
           /\ givenUp' \in SUBSET TypedMessages /\ Held(Shown) \subseteq givenUp'
           /\ givenUp \subseteq givenUp'
<1>1. Shown \in Conversation /\ givenUp \in SUBSET TypedMessages
  BY DEF TerminalTypeOK, Shown
<1>2. Held(Shown) \in SUBSET TypedMessages
  BY <1>1 DEF Held, Conversation
<1>3. contexts' \in [Objects -> Conversation] /\ shown' = o /\ contexts'[o] = c
  BY DEF SwitchTo, TerminalTypeOK
<1>4. Shown' = c
  BY <1>3 DEF Shown
<1> QED
  BY <1>1, <1>2, <1>3, <1>4 DEF SwitchTo

\* The least of a set of numbers is one of them.
LEMMA LeastNumber == ASSUME NEW T \in SUBSET Nat, T # {} PROVE \E x \in T : \A y \in T : x <= y
<1> DEFINE R == OpToRel(<, Nat)
<1>1. IsWellFoundedOn(R, Nat)
  BY NatLessThanWellFounded
<1> HIDE DEF R
<1>2. PICK x \in T : \A y \in T : ~ (<<y, x>> \in R)
  BY <1>1, WFMin
<1>3. \A y \in T : ~ (y < x)
  BY <1>2 DEF R, OpToRel
<1> QED
  BY <1>3

LEMMA NextTab ==
    ASSUME NEW S \in SUBSET (1..MaxAsked), S # {}
    PROVE  Next1(S) \in 0..MaxAsked + 1
<1>1. S \in SUBSET Nat /\ MaxAsked \in Nat
  BY TerminalConstants
<1>2. \E q \in S : \A p \in S : q <= p
  BY <1>1, LeastNumber
<1>3. Next1(S) \in S
  BY <1>2 DEF Next1
<1>4. Next1(S) \in 1..MaxAsked
  BY <1>3
<1> QED
  BY <1>1, <1>4

\* What the user does with a form leaves it a form.
LEMMA FormStays ==
    ASSUME TerminalTypeOK, NEW n \in 1..MaxAsked, UseForm(n)
    PROVE  waitFor' \in Requests
<1>1. waitFor \in Requests /\ MaxAsked \in Nat
  BY TerminalConstants DEF TerminalTypeOK, Requests
<1>2. Completes(waitFor) \in Requests
  BY <1>1 DEF Completes, Requests
<1>3. \A tab \in 0..MaxAsked + 1, typing \in BOOLEAN :
        [waitFor EXCEPT !.tab = tab, !.typing = typing] \in Requests
  BY <1>1 DEF Requests
<1>4. CASE waitFor.tab = SubmitTab /\ waitFor.open = {} /\ waitFor' = Completes(waitFor)
  BY <1>2, <1>4
<1>5. CASE waitFor.open # {} /\ waitFor' = [waitFor EXCEPT !.tab = Next1(waitFor.open)]
  <2>1. waitFor.open \in SUBSET (1..MaxAsked)
    BY <1>1 DEF Requests
  <2>2. Next1(waitFor.open) \in 0..MaxAsked + 1
    BY <1>5, <2>1, NextTab
  <2> QED
    BY <1>1, <1>5, <2>2 DEF Requests
<1>6. CASE waitFor' = AnswerTab(waitFor, n = 1)
  <2> DEFINE now == [waitFor EXCEPT !.open = @ \ {waitFor.tab}, !.typing = FALSE]
  <2>1. now \in Requests
    BY <1>1 DEF Requests
  <2>2. Completes(now) \in Requests
    BY <2>1 DEF Completes, Requests
  <2>3. now.open \in SUBSET (1..MaxAsked)
    BY <2>1 DEF Requests
  <2>4. now.open # {} => Next1(now.open) \in 0..MaxAsked + 1
    BY <2>3, NextTab
  <2>5. SubmitTab \in 0..MaxAsked + 1
    BY <1>1 DEF SubmitTab
  <2>6. [now EXCEPT !.tab = IF now.open = {} THEN SubmitTab ELSE Next1(now.open)] \in Requests
    <3> HIDE DEF now
    <3> QED
      BY <2>1, <2>4, <2>5 DEF Requests
  <2> HIDE DEF now
  <2>7. waitFor' = IF n = 1 THEN Completes(now)
                   ELSE [now EXCEPT !.tab = IF now.open = {} THEN SubmitTab ELSE Next1(now.open)]
    BY <1>6 DEF AnswerTab, now
  <2> QED
    BY <2>2, <2>6, <2>7
<1>7. CASE waitFor' = [waitFor EXCEPT !.typing = TRUE]
  BY <1>1, <1>7 DEF Requests
<1>8. CASE \E tab \in 1..n \cup {SubmitTab} : waitFor' = [waitFor EXCEPT !.tab = tab, !.typing = FALSE]
  <2>1. PICK tab \in 1..n \cup {SubmitTab} : waitFor' = [waitFor EXCEPT !.tab = tab, !.typing = FALSE]
    BY <1>8
  <2>2. tab \in 0..MaxAsked + 1
    BY <1>1 DEF SubmitTab
  <2> QED
    BY <1>3, <2>1, <2>2
<1> QED
  BY <1>4, <1>5, <1>6, <1>7, <1>8 DEF UseForm

-----------------------------------------------------------------------------
(* Terminal: its types, and the snapshot a turn goes back to.              *)

Snaps == \A w \in HostWorkers : TurnUnderWay(w) => job[w].before # {}
Sorts == TerminalTypeOK /\ Snaps

LEMMA Parts ==
    ASSUME TerminalTypeOK
    PROVE  /\ contexts \in [Objects -> Conversation] /\ shown \in Objects /\ Shown \in Conversation
           /\ saved \in [HostSessions -> SUBSET Conversation]
           /\ waitFor \in Requests /\ job \in [HostWorkers -> Works]
           /\ shells \in 0..2 /\ typed \in 0..MaxTyped /\ givenUp \in SUBSET TypedMessages
           /\ busy \in BOOLEAN /\ crossed \in BOOLEAN /\ unsaved \in BOOLEAN
           /\ Held(Shown) \in SUBSET TypedMessages
BY DEF TerminalTypeOK, Shown, Works, Requests, Held, Conversation

LEMMA PartsMake ==
    ASSUME contexts' \in [Objects -> Conversation], shown' \in Objects,
           saved' \in [HostSessions -> SUBSET Conversation],
           cancel' \in HostWorkers \cup {Nobody}, token' \in [HostWorkers -> BOOLEAN],
           waitFor' \in Requests, job' \in [HostWorkers -> Works],
           shells' \in 0..2, typed' \in 0..MaxTyped, givenUp' \in SUBSET TypedMessages,
           busy' \in BOOLEAN, crossed' \in BOOLEAN, unsaved' \in BOOLEAN
    PROVE  TerminalTypeOK'
BY DEF TerminalTypeOK, Works, Requests

\* What a step that leaves the workers where they are does to the types.
LEMMA UserTyped ==
    ASSUME Sorts, job' = job, waitFor' \in Requests,
           contexts' \in [Objects -> Conversation], shown' \in Objects,
           token' \in [HostWorkers -> BOOLEAN], shells' \in 0..2, typed' \in 0..MaxTyped,
           givenUp' \in SUBSET TypedMessages, busy' \in BOOLEAN, crossed' \in BOOLEAN,
           UNCHANGED <<saved, cancel, unsaved>>
    PROVE  Sorts'
<1>1. TerminalTypeOK'
  BY Parts, PartsMake DEF Sorts, TerminalTypeOK
<1> QED
  BY <1>1 DEF Sorts, Snaps, TurnUnderWay

\* What a step of a worker does to them.
LEMMA WorkerTyped ==
    ASSUME Sorts, NEW w \in HostWorkers, job' \in [HostWorkers -> Works],
           \A v \in HostWorkers \ {w} : job'[v].at = job[v].at /\ job'[v].before = job[v].before,
           \/ ~(TurnUnderWay(w))' 
           \/ job'[w].before # {}
           \/ TurnUnderWay(w) /\ job'[w].before = job[w].before,
           contexts' \in [Objects -> Conversation], shown' \in Objects,
           saved' \in [HostSessions -> SUBSET Conversation],
           cancel' \in HostWorkers \cup {Nobody}, token' \in [HostWorkers -> BOOLEAN],
           waitFor' \in Requests, shells' = shells, typed' \in 0..MaxTyped,
           givenUp' \in SUBSET TypedMessages,
           busy' \in BOOLEAN, crossed' \in BOOLEAN, unsaved' \in BOOLEAN
    PROVE  Sorts'
<1>1. TerminalTypeOK'
  BY Parts, PartsMake DEF Sorts
<1>2. ASSUME NEW v \in HostWorkers, (TurnUnderWay(v))' PROVE job'[v].before # {}
  <2>1. CASE v = w
    BY <1>2, <2>1 DEF Sorts, Snaps
  <2>2. CASE v # w
    BY <1>2, <2>2 DEF Sorts, Snaps, TurnUnderWay
  <2> QED
    BY <2>1, <2>2
<1> QED
  BY <1>1, <1>2 DEF Sorts, Snaps

LEMMA SnapshotIs ==
    ASSUME Sorts, NEW w \in HostWorkers, TurnUnderWay(w)
    PROVE  Snapshot(w) \in Conversation
<1>1. job[w] \in Works /\ job[w].before # {}
  BY Parts DEF Sorts, Snaps
<1>2. Snapshot(w) \in job[w].before
  BY <1>1 DEF Snapshot
<1> QED
  BY <1>1, <1>2 DEF Works

LEMMA SortsInit == TerminalInit => Sorts
<1> SUFFICES ASSUME NEW s \in HostSessions, NEW empty,
                    empty = [session |-> s, told |-> {}, inbox |-> {}],
                    contexts = [o \in Objects |-> empty],
                    shown = 1, saved = [x \in HostSessions |-> {}],
                    busy = FALSE, cancel = Nobody, token = [w \in HostWorkers |-> FALSE],
                    waitFor = NoRequest, job = [w \in HostWorkers |-> NoJob],
                    shells = 0, typed = 0, givenUp = {}, unsaved = FALSE, crossed = FALSE
             PROVE  Sorts
  BY DEF TerminalInit
<1>1. empty \in Conversation
  BY DEF Conversation
<1>2. /\ contexts \in [Objects -> Conversation] /\ shown \in Objects
      /\ saved \in [HostSessions -> SUBSET Conversation]
      /\ shells \in 0..2 /\ typed \in 0..MaxTyped /\ token \in [HostWorkers -> BOOLEAN]
  BY <1>1, TerminalConstants DEF Objects
<1>3. waitFor \in Requests /\ job \in [HostWorkers -> Works]
  BY NoneTypes
<1>4. TerminalTypeOK
  BY <1>2, <1>3 DEF TerminalTypeOK, Works, Requests
<1>5. Snaps
  BY NoneTypes DEF Snaps, TurnUnderWay
<1> QED
  BY <1>4, <1>5 DEF Sorts

LEMMA UserKeepsSorts ==
    ASSUME Sorts,
           \/ SendToInbox \/ Shell \/ ShellEnds \/ Escape \/ AnswerCard
           \/ \E n \in 1..MaxAsked : UseForm(n)
           \/ \E o \in Objects, s \in HostSessions : NewConversation(o, s)
    PROVE  Sorts'
<1> USE DEF logVars
<1>0. TerminalTypeOK /\ token \in [HostWorkers -> BOOLEAN] /\ MaxTyped \in Nat
  BY TerminalConstants DEF Sorts, TerminalTypeOK
<1>1. CASE SendToInbox
  <2>1. typed' \in 0..MaxTyped /\ typed' \in TypedMessages
    BY <1>0, <1>1, Parts DEF SendToInbox, TypedMessages
  <2> DEFINE c == [Shown EXCEPT !.inbox = @ \cup {typed'}]
  <2>2. c \in Conversation
    BY <1>0, <2>1, Parts DEF Conversation
  <2>3. contexts' = [contexts EXCEPT ![shown] = c]
    BY <1>0, <1>1, Parts DEF SendToInbox, Shown
  <2> HIDE DEF c
  <2> QED
    BY <1>0, <1>1, <2>1, <2>2, <2>3, Parts, UserTyped DEF SendToInbox
<1>2. CASE Shell
  <2>1. shells' \in 0..2
    BY <1>0, <1>2, Parts DEF Shell
  <2>2. crossed' \in BOOLEAN /\ busy' \in BOOLEAN
    BY <1>2 DEF Shell
  <2> QED
    BY <1>0, <1>2, <2>1, <2>2, Parts, UserTyped DEF Shell
<1>3. CASE ShellEnds
  <2>1. shells' \in 0..2
    BY <1>0, <1>3, Parts DEF ShellEnds
  <2> QED
    BY <1>0, <1>3, <2>1, Parts, UserTyped DEF ShellEnds
<1>4. CASE Escape
  <2>1. \A f \in Requests : [f EXCEPT !.typing = FALSE] \in Requests
                            /\ [f EXCEPT !.state = "cancelled"] \in Requests
    BY DEF Requests
  <2>2. waitFor' \in Requests
    BY <1>0, <1>4, <2>1, Parts DEF Escape
  <2>3. token' \in [HostWorkers -> BOOLEAN]
    BY <1>0, <1>4 DEF Escape
  <2> QED
    BY <1>0, <1>4, <2>2, <2>3, Parts, UserTyped DEF Escape
<1>5. CASE AnswerCard
  <2>1. \A f \in Requests : [f EXCEPT !.state = "answered"] \in Requests
    BY DEF Requests
  <2> QED
    BY <1>0, <1>5, <2>1, Parts, UserTyped DEF AnswerCard
<1>6. ASSUME NEW n \in 1..MaxAsked, UseForm(n) PROVE Sorts'
  <2>1. waitFor' \in Requests
    BY <1>0, <1>6, FormStays
  <2> QED
    BY <1>0, <1>6, <2>1, Parts, UserTyped DEF UseForm
<1>7. ASSUME NEW o \in Objects, NEW s \in HostSessions, NewConversation(o, s) PROVE Sorts'
  <2> DEFINE c == [session |-> s, told |-> {}, inbox |-> {}]
  <2>1. c \in Conversation
    BY DEF Conversation
  <2>2. SwitchTo(o, c)
    BY <1>7 DEF NewConversation
  <2> HIDE DEF c
  <2>3. crossed' \in BOOLEAN
    BY <1>0, <1>7 DEF NewConversation, Commanded
  <2>4. /\ contexts' \in [Objects -> Conversation] /\ shown' \in Objects
        /\ givenUp' \in SUBSET TypedMessages
    BY <1>0, <2>1, <2>2, SwitchIs
  <2> QED
    BY <1>0, <1>7, <2>3, <2>4, Parts, UserTyped DEF NewConversation
<1> QED
  BY <1>1, <1>2, <1>3, <1>4, <1>5, <1>6, <1>7

LEMMA OpensIs ==
    ASSUME NEW w \in HostWorkers, NEW kind \in {"card", "form"}, NEW n \in 0..MaxAsked,
           Opens(w, kind, n)
    PROVE  waitFor' \in Requests
<1>1. MaxAsked \in Nat /\ 1..n \in SUBSET (1..MaxAsked) /\ 1 \in 0..MaxAsked + 1 /\ 0 \in 0..MaxAsked + 1
  BY TerminalConstants
<1> QED
  BY <1>1 DEF Opens, Requests

LEMMA SpawnKeepsSorts ==
    ASSUME Sorts, NEW w \in HostWorkers, NEW place \in {"ready", "list", "load"},
           NEW task \in SUBSET TypedMessages, Spawn(w, place, task),
           typed' \in 0..MaxTyped, busy' \in BOOLEAN, crossed' \in BOOLEAN,
           UNCHANGED <<contexts, shown, saved, cancel, token, waitFor, shells, givenUp, unsaved>>
    PROVE  Sorts'
<1>0. TerminalTypeOK /\ place \in Places
  BY DEF Sorts, Places
<1>1. /\ job' \in [HostWorkers -> Works] /\ job'[w].at = place
      /\ \A v \in HostWorkers \ {w} : job'[v].at = job[v].at /\ job'[v].before = job[v].before
  BY <1>0, SpawnIs
<1>2. ~(TurnUnderWay(w))'
  BY <1>1 DEF TurnUnderWay
<1>3. cancel \in HostWorkers \cup {Nobody} /\ token \in [HostWorkers -> BOOLEAN]
  BY <1>0 DEF TerminalTypeOK
<1> QED
  BY <1>0, <1>1, <1>2, <1>3, Parts, WorkerTyped

LEMMA WorkerKeepsSorts ==
    ASSUME Sorts, NEW w \in HostWorkers,
           \/ SendTask(w) \/ BeginTurn(w) \/ LoopLooks(w) \/ Ask(w) \/ Finish(w) \/ Drain(w)
           \/ TurnOver(w) \/ CutShort(w) \/ Listed(w) \/ Picked(w) \/ Dropped(w)
           \/ \E place \in {"list", "load"} : ResumeCommand(w, place)
           \/ \E cards \in 0..MaxAsked : Applied(w, cards)
           \/ \E cards, questions \in 0..MaxAsked : Pause(w, cards, questions)
    PROVE  Sorts'
<1> USE DEF logVars
<1>0. /\ TerminalTypeOK /\ token \in [HostWorkers -> BOOLEAN] /\ MaxTyped \in Nat
      /\ cancel \in HostWorkers \cup {Nobody} /\ job[w] \in Works /\ NoRequest \in Requests
      /\ w \in HostWorkers \cup {Nobody} /\ Nobody \in HostWorkers \cup {Nobody}
      /\ [token EXCEPT ![w] = FALSE] \in [HostWorkers -> BOOLEAN]
  BY TerminalConstants, Parts, NoneTypes DEF Sorts, TerminalTypeOK
<1>places. {"run", "ask", "wrap", "save", "saving", "pick", "load", "dropped"} \subseteq Places
  BY DEF Places
<1>1. CASE SendTask(w)
  <2>1. typed' \in 0..MaxTyped /\ {typed'} \in SUBSET TypedMessages
    BY <1>0, <1>1, Parts DEF SendTask, TypedMessages
  <2> QED
    BY <1>0, <1>1, <2>1, Parts, SpawnKeepsSorts DEF SendTask
<1>2. CASE BeginTurn(w)
  <2> DEFINE task == job[w].task
  <2> DEFINE snapshot == {Shown}
  <2>1. task \in SUBSET TypedMessages /\ snapshot \in SUBSET Conversation /\ snapshot # {}
    BY <1>0, Parts DEF Works
  <2>2. RunsOn(w, task, snapshot)
    BY <1>2 DEF BeginTurn
  <2> HIDE DEF task, snapshot
  <2>3. /\ job' \in [HostWorkers -> Works] /\ job'[w].before = snapshot
        /\ \A v \in HostWorkers \ {w} : job'[v] = job[v]
        /\ contexts' \in [Objects -> Conversation]
    BY <1>0, <2>1, <2>2, RunsOnIs
  <2> QED
    BY <1>0, <1>2, <2>1, <2>3, Parts, WorkerTyped DEF BeginTurn
<1>3. CASE LoopLooks(w)
  <2>1. job[w].works \in Objects
    BY <1>0 DEF Works
  <2> DEFINE c == [contexts[job[w].works] EXCEPT !.told = @ \cup contexts[job[w].works].inbox, !.inbox = {}]
  <2>2. c \in Conversation
    BY <1>0, <2>1, Parts DEF Conversation
  <2>3. contexts' = [contexts EXCEPT ![job[w].works] = c]
    BY <1>0, <1>3, <2>1, Parts DEF LoopLooks
  <2> HIDE DEF c
  <2>4. contexts' \in [Objects -> Conversation]
    BY <1>0, <2>1, <2>2, <2>3, Parts
  <2>5. TurnUnderWay(w)
    BY <1>3 DEF LoopLooks, TurnUnderWay
  <2> QED
    BY <1>0, <1>3, <2>4, <2>5, Parts, WorkerTyped DEF LoopLooks
<1>4. CASE Ask(w)
  <2>1. job[w].questions \in 0..MaxAsked /\ 0 \in 0..MaxAsked
    BY <1>0, TerminalConstants DEF Works
  <2>2. waitFor' \in Requests
    BY <1>4, <2>1, OpensIs DEF Ask
  <2>3. TurnUnderWay(w)
    BY <1>4 DEF Ask, TurnUnderWay
  <2> QED
    BY <1>0, <1>4, <2>2, <2>3, Parts, WorkerTyped DEF Ask
<1>5. CASE Finish(w)
  <2>1. /\ job' \in [HostWorkers -> Works] /\ job'[w].before = job[w].before
        /\ \A v \in HostWorkers \ {w} : job'[v] = job[v]
    BY <1>0, <1>5, <1>places, GoesTo DEF Finish
  <2>2. TurnUnderWay(w) /\ job[w].works \in Objects
    BY <1>0, <1>5 DEF Finish, TurnUnderWay, Works
  <2> QED
    BY <1>0, <1>5, <2>1, <2>2, Parts, WorkerTyped DEF Finish
<1>6. CASE Drain(w)
  <2>1. TurnUnderWay(w) /\ job[w].before # {}
    BY <1>6 DEF Drain, TurnUnderWay, Sorts, Snaps
  <2>2. Shown.inbox \in SUBSET TypedMessages /\ job[w].before \in SUBSET Conversation
    BY <1>0, Parts DEF Works, Conversation
  <2>3. /\ job' \in [HostWorkers -> Works] /\ job'[w].before = job[w].before
        /\ \A v \in HostWorkers \ {w} : job'[v] = job[v]
        /\ contexts' \in [Objects -> Conversation]
    BY <1>0, <1>6, <1>places, <2>2, GoesTo, RunsOnIs, Parts DEF Drain
  <2> QED
    BY <1>0, <1>6, <2>1, <2>3, Parts, WorkerTyped DEF Drain
<1>7. CASE TurnOver(w)
  <2>1. /\ job' \in [HostWorkers -> Works] /\ job'[w] = NoJob
        /\ \A v \in HostWorkers \ {w} : job'[v] = job[v]
    BY <1>0, <1>7, OverIs DEF TurnOver
  <2>2. ~(TurnUnderWay(w))'
    BY <2>1, NoneTypes DEF TurnUnderWay
  <2> QED
    BY <1>0, <1>7, <2>1, <2>2, Parts, WorkerTyped DEF TurnOver
<1>8. CASE CutShort(w)
  <2>1. /\ job' \in [HostWorkers -> Works] /\ job'[w] = NoJob
        /\ \A v \in HostWorkers \ {w} : job'[v] = job[v]
    BY <1>0, <1>8, OverIs DEF CutShort
  <2>2. ~(TurnUnderWay(w))'
    BY <2>1, NoneTypes DEF TurnUnderWay
  <2>3. busy' \in BOOLEAN /\ cancel' \in HostWorkers \cup {Nobody}
    BY <1>0, <1>8, Parts DEF CutShort
  <2>5. job[w].task \in SUBSET TypedMessages /\ givenUp \in SUBSET TypedMessages
    BY <1>0, Parts DEF Works
  <2>6. givenUp' = givenUp \/ givenUp' = givenUp \cup job[w].task
    BY <1>8 DEF CutShort
  <2>4. givenUp' \in SUBSET TypedMessages
    BY <2>5, <2>6
  <2> QED
    BY <1>0, <1>8, <2>1, <2>2, <2>3, <2>4, Parts, WorkerTyped DEF CutShort
<1>9. CASE Listed(w)
  <2>1. CASE Over(w) /\ UNCHANGED <<busy, cancel, token, waitFor>>
    <3>1. /\ job' \in [HostWorkers -> Works] /\ job'[w] = NoJob
          /\ \A v \in HostWorkers \ {w} : job'[v] = job[v]
      BY <1>0, <2>1, OverIs
    <3>2. ~(TurnUnderWay(w))'
      BY <3>1, NoneTypes DEF TurnUnderWay
    <3> QED
      BY <1>0, <1>9, <2>1, <3>1, <3>2, Parts, WorkerTyped DEF Listed
  <2>2. CASE /\ Goes(w, "pick") /\ busy' = TRUE
             /\ cancel' = w /\ token' = [token EXCEPT ![w] = FALSE] /\ Opens(w, "form", 1)
    <3>1. /\ job' \in [HostWorkers -> Works] /\ job'[w].at = "pick"
          /\ \A v \in HostWorkers \ {w} : job'[v] = job[v]
      BY <1>0, <2>2, <1>places, GoesTo
    <3>2. ~(TurnUnderWay(w))'
      BY <3>1 DEF TurnUnderWay
    <3>3. waitFor' \in Requests
      BY <2>2, OpensIs, TerminalConstants
    <3> QED
      BY <1>0, <1>9, <2>2, <3>1, <3>2, <3>3, Parts, WorkerTyped DEF Listed
  <2> QED
    BY <1>9, <2>1, <2>2 DEF Listed
<1>10. CASE Picked(w)
  <2>1. /\ job' \in [HostWorkers -> Works] /\ job'[w].at \in {"load", "dropped", "idle"}
        /\ \A v \in HostWorkers \ {w} : job'[v] = job[v]
    BY <1>0, <1>10, <1>places, GoesTo, OverIs, NoneTypes DEF Picked
  <2>2. ~(TurnUnderWay(w))'
    BY <2>1 DEF TurnUnderWay
  <2>3. busy' \in BOOLEAN /\ cancel' \in HostWorkers \cup {Nobody}
    BY <1>0, <1>10, Parts DEF Picked
  <2> QED
    BY <1>0, <1>10, <2>1, <2>2, <2>3, Parts, WorkerTyped DEF Picked
<1>11. CASE Dropped(w)
  <2>1. /\ job' \in [HostWorkers -> Works] /\ job'[w] = NoJob
        /\ \A v \in HostWorkers \ {w} : job'[v] = job[v]
    BY <1>0, <1>11, OverIs DEF Dropped
  <2>2. ~(TurnUnderWay(w))'
    BY <2>1, NoneTypes DEF TurnUnderWay
  <2> QED
    BY <1>0, <1>11, <2>1, <2>2, Parts, WorkerTyped DEF Dropped
<1>12. ASSUME NEW place \in {"list", "load"}, ResumeCommand(w, place) PROVE Sorts'
  <2>1. crossed' \in BOOLEAN
    BY <1>0, <1>12, Parts DEF ResumeCommand, Commanded
  <2> QED
    BY <1>0, <1>12, <2>1, Parts, SpawnKeepsSorts DEF ResumeCommand
<1>13. ASSUME NEW cards \in 0..MaxAsked, Applied(w, cards) PROVE Sorts'
  <2> DEFINE questions == IF waitFor.kind = "card" THEN job[w].questions ELSE 0
  <2> DEFINE place == IF cards + questions = 0 THEN "run" ELSE "ask"
  <2>1. questions \in 0..MaxAsked /\ place \in Places
    BY <1>0, <1>places, TerminalConstants DEF Works
  <2>2. Pauses(w, place, cards, questions)
    BY <1>13 DEF Applied, Pauses
  <2> HIDE DEF questions, place
  <2>3. /\ job' \in [HostWorkers -> Works] /\ job'[w].before = job[w].before
        /\ \A v \in HostWorkers \ {w} : job'[v] = job[v]
    BY <1>0, <2>1, <2>2, PausesAt
  <2>4. TurnUnderWay(w)
    BY <1>13 DEF Applied, TurnUnderWay
  <2> QED
    BY <1>0, <1>13, <2>3, <2>4, Parts, WorkerTyped DEF Applied
<1>14. ASSUME NEW cards \in 0..MaxAsked, NEW questions \in 0..MaxAsked, Pause(w, cards, questions)
       PROVE  Sorts'
  <2>1. Pauses(w, "ask", cards, questions)
    BY <1>14 DEF Pause, Pauses
  <2>2. /\ job' \in [HostWorkers -> Works] /\ job'[w].before = job[w].before
        /\ \A v \in HostWorkers \ {w} : job'[v] = job[v]
    BY <1>0, <1>places, <2>1, PausesAt
  <2>3. TurnUnderWay(w) /\ job[w].works \in Objects
    BY <1>0, <1>14 DEF Pause, TurnUnderWay, Works
  <2> QED
    BY <1>0, <1>14, <2>2, <2>3, Parts, WorkerTyped DEF Pause
<1> QED
  BY <1>1, <1>2, <1>3, <1>4, <1>5, <1>6, <1>7, <1>8, <1>9, <1>10, <1>11, <1>12, <1>13, <1>14

LEMMA EndsKeepSorts ==
    ASSUME Sorts, NEW w \in HostWorkers,
           \/ TurnCancelled(w)
           \/ \E refused \in BOOLEAN : RunFails(w, refused) \/ SaveStarts(w, refused)
           \/ \E o \in Objects, s \in HostSessions : Loaded(w, o, s)
    PROVE  Sorts'
<1>0. /\ TerminalTypeOK /\ token \in [HostWorkers -> BOOLEAN]
      /\ cancel \in HostWorkers \cup {Nobody} /\ job[w] \in Works /\ NoRequest \in Requests
      /\ job[w].works \in Objects /\ job[w].task \in SUBSET TypedMessages
  BY Parts, NoneTypes DEF Sorts, TerminalTypeOK, Works
<1>places. {"save", "saving"} \subseteq Places
  BY DEF Places
<1>1. CASE TurnCancelled(w)
  <2>1. TurnUnderWay(w)
    BY <1>1 DEF TurnCancelled, TurnUnderWay
  <2>2. Snapshot(w) \in Conversation
    BY <2>1, SnapshotIs
  <2>3. /\ job' \in [HostWorkers -> Works] /\ job'[w].before = job[w].before
        /\ \A v \in HostWorkers \ {w} : job'[v] = job[v]
    BY <1>0, <1>1, <1>places, GoesTo DEF TurnCancelled
  <2>4. contexts' \in [Objects -> Conversation] /\ shown' \in Objects
    BY <1>0, <1>1, <2>2, Parts DEF TurnCancelled, RolledBack
  <2>5. givenUp' \in SUBSET TypedMessages
    BY <1>0, <1>1, Parts DEF TurnCancelled
  <2>6. waitFor' \in Requests
    BY <1>0, <1>1, Parts DEF TurnCancelled
  <2> QED
    BY <1>0, <1>1, <2>1, <2>3, <2>4, <2>5, <2>6, Parts, WorkerTyped DEF TurnCancelled
<1>2. ASSUME NEW refused \in BOOLEAN, RunFails(w, refused) PROVE Sorts'
  <2>1. TurnUnderWay(w)
    BY <1>2 DEF RunFails, TurnUnderWay
  <2>2. /\ job' \in [HostWorkers -> Works] /\ job'[w].before = job[w].before
        /\ \A v \in HostWorkers \ {w} : job'[v] = job[v]
    BY <1>0, <1>2, <1>places, GoesTo DEF RunFails
  <2> DEFINE c == [contexts[job[w].works] EXCEPT !.told = @ \ job[w].task]
  <2>3. c \in Conversation
    BY <1>0, Parts DEF Conversation
  <2>4. contexts' = IF refused THEN [contexts EXCEPT ![job[w].works] = c] ELSE contexts
    BY <1>0, <1>2, Parts DEF RunFails
  <2> HIDE DEF c
  <2>5. contexts' \in [Objects -> Conversation]
    BY <1>0, <2>3, <2>4, Parts
  <2>6. givenUp' \in SUBSET TypedMessages
    BY <1>0, <1>2, Parts DEF RunFails
  <2> QED
    BY <1>0, <1>2, <2>1, <2>2, <2>5, <2>6, Parts, WorkerTyped DEF RunFails
<1>3. ASSUME NEW kept \in BOOLEAN, SaveStarts(w, kept) PROVE Sorts'
  <2>1. TurnUnderWay(w)
    BY <1>3 DEF SaveStarts, TurnUnderWay
  <2>2. /\ job' \in [HostWorkers -> Works] /\ job'[w].before = job[w].before
        /\ \A v \in HostWorkers \ {w} : job'[v] = job[v]
    BY <1>0, <1>3, <1>places, GoesTo DEF SaveStarts
  <2>3. saved' \in [HostSessions -> SUBSET Conversation] /\ unsaved' \in BOOLEAN
    BY <1>0, <1>3, Parts DEF SaveStarts
  <2> QED
    BY <1>0, <1>3, <2>1, <2>2, <2>3, Parts, WorkerTyped DEF SaveStarts
<1>4. ASSUME NEW o \in Objects, NEW s \in HostSessions, Loaded(w, o, s) PROVE Sorts'
  <2>1. /\ job' \in [HostWorkers -> Works] /\ job'[w] = NoJob
        /\ \A v \in HostWorkers \ {w} : job'[v] = job[v]
    BY <1>0, <1>4, OverIs DEF Loaded
  <2>2. ~(TurnUnderWay(w))'
    BY <2>1, NoneTypes DEF TurnUnderWay
  <2>3. /\ contexts' \in [Objects -> Conversation] /\ shown' \in Objects
        /\ givenUp' \in SUBSET TypedMessages
    <3>1. CASE UNCHANGED <<contexts, shown, givenUp>>
      BY <1>0, <3>1, Parts
    <3>2. ASSUME NEW c \in saved[s], SwitchTo(o, c)
          PROVE  /\ contexts' \in [Objects -> Conversation] /\ shown' \in Objects
                 /\ givenUp' \in SUBSET TypedMessages
      BY <1>0, <3>2, Parts, SwitchIs
    <3> QED
      BY <1>4, <3>1, <3>2 DEF Loaded
  <2> QED
    BY <1>0, <1>4, <2>1, <2>2, <2>3, Parts, WorkerTyped DEF Loaded
<1> QED
  BY <1>1, <1>2, <1>3, <1>4

LEMMA SortsKept == Sorts /\ [TerminalNext]_hostVars => Sorts'
<1> SUFFICES ASSUME Sorts, [TerminalNext]_hostVars PROVE Sorts'
  OBVIOUS
<1>1. CASE UNCHANGED hostVars
  BY <1>1 DEF hostVars, Sorts, TerminalTypeOK, Snaps, TurnUnderWay
<1>2. CASE TerminalNext
  BY <1>2, UserKeepsSorts, WorkerKeepsSorts, EndsKeepSorts DEF TerminalNext
<1> QED
  BY <1>1, <1>2

-----------------------------------------------------------------------------
(* The state of the host has its types: the tab a form shows is one it has,*)
(* a turn that was begun has the snapshot an interrupt goes back to        *)
(* (app.py 461-501, blocks.py).                                            *)
THEOREM TerminalTypeCorrect == TerminalSpec => []TerminalTypeOK
<1>1. TerminalSpec => []Sorts
  BY SortsInit, SortsKept, PTL DEF TerminalSpec
<1> QED
  BY <1>1, PTL DEF Sorts

-----------------------------------------------------------------------------
(* Terminal: who has the conversation, and what is in it.                  *)

Active(w) == job[w].at \in {"ready", "run", "ask", "wrap", "save", "saving", "pick", "dropped"}

\* One worker or one shell command has the composer; a worker that another
\* one cancelled only reads a list or a conversation.
Exclusive ==
    /\ \A w \in HostWorkers : Active(w) => busy /\ ~job[w].killed
    /\ \A v, w \in HostWorkers : Alive(v) /\ Alive(w) /\ ~job[v].killed /\ ~job[w].killed => v = w
    /\ shells > 0 => busy /\ shells = 1 /\ \A w \in HostWorkers : ~Alive(w)
    /\ busy => shells > 0 \/ \E w \in HostWorkers : Active(w)

OnScreen == \A w \in HostWorkers : TurnUnderWay(w) => job[w].works = shown
StoreOK == \A s \in HostSessions : \A x, y \in saved[s] : x = y /\ x.session = s
SavedNow == IF saved[Shown.session] = {} THEN Shown.told = {}
            ELSE \A x \in saved[Shown.session] : x.told = Shown.told
SavedOK == (\A w \in HostWorkers : TurnUnderWay(w) => job[w].at = "saving") /\ ~unsaved => SavedNow

Orderly == Exclusive /\ OnScreen /\ NothingLost /\ SavedOK

\* Strengthens ConversationKept: the store and the snapshots are in order even
\* when the user crossed what ran.
ConversationIInv == Sorts /\ StoreOK /\ (~crossed => Orderly)

\* Where a message of the user is.
Accounted(m) ==
    \/ m \in Held(Shown) \cup givenUp
    \/ \E w \in HostWorkers : job[w].at = "ready" /\ m \in job[w].task

LEMMA AllAccounted == NothingLost <=> \A m \in 1..typed : Accounted(m)
BY DEF NothingLost, Accounted

LEMMA Alone ==
    ASSUME Sorts, Exclusive, NEW w \in HostWorkers, Active(w)
    PROVE  /\ busy /\ ~job[w].killed /\ shells = 0
           /\ \A v \in HostWorkers \ {w} : ~Active(v) /\ ~TurnUnderWay(v) /\ job[v].at # "ready"
           /\ \A v \in HostWorkers \ {w} : Alive(v) => job[v].killed
<1>1. shells \in 0..2
  BY Parts DEF Sorts
<1>2. Alive(w)
  BY DEF Active, Alive
<1>3. \A v \in HostWorkers : TurnUnderWay(v) \/ job[v].at = "ready" => Active(v)
  BY DEF Active, TurnUnderWay
<1>4. \A v \in HostWorkers : Active(v) => Alive(v) /\ ~job[v].killed
  BY DEF Active, Alive, Exclusive
<1> QED
  BY <1>1, <1>2, <1>3, <1>4 DEF Exclusive

LEMMA Free ==
    ASSUME Sorts, Exclusive,
           \/ ~busy
           \/ \E w \in HostWorkers : Alive(w) /\ ~job[w].killed /\ ~Active(w)
    PROVE  /\ ~busy /\ shells = 0
           /\ \A v \in HostWorkers : ~Active(v) /\ ~TurnUnderWay(v) /\ job[v].at # "ready"
<1>1. shells \in 0..2 /\ busy \in BOOLEAN
  BY Parts DEF Sorts
<1>2. \A v \in HostWorkers : TurnUnderWay(v) \/ job[v].at = "ready" => Active(v)
  BY DEF Active, TurnUnderWay
<1>3. \A v \in HostWorkers : Active(v) => Alive(v) /\ ~job[v].killed /\ busy
  BY DEF Active, Alive, Exclusive
<1>4. \A v \in HostWorkers : ~Active(v)
  BY <1>3 DEF Exclusive
<1>5. shells = 0
  BY <1>1 DEF Exclusive
<1> QED
  BY <1>1, <1>2, <1>4, <1>5 DEF Exclusive

\* The worker that has the composer takes a step of its turn.
LEMMA TurnGoesOn ==
    ASSUME Sorts, Sorts', Orderly, NEW w \in HostWorkers, Active(w),
           (TurnUnderWay(w))', ~job'[w].killed, \A v \in HostWorkers \ {w} : job'[v] = job[v],
           busy', shells' = shells, typed' = typed, job'[w].works = shown',
           Held(Shown) \cup givenUp \subseteq (Held(Shown) \cup givenUp)',
           job[w].at = "ready" => job[w].task \subseteq (Held(Shown) \cup givenUp)',
           job'[w].at = "saving" => unsaved' \/ SavedNow'
    PROVE  Orderly'
<1>1. /\ busy /\ shells = 0
      /\ \A v \in HostWorkers \ {w} : ~Active(v) /\ ~TurnUnderWay(v) /\ job[v].at # "ready"
      /\ \A v \in HostWorkers \ {w} : Alive(v) => job[v].killed
  BY Alone DEF Orderly
<1>2. /\ \A v \in HostWorkers \ {w} : (~Active(v) /\ ~TurnUnderWay(v) /\ job[v].at # "ready")'
      /\ \A v \in HostWorkers \ {w} : (Alive(v) => job[v].killed)'
  BY <1>1 DEF Active, TurnUnderWay, Alive
<1>3. Active(w)' /\ Alive(w)'
  BY DEF Active, Alive, TurnUnderWay
<1>4. Exclusive'
  BY <1>1, <1>2, <1>3 DEF Exclusive
<1>5. OnScreen'
  BY <1>2 DEF OnScreen
<1>6. NothingLost'
  <2>1. \A m \in 1..typed : Accounted(m)
    BY AllAccounted DEF Orderly
  <2>2. \A m \in 1..typed : Accounted(m)'
    BY <1>1, <2>1 DEF Accounted
  <2>3. (\A m \in 1..typed : Accounted(m))'
    BY <2>2
  <2> QED
    BY <2>3, AllAccounted, PTL
<1>7. SavedOK'
  BY <1>3 DEF SavedOK
<1> QED
  BY <1>4, <1>5, <1>6, <1>7 DEF Orderly

\* A worker leaves, or waits without the composer, or has it without a turn.
LEMMA NoTurnAfter ==
    ASSUME Sorts, Sorts', Orderly, NEW w \in HostWorkers,
           \A v \in HostWorkers \ {w} : job'[v] = job[v] /\ ~TurnUnderWay(v) /\ job[v].at # "ready",
           job[w].at # "ready", TurnUnderWay(w) => job[w].at = "saving",
           (~TurnUnderWay(w))', Exclusive',
           UNCHANGED <<contexts, shown, saved, typed, givenUp, unsaved>>
    PROVE  Orderly'
<1>1. OnScreen'
  BY DEF OnScreen, TurnUnderWay
<1>2. NothingLost'
  <2>1. \A m \in 1..typed : m \in Held(Shown) \cup givenUp
    BY AllAccounted DEF Orderly, Accounted
  <2>2. Held(Shown)' = Held(Shown)
    BY DEF Held, Shown
  <2>3. (\A m \in 1..typed : Accounted(m))'
    BY <2>1, <2>2 DEF Accounted
  <2> QED
    BY <2>3, AllAccounted, PTL
<1>3. SavedOK'
  <2>1. SavedNow' <=> SavedNow
    BY DEF SavedNow, Shown
  <2> QED
    BY <2>1 DEF SavedOK, Orderly
<1> QED
  BY <1>1, <1>2, <1>3 DEF Orderly

\* One step of the only worker that nobody cancelled leaves the rule kept.
LEMMA StaysExclusive ==
    ASSUME Sorts, Exclusive, NEW w \in HostWorkers, Alive(w), ~job[w].killed,
           \A v \in HostWorkers \ {w} : job'[v] = job[v], shells' = shells,
           \/ ~busy' /\ ~Active(w)' /\ (Alive(w)' => ~job'[w].killed)
           \/ busy' /\ Active(w)' /\ ~job'[w].killed
    PROVE  /\ Exclusive'
           /\ \A v \in HostWorkers \ {w} : job'[v] = job[v] /\ ~TurnUnderWay(v) /\ job[v].at # "ready"
<1>1. /\ shells = 0
      /\ \A v \in HostWorkers \ {w} : ~Active(v) /\ ~TurnUnderWay(v) /\ job[v].at # "ready"
  BY Alone, Free
<1>2. \A v \in HostWorkers \ {w} : Alive(v) => job[v].killed
  BY DEF Exclusive
<1>3. /\ \A v \in HostWorkers \ {w} : ~Active(v)'
      /\ \A v \in HostWorkers \ {w} : (Alive(v) => job[v].killed)'
  BY <1>1, <1>2 DEF Active, Alive
<1>4. Active(w)' => Alive(w)'
  BY DEF Active, Alive
<1> QED
  BY <1>1, <1>3, <1>4 DEF Exclusive

\* A new worker cancels the ones that only read, and nothing else was there.
LEMMA SpawnKeepsOrder ==
    ASSUME Sorts, Sorts', Orderly, ~busy, NEW w \in HostWorkers, NEW place \in {"ready", "list", "load"},
           NEW task \in SUBSET TypedMessages, Spawn(w, place, task),
           busy' <=> place = "ready", 1..typed' \subseteq 1..typed \cup task,
           UNCHANGED <<contexts, shown, saved, cancel, token, waitFor, shells, givenUp, unsaved>>,
           place # "ready" => task = {}
    PROVE  Orderly'
<1>0. TerminalTypeOK /\ place \in Places
  BY DEF Sorts, Places
<1>1. /\ shells = 0
      /\ \A v \in HostWorkers : ~Active(v) /\ ~TurnUnderWay(v) /\ job[v].at # "ready"
  BY Free DEF Orderly
<1>2. /\ job'[w].at = place /\ job'[w].task = task /\ ~job'[w].killed
      /\ \A v \in HostWorkers \ {w} : job'[v].at = job[v].at /\ job'[v].killed = Alive(v)
  BY <1>0, SpawnIs
<1>3. \A v \in HostWorkers : (~TurnUnderWay(v))'
  BY <1>1, <1>2 DEF TurnUnderWay
<1>4. /\ Active(w)' <=> place = "ready"
      /\ \A v \in HostWorkers \ {w} : ~Active(v)' /\ (Alive(v)' => job'[v].killed)
  BY <1>1, <1>2 DEF Active, Alive
<1>5. Exclusive'
  BY <1>1, <1>2, <1>4 DEF Exclusive
<1>6. OnScreen' /\ SavedOK'
  <2>1. SavedNow' <=> SavedNow
    BY DEF SavedNow, Shown
  <2> QED
    BY <1>1, <1>3, <2>1 DEF OnScreen, SavedOK, Orderly
<1>7. NothingLost'
  <2>1. \A m \in 1..typed : m \in Held(Shown) \cup givenUp
    BY <1>1, AllAccounted DEF Orderly, Accounted
  <2>2. Held(Shown)' = Held(Shown)
    BY DEF Held, Shown
  <2>3. ASSUME NEW m \in 1..typed' PROVE Accounted(m)'
    BY <1>2, <2>1, <2>2 DEF Accounted
  <2>4. (\A m \in 1..typed : Accounted(m))'
    BY <2>3
  <2> QED
    BY <2>4, AllAccounted, PTL
<1> QED
  BY <1>5, <1>6, <1>7 DEF Orderly

\* Nothing of the conversation, its workers or its store changes.
LEMMA SameOrder ==
    ASSUME Orderly, UNCHANGED <<contexts, shown, saved, busy, job, shells, typed, givenUp, unsaved>>
    PROVE  Orderly'
<1>1. UNCHANGED <<Shown, Held(Shown)>>
  BY DEF Shown, Held
<1>2. Exclusive' /\ OnScreen'
  BY DEF Exclusive, OnScreen, Orderly, Active, Alive, TurnUnderWay
<1>3. SavedOK'
  BY <1>1 DEF SavedOK, SavedNow, Orderly, TurnUnderWay
<1>4. NothingLost'
  BY <1>1 DEF NothingLost, Orderly
<1> QED
  BY <1>2, <1>3, <1>4 DEF Orderly

\* The screen goes to another conversation, of which the store has the last state.
LEMMA SwitchKeepsOrder ==
    ASSUME Sorts, Orderly, NEW o \in Objects, NEW c \in Conversation, SwitchTo(o, c),
           \A v \in HostWorkers : (~TurnUnderWay(v))' /\ ~TurnUnderWay(v) /\ job[v].at # "ready",
           IF saved[c.session] = {} THEN c.told = {} ELSE \A x \in saved[c.session] : x.told = c.told,
           Exclusive', UNCHANGED <<saved, typed>>
    PROVE  Orderly'
<1>1. Shown' = c /\ Held(Shown) \cup givenUp \subseteq givenUp'
  BY SwitchIs DEF Sorts
<1>2. OnScreen' /\ SavedOK'
  BY <1>1 DEF OnScreen, SavedOK, SavedNow
<1>3. NothingLost'
  <2>1. \A m \in 1..typed : m \in Held(Shown) \cup givenUp
    BY AllAccounted DEF Orderly, Accounted
  <2>2. (\A m \in 1..typed : Accounted(m))'
    BY <1>1, <2>1 DEF Accounted
  <2> QED
    BY <2>2, AllAccounted, PTL
<1> QED
  BY <1>2, <1>3 DEF Orderly

LEMMA UserKeepsOrder ==
    ASSUME Sorts, Sorts', ~crossed => Orderly, ~crossed',
           \/ SendToInbox \/ Shell \/ ShellEnds \/ Escape \/ AnswerCard
           \/ \E n \in 1..MaxAsked : UseForm(n)
           \/ \E o \in Objects, s \in HostSessions : NewConversation(o, s)
    PROVE  Orderly'
<1> USE DEF logVars
<1>0. TerminalTypeOK /\ typed \in Nat
  BY TerminalConstants, Parts DEF Sorts
<1>1. CASE SendToInbox
  <2>1. ~crossed /\ typed' = typed + 1
    BY <1>1 DEF SendToInbox
  <2>2. Orderly
    BY <2>1
  <2> DEFINE c == [Shown EXCEPT !.inbox = @ \cup {typed'}]
  <2>3. contexts' = [contexts EXCEPT ![shown] = c]
    BY <1>0, <1>1, Parts DEF SendToInbox, Shown
  <2>4. c.session = Shown.session /\ c.told = Shown.told /\ Held(c) = Held(Shown) \cup {typed'}
    BY <1>0, Parts DEF Conversation, Held
  <2> HIDE DEF c
  <2>5. Shown' = c
    BY <1>0, <1>1, <2>3, Parts DEF Shown, SendToInbox
  <2>6. Exclusive' /\ OnScreen'
    BY <1>1, <2>2 DEF SendToInbox, Exclusive, OnScreen, Orderly, Active, Alive, TurnUnderWay
  <2>7. SavedOK'
    BY <1>1, <2>2, <2>4, <2>5 DEF SendToInbox, SavedOK, SavedNow, Orderly, TurnUnderWay
  <2>8. NothingLost'
    <3>1. \A m \in 1..typed : Accounted(m)
      BY <2>2, AllAccounted DEF Orderly
    <3>2. Held(Shown)' = Held(Shown) \cup {typed'}
      BY <2>4, <2>5 DEF Held
    <3>3. ASSUME NEW m \in 1..typed' PROVE Accounted(m)'
      <4>1. m \in 1..typed \/ m = typed'
        BY <1>0, <2>1
      <4> QED
        BY <1>1, <3>1, <3>2, <4>1 DEF Accounted, SendToInbox
    <3>4. (\A m \in 1..typed : Accounted(m))'
      BY <3>3
    <3> QED
      BY <3>4, AllAccounted, PTL
  <2> QED
    BY <2>6, <2>7, <2>8 DEF Orderly
<1>2. CASE Shell
  <2>1. ~crossed /\ ~busy /\ \A w \in HostWorkers : ~Alive(w)
    BY <1>2 DEF Shell
  <2>2. Orderly /\ shells = 0
    BY <2>1, Free DEF Orderly
  <2>3. busy' /\ shells' = 1 /\ UNCHANGED <<contexts, shown, saved, job, typed, givenUp, unsaved>>
    BY <1>2, <2>2 DEF Shell
  <2>4. Exclusive'
    BY <2>1, <2>3 DEF Exclusive, Active, Alive
  <2>5. OnScreen' /\ SavedOK' /\ NothingLost'
    BY <2>2, <2>3 DEF OnScreen, SavedOK, SavedNow, NothingLost, Orderly, TurnUnderWay, Shown, Held
  <2> QED
    BY <2>4, <2>5 DEF Orderly
<1>3. CASE ShellEnds
  <2>1. ~crossed /\ shells > 0
    BY <1>3 DEF ShellEnds
  <2>2. Orderly /\ shells = 1 /\ \A w \in HostWorkers : ~Alive(w)
    BY <2>1 DEF Orderly, Exclusive
  <2>3. ~busy' /\ shells' = 0 /\ UNCHANGED <<contexts, shown, saved, job, typed, givenUp, unsaved>>
    BY <1>3, <2>2 DEF ShellEnds
  <2>4. Exclusive'
    BY <2>2, <2>3 DEF Exclusive, Active, Alive
  <2>5. OnScreen' /\ SavedOK' /\ NothingLost'
    BY <2>2, <2>3 DEF OnScreen, SavedOK, SavedNow, NothingLost, Orderly, TurnUnderWay, Shown, Held
  <2> QED
    BY <2>4, <2>5 DEF Orderly
<1>4. CASE Escape \/ AnswerCard \/ \E n \in 1..MaxAsked : UseForm(n)
  BY <1>4, SameOrder DEF Escape, AnswerCard, UseForm
<1>5. ASSUME NEW o \in Objects, NEW s \in HostSessions, NewConversation(o, s) PROVE Orderly'
  <2>1. ~crossed /\ ~busy
    BY <1>5 DEF NewConversation, Commanded
  <2>2. Orderly
    BY <2>1
  <2>3. \A v \in HostWorkers : ~TurnUnderWay(v) /\ job[v].at # "ready"
    BY <2>1, <2>2, Free DEF Orderly
  <2>4. UNCHANGED <<saved, busy, job, shells, typed, unsaved>>
    BY <1>5 DEF NewConversation
  <2>5. Exclusive' /\ \A v \in HostWorkers : (~TurnUnderWay(v))'
    BY <2>2, <2>3, <2>4 DEF Exclusive, Orderly, Active, Alive, TurnUnderWay
  <2> DEFINE c == [session |-> s, told |-> {}, inbox |-> {}]
  <2>6. c \in Conversation /\ saved[c.session] = {} /\ c.told = {} /\ SwitchTo(o, c)
    BY <1>5 DEF NewConversation, Conversation
  <2> HIDE DEF c
  <2> QED
    BY <2>2, <2>3, <2>4, <2>5, <2>6, SwitchKeepsOrder
<1> QED
  BY <1>1, <1>2, <1>3, <1>4, <1>5

LEMMA TurnKeepsOrder ==
    ASSUME Sorts, Sorts', ~crossed => Orderly, ~crossed', NEW w \in HostWorkers,
           \/ BeginTurn(w) \/ LoopLooks(w) \/ Ask(w) \/ Finish(w) \/ Drain(w)
           \/ \E cards \in 0..MaxAsked : Applied(w, cards)
           \/ \E cards, questions \in 0..MaxAsked : Pause(w, cards, questions)
    PROVE  Orderly'
<1> USE DEF logVars
<1>0. /\ TerminalTypeOK /\ job[w] \in Works /\ job[w].works \in Objects
      /\ job[w].task \in SUBSET TypedMessages
  BY Parts DEF Sorts, Works
<1>at. job[w].at \in {"ready", "run", "ask", "wrap"} /\ crossed' = crossed
  <2>1. CASE BeginTurn(w) \/ LoopLooks(w) \/ Finish(w)
    BY <2>1 DEF BeginTurn, LoopLooks, Finish
  <2>2. CASE Ask(w) \/ Drain(w)
    BY <2>2 DEF Ask, Drain
  <2>3. ASSUME NEW cards \in 0..MaxAsked, Applied(w, cards)
        PROVE  job[w].at \in {"ready", "run", "ask", "wrap"} /\ crossed' = crossed
    BY <2>3 DEF Applied
  <2>4. ASSUME NEW cards \in 0..MaxAsked, NEW questions \in 0..MaxAsked, Pause(w, cards, questions)
        PROVE  job[w].at \in {"ready", "run", "ask", "wrap"} /\ crossed' = crossed
    BY <2>4 DEF Pause
  <2> QED
    BY <2>1, <2>2, <2>3, <2>4
<1>c. ~crossed /\ Orderly
  BY <1>at
<1>a. Active(w)
  BY <1>at DEF Active
<1>d. Exclusive /\ OnScreen
  BY <1>c DEF Orderly
<1>e. busy /\ ~job[w].killed
  BY <1>a, <1>d DEF Exclusive
<1>b. busy /\ ~job[w].killed /\ (TurnUnderWay(w) => job[w].works = shown)
  BY <1>d, <1>e DEF OnScreen
<1>places. {"run", "ask", "wrap", "save", "saving"} \subseteq Places
  BY DEF Places
<1>1. CASE BeginTurn(w)
  <2> DEFINE task == job[w].task
  <2> DEFINE snapshot == {Shown}
  <2>1. task \in SUBSET TypedMessages /\ snapshot \in SUBSET Conversation
    BY <1>0, Parts
  <2>2. RunsOn(w, task, snapshot)
    BY <1>1 DEF BeginTurn
  <2>6. task = job[w].task /\ shown' = shown
    BY <1>1 DEF BeginTurn
  <2> HIDE DEF task, snapshot
  <2>3. /\ job'[w].at = "run" /\ job'[w].works = shown /\ job'[w].killed = job[w].killed
        /\ \A v \in HostWorkers \ {w} : job'[v] = job[v]
        /\ Held(contexts'[shown]) = Held(Shown) \cup task
    BY <1>0, <2>1, <2>2, RunsOnIs
  <2>4. Held(Shown)' = Held(contexts'[shown])
    BY <2>6 DEF Shown, Held
  <2>5. (TurnUnderWay(w))'
    BY <2>3 DEF TurnUnderWay
  <2> QED
    BY <1>1, <1>a, <1>b, <1>c, <2>3, <2>4, <2>5, <2>6, TurnGoesOn DEF BeginTurn
<1>2. CASE LoopLooks(w)
  <2>1. TurnUnderWay(w) /\ job[w].works = shown /\ job' = job /\ job[w].at = "run"
    BY <1>2, <1>b DEF LoopLooks, TurnUnderWay
  <2> DEFINE c == [Shown EXCEPT !.told = @ \cup Shown.inbox, !.inbox = {}]
  <2>2. c \in Conversation /\ Held(c) = Held(Shown)
    BY <1>0, Parts DEF Conversation, Held
  <2>3. contexts' = [contexts EXCEPT ![shown] = c]
    BY <1>0, <1>2, <2>1, Parts DEF LoopLooks, Shown
  <2> HIDE DEF c
  <2>4. Shown' = c
    BY <1>0, <1>2, <2>3, Parts DEF Shown, LoopLooks
  <2>5. Held(Shown)' = Held(Shown)
    BY <2>2, <2>4 DEF Held
  <2>6. (TurnUnderWay(w))'
    BY <2>1 DEF TurnUnderWay
  <2> QED
    BY <1>2, <1>a, <1>b, <1>c, <2>1, <2>5, <2>6, TurnGoesOn DEF LoopLooks
<1>3. CASE Ask(w)
  BY <1>3, <1>c, SameOrder DEF Ask
<1>4. CASE Finish(w)
  <2>1. /\ job'[w].at = "wrap" /\ ~job'[w].killed /\ job'[w].works = job[w].works
        /\ \A v \in HostWorkers \ {w} : job'[v] = job[v]
    BY <1>0, <1>4, <1>places, GoesTo DEF Finish
  <2>2. job[w].works = shown /\ (TurnUnderWay(w))'
    BY <1>4, <1>b, <2>1 DEF Finish, TurnUnderWay
  <2>3. Held(Shown)' = Held(Shown)
    BY <1>4, <2>2 DEF Held, Shown, Finish
  <2> QED
    BY <1>4, <1>a, <1>b, <1>c, <2>1, <2>2, <2>3, TurnGoesOn DEF Finish
<1>5. CASE Drain(w)
  <2>1. job[w].works = shown /\ Shown.inbox \in SUBSET TypedMessages
        /\ job[w].before \in SUBSET Conversation
    BY <1>0, <1>5, <1>b, Parts DEF Drain, TurnUnderWay, Works, Conversation
  <2>2. CASE Shown.inbox = {}
    <3>1. Goes(w, "save") /\ contexts' = contexts /\ shown' = shown
      BY <1>5, <2>2 DEF Drain
    <3>2. /\ job'[w].at = "save" /\ ~job'[w].killed /\ job'[w].works = job[w].works
          /\ \A v \in HostWorkers \ {w} : job'[v] = job[v]
      BY <1>0, <1>places, <3>1, GoesTo
    <3>3. (TurnUnderWay(w))' /\ Held(Shown)' = Held(Shown)
      BY <3>1, <3>2 DEF TurnUnderWay, Held, Shown
    <3> QED
      BY <1>5, <1>a, <1>b, <1>c, <2>1, <3>1, <3>2, <3>3, TurnGoesOn DEF Drain
  <2>3. CASE Shown.inbox # {}
    <3>1. RunsOn(w, Shown.inbox, job[w].before) /\ shown' = shown
      BY <1>5, <2>3 DEF Drain
    <3>2. /\ job'[w].at = "run" /\ job'[w].works = shown /\ job'[w].killed = job[w].killed
          /\ \A v \in HostWorkers \ {w} : job'[v] = job[v]
          /\ Held(contexts'[shown]) = Held(Shown) \cup Shown.inbox
      BY <1>0, <2>1, <3>1, RunsOnIs
    <3>3. (TurnUnderWay(w))' /\ Held(Shown)' = Held(Shown) \cup Shown.inbox
      BY <3>1, <3>2 DEF TurnUnderWay, Held, Shown
    <3> QED
      BY <1>5, <1>a, <1>b, <1>c, <3>1, <3>2, <3>3, TurnGoesOn DEF Drain
  <2> QED
    BY <2>2, <2>3
<1>6. ASSUME NEW cards \in 0..MaxAsked, Applied(w, cards) PROVE Orderly'
  <2> DEFINE questions == IF waitFor.kind = "card" THEN job[w].questions ELSE 0
  <2> DEFINE place == IF cards + questions = 0 THEN "run" ELSE "ask"
  <2>1. questions \in 0..MaxAsked /\ place \in Places /\ place \in {"run", "ask"}
    BY <1>0, <1>places, TerminalConstants DEF Works
  <2>2. Pauses(w, place, cards, questions)
    BY <1>6 DEF Applied, Pauses
  <2> HIDE DEF questions, place
  <2>3. /\ job'[w].at = place /\ job'[w].works = job[w].works /\ job'[w].killed = job[w].killed
        /\ \A v \in HostWorkers \ {w} : job'[v] = job[v]
    BY <1>0, <2>1, <2>2, PausesAt
  <2>4. (TurnUnderWay(w))' /\ job'[w].at # "saving" /\ job[w].works = shown
    BY <1>6, <1>b, <2>1, <2>3 DEF TurnUnderWay, Applied
  <2>5. Held(Shown)' = Held(Shown)
    BY <1>6 DEF Held, Shown, Applied
  <2> QED
    BY <1>6, <1>a, <1>b, <1>c, <2>3, <2>4, <2>5, TurnGoesOn DEF Applied
<1>7. ASSUME NEW cards \in 0..MaxAsked, NEW questions \in 0..MaxAsked, Pause(w, cards, questions)
      PROVE  Orderly'
  <2>1. Pauses(w, "ask", cards, questions)
    BY <1>7 DEF Pause, Pauses
  <2>2. /\ job'[w].at = "ask" /\ job'[w].works = job[w].works /\ job'[w].killed = job[w].killed
        /\ \A v \in HostWorkers \ {w} : job'[v] = job[v]
    BY <1>0, <1>places, <2>1, PausesAt
  <2>3. (TurnUnderWay(w))' /\ job[w].works = shown
    BY <1>7, <1>b, <2>2 DEF TurnUnderWay, Pause
  <2>4. Held(Shown)' = Held(Shown)
    BY <1>7, <2>3 DEF Held, Shown, Pause
  <2> QED
    BY <1>7, <1>a, <1>b, <1>c, <2>2, <2>3, <2>4, TurnGoesOn DEF Pause
<1> QED
  BY <1>1, <1>2, <1>3, <1>4, <1>5, <1>6, <1>7

LEMMA WorkerKeepsOrder ==
    ASSUME Sorts, Sorts', ~crossed => Orderly, ~crossed', NEW w \in HostWorkers,
           \/ SendTask(w) \/ TurnOver(w) \/ CutShort(w) \/ Listed(w) \/ Picked(w) \/ Dropped(w)
           \/ \E place \in {"list", "load"} : ResumeCommand(w, place)
    PROVE  Orderly'
<1> USE DEF logVars
<1>0. /\ TerminalTypeOK /\ typed \in Nat
      /\ \A v \in HostWorkers : job[v].at = "ready" => Active(v)
      /\ \A v \in HostWorkers : TurnUnderWay(v) => Active(v)
      /\ \A v \in HostWorkers : Active(v) => Alive(v)
  BY Parts DEF Sorts, Active, TurnUnderWay, Alive
<1>places. {"load", "pick", "dropped"} \subseteq Places
  BY DEF Places
<1>1. CASE SendTask(w)
  <2>1. ~crossed /\ ~busy /\ typed' = typed + 1 /\ busy' /\ Spawn(w, "ready", {typed'})
    BY <1>1 DEF SendTask
  <2>2. {typed'} \in SUBSET TypedMessages /\ 1..typed' \subseteq 1..typed \cup {typed'}
    <3>1. typed' \in 0..MaxTyped
      BY Parts DEF Sorts, TerminalTypeOK
    <3>2. typed' \in 1..MaxTyped
      BY <1>0, <2>1, <3>1
    <3> QED
      BY <1>0, <2>1, <3>2 DEF TypedMessages
  <2> QED
    BY <1>1, <2>1, <2>2, SpawnKeepsOrder DEF SendTask
<1>2. ASSUME NEW place \in {"list", "load"}, ResumeCommand(w, place) PROVE Orderly'
  <2>1. ~crossed /\ ~busy /\ Spawn(w, place, {})
    BY <1>2 DEF ResumeCommand, Commanded
  <2>2. {} \in SUBSET TypedMessages /\ typed' = typed /\ busy' = busy
    BY <1>2 DEF ResumeCommand
  <2> QED
    BY <1>2, <2>1, <2>2, SpawnKeepsOrder DEF ResumeCommand
<1>3. CASE TurnOver(w)
  <2>1. ~crossed /\ job[w].at = "saving" /\ ~job[w].killed /\ Active(w) /\ Alive(w)
    BY <1>3 DEF TurnOver, Active, Alive
  <2>2. job'[w] = NoJob /\ \A v \in HostWorkers \ {w} : job'[v] = job[v]
    BY <1>0, <1>3, OverIs DEF TurnOver
  <2>3. (~Active(w))' /\ (~Alive(w))' /\ (~TurnUnderWay(w))'
    BY <2>2, NoneTypes DEF Active, Alive, TurnUnderWay
  <2> QED
    BY <1>3, <2>1, <2>2, <2>3, StaysExclusive, NoTurnAfter DEF TurnOver, Orderly
<1>4. CASE CutShort(w)
  <2>1. ~crossed /\ Exclusive /\ job[w].killed
    BY <1>4 DEF CutShort, Orderly
  <2>2. ~Active(w) /\ Alive(w) /\ job[w].at \in {"list", "load"}
    BY <1>4, <2>1 DEF CutShort, Exclusive, Active, Alive
  <2>3. /\ job'[w] = NoJob
        /\ \A v \in HostWorkers \ {w} : job'[v] = job[v]
    BY <1>0, <1>4, OverIs DEF CutShort
  <2>4. (~Active(w))' /\ (~Alive(w))'
    BY <2>3, NoneTypes DEF Active, Alive
  <2>5. \A v \in HostWorkers \ {w} :
           (Active(v))' = Active(v) /\ (Alive(v))' = Alive(v) /\ (TurnUnderWay(v))' = TurnUnderWay(v)
    BY <2>3 DEF Active, Alive, TurnUnderWay
  <2>6. UNCHANGED <<contexts, shown, saved, busy, shells, typed, givenUp, unsaved>>
    BY <1>4, <2>2 DEF CutShort
  <2>7. Exclusive'
    BY <2>1, <2>2, <2>3, <2>4, <2>5, <2>6 DEF Exclusive
  <2>8. \A v \in HostWorkers : (TurnUnderWay(v))' <=> TurnUnderWay(v)
    BY <1>0, <2>2, <2>3, <2>5, NoneTypes DEF TurnUnderWay
  <2>9. OnScreen' /\ SavedOK'
    <3>1. \A v \in HostWorkers : TurnUnderWay(v) => v # w
      BY <2>2 DEF TurnUnderWay
    <3>2. SavedNow' <=> SavedNow
      BY <2>6 DEF SavedNow, Shown
    <3> QED
      BY <2>1, <2>3, <2>6, <2>8, <3>1, <3>2 DEF OnScreen, SavedOK, Orderly
  <2>10. NothingLost'
    <3>1. \A m \in 1..typed : Accounted(m)
      BY <2>1, AllAccounted DEF Orderly
    <3>2. (\A m \in 1..typed : Accounted(m))'
      BY <2>2, <2>3, <2>6, <3>1 DEF Accounted, Held, Shown
    <3> QED
      BY <3>2, AllAccounted, PTL
  <2> QED
    BY <2>7, <2>9, <2>10 DEF Orderly
<1>5. CASE Listed(w)
  <2>1. /\ ~crossed /\ job[w].at = "list" /\ ~job[w].killed /\ ~Active(w) /\ Alive(w)
        /\ ~TurnUnderWay(w)
    BY <1>5 DEF Listed, Active, Alive, TurnUnderWay
  <2>2. ~busy
    BY <2>1, Free DEF Orderly
  <2>3. CASE Over(w) /\ UNCHANGED <<busy, cancel, token, waitFor>>
    <3>1. job'[w] = NoJob /\ \A v \in HostWorkers \ {w} : job'[v] = job[v]
      BY <1>0, <2>3, OverIs
    <3>2. (~Active(w))' /\ (~Alive(w))' /\ (~TurnUnderWay(w))'
      BY <3>1, NoneTypes DEF Active, Alive, TurnUnderWay
    <3> QED
      BY <1>5, <2>1, <2>2, <2>3, <3>1, <3>2, StaysExclusive, NoTurnAfter DEF Listed, Orderly
  <2>4. CASE Goes(w, "pick") /\ busy' = TRUE
    <3>1. /\ job'[w].at = "pick" /\ ~job'[w].killed
          /\ \A v \in HostWorkers \ {w} : job'[v] = job[v]
      BY <1>0, <1>places, <2>4, GoesTo
    <3>2. Active(w)' /\ (~TurnUnderWay(w))'
      BY <3>1 DEF Active, TurnUnderWay
    <3> QED
      BY <1>5, <2>1, <2>4, <3>1, <3>2, StaysExclusive, NoTurnAfter DEF Listed, Orderly
  <2> QED
    BY <1>5, <2>3, <2>4 DEF Listed
<1>6. CASE Picked(w)
  <2>1. /\ ~crossed /\ job[w].at = "pick" /\ Active(w) /\ Alive(w) /\ ~TurnUnderWay(w)
    BY <1>6 DEF Picked, Active, Alive, TurnUnderWay
  <2>2. Exclusive /\ ~job[w].killed /\ busy
    BY <2>1 DEF Orderly, Exclusive
  <2>3. UNCHANGED <<contexts, shown, saved, shells, typed, givenUp, unsaved>>
    BY <1>6 DEF Picked
  <2>4. /\ \A v \in HostWorkers \ {w} : job'[v] = job[v]
        /\ \/ job'[w].at = "load" /\ ~job'[w].killed /\ ~busy'
           \/ job'[w].at = "dropped" /\ ~job'[w].killed /\ busy'
           \/ job'[w].at = "idle" /\ ~busy'
    BY <1>0, <1>6, <1>places, <2>2, GoesTo, OverIs, NoneTypes DEF Picked
  <2>5. /\ \/ ~busy' /\ (~Active(w))' /\ (Alive(w)' => ~job'[w].killed)
           \/ busy' /\ Active(w)' /\ ~job'[w].killed
        /\ (~TurnUnderWay(w))'
    BY <2>4 DEF Active, Alive, TurnUnderWay
  <2> QED
    BY <2>1, <2>2, <2>3, <2>4, <2>5, StaysExclusive, NoTurnAfter DEF Orderly
<1>7. CASE Dropped(w)
  <2>1. /\ ~crossed /\ job[w].at = "dropped" /\ ~job[w].killed /\ Alive(w) /\ ~TurnUnderWay(w)
    BY <1>7 DEF Dropped, Alive, TurnUnderWay
  <2>2. job'[w] = NoJob /\ \A v \in HostWorkers \ {w} : job'[v] = job[v]
    BY <1>0, <1>7, OverIs DEF Dropped
  <2>3. (~Active(w))' /\ (~Alive(w))' /\ (~TurnUnderWay(w))'
    BY <2>2, NoneTypes DEF Active, Alive, TurnUnderWay
  <2> QED
    BY <1>7, <2>1, <2>2, <2>3, StaysExclusive, NoTurnAfter DEF Dropped, Orderly
<1> QED
  BY <1>1, <1>2, <1>3, <1>4, <1>5, <1>6, <1>7

LEMMA EndsKeepOrder ==
    ASSUME Sorts, Sorts', StoreOK, ~crossed => Orderly, ~crossed', NEW w \in HostWorkers,
           \/ TurnCancelled(w)
           \/ \E refused \in BOOLEAN : RunFails(w, refused) \/ SaveStarts(w, refused)
           \/ \E o \in Objects, s \in HostSessions : Loaded(w, o, s)
    PROVE  Orderly'
<1>0. /\ TerminalTypeOK /\ job[w] \in Works /\ job[w].works \in Objects /\ shown \in Objects
  BY Parts DEF Sorts, Works
<1>places. {"save", "saving"} \subseteq Places
  BY DEF Places
<1>1. CASE TurnCancelled(w)
  <2>1. ~crossed /\ Orderly /\ TurnUnderWay(w) /\ Active(w) /\ job[w].at # "ready"
    BY <1>1 DEF TurnCancelled, TurnUnderWay, Active
  <2>2. busy /\ job[w].works = shown
    BY <2>1, Alone DEF Orderly, OnScreen
  <2>3. /\ job'[w].at = "save" /\ ~job'[w].killed /\ job'[w].works = job[w].works
        /\ \A v \in HostWorkers \ {w} : job'[v] = job[v]
    BY <1>0, <1>1, <1>places, GoesTo DEF TurnCancelled
  <2>4. shown' = shown
    BY <1>1, <2>2 DEF TurnCancelled, RolledBack
  <2>5. Held(Shown) \cup givenUp \subseteq (Held(Shown) \cup givenUp)'
    <3>1. CASE UNCHANGED <<contexts, shown, givenUp>>
      BY <3>1 DEF Held, Shown
    <3>2. CASE RolledBack(w) /\ givenUp' = givenUp \cup (Held(Shown) \ Held(Snapshot(w)))
      <4>1. contexts \in [Objects -> Conversation]
        BY <1>0, Parts
      <4>2. Shown' = Snapshot(w)
        BY <1>0, <2>2, <2>4, <3>2, <4>1 DEF RolledBack, Shown
      <4>3. Held(Shown)' = Held(Snapshot(w))
        BY <4>2 DEF Held
      <4> QED
        BY <3>2, <4>3
    <3> QED
      BY <1>1, <3>1, <3>2 DEF TurnCancelled
  <2>6. (TurnUnderWay(w))'
    BY <2>3 DEF TurnUnderWay
  <2> QED
    BY <1>1, <2>1, <2>2, <2>3, <2>4, <2>5, <2>6, TurnGoesOn DEF TurnCancelled
<1>2. ASSUME NEW refused \in BOOLEAN, RunFails(w, refused) PROVE Orderly'
  <2>1. ~crossed /\ Orderly /\ TurnUnderWay(w) /\ Active(w) /\ job[w].at # "ready"
    BY <1>2 DEF RunFails, TurnUnderWay, Active
  <2>2. busy /\ job[w].works = shown
    BY <2>1, Alone DEF Orderly, OnScreen
  <2>3. /\ job'[w].at = "save" /\ ~job'[w].killed /\ job'[w].works = job[w].works
        /\ \A v \in HostWorkers \ {w} : job'[v] = job[v]
    BY <1>0, <1>2, <1>places, GoesTo DEF RunFails
  <2>4. Held(Shown) \cup givenUp \subseteq (Held(Shown) \cup givenUp)'
    <3>1. CASE ~refused
      BY <1>2, <3>1 DEF RunFails, Held, Shown
    <3>2. CASE refused
      <4> DEFINE c == [Shown EXCEPT !.told = @ \ job[w].task]
      <4>1. c \in Conversation /\ Held(Shown) \subseteq Held(c) \cup job[w].task
        BY <1>0, Parts DEF Conversation, Held, Works
      <4>2. contexts' = [contexts EXCEPT ![shown] = c]
        BY <1>0, <1>2, <2>2, <3>2, Parts DEF RunFails, Shown
      <4> HIDE DEF c
      <4>3. Shown' = c
        BY <1>0, <1>2, <4>2, Parts DEF Shown, RunFails
      <4>4. Held(Shown)' = Held(c)
        BY <4>3 DEF Held
      <4>5. givenUp' = givenUp \cup job[w].task
        BY <1>2, <3>2 DEF RunFails
      <4> QED
        BY <4>1, <4>4, <4>5
    <3> QED
      BY <3>1, <3>2
  <2>5. (TurnUnderWay(w))'
    BY <2>3 DEF TurnUnderWay
  <2> QED
    BY <1>2, <2>1, <2>2, <2>3, <2>4, <2>5, TurnGoesOn DEF RunFails
<1>3. ASSUME NEW kept \in BOOLEAN, SaveStarts(w, kept) PROVE Orderly'
  <2>1. ~crossed /\ Orderly /\ TurnUnderWay(w) /\ Active(w) /\ job[w].at # "ready"
    BY <1>3 DEF SaveStarts, TurnUnderWay, Active
  <2>2. busy /\ job[w].works = shown
    BY <2>1, Alone DEF Orderly, OnScreen
  <2>3. /\ job'[w].at = "saving" /\ ~job'[w].killed /\ job'[w].works = job[w].works
        /\ \A v \in HostWorkers \ {w} : job'[v] = job[v]
    BY <1>0, <1>3, <1>places, GoesTo DEF SaveStarts
  <2>4. Shown' = Shown /\ Held(Shown)' = Held(Shown)
    BY <1>3 DEF SaveStarts, Held, Shown
  <2>5. unsaved' \/ SavedNow'
    <3>1. CASE kept
      <4>1. Shown.session \in HostSessions /\ saved \in [HostSessions -> SUBSET Conversation]
        BY <1>0, Parts DEF Conversation
      <4>2. saved'[Shown'.session] = {Shown'}
        BY <1>3, <2>4, <3>1, <4>1 DEF SaveStarts
      <4> QED
        BY <4>2 DEF SavedNow
    <3>2. CASE ~kept
      BY <1>3, <3>2 DEF SaveStarts
    <3> QED
      BY <3>1, <3>2
  <2>6. (TurnUnderWay(w))'
    BY <2>3 DEF TurnUnderWay
  <2> QED
    BY <1>3, <2>1, <2>2, <2>3, <2>4, <2>5, <2>6, TurnGoesOn DEF SaveStarts
<1>4. ASSUME NEW o \in Objects, NEW s \in HostSessions, Loaded(w, o, s) PROVE Orderly'
  <2>1. /\ ~crossed /\ Orderly /\ job[w].at = "load" /\ ~job[w].killed /\ ~Active(w) /\ Alive(w)
        /\ ~TurnUnderWay(w)
    BY <1>4 DEF Loaded, Active, Alive, TurnUnderWay
  <2>2. ~busy /\ \A v \in HostWorkers : ~TurnUnderWay(v) /\ job[v].at # "ready"
    BY <2>1, Free DEF Orderly
  <2>3. job'[w] = NoJob /\ \A v \in HostWorkers \ {w} : job'[v] = job[v]
    BY <1>0, <1>4, OverIs DEF Loaded
  <2>4. (~Active(w))' /\ (~Alive(w))' /\ (~TurnUnderWay(w))'
    BY <2>3, NoneTypes DEF Active, Alive, TurnUnderWay
  <2>5. UNCHANGED <<saved, busy, shells, typed, unsaved>>
    BY <1>4 DEF Loaded
  <2>6. Exclusive'
    BY <2>1, <2>2, <2>3, <2>4, <2>5, StaysExclusive DEF Orderly
  <2>7. \A v \in HostWorkers : (~TurnUnderWay(v))'
    BY <2>2, <2>3, <2>4 DEF TurnUnderWay
  <2>8. CASE UNCHANGED <<contexts, shown, givenUp>>
    BY <2>1, <2>2, <2>3, <2>4, <2>5, <2>6, <2>8, NoTurnAfter
  <2>9. ASSUME NEW c \in saved[s], SwitchTo(o, c) PROVE Orderly'
    <3>1. c \in Conversation /\ c.session = s /\ \A x \in saved[s] : x = c
      BY <1>0, Parts DEF StoreOK
    <3> QED
      BY <2>1, <2>2, <2>5, <2>6, <2>7, <2>9, <3>1, SwitchKeepsOrder
  <2> QED
    BY <1>4, <2>8, <2>9 DEF Loaded
<1> QED
  BY <1>1, <1>2, <1>3, <1>4

\* Only a save changes the store, and it stores what the screen shows under
\* the name of its session.
LEMMA StoreStaysOK == Sorts /\ StoreOK /\ TerminalNext => StoreOK'
<1> SUFFICES ASSUME Sorts, StoreOK, TerminalNext PROVE StoreOK'
  OBVIOUS
<1> USE DEF logVars
<1>1. CASE saved' = saved
  BY <1>1 DEF StoreOK
<1>2. ASSUME NEW w \in HostWorkers, NEW kept \in BOOLEAN, SaveStarts(w, kept) PROVE StoreOK'
  <2>1. saved' = saved \/ saved' = [saved EXCEPT ![Shown.session] = {Shown}]
    BY <1>2 DEF SaveStarts
  <2>2. saved \in [HostSessions -> SUBSET Conversation]
    BY Parts DEF Sorts
  <2> QED
    BY <2>1, <2>2 DEF StoreOK
<1>3. \/ saved' = saved
      \/ \E w \in HostWorkers, kept \in BOOLEAN : SaveStarts(w, kept)
  <2>1. CASE \/ SendToInbox \/ Shell \/ ShellEnds \/ Escape \/ AnswerCard
             \/ \E n \in 1..MaxAsked : UseForm(n)
             \/ \E o \in Objects, s \in HostSessions : NewConversation(o, s)
    BY <2>1 DEF SendToInbox, Shell, ShellEnds, Escape, AnswerCard, UseForm, NewConversation
  <2>2. ASSUME NEW w \in HostWorkers,
               \/ SendTask(w) \/ BeginTurn(w) \/ LoopLooks(w) \/ Ask(w) \/ Finish(w) \/ Drain(w)
               \/ TurnCancelled(w) \/ TurnOver(w) \/ CutShort(w)
        PROVE  saved' = saved
    BY <2>2 DEF SendTask, BeginTurn, LoopLooks, Ask, Finish, Drain, TurnCancelled, TurnOver, CutShort
  <2>3. ASSUME NEW w \in HostWorkers,
               \/ Listed(w) \/ Picked(w) \/ Dropped(w)
               \/ \E place \in {"list", "load"} : ResumeCommand(w, place)
               \/ \E cards \in 0..MaxAsked : Applied(w, cards)
               \/ \E cards, questions \in 0..MaxAsked : Pause(w, cards, questions)
               \/ \E refused \in BOOLEAN : RunFails(w, refused)
               \/ \E o \in Objects, s \in HostSessions : Loaded(w, o, s)
        PROVE  saved' = saved
    BY <2>3 DEF Listed, Picked, Dropped, ResumeCommand, Applied, Pause, RunFails, Loaded
  <2> QED
    BY <2>1, <2>2, <2>3 DEF TerminalNext
<1> QED
  BY <1>1, <1>2, <1>3

LEMMA ConversationKeeps == ConversationIInv /\ [TerminalNext]_hostVars => ConversationIInv'
<1> SUFFICES ASSUME ConversationIInv, [TerminalNext]_hostVars PROVE ConversationIInv'
  OBVIOUS
<1>0. Sorts /\ StoreOK /\ (~crossed => Orderly) /\ Sorts'
  BY SortsKept DEF ConversationIInv
<1>1. CASE UNCHANGED hostVars
  <2>1. UNCHANGED <<contexts, shown, saved, busy, job, shells, typed, givenUp, unsaved, crossed>>
    BY <1>1 DEF hostVars
  <2> QED
    BY <1>0, <2>1, SameOrder DEF ConversationIInv, StoreOK
<1>2. CASE TerminalNext
  <2>1. StoreOK'
    BY <1>0, <1>2, StoreStaysOK
  <2>2. ASSUME ~crossed' PROVE Orderly'
    BY <1>0, <1>2, <2>2, UserKeepsOrder, TurnKeepsOrder, WorkerKeepsOrder, EndsKeepOrder DEF TerminalNext
  <2> QED
    BY <1>0, <2>1, <2>2 DEF ConversationIInv
<1> QED
  BY <1>1, <1>2

LEMMA ConversationBegins == TerminalInit => ConversationIInv
<1> SUFFICES ASSUME TerminalInit PROVE ConversationIInv
  OBVIOUS
<1>1. /\ Sorts /\ shown = 1 /\ busy = FALSE /\ shells = 0 /\ typed = 0
      /\ saved = [x \in HostSessions |-> {}] /\ \A w \in HostWorkers : job[w] = NoJob
  BY SortsInit DEF TerminalInit
<1>2. Shown.told = {} /\ Shown.session \in HostSessions
  <2>1. PICK s \in HostSessions : contexts = [o \in Objects |-> [session |-> s, told |-> {}, inbox |-> {}]]
    BY DEF TerminalInit
  <2>2. Shown = [session |-> s, told |-> {}, inbox |-> {}]
    BY <1>1, <2>1, TerminalConstants DEF Shown, Objects
  <2> QED
    BY <2>2
<1>3. \A w \in HostWorkers : ~Alive(w) /\ ~Active(w) /\ ~TurnUnderWay(w)
  BY <1>1, NoneTypes DEF Alive, Active, TurnUnderWay
<1>4. StoreOK /\ SavedNow
  BY <1>1, <1>2 DEF StoreOK, SavedNow
<1>5. Exclusive /\ OnScreen /\ SavedOK
  BY <1>1, <1>3, <1>4 DEF Exclusive, OnScreen, SavedOK
<1>6. NothingLost
  BY <1>1 DEF NothingLost
<1> QED
  BY <1>1, <1>4, <1>5, <1>6 DEF ConversationIInv, Orderly

-----------------------------------------------------------------------------
(* Whatever the user types, clicks and interrupts beside the turns, the    *)
(* picker and the saves: until a menu entry is clicked while something     *)
(* runs or a shell command crosses /resume, one turn runs at a time, the   *)
(* composer is blocked only while something runs, no message is lost, and  *)
(* between turns the store has what the screen shows (app.py 461-501,      *)
(* 1162-1198).                                                             *)
THEOREM ConversationStays == TerminalSpec => []ConversationKept
<1>1. ConversationIInv => ConversationKept
  <2> SUFFICES ASSUME ConversationIInv, ~crossed
               PROVE  OneTurn /\ BusyForSomeone /\ NothingLost /\ SavedWhenIdle
    BY DEF ConversationKept
  <2>1. Sorts /\ Orderly
    BY DEF ConversationIInv
  <2>2. OneTurn
    <3>1. \A v \in HostWorkers : TurnUnderWay(v) => Active(v)
      BY DEF TurnUnderWay, Active
    <3> QED
      BY <2>1, <3>1, Alone DEF OneTurn, Orderly
  <2>3. BusyForSomeone
    <3>1. \A v \in HostWorkers : Active(v) => Alive(v)
      BY DEF Alive, Active
    <3> QED
      BY <2>1, <3>1 DEF BusyForSomeone, Orderly, Exclusive
  <2>4. SavedWhenIdle
    BY <2>1 DEF SavedWhenIdle, Orderly, SavedOK, SavedNow
  <2> QED
    BY <2>1, <2>2, <2>3, <2>4 DEF Orderly
<1> QED
  BY <1>1, ConversationBegins, ConversationKeeps, PTL DEF TerminalSpec

-----------------------------------------------------------------------------
(* Stored components.                                                      *)

-----------------------------------------------------------------------------
(* The classes.                                                            *)

\* What a config holds and what it can not hold are different arguments.
Apart(class) == (class.required \cup class.optional \cup class.defaulted \cup class.nullable) \cap class.live = {}

LEMMA ClassesApart == \A c \in AllClasses : Apart(Class(c))
<1>1. /\ Apart(FastEmbedEmbedding) /\ Apart(OpenAIEmbedding)
      /\ Apart(OllamaClient) /\ Apart(OpenAIClient) /\ Apart(OpenRouterClient)
  BY DEF Apart, Settings, FastEmbedEmbedding, OpenAIEmbedding, OllamaClient, OpenAIClient, OpenRouterClient
<1>2. /\ Apart(LocalContext) /\ Apart(SQLiteContext)
      /\ Apart(LocalMemory) /\ Apart(MongoDBMemory) /\ Apart(SQLiteMemory)
      /\ Apart(LocalKnowledge) /\ Apart(MongoDBKnowledge) /\ Apart(SQLiteKnowledge)
  BY DEF Apart, Settings, LocalContext, SQLiteContext, LocalMemory, MongoDBMemory, SQLiteMemory,
         LocalKnowledge, MongoDBKnowledge, SQLiteKnowledge
<1>3. /\ Apart(LocalExecutor) /\ Apart(DockerExecutor) /\ Apart(ModalExecutor)
      /\ Apart(LocalSessionStore) /\ Apart(MongoDBSessionStore)
      /\ Apart(LocalQuotaStore) /\ Apart(MongoDBQuotaStore)
      /\ Apart(LocalSkills) /\ Apart(GithubSkills)
      /\ Apart(LocalWorkspace) /\ Apart(AzureBlobWorkspace) /\ Apart(MinIOWorkspace)
  BY DEF Apart, Settings, LocalExecutor, DockerExecutor, ModalExecutor, LocalSessionStore,
         MongoDBSessionStore, LocalQuotaStore, MongoDBQuotaStore, LocalSkills, GithubSkills,
         LocalWorkspace, AzureBlobWorkspace, MinIOWorkspace
<1>4. /\ Apart(CompactionStrategy) /\ Apart(RuntimeGate) /\ Apart(RepetitionGuard)
      /\ Apart(BudgetGuard) /\ Apart(PlanCompletionGuard) /\ Apart(ReactLoop) /\ Apart(BudgetLimits)
      /\ Apart(Logging) /\ Apart(Tracing) /\ Apart(PromptLayer) /\ Apart(FunctionTool) /\ Apart(Foreign)
  BY DEF Apart, Settings, CompactionStrategy, RuntimeGate, RepetitionGuard, BudgetGuard,
         PlanCompletionGuard, ReactLoop, BudgetLimits, Logging, Tracing, PromptLayer, FunctionTool, Foreign
<1>5. Apart(Agent)
  BY DEF Apart, Settings, Agent
<1>6. \A c \in DOMAIN Leaves : Apart(Leaves[c])
  BY <1>1, <1>2, <1>3, <1>4 DEF Leaves
<1> QED
  BY <1>5, <1>6 DEF AllClasses, Class

-----------------------------------------------------------------------------
(* The inductive invariant.                                                *)

\* Every setting is None, its default or something else, as its kind allows.
Node(n) ==
    /\ n.class \in AllClasses
    /\ \A s \in Storable(n.class) :
          /\ n.values[s] \in {None, Default, Other}
          /\ n.values[s] = Default => s \in Defaulted(n.class)

BuiltOK == DOMAIN built \subseteq 1..MaxHeld /\ 1 \in DOMAIN built /\ \A r \in DOMAIN built : Node(built[r])

\* What is stored is the serialized form, or nothing.
StoredOK ==
    /\ stored.form \in {"none", "full", "compact", "failed"}
    /\ stored.form \in {"none", "failed"} => DOMAIN stored.data = {}
    /\ stored.form \in {"full", "compact"} =>
          /\ CanStore(stored.form)
          /\ stored.data = [r \in DOMAIN built |-> Serialized(built[r], stored.form)]

\* What is loaded is what this release makes of it, or nothing.
LoadedOK ==
    /\ loaded.form \in {"none", "full", "compact", "failed"}
    /\ loaded.form \in {"full", "compact"} =>
          /\ loaded.form = stored.form /\ CanLoad
          /\ loaded.data = [r \in DOMAIN stored.data |-> Restored(stored.data[r])]

ReleaseOK == release \in [defaults : BOOLEAN, versions : BOOLEAN]

ComponentsIInv == BuiltOK /\ StoredOK /\ LoadedOK /\ ReleaseOK

LEMMA MadeNodes ==
    ASSUME NEW c \in AllClasses, NEW n \in Made[c] PROVE Node(n)
<1>1. \A s \in AllSettings(c) : AsDefault(c)[s] \in MayBe(c, s)
  <2>1. ASSUME NEW s \in AllSettings(c)
        PROVE  \E v \in MayBe(c, s) : v = (IF s \in Defaulted(c) THEN Default
                                           ELSE IF s \in Class(c).required THEN Other ELSE None)
    BY DEF MayBe, AllSettings, Storable, Defaulted
  <2> QED
    BY <2>1 DEF AsDefault
<1>2. DOMAIN AsDefault(c) = AllSettings(c)
  BY DEF AsDefault
<1>3. n.class = c /\ \A s \in AllSettings(c) : n.values[s] \in MayBe(c, s)
  BY <1>1, <1>2 DEF Made
<1>4. \A s, v : v \in MayBe(c, s) => v \in {None, Default, Other} /\ (v = Default => s \in Defaulted(c))
  BY DEF MayBe, None, Default, Other
<1> QED
  BY <1>3, <1>4 DEF Node, AllSettings

LEMMA ComponentsStart == ASSUME ComponentsInit PROVE ComponentsIInv
<1>1. PICK n \in 1..MaxHeld : \E classes \in Holding(n) :
          built \in {nodes \in [1..n -> UNION {Made[classes[i]] : i \in 1..n}] :
                        \A i \in 1..n : nodes[i] \in Made[classes[i]]}
  BY DEF ComponentsInit
<1>2. PICK classes \in Holding(n) :
          built \in {nodes \in [1..n -> UNION {Made[classes[i]] : i \in 1..n}] :
                        \A i \in 1..n : nodes[i] \in Made[classes[i]]}
  BY <1>1
<1>3. DOMAIN built = 1..n /\ \A i \in 1..n : classes[i] \in AllClasses /\ built[i] \in Made[classes[i]]
  BY <1>2 DEF Holding
<1>4. 1..n \subseteq 1..MaxHeld
  BY ComponentsAssumption
<1>5. BuiltOK
  BY <1>3, <1>4, MadeNodes, ComponentsAssumption DEF BuiltOK
<1> QED
  BY <1>5 DEF ComponentsInit, ComponentsIInv, StoredOK, LoadedOK, ReleaseOK, Nothing, NoData

LEMMA ComponentsKept ==
    ASSUME ComponentsIInv, [ComponentsNext]_componentVars PROVE ComponentsIInv'
<1>1. CASE UNCHANGED componentVars
  BY <1>1 DEF componentVars, ComponentsIInv, BuiltOK, StoredOK, LoadedOK, ReleaseOK, CanStore, CanLoad,
              Restored, DefaultNow
<1>2. ASSUME NEW form \in {"full", "compact"}, Store(form) PROVE ComponentsIInv'
  <2>1. /\ stored.form = "none" /\ UNCHANGED <<built, release, loaded>> /\ loaded.form \in {"none", "failed"}
    BY <1>2 DEF Store, ComponentsIInv, LoadedOK
  <2>2. StoredOK'
    <3>1. CASE CanStore(form)
      <4>1. stored' = [form |-> form, data |-> [r \in DOMAIN built |-> Serialized(built[r], form)]]
        BY <1>2, <3>1 DEF Store
      <4>2. stored'.form = form /\ stored'.data = [r \in DOMAIN built |-> Serialized(built[r], form)]
        BY <4>1
      <4> QED
        BY <2>1, <3>1, <4>2 DEF StoredOK, CanStore
    <3>2. CASE ~CanStore(form)
      BY <1>2, <3>2 DEF Store, StoredOK, Nothing, NoData
    <3> QED
      BY <3>1, <3>2
  <2> QED
    BY <2>1, <2>2 DEF ComponentsIInv, BuiltOK, LoadedOK, ReleaseOK
<1>3. ASSUME NEW defaults \in BOOLEAN, NEW versions \in BOOLEAN, Release(defaults, versions)
      PROVE  ComponentsIInv'
  BY <1>3 DEF Release, ComponentsIInv, BuiltOK, StoredOK, LoadedOK, ReleaseOK, CanStore
<1>4. CASE Load
  <2>1. UNCHANGED <<built, stored, release>> /\ stored.form \in {"full", "compact"}
    BY <1>4 DEF Load
  <2>2. LoadedOK'
    <3>1. CASE CanLoad
      <4>1. loaded' = [form |-> stored.form,
                       data |-> [r \in DOMAIN stored.data |-> Restored(stored.data[r])]]
        BY <1>4, <3>1 DEF Load
      <4>2. /\ loaded'.form = stored.form
            /\ loaded'.data = [r \in DOMAIN stored.data |-> Restored(stored.data[r])]
        BY <4>1
      <4> QED
        BY <2>1, <3>1, <4>2 DEF LoadedOK, CanLoad, Restored, DefaultNow
    <3>2. CASE ~CanLoad
      BY <1>4, <3>2 DEF Load, LoadedOK, Nothing
    <3> QED
      BY <3>1, <3>2
  <2> QED
    BY <2>1, <2>2 DEF ComponentsIInv, BuiltOK, StoredOK, ReleaseOK, CanStore
<1> QED
  BY <1>1, <1>2, <1>3, <1>4 DEF ComponentsNext

\* A setting goes out and comes back.
LEMMA SettingReturns ==
    ASSUME NEW n, Node(n), NEW form \in {"full", "compact"}, NEW s \in Storable(n.class)
    PROVE  ComesBack(n, form, Restored(Serialized(n, form)), s)
<1> DEFINE left == IF form = "full" THEN {} ELSE {x \in Defaulted(n.class) : n.values[x] = Default}
           kept == [x \in Kept(n) \ left |-> n.values[x]]
           data == Serialized(n, form)
           back == Restored(data)
<1>1. data.class = n.class /\ data.kept = kept /\ DOMAIN kept = Kept(n) \ left
  BY DEF Serialized
<1>2. \A x \in AllSettings(n.class) :
          back.values[x] = IF x \in Kept(n) \ left THEN n.values[x] ELSE DefaultNow(n.class, x)
  BY <1>1 DEF Restored
<1>3. s \in AllSettings(n.class) /\ (s \in Kept(n) <=> n.values[s] # None)
      /\ (s \in left <=> form = "compact" /\ n.values[s] = Default)
  BY DEF AllSettings, Kept, Node
<1> HIDE DEF left, kept, data, back
<1>4. n.values[s] \in {None, Default, Other}
  BY DEF Node
<1>5. back.values[s] = IF s \in Kept(n) \ left THEN n.values[s] ELSE DefaultNow(n.class, s)
  BY <1>2, <1>3
<1>6. ComesBack(n, form, back, s)
  <2>1. CASE n.values[s] = Other
    BY <1>3, <1>5, <2>1 DEF ComesBack, None, Default, Other
  <2>2. CASE n.values[s] = None
    BY <1>3, <1>5, <2>2 DEF ComesBack, None, Default, Other
  <2>3. CASE n.values[s] = Default
    BY <1>3, <1>5, <2>3 DEF ComesBack, None, Default, Other
  <2> QED
    BY <1>4, <2>1, <2>2, <2>3
<1> QED
  BY <1>6 DEF back, data

LEMMA ComingBack == ASSUME ComponentsIInv PROVE ComponentsComeBack
<1>1. ASSUME NEW r \in DOMAIN stored.data
      PROVE  DOMAIN stored.data[r].kept \cap Class(built[r].class).live = {}
  <2>1. /\ r \in DOMAIN built /\ Node(built[r])
        /\ stored.data[r] = Serialized(built[r], stored.form)
    BY <1>1 DEF ComponentsIInv, BuiltOK, StoredOK
  <2>2. DOMAIN stored.data[r].kept \subseteq Storable(built[r].class)
    BY <2>1 DEF Serialized, Kept
  <2> QED
    BY <2>1, <2>2, ClassesApart DEF Node, Apart, Storable, Defaulted
<1>2. ASSUME loaded.form \in {"full", "compact"}
      PROVE  /\ DOMAIN loaded.data = DOMAIN built
             /\ loaded.form = "full" => ~release.versions
             /\ \A r \in DOMAIN built :
                  /\ loaded.data[r].class = built[r].class /\ built[r].class # "FunctionTool"
                  /\ built[r].class = "Foreign" => "Foreign" \in Trusted
                  /\ \A s \in Storable(built[r].class) :
                       ComesBack(built[r], loaded.form, loaded.data[r], s)
  <2>1. /\ loaded.form = stored.form /\ CanLoad /\ CanStore(stored.form)
        /\ DOMAIN stored.data = DOMAIN built
        /\ \A r \in DOMAIN built : stored.data[r] = Serialized(built[r], loaded.form)
        /\ DOMAIN loaded.data = DOMAIN built
        /\ \A r \in DOMAIN built : loaded.data[r] = Restored(stored.data[r]) /\ Node(built[r])
    BY <1>2 DEF ComponentsIInv, BuiltOK, StoredOK, LoadedOK
  <2>2. \A r \in DOMAIN built :
            /\ stored.data[r].class = built[r].class /\ (stored.data[r].versioned <=> loaded.form = "full")
            /\ loaded.data[r].class = built[r].class
    <3>1. \A n : /\ Serialized(n, loaded.form).class = n.class
                 /\ Serialized(n, loaded.form).versioned <=> loaded.form = "full"
      BY DEF Serialized
    <3>2. \A n : Restored(n).class = n.class
      BY DEF Restored
    <3> QED
      BY <2>1, <3>1, <3>2
  <2>3. loaded.form = "full" => ~release.versions
    BY <2>1, <2>2 DEF CanLoad, ComponentsIInv, BuiltOK
  <2>4. ASSUME NEW r \in DOMAIN built
        PROVE  /\ built[r].class # "FunctionTool" /\ (built[r].class = "Foreign" => "Foreign" \in Trusted)
               /\ \A s \in Storable(built[r].class) : ComesBack(built[r], loaded.form, loaded.data[r], s)
    <3>1. built[r].class # "FunctionTool" /\ (built[r].class = "Foreign" => "Foreign" \in Trusted)
      BY <2>1, <2>2 DEF CanStore, CanLoad, Allowed
    <3>2. \A s \in Storable(built[r].class) :
              ComesBack(built[r], loaded.form, Restored(Serialized(built[r], loaded.form)), s)
      BY <1>2, <2>1, SettingReturns
    <3> QED
      BY <2>1, <3>1, <3>2
  <2> QED
    BY <2>1, <2>2, <2>3, <2>4
<1> QED
  BY <1>1, <1>2 DEF ComponentsComeBack

\* For every class, at any depth of components that hold components, both forms
\* and every change a release may make: what was set comes back as it was set,
\* what was None comes back as that release's default, what was at its default
\* comes back frozen or follows the release, no live object is in the data, and
\* code, classes that are not allowed and old versions are refused as a whole
\* (base/component.py).
THEOREM StoredComeBack == ComponentsSpec => []ComponentsComeBack
<1>1. ComponentsInit => ComponentsIInv
  BY ComponentsStart
<1>2. ComponentsIInv /\ [ComponentsNext]_componentVars => ComponentsIInv'
  BY ComponentsKept
<1>3. ComponentsIInv => ComponentsComeBack
  BY ComingBack
<1> QED
  BY <1>1, <1>2, <1>3, PTL DEF ComponentsSpec

\* The component, what was stored and what was loaded stay well formed.
THEOREM ComponentsTypeCorrect == ComponentsSpec => []ComponentsTypeOK
<1>1. ComponentsInit => ComponentsIInv
  BY ComponentsStart
<1>2. ComponentsIInv /\ [ComponentsNext]_componentVars => ComponentsIInv'
  BY ComponentsKept
<1>3. ComponentsIInv => ComponentsTypeOK
  BY DEF ComponentsIInv, BuiltOK, StoredOK, LoadedOK, ReleaseOK, Node, ComponentsTypeOK
<1> QED
  BY <1>1, <1>2, <1>3, PTL DEF ComponentsSpec

-----------------------------------------------------------------------------
(* Spans.                                                                  *)

-----------------------------------------------------------------------------
(* Hooks: which spans end.                                                 *)

\* The span of a run that goes on is open or never was; one that the last
\* pass left open was left by a hook before the tracer.
HooksIInv ==
    /\ HooksTypeOK /\ SpansEnded
    /\ run \in {"running", "ending", "failing"} => runSpan \in {"none", "open"}

\* A pass that no middleware cuts short is heard by all of them.
LEMMA PassIsHeard ==
    ASSUME NEW cut \in Cuts, Passes(cut), tracer \in 1..Chain
    PROVE  HeardInOrder(cut) /\ HeardInReverse(cut)
BY HooksAssumption DEF Cuts, Passes, HeardInOrder, HeardInReverse, HooksAssumption

LEMMA SpanSteps ==
    /\ \A heard \in BOOLEAN : Opened(heard) \in {"none", "open"} /\ (heard => Opened(heard) = "open")
    /\ \A span \in {"none", "open"}, heard \in BOOLEAN :
          /\ Ended(span, heard) \in {"none", "open", "ended"} /\ (heard => Ended(span, heard) # "open")
    /\ \A span \in Spans, heard \in BOOLEAN :
          /\ Popped(span, heard) \in Spans /\ (heard => Popped(span, heard) # "open")
          /\ span # "none" => Popped(span, heard) # "none"
          /\ span # "twice" => Popped(span, heard) # "twice"
BY DEF Opened, Ended, Popped, Spans

LEMMA NoCallType == NoCall \in [state : CallStates, span : Spans]
BY DEF NoCall, CallStates, Spans

LEMMA CutTypes ==
    \A cut \in Cuts : HeardInOrder(cut) \in BOOLEAN /\ HeardInReverse(cut) \in BOOLEAN
BY DEF HeardInOrder, HeardInReverse

\* A tool call takes a step of its own, the run goes on or fails.
LEMMA ToolStep ==
    ASSUME HooksIInv, NEW c \in ToolCalls, NEW state \in CallStates, NEW span \in Spans,
           tools' = [tools EXCEPT ![c] = [state |-> state, span |-> span]],
           span # "twice", span = "open" => state \in MayBeOpen,
           run' = run \/ (run' \in {"ending", "failing"} /\ run \in {"running", "failing"}),
           UNCHANGED <<tracer, runs, models, runSpan, unheard, model>>
    PROVE  HooksIInv'
<1>1. tools \in [ToolCalls -> [state : CallStates, span : Spans]]
  BY DEF HooksIInv, HooksTypeOK
<1>2. tools' \in [ToolCalls -> [state : CallStates, span : Spans]]
  BY <1>1
<1>3. /\ tools'[c].state = state /\ tools'[c].span = span
      /\ \A d \in ToolCalls \ {c} : tools'[d] = tools[d]
  BY <1>1
<1>4. HooksTypeOK'
  BY <1>2 DEF HooksIInv, HooksTypeOK, RunStates
<1>5. /\ \A d \in ToolCalls : tools[d].span = "open" => tools[d].state \in MayBeOpen
      /\ \A d \in ToolCalls : tools[d].span # "twice"
  BY DEF HooksIInv, SpansEnded
<1>6. /\ \A d \in ToolCalls : tools'[d].span = "open" => tools'[d].state \in MayBeOpen
      /\ \A d \in ToolCalls : tools'[d].span # "twice"
  BY <1>3, <1>5
<1>7. SpansEnded'
  BY <1>6 DEF HooksIInv, SpansEnded, Running
<1> QED BY <1>4, <1>7 DEF HooksIInv

\* A model call takes a step of its own.
LEMMA ModelStep ==
    ASSUME HooksIInv, NEW state \in CallStates, NEW span \in Spans,
           model' = [state |-> state, span |-> span],
           span # "twice", span = "open" => state \in MayBeOpen,
           state \in {"asked", "recovered", "answered"} => span # "none",
           run = "running", run' \in {"running", "ending", "failing"},
           models' \in 0..MaxModels,
           tools' = tools \/ tools' = [c \in ToolCalls |-> NoCall],
           UNCHANGED <<tracer, runs, runSpan, unheard>>
    PROVE  HooksIInv'
<1>1. HooksTypeOK'
  BY DEF HooksIInv, HooksTypeOK, RunStates, NoCall, CallStates, Spans
<1>2. model'.state = state /\ model'.span = span
  OBVIOUS
<1>3. \A d \in ToolCalls : (tools'[d].span = "open" => tools'[d].state \in MayBeOpen) /\ tools'[d].span # "twice"
  BY DEF HooksIInv, SpansEnded, NoCall
<1>4. SpansEnded'
  BY <1>2, <1>3 DEF HooksIInv, SpansEnded, Running
<1> QED BY <1>1, <1>4 DEF HooksIInv

LEMMA HooksKept == ASSUME HooksIInv, [HooksNext]_hookVars PROVE HooksIInv'
<1>a. /\ tracer \in 1..Chain /\ model.state \in CallStates /\ model.span \in Spans
      /\ model = [state |-> model.state, span |-> model.span]
      /\ \A c \in ToolCalls : tools[c].state \in CallStates /\ tools[c].span \in Spans
      /\ runs \in 0..MaxRuns /\ models \in 0..MaxModels /\ model.span # "twice"
      /\ \A c \in ToolCalls : tools[c].span # "twice"
  BY DEF HooksIInv, HooksTypeOK, SpansEnded
<1>b. \A cut \in Cuts : Passes(cut) \in BOOLEAN
  BY DEF Passes
<1>1. ASSUME NEW cut \in Cuts, NEW how \in {"stop", "raise"}, RunStart(cut, how) PROVE HooksIInv'
  <2>1. /\ run' \in {"running", "ending", "failing"} /\ (run' = "running" => Passes(cut))
        /\ runSpan' \in {"none", "open"} /\ (run' = "running" => runSpan' = "open")
    BY <1>1, <1>a, PassIsHeard, SpanSteps, CutTypes DEF RunStart
  <2>2. runs' \in 0..MaxRuns /\ models' \in 0..MaxModels
    BY <1>1, <1>a, HooksAssumption DEF RunStart, HooksAssumption
  <2>3. model' \in [state : CallStates, span : Spans] /\ tools' \in [ToolCalls -> [state : CallStates, span : Spans]]
    BY <1>1, NoCallType DEF RunStart
  <2>4. HooksTypeOK'
    BY <1>1, <1>a, <2>1, <2>2, <2>3 DEF RunStart, HooksTypeOK, RunStates, Spans
  <2>5. SpansEnded'
    BY <1>1, <2>1 DEF RunStart, SpansEnded, Running, NoCall
  <2> QED BY <2>1, <2>4, <2>5 DEF HooksIInv
<1>2. ASSUME runSpan \in {"none", "open"}, NEW heard \in BOOLEAN, runSpan' = Ended(runSpan, heard),
             run' \in {"paused", "over"}, unheard' \in BOOLEAN, ~heard => unheard',
             UNCHANGED <<tracer, runs, models, model, tools>>
      PROVE  HooksIInv'
  <2>1. runSpan' \in {"none", "open", "ended"} /\ (heard => runSpan' # "open")
    BY <1>2, SpanSteps
  <2>2. HooksTypeOK'
    BY <1>2, <2>1 DEF HooksIInv, HooksTypeOK, RunStates, Spans
  <2>3. SpansEnded'
    BY <1>2, <2>1 DEF HooksIInv, SpansEnded, Running
  <2> QED BY <1>2, <2>2, <2>3 DEF HooksIInv
<1>3. ASSUME NEW cut \in Cuts, NEW next \in {"paused", "over"}, RunEnd(cut, next) PROVE HooksIInv'
  BY <1>2, <1>3, CutTypes DEF RunEnd, HooksIInv
<1>4. ASSUME NEW cut \in Cuts, NEW how \in {"raise", "cancel"}, RunError(cut, how) PROVE HooksIInv'
  BY <1>2, <1>4, CutTypes DEF RunError, HearsError, HooksIInv
<1>5. ASSUME NEW cut \in Cuts, NEW how \in {"stop", "raise"}, AskModel(cut, how) PROVE HooksIInv'
  <2>1. PICK state \in {"asked", "refused"} :
           /\ state = (IF Passes(cut) THEN "asked" ELSE "refused")
           /\ model' = [state |-> state, span |-> Opened(HeardInOrder(cut))]
    BY <1>5 DEF AskModel
  <2>2. /\ Opened(HeardInOrder(cut)) \in {"none", "open"}
        /\ state = "asked" => Opened(HeardInOrder(cut)) = "open"
    BY <1>a, <2>1, PassIsHeard, SpanSteps, CutTypes
  <2>3. models' \in 0..MaxModels
    BY <1>5, <1>a, HooksAssumption DEF AskModel, HooksAssumption
  <2> QED BY <1>5, <2>1, <2>2, <2>3, ModelStep DEF AskModel, AfterCut, Running, CallStates, Spans, MayBeOpen
<1>6. ASSUME NEW cut \in Cuts, NEW how \in {"stop", "raise"}, ModelResponds(cut, how) PROVE HooksIInv'
  <2>1. PICK state \in {"answered", "cut"} :
           /\ state = (IF Passes(cut) THEN "answered" ELSE "cut")
           /\ model' = [state |-> state, span |-> Popped(model.span, HeardInReverse(cut))]
    BY <1>6 DEF ModelResponds
  <2>2. model.span # "none"
    BY <1>6 DEF ModelResponds, HooksIInv, SpansEnded
  <2>3. /\ Popped(model.span, HeardInReverse(cut)) \in Spans \ {"none", "twice"}
        /\ state = "answered" => Popped(model.span, HeardInReverse(cut)) # "open"
    BY <1>a, <2>1, <2>2, PassIsHeard, SpanSteps, CutTypes
  <2> QED BY <1>6, <1>a, <2>1, <2>3, ModelStep DEF ModelResponds, AfterCut, Running, CallStates, MayBeOpen
<1>7. ASSUME NEW cut \in Cuts, NEW how \in {"recover", "stop", "raise"}, ModelError(cut, how) PROVE HooksIInv'
  <2>1. PICK state \in {"failed", "recovered", "cut"} :
           /\ state = (IF Passes(cut) THEN "failed" ELSE IF how = "recover" THEN "recovered" ELSE "cut")
           /\ model' = [state |-> state, span |-> Popped(model.span, HeardInReverse(cut))]
    BY <1>7 DEF ModelError
  <2>2. model.span # "none"
    BY <1>7 DEF ModelError, HooksIInv, SpansEnded
  <2>3. /\ Popped(model.span, HeardInReverse(cut)) \in Spans \ {"none", "twice"}
        /\ state = "failed" => Popped(model.span, HeardInReverse(cut)) # "open"
    BY <1>a, <2>1, <2>2, PassIsHeard, SpanSteps, CutTypes
  <2> QED BY <1>7, <1>a, <2>1, <2>3, ModelStep DEF ModelError, Running, CallStates, MayBeOpen
<1>8. CASE ModelCancelled
  <2>1. model' = [state |-> "cancelled", span |-> model.span]
    BY <1>8, <1>a DEF ModelCancelled
  <2> QED BY <1>8, <1>a, <2>1, ModelStep DEF ModelCancelled, Running, CallStates, MayBeOpen
<1>9. ASSUME NEW cut \in Cuts, NEW c \in ToolCalls, NEW how \in {"answer", "stop", "raise"},
             UseTool(c, cut, how)
      PROVE  HooksIInv'
  <2>1. PICK state \in {"asked", "refused", "cut"} :
           tools' = [tools EXCEPT ![c] = [state |-> state, span |-> Opened(HeardInOrder(cut))]]
    BY <1>9 DEF UseTool
  <2>2. Opened(HeardInOrder(cut)) \in {"none", "open"}
    BY SpanSteps, CutTypes
  <2>3. (state = "asked" \/ state = "refused" \/ state = "cut")
        /\ (run' = run \/ (run' \in {"ending", "failing"} /\ run \in {"running", "failing"}))
    BY <1>9 DEF UseTool, AfterCut, Running
  <2> QED BY <1>9, <2>1, <2>2, <2>3, ToolStep DEF UseTool, CallStates, Spans, MayBeOpen
<1>10. ASSUME NEW cut \in Cuts, NEW c \in ToolCalls, NEW how \in {"stop", "raise"}, ToolReturns(c, cut, how)
       PROVE  HooksIInv'
  <2>1. PICK state \in {"answered", "cut"} :
           /\ state = (IF Passes(cut) THEN "answered" ELSE "cut")
           /\ tools' = [tools EXCEPT ![c] = [state |-> state,
                                            span |-> Popped(tools[c].span, HeardInReverse(cut))]]
    BY <1>10 DEF ToolReturns
  <2>2. /\ Popped(tools[c].span, HeardInReverse(cut)) \in Spans \ {"twice"}
        /\ state = "answered" => Popped(tools[c].span, HeardInReverse(cut)) # "open"
    BY <1>a, <2>1, PassIsHeard, SpanSteps, CutTypes
  <2>3. run' = run \/ (run' \in {"ending", "failing"} /\ run \in {"running", "failing"})
    BY <1>10 DEF ToolReturns, AfterCut, Running
  <2>4. Popped(tools[c].span, HeardInReverse(cut)) = "open" => state \in MayBeOpen
    BY <2>1, <2>2 DEF MayBeOpen
  <2> QED BY <1>10, <2>1, <2>2, <2>3, <2>4, ToolStep DEF ToolReturns, CallStates
<1>11. ASSUME NEW c \in ToolCalls, ToolCancelled(c) PROVE HooksIInv'
  <2>a. tools[c] \in [state : CallStates, span : Spans]
    BY DEF HooksIInv, HooksTypeOK
  <2>b. [tools[c] EXCEPT !.state = "cancelled"] = [state |-> "cancelled", span |-> tools[c].span]
    BY <2>a
  <2>1. tools' = [tools EXCEPT ![c] = [state |-> "cancelled", span |-> tools[c].span]]
    BY <1>11, <2>b DEF ToolCancelled
  <2> QED BY <1>11, <1>a, <2>1, ToolStep DEF ToolCancelled, CallStates, MayBeOpen
<1>12. ASSUME NEW cut \in Cuts, NEW how \in {"stop", "raise"}, FinalResponse(cut, how) PROVE HooksIInv'
  <2>1. run = "running" /\ run' \in {"ending", "failing"}
        /\ UNCHANGED <<tracer, runs, models, runSpan, unheard, model, tools>>
    BY <1>12 DEF FinalResponse, Running
  <2> QED BY <2>1 DEF HooksIInv, HooksTypeOK, SpansEnded, RunStates, Running
<1>13. CASE UNCHANGED hookVars
  BY <1>13 DEF hookVars, HooksIInv, HooksTypeOK, SpansEnded, Running
<1> QED
  BY <1>1, <1>3, <1>4, <1>5, <1>6, <1>7, <1>8, <1>9, <1>10, <1>11, <1>12, <1>13 DEF HooksNext

\* However hooks cut the passes short, no span is ended twice, that of a run is
\* ended when the run is over unless a hook of its last pass stopped the pass
\* before the tracer, and those of calls are ended but for calls under way,
\* cancelled, or cut short by a hook (capabilities/middleware/tracing.py).
THEOREM SpansEndOnce == HooksSpec => []SpansEnded
<1>1. ASSUME HooksInit PROVE HooksIInv
  <2>a. runs \in 0..MaxRuns /\ models \in 0..MaxModels
    BY <1>1, HooksAssumption DEF HooksInit, HooksAssumption
  <2>b. tools \in [ToolCalls -> [state : CallStates, span : Spans]]
    BY <1>1, NoCallType DEF HooksInit
  <2>1. HooksTypeOK
    BY <1>1, <2>a, <2>b, NoCallType DEF HooksInit, HooksTypeOK, RunStates, Spans
  <2>2. SpansEnded
    BY <1>1 DEF HooksInit, SpansEnded, NoCall, Running
  <2> QED BY <1>1, <2>1, <2>2 DEF HooksInit, HooksIInv
<1>2. HooksIInv => SpansEnded
  BY DEF HooksIInv
<1> QED BY <1>1, <1>2, HooksKept, PTL DEF HooksSpec

-----------------------------------------------------------------------------
(* ModelCall: frames.                                                      *)

FramePiece == Nat \X Nat
GivenIds == {Given(1), Given(2)}
CallIds == GivenIds \cup {MadeUp(i) : i \in Nat}
Frame == [kind : {"text", "thinking"}, piece : FramePiece]
           \cup [kind : {"tool"}, index : Nat, id : {<<>>} \cup GivenIds, named : BOOLEAN, piece : FramePiece]
MadeCalls == [id : CallIds, arguments : Seq(FramePiece)]

LEMMA FrameFields ==
    ASSUME NEW f \in Frame
    PROVE  /\ f.piece \in FramePiece /\ f.kind \in {"text", "thinking", "tool"}
           /\ f.kind = "tool" => f.index \in Nat /\ f.id \in {<<>>} \cup GivenIds /\ f.named \in BOOLEAN
BY DEF Frame

\* Ids of different calls differ.
LEMMA IdsDiffer ==
    /\ \A i \in Nat : MadeUp(i) # <<>> /\ MadeUp(i) \notin GivenIds
    /\ \A i, j \in Nat : MadeUp(i) = MadeUp(j) => i = j
    /\ <<>> \notin GivenIds
BY DEF MadeUp, Given, GivenIds

LEMMA OneMore ==
    ASSUME NEW frames \in Seq(Frame), NEW f \in Frame
    PROVE  LET n == Len(frames)
               more == Append(frames, f)
           IN  /\ n \in Nat /\ more \in Seq(Frame) /\ Len(more) = n + 1 /\ more[n + 1] = f
               /\ DOMAIN frames = 1..n /\ DOMAIN more = 1..n + 1
               /\ \A k \in 1..n : more[k] = frames[k]
               /\ \A k \in 1..n + 1 : k \in 1..n \/ k = n + 1
               /\ n + 1 \notin 1..n
OBVIOUS

\* The loop over the frames has the pieces so far after each one.
LEMMA PiecesAtIs ==
    ASSUME NEW frames \in Seq(Frame), NEW places
    PROVE  LET n == Len(frames)
           IN  \E f \in [0..n -> Seq(FramePiece)] :
                  /\ f[0] = <<>> /\ PiecesAt(frames, places) = f[n]
                  /\ \A i \in 1..n : f[i] = IF i \in places THEN Append(f[i - 1], frames[i].piece) ELSE f[i - 1]
<1> DEFINE n == Len(frames)
           D == Seq(FramePiece)
           G == [i \in 1..n |-> [l \in D |-> IF i \in places THEN Append(l, frames[i].piece) ELSE l]]
           Step(f, i) == IF i = 0 THEN <<>>
                         ELSE IF i \in places THEN Append(f[i - 1], frames[i].piece) ELSE f[i - 1]
           none == <<>>
<1>1. n \in Nat /\ \A i \in 1..n : frames[i].piece \in FramePiece
  BY FrameFields
<1>2. none \in D /\ \A l \in D : \A p \in FramePiece : Append(l, p) \in D
  OBVIOUS
<1> HIDE DEF n, D
<1>3. G \in [1..n -> [D -> D]]
  BY <1>1, <1>2
<1>4. \A i \in 1..n : \A l \in D : G[i][l] = IF i \in places THEN Append(l, frames[i].piece) ELSE l
  OBVIOUS
<1> HIDE DEF G
<1>5. PICK f \in [0..n -> D] : f[0] = <<>> /\ \A i \in 1..n : f[i] = G[i][f[i - 1]]
  <2>1. n \in Nat /\ none \in D
    BY <1>1, <1>2
  <2> HIDE DEF none, Step
  <2>2. \E f \in [0..n -> D] : f[0] = none /\ \A i \in 1..n : f[i] = G[i][f[i - 1]]
    BY <2>1, <1>3, LoopRuns
  <2> QED
    BY <2>2 DEF none
<1>6. \A i \in 1..n : f[i] = Step(f, i)
  <2> SUFFICES ASSUME NEW i \in 1..n PROVE f[i] = Step(f, i)
    OBVIOUS
  <2>1. i - 1 \in 0..n /\ i # 0
    BY <1>1
  <2>2. f[i - 1] \in D
    BY <1>5, <2>1
  <2> QED
    BY <1>4, <1>5, <2>1, <2>2
<1>7. f = [i \in 0..n |-> Step(f, i)]
  <2>1. f[0] = Step(f, 0)
    BY <1>5
  <2>2. \A i \in 0..n : i = 0 \/ i \in 1..n
    BY <1>1
  <2> HIDE DEF Step
  <2> QED
    BY <1>5, <1>6, <2>1, <2>2
<1> DEFINE pieces == CHOOSE g : g = [i \in 0..n |-> Step(g, i)]
<1>8. pieces = [i \in 0..n |-> Step(pieces, i)]
  <2> HIDE DEF Step
  <2> QED
    BY <1>7
<1>9. PiecesAt(frames, places) = pieces[n]
  BY DEF PiecesAt, n
<1> HIDE DEF pieces
<1>10. \A i \in 0..n : pieces[i] = Step(pieces, i)
  <2> HIDE DEF Step
  <2> QED
    BY <1>8
<1>11. pieces[0] = <<>> /\ \A i \in 1..n : pieces[i] = Step(pieces, i) /\ i # 0
  BY <1>1, <1>10
<1>12. \A i \in 0..n : pieces[i] \in D
  <2> DEFINE S == {i \in 0..n : pieces[i] \in D}
  <2>1. 0 \in S
    BY <1>1, <1>2, <1>11
  <2>2. ASSUME NEW i \in 0..n, i \in S, i < n PROVE i + 1 \in S
    <3>1. i + 1 \in 1..n /\ i + 1 - 1 = i /\ i + 1 \in 0..n
      BY <1>1, <2>2
    <3>2. pieces[i + 1] = IF i + 1 \in places THEN Append(pieces[i], frames[i + 1].piece) ELSE pieces[i]
      BY <1>11, <3>1
    <3>3. pieces[i + 1] \in D
      BY <1>1, <1>2, <2>2, <3>1, <3>2
    <3> QED
      BY <3>1, <3>3
  <2>3. 0..n \subseteq S
    <3> HIDE DEF S
    <3> QED
      BY <1>1, <2>1, <2>2, Climbs
  <2> QED
    BY <2>3
<1>13. pieces \in [0..n -> D]
  <2> HIDE DEF Step
  <2> QED
    BY <1>8, <1>12
<1> QED
  BY <1>9, <1>11, <1>13 DEF n, D

LEMMA NoPieces ==
    ASSUME NEW frames \in Seq(Frame), NEW places
    PROVE  Len(frames) = 0 => PiecesAt(frames, places) = <<>>
<1>1. PICK a \in [0..Len(frames) -> Seq(FramePiece)] :
        /\ a[0] = <<>> /\ PiecesAt(frames, places) = a[Len(frames)]
        /\ \A i \in 1..Len(frames) : a[i] = IF i \in places THEN Append(a[i - 1], frames[i].piece) ELSE a[i - 1]
  BY PiecesAtIs
<1> QED
  BY <1>1

LEMMA PiecesTyped ==
    ASSUME NEW frames \in Seq(Frame), NEW places
    PROVE  PiecesAt(frames, places) \in Seq(FramePiece)
<1>1. PICK a \in [0..Len(frames) -> Seq(FramePiece)] :
        /\ a[0] = <<>> /\ PiecesAt(frames, places) = a[Len(frames)]
        /\ \A i \in 1..Len(frames) : a[i] = IF i \in places THEN Append(a[i - 1], frames[i].piece) ELSE a[i - 1]
  BY PiecesAtIs
<1>2. Len(frames) \in 0..Len(frames)
  OBVIOUS
<1> QED
  BY <1>1, <1>2

LEMMA PiecesNone == \A places : PiecesAt(<<>>, places) = <<>>
<1>1. <<>> \in Seq(Frame) /\ Len(<<>>) = 0
  OBVIOUS
<1> QED
  BY <1>1, NoPieces, Zenon

\* One frame more: its piece comes last, if it is wanted.
LEMMA PiecesStep ==
    ASSUME NEW frames \in Seq(Frame), NEW f \in Frame, NEW places, NEW more,
           \A i \in 1..Len(frames) : i \in places <=> i \in more
    PROVE  /\ PiecesAt(frames, places) \in Seq(FramePiece)
           /\ PiecesAt(Append(frames, f), more) =
                 IF Len(frames) + 1 \in more THEN Append(PiecesAt(frames, places), f.piece)
                 ELSE PiecesAt(frames, places)
<1> DEFINE n == Len(frames)
           longer == Append(frames, f)
<1>1. /\ n \in Nat /\ longer \in Seq(Frame) /\ Len(longer) = n + 1 /\ longer[n + 1] = f
      /\ \A k \in 1..n : longer[k] = frames[k]
  BY OneMore
<1>2. PICK a \in [0..n -> Seq(FramePiece)] :
        /\ a[0] = <<>> /\ PiecesAt(frames, places) = a[n]
        /\ \A i \in 1..n : a[i] = IF i \in places THEN Append(a[i - 1], frames[i].piece) ELSE a[i - 1]
  BY PiecesAtIs
<1> HIDE DEF longer
<1>3. PICK b \in [0..Len(longer) -> Seq(FramePiece)] :
        /\ b[0] = <<>> /\ PiecesAt(longer, more) = b[Len(longer)]
        /\ \A i \in 1..Len(longer) : b[i] = IF i \in more THEN Append(b[i - 1], longer[i].piece) ELSE b[i - 1]
  BY <1>1, PiecesAtIs
<1> HIDE DEF n
<1> DEFINE S == {i \in 0..n : a[i] = b[i]}
<1>4. 0 \in S
  BY <1>1, <1>2, <1>3
<1>5. ASSUME NEW i \in 0..n, i \in S, i < n PROVE i + 1 \in S
  <2>1. i + 1 \in 1..n /\ i + 1 \in 1..Len(longer) /\ i + 1 - 1 = i /\ i + 1 \in 0..n
    BY <1>1, <1>5
  <2>2. a[i + 1] = IF i + 1 \in places THEN Append(a[i], frames[i + 1].piece) ELSE a[i]
    BY <1>2, <2>1
  <2>3. b[i + 1] = IF i + 1 \in more THEN Append(b[i], longer[i + 1].piece) ELSE b[i]
    BY <1>3, <2>1
  <2>4. longer[i + 1] = frames[i + 1] /\ (i + 1 \in places <=> i + 1 \in more)
    BY <1>1, <2>1 DEF n
  <2> QED
    BY <1>5, <2>1, <2>2, <2>3, <2>4
<1>6. 0..n \subseteq S
  <2> HIDE DEF S
  <2> QED
    BY <1>1, <1>4, <1>5, Climbs
<1>7. a[n] = b[n] /\ a[n] \in Seq(FramePiece)
  BY <1>1, <1>2, <1>6
<1>8. b[n + 1] = IF n + 1 \in more THEN Append(b[n], f.piece) ELSE b[n]
  <2> DEFINE m == n + 1
  <2>1. m \in 1..Len(longer) /\ m - 1 = n
    BY <1>1
  <2> HIDE DEF m
  <2>2. b[m] = IF m \in more THEN Append(b[m - 1], longer[m].piece) ELSE b[m - 1]
    BY <1>3, <2>1
  <2>3. longer[m] = f
    BY <1>1 DEF m
  <2>4. b[m] = IF m \in more THEN Append(b[n], f.piece) ELSE b[n]
    BY <2>1, <2>2, <2>3
  <2> QED
    BY <2>4 DEF m
<1> QED
  BY <1>1, <1>2, <1>3, <1>7, <1>8 DEF n, longer

-----------------------------------------------------------------------------
(* ModelCall: the calls of a reply.                                        *)

LEMMA MaxIs ==
    ASSUME NEW n \in Nat, NEW S \in SUBSET (0..n), S # {}
    PROVE  Max(S) \in S /\ \A j \in S : j <= Max(S)
<1>1. \E k \in S : \A j \in S : k >= j
  <2>1. PICK k \in S : \A j \in S : j <= k
    BY GreatestOf
  <2>2. \A j \in S : j \in Nat
    OBVIOUS
  <2> QED
    BY <2>1, <2>2
<1>2. Max(S) \in S /\ \A j \in S : Max(S) >= j
  BY <1>1 DEF Max
<1>3. \A j \in S : j \in Nat
  OBVIOUS
<1> QED
  BY <1>2, <1>3

LEMMA PartsAre ==
    ASSUME NEW frames \in Seq(Frame), NEW i
    PROVE  /\ PartsOf(frames, i) \subseteq 1..Len(frames) /\ WithId(frames, i) \subseteq PartsOf(frames, i)
           /\ \A n \in PartsOf(frames, i) : frames[n] \in Frame /\ frames[n].kind = "tool"
           /\ WithId(frames, i) # {} => /\ Max(WithId(frames, i)) \in WithId(frames, i)
                                        /\ \A n \in WithId(frames, i) : n <= Max(WithId(frames, i))
                                        /\ frames[Max(WithId(frames, i))].id \in GivenIds
<1>1. /\ PartsOf(frames, i) \subseteq 1..Len(frames) /\ WithId(frames, i) \subseteq PartsOf(frames, i)
      /\ \A n \in PartsOf(frames, i) : frames[n] \in Frame /\ frames[n].kind = "tool"
      /\ \A n \in WithId(frames, i) : frames[n].id # <<>>
  BY DEF PartsOf, WithId
<1>2. Len(frames) \in Nat /\ WithId(frames, i) \in SUBSET (0..Len(frames))
  BY <1>1
<1>3. WithId(frames, i) # {} => /\ Max(WithId(frames, i)) \in WithId(frames, i)
                                /\ \A n \in WithId(frames, i) : n <= Max(WithId(frames, i))
  BY <1>2, MaxIs
<1>4. ASSUME NEW n \in WithId(frames, i) PROVE frames[n].id \in GivenIds
  <2>1. frames[n] \in Frame /\ frames[n].kind = "tool" /\ frames[n].id # <<>>
    BY <1>1
  <2> QED
    BY <2>1, FrameFields
<1> QED
  BY <1>1, <1>3, <1>4

LEMMA CallIsMade ==
    ASSUME NEW frames \in Seq(Frame), NEW i \in Nat
    PROVE  CallOf(frames, i) \in MadeCalls
<1>1. PiecesAt(frames, PartsOf(frames, i)) \in Seq(FramePiece)
  BY PiecesTyped
<1>2. WithId(frames, i) # {} => frames[Max(WithId(frames, i))].id \in CallIds
  BY PartsAre DEF CallIds
<1>3. MadeUp(i) \in CallIds
  BY DEF CallIds
<1> QED
  BY <1>1, <1>2, <1>3 DEF CallOf, Fragment, MadeCalls

\* The loop over the indices has the calls so far after each one.
LEMMA CallsOfIs ==
    ASSUME NEW frames \in Seq(Frame)
    PROVE  LET n == MaxFrames + 2
           IN  \E f \in [0..n -> Seq(MadeCalls)] :
                  /\ f[0] = <<>> /\ CallsOf(frames) = f[n]
                  /\ \A i \in 1..n : f[i] = IF Named(frames, i) THEN Append(f[i - 1], CallOf(frames, i)) ELSE f[i - 1]
<1> DEFINE n == MaxFrames + 2
           D == Seq(MadeCalls)
           G == [i \in 1..n |-> [l \in D |-> IF Named(frames, i) THEN Append(l, CallOf(frames, i)) ELSE l]]
           Step(f, i) == IF i = 0 THEN <<>>
                         ELSE IF Named(frames, i) THEN Append(f[i - 1], CallOf(frames, i)) ELSE f[i - 1]
           none == <<>>
<1>1. n \in Nat /\ \A i \in 1..n : CallOf(frames, i) \in MadeCalls
  BY ModelCallAssumption, CallIsMade
<1>2. none \in D /\ \A l \in D : \A p \in MadeCalls : Append(l, p) \in D
  OBVIOUS
<1> HIDE DEF n, D
<1>3. G \in [1..n -> [D -> D]]
  BY <1>1, <1>2
<1>4. \A i \in 1..n : \A l \in D : G[i][l] = IF Named(frames, i) THEN Append(l, CallOf(frames, i)) ELSE l
  OBVIOUS
<1> HIDE DEF G
<1>5. PICK f \in [0..n -> D] : f[0] = <<>> /\ \A i \in 1..n : f[i] = G[i][f[i - 1]]
  <2>1. n \in Nat /\ none \in D
    BY <1>1, <1>2
  <2> HIDE DEF none, Step
  <2>2. \E f \in [0..n -> D] : f[0] = none /\ \A i \in 1..n : f[i] = G[i][f[i - 1]]
    BY <2>1, <1>3, LoopRuns
  <2> QED
    BY <2>2 DEF none
<1>6. \A i \in 1..n : f[i] = Step(f, i)
  <2> SUFFICES ASSUME NEW i \in 1..n PROVE f[i] = Step(f, i)
    OBVIOUS
  <2>1. i - 1 \in 0..n /\ i # 0
    BY <1>1
  <2>2. f[i - 1] \in D
    BY <1>5, <2>1
  <2> QED
    BY <1>4, <1>5, <2>1, <2>2
<1>7. f = [i \in 0..n |-> Step(f, i)]
  <2>1. f[0] = Step(f, 0)
    BY <1>5
  <2>2. \A i \in 0..n : i = 0 \/ i \in 1..n
    BY <1>1
  <2> HIDE DEF Step
  <2> QED
    BY <1>5, <1>6, <2>1, <2>2
<1> DEFINE made == CHOOSE g : g = [i \in 0..n |-> Step(g, i)]
<1>8. made = [i \in 0..n |-> Step(made, i)]
  <2> HIDE DEF Step
  <2> QED
    BY <1>7
<1>9. CallsOf(frames) = made[n]
  BY DEF CallsOf, n
<1> HIDE DEF made
<1>10. \A i \in 0..n : made[i] = Step(made, i)
  <2> HIDE DEF Step
  <2> QED
    BY <1>8
<1>11. made[0] = <<>> /\ \A i \in 1..n : made[i] = Step(made, i) /\ i # 0
  BY <1>1, <1>10
<1>12. \A i \in 0..n : made[i] \in D
  <2> DEFINE S == {i \in 0..n : made[i] \in D}
  <2>1. 0 \in S
    BY <1>1, <1>2, <1>11
  <2>2. ASSUME NEW i \in 0..n, i \in S, i < n PROVE i + 1 \in S
    <3>1. i + 1 \in 1..n /\ i + 1 - 1 = i /\ i + 1 \in 0..n
      BY <1>1, <2>2
    <3>2. made[i + 1] = IF Named(frames, i + 1) THEN Append(made[i], CallOf(frames, i + 1)) ELSE made[i]
      BY <1>11, <3>1
    <3>3. made[i + 1] \in D
      BY <1>1, <1>2, <2>2, <3>1, <3>2
    <3> QED
      BY <3>1, <3>3
  <2>3. 0..n \subseteq S
    <3> HIDE DEF S
    <3> QED
      BY <1>1, <2>1, <2>2, Climbs
  <2> QED
    BY <2>3
<1>13. made \in [0..n -> D]
  <2> HIDE DEF Step
  <2> QED
    BY <1>8, <1>12
<1> QED
  BY <1>9, <1>11, <1>13 DEF n, D

\* Indices without a call change nothing.
LEMMA CallsUpTo ==
    ASSUME NEW frames \in Seq(Frame), NEW m \in 0..(MaxFrames + 2),
           \A i \in (m + 1)..(MaxFrames + 2) : ~Named(frames, i)
    PROVE  \E f \in [0..m -> Seq(MadeCalls)] :
              /\ f[0] = <<>> /\ CallsOf(frames) = f[m]
              /\ \A i \in 1..m : f[i] = IF Named(frames, i) THEN Append(f[i - 1], CallOf(frames, i)) ELSE f[i - 1]
<1> DEFINE n == MaxFrames + 2
<1>1. n \in Nat /\ m \in 0..n /\ m \in Nat /\ m <= n
  BY ModelCallAssumption
<1>2. PICK a \in [0..n -> Seq(MadeCalls)] :
        /\ a[0] = <<>> /\ CallsOf(frames) = a[n]
        /\ \A i \in 1..n : a[i] = IF Named(frames, i) THEN Append(a[i - 1], CallOf(frames, i)) ELSE a[i - 1]
  BY CallsOfIs
<1> HIDE DEF n
<1> DEFINE S == {i \in 0..n : i >= m => a[i] = a[m]}
<1>3. 0 \in S
  BY <1>1
<1>4. ASSUME NEW i \in 0..n, i \in S, i < n PROVE i + 1 \in S
  <2>1. CASE i + 1 <= m
    <3>1. i + 1 \in 0..n /\ (i + 1 >= m => i + 1 = m)
      BY <1>1, <1>4, <2>1
    <3> QED
      BY <3>1
  <2>2. CASE ~(i + 1 <= m)
    <3> DEFINE q == i + 1
    <3>1. q \in (m + 1)..n /\ q \in 1..n /\ q - 1 = i /\ i >= m /\ q \in 0..n
      BY <1>1, <1>4, <2>2
    <3> HIDE DEF q
    <3>2. a[q] = IF Named(frames, q) THEN Append(a[q - 1], CallOf(frames, q)) ELSE a[q - 1]
      BY <1>2, <3>1
    <3>3. ~Named(frames, q)
      BY <3>1 DEF n
    <3>4. a[q] = a[m]
      BY <1>4, <3>1, <3>2, <3>3
    <3> QED
      BY <3>1, <3>4 DEF q
  <2> QED
    BY <2>1, <2>2
<1>5. 0..n \subseteq S
  <2> HIDE DEF S
  <2> QED
    BY <1>1, <1>3, <1>4, Climbs
<1>6. a[n] = a[m]
  BY <1>1, <1>5
<1> DEFINE f == [i \in 0..m |-> a[i]]
<1>7. \A i \in 0..m : i \in 0..n
  BY <1>1
<1>8. f \in [0..m -> Seq(MadeCalls)] /\ \A i \in 0..m : f[i] = a[i]
  BY <1>2, <1>7
<1> HIDE DEF f
<1>9. 0 \in 0..m /\ m \in 0..m /\ \A i \in 1..m : i \in 0..m /\ i - 1 \in 0..m /\ i \in 1..n
  BY <1>1
<1>10. f[0] = <<>> /\ CallsOf(frames) = f[m]
  BY <1>2, <1>6, <1>8, <1>9
<1>11. \A i \in 1..m : f[i] = IF Named(frames, i) THEN Append(f[i - 1], CallOf(frames, i)) ELSE f[i - 1]
  BY <1>2, <1>8, <1>9
<1> QED
  BY <1>8, <1>10, <1>11

LEMMA CallsAgree ==
    ASSUME NEW frames \in Seq(Frame), NEW more \in Seq(Frame), NEW m \in Nat,
           NEW a \in [0..m -> Seq(MadeCalls)], NEW b \in [0..m -> Seq(MadeCalls)], a[0] = <<>>, b[0] = <<>>,
           \A i \in 1..m : a[i] = IF Named(frames, i) THEN Append(a[i - 1], CallOf(frames, i)) ELSE a[i - 1],
           \A i \in 1..m : b[i] = IF Named(more, i) THEN Append(b[i - 1], CallOf(more, i)) ELSE b[i - 1],
           \A i \in 1..m : (Named(frames, i) <=> Named(more, i)) /\ CallOf(frames, i) = CallOf(more, i)
    PROVE  a[m] = b[m]
<1> DEFINE S == {i \in 0..m : a[i] = b[i]}
<1>1. 0 \in S
  OBVIOUS
<1>2. ASSUME NEW i \in 0..m, i \in S, i < m PROVE i + 1 \in S
  <2> DEFINE q == i + 1
  <2>1. q \in 1..m /\ q - 1 = i /\ q \in 0..m
    BY <1>2
  <2> HIDE DEF q
  <2>2. a[q] = b[q]
    BY <1>2, <2>1
  <2> QED
    BY <2>1, <2>2 DEF q
<1>3. 0..m \subseteq S
  <2> HIDE DEF S
  <2> QED
    BY <1>1, <1>2, Climbs
<1> QED
  BY <1>3

LEMMA CallsSame ==
    ASSUME NEW frames \in Seq(Frame), NEW more \in Seq(Frame),
           \A i \in 1..(MaxFrames + 2) :
              (Named(frames, i) <=> Named(more, i)) /\ CallOf(frames, i) = CallOf(more, i)
    PROVE  CallsOf(frames) = CallsOf(more)
<1> DEFINE n == MaxFrames + 2
<1>1. n \in Nat
  BY ModelCallAssumption
<1>2. PICK a \in [0..n -> Seq(MadeCalls)] :
        /\ a[0] = <<>> /\ CallsOf(frames) = a[n]
        /\ \A i \in 1..n : a[i] = IF Named(frames, i) THEN Append(a[i - 1], CallOf(frames, i)) ELSE a[i - 1]
  BY CallsOfIs
<1>3. PICK b \in [0..n -> Seq(MadeCalls)] :
        /\ b[0] = <<>> /\ CallsOf(more) = b[n]
        /\ \A i \in 1..n : b[i] = IF Named(more, i) THEN Append(b[i - 1], CallOf(more, i)) ELSE b[i - 1]
  BY CallsOfIs
<1>4. \A i \in 1..n : (Named(frames, i) <=> Named(more, i)) /\ CallOf(frames, i) = CallOf(more, i)
  OBVIOUS
<1> HIDE DEF n
<1>5. a[n] = b[n]
  BY <1>1, <1>2, <1>3, <1>4, CallsAgree
<1> QED
  BY <1>2, <1>3, <1>5

\* A call of a new index comes last.
LEMMA CallsGrow ==
    ASSUME NEW frames \in Seq(Frame), NEW more \in Seq(Frame), NEW m \in 0..(MaxFrames + 1),
           \A i \in 1..m : (Named(frames, i) <=> Named(more, i)) /\ CallOf(frames, i) = CallOf(more, i),
           \A i \in (m + 1)..(MaxFrames + 2) : ~Named(frames, i) /\ (Named(more, i) <=> i = m + 1)
    PROVE  CallsOf(more) = Append(CallsOf(frames), CallOf(more, m + 1))
<1> DEFINE q == m + 1
<1>1. m \in Nat /\ m \in 0..(MaxFrames + 2) /\ q \in 0..(MaxFrames + 2) /\ q \in (m + 1)..(MaxFrames + 2)
      /\ q - 1 = m /\ q \in 1..q /\ q \in Nat /\ 0..m \subseteq 0..q /\ 1..m \subseteq 1..q
      /\ \A i \in (q + 1)..(MaxFrames + 2) : i \in (m + 1)..(MaxFrames + 2) /\ i # m + 1
  BY ModelCallAssumption
<1>2. PICK a \in [0..m -> Seq(MadeCalls)] :
        /\ a[0] = <<>> /\ CallsOf(frames) = a[m]
        /\ \A i \in 1..m : a[i] = IF Named(frames, i) THEN Append(a[i - 1], CallOf(frames, i)) ELSE a[i - 1]
  BY <1>1, CallsUpTo
<1>3. Named(more, q) /\ \A i \in (q + 1)..(MaxFrames + 2) : ~Named(more, i)
  BY <1>1
<1> HIDE DEF q
<1>4. PICK b \in [0..q -> Seq(MadeCalls)] :
        /\ b[0] = <<>> /\ CallsOf(more) = b[q]
        /\ \A i \in 1..q : b[i] = IF Named(more, i) THEN Append(b[i - 1], CallOf(more, i)) ELSE b[i - 1]
  BY <1>1, <1>3, CallsUpTo
<1>5. b[q] = Append(b[m], CallOf(more, q))
  BY <1>1, <1>3, <1>4
<1> DEFINE c == [i \in 0..m |-> b[i]]
<1>6. c \in [0..m -> Seq(MadeCalls)] /\ \A i \in 0..m : c[i] = b[i]
  BY <1>1, <1>4
<1> HIDE DEF c
<1>7. 0 \in 0..m /\ m \in 0..m /\ \A i \in 1..m : i \in 0..m /\ i - 1 \in 0..m /\ i \in 1..q
  BY <1>1
<1>8. c[0] = <<>> /\ \A i \in 1..m : c[i] = IF Named(more, i) THEN Append(c[i - 1], CallOf(more, i)) ELSE c[i - 1]
  BY <1>4, <1>6, <1>7
<1>9. a[m] = c[m]
  <2>1. \A i \in 1..m : (Named(frames, i) <=> Named(more, i)) /\ CallOf(frames, i) = CallOf(more, i)
    OBVIOUS
  <2>2. m \in Nat /\ a[0] = <<>> /\ c[0] = <<>> /\ c \in [0..m -> Seq(MadeCalls)] /\ a \in [0..m -> Seq(MadeCalls)]
    BY <1>1, <1>2, <1>6, <1>8
  <2>3. \A i \in 1..m : a[i] = IF Named(frames, i) THEN Append(a[i - 1], CallOf(frames, i)) ELSE a[i - 1]
    BY <1>2
  <2>4. \A i \in 1..m : c[i] = IF Named(more, i) THEN Append(c[i - 1], CallOf(more, i)) ELSE c[i - 1]
    BY <1>8
  <2> QED
    BY <2>1, <2>2, <2>3, <2>4, CallsAgree, ZenonT(60)
<1> QED
  BY <1>2, <1>4, <1>5, <1>6, <1>7, <1>9 DEF q

LEMMA CallsOfTwo ==
    ASSUME NEW frames \in Seq(Frame), \A i \in 3..(MaxFrames + 2) : ~Named(frames, i)
    PROVE  LET once == IF Named(frames, 1) THEN Append(<<>>, CallOf(frames, 1)) ELSE <<>>
           IN  CallsOf(frames) = IF Named(frames, 2) THEN Append(once, CallOf(frames, 2)) ELSE once
<1> DEFINE m == 2
<1>1. m \in 0..(MaxFrames + 2) /\ \A i \in (m + 1)..(MaxFrames + 2) : ~Named(frames, i)
  BY ModelCallAssumption
<1> HIDE DEF m
<1>2. PICK a \in [0..m -> Seq(MadeCalls)] :
        /\ a[0] = <<>> /\ CallsOf(frames) = a[m]
        /\ \A i \in 1..m : a[i] = IF Named(frames, i) THEN Append(a[i - 1], CallOf(frames, i)) ELSE a[i - 1]
  BY <1>1, CallsUpTo
<1>3. 1 \in 1..m /\ 2 \in 1..m /\ m = 2 /\ 1 - 1 = 0 /\ 2 - 1 = 1
  BY DEF m
<1>4. a[1] = IF Named(frames, 1) THEN Append(a[0], CallOf(frames, 1)) ELSE a[0]
  BY <1>2, <1>3
<1>5. a[2] = IF Named(frames, 2) THEN Append(a[1], CallOf(frames, 2)) ELSE a[1]
  BY <1>2, <1>3
<1> QED
  BY <1>2, <1>3, <1>4, <1>5

\* What one frame more changes of the calls.
LEMMA PartsStep ==
    ASSUME NEW frames \in Seq(Frame), NEW f \in Frame, NEW i \in Nat
    PROVE  LET n == Len(frames)
               more == Append(frames, f)
               adds == f.kind = "tool" /\ f.index = i
           IN  /\ PartsOf(more, i) = PartsOf(frames, i) \cup (IF adds THEN {n + 1} ELSE {})
               /\ Named(more, i) <=> Named(frames, i) \/ (adds /\ f.named)
               /\ WithId(more, i) = WithId(frames, i) \cup (IF adds /\ f.id # <<>> THEN {n + 1} ELSE {})
               /\ PiecesAt(more, PartsOf(more, i)) =
                     IF adds THEN Append(PiecesAt(frames, PartsOf(frames, i)), f.piece)
                     ELSE PiecesAt(frames, PartsOf(frames, i))
               /\ ~adds => CallOf(more, i) = CallOf(frames, i)
<1> DEFINE n == Len(frames)
           more == Append(frames, f)
           adds == f.kind = "tool" /\ f.index = i
<1>1. /\ n \in Nat /\ more \in Seq(Frame) /\ Len(more) = n + 1 /\ more[n + 1] = f
      /\ DOMAIN frames = 1..n /\ DOMAIN more = 1..n + 1
      /\ \A k \in 1..n : more[k] = frames[k]
      /\ \A k \in 1..n + 1 : k \in 1..n \/ k = n + 1
      /\ n + 1 \notin 1..n /\ n + 1 \in 1..n + 1 /\ 1..n \subseteq 1..n + 1
  BY OneMore
<1> HIDE DEF n, more
<1>2. PartsOf(more, i) = PartsOf(frames, i) \cup (IF adds THEN {n + 1} ELSE {})
  BY <1>1 DEF PartsOf
<1>3. Named(more, i) <=> Named(frames, i) \/ (adds /\ f.named)
  <2>1. \A k \in PartsOf(frames, i) : more[k] = frames[k]
    BY <1>1 DEF PartsOf
  <2> QED
    BY <1>1, <1>2, <2>1 DEF Named
<1>4. WithId(more, i) = WithId(frames, i) \cup (IF adds /\ f.id # <<>> THEN {n + 1} ELSE {})
  <2>1. \A k \in PartsOf(frames, i) : more[k] = frames[k]
    BY <1>1 DEF PartsOf
  <2> QED
    BY <1>1, <1>2, <2>1 DEF WithId
<1>5. PartsOf(frames, i) \subseteq 1..n
  BY <1>1 DEF PartsOf
<1>6. PiecesAt(more, PartsOf(more, i)) =
         IF adds THEN Append(PiecesAt(frames, PartsOf(frames, i)), f.piece)
         ELSE PiecesAt(frames, PartsOf(frames, i))
  <2>1. \A k \in 1..n : k \in PartsOf(frames, i) <=> k \in PartsOf(more, i)
    BY <1>1, <1>2
  <2>2. n + 1 \in PartsOf(more, i) <=> adds
    BY <1>1, <1>2, <1>5
  <2> HIDE DEF adds
  <2>3. PiecesAt(more, PartsOf(more, i)) =
           IF n + 1 \in PartsOf(more, i) THEN Append(PiecesAt(frames, PartsOf(frames, i)), f.piece)
           ELSE PiecesAt(frames, PartsOf(frames, i))
    BY <2>1, PiecesStep DEF n, more
  <2> QED
    BY <2>2, <2>3
<1>7. ASSUME ~adds PROVE CallOf(more, i) = CallOf(frames, i)
  <2>1. WithId(more, i) = WithId(frames, i)
    BY <1>4, <1>7
  <2>2. PiecesAt(more, PartsOf(more, i)) = PiecesAt(frames, PartsOf(frames, i))
    BY <1>6, <1>7
  <2>3. WithId(frames, i) # {} => Max(WithId(frames, i)) \in 1..n
    <3>1. WithId(frames, i) # {} => Max(WithId(frames, i)) \in WithId(frames, i)
      BY PartsAre
    <3> QED
      BY <1>5, <3>1 DEF WithId
  <2>4. WithId(frames, i) # {} => more[Max(WithId(frames, i))] = frames[Max(WithId(frames, i))]
    BY <1>1, <2>3
  <2> QED
    BY <2>1, <2>2, <2>4 DEF CallOf
<1> QED
  BY <1>2, <1>3, <1>4, <1>6, <1>7 DEF n, more

\* The id that was last given to a call.
IdGiven(frames, i) ==
    IF WithId(frames, i) = {} THEN <<>> ELSE frames[Max(WithId(frames, i))].id

LEMMA IdGivenIs ==
    ASSUME NEW frames \in Seq(Frame), NEW i \in Nat
    PROVE  /\ IdGiven(frames, i) \in {<<>>} \cup GivenIds
           /\ IdGiven(frames, i) = <<>> <=> WithId(frames, i) = {}
           /\ IdGiven(frames, i) # <<>> => IdGiven(frames, i) \in {frames[n].id : n \in WithId(frames, i)}
           /\ CallOf(frames, i) = Fragment(IF IdGiven(frames, i) = <<>> THEN MadeUp(i) ELSE IdGiven(frames, i),
                                           PiecesAt(frames, PartsOf(frames, i)))
<1>1. CASE WithId(frames, i) = {}
  BY <1>1 DEF IdGiven, CallOf
<1>2. CASE WithId(frames, i) # {}
  <2>1. /\ Max(WithId(frames, i)) \in WithId(frames, i)
        /\ frames[Max(WithId(frames, i))].id \in GivenIds
    BY <1>2, PartsAre
  <2>2. IdGiven(frames, i) = frames[Max(WithId(frames, i))].id
    BY <1>2 DEF IdGiven
  <2>3. IdGiven(frames, i) # <<>>
    BY <2>1, <2>2, IdsDiffer
  <2> QED
    BY <1>2, <2>1, <2>2, <2>3 DEF CallOf
<1> QED
  BY <1>1, <1>2

LEMMA IdGivenStep ==
    ASSUME NEW frames \in Seq(Frame), NEW f \in Frame, NEW i \in Nat
    PROVE  IdGiven(Append(frames, f), i) =
              IF f.kind = "tool" /\ f.index = i /\ f.id # <<>> THEN f.id ELSE IdGiven(frames, i)
<1> DEFINE n == Len(frames)
           more == Append(frames, f)
           gives == f.kind = "tool" /\ f.index = i /\ f.id # <<>>
           before == WithId(frames, i)
<1>1. /\ n \in Nat /\ more \in Seq(Frame) /\ Len(more) = n + 1 /\ more[n + 1] = f
      /\ \A k \in 1..n : more[k] = frames[k]
  BY OneMore
<1>2. WithId(more, i) = before \cup (IF gives THEN {n + 1} ELSE {})
  BY PartsStep
<1>3. before \subseteq 1..n /\ (before # {} => Max(before) \in before)
  BY PartsAre
<1>4. /\ WithId(more, i) \subseteq 1..n + 1
      /\ WithId(more, i) # {} => /\ Max(WithId(more, i)) \in WithId(more, i)
                                 /\ \A k \in WithId(more, i) : k <= Max(WithId(more, i))
  BY <1>1, PartsAre
<1> HIDE DEF n, more, before
<1>5. CASE gives
  <2>1. n + 1 \in WithId(more, i)
    BY <1>2, <1>5
  <2>2. Max(WithId(more, i)) \in 1..n + 1 /\ n + 1 <= Max(WithId(more, i))
    BY <1>4, <2>1
  <2>3. Max(WithId(more, i)) = n + 1
    BY <1>1, <2>2
  <2>4. IdGiven(more, i) = more[n + 1].id
    BY <2>1, <2>3 DEF IdGiven
  <2> QED
    BY <1>1, <1>5, <2>4 DEF more
<1>6. CASE ~gives
  <2>1. WithId(more, i) = before
    BY <1>2, <1>6
  <2>2. before # {} => more[Max(before)] = frames[Max(before)]
    BY <1>1, <1>3
  <2>3. IdGiven(more, i) = IdGiven(frames, i)
    BY <2>1, <2>2 DEF IdGiven, before
  <2> QED
    BY <1>6, <2>3 DEF more
<1> QED
  BY <1>5, <1>6

LEMMA TextsStep ==
    ASSUME NEW frames \in Seq(Frame), NEW f \in Frame, NEW kind
    PROVE  TextsOf(Append(frames, f), kind) =
              IF f.kind = kind THEN Append(TextsOf(frames, kind), f.piece) ELSE TextsOf(frames, kind)
<1> DEFINE n == Len(frames)
           more == Append(frames, f)
           old == {k \in DOMAIN frames : frames[k].kind = kind}
           new == {k \in DOMAIN more : more[k].kind = kind}
<1>1. /\ n \in Nat /\ more[n + 1] = f /\ DOMAIN frames = 1..n /\ DOMAIN more = 1..n + 1
      /\ \A k \in 1..n : more[k] = frames[k]
      /\ n + 1 \in 1..n + 1 /\ 1..n \subseteq 1..n + 1
  <2>1. n + 1 \in 1..n + 1 /\ 1..n \subseteq 1..n + 1
    OBVIOUS
  <2> QED
    BY <2>1, OneMore
<1> HIDE DEF n, more
<1>2. (\A k \in 1..n : k \in old <=> k \in new) /\ (n + 1 \in new <=> f.kind = kind)
  BY <1>1
<1> HIDE DEF old, new
<1>3. PiecesAt(more, new) = IF n + 1 \in new THEN Append(PiecesAt(frames, old), f.piece) ELSE PiecesAt(frames, old)
  BY <1>2, PiecesStep DEF n, more
<1>4. TextsOf(more, kind) = PiecesAt(more, new) /\ TextsOf(frames, kind) = PiecesAt(frames, old)
  BY DEF TextsOf, new, old
<1> QED
  BY <1>2, <1>3, <1>4 DEF more

LEMMA NoPlaces ==
    ASSUME NEW frames \in Seq(Frame), NEW places, \A i \in 1..Len(frames) : i \notin places
    PROVE  PiecesAt(frames, places) = <<>>
<1> DEFINE n == Len(frames)
<1>1. n \in Nat
  OBVIOUS
<1>2. PICK a \in [0..n -> Seq(FramePiece)] :
        /\ a[0] = <<>> /\ PiecesAt(frames, places) = a[n]
        /\ \A i \in 1..n : a[i] = IF i \in places THEN Append(a[i - 1], frames[i].piece) ELSE a[i - 1]
  BY PiecesAtIs
<1>3. \A i \in 1..n : a[i] = a[i - 1]
  BY <1>2
<1> HIDE DEF n
<1> DEFINE S == {i \in 0..n : a[i] = <<>>}
<1>4. 0 \in S
  BY <1>1, <1>2
<1>5. ASSUME NEW i \in 0..n, i \in S, i < n PROVE i + 1 \in S
  <2> DEFINE q == i + 1
  <2>1. q \in 1..n /\ q - 1 = i /\ q \in 0..n
    BY <1>1, <1>5
  <2> HIDE DEF q
  <2>2. a[q] = <<>>
    BY <1>3, <1>5, <2>1
  <2> QED
    BY <2>1, <2>2 DEF q
<1>6. 0..n \subseteq S
  <2> HIDE DEF S
  <2> QED
    BY <1>1, <1>4, <1>5, Climbs
<1> QED
  BY <1>1, <1>2, <1>6

-----------------------------------------------------------------------------
(* ModelCall: the inductive invariant.                                     *)

ModelSorts ==
    /\ ModelCallTypeOK
    /\ request \in [media : {"text", "image", "image_url", "audio", "file"}, tools : BOOLEAN, streaming : BOOLEAN]
    /\ sent \in Seq(Frame)
    /\ toolParts \in [1..2 -> [id : {<<>>} \cup GivenIds, named : BOOLEAN, arguments : Seq(FramePiece),
                               begun : BOOLEAN]]
    /\ gathered \in [text : Seq(FramePiece), thinking : Seq(FramePiece), calls : Seq(MadeCalls)]
    /\ screen \in [answer : Seq(FramePiece), thinking : Seq(FramePiece), open : BOOLEAN]

ToolPlaces(frames) == {n \in DOMAIN frames : frames[n].kind = "tool"}

\* Which indices and ids the tool frames have.
Indexed ==
    \A n \in ToolPlaces(sent) :
       IF provider = "ollama"
       THEN sent[n].index \in 1..Cardinality(ToolPlaces(sent)) /\ sent[n].id = <<>> /\ sent[n].named
       ELSE sent[n].index \in 1..2

\* What has been put together of a call is what its frames say.
PartKept(i) ==
    /\ toolParts[i].named <=> Named(sent, i)
    /\ toolParts[i].id = IdGiven(sent, i)
    /\ toolParts[i].arguments = PiecesAt(sent, PartsOf(sent, i))

StreamKept ==
    /\ gathered.text = TextsOf(sent, "text") /\ gathered.thinking = TextsOf(sent, "thinking")
    /\ screen.answer = gathered.text
    /\ provider # "ollama" => gathered.calls = <<>> /\ \A i \in 1..2 : PartKept(i)
    /\ provider = "ollama" =>
          /\ \A i \in 1..2 : ~toolParts[i].named
          /\ gathered.calls = CallsOf(sent)
          /\ \A k \in DOMAIN gathered.calls :
                \E i \in 1..Cardinality(ToolPlaces(sent)) : gathered.calls[k].id = MadeUp(i)

Gathering ==
    callState = "open" => IF request.streaming THEN StreamKept ELSE gathered = NoReply /\ screen.answer = <<>>

Quiet == callState \in {"new", "asking"} => screen.answer = <<>>

ModelCallIInv == ModelSorts /\ Indexed /\ Gathering /\ Quiet /\ ReplyFaithful

-----------------------------------------------------------------------------
(* ModelCall: the steps that end a try or a call.                          *)

ScreenType == [answer : Seq(FramePiece), thinking : Seq(FramePiece), open : BOOLEAN]

\* As long as there is no answer, the rest of the invariant is enough.
LEMMA FaithfulUnanswered ==
    ASSUME Gathering', Quiet', callState' # "answered", hopeless' => callState' \in CallOver,
           ModelSorts'
    PROVE  ReplyFaithful'
<1>1. request'.streaming /\ callState' = "open" => screen'.answer = PiecesOf("text")'
  BY DEF Gathering, StreamKept, PiecesOf
<1>2. callState' = "asking" => screen'.answer = <<>>
  BY DEF Quiet
<1> QED
  BY <1>1, <1>2 DEF ReplyFaithful

LEMMA DiscardedIs ==
    ASSUME screen \in ScreenType
    PROVE  Discarded \in ScreenType /\ Discarded.answer = <<>>
<1>1. <<>> \in Seq(FramePiece)
  OBVIOUS
<1>2. screen.thinking \in Seq(FramePiece) /\ screen.open \in BOOLEAN
  BY DEF ScreenType
<1>3. (IF screen.open THEN <<>> ELSE screen.thinking) \in Seq(FramePiece)
  BY <1>1, <1>2
<1> DEFINE Thought == Seq(FramePiece)
<1>4. ASSUME NEW s \in ScreenType, NEW t \in Thought, <<>> \in Thought
      PROVE  /\ [s EXCEPT !.answer = <<>>, !.thinking = t, !.open = FALSE] \in ScreenType
             /\ [s EXCEPT !.answer = <<>>, !.thinking = t, !.open = FALSE].answer = <<>>
  <2> HIDE DEF Thought
  <2> QED
    BY <1>4 DEF ScreenType, Thought
<1> QED
  BY <1>1, <1>3, <1>4 DEF Discarded

LEMMA SortsStay ==
    ASSUME ModelSorts, UNCHANGED <<provider, request, sent, toolParts, gathered>>, screen' \in ScreenType,
           callState' \in {"new", "asking", "open"} \cup CallOver, try' \in 1..MaxTries,
           recovered' \in BOOLEAN, hopeless' \in BOOLEAN
    PROVE  ModelSorts'
BY DEF ModelSorts, ModelCallTypeOK, ScreenType

LEMMA TryFailsKeeps ==
    ASSUME ModelCallIInv, callState \in {"asking", "open"}, \E error : TryFails(error)
    PROVE  ModelCallIInv'
<1>1. PICK error : TryFails(error)
  OBVIOUS
<1>2. /\ hopeless' = (hopeless \/ ~Transient(error))
      /\ UNCHANGED <<provider, request, sent, toolParts, gathered>>
  BY <1>1 DEF TryFails
<1>3. ~hopeless /\ Transient(error) \in BOOLEAN /\ screen \in ScreenType /\ try \in 1..MaxTries
  BY DEF ModelCallIInv, ReplyFaithful, CallOver, Transient, ModelSorts, ModelCallTypeOK, ScreenType
<1>4. Indexed'
  BY <1>2 DEF ModelCallIInv, Indexed, ToolPlaces
<1>5. CASE Transient(error) /\ try < MaxTries
  <2>1. try' = try + 1 /\ callState' = "asking" /\ UNCHANGED recovered
        /\ screen' = IF gathered.text \o gathered.thinking # <<>> THEN Discarded ELSE screen
    BY <1>1, <1>5 DEF TryFails
  <2>2. screen' \in ScreenType /\ screen'.answer = <<>>
    <3>1. gathered.text \o gathered.thinking # <<>> \/ screen.answer = <<>>
      <4>1. gathered.text \in Seq(FramePiece) /\ gathered.thinking \in Seq(FramePiece)
        BY DEF ModelCallIInv, ModelSorts
      <4>2. gathered.text \o gathered.thinking = <<>> => gathered.text = <<>>
        BY <4>1
      <4>3. callState = "open" => screen.answer = gathered.text \/ screen.answer = <<>>
        BY DEF ModelCallIInv, Gathering, StreamKept
      <4> QED
        BY <4>2, <4>3 DEF ModelCallIInv, Quiet
    <3> QED
      BY <1>3, <2>1, <3>1, DiscardedIs
  <2>3. ModelSorts'
    <3>1. try' \in 1..MaxTries /\ hopeless' \in BOOLEAN
      BY <1>2, <1>3, <1>5, <2>1, ModelCallAssumption
    <3> QED
      BY <1>2, <2>1, <2>2, <3>1, SortsStay DEF ModelCallIInv, ModelSorts, ModelCallTypeOK
  <2>4. Gathering' /\ Quiet' /\ ~hopeless'
    BY <1>2, <1>3, <1>5, <2>1, <2>2 DEF Gathering, Quiet
  <2> QED
    BY <1>4, <2>1, <2>3, <2>4, FaithfulUnanswered DEF ModelCallIInv
<1>6. CASE ~(Transient(error) /\ try < MaxTries)
  <2>1. /\ callState' \in {"answered", "raised"} /\ UNCHANGED <<try, screen>>
        /\ callState' = "answered" => recovered' = TRUE
        /\ callState' = "raised" => recovered' = recovered
    BY <1>1, <1>6 DEF TryFails
  <2>2. ModelSorts'
    BY <1>2, <1>3, <2>1, SortsStay DEF ModelCallIInv, ModelSorts, ModelCallTypeOK, CallOver
  <2>3. Gathering' /\ Quiet' /\ callState' \in CallOver /\ callState' # "asking" /\ callState' # "open"
    BY <2>1 DEF Gathering, Quiet, CallOver
  <2>4. ReplyFaithful'
    BY <2>1, <2>3 DEF ReplyFaithful
  <2> QED
    BY <1>4, <2>2, <2>3, <2>4 DEF ModelCallIInv
<1> QED
  BY <1>5, <1>6

LEMMA TriesFail ==
    ASSUME ModelCallIInv,
           RefuseRequest \/ EmptyResponse \/ \E failure \in DOMAIN Status : ProviderFails(failure) \/ BodyFails(failure)
    PROVE  ModelCallIInv'
<1>1. callState \in {"asking", "open"} /\ \E error : TryFails(error)
  BY DEF RefuseRequest, EmptyResponse, ProviderFails, BodyFails
<1> QED
  BY <1>1, TryFailsKeeps

\* The steps that leave alone what was sent and shown.
LEMMA BareSteps ==
    ASSUME ModelCallIInv, PrepareCall \/ CancelCall
    PROVE  ModelCallIInv'
<1>1. /\ UNCHANGED <<provider, request, sent, toolParts, gathered, try, screen, recovered, hopeless>>
      /\ callState' \in {"asking", "raised", "cancelled"} /\ callState' # "answered" /\ callState' # "open"
      /\ callState' = "asking" => callState = "new"
      /\ callState \notin CallOver
  BY DEF PrepareCall, CancelCall, CallOver
<1>2. ModelSorts'
  <2>1. screen' \in ScreenType /\ callState' \in {"asking"} \cup CallOver
    BY <1>1 DEF ModelCallIInv, ModelSorts, ScreenType, CallOver
  <2> QED
    BY <1>1, <2>1, SortsStay DEF ModelCallIInv, ModelSorts, ModelCallTypeOK
<1>3. Indexed'
  BY <1>1 DEF ModelCallIInv, Indexed, ToolPlaces
<1>4. Gathering' /\ Quiet'
  BY <1>1 DEF ModelCallIInv, Gathering, Quiet
<1>5. ~hopeless'
  BY <1>1 DEF ModelCallIInv, ReplyFaithful
<1> QED
  BY <1>1, <1>2, <1>3, <1>4, <1>5, FaithfulUnanswered DEF ModelCallIInv

\* Nothing sent is nothing gathered.
LEMMA NothingSent ==
    /\ <<>> \in Seq(Frame) /\ \A kind : TextsOf(<<>>, kind) = <<>>
    /\ \A i : PartsOf(<<>>, i) = {} /\ ~Named(<<>>, i) /\ IdGiven(<<>>, i) = <<>>
    /\ \A places : PiecesAt(<<>>, places) = <<>>
    /\ ToolPlaces(<<>>) = {} /\ CallsOf(<<>>) = <<>>
<1>1. DOMAIN <<>> = {} /\ <<>> \in Seq(Frame)
  OBVIOUS
<1>2. \A i : PartsOf(<<>>, i) = {}
  BY <1>1 DEF PartsOf
<1>3. \A i : ~Named(<<>>, i) /\ WithId(<<>>, i) = {}
  BY <1>2 DEF Named, WithId
<1>4. \A i : IdGiven(<<>>, i) = <<>>
  BY <1>3 DEF IdGiven
<1>5. \A kind : TextsOf(<<>>, kind) = <<>>
  BY PiecesNone DEF TextsOf
<1>6. CallsOf(<<>>) = <<>>
  <2> DEFINE none == <<>>
  <2>1. none \in Seq(Frame) /\ \A i \in 3..(MaxFrames + 2) : ~Named(none, i)
    BY <1>1, <1>3
  <2>2. ~Named(none, 1) /\ ~Named(none, 2)
    BY <1>3
  <2> HIDE DEF none
  <2>3. CallsOf(none) = <<>>
    BY <2>1, <2>2, CallsOfTwo
  <2> QED
    BY <2>3 DEF none
<1>7. ToolPlaces(<<>>) = {}
  BY <1>1 DEF ToolPlaces
<1> QED
  BY <1>1, <1>2, <1>3, <1>4, <1>5, <1>6, <1>7, PiecesNone

LEMMA BeginTryKeeps ==
    ASSUME ModelCallIInv, BeginTry
    PROVE  ModelCallIInv'
<1>1. /\ callState = "asking" /\ callState' = "open" /\ sent' = <<>> /\ toolParts' = NoParts
      /\ gathered' = NoReply /\ UNCHANGED <<provider, request, try, screen, recovered, hopeless>>
      /\ screen.answer = <<>> /\ ~hopeless
  BY DEF BeginTry, ModelCallIInv, Quiet, ReplyFaithful, CallOver
<1>2. ModelSorts'
  <2>1. <<>> \in Seq(FramePiece) /\ <<>> \in Seq(MadeCalls) /\ <<>> \in Seq(Frame) /\ Len(<<>>) = 0
    OBVIOUS
  <2>2. toolParts' \in [1..2 -> [id : {<<>>} \cup GivenIds, named : BOOLEAN, arguments : Seq(FramePiece),
                                 begun : BOOLEAN]]
    BY <1>1, <2>1 DEF NoParts
  <2>3. gathered' \in [text : Seq(FramePiece), thinking : Seq(FramePiece), calls : Seq(MadeCalls)]
    BY <1>1, <2>1 DEF NoReply
  <2>4. ModelCallTypeOK'
    <3>1. Len(sent') <= MaxFrames
      BY <1>1, <2>1, ModelCallAssumption
    <3> QED
      BY <1>1, <3>1 DEF ModelCallIInv, ModelSorts, ModelCallTypeOK
  <2>5. sent' \in Seq(Frame)
    BY <1>1, <2>1
  <2> QED
    BY <1>1, <2>2, <2>3, <2>4, <2>5 DEF ModelCallIInv, ModelSorts
<1>3. Indexed'
  <2>1. ToolPlaces(sent') = {}
    BY <1>1, NothingSent
  <2> QED
    BY <2>1 DEF Indexed
<1>4. StreamKept'
  <2>1. /\ gathered'.text = <<>> /\ gathered'.thinking = <<>> /\ gathered'.calls = <<>>
        /\ screen'.answer = <<>>
    BY <1>1 DEF NoReply
  <2>2. \A i \in 1..2 : ~toolParts'[i].named /\ toolParts'[i].id = <<>> /\ toolParts'[i].arguments = <<>>
    BY <1>1 DEF NoParts
  <2>3. \A i \in 1..2 : PartKept(i)'
    BY <1>1, <2>2, NothingSent DEF PartKept
  <2>4. /\ TextsOf(sent', "text") = <<>> /\ TextsOf(sent', "thinking") = <<>> /\ CallsOf(sent') = <<>>
    BY <1>1, NothingSent
  <2>5. DOMAIN gathered'.calls = {}
    BY <2>1
  <2> QED
    BY <2>1, <2>2, <2>3, <2>4, <2>5 DEF StreamKept
<1>5. Gathering' /\ Quiet'
  BY <1>1, <1>4 DEF Gathering, Quiet
<1> QED
  BY <1>1, <1>2, <1>3, <1>5, FaithfulUnanswered DEF ModelCallIInv

-----------------------------------------------------------------------------
(* ModelCall: frames.                                                      *)

LEMMA PlacesOfTools ==
    ASSUME NEW frames \in Seq(Frame), NEW f \in Frame
    PROVE  LET n == Len(frames)
               more == Append(frames, f)
           IN  /\ ToolPlaces(frames) \subseteq 1..n
               /\ ToolPlaces(more) = ToolPlaces(frames) \cup (IF f.kind = "tool" THEN {n + 1} ELSE {})
               /\ IsFiniteSet(ToolPlaces(frames)) /\ Cardinality(ToolPlaces(frames)) \in 0..n
               /\ Cardinality(ToolPlaces(more)) =
                     Cardinality(ToolPlaces(frames)) + (IF f.kind = "tool" THEN 1 ELSE 0)
<1> DEFINE n == Len(frames)
           more == Append(frames, f)
           adds == f.kind = "tool"
<1>1. /\ n \in Nat /\ more[n + 1] = f /\ DOMAIN frames = 1..n /\ DOMAIN more = 1..n + 1
      /\ \A k \in 1..n : more[k] = frames[k]
      /\ \A k \in 1..n + 1 : k \in 1..n \/ k = n + 1
      /\ n + 1 \notin 1..n
  BY OneMore
<1>2. n + 1 \in 1..n + 1 /\ 1..n \subseteq 1..n + 1
  BY <1>1
<1> HIDE DEF n, more
<1>3. ToolPlaces(frames) \subseteq 1..n
  BY <1>1 DEF ToolPlaces
<1>4. ToolPlaces(more) = ToolPlaces(frames) \cup (IF adds THEN {n + 1} ELSE {})
  BY <1>1, <1>2 DEF ToolPlaces
<1>5. IsFiniteSet(1..n) /\ Cardinality(1..n) = n
  <2>1. n \in Nat /\ n \in Int
    BY <1>1
  <2>2. IsFiniteSet(1..n) /\ Cardinality(1..n) = IF 1 > n THEN 0 ELSE n - 1 + 1
    BY <2>1, FS_Interval
  <2> QED
    BY <2>1, <2>2
<1>6. IsFiniteSet(ToolPlaces(frames)) /\ Cardinality(ToolPlaces(frames)) \in 0..n
  <2>1. IsFiniteSet(ToolPlaces(frames)) /\ Cardinality(ToolPlaces(frames)) <= Cardinality(1..n)
    BY <1>3, <1>5, FS_Subset
  <2>2. Cardinality(ToolPlaces(frames)) \in Nat
    BY <2>1, FS_CardinalityType
  <2> QED
    BY <1>1, <1>5, <2>1, <2>2
<1>7. Cardinality(ToolPlaces(more)) = Cardinality(ToolPlaces(frames)) + (IF adds THEN 1 ELSE 0)
  <2>1. CASE adds
    <3>1. n + 1 \notin ToolPlaces(frames)
      BY <1>1, <1>3
    <3>2. Cardinality(ToolPlaces(frames) \cup {n + 1}) = Cardinality(ToolPlaces(frames)) + 1
      BY <1>6, <3>1, FS_AddElement
    <3> QED
      BY <1>4, <2>1, <3>2
  <2>2. CASE ~adds
    <3>1. ToolPlaces(more) = ToolPlaces(frames)
      BY <1>4, <2>2
    <3> QED
      BY <1>6, <2>2, <3>1
  <2> QED
    BY <2>1, <2>2
<1> QED
  BY <1>3, <1>4, <1>6, <1>7 DEF n, more

\* What every frame does, whatever its kind.
LEMMA FrameArrives ==
    ASSUME ModelCallIInv, NEW f \in Frame, FrameComes(f)
    PROVE  /\ callState = "open" /\ sent \in Seq(Frame) /\ sent' = Append(sent, f) /\ sent' \in Seq(Frame)
           /\ ModelCallTypeOK' /\ Len(sent) < MaxFrames /\ callState' = "open"
           /\ UNCHANGED <<provider, request, callState, try, recovered, hopeless>>
           /\ ~hopeless'
<1>1. /\ callState = "open" /\ Len(sent) < MaxFrames /\ sent' = Append(sent, f)
      /\ UNCHANGED <<provider, request, callState, try, recovered, hopeless>>
  BY DEF FrameComes
<1>2. sent \in Seq(Frame) /\ ModelCallTypeOK /\ ~hopeless
  BY <1>1 DEF ModelCallIInv, ModelSorts, ReplyFaithful, CallOver
<1>3. sent' \in Seq(Frame) /\ Len(sent') = Len(sent) + 1
  BY <1>1, <1>2
<1>4. Len(sent') <= MaxFrames
  BY <1>1, <1>2, <1>3, ModelCallAssumption
<1> QED
  BY <1>1, <1>2, <1>3, <1>4 DEF ModelCallTypeOK

LEMMA PieceTyped ==
    ASSUME ModelCallIInv
    PROVE  Piece \in FramePiece
<1>1. try \in Nat /\ Len(sent) + 1 \in Nat
  BY ModelCallAssumption DEF ModelCallIInv, ModelSorts, ModelCallTypeOK
<1> QED
  BY <1>1 DEF Piece, FramePiece

\* Text and thinking leave the calls alone.
LEMMA CallsUntouched ==
    ASSUME NEW frames \in Seq(Frame), NEW f \in Frame, f.kind # "tool"
    PROVE  /\ CallsOf(Append(frames, f)) = CallsOf(frames)
           /\ \A i \in Nat : /\ Named(Append(frames, f), i) <=> Named(frames, i)
                             /\ IdGiven(Append(frames, f), i) = IdGiven(frames, i)
                             /\ PiecesAt(Append(frames, f), PartsOf(Append(frames, f), i)) =
                                  PiecesAt(frames, PartsOf(frames, i))
<1> DEFINE more == Append(frames, f)
<1>1. more \in Seq(Frame)
  BY OneMore
<1>2. \A i \in Nat : /\ Named(more, i) <=> Named(frames, i)
                     /\ CallOf(more, i) = CallOf(frames, i)
                     /\ IdGiven(more, i) = IdGiven(frames, i)
                     /\ PiecesAt(more, PartsOf(more, i)) = PiecesAt(frames, PartsOf(frames, i))
  <2> SUFFICES ASSUME NEW i \in Nat
               PROVE  /\ Named(more, i) <=> Named(frames, i)
                      /\ CallOf(more, i) = CallOf(frames, i)
                      /\ IdGiven(more, i) = IdGiven(frames, i)
                      /\ PiecesAt(more, PartsOf(more, i)) = PiecesAt(frames, PartsOf(frames, i))
    OBVIOUS
  <2>1. /\ Named(more, i) <=> Named(frames, i)
        /\ CallOf(more, i) = CallOf(frames, i)
        /\ PiecesAt(more, PartsOf(more, i)) = PiecesAt(frames, PartsOf(frames, i))
    BY PartsStep
  <2>2. IdGiven(more, i) = IdGiven(frames, i)
    BY IdGivenStep
  <2> QED
    BY <2>1, <2>2
<1> HIDE DEF more
<1>3. \A i \in 1..(MaxFrames + 2) : i \in Nat
  OBVIOUS
<1>4. CallsOf(frames) = CallsOf(more)
  BY <1>1, <1>2, <1>3, CallsSame
<1> QED
  BY <1>2, <1>4 DEF more

LEMMA TextFrameKeeps ==
    ASSUME ModelCallIInv, NEW kind \in {"text", "thinking"}, TextFrame(kind)
    PROVE  ModelCallIInv'
<1> DEFINE f == [kind |-> kind, piece |-> Piece]
<1>1. f \in Frame /\ f.kind # "tool" /\ f.kind = kind /\ f.piece = Piece /\ Piece \in FramePiece
  BY PieceTyped DEF Frame
<1>2. /\ FrameComes(f) /\ UNCHANGED toolParts
      /\ request.streaming => /\ gathered' = [gathered EXCEPT ![kind] = Append(@, Piece)]
                              /\ screen' = Shows(kind, Piece)
      /\ ~request.streaming => UNCHANGED <<gathered, screen>>
  BY DEF TextFrame
<1> HIDE DEF f
<1>3. /\ callState = "open" /\ sent \in Seq(Frame) /\ sent' = Append(sent, f) /\ sent' \in Seq(Frame)
      /\ ModelCallTypeOK' /\ Len(sent) < MaxFrames /\ callState' = "open"
      /\ UNCHANGED <<provider, request, callState, try, recovered, hopeless>>
      /\ ~hopeless'
  BY <1>1, <1>2, FrameArrives
<1>4. /\ gathered \in [text : Seq(FramePiece), thinking : Seq(FramePiece), calls : Seq(MadeCalls)]
      /\ screen \in ScreenType
  BY DEF ModelCallIInv, ModelSorts, ScreenType
<1>5. request.streaming =>
         /\ gathered' \in [text : Seq(FramePiece), thinking : Seq(FramePiece), calls : Seq(MadeCalls)]
         /\ screen' \in ScreenType
         /\ gathered'.calls = gathered.calls
         /\ gathered'.text = IF kind = "text" THEN Append(gathered.text, Piece) ELSE gathered.text
         /\ gathered'.thinking = IF kind = "thinking" THEN Append(gathered.thinking, Piece) ELSE gathered.thinking
         /\ screen'.answer = IF kind = "text" THEN Append(screen.answer, Piece) ELSE screen.answer
  <2>1. \A s \in Seq(FramePiece) : Append(s, Piece) \in Seq(FramePiece)
    BY <1>1
  <2>2. CASE kind = "text"
    BY <1>2, <1>4, <2>1, <2>2 DEF Shows, ScreenType
  <2>3. CASE kind = "thinking"
    BY <1>2, <1>4, <2>1, <2>3 DEF Shows, ScreenType
  <2> QED
    BY <2>2, <2>3
<1>6. ModelSorts'
  <2>1. /\ gathered' \in [text : Seq(FramePiece), thinking : Seq(FramePiece), calls : Seq(MadeCalls)]
        /\ screen' \in ScreenType
    BY <1>2, <1>4, <1>5
  <2> QED
    BY <1>2, <1>3, <2>1 DEF ModelCallIInv, ModelSorts, ScreenType
<1>7. Indexed'
  <2>1. /\ ToolPlaces(sent') = ToolPlaces(sent) /\ ToolPlaces(sent) \subseteq 1..Len(sent)
        /\ Cardinality(ToolPlaces(sent')) = Cardinality(ToolPlaces(sent))
    BY <1>1, <1>3, PlacesOfTools
  <2>2. \A n \in 1..Len(sent) : sent'[n] = sent[n]
    BY <1>1, <1>3, OneMore
  <2> QED
    BY <1>3, <2>1, <2>2 DEF ModelCallIInv, Indexed
<1>8. Gathering'
  <2>1. CASE ~request.streaming
    BY <1>2, <1>3, <2>1 DEF ModelCallIInv, Gathering
  <2>2. CASE request.streaming
    <3>1. StreamKept
      BY <1>3, <2>2 DEF ModelCallIInv, Gathering
    <3>2. /\ CallsOf(sent') = CallsOf(sent)
          /\ \A i \in Nat : /\ Named(sent', i) <=> Named(sent, i)
                            /\ IdGiven(sent', i) = IdGiven(sent, i)
                            /\ PiecesAt(sent', PartsOf(sent', i)) = PiecesAt(sent, PartsOf(sent, i))
      BY <1>1, <1>3, CallsUntouched
    <3>3. \A i \in 1..2 : PartKept(i) => PartKept(i)'
      BY <1>2, <3>2 DEF PartKept
    <3>4. \A k : TextsOf(sent', k) = IF kind = k THEN Append(TextsOf(sent, k), Piece) ELSE TextsOf(sent, k)
      BY <1>1, <1>3, TextsStep
    <3>5. /\ gathered'.text = TextsOf(sent', "text") /\ gathered'.thinking = TextsOf(sent', "thinking")
          /\ screen'.answer = gathered'.text
      BY <1>5, <2>2, <3>1, <3>4 DEF StreamKept
    <3>6. gathered'.calls = gathered.calls
      BY <1>5, <2>2
    <3>7. Cardinality(ToolPlaces(sent')) = Cardinality(ToolPlaces(sent))
      BY <1>1, <1>3, PlacesOfTools
    <3>8. StreamKept'
      BY <1>2, <1>3, <3>1, <3>2, <3>3, <3>5, <3>6, <3>7 DEF StreamKept
    <3> QED
      BY <1>3, <2>2, <3>8 DEF Gathering
  <2> QED
    BY <2>1, <2>2
<1> QED
  BY <1>3, <1>6, <1>7, <1>8, FaithfulUnanswered DEF ModelCallIInv, Quiet

LEMMA ToolFrameKeeps ==
    ASSUME ModelCallIInv, NEW index \in 1..2, NEW id \in {<<>>, Given(1), Given(2)}, NEW named \in BOOLEAN,
           ToolFrame(index, id, named)
    PROVE  ModelCallIInv'
<1> DEFINE f == [kind |-> "tool", index |-> index, id |-> id, named |-> named, piece |-> Piece]
           PartType == [id : {<<>>} \cup GivenIds, named : BOOLEAN, arguments : Seq(FramePiece), begun : BOOLEAN]
           part(old) == [id |-> IF id = <<>> THEN old.id ELSE id, named |-> old.named \/ named,
                         arguments |-> Append(old.arguments, Piece), begun |-> TRUE]
<1>1. /\ f \in Frame /\ f.kind = "tool" /\ f.index = index /\ f.id = id /\ f.named = named /\ f.piece = Piece
      /\ Piece \in FramePiece /\ index \in Nat /\ id \in {<<>>} \cup GivenIds
  BY PieceTyped DEF Frame, GivenIds
<1>2. /\ FrameComes(f) /\ provider # "ollama" /\ UNCHANGED <<gathered, screen>>
      /\ request.streaming => toolParts' = [toolParts EXCEPT ![index] = part(@)]
      /\ ~request.streaming => UNCHANGED toolParts
  BY DEF ToolFrame
<1> HIDE DEF f
<1>3. /\ callState = "open" /\ sent \in Seq(Frame) /\ sent' = Append(sent, f) /\ sent' \in Seq(Frame)
      /\ ModelCallTypeOK' /\ Len(sent) < MaxFrames /\ callState' = "open"
      /\ UNCHANGED <<provider, request, callState, try, recovered, hopeless>>
      /\ ~hopeless'
  BY <1>1, <1>2, FrameArrives
<1>4. toolParts \in [1..2 -> PartType]
  BY DEF ModelCallIInv, ModelSorts
<1>5. ASSUME NEW old \in PartType
      PROVE  /\ part(old) \in PartType /\ part(old).id = IF id = <<>> THEN old.id ELSE id
             /\ part(old).named = (old.named \/ named) /\ part(old).arguments = Append(old.arguments, Piece)
  BY <1>1
<1> HIDE DEF PartType, part
<1>6. toolParts' \in [1..2 -> PartType]
  BY <1>2, <1>4, <1>5
<1>7. ModelSorts'
  BY <1>2, <1>3, <1>6 DEF ModelCallIInv, ModelSorts, PartType
<1>8. Indexed'
  <2>1. ToolPlaces(sent) \subseteq 1..Len(sent) /\ ToolPlaces(sent') = ToolPlaces(sent) \cup {Len(sent) + 1}
    BY <1>1, <1>3, PlacesOfTools
  <2>2. (\A n \in 1..Len(sent) : sent'[n] = sent[n]) /\ sent'[Len(sent) + 1] = f
    BY <1>1, <1>3, OneMore
  <2> QED
    BY <1>1, <1>2, <1>3, <2>1, <2>2 DEF ModelCallIInv, Indexed
<1>9. Gathering'
  <2>1. CASE ~request.streaming
    BY <1>2, <1>3, <2>1 DEF ModelCallIInv, Gathering
  <2>2. CASE request.streaming
    <3>1. StreamKept
      BY <1>3, <2>2 DEF ModelCallIInv, Gathering
    <3>2. TextsOf(sent', "text") = TextsOf(sent, "text") /\ TextsOf(sent', "thinking") = TextsOf(sent, "thinking")
      BY <1>1, <1>3, TextsStep
    <3>3. ASSUME NEW i \in 1..2, PartKept(i) PROVE PartKept(i)'
      <4>1. i \in Nat
        OBVIOUS
      <4>2. /\ Named(sent', i) <=> Named(sent, i) \/ (i = index /\ named)
            /\ PiecesAt(sent', PartsOf(sent', i)) =
                  IF i = index THEN Append(PiecesAt(sent, PartsOf(sent, i)), Piece)
                  ELSE PiecesAt(sent, PartsOf(sent, i))
        BY <1>1, <1>3, <4>1, PartsStep
      <4>3. IdGiven(sent', i) = IF i = index /\ id # <<>> THEN id ELSE IdGiven(sent, i)
        BY <1>1, <1>3, <4>1, IdGivenStep
      <4>4. CASE i = index
        <5>1. toolParts'[i] = part(toolParts[i]) /\ toolParts[i] \in PartType
          BY <1>2, <1>4, <2>2, <4>4
        <5> QED
          BY <1>5, <3>3, <4>2, <4>3, <4>4, <5>1 DEF PartKept
      <4>5. CASE i # index
        <5>1. toolParts'[i] = toolParts[i]
          BY <1>2, <1>4, <2>2, <4>5
        <5> QED
          BY <3>3, <4>2, <4>3, <4>5, <5>1 DEF PartKept
      <4> QED
        BY <4>4, <4>5
    <3>4. StreamKept'
      BY <1>2, <1>3, <3>1, <3>2, <3>3 DEF StreamKept
    <3> QED
      BY <1>3, <2>2, <3>4 DEF Gathering
  <2> QED
    BY <2>1, <2>2
<1> QED
  BY <1>3, <1>7, <1>8, <1>9, FaithfulUnanswered DEF ModelCallIInv, Quiet

\* Ollama's call with the next index is new, and comes last.
LEMMA WholeCallAdds ==
    ASSUME NEW frames \in Seq(Frame), NEW f \in Frame, NEW m \in 0..MaxFrames,
           \A n \in ToolPlaces(frames) : frames[n].index \in 1..m,
           f.kind = "tool", f.index = m + 1, f.id = <<>>, f.named
    PROVE  CallsOf(Append(frames, f)) = Append(CallsOf(frames), Fragment(MadeUp(m + 1), <<f.piece>>))
<1> DEFINE more == Append(frames, f)
           q == m + 1
<1>1. /\ more \in Seq(Frame) /\ m \in Nat /\ q \in Nat /\ m \in 0..(MaxFrames + 1) /\ q \notin 1..m
      /\ \A i \in 1..m : i # q /\ i \in Nat
      /\ \A i \in q..(MaxFrames + 2) : i \notin 1..m /\ i \in Nat
  BY OneMore, ModelCallAssumption
<1>2. \A i \in Nat : i \notin 1..m => PartsOf(frames, i) = {}
  BY DEF PartsOf, ToolPlaces
<1>3. \A i \in 1..m : (Named(frames, i) <=> Named(more, i)) /\ CallOf(frames, i) = CallOf(more, i)
  <2> SUFFICES ASSUME NEW i \in 1..m
               PROVE  (Named(frames, i) <=> Named(more, i)) /\ CallOf(frames, i) = CallOf(more, i)
    OBVIOUS
  <2>1. i \in Nat /\ ~(f.kind = "tool" /\ f.index = i)
    BY <1>1
  <2> QED
    BY <2>1, PartsStep
<1>4. \A i \in q..(MaxFrames + 2) : ~Named(frames, i) /\ (Named(more, i) <=> i = q)
  <2> SUFFICES ASSUME NEW i \in q..(MaxFrames + 2)
               PROVE  ~Named(frames, i) /\ (Named(more, i) <=> i = q)
    OBVIOUS
  <2>1. i \in Nat /\ PartsOf(frames, i) = {}
    BY <1>1, <1>2
  <2>2. ~Named(frames, i)
    BY <2>1 DEF Named
  <2>3. Named(more, i) <=> Named(frames, i) \/ (f.kind = "tool" /\ f.index = i /\ f.named)
    BY <2>1, PartsStep
  <2> QED
    BY <2>2, <2>3
<1>5. CallOf(more, q) = Fragment(MadeUp(q), <<f.piece>>)
  <2>1. PartsOf(frames, q) = {} /\ WithId(frames, q) = {}
    BY <1>1, <1>2 DEF WithId
  <2>2. PiecesAt(frames, PartsOf(frames, q)) = <<>>
    BY <2>1, NoPlaces
  <2>3. PiecesAt(more, PartsOf(more, q)) = Append(PiecesAt(frames, PartsOf(frames, q)), f.piece)
    BY <1>1, PartsStep
  <2>4. PiecesAt(more, PartsOf(more, q)) = <<f.piece>>
    <3>1. Append(<<>>, f.piece) = <<f.piece>>
      OBVIOUS
    <3> HIDE DEF more, q
    <3> QED
      BY <2>2, <2>3, <3>1
  <2>5. IdGiven(frames, q) = <<>>
    BY <2>1 DEF IdGiven
  <2>6. IdGiven(more, q) = <<>>
    BY <1>1, <2>5, IdGivenStep
  <2>7. CallOf(more, q) = Fragment(MadeUp(q), PiecesAt(more, PartsOf(more, q)))
    <3> HIDE DEF more, q
    <3> QED
      BY <1>1, <2>6, IdGivenIs
  <2> QED
    BY <2>4, <2>7
<1> HIDE DEF more
<1>6. CallsOf(more) = Append(CallsOf(frames), CallOf(more, m + 1))
  BY <1>1, <1>3, <1>4, CallsGrow
<1> QED
  BY <1>5, <1>6 DEF more

LEMMA WholeCallKeeps ==
    ASSUME ModelCallIInv, WholeCall
    PROVE  ModelCallIInv'
<1> DEFINE m == Cardinality(ToolPlaces(sent))
           f == [kind |-> "tool", index |-> m + 1, id |-> <<>>, named |-> TRUE, piece |-> Piece]
           new == Fragment(MadeUp(m + 1), <<Piece>>)
<1>1. sent \in Seq(Frame) /\ Piece \in FramePiece
  BY PieceTyped DEF ModelCallIInv, ModelSorts
<1>2. /\ provider = "ollama" /\ FrameComes(f) /\ UNCHANGED <<toolParts, screen>>
      /\ gathered' = IF request.streaming THEN [gathered EXCEPT !.calls = Merged(@, new)] ELSE gathered
  BY DEF WholeCall, ToolPlaces
<1>3. m \in 0..Len(sent) /\ ToolPlaces(sent) \subseteq 1..Len(sent)
  <2> DEFINE g == [kind |-> "text", piece |-> Piece]
  <2>1. g \in Frame
    BY <1>1 DEF Frame
  <2> HIDE DEF g
  <2> QED
    BY <1>1, <2>1, PlacesOfTools
<1>4. m \in Nat /\ m + 1 \in Nat /\ \A i \in 1..m : i \in 1..m + 1 /\ i # m + 1 /\ i \in Nat
  BY <1>1, <1>3
<1>5. /\ f \in Frame /\ f.kind = "tool" /\ f.index = m + 1 /\ f.id = <<>> /\ f.named = TRUE /\ f.piece = Piece
  BY <1>1, <1>4 DEF Frame
<1> HIDE DEF m, f
<1>6. /\ callState = "open" /\ sent \in Seq(Frame) /\ sent' = Append(sent, f) /\ sent' \in Seq(Frame)
      /\ ModelCallTypeOK' /\ Len(sent) < MaxFrames /\ callState' = "open"
      /\ UNCHANGED <<provider, request, callState, try, recovered, hopeless>>
      /\ ~hopeless'
  BY <1>2, <1>5, FrameArrives
<1>7. m \in 0..MaxFrames
  BY <1>1, <1>3, <1>6, ModelCallAssumption
<1>8. \A n \in ToolPlaces(sent) : sent[n].index \in 1..m /\ sent[n].id = <<>> /\ sent[n].named
  BY <1>2 DEF ModelCallIInv, Indexed, m
<1>9. /\ Cardinality(ToolPlaces(sent')) = m + 1
      /\ ToolPlaces(sent') = ToolPlaces(sent) \cup {Len(sent) + 1}
  BY <1>5, <1>6, PlacesOfTools DEF m
<1>10. Indexed'
  <2>1. (\A n \in 1..Len(sent) : sent'[n] = sent[n]) /\ sent'[Len(sent) + 1] = f
    BY <1>5, <1>6, OneMore
  <2>2. \A n \in ToolPlaces(sent') : sent'[n].index \in 1..m + 1 /\ sent'[n].id = <<>> /\ sent'[n].named
    <3>1. m + 1 \in 1..m + 1
      BY <1>4
    <3> QED
      BY <1>3, <1>4, <1>5, <1>8, <1>9, <2>1, <3>1
  <2> QED
    BY <1>2, <1>6, <1>9, <2>2 DEF Indexed
<1>11. CallsOf(sent') = Append(CallsOf(sent), new) /\ new \in MadeCalls
  <2>1. CallsOf(sent') = Append(CallsOf(sent), new)
    BY <1>5, <1>6, <1>7, <1>8, WholeCallAdds
  <2>2. MadeUp(m + 1) \in CallIds /\ <<Piece>> \in Seq(FramePiece)
    BY <1>1, <1>4 DEF CallIds
  <2> QED
    BY <2>1, <2>2 DEF Fragment, MadeCalls
<1>12. gathered \in [text : Seq(FramePiece), thinking : Seq(FramePiece), calls : Seq(MadeCalls)]
  BY DEF ModelCallIInv, ModelSorts
<1>13. ASSUME request.streaming
       PROVE  /\ gathered'.calls = Append(gathered.calls, new) /\ gathered'.text = gathered.text
              /\ gathered'.thinking = gathered.thinking
              /\ gathered' \in [text : Seq(FramePiece), thinking : Seq(FramePiece), calls : Seq(MadeCalls)]
              /\ gathered.calls \in Seq(MadeCalls)
              /\ \A k \in DOMAIN gathered.calls : \E i \in 1..m : gathered.calls[k].id = MadeUp(i)
  <2>1. \A k \in DOMAIN gathered.calls : \E i \in 1..m : gathered.calls[k].id = MadeUp(i)
    BY <1>2, <1>6, <1>13 DEF ModelCallIInv, Gathering, StreamKept, m
  <2>2. ~\E k \in DOMAIN gathered.calls : gathered.calls[k].id = new.id
    BY <1>4, <2>1, IdsDiffer DEF Fragment
  <2>3. Merged(gathered.calls, new) = Append(gathered.calls, new)
    BY <2>2 DEF Merged
  <2>4. gathered' = [gathered EXCEPT !.calls = Append(gathered.calls, new)]
    BY <1>2, <1>13, <2>3
  <2>5. gathered.calls \in Seq(MadeCalls) /\ Append(gathered.calls, new) \in Seq(MadeCalls)
    BY <1>11, <1>12
  <2> HIDE DEF new
  <2> QED
    BY <1>12, <2>1, <2>4, <2>5
<1>14. ModelSorts'
  BY <1>2, <1>6, <1>12, <1>13 DEF ModelCallIInv, ModelSorts
<1>15. Gathering'
  <2>1. CASE ~request.streaming
    BY <1>2, <1>6, <2>1 DEF ModelCallIInv, Gathering
  <2>2. CASE request.streaming
    <3>1. StreamKept
      BY <1>6, <2>2 DEF ModelCallIInv, Gathering
    <3>2. TextsOf(sent', "text") = TextsOf(sent, "text") /\ TextsOf(sent', "thinking") = TextsOf(sent, "thinking")
      BY <1>5, <1>6, TextsStep
    <3>3. \A k \in DOMAIN gathered'.calls : \E i \in 1..m + 1 : gathered'.calls[k].id = MadeUp(i)
      <4> DEFINE old == gathered.calls
      <4>1. old \in Seq(MadeCalls) /\ gathered'.calls = Append(old, new) /\ new.id = MadeUp(m + 1)
            /\ \A k \in DOMAIN old : \E i \in 1..m : old[k].id = MadeUp(i)
        BY <1>13, <2>2 DEF Fragment
      <4> HIDE DEF old, new
      <4>2. \A k \in DOMAIN Append(old, new) : (k \in DOMAIN old /\ Append(old, new)[k] = old[k]) \/ Append(old, new)[k] = new
        BY <4>1
      <4>3. m + 1 \in 1..m + 1
        BY <1>4
      <4> QED
        BY <1>4, <4>1, <4>2, <4>3
    <3>4. gathered'.calls = CallsOf(sent')
      BY <1>2, <1>11, <1>13, <2>2, <3>1 DEF StreamKept
    <3>5. StreamKept'
      BY <1>2, <1>6, <1>9, <1>13, <2>2, <3>1, <3>2, <3>3, <3>4 DEF StreamKept
    <3> QED
      BY <1>6, <2>2, <3>5 DEF Gathering
  <2> QED
    BY <2>1, <2>2
<1> QED
  BY <1>6, <1>10, <1>14, <1>15, FaithfulUnanswered DEF ModelCallIInv, Quiet

-----------------------------------------------------------------------------
(* ModelCall: the end of a reply.                                          *)

\* A fragment with a new id is a call of its own, an empty list has no ids.
LEMMA MergedAlone ==
    ASSUME NEW fragment
    PROVE  /\ Merged(<<>>, fragment) = <<fragment>>
           /\ \A first : first.id # fragment.id => Merged(<<first>>, fragment) = Append(<<first>>, fragment)
<1>1. Merged(<<>>, fragment) = <<fragment>>
  <2>1. DOMAIN <<>> = {} /\ Append(<<>>, fragment) = <<fragment>>
    OBVIOUS
  <2> QED
    BY <2>1 DEF Merged
<1>2. ASSUME NEW first, first.id # fragment.id PROVE Merged(<<first>>, fragment) = Append(<<first>>, fragment)
  <2>1. DOMAIN <<first>> = {1} /\ <<first>>[1] = first
    OBVIOUS
  <2> QED
    BY <1>2, <2>1 DEF Merged
<1> QED
  BY <1>1, <1>2

\* Calls with different ids are handed on as they are.
LEMMA CallsHandedOn ==
    ASSUME ModelCallIInv, callState = "open", request.streaming, provider # "ollama",
           {sent[n].id : n \in WithId(sent, 1)} \cap {sent[n].id : n \in WithId(sent, 2)} = {}
    PROVE  HandedOn = CallsOf(sent)
<1>1. /\ sent \in Seq(Frame) /\ gathered.calls = <<>> /\ PartKept(1) /\ PartKept(2) /\ 1 \in Nat /\ 2 \in Nat
  BY DEF ModelCallIInv, ModelSorts, Gathering, StreamKept
<1>2. \A i \in 3..(MaxFrames + 2) : ~Named(sent, i)
  <2>1. \A i \in 3..(MaxFrames + 2) : PartsOf(sent, i) = {}
    BY DEF ModelCallIInv, Indexed, ToolPlaces, PartsOf
  <2> QED
    BY <2>1 DEF Named
<1> DEFINE c(i) == Fragment(IF toolParts[i].id = <<>> THEN MadeUp(i) ELSE toolParts[i].id, toolParts[i].arguments)
<1>3. c(1) = CallOf(sent, 1) /\ c(2) = CallOf(sent, 2)
  BY <1>1, IdGivenIs DEF PartKept
<1>4. c(1).id # c(2).id
  <2>1. /\ toolParts[1].id = IdGiven(sent, 1) /\ toolParts[2].id = IdGiven(sent, 2)
    BY <1>1 DEF PartKept
  <2>2. /\ IdGiven(sent, 1) \in {<<>>} \cup GivenIds /\ IdGiven(sent, 2) \in {<<>>} \cup GivenIds
        /\ IdGiven(sent, 1) # <<>> => IdGiven(sent, 1) \in {sent[n].id : n \in WithId(sent, 1)}
        /\ IdGiven(sent, 2) # <<>> => IdGiven(sent, 2) \in {sent[n].id : n \in WithId(sent, 2)}
    BY <1>1, IdGivenIs
  <2>3. MadeUp(1) # MadeUp(2) /\ MadeUp(1) \notin GivenIds /\ MadeUp(2) \notin GivenIds
    BY IdsDiffer
  <2>4. IdGiven(sent, 1) # <<>> /\ IdGiven(sent, 2) # <<>> => IdGiven(sent, 1) # IdGiven(sent, 2)
    BY <2>2
  <2> QED
    BY <2>1, <2>2, <2>3, <2>4 DEF Fragment
<1> HIDE DEF c
<1> DEFINE once == IF Named(sent, 1) THEN <<c(1)>> ELSE <<>>
<1>5. HandOn(gathered.calls, 1) = once
  <2>1. HandOn(gathered.calls, 1) = IF toolParts[1].named THEN Merged(<<>>, c(1)) ELSE <<>>
    BY <1>1 DEF HandOn, c
  <2> QED
    BY <1>1, <2>1, MergedAlone DEF PartKept
<1>6. HandedOn = IF Named(sent, 2) THEN Merged(once, c(2)) ELSE once
  <2>1. HandedOn = IF toolParts[2].named THEN Merged(once, c(2)) ELSE once
    <3> HIDE DEF once
    <3> QED
      BY <1>5 DEF HandedOn, HandOn, c
  <2> QED
    BY <1>1, <2>1 DEF PartKept
<1>7. Append(<<>>, c(1)) = <<c(1)>> /\ Append(<<>>, c(2)) = <<c(2)>>
  OBVIOUS
<1>8. Merged(once, c(2)) = Append(once, c(2))
  BY <1>4, <1>7, MergedAlone
<1>9. CallsOf(sent) = IF Named(sent, 2) THEN Append(once, c(2)) ELSE once
  BY <1>1, <1>2, <1>3, <1>7, CallsOfTwo
<1> QED
  BY <1>6, <1>8, <1>9

LEMMA ReplyEnds ==
    ASSUME ModelCallIInv, callState = "open", callState' = "answered",
           UNCHANGED <<provider, request, try, sent, toolParts, gathered, screen, recovered, hopeless>>,
           {sent[n].id : n \in WithId(sent, 1)} \cap {sent[n].id : n \in WithId(sent, 2)} = {}
              => reply' = Parsed
    PROVE  ModelCallIInv'
<1>1. ModelSorts'
  <2>1. screen' \in ScreenType /\ callState' \in {"new", "asking", "open"} \cup CallOver
    BY DEF ModelCallIInv, ModelSorts, ScreenType, CallOver
  <2> QED
    BY <2>1, SortsStay DEF ModelCallIInv, ModelSorts, ModelCallTypeOK
<1>2. Indexed'
  BY DEF ModelCallIInv, Indexed, ToolPlaces
<1>3. Gathering' /\ Quiet'
  BY DEF Gathering, Quiet
<1>4. ReplyFaithful'
  <2>1. {sent'[n].id : n \in WithId(sent', 1)} \cap {sent'[n].id : n \in WithId(sent', 2)} = {}
           => reply' = Parsed'
    BY DEF Parsed, PiecesOf
  <2>2. request'.streaming => screen'.answer = PiecesOf("text")'
    BY DEF ModelCallIInv, Gathering, StreamKept, PiecesOf
  <2>3. callState' \in CallOver /\ callState' # "asking"
    BY DEF CallOver
  <2> QED
    BY <2>1, <2>2, <2>3 DEF ReplyFaithful
<1> QED
  BY <1>1, <1>2, <1>3, <1>4 DEF ModelCallIInv

LEMMA StreamEndsKeeps ==
    ASSUME ModelCallIInv, StreamEnds
    PROVE  ModelCallIInv'
<1>1. callState = "open" /\ request.streaming
  BY DEF StreamEnds
<1>2. CASE TryFails(ClientError("stream_interrupted", 0))
  <2>1. \E error : TryFails(error)
    BY <1>2
  <2> QED
    BY <1>1, <2>1, TryFailsKeeps
<1>3. CASE /\ reply' = [gathered EXCEPT !.calls = HandedOn] /\ callState' = "answered"
           /\ UNCHANGED <<provider, features, request, try, sent, toolParts, gathered, screen, recovered, hopeless>>
  <2>1. StreamKept /\ gathered \in [text : Seq(FramePiece), thinking : Seq(FramePiece), calls : Seq(MadeCalls)]
    BY <1>1 DEF ModelCallIInv, Gathering, ModelSorts
  <2>2. {sent[n].id : n \in WithId(sent, 1)} \cap {sent[n].id : n \in WithId(sent, 2)} = {}
           => HandedOn = CallsOf(sent)
    <3>1. CASE provider = "ollama"
      <4>1. ~toolParts[1].named /\ ~toolParts[2].named /\ gathered.calls = CallsOf(sent)
        BY <2>1, <3>1 DEF StreamKept
      <4> QED
        BY <4>1 DEF HandedOn, HandOn
    <3>2. CASE provider # "ollama"
      BY <1>1, <3>2, CallsHandedOn
    <3> QED
      BY <3>1, <3>2
  <2>3. \A cs : [gathered EXCEPT !.calls = cs] =
                      [text |-> gathered.text, thinking |-> gathered.thinking, calls |-> cs]
    BY <2>1
  <2>4. gathered.text = PiecesOf("text") /\ gathered.thinking = PiecesOf("thinking")
    BY <2>1 DEF StreamKept, PiecesOf
  <2>5. HandedOn = CallsOf(sent) => reply' = Parsed
    BY <1>3, <2>3, <2>4 DEF Parsed
  <2> QED
    BY <1>1, <1>3, <2>2, <2>5, ReplyEnds
<1> QED
  BY <1>2, <1>3 DEF StreamEnds

LEMMA WholeReplyKeeps ==
    ASSUME ModelCallIInv, WholeReply
    PROVE  ModelCallIInv'
BY ReplyEnds DEF WholeReply

LEMMA ModelCallStarts == ModelCallInit => ModelCallIInv
<1> SUFFICES ASSUME ModelCallInit PROVE ModelCallIInv
  OBVIOUS
<1>1. /\ sent = <<>> /\ toolParts = NoParts /\ gathered = NoReply /\ screen = EmptyScreen
      /\ callState = "new" /\ try = 1 /\ recovered = FALSE /\ hopeless = FALSE
  BY DEF ModelCallInit
<1>2. ModelSorts
  <2>1. <<>> \in Seq(FramePiece) /\ <<>> \in Seq(MadeCalls) /\ <<>> \in Seq(Frame) /\ Len(<<>>) = 0
    OBVIOUS
  <2>2. toolParts \in [1..2 -> [id : {<<>>} \cup GivenIds, named : BOOLEAN, arguments : Seq(FramePiece),
                                begun : BOOLEAN]]
    BY <1>1, <2>1 DEF NoParts
  <2>3. gathered \in [text : Seq(FramePiece), thinking : Seq(FramePiece), calls : Seq(MadeCalls)]
    BY <1>1, <2>1 DEF NoReply
  <2>4. screen \in [answer : Seq(FramePiece), thinking : Seq(FramePiece), open : BOOLEAN]
    BY <1>1, <2>1 DEF EmptyScreen
  <2>5. ModelCallTypeOK
    <3>1. Len(sent) <= MaxFrames /\ try \in 1..MaxTries
      BY <1>1, <2>1, ModelCallAssumption
    <3> QED
      BY <1>1, <3>1 DEF ModelCallInit, ModelCallTypeOK
  <2>6. sent \in Seq(Frame)
    BY <1>1, <2>1
  <2> QED
    BY <2>2, <2>3, <2>4, <2>5, <2>6 DEF ModelCallInit, ModelSorts
<1>3. Indexed
  <2>1. ToolPlaces(sent) = {}
    BY <1>1, NothingSent
  <2> QED
    BY <2>1 DEF Indexed
<1>4. Gathering /\ Quiet
  BY <1>1 DEF Gathering, Quiet, EmptyScreen
<1>5. ReplyFaithful
  BY <1>1 DEF ReplyFaithful
<1> QED
  BY <1>2, <1>3, <1>4, <1>5 DEF ModelCallIInv

LEMMA ModelCallStays == ModelCallIInv /\ UNCHANGED modelCallVars => ModelCallIInv'
<1> SUFFICES ASSUME ModelCallIInv, UNCHANGED modelCallVars PROVE ModelCallIInv'
  OBVIOUS
<1> USE DEF modelCallVars
<1>1. ModelSorts'
  BY DEF ModelCallIInv, ModelSorts, ModelCallTypeOK
<1>2. Indexed'
  BY DEF ModelCallIInv, Indexed, ToolPlaces
<1>3. Gathering' /\ Quiet'
  <2>1. StreamKept => StreamKept'
    BY DEF StreamKept, PartKept, ToolPlaces
  <2> QED
    BY <2>1 DEF ModelCallIInv, Gathering, Quiet
<1>4. ReplyFaithful'
  BY DEF ModelCallIInv, ReplyFaithful, Parsed, PiecesOf
<1> QED
  BY <1>1, <1>2, <1>3, <1>4 DEF ModelCallIInv

\* Whatever frames come and whichever tries fail: the recorded reply is what
\* the provider sent in the last try, and the screen shows no other text.
THEOREM ReplyIsFaithful == ModelCallSpec => []ReplyFaithful
<1>1. ASSUME ModelCallIInv, [ModelCallNext]_modelCallVars PROVE ModelCallIInv'
  <2>1. CASE PrepareCall \/ CancelCall
    BY <1>1, <2>1, BareSteps
  <2>2. CASE BeginTry
    BY <1>1, <2>2, BeginTryKeeps
  <2>3. CASE RefuseRequest \/ EmptyResponse \/ \E failure \in DOMAIN Status : ProviderFails(failure) \/ BodyFails(failure)
    BY <1>1, <2>3, TriesFail
  <2>4. CASE \E kind \in {"text", "thinking"} : TextFrame(kind)
    BY <1>1, <2>4, TextFrameKeeps
  <2>5. CASE \E index \in 1..2, id \in {<<>>, Given(1), Given(2)}, named \in BOOLEAN : ToolFrame(index, id, named)
    BY <1>1, <2>5, ToolFrameKeeps
  <2>6. CASE WholeCall
    BY <1>1, <2>6, WholeCallKeeps
  <2>7. CASE StreamEnds
    BY <1>1, <2>7, StreamEndsKeeps
  <2>8. CASE WholeReply
    BY <1>1, <2>8, WholeReplyKeeps
  <2>9. CASE UNCHANGED modelCallVars
    BY <1>1, <2>9, ModelCallStays
  <2> QED
    BY <1>1, <2>1, <2>2, <2>3, <2>4, <2>5, <2>6, <2>7, <2>8, <2>9 DEF ModelCallNext
<1>2. ModelCallIInv => ReplyFaithful
  BY DEF ModelCallIInv
<1> QED
  BY <1>1, <1>2, ModelCallStarts, PTL DEF ModelCallSpec

-----------------------------------------------------------------------------
(* Permissions: how a line is read.                                        *)

Segs == [words : Seq(STRING), script : Scripts, hidden : Scripts]

LEMMA SegsOf ==
    ASSUME NEW segs \in Scripts
    PROVE  /\ segs \in Seq(Segs) /\ Commands(segs) \subseteq Segs
           /\ segs # <<>> => Commands(segs) # {}
           /\ segs = <<>> => Commands(segs) = {}
<1>1. segs \in Seq(Segs)
  BY PermissionsAssumption DEF Segs
<1>2. Len(segs) \in Nat /\ DOMAIN segs = 1..Len(segs) /\ \A i \in DOMAIN segs : segs[i] \in Segs
  BY <1>1
<1>3. segs # <<>> => 1 \in DOMAIN segs
  BY <1>1
<1>4. segs = <<>> => DOMAIN segs = {}
  OBVIOUS
<1> QED
  BY <1>1, <1>2, <1>3, <1>4 DEF Commands

\* What a command comes down to is what the Policy unwraps it to.
LEMMA ReachedIsWrapped ==
    ASSUME NEW words \in Seq(STRING), NEW i \in DOMAIN words, Reaches(words, i)
    PROVE  LET command == <<Base(words[i])>> \o SubSeq(words, i + 1, Len(words))
           IN  /\ command \in Candidates(words) /\ command[1] = Base(words[i])
               /\ Candidates(words) = {words} => command = words
<1> DEFINE n == Len(words)
           command == <<Base(words[i])>> \o SubSeq(words, i + 1, n)
           Behind(k) == /\ \A j \in 1..k - 1 : words[j] \in Assignments \/ Base(words[j]) \in Wrappers
                        /\ k <= n => words[k] \notin Assignments /\ Base(words[k]) \notin Wrappers
<1>1. n \in Nat /\ i \in 1..n /\ DOMAIN words = 1..n
  OBVIOUS
<1>2. Behind(i) /\ i \in 1..n + 1
  BY <1>1 DEF Reaches
<1>3. ASSUME NEW k \in 1..n + 1, Behind(k) PROVE k = i
  <2>1. CASE k < i
    <3>1. k \in 1..i - 1 /\ k <= n
      BY <1>1, <2>1
    <3> QED
      BY <1>2, <1>3, <3>1
  <2>2. CASE i < k
    <3>1. i \in 1..k - 1 /\ i <= n
      BY <1>1, <2>2
    <3> QED
      BY <1>2, <1>3, <3>1
  <2> QED
    BY <1>1, <2>1, <2>2
<1>4. Begins(words) = CHOOSE k \in 1..n + 1 : Behind(k)
  BY DEF Begins
<1> HIDE DEF Behind
<1>5. Begins(words) = i
  BY <1>2, <1>3, <1>4
<1>6. Wrapped(words) = command
  BY <1>1, <1>5 DEF Wrapped
<1>7. command # <<>> /\ command[1] = Base(words[i])
  <2>1. SubSeq(words, i + 1, n) \in Seq(STRING)
    BY <1>1
  <2> DEFINE rest == SubSeq(words, i + 1, n)
             head == Base(words[i])
  <2>2. \A x, y : y \in Seq(STRING) => <<x>> \o y # <<>> /\ (<<x>> \o y)[1] = x
    OBVIOUS
  <2> QED
    BY <2>1, <2>2
<1> QED
  BY <1>6, <1>7 DEF Candidates

-----------------------------------------------------------------------------
(* Permissions: the loops over levels.                                     *)

\* The readings of a command as written, and what the shell starts by it.
ReadBy(seg) == {Subject(w, seg) : w \in Candidates(seg.words)}
Run(words, i, seg) == Subject(<<Base(words[i])>> \o SubSeq(words, i + 1, Len(words)), seg)
RunPlaces(seg) == {m \in DOMAIN seg.words : Reaches(seg.words, m)}

LEMMA ReadIs ==
    ASSUME NEW n \in 0..MaxNesting, NEW segs \in Scripts
    PROVE  \A subject : subject \in Read[n][segs] <=>
              \E seg \in Commands(segs) :
                 \/ subject \in ReadBy(seg)
                 \/ n > 0 /\ subject \in WordsAsScripts(seg)
                 \/ n > 0 /\ \E script \in InlineScripts(seg) : subject \in Read[n - 1][script]
<1> DEFINE All == UNION {ReadBy(seg) \cup WordsAsScripts(seg) : seg \in Segs}
           D == [Scripts -> SUBSET All]
           Of(l, k, s) == UNION {ReadBy(seg)
                                   \cup (IF k > 0 THEN WordsAsScripts(seg) \cup UNION {l[script] : script \in InlineScripts(seg)}
                                         ELSE {}) : seg \in Commands(s)}
           Step(f, i) == [s \in Scripts |-> Of(f[i - 1], i, s)]
           none == [s \in Scripts |-> Of([x \in {} |-> {}], 0, s)]
           G == [i \in 1..MaxNesting |-> [l \in D |-> [s \in Scripts |-> Of(l, i, s)]]]
<1>1. MaxNesting \in Nat
  BY PermissionsAssumption
<1>2. \A s \in Scripts : \A seg \in Commands(s) :
         ReadBy(seg) \cup WordsAsScripts(seg) \subseteq All /\ InlineScripts(seg) \subseteq Scripts
  <2> SUFFICES ASSUME NEW s \in Scripts, NEW seg \in Commands(s)
               PROVE  ReadBy(seg) \cup WordsAsScripts(seg) \subseteq All /\ InlineScripts(seg) \subseteq Scripts
    OBVIOUS
  <2>1. seg \in Segs
    BY SegsOf
  <2>2. InlineScripts(seg) \subseteq Scripts
    BY <2>1 DEF InlineScripts, Segs
  <2> QED
    BY <2>1, <2>2
<1> HIDE DEF All
<1>3. none \in D
  BY <1>2
<1>4. \A i \in 1..MaxNesting : \A l \in D : [s \in Scripts |-> Of(l, i, s)] \in D
  BY <1>2
<1> HIDE DEF D, Of
<1>5. G \in [1..MaxNesting -> [D -> D]]
  BY <1>4
<1>6. PICK f \in [0..MaxNesting -> D] :
        /\ f[0] = none
        /\ \A i \in 1..MaxNesting : f[i] = G[i][f[i - 1]]
  <2> HIDE DEF none, G
  <2> QED
    BY <1>1, <1>3, <1>5, LoopRuns
<1>7. \A i \in 0..MaxNesting : f[i] = Step(f, i)
  <2> SUFFICES ASSUME NEW i \in 0..MaxNesting PROVE f[i] = Step(f, i)
    OBVIOUS
  <2>1. CASE i = 0
    <3>1. \A l, s : Of(l, 0, s) = Of([x \in {} |-> {}], 0, s)
      BY DEF Of
    <3> QED
      BY <1>6, <2>1, <3>1
  <2>2. CASE i # 0
    <3>1. i \in 1..MaxNesting /\ i - 1 \in 0..MaxNesting
      BY <1>1, <2>2
    <3>2. f[i - 1] \in D
      BY <1>6, <3>1
    <3>3. G[i][f[i - 1]] = [s \in Scripts |-> Of(f[i - 1], i, s)]
      BY <3>1, <3>2
    <3> QED
      BY <1>6, <3>1, <3>3
  <2> QED
    BY <2>1, <2>2
<1> DEFINE read == CHOOSE g : g = [i \in 0..MaxNesting |-> Step(g, i)]
<1>8. read = [i \in 0..MaxNesting |-> Step(read, i)]
  <2> HIDE DEF Step
  <2>1. f = [i \in 0..MaxNesting |-> Step(f, i)]
    BY <1>6, <1>7
  <2> QED
    BY <2>1
<1>9. Read = read
  BY DEF Read, Of, ReadBy
<1> HIDE DEF read
<1>10. Read[n][segs] = Of(Read[n - 1], n, segs)
  <2>1. \A i \in 0..MaxNesting : read[i] = Step(read, i)
    <3> HIDE DEF Step
    <3> QED
      BY <1>8
  <2>2. read[n] = [s \in Scripts |-> Of(read[n - 1], n, s)]
    BY <2>1
  <2> QED
    BY <1>9, <2>2
<1> QED
  BY <1>10 DEF Of

LEMMA StartedIs ==
    ASSUME NEW n \in 0..MaxDepth, NEW segs \in Scripts
    PROVE  \A command : command \in Started[n][segs] <=>
              \E seg \in Commands(segs) :
                 \/ n > 0 /\ command \in Started[n - 1][seg.hidden]
                 \/ \E m \in RunPlaces(seg) :
                      \/ command = Run(seg.words, m, seg)
                      \/ n > 0 /\ RunsScript(seg.words[m]) /\ command \in Started[n - 1][seg.script]
<1> DEFINE All == UNION {{Run(seg.words, m, seg) : m \in RunPlaces(seg)} : seg \in Segs}
           D == [Scripts -> SUBSET All]
           Of(l, k, s) == UNION {(IF k > 0 THEN l[seg.hidden] ELSE {})
                                   \cup UNION {{Run(seg.words, m, seg)}
                                          \cup (IF k > 0 /\ RunsScript(seg.words[m]) THEN l[seg.script] ELSE {})
                                        : m \in RunPlaces(seg)} : seg \in Commands(s)}
           Step(f, i) == [s \in Scripts |-> Of(f[i - 1], i, s)]
           none == [s \in Scripts |-> Of([x \in {} |-> {}], 0, s)]
           G == [i \in 1..MaxDepth |-> [l \in D |-> [s \in Scripts |-> Of(l, i, s)]]]
<1>1. MaxDepth \in Nat
  BY PermissionsAssumption
<1>2. \A s \in Scripts : \A seg \in Commands(s) :
         /\ seg.script \in Scripts /\ seg.hidden \in Scripts
         /\ \A m \in RunPlaces(seg) : Run(seg.words, m, seg) \in All
  <2> SUFFICES ASSUME NEW s \in Scripts, NEW seg \in Commands(s)
               PROVE  /\ seg.script \in Scripts /\ seg.hidden \in Scripts
                      /\ \A m \in RunPlaces(seg) : Run(seg.words, m, seg) \in All
    OBVIOUS
  <2>1. seg \in Segs
    BY SegsOf
  <2>2. seg.script \in Scripts /\ seg.hidden \in Scripts
    BY <2>1 DEF Segs
  <2> HIDE DEF Run, RunPlaces
  <2> QED
    BY <2>1, <2>2
<1> HIDE DEF All
<1>3. none \in D
  BY <1>2
<1>4. \A i \in 1..MaxDepth : \A l \in D : [s \in Scripts |-> Of(l, i, s)] \in D
  BY <1>2
<1> HIDE DEF D, Of
<1>5. G \in [1..MaxDepth -> [D -> D]]
  BY <1>4
<1>6. PICK f \in [0..MaxDepth -> D] :
        /\ f[0] = none
        /\ \A i \in 1..MaxDepth : f[i] = G[i][f[i - 1]]
  <2> HIDE DEF none, G
  <2> QED
    BY <1>1, <1>3, <1>5, LoopRuns
<1>7. \A i \in 0..MaxDepth : f[i] = Step(f, i)
  <2> SUFFICES ASSUME NEW i \in 0..MaxDepth PROVE f[i] = Step(f, i)
    OBVIOUS
  <2>1. CASE i = 0
    <3>1. \A l, s : Of(l, 0, s) = Of([x \in {} |-> {}], 0, s)
      BY DEF Of
    <3> QED
      BY <1>6, <2>1, <3>1
  <2>2. CASE i # 0
    <3>1. i \in 1..MaxDepth /\ i - 1 \in 0..MaxDepth
      BY <1>1, <2>2
    <3>2. f[i - 1] \in D
      BY <1>6, <3>1
    <3>3. G[i][f[i - 1]] = [s \in Scripts |-> Of(f[i - 1], i, s)]
      BY <3>1, <3>2
    <3> QED
      BY <1>6, <3>1, <3>3
  <2> QED
    BY <2>1, <2>2
<1> DEFINE started == CHOOSE g : g = [i \in 0..MaxDepth |-> Step(g, i)]
<1>8. started = [i \in 0..MaxDepth |-> Step(started, i)]
  <2> HIDE DEF Step
  <2>1. f = [i \in 0..MaxDepth |-> Step(f, i)]
    BY <1>6, <1>7
  <2> QED
    BY <2>1
<1>9. Started = started
  BY DEF Started, Of, Run, RunPlaces
<1> HIDE DEF started
<1>10. Started[n][segs] = Of(Started[n - 1], n, segs)
  <2>1. \A i \in 0..MaxDepth : started[i] = Step(started, i)
    <3> HIDE DEF Step
    <3> QED
      BY <1>8
  <2>2. started[n] = [s \in Scripts |-> Of(started[n - 1], n, s)]
    BY <2>1
  <2> QED
    BY <1>9, <2>2
<1> QED
  BY <1>10 DEF Of

LEMMA PlainIs ==
    ASSUME NEW n \in 0..MaxNesting, NEW segs \in Scripts
    PROVE  Plain[n][segs] <=>
              \A seg \in Commands(segs) :
                 /\ seg.words[1] \notin Keywords
                 /\ seg.hidden = <<>>
                 /\ seg.script # <<>> => n > 0 /\ InlineScripts(seg) # {} /\ Plain[n - 1][seg.script]
<1> DEFINE D == [Scripts -> BOOLEAN]
           Of(l, k, s) == \A seg \in Commands(s) :
                             /\ seg.words[1] \notin Keywords
                             /\ seg.hidden = <<>>
                             /\ seg.script # <<>> => k > 0 /\ InlineScripts(seg) # {} /\ l[seg.script]
           Step(f, i) == [s \in Scripts |-> Of(f[i - 1], i, s)]
           none == [s \in Scripts |-> Of([x \in {} |-> {}], 0, s)]
           G == [i \in 1..MaxNesting |-> [l \in D |-> [s \in Scripts |-> Of(l, i, s)]]]
<1>1. MaxNesting \in Nat
  BY PermissionsAssumption
<1>2. \A l, k, s : Of(l, k, s) \in BOOLEAN
  OBVIOUS
<1>3. none \in D
  BY <1>2
<1>4. \A i \in 1..MaxNesting : \A l \in D : [s \in Scripts |-> Of(l, i, s)] \in D
  BY <1>2
<1> HIDE DEF D, Of
<1>5. G \in [1..MaxNesting -> [D -> D]]
  BY <1>4
<1>6. PICK f \in [0..MaxNesting -> D] :
        /\ f[0] = none
        /\ \A i \in 1..MaxNesting : f[i] = G[i][f[i - 1]]
  <2> HIDE DEF none, G
  <2> QED
    BY <1>1, <1>3, <1>5, LoopRuns
<1>7. \A i \in 0..MaxNesting : f[i] = Step(f, i)
  <2> SUFFICES ASSUME NEW i \in 0..MaxNesting PROVE f[i] = Step(f, i)
    OBVIOUS
  <2>1. CASE i = 0
    <3>1. \A l, s : Of(l, 0, s) = Of([x \in {} |-> {}], 0, s)
      BY DEF Of
    <3> QED
      BY <1>6, <2>1, <3>1
  <2>2. CASE i # 0
    <3>1. i \in 1..MaxNesting /\ i - 1 \in 0..MaxNesting
      BY <1>1, <2>2
    <3>2. f[i - 1] \in D
      BY <1>6, <3>1
    <3>3. G[i][f[i - 1]] = [s \in Scripts |-> Of(f[i - 1], i, s)]
      BY <3>1, <3>2
    <3> QED
      BY <1>6, <3>1, <3>3
  <2> QED
    BY <2>1, <2>2
<1> DEFINE plain == CHOOSE g : g = [i \in 0..MaxNesting |-> Step(g, i)]
<1>8. plain = [i \in 0..MaxNesting |-> Step(plain, i)]
  <2> HIDE DEF Step
  <2>1. f = [i \in 0..MaxNesting |-> Step(f, i)]
    BY <1>6, <1>7
  <2> QED
    BY <2>1
<1>9. Plain = plain
  BY DEF Plain, Of
<1> HIDE DEF plain
<1>10. Plain[n][segs] = Of(Plain[n - 1], n, segs)
  <2>1. \A i \in 0..MaxNesting : plain[i] = Step(plain, i)
    <3> HIDE DEF Step
    <3> QED
      BY <1>8
  <2>2. plain[n] = [s \in Scripts |-> Of(plain[n - 1], n, s)]
    BY <2>1
  <2> QED
    BY <1>9, <2>2
<1> QED
  BY <1>10 DEF Of

-----------------------------------------------------------------------------
(* Permissions: the Policy sees what the shell starts.                     *)

LEMMA RunIsRead ==
    ASSUME NEW seg \in Segs, NEW m \in RunPlaces(seg)
    PROVE  /\ Run(seg.words, m, seg) \in ReadBy(seg)
           /\ Candidates(seg.words) = {seg.words} => Run(seg.words, m, seg) = Subject(seg.words, seg)
<1> DEFINE command == <<Base(seg.words[m])>> \o SubSeq(seg.words, m + 1, Len(seg.words))
<1>1. seg.words \in Seq(STRING) /\ m \in DOMAIN seg.words /\ Reaches(seg.words, m)
  BY DEF Segs, RunPlaces
<1>2. /\ command \in Candidates(seg.words) /\ command[1] = Base(seg.words[m])
      /\ Candidates(seg.words) = {seg.words} => command = seg.words
  BY <1>1, ReachedIsWrapped
<1>3. Run(seg.words, m, seg) = Subject(command, seg)
  BY DEF Run
<1> HIDE DEF command
<1> QED
  BY <1>2, <1>3 DEF ReadBy

\* Of a line that the Policy can read, it sees every command.
LEMMA StartedIsRead ==
    \A d \in 0..MaxDepth : \A n \in 0..MaxNesting, segs \in Scripts :
       Plain[n][segs] => Started[d][segs] \subseteq Read[n][segs]
<1> DEFINE Within(d) == \A n \in 0..MaxNesting, segs \in Scripts :
                           Plain[n][segs] => Started[d][segs] \subseteq Read[n][segs]
           S == {d \in 0..MaxDepth : Within(d)}
<1>1. MaxDepth \in Nat /\ MaxNesting \in Nat
  BY PermissionsAssumption
<1>2. ASSUME NEW d \in 0..MaxDepth, d > 0 => Within(d - 1) PROVE Within(d)
  <2> SUFFICES ASSUME NEW n \in 0..MaxNesting, NEW segs \in Scripts, Plain[n][segs],
                      NEW command \in Started[d][segs]
               PROVE  command \in Read[n][segs]
    OBVIOUS
  <2>1. PICK seg \in Commands(segs) :
           \/ d > 0 /\ command \in Started[d - 1][seg.hidden]
           \/ \E m \in RunPlaces(seg) :
                \/ command = Run(seg.words, m, seg)
                \/ d > 0 /\ RunsScript(seg.words[m]) /\ command \in Started[d - 1][seg.script]
    <3> HIDE DEF Within
    <3> QED
      BY StartedIs
  <2>2. /\ seg \in Segs /\ seg.script \in Scripts /\ seg.hidden \in Scripts
        /\ seg.hidden = <<>>
        /\ seg.script # <<>> => n > 0 /\ InlineScripts(seg) # {} /\ Plain[n - 1][seg.script]
    <3>1. seg \in Segs
      BY SegsOf
    <3>2. seg.script \in Scripts /\ seg.hidden \in Scripts
      BY <3>1 DEF Segs
    <3> HIDE DEF Within
    <3> QED
      BY <3>1, <3>2, PlainIs
  <2>3. \A script \in Scripts : d > 0 /\ command \in Started[d - 1][script] => script # <<>>
    <3> SUFFICES ASSUME NEW script \in Scripts, d > 0, command \in Started[d - 1][script] PROVE script # <<>>
      OBVIOUS
    <3>1. d - 1 \in 0..MaxDepth
      BY <1>1
    <3>2. Commands(script) # {}
      <4> HIDE DEF Within
      <4> QED
        BY <3>1, StartedIs
    <3> QED
      BY <3>2, SegsOf
  <2>4. PICK m \in RunPlaces(seg) :
           \/ command = Run(seg.words, m, seg)
           \/ d > 0 /\ RunsScript(seg.words[m]) /\ command \in Started[d - 1][seg.script]
    BY <2>1, <2>2, <2>3
  <2>5. CASE command = Run(seg.words, m, seg)
    <3>1. command \in ReadBy(seg)
      BY <2>2, <2>5, RunIsRead
    <3> QED
      BY <3>1, ReadIs
  <2>6. CASE d > 0 /\ RunsScript(seg.words[m]) /\ command \in Started[d - 1][seg.script]
    <3>1. n > 0 /\ InlineScripts(seg) # {} /\ Plain[n - 1][seg.script] /\ n - 1 \in 0..MaxNesting
      BY <1>1, <2>2, <2>3, <2>6
    <3>2. command \in Read[n - 1][seg.script]
      BY <1>2, <2>2, <2>6, <3>1
    <3>3. seg.script \in InlineScripts(seg)
      BY <3>1 DEF InlineScripts
    <3> QED
      BY <3>1, <3>2, <3>3, ReadIs
  <2> QED
    BY <2>4, <2>5, <2>6
<1> HIDE DEF Within
<1>3. 0 \in S
  BY <1>1, <1>2
<1>4. ASSUME NEW d \in 0..MaxDepth, d \in S, d < MaxDepth PROVE d + 1 \in S
  <2>1. d + 1 \in 0..MaxDepth /\ d + 1 - 1 = d
    BY <1>1, <1>4
  <2> QED
    BY <1>2, <1>4, <2>1
<1>5. 0..MaxDepth \subseteq S
  <2> HIDE DEF S
  <2> QED
    BY <1>1, <1>3, <1>4, Climbs
<1> QED
  BY <1>5 DEF Within

LEMMA SeenIsRead ==
    ASSUME NEW line \in Lines, Seen(line)
    PROVE  Starts(line) \subseteq Subjects(line)
<1>1. line.segs \in Scripts /\ MaxDepth \in 0..MaxDepth /\ MaxNesting \in 0..MaxNesting
  BY PermissionsAssumption DEF Lines
<1> QED
  BY <1>1, StartedIsRead DEF Seen, Starts, Subjects

\* A line that is read for certain is its commands as they are written.
LEMMA CertainIsRead ==
    ASSUME NEW line \in Lines, Certain(line)
    PROVE  /\ Subjects(line) = {Subject(seg.words, seg) : seg \in Commands(line.segs)}
           /\ Subjects(line) # {} /\ Vetted(line) \subseteq Subjects(line)
<1>1. line.segs \in Scripts /\ 0 \in 0..MaxDepth /\ MaxNesting \in 0..MaxNesting
  BY PermissionsAssumption DEF Lines
<1>2. \A seg \in Commands(line.segs) :
         /\ seg \in Segs /\ Candidates(seg.words) = {seg.words}
         /\ InlineScripts(seg) = {} /\ WordsAsScripts(seg) = {}
  BY <1>1, SegsOf DEF Certain
<1>3. \A seg \in Commands(line.segs) : ReadBy(seg) = {Subject(seg.words, seg)}
  BY <1>2 DEF ReadBy
<1>4. Subjects(line) = {Subject(seg.words, seg) : seg \in Commands(line.segs)}
  <2>1. \A subject : subject \in Read[MaxNesting][line.segs] <=>
           \E seg \in Commands(line.segs) : subject \in ReadBy(seg)
    BY <1>1, <1>2, ReadIs
  <2> QED
    BY <1>3, <2>1 DEF Subjects
<1>5. Subjects(line) # {}
  BY <1>1, <1>4, SegsOf DEF Certain
<1>6. CASE Seen(line)
  BY <1>4, <1>5, <1>6, SeenIsRead DEF Vetted
<1>7. CASE ~Seen(line)
  <2> SUFFICES ASSUME NEW command \in Started[0][line.segs] PROVE command \in Subjects(line)
    BY <1>4, <1>5, <1>7 DEF Vetted
  <2>1. PICK seg \in Commands(line.segs) : \E m \in RunPlaces(seg) : command = Run(seg.words, m, seg)
    BY <1>1, StartedIs
  <2>2. command = Subject(seg.words, seg)
    BY <1>2, <2>1, RunIsRead
  <2> QED
    BY <1>4, <2>2
<1> QED
  BY <1>6, <1>7

-----------------------------------------------------------------------------
(* Permissions: what the Policy decides.                                   *)

LEMMA SubjectsThere ==
    ASSUME NEW line
    PROVE  SubjectsOrNone(line) # {} /\ (Subjects(line) # {} => SubjectsOrNone(line) = Subjects(line))
BY DEF SubjectsOrNone

LEMMA SeesWhatStarts ==
    ASSUME NEW line \in Lines, Seen(line), NEW some, ~AnyMatches(some, line)
    PROVE  ~StartsOneOf(some, line)
<1> SUFFICES ASSUME NEW command \in Starts(line), NEW rule \in some, Matches(rule, command) PROVE FALSE
  BY DEF StartsOneOf
<1>1. command \in SubjectsOrNone(line)
  BY SeenIsRead, SubjectsThere
<1> QED
  BY <1>1 DEF AnyMatches

\* The first rule of the agent that matches, else those of the user.
LEMMA CoveringIs ==
    ASSUME NEW policy \in Policies, NEW then, NEW subject
    PROVE  /\ \A rule \in Covering(policy.allow, then, subject) :
                 Matches(rule, subject) /\ rule \in Range(policy.allow) \cup then
           /\ \A one, two \in Covering(policy.allow, then, subject) : one = two \/ (one \in then /\ two \in then)
           /\ IF \E rule \in Range(policy.allow) : Matches(rule, subject)
              THEN /\ Covering(policy.allow, then, subject) = Covering(policy.allow, {}, subject)
                   /\ Covering(policy.allow, then, subject) # {}
              ELSE Covering(policy.allow, then, subject) = {rule \in then : Matches(rule, subject)}
<1> DEFINE first == policy.allow
           places == {i \in DOMAIN first : Matches(first[i], subject)}
<1>1. Len(first) \in Nat /\ DOMAIN first = 1..Len(first)
  <2>1. first \in Seq([words : Seq(STRING), more : BOOLEAN])
    BY PermissionsAssumption
  <2> HIDE DEF first
  <2> QED
    BY <2>1
<1> HIDE DEF first
<1>2. (\E rule \in Range(first) : Matches(rule, subject)) <=> places # {}
  BY DEF Range
<1>3. Covering(first, then, subject) =
         IF places # {} THEN {first[Min(places)]} ELSE {rule \in then : Matches(rule, subject)}
  BY DEF Covering
<1>4. Covering(first, {}, subject) = IF places # {} THEN {first[Min(places)]} ELSE {}
  BY DEF Covering
<1>5. CASE places # {}
  <2>1. places \in SUBSET Nat
    BY <1>1
  <2>2. \E k \in places : \A j \in places : k <= j
    <3> HIDE DEF places
    <3> QED
      BY <1>5, <2>1, LeastOf
  <2>3. Min(places) \in places
    <3> HIDE DEF places
    <3> QED
      BY <2>2 DEF Min
  <2>4. Matches(first[Min(places)], subject) /\ first[Min(places)] \in Range(first)
    BY <2>3 DEF Range
  <2> HIDE DEF places
  <2> QED
    BY <1>2, <1>3, <1>4, <1>5, <2>4 DEF first
<1>6. CASE places = {}
  <2> HIDE DEF places
  <2> QED
    BY <1>2, <1>3, <1>6 DEF first
<1> QED
  BY <1>5, <1>6

LEMMA CoveringOfUser ==
    ASSUME NEW then, NEW subject
    PROVE  Covering(<<>>, then, subject) = {rule \in then : Matches(rule, subject)}
<1>1. DOMAIN <<>> = {}
  OBVIOUS
<1> QED
  BY <1>1 DEF Covering

PermissionSorts == PermissionsTypeOK /\ \A rule \in allowed : Len(rule.words) = 1

\* A rule of the user names a command.
LEMMA UsersRule ==
    ASSUME PermissionSorts, NEW rule \in allowed
    PROVE  ~Whole(rule) /\ ~Matches(rule, <<>>)
<1>1. Len(rule.words) = 1
  BY DEF PermissionSorts
<1>2. Len(<<>>) = 0
  OBVIOUS
<1>3. ~Whole(rule)
  <2>1. Len(rule.words) # Len(<<>>)
    BY <1>1, <1>2
  <2>2. rule.words # <<>>
    BY <2>1, Zenon
  <2> QED
    BY <2>2 DEF Whole
<1> QED
  BY <1>1, <1>2, <1>3 DEF Matches

LEMMA CoversMore ==
    ASSUME rules \in Policies, NEW line, Covers(rules.allow, {}, line)
    PROVE  Covers(rules.allow, allowed, line)
<1> SUFFICES ASSUME NEW subject \in SubjectsOrNone(line)
             PROVE  \E rule \in Covering(rules.allow, allowed, subject) : Certain(line) \/ Whole(rule)
  BY DEF Covers
<1>1. PICK rule \in Covering(rules.allow, {}, subject) : Certain(line) \/ Whole(rule)
  BY DEF Covers
<1>2. rule \in Range(rules.allow) /\ Matches(rule, subject)
  BY <1>1, CoveringIs
<1>3. Covering(rules.allow, allowed, subject) = Covering(rules.allow, {}, subject)
  BY <1>2, CoveringIs
<1> QED
  BY <1>1, <1>3

\* Every command a covered line starts is one a rule names.
LEMMA CoveredIsNamed ==
    ASSUME rules \in Policies, NEW line \in Lines, Covers(rules.allow, allowed, line)
    PROVE  NamedBy(Range(rules.allow) \cup allowed, line)
<1>1. CASE Certain(line)
  <2>1. \A command \in Vetted(line) : command \in SubjectsOrNone(line)
    BY <1>1, CertainIsRead, SubjectsThere
  <2> QED
    BY <2>1, CoveringIs DEF Covers, NamedBy
<1>2. CASE ~Certain(line)
  <2>1. PICK subject \in SubjectsOrNone(line) : TRUE
    BY SubjectsThere
  <2>2. PICK rule \in Covering(rules.allow, allowed, subject) : Whole(rule)
    BY <1>2, <2>1 DEF Covers
  <2>3. rule \in Range(rules.allow) \cup allowed
    BY <2>2, CoveringIs
  <2> QED
    BY <2>2, <2>3 DEF Matches, NamedBy
<1> QED
  BY <1>1, <1>2

\* What the user's rules are said to cover was read for certain.
LEMMA ByUserIsCertain ==
    ASSUME PermissionSorts, NEW line \in Lines, Covers(rules.allow, allowed, line), ByUser(line)
    PROVE  \E seg \in Commands(line.segs), rule \in allowed : Matches(rule, Subject(seg.words, seg))
<1>1. PICK subject \in SubjectsOrNone(line) : Covering(rules.allow, allowed, subject) \cap allowed # {}
  BY DEF ByUser
<1>2. PICK rule \in allowed : rule \in Covering(rules.allow, allowed, subject)
  BY <1>1
<1>3. PICK other \in Covering(rules.allow, allowed, subject) : Certain(line) \/ Whole(other)
  BY DEF Covers
<1>4. rules \in Policies
  BY DEF PermissionSorts, PermissionsTypeOK
<1>5. other \in allowed /\ Matches(rule, subject)
  BY <1>2, <1>3, <1>4, CoveringIs
<1>6. Certain(line)
  BY <1>3, <1>5, UsersRule
<1>7. subject \in Subjects(line)
  BY <1>6, CertainIsRead, SubjectsThere
<1> QED
  BY <1>5, <1>6, <1>7, CertainIsRead

LEMMA DecidedAllow ==
    ASSUME PermissionSorts, NEW line \in Lines, Decide(line) = "allow"
    PROVE  /\ ~AnyMatches(rules.deny, line) /\ ~AnyMatches(rules.ask, line)
           /\ LET named == NamedBy(Range(rules.allow) \cup allowed, line)
              IN  IF isolated THEN auto \/ named
                  ELSE /\ named
                       /\ \E seg \in Commands(line.segs), rule \in allowed : Matches(rule, Subject(seg.words, seg))
<1>1. /\ ~AnyMatches(rules.deny, line) /\ ~AnyMatches(rules.ask, line)
      /\ IF Covers(rules.allow, {}, line) \/ Covers(rules.allow, allowed, line)
         THEN ByUser(line) \/ isolated ELSE auto /\ isolated
  BY DEF Decide, OnHost
<1>2. rules \in Policies
  BY DEF PermissionSorts, PermissionsTypeOK
<1>3. CASE Covers(rules.allow, {}, line) \/ Covers(rules.allow, allowed, line)
  <2>1. Covers(rules.allow, allowed, line)
    BY <1>2, <1>3, CoversMore
  <2> QED
    BY <1>1, <1>2, <1>3, <2>1, CoveredIsNamed, ByUserIsCertain
<1>4. CASE ~(Covers(rules.allow, {}, line) \/ Covers(rules.allow, allowed, line))
  BY <1>1, <1>4
<1> QED
  BY <1>3, <1>4

LEMMA DecidedAsk ==
    ASSUME PermissionSorts, NEW call, call.line \in Lines, Decide(call.line) = "ask"
    PROVE  AskedForAReason(call)
<1> DEFINE line == call.line
<1> SUFFICES ASSUME ~AnyMatches(rules.ask, line), Certain(line), isolated \/ ~Covers(rules.allow, {}, line),
                    \A subject \in Subjects(line) : \E rule \in allowed : Matches(rule, subject)
             PROVE  FALSE
  BY DEF AskedForAReason
<1>1. rules \in Policies
  BY DEF PermissionSorts, PermissionsTypeOK
<1>2. SubjectsOrNone(line) = Subjects(line)
  BY CertainIsRead, SubjectsThere
<1>3. Covers(rules.allow, allowed, line)
  <2>1. \A subject \in Subjects(line) : Covering(rules.allow, allowed, subject) # {}
    BY <1>1, CoveringIs
  <2> QED
    BY <1>2, <2>1 DEF Covers
<1>4. ~isolated /\ ~ByUser(line)
  BY <1>3 DEF Decide, OnHost
<1>5. PICK subject \in Subjects(line) : Covering(rules.allow, {}, subject) = {}
  BY <1>2, <1>4 DEF Covers
<1>6. ~\E rule \in Range(rules.allow) : Matches(rule, subject)
  BY <1>1, <1>5, CoveringIs
<1>7. Covering(rules.allow, allowed, subject) = {rule \in allowed : Matches(rule, subject)}
  BY <1>1, <1>6, CoveringIs
<1> QED
  BY <1>2, <1>4, <1>5, <1>7 DEF ByUser

\* What the user's rules cover was read for certain, command by command.
LEMMA UserCovers ==
    ASSUME PermissionSorts, NEW line \in Lines, CoveredByUser(line)
    PROVE  NamedBy(allowed, line)
<1>1. PICK subject \in SubjectsOrNone(line) : TRUE
  BY SubjectsThere
<1>2. \A s \in SubjectsOrNone(line) : \E rule \in allowed : Matches(rule, s) /\ (Certain(line) \/ Whole(rule))
  BY CoveringOfUser DEF CoveredByUser, Covers
<1>3. Certain(line)
  BY <1>1, <1>2, UsersRule
<1>4. \A command \in Vetted(line) : command \in SubjectsOrNone(line)
  BY <1>3, CertainIsRead, SubjectsThere
<1> QED
  BY <1>2, <1>4 DEF NamedBy

-----------------------------------------------------------------------------
(* Permissions: what stands of every call.                                 *)

CallRecords == [line : Lines, status : CallStatus, by : {"nobody", "rule", "person", "batch"}]
CallsMade == {calls[i] : i \in DOMAIN calls}

\* The user's rules name every command of the line.
Agreed(line) == NamedBy(allowed, line)

\* An approval tells who gave it, and what was run was allowed.
CallKept(call) ==
    /\ call.status = "approved" => call.by \in {"person", "batch"}
    /\ call.status = "approved" /\ call.by = "batch" => Agreed(call.line)
    /\ call.status = "ran" => RunsWhatIsAllowed(call)

\* Until the person approves a call, those asked for are still to be asked.
NoneApproved == \A call \in CallsMade : call.status # "approved"
StillAsked == NoneApproved => \A call \in CallsMade : call.status = "asked" => Decide(call.line) = "ask"

PermissionsInv == PermissionSorts /\ (\A call \in CallsMade : CallKept(call)) /\ StillAsked

\* Further rules of the user take nothing back.
LEMMA CallKeptStays ==
    ASSUME NEW call, CallKept(call), rules' = rules, isolated' = isolated, auto' = auto, allowed \subseteq allowed'
    PROVE  CallKept(call)'
<1>1. Agreed(call.line) => Agreed(call.line)'
  BY DEF Agreed, NamedBy
<1>2. RunsWhatIsAllowed(call) => RunsWhatIsAllowed(call)'
  BY DEF RunsWhatIsAllowed, NamedBy
<1> QED
  BY <1>1, <1>2 DEF CallKept

\* One call gets on.
LEMMA OneBecomes ==
    ASSUME PermissionSorts, NEW i \in DOMAIN calls, NEW status \in CallStatus,
           NEW by \in {"nobody", "rule", "person", "batch"}, Becomes(i, status, by)
    PROVE  /\ calls' \in Seq(CallRecords) /\ Len(calls') = Len(calls)
           /\ calls[i].line \in Lines /\ calls[i] \in CallsMade
           /\ Call(calls[i].line, status, by) \in CallsMade'
           /\ CallsMade' \subseteq CallsMade \cup {Call(calls[i].line, status, by)}
           /\ CallsMade \subseteq CallsMade' \cup {calls[i]}
<1> DEFINE new == Call(calls[i].line, status, by)
<1>1. calls \in Seq(CallRecords)
  BY DEF PermissionSorts, PermissionsTypeOK, CallRecords
<1>2. Len(calls) \in Nat /\ DOMAIN calls = 1..Len(calls) /\ calls[i] \in CallRecords
  BY <1>1
<1>3. calls[i].line \in Lines /\ new \in CallRecords
  BY <1>2 DEF CallRecords, Call
<1>4. calls' = [calls EXCEPT ![i] = new]
  BY <1>1 DEF Becomes
<1> HIDE DEF new
<1>5. calls' \in Seq(CallRecords) /\ Len(calls') = Len(calls) /\ DOMAIN calls' = DOMAIN calls
  BY <1>1, <1>3, <1>4
<1>6. \A j \in DOMAIN calls : calls'[j] = IF j = i THEN new ELSE calls[j]
  BY <1>1, <1>4
<1>7. new \in CallsMade' /\ CallsMade' \subseteq CallsMade \cup {new} /\ CallsMade \subseteq CallsMade' \cup {calls[i]}
  BY <1>5, <1>6 DEF CallsMade
<1>8. calls[i] \in CallsMade
  BY DEF CallsMade
<1> QED
  BY <1>3, <1>5, <1>7, <1>8 DEF new

LEMMA CallGetsOn ==
    ASSUME PermissionsInv, rules' = rules, isolated' = isolated, auto' = auto, batch' = batch,
           allowed \subseteq allowed', \A rule \in allowed' : rule.more /\ Len(rule.words) = 1,
           NEW i \in DOMAIN calls, NEW status \in CallStatus,
           NEW by \in {"nobody", "rule", "person", "batch"}, Becomes(i, status, by),
           \A call : call = Call(calls[i].line, status, by) => CallKept(call)',
           status = "approved" \/ allowed' = allowed,
           status = "asked" => Decide(calls[i].line) = "ask",
           calls[i].status # "approved" \/ \A call \in CallsMade : call.status # "asked"
    PROVE  PermissionsInv'
<1> DEFINE new == Call(calls[i].line, status, by)
<1>1. PermissionSorts /\ StillAsked /\ \A call \in CallsMade : CallKept(call)
  BY DEF PermissionsInv
<1>2. /\ calls' \in Seq(CallRecords) /\ Len(calls') = Len(calls)
      /\ new \in CallsMade' /\ CallsMade' \subseteq CallsMade \cup {new}
      /\ CallsMade \subseteq CallsMade' \cup {calls[i]}
  BY <1>1, OneBecomes
<1>3. new.line = calls[i].line /\ new.status = status /\ \A call : call = new => CallKept(call)'
  BY DEF Call
<1> HIDE DEF new
<1>4. PermissionSorts'
  <2>1. \A rule \in allowed' : rule.more /\ Len(rule.words) <= 1
    <3>1. \A n : n = 1 => n <= 1
      OBVIOUS
    <3> QED
      BY <3>1, Zenon
  <2>2. rules' \in Policies /\ isolated' \in BOOLEAN /\ auto' \in BOOLEAN /\ Len(calls') <= MaxCalls
        /\ batch' \in 0..MaxCalls
    BY <1>1, <1>2 DEF PermissionSorts, PermissionsTypeOK
  <2> QED
    BY <1>2, <2>1, <2>2 DEF PermissionSorts, PermissionsTypeOK, CallRecords
<1>5. \A call \in CallsMade' : CallKept(call)'
  <2> SUFFICES ASSUME NEW call \in CallsMade' PROVE CallKept(call)'
    OBVIOUS
  <2>1. CASE call = new
    BY <1>3, <2>1
  <2>2. CASE call # new
    <3>1. call \in CallsMade
      BY <1>2, <2>2
    <3>2. CallKept(call)
      BY <1>1, <3>1
    <3> QED
      BY <3>2, CallKeptStays
  <2> QED
    BY <2>1, <2>2
<1>6. StillAsked'
  <2> SUFFICES ASSUME NoneApproved', NEW call \in CallsMade', call.status = "asked"
               PROVE  Decide(call.line)' = "ask"
    BY DEF StillAsked
  <2>1. status # "approved"
    BY <1>2, <1>3 DEF NoneApproved
  <2>2. Decide(call.line)' = Decide(call.line)
    BY <2>1 DEF Decide, ByUser, OnHost
  <2>3. CASE call = new
    BY <1>3, <2>2, <2>3
  <2>4. CASE call # new
    <3>1. call \in CallsMade
      BY <1>2, <2>4
    <3>2. calls[i].status # "approved"
      BY <3>1
    <3>3. NoneApproved
      BY <1>2, <3>2 DEF NoneApproved
    <3> QED
      BY <1>1, <2>2, <3>1, <3>3 DEF StillAsked
  <2> QED
    BY <2>3, <2>4
<1> QED
  BY <1>4, <1>5, <1>6 DEF PermissionsInv

-----------------------------------------------------------------------------
(* Permissions: each step keeps it.                                        *)

\* The parts of a step of one call that the actions share.
LEMMA CallStands ==
    ASSUME PermissionsInv, NEW i \in DOMAIN calls
    PROVE  /\ PermissionSorts /\ calls[i].line \in Lines /\ calls[i].status \in CallStatus
           /\ calls[i].by \in {"nobody", "rule", "person", "batch"}
           /\ calls[i] \in CallsMade /\ CallKept(calls[i])
           /\ \A rule \in allowed : rule.more /\ Len(rule.words) = 1
<1>1. PermissionSorts /\ \A call \in CallsMade : CallKept(call)
  BY DEF PermissionsInv
<1>2. calls \in Seq(CallRecords) /\ \A rule \in allowed : rule.more /\ Len(rule.words) = 1
  BY <1>1 DEF PermissionSorts, PermissionsTypeOK, CallRecords
<1>3. calls[i] \in CallRecords
  BY <1>2
<1>4. calls[i] \in CallsMade
  BY DEF CallsMade
<1> QED
  BY <1>1, <1>2, <1>3, <1>4 DEF CallRecords

\* A call that neither runs nor is approved by an earlier "always".
LEMMA QuietIsKept ==
    ASSUME NEW line, NEW status, NEW by,
           status \in {"new", "asked", "denied"} \/ (status = "approved" /\ by = "person")
    PROVE  \A call : call = Call(line, status, by) => CallKept(call)'
BY DEF CallKept, Call

\* What a dispatched call runs was decided to be allowed.
LEMMA AllowedIsKept ==
    ASSUME PermissionSorts, NEW line \in Lines, Decide(line) = "allow", UNCHANGED <<rules, isolated, auto, allowed>>
    PROVE  \A call : call = Call(line, "ran", "rule") => CallKept(call)'
<1> SUFFICES ASSUME NEW call, call = Call(line, "ran", "rule") PROVE CallKept(call)'
  OBVIOUS
<1>1. call.line = line /\ call.status = "ran" /\ call.by = "rule"
  BY DEF Call
<1>2. /\ Seen(line) => ~StartsOneOf(rules.deny, line)
      /\ Seen(line) => ~StartsOneOf(rules.ask, line)
  BY DecidedAllow, SeesWhatStarts
<1>3. RunsWhatIsAllowed(call)
  BY <1>1, <1>2, DecidedAllow DEF RunsWhatIsAllowed
<1>4. CallKept(call)
  BY <1>1, <1>3 DEF CallKept
<1> QED
  BY <1>4, CallKeptStays

\* An approval stands, but for what a deny rule names.
LEMMA ApprovedIsKept ==
    ASSUME PermissionSorts, NEW line \in Lines, Decide(line) # "deny", UNCHANGED <<rules, isolated, auto, allowed>>,
           NEW by, by \in {"person", "batch"}, by = "batch" => Agreed(line)
    PROVE  \A call : call = Call(line, "ran", by) => CallKept(call)'
<1> SUFFICES ASSUME NEW call, call = Call(line, "ran", by) PROVE CallKept(call)'
  OBVIOUS
<1>1. call.line = line /\ call.status = "ran" /\ call.by = by
  BY DEF Call
<1>2. ~AnyMatches(rules.deny, line)
  BY DEF Decide
<1>3. Seen(line) => ~StartsOneOf(rules.deny, line)
  BY <1>2, SeesWhatStarts
<1>4. RunsWhatIsAllowed(call)
  BY <1>1, <1>3 DEF RunsWhatIsAllowed, Agreed
<1>5. CallKept(call)
  BY <1>1, <1>4 DEF CallKept
<1> QED
  BY <1>5, CallKeptStays

LEMMA DispatchKeeps ==
    ASSUME PermissionsInv, NEW i \in 1..MaxCalls, Dispatch(i)
    PROVE  PermissionsInv'
<1> DEFINE line == calls[i].line
<1>1. i \in DOMAIN calls /\ calls[i].status = "new" /\ UNCHANGED <<rules, isolated, auto, allowed, batch>>
  BY DEF Dispatch, Is
<1>2. /\ PermissionSorts /\ line \in Lines /\ calls[i].status # "approved"
      /\ \A rule \in allowed' : rule.more /\ Len(rule.words) = 1
  BY <1>1, CallStands
<1>3. \/ Decide(line) = "deny" /\ Becomes(i, "denied", "rule")
      \/ Decide(line) = "allow" /\ Becomes(i, "ran", "rule")
      \/ Decide(line) = "ask" /\ Becomes(i, "asked", "nobody")
  <2>1. Decide(line) \in {"deny", "allow", "ask"}
    BY DEF Decide, OnHost
  <2> QED
    BY <2>1 DEF Dispatch
<1>4. CASE Decide(line) = "deny" /\ Becomes(i, "denied", "rule")
  <2>1. \A call : call = Call(line, "denied", "rule") => CallKept(call)'
    BY QuietIsKept
  <2> QED
    BY <1>1, <1>2, <1>4, <2>1, CallGetsOn DEF CallStatus
<1>5. CASE Decide(line) = "allow" /\ Becomes(i, "ran", "rule")
  <2>1. \A call : call = Call(line, "ran", "rule") => CallKept(call)'
    BY <1>1, <1>2, <1>5, AllowedIsKept
  <2> QED
    BY <1>1, <1>2, <1>5, <2>1, CallGetsOn DEF CallStatus
<1>6. CASE Decide(line) = "ask" /\ Becomes(i, "asked", "nobody")
  <2>1. \A call : call = Call(line, "asked", "nobody") => CallKept(call)'
    BY QuietIsKept
  <2> QED
    BY <1>1, <1>2, <1>6, <2>1, CallGetsOn DEF CallStatus
<1> QED
  BY <1>3, <1>4, <1>5, <1>6

LEMMA ApprovedInBatchKeeps ==
    ASSUME PermissionsInv, NEW i \in 1..MaxCalls, ApprovedInBatch(i)
    PROVE  PermissionsInv'
<1> DEFINE line == calls[i].line
<1>1. /\ i \in DOMAIN calls /\ calls[i].status = "asked" /\ UNCHANGED <<rules, isolated, auto, allowed, batch>>
      /\ CoveredByUser(line) /\ Becomes(i, "approved", "batch")
  BY DEF ApprovedInBatch, Asking, Is
<1>2. /\ PermissionSorts /\ line \in Lines /\ calls[i].status # "approved"
      /\ \A rule \in allowed' : rule.more /\ Len(rule.words) = 1
  BY <1>1, CallStands
<1>3. \A call : call = Call(line, "approved", "batch") => CallKept(call)'
  <2> SUFFICES ASSUME NEW call, call = Call(line, "approved", "batch") PROVE CallKept(call)'
    OBVIOUS
  <2>1. call.line = line /\ call.status = "approved" /\ call.by = "batch"
    BY DEF Call
  <2>2. Agreed(call.line)
    BY <1>1, <1>2, <2>1, UserCovers DEF Agreed
  <2>3. CallKept(call)
    BY <2>1, <2>2 DEF CallKept
  <2> QED
    BY <1>1, <2>3, CallKeptStays
<1> QED
  BY <1>1, <1>2, <1>3, CallGetsOn DEF CallStatus

LEMMA AllowOnceKeeps ==
    ASSUME PermissionsInv, NEW i \in 1..MaxCalls, AllowOnce(i)
    PROVE  PermissionsInv'
<1>1. /\ i \in DOMAIN calls /\ calls[i].status = "asked" /\ UNCHANGED <<rules, isolated, auto, allowed, batch>>
      /\ Becomes(i, "approved", "person")
  BY DEF AllowOnce, Asking, Is
<1>2. calls[i].status # "approved" /\ \A rule \in allowed' : rule.more /\ Len(rule.words) = 1
  BY <1>1, CallStands
<1>3. \A call : call = Call(calls[i].line, "approved", "person") => CallKept(call)'
  BY QuietIsKept
<1> QED
  BY <1>1, <1>2, <1>3, CallGetsOn DEF CallStatus

LEMMA AlwaysAllowKeeps ==
    ASSUME PermissionsInv, NEW i \in 1..MaxCalls, AlwaysAllow(i)
    PROVE  PermissionsInv'
<1>1. /\ i \in DOMAIN calls /\ calls[i].status = "asked" /\ UNCHANGED <<rules, isolated, auto, batch>>
      /\ Becomes(i, "approved", "person") /\ allowed' = allowed \cup RulesFor(calls[i].line)
  BY DEF AlwaysAllow, Asking, Is
<1>2. calls[i].status # "approved" /\ \A rule \in allowed : rule.more /\ Len(rule.words) = 1
  BY <1>1, CallStands
<1>3. \A rule \in RulesFor(calls[i].line) : rule.more /\ Len(rule.words) = 1
  BY DEF RulesFor, Rule
<1>4. \A call : call = Call(calls[i].line, "approved", "person") => CallKept(call)'
  BY QuietIsKept
<1> QED
  BY <1>1, <1>2, <1>3, <1>4, CallGetsOn DEF CallStatus

LEMMA DenyCallKeeps ==
    ASSUME PermissionsInv, NEW i \in 1..MaxCalls, DenyCall(i)
    PROVE  PermissionsInv'
<1>1. /\ i \in DOMAIN calls /\ calls[i].status = "asked" /\ UNCHANGED <<rules, isolated, auto, allowed, batch>>
      /\ Becomes(i, "denied", "person")
  BY DEF DenyCall, Asking, Is
<1>2. calls[i].status # "approved" /\ \A rule \in allowed' : rule.more /\ Len(rule.words) = 1
  BY <1>1, CallStands
<1>3. \A call : call = Call(calls[i].line, "denied", "person") => CallKept(call)'
  BY QuietIsKept
<1> QED
  BY <1>1, <1>2, <1>3, CallGetsOn DEF CallStatus

LEMMA ResumeKeeps ==
    ASSUME PermissionsInv, NEW i \in 1..MaxCalls, Resume(i)
    PROVE  PermissionsInv'
<1> DEFINE line == calls[i].line
           by == calls[i].by
<1>1. /\ i \in DOMAIN calls /\ calls[i].status = "approved" /\ UNCHANGED <<rules, isolated, auto, allowed, batch>>
      /\ \/ Decide(line) = "deny" /\ Becomes(i, "denied", by)
         \/ Decide(line) # "deny" /\ Becomes(i, "ran", by)
      /\ \A j \in DOMAIN calls : calls[j].status # "asked"
  BY DEF Resume, Is
<1>2. /\ PermissionSorts /\ line \in Lines /\ by \in {"nobody", "rule", "person", "batch"} /\ CallKept(calls[i])
      /\ \A rule \in allowed' : rule.more /\ Len(rule.words) = 1
  BY <1>1, CallStands
<1>3. \A call \in CallsMade : call.status # "asked"
  BY <1>1 DEF CallsMade
<1>4. by \in {"person", "batch"} /\ (by = "batch" => Agreed(line))
  BY <1>1, <1>2 DEF CallKept
<1>5. CASE Decide(line) = "deny" /\ Becomes(i, "denied", by)
  <2>1. \A call : call = Call(line, "denied", by) => CallKept(call)'
    BY QuietIsKept
  <2> QED
    BY <1>1, <1>2, <1>3, <1>5, <2>1, CallGetsOn DEF CallStatus
<1>6. CASE Decide(line) # "deny" /\ Becomes(i, "ran", by)
  <2>1. \A call : call = Call(line, "ran", by) => CallKept(call)'
    BY <1>1, <1>2, <1>4, <1>6, ApprovedIsKept
  <2> QED
    BY <1>1, <1>2, <1>3, <1>6, <2>1, CallGetsOn DEF CallStatus
<1> QED
  BY <1>1, <1>5, <1>6

LEMMA ProposeKeeps ==
    ASSUME PermissionsInv, NEW line \in Lines, Propose(line)
    PROVE  PermissionsInv'
<1> DEFINE new == Call(line, "new", "nobody")
<1>1. /\ PermissionSorts /\ StillAsked /\ (\A call \in CallsMade : CallKept(call))
      /\ Len(calls) < MaxCalls /\ calls' = Append(calls, new) /\ UNCHANGED <<rules, isolated, auto, allowed, batch>>
  BY DEF PermissionsInv, Propose
<1>2. calls \in Seq(CallRecords) /\ MaxCalls \in Nat
  BY <1>1, PermissionsAssumption DEF PermissionSorts, PermissionsTypeOK, CallRecords
<1>3. new \in CallRecords /\ new.status = "new"
  BY DEF CallRecords, CallStatus, Call
<1> HIDE DEF new
<1>4. /\ calls' \in Seq(CallRecords) /\ Len(calls') <= MaxCalls
      /\ CallsMade' = CallsMade \cup {new}
  <2>1. /\ calls' \in Seq(CallRecords) /\ Len(calls') = Len(calls) + 1 /\ Len(calls) \in Nat
        /\ DOMAIN calls = 1..Len(calls) /\ DOMAIN calls' = 1..Len(calls) + 1
        /\ calls'[Len(calls) + 1] = new /\ \A j \in DOMAIN calls : calls'[j] = calls[j]
    BY <1>1, <1>2, <1>3
  <2>2. DOMAIN calls' = DOMAIN calls \cup {Len(calls) + 1}
    BY <2>1
  <2>3. Len(calls') <= MaxCalls
    BY <1>1, <1>2, <2>1
  <2> QED
    BY <2>1, <2>2, <2>3 DEF CallsMade
<1>5. PermissionSorts'
  BY <1>1, <1>4 DEF PermissionSorts, PermissionsTypeOK, CallRecords
<1>6. \A call \in CallsMade' : CallKept(call)'
  <2>1. \A call : call = new => CallKept(call)'
    BY QuietIsKept DEF new
  <2>2. \A call \in CallsMade : CallKept(call)'
    BY <1>1, CallKeptStays
  <2> QED
    BY <1>4, <2>1, <2>2
<1>7. StillAsked'
  <2>1. \A command : Decide(command)' = Decide(command)
    BY <1>1 DEF Decide, ByUser, OnHost
  <2> QED
    BY <1>1, <1>3, <1>4, <2>1 DEF StillAsked, NoneApproved
<1> QED
  BY <1>5, <1>6, <1>7 DEF PermissionsInv

LEMMA RestKeeps ==
    ASSUME PermissionsInv, NextReply \/ UNCHANGED permissionVars
    PROVE  PermissionsInv'
<1>1. UNCHANGED <<rules, isolated, auto, allowed, calls>> /\ batch' \in {batch, Len(calls)}
  BY DEF NextReply, permissionVars
<1>2. PermissionSorts /\ StillAsked /\ \A call \in CallsMade : CallKept(call)
  BY DEF PermissionsInv
<1>3. PermissionSorts'
  <2>1. Len(calls) \in 0..MaxCalls
    <3>1. calls \in Seq(CallRecords) /\ Len(calls) <= MaxCalls /\ MaxCalls \in Nat
      BY <1>2, PermissionsAssumption DEF PermissionSorts, PermissionsTypeOK, CallRecords
    <3> QED
      BY <3>1
  <2> QED
    BY <1>1, <1>2, <2>1 DEF PermissionSorts, PermissionsTypeOK
<1>4. \A call \in CallsMade' : CallKept(call)'
  <2>1. CallsMade' = CallsMade
    BY <1>1 DEF CallsMade
  <2> QED
    BY <1>1, <1>2, <2>1, CallKeptStays
<1>5. StillAsked'
  <2>1. \A command : Decide(command)' = Decide(command)
    BY <1>1 DEF Decide, ByUser, OnHost
  <2> QED
    BY <1>1, <1>2, <2>1 DEF StillAsked, NoneApproved, CallsMade
<1> QED
  BY <1>3, <1>4, <1>5 DEF PermissionsInv

LEMMA PermissionsInvHolds == PermissionsSpec => []PermissionsInv
<1>1. PermissionsInit => PermissionsInv
  <2> SUFFICES ASSUME PermissionsInit PROVE PermissionsInv
    OBVIOUS
  <2>1. rules \in Policies /\ isolated \in BOOLEAN /\ auto \in BOOLEAN /\ allowed = {} /\ calls = <<>> /\ batch = 0
    BY DEF PermissionsInit
  <2>2. Len(<<>>) = 0 /\ <<>> \in Seq(CallRecords) /\ DOMAIN <<>> = {}
    OBVIOUS
  <2>3. PermissionSorts
    BY <2>1, <2>2, PermissionsAssumption DEF PermissionSorts, PermissionsTypeOK, CallRecords
  <2>4. CallsMade = {}
    BY <2>1, <2>2 DEF CallsMade
  <2> QED
    BY <2>3, <2>4 DEF PermissionsInv, StillAsked
<1>2. ASSUME PermissionsInv, [PermissionsNext]_permissionVars PROVE PermissionsInv'
  BY <1>2, ProposeKeeps, DispatchKeeps, ApprovedInBatchKeeps, AllowOnceKeeps, AlwaysAllowKeeps,
     DenyCallKeeps, ResumeKeeps, RestKeeps DEF PermissionsNext
<1> QED
  BY <1>1, <1>2, PTL DEF PermissionsSpec

\* The calls, the verdicts and the rules of the user keep their types: a rule
\* that "always allow" adds is one word and whatever follows it.
THEOREM PermissionsTypeCorrect == PermissionsSpec => []PermissionsTypeOK
<1>1. PermissionsInv => PermissionsTypeOK
  BY DEF PermissionsInv, PermissionSorts
<1> QED
  BY <1>1, PermissionsInvHolds, PTL

\* What runs unasked is named by rules, command by command; of a line the Policy
\* sees all of, what runs is named by no deny rule, and by no ask rule unless the
\* person was asked or had allowed it always in the same batch, whatever
\* wrappers and scripts it stands behind; and nobody is asked again for what was
\* agreed to: of every set of scripts, rules, options and words
\* (core/policy.py, tools/bash/_permissions.py).
THEOREM PermissionsAreKept == PermissionsSpec => []PermissionsKept
<1>1. PermissionsInv => PermissionsKept
  <2> SUFFICES ASSUME PermissionsInv, NEW i \in DOMAIN calls
               PROVE  /\ calls[i].status = "ran" => RunsWhatIsAllowed(calls[i])
                      /\ calls[i].status = "asked" /\ (\A j \in DOMAIN calls : calls[j].status # "approved")
                           => AskedForAReason(calls[i])
    BY DEF PermissionsKept
  <2>1. PermissionSorts /\ calls[i].line \in Lines /\ calls[i] \in CallsMade /\ CallKept(calls[i])
    BY CallStands
  <2>2. calls[i].status = "ran" => RunsWhatIsAllowed(calls[i])
    BY <2>1 DEF CallKept
  <2>3. ASSUME calls[i].status = "asked", \A j \in DOMAIN calls : calls[j].status # "approved"
        PROVE  AskedForAReason(calls[i])
    <3>1. NoneApproved
      BY <2>3 DEF NoneApproved, CallsMade
    <3>2. Decide(calls[i].line) = "ask"
      BY <2>1, <2>3, <3>1 DEF PermissionsInv, StillAsked
    <3> QED
      BY <2>1, <3>2, DecidedAsk
  <2> QED
    BY <2>2, <2>3
<1> QED
  BY <1>1, PermissionsInvHolds, PTL

=============================================================================
