------------------------------ MODULE Sandboxes ------------------------------
(***************************************************************************)
(* The sandboxes of one user's conversations and the copies of the user's  *)
(* files in them: who opens and closes a sandbox, and which edits survive. *)
(*                                                                         *)
(*   core/environment/manager.py           EnvironmentManager              *)
(*   core/executor/sync.py                 sync_workspace, plan            *)
(*   capabilities/executor/{docker,modal,local}                            *)
(*                                                                         *)
(* The files are one file: the sync decides each on its own.  A content is *)
(* the number of the edit that wrote it, edits that delete are in gone.    *)
(* One step is the code between two awaits; a retried call is one step.    *)
(***************************************************************************)
EXTENDS Naturals, FiniteSets

CONSTANTS
    Conversations,  \* of one user
    Providers,      \* executors: subset of {"docker", "modal", "local"}
    MaxEdits        \* bound: edits of the file, on the host or in a sandbox

ASSUME SandboxesAssumption ==
    Providers \subseteq {"docker", "modal", "local"} /\ MaxEdits \in Nat

VARIABLES
    provider,   \* the executor of this manager
    closed,     \* _closed
    result,     \* of close(): "none", "closing", "closed", "raised"
    toClose,    \* entries close() has still to visit
    queued,     \* leases that wait for the user's lock
    held,       \* who has the user's lock and what for
    place,      \* where the holder is
    syncWindow,     \* the listings of a sync that has not moved files yet
    session,    \* entries with a session
    alive,      \* those whose sandbox still runs
    timers,     \* entries with an idle timer
    failed,     \* cleanup_errors
    host,       \* the file on the host
    box,        \* the file in each sandbox
    base,       \* the hash each session remembers of its last sync
    edits,      \* edits so far
    gone,       \* edits that deleted the file
    replaced,   \* contents somebody edited over
    excused     \* contents that went with their sandbox or in a window

managerVars == <<closed, result, toClose, queued>>
lockVars    == <<held, place, syncWindow>>
openVars   == <<session, alive, timers, failed>>
fileVars    == <<host, box, base>>
editVars    == <<edits, gone, replaced>>
sandboxVars == <<provider, managerVars, lockVars, openVars, fileVars, editVars, excused>>

-----------------------------------------------------------------------------
Nobody == [of |-> "nobody", for |-> "nothing"]

\* again: a lease that has replaced a lost sandbox.
Purposes == {"lease", "again", "cancelled", "timer", "close"}
Stages   == {"free", "connect", "recover", "in", "leased", "out", "disconnect"}
NoWindow == [open |-> FALSE, host |-> 0, box |-> 0]
Contents == 0..MaxEdits

SandboxTypeOK ==
    /\ provider \in Providers /\ closed \in BOOLEAN
    /\ result \in {"none", "closing", "closed", "raised"}
    /\ toClose \subseteq Conversations /\ queued \subseteq Conversations
    /\ held \in [of : Conversations, for : Purposes] \cup {Nobody}
    /\ place \in Stages
    /\ syncWindow \in [open : BOOLEAN, host : Contents, box : Contents]
    /\ alive \subseteq session /\ session \subseteq Conversations
    /\ timers \subseteq Conversations /\ failed \subseteq Conversations
    /\ host \in Contents /\ box \in [Conversations -> Contents]
    /\ base \in [Conversations -> Contents]
    /\ edits \in Contents /\ gone \subseteq Contents
    /\ replaced \subseteq Contents /\ excused \subseteq Contents

SandboxInit ==
    /\ provider \in Providers /\ closed = FALSE /\ result = "none"
    /\ toClose = {} /\ queued = {}
    /\ held = Nobody /\ place = "free" /\ syncWindow = NoWindow
    /\ session = {} /\ alive = {} /\ timers = {} /\ failed = {}
    /\ host = 0 /\ box = [c \in Conversations |-> 0]
    /\ base = [c \in Conversations |-> 0]
    /\ edits = 0 /\ gone = {0} /\ replaced = {} /\ excused = {}

Copies == provider # "local"

\* host_hashes and the sandbox's listing: the hash of a content, 0 for no file.
Hash(n) == IF n \in gone THEN 0 ELSE n

-----------------------------------------------------------------------------
(* sync.plan for one file.                                                 *)

Carries(incoming, current, before) == incoming # before /\ incoming # current
\* Slip: what changed on this side is carried, whatever the other side did.
ConflictsNever(incoming, current, before) == FALSE

Conflicts(incoming, current, before) ==
    Carries(incoming, current, before) /\ current # before

\* The baseline moves on for a file that is now the same on both sides.
Baseline(incoming, current, before) ==
    IF Carries(incoming, current, before) \/ incoming = current THEN incoming ELSE before

-----------------------------------------------------------------------------
(* The lock and how a holder leaves it.                                    *)

Frees == held' = Nobody /\ place' = "free" /\ syncWindow' = NoWindow
Enters(s) == place' = s /\ syncWindow' = NoWindow /\ UNCHANGED held

\* EnvironmentManager.acquire up to the lock: the first look at _closed.
Ask(c) ==
    /\ ~closed /\ c \notin queued /\ held.of # c
    /\ queued' = queued \cup {c}
    /\ UNCHANGED <<provider, closed, result, toClose, lockVars, openVars, fileVars,
                   editVars, excused>>

\* Slip: _closed is looked at only before the wait for the lock.
AcquireLate(c) ==
    /\ c \in queued /\ held = Nobody
    /\ queued' = queued \ {c}
    /\ held' = [of |-> c, for |-> "lease"] /\ timers' = timers \ {c}
    /\ place' = IF c \in session THEN "in" ELSE "connect"
    /\ syncWindow' = NoWindow
    /\ UNCHANGED <<provider, closed, result, toClose, session, alive, failed,
                   fileVars, editVars, excused>>

\* The lock is taken, the idle timer stopped, and _closed looked at again.
Acquire(c) ==
    /\ c \in queued /\ held = Nobody
    /\ queued' = queued \ {c}
    /\ IF closed THEN UNCHANGED <<lockVars, timers>>
       ELSE /\ held' = [of |-> c, for |-> "lease"] /\ timers' = timers \ {c}
            /\ place' = CASE c \notin session -> "connect"
                          [] c \in failed     -> "recover"
                          [] OTHER            -> "in"
            /\ syncWindow' = NoWindow
    /\ UNCHANGED <<provider, closed, result, toClose, session, alive, failed,
                   fileVars, editVars, excused>>

\* executor.connect: a new sandbox has no files and no baseline.
Connect ==
    /\ place = "connect"
    /\ session' = session \cup {held.of} /\ alive' = alive \cup {held.of}
    /\ box' = [box EXCEPT ![held.of] = 0] /\ base' = [base EXCEPT ![held.of] = 0]
    /\ Enters(IF Copies THEN "in" ELSE "leased")
    /\ UNCHANGED <<provider, managerVars, timers, failed, host, editVars, excused>>

\* The provider cleans what it created, the retries are used up.
CannotConnect ==
    /\ place = "connect" /\ Frees
    /\ UNCHANGED <<provider, managerVars, openVars, fileVars, editVars, excused>>

-----------------------------------------------------------------------------
(* executor.sync, from the listings to the baseline.                       *)

Syncing == place \in {"recover", "in", "out", "disconnect"}

\* _disconnect: the sandbox is removed, or its removal fails.
Cleaned ==
    /\ Frees
    /\ \/ session' = session \ {held.of} /\ alive' = alive \ {held.of}
          /\ failed' = failed \ {held.of}
       \/ failed' = failed \cup {held.of} /\ UNCHANGED <<session, alive>>
    /\ UNCHANGED timers

\* A sync that worked, by what it was for (acquire, release, _disconnect).
Synced ==
    \/ /\ place = "recover" /\ Enters("in")
       /\ failed' = failed \ {held.of} /\ UNCHANGED <<session, alive, timers>>
    \/ place = "in" /\ Enters("leased") /\ UNCHANGED openVars
    \/ /\ place = "out" /\ Frees
       /\ failed' = failed \ {held.of} /\ timers' = timers \cup {held.of}
       /\ UNCHANGED <<session, alive>>
    \/ place = "disconnect" /\ Cleaned

\* A sync that raised: acquire gives up, a release or a close notes the error.
SyncRaised ==
    /\ Frees
    /\ failed' = IF place \in {"out", "disconnect"} THEN failed \cup {held.of} ELSE failed
    /\ UNCHANGED <<session, alive, timers>>

List ==
    /\ Syncing /\ Copies /\ held.of \in alive /\ ~syncWindow.open
    /\ syncWindow' = [open |-> TRUE, host |-> host, box |-> box[held.of]]
    /\ UNCHANGED <<provider, managerVars, held, place, openVars, fileVars, editVars, excused>>

\* to_environment: what is packed is the file of now, the decision is the
\* listing's.  An edit of the sandbox since the listing is overwritten.
MoveIn(known) ==
    LET incoming == Hash(syncWindow.host)   current == Hash(syncWindow.box)
        before == base[held.of]
    IN  /\ ~Conflicts(incoming, current, before)
        /\ IF Carries(incoming, current, before)
           THEN /\ incoming # 0 => Hash(host) # 0
                /\ box' = [box EXCEPT ![held.of] = IF incoming = 0 THEN syncWindow.host ELSE host]
                /\ excused' = excused \cup ({box[held.of]} \ {syncWindow.box})
           ELSE UNCHANGED <<box, excused>>
        /\ base' = IF known THEN [base EXCEPT ![held.of] = Baseline(incoming, current, before)]
                            ELSE base
        /\ UNCHANGED host

\* to_workspace: the other way round.
MoveOut(known) ==
    LET incoming == Hash(syncWindow.box)    current == Hash(syncWindow.host)
        before == base[held.of]
    IN  /\ ~Conflicts(incoming, current, before)
        /\ IF Carries(incoming, current, before)
           THEN /\ incoming # 0 => Hash(box[held.of]) # 0
                /\ host' = IF incoming = 0 THEN syncWindow.box ELSE box[held.of]
                /\ excused' = excused \cup ({host} \ {syncWindow.host})
           ELSE UNCHANGED <<host, excused>>
        /\ base' = IF known THEN [base EXCEPT ![held.of] = Baseline(incoming, current, before)]
                            ELSE base
        /\ UNCHANGED box

Moves(known) == IF place = "in" THEN MoveIn(known) ELSE MoveOut(known)

Move ==
    /\ syncWindow.open /\ held.of \in alive
    /\ Moves(TRUE) /\ Synced
    /\ UNCHANGED <<provider, managerVars, editVars>>

\* The files have moved, the answer is lost: the baseline stays behind.
MoveUnanswered ==
    /\ syncWindow.open /\ held.of \in alive
    /\ Moves(FALSE) /\ SyncRaised
    /\ UNCHANGED <<provider, managerVars, editVars>>

\* A conflict, or the provider can not be reached before anything moved.
SyncFails ==
    /\ Syncing /\ Copies /\ held.of \in alive
    /\ SyncRaised
    /\ UNCHANGED <<provider, managerVars, fileVars, editVars, excused>>

\* LocalExecutor works on the host's folder: sync does nothing.
NothingToSync ==
    /\ Syncing /\ ~Copies
    /\ Synced
    /\ UNCHANGED <<provider, managerVars, fileVars, editVars, excused>>

\* _drop: the session is forgotten, with the sync it still owed.
Dropped == session' = session \ {held.of} /\ alive' = alive \ {held.of}
           /\ failed' = failed \ {held.of} /\ UNCHANGED timers

\* SandboxLost: a lease connects once more, _disconnect has nothing to do.
FindLost ==
    /\ Syncing /\ Copies /\ held.of \in session \ alive
    /\ \/ /\ place \in {"recover", "in"} /\ held.for = "lease"
          /\ Dropped /\ place' = "connect" /\ syncWindow' = NoWindow
          /\ held' = [held EXCEPT !.for = "again"]
       \/ /\ place \in {"recover", "in"} /\ held.for # "lease"
          /\ Frees /\ UNCHANGED openVars
       \/ place = "out" /\ Frees /\ Dropped
       \/ place = "disconnect" /\ Cleaned
    /\ UNCHANGED <<provider, managerVars, fileVars, editVars, excused>>

-----------------------------------------------------------------------------
(* What happens in a lease, on the host and to a sandbox.                  *)

\* The next edit, which knows the content n it replaces.
EditOver(n, deletes) ==
    /\ edits < MaxEdits /\ edits' = edits + 1
    /\ gone' = IF deletes THEN gone \cup {edits + 1} ELSE gone
    /\ replaced' = replaced \cup {n}

\* executor.execute: a command writes or deletes the file.
Command(deletes) ==
    /\ place = "leased" /\ held.of \in alive
    /\ IF Copies THEN /\ EditOver(box[held.of], deletes)
                      /\ box' = [box EXCEPT ![held.of] = edits + 1] /\ UNCHANGED host
       ELSE EditOver(host, deletes) /\ host' = edits + 1 /\ UNCHANGED box
    /\ UNCHANGED <<provider, managerVars, lockVars, openVars, base, excused>>

\* DockerExecutor: a command not even timeout could stop takes its container
\* along; the session goes on with an empty one.
ContainerReplaced ==
    /\ place = "leased" /\ provider = "docker" /\ held.of \in alive
    /\ excused' = excused \cup {box[held.of]}
    /\ box' = [box EXCEPT ![held.of] = 0] /\ base' = [base EXCEPT ![held.of] = 0]
    /\ UNCHANGED <<provider, managerVars, lockVars, openVars, host, editVars>>

\* The lease ends well, is cancelled (the sandbox is closed), or its command
\* found the sandbox gone.
LeaseEnds ==
    /\ place = "leased" /\ Enters("out")
    /\ UNCHANGED <<provider, managerVars, openVars, fileVars, editVars, excused>>

LeaseCancelled ==
    /\ place = "leased" /\ place' = "disconnect" /\ syncWindow' = NoWindow
    /\ held' = [held EXCEPT !.for = "cancelled"]
    /\ UNCHANGED <<provider, managerVars, openVars, fileVars, editVars, excused>>

LeaseLost ==
    /\ place = "leased" /\ held.of \notin alive
    /\ Frees /\ Dropped
    /\ UNCHANGED <<provider, managerVars, fileVars, editVars, excused>>

\* The user, or a file tool of another conversation, edits the host's file.
HostEdit(deletes) ==
    /\ EditOver(host, deletes) /\ host' = edits + 1
    /\ UNCHANGED <<provider, managerVars, lockVars, openVars, box, base, excused>>

\* A sandbox reaches its lifetime or is killed.
SandboxDies(c) ==
    /\ Copies /\ c \in alive
    /\ alive' = alive \ {c} /\ excused' = excused \cup {box[c]}
    /\ UNCHANGED <<provider, managerVars, lockVars, session, timers, failed,
                   fileVars, editVars>>

-----------------------------------------------------------------------------
\* _expire: the timer takes the locks and disconnects.
Expire(c) ==
    /\ c \in timers /\ held = Nobody
    /\ timers' = timers \ {c}
    /\ held' = [of |-> c, for |-> "timer"] /\ place' = "disconnect" /\ syncWindow' = NoWindow
    /\ UNCHANGED <<provider, managerVars, session, alive, failed, fileVars, editVars, excused>>

\* close(), and a later attempt after one that raised.
Close ==
    /\ result \in {"none", "raised"}
    /\ closed' = TRUE /\ result' = "closing" /\ toClose' = Conversations
    /\ timers' = {}
    /\ UNCHANGED <<provider, queued, lockVars, session, alive, failed, fileVars,
                   editVars, excused>>

CloseEntry(c) ==
    /\ result = "closing" /\ c \in toClose /\ held = Nobody
    /\ toClose' = toClose \ {c} /\ timers' = timers \ {c}
    /\ IF c \in session
       THEN held' = [of |-> c, for |-> "close"] /\ place' = "disconnect"
            /\ syncWindow' = NoWindow /\ UNCHANGED failed
       ELSE failed' = failed \ {c} /\ UNCHANGED lockVars
    /\ UNCHANGED <<provider, closed, result, queued, session, alive, fileVars, editVars, excused>>

CloseReturns ==
    /\ result = "closing" /\ toClose = {} /\ held.for # "close"
    /\ result' = IF failed = {} THEN "closed" ELSE "raised"
    /\ UNCHANGED <<provider, closed, toClose, queued, lockVars, openVars, fileVars,
                   editVars, excused>>

SandboxNext ==
    \/ \E c \in Conversations :
          Ask(c) \/ Acquire(c) \/ SandboxDies(c) \/ Expire(c) \/ CloseEntry(c)
    \/ Connect \/ CannotConnect \/ List \/ Move \/ MoveUnanswered \/ SyncFails
    \/ NothingToSync \/ FindLost \/ ContainerReplaced \/ LeaseEnds
    \/ LeaseCancelled \/ LeaseLost \/ Close \/ CloseReturns
    \/ \E deletes \in BOOLEAN : Command(deletes) \/ HostEdit(deletes)

SandboxSpec == SandboxInit /\ [][SandboxNext]_sandboxVars

-----------------------------------------------------------------------------
\* A content nobody edited over is still on the host or in an open sandbox,
\* unless its sandbox died or it was written between a listing and its move:
\* "Never silently overwrite concurrent edits or discard unsynced changes."
NoSilentLoss ==
    \A n \in (1..edits) \ (gone \cup replaced \cup excused) :
        host = n \/ \E c \in session : box[c] = n

\* When close() is over without an error no sandbox is open; when it raised,
\* what is still open is what it reported.
CloseReleases ==
    /\ result = "closed" => session = {}
    /\ result = "raised" /\ held = Nobody => session \subseteq failed
=============================================================================
