------------------------------ MODULE AgentRuns ------------------------------
(***************************************************************************)
(* The runs of one Agent and its close(): who may run when, and what is    *)
(* still open when close() is over.                                        *)
(*                                                                         *)
(*   agents/agent.py                run_stream_events, _tracking_run,      *)
(*                                  _drive, _ensure_mcp, close             *)
(*   base/clients.py                attach, detach                         *)
(*   core/environment/manager.py    acquire, _expire, close                *)
(*   mcp/client_manager.py          connect, disconnect, _request          *)
(*                                                                         *)
(* A run takes the lock of its session, is counted as active, and releases *)
(* both when it ends.  One step is the code between two awaits.  The tool  *)
(* calls of a run are reduced to one at a time, ToolRounds has the rest;   *)
(* a call may be left behind by a run that failed (its gather gave it up). *)
(***************************************************************************)
EXTENDS Naturals, FiniteSets

CONSTANTS
    Runs,           \* the calls of run_stream_events
    Sessions,       \* (user_id, session_id) pairs
    SessionOf,      \* the session of each run
    Closers,        \* the calls of Agent.close
    Others,         \* agents that share the model client
    MaxCalls,       \* max_loop_iterations: the calls one run can make
    MaxDrops,       \* bound: MCP connections that drop
    Faults          \* what the environment may do, a subset of AllFaults

\* orphans         a run fails while a sibling of the failed call goes on
\* sync_fails      a sandbox can not be synced when the manager closes
\* cancel_upload   a run is cancelled while its files are uploaded
AllFaults == {"orphans", "sync_fails", "cancel_upload"}

ASSUME ConstantsAssumption ==
    /\ IsFiniteSet(Runs)
    /\ SessionOf \in [Runs -> Sessions]
    /\ Others \in Nat /\ MaxCalls \in Nat /\ MaxDrops \in Nat
    /\ Faults \subseteq AllFaults

VARIABLES
    pc,         \* where each run is
    left,       \* calls it can still make
    call,       \* where its tool call is, also after the run
    sending,    \* runs whose upload is going on
    ahead,      \* who was waiting for the same lock when a waiter came
    active,     \* _active_runs
    closed,     \* _closed
    closer,     \* where each close() is
    first,      \* its "first = not self._closed"
    shut,       \* EnvironmentManager._closed
    env,        \* sessions with an open sandbox
    mcp,        \* the worker of the MCP connection
    drops,      \* drops so far
    users,      \* _users of the client
    others,     \* agents that share the client and are not closed
    client      \* the client has its connections

runVars   == <<pc, left, call, sending>>
agentVars == <<ahead, active, closed>>
closeVars == <<closer, first>>
poolVars  == <<shut, env, mcp, drops>>
clientVars == <<users, others, client>>
vars == <<runVars, agentVars, closeVars, poolVars, clientVars>>

-----------------------------------------------------------------------------
\* refused: the agent was closed.  left: cancelled while it waited.
\* interrupted: cancelled during its upload, which goes on (asyncio.shield).
RunStates == {"new", "queued", "connecting", "working", "uploading",
              "ended", "refused", "left", "interrupted"}

\* dispatched: before the tool.  leased: in a sandbox.  asking: at the MCP
\* server.  lost: its connection closed.
CallStates == {"none", "dispatched", "leased", "asking", "lost"}

\* The awaits of close() in their order.
CloseStates == {"new", "waiting", "mcp", "manager", "leases", "rest", "returned", "raised"}

Inside == {"connecting", "working", "uploading"}     \* holds lock and count

Holds(r)   == pc[r] \in Inside
Session(r) == SessionOf[r]
Free(s)    == \A r \in Runs : Session(r) = s => ~Holds(r)
Leased(s)  == \E r \in Runs : Session(r) = s /\ call[r] = "leased"

TypeOK ==
    /\ pc \in [Runs -> RunStates] /\ left \in [Runs -> 0..MaxCalls]
    /\ call \in [Runs -> CallStates] /\ sending \in SUBSET Runs
    /\ ahead \in [Runs -> SUBSET Runs]
    /\ active \in Nat /\ closed \in BOOLEAN
    /\ closer \in [Closers -> CloseStates] /\ first \in [Closers -> BOOLEAN]
    /\ shut \in BOOLEAN /\ env \in SUBSET Sessions
    /\ mcp \in {"down", "up", "dropped"} /\ drops \in 0..MaxDrops
    /\ users \in Nat /\ others \in 0..Others /\ client \in BOOLEAN

Init ==
    /\ pc = [r \in Runs |-> "new"] /\ left = [r \in Runs |-> MaxCalls]
    /\ call = [r \in Runs |-> "none"] /\ sending = {}
    /\ ahead = [r \in Runs |-> {}] /\ active = 0 /\ closed = FALSE
    /\ closer = [k \in Closers |-> "new"] /\ first = [k \in Closers |-> FALSE]
    /\ shut = FALSE /\ env = {} /\ mcp = "down" /\ drops = 0
    /\ others = Others /\ users = Others + 1 /\ client = TRUE

-----------------------------------------------------------------------------
(* run_stream_events up to _drive.                                         *)

\* The session's lock is taken and the run is counted.
Admit(r) == pc' = [pc EXCEPT ![r] = "connecting"] /\ active' = active + 1

Refuse(r) == pc' = [pc EXCEPT ![r] = "refused"] /\ UNCHANGED active

Waiters(s) == {r \in Runs : Session(r) = s /\ pc[r] = "queued"}

\* Slip: the lock is a new one whenever nobody waits for the old one.
NobodyWaits(s) == Waiters(s) = {}

\* asyncio.Lock: taken at once when it is free and nobody waits for it.
LockFree(s) == Free(s) /\ Waiters(s) = {}

Start(r) ==
    LET s == Session(r) IN
    /\ pc[r] = "new"
    /\ \/ closed /\ Refuse(r) /\ UNCHANGED ahead
       \/ ~closed /\ LockFree(s) /\ Admit(r) /\ UNCHANGED ahead
       \/ /\ ~closed /\ ~LockFree(s)
          /\ pc' = [pc EXCEPT ![r] = "queued"]
          /\ ahead' = [ahead EXCEPT ![r] = Waiters(s)]
          /\ UNCHANGED active
    /\ UNCHANGED <<left, call, sending, closed, closeVars, poolVars, clientVars>>

AlwaysOpen == TRUE      \* Slip: the second look at _closed is gone.

StillOpen == ~closed

\* The first waiter gets the lock once it is free: the agent may be closed by
\* now.
TakeLock(r) ==
    /\ pc[r] = "queued" /\ Free(Session(r))
    /\ \A q \in ahead[r] : pc[q] # "queued"
    /\ IF StillOpen THEN Admit(r) ELSE Refuse(r)
    /\ ahead' = [ahead EXCEPT ![r] = {}]
    /\ UNCHANGED <<left, call, sending, closed, closeVars, poolVars, clientVars>>

\* A waiter is cancelled.
GiveUp(r) ==
    /\ pc[r] = "queued"
    /\ pc' = [pc EXCEPT ![r] = "left"]
    /\ ahead' = [ahead EXCEPT ![r] = {}]
    /\ UNCHANGED <<left, call, sending, active, closed, closeVars, poolVars, clientVars>>

-----------------------------------------------------------------------------
(* The body of a run.                                                      *)

\* MCPClientManager.connect: "down" when the server is unavailable.
Connected == IF mcp = "up" THEN {"up"} ELSE {"up", "down"}

\* _ensure_mcp, then the download of the user's files.
EnsureMcp(r) ==
    /\ pc[r] = "connecting"
    /\ pc' = [pc EXCEPT ![r] = "working"]
    /\ mcp' \in Connected
    /\ UNCHANGED <<left, call, sending, agentVars, closeVars, shut, env, drops, clientVars>>

\* The loop dispatches a tool call.
CallTool(r) ==
    /\ pc[r] = "working" /\ call[r] = "none" /\ left[r] > 0
    /\ call' = [call EXCEPT ![r] = "dispatched"]
    /\ left' = [left EXCEPT ![r] = @ - 1]
    /\ UNCHANGED <<pc, sending, agentVars, closeVars, poolVars, clientVars>>

\* Slip: only the caller's first look at _closed is left in acquire.
NeverShut == FALSE

Shut == shut

\* acquire: one lease per session, none once the manager is closed (the call
\* is answered with the error).
Acquire(r) ==
    LET s == Session(r) IN
    /\ call[r] = "dispatched"
    /\ \/ /\ Shut
          /\ call' = [call EXCEPT ![r] = "none"]
          /\ UNCHANGED env
       \/ /\ ~Shut /\ ~Leased(s)
          /\ call' = [call EXCEPT ![r] = "leased"]
          /\ env' = env \cup {s}
    /\ UNCHANGED <<pc, left, sending, agentVars, closeVars, shut, mcp, drops, clientVars>>

\* The lease ends: its sandbox stays open for the next, or is gone (cancelled
\* or lost).
Release(r) ==
    /\ call[r] = "leased"
    /\ call' = [call EXCEPT ![r] = "none"]
    /\ env' \in {env, env \ {Session(r)}}
    /\ UNCHANGED <<pc, left, sending, agentVars, closeVars, shut, mcp, drops, clientVars>>

\* _expire: an idle sandbox is let go.
Expire(s) ==
    /\ s \in env /\ ~Leased(s)
    /\ env' = env \ {s}
    /\ UNCHANGED <<runVars, agentVars, closeVars, shut, mcp, drops, clientVars>>

\* MCPClientManager._request: connects unless the connection is up, then asks.
Request(r) ==
    /\ mcp' \in Connected
    /\ call' = [call EXCEPT ![r] = IF mcp' = "up" THEN "asking" ELSE "none"]

Ask(r) ==
    /\ call[r] = "dispatched"
    /\ Request(r)
    /\ UNCHANGED <<pc, left, sending, agentVars, closeVars, shut, env, drops, clientVars>>

\* The connection closed under the request: a read-only one is sent again.
AskAgain(r) ==
    /\ call[r] = "lost"
    /\ Request(r)
    /\ UNCHANGED <<pc, left, sending, agentVars, closeVars, shut, env, drops, clientVars>>

\* The call returns: from the server, lost for good, or a tool of the host.
Answer(r) ==
    /\ call[r] \in {"dispatched", "asking", "lost"}
    /\ call' = [call EXCEPT ![r] = "none"]
    /\ UNCHANGED <<pc, left, sending, agentVars, closeVars, poolVars, clientVars>>

\* The requests under way when the worker of the connection ends.
Interrupted == [r \in Runs |-> IF call[r] = "asking" THEN "lost" ELSE call[r]]

Drop ==
    /\ mcp = "up" /\ drops < MaxDrops
    /\ mcp' = "dropped" /\ drops' = drops + 1
    /\ call' = Interrupted
    /\ UNCHANGED <<pc, left, sending, agentVars, closeVars, shut, env, clientVars>>

-----------------------------------------------------------------------------
(* The end of a run.                                                       *)

\* Slip: a run that fails is not counted out.
LeaveCounted == UNCHANGED <<active, closer>>

\* _tracking_run counts the run out; the last one wakes the waiting close()s.
Leave ==
    /\ active' = active - 1
    /\ closer' = [k \in Closers |-> IF active' = 0 /\ closer[k] = "waiting" THEN "mcp"
                                                                        ELSE closer[k]]

\* A required server is not there, the download fails, or the run is cancelled
\* before its first request.
NeverBegins(r) ==
    /\ pc[r] = "connecting"
    /\ pc' = [pc EXCEPT ![r] = "ended"]
    /\ mcp' \in Connected
    /\ Leave
    /\ UNCHANGED <<left, call, sending, ahead, closed, first, shut, env, drops, clientVars>>

\* Slip: the upload is started and not waited for.
LoopEndsAtOnce(r) ==
    /\ pc[r] = "working" /\ call[r] = "none"
    /\ pc' = [pc EXCEPT ![r] = "ended"]
    /\ sending' = sending \cup {r}
    /\ Leave
    /\ UNCHANGED <<left, call, ahead, closed, first, poolVars, clientVars>>

\* The loop is over, or it failed and gave up a call that goes on: the files
\* are uploaded either way.
LoopEnds(r) ==
    /\ pc[r] = "working"
    /\ call[r] = "none" \/ "orphans" \in Faults
    /\ pc' = [pc EXCEPT ![r] = "uploading"]
    /\ sending' = sending \cup {r}
    /\ UNCHANGED <<left, call, agentVars, closeVars, poolVars, clientVars>>

\* A cancelled run: its call is cancelled too, its sandbox disconnected.
CancelLoop(r) ==
    /\ pc[r] = "working" /\ call[r] # "none"
    /\ pc' = [pc EXCEPT ![r] = "uploading"]
    /\ sending' = sending \cup {r}
    /\ call' = [call EXCEPT ![r] = "none"]
    /\ env' \in IF call[r] = "leased" THEN {env, env \ {Session(r)}} ELSE {env}
    /\ UNCHANGED <<left, agentVars, closeVars, shut, mcp, drops, clientVars>>

\* The upload is over: the run that waits for it ends.
Uploaded(r) ==
    /\ r \in sending
    /\ sending' = sending \ {r}
    /\ IF Holds(r) THEN pc' = [pc EXCEPT ![r] = "ended"] /\ Leave
                   ELSE UNCHANGED <<pc, active, closer>>
    /\ UNCHANGED <<left, call, ahead, closed, first, poolVars, clientVars>>

\* A cancellation during the upload ends the run; the upload goes on.
InterruptUpload(r) ==
    /\ pc[r] = "uploading" /\ "cancel_upload" \in Faults
    /\ pc' = [pc EXCEPT ![r] = "interrupted"]
    /\ Leave
    /\ UNCHANGED <<left, call, sending, ahead, closed, first, poolVars, clientVars>>

-----------------------------------------------------------------------------
(* close(), which several callers may be in.                               *)

Close(k) ==
    /\ closer[k] = "new"
    /\ first' = [first EXCEPT ![k] = ~closed]
    /\ closed' = TRUE
    /\ closer' = [closer EXCEPT ![k] = IF active = 0 THEN "mcp" ELSE "waiting"]
    /\ UNCHANGED <<runVars, ahead, active, poolVars, clientVars>>

\* disconnect_all waits for the worker; one that dropped raises what it died of.
CloseMcp(k) ==
    /\ closer[k] = "mcp"
    /\ closer' = [closer EXCEPT ![k] = IF mcp = "dropped" THEN "raised" ELSE "manager"]
    /\ mcp' = "down"
    /\ call' = Interrupted
    /\ UNCHANGED <<pc, left, sending, agentVars, first, shut, env, drops, clientVars>>

ShutManager(k) ==
    /\ closer[k] = "manager"
    /\ shut' = TRUE
    /\ closer' = [closer EXCEPT ![k] = "leases"]
    /\ UNCHANGED <<runVars, agentVars, first, env, mcp, drops, clientVars>>

\* Every lease is over and every sandbox disconnected, save those it can not
\* sync: they stay for another attempt.
CloseEnvironments(k) ==
    /\ closer[k] = "leases"
    /\ \A r \in Runs : call[r] # "leased"
    /\ \E kept \in SUBSET env :
         /\ kept # {} => "sync_fails" \in Faults
         /\ env' = kept
         /\ closer' = [closer EXCEPT ![k] = IF kept = {} THEN "rest" ELSE "raised"]
    /\ UNCHANGED <<runVars, agentVars, first, shut, mcp, drops, clientVars>>

\* The client loses a user; the last one closes it.
Detach ==
    /\ users' = IF users > 0 THEN users - 1 ELSE 0
    /\ client' = (client /\ users' > 0)

EveryClose(k) == TRUE       \* Slip: every close() detaches.

Detaches(k) == first[k]

\* workspace.disconnect, then the client.
CloseRest(k) ==
    /\ closer[k] = "rest"
    /\ closer' = [closer EXCEPT ![k] = "returned"]
    /\ IF Detaches(k) THEN Detach ELSE UNCHANGED <<users, client>>
    /\ UNCHANGED <<runVars, agentVars, first, poolVars, others>>

\* Another agent that uses the client is closed.
OtherCloses ==
    /\ others > 0 /\ others' = others - 1
    /\ Detach
    /\ UNCHANGED <<runVars, agentVars, closeVars, poolVars>>

-----------------------------------------------------------------------------
Advance(r) == \/ EnsureMcp(r) \/ Acquire(r) \/ Release(r) \/ Ask(r) \/ AskAgain(r)
              \/ Answer(r) \/ NeverBegins(r) \/ LoopEnds(r) \/ Uploaded(r)

Closing(k) == CloseMcp(k) \/ ShutManager(k) \/ CloseEnvironments(k) \/ CloseRest(k)

Next ==
    \/ \E r \in Runs : \/ Start(r) \/ TakeLock(r) \/ GiveUp(r) \/ CallTool(r) \/ CancelLoop(r)
                       \/ InterruptUpload(r) \/ Advance(r)
    \/ \E s \in Sessions : Expire(s)
    \/ \E k \in Closers : Close(k) \/ Closing(k)
    \/ Drop \/ OtherCloses

Spec == Init /\ [][Next]_vars

-----------------------------------------------------------------------------
(* Safety.                                                                 *)

\* Messages of one session wait for each other: two runs never work on the
\* same conversation at once (run_stream_events, the session's lock).
OneRunPerSession ==
    \A q, r \in Runs : q # r /\ Holds(q) /\ Holds(r) => Session(q) # Session(r)

Releasing(k) == closer[k] \in {"mcp", "manager", "leases", "rest", "returned", "raised"}

\* A close() that waits is never forgotten: a run that is counted will wake it
\* (_tracking_run, close).
WaitsForSomeone == (\E k \in Closers : closer[k] = "waiting") => \E r \in Runs : Holds(r)

\* What close() releases is in use by no run, and none begins later, also not
\* one that was let in when it asked and waited for its session (close,
\* run_stream_events).
ReleaseWhenIdle == (\E k \in Closers : Releasing(k)) => \A r \in Runs : ~Holds(r)

\* After a close() that returned no sandbox is open, though calls left behind
\* by a failed run may still ask for one (EnvironmentManager.acquire, close).
SandboxesReleased ==
    (\E k \in Closers : closer[k] = "returned") =>
        env = {} /\ \A r \in Runs : call[r] # "leased"

\* A client other agents still use keeps its connections, however often this
\* agent is closed (attach, detach, "first" in close).
ClientKeptForOthers == others > 0 => client

\* The workspace is disconnected under no upload, save those whose run was
\* cancelled while it uploaded (_drive, the shield).
UploadsSettled ==
    (\E k \in Closers : closer[k] = "returned") =>
        \A r \in sending : pc[r] = "interrupted"

\* close() releases the model client when no other agent uses it (agent.py,
\* the docstring of close).
ClientReleased ==
    (\E k \in Closers : closer[k] = "returned") /\ others = 0
        /\ (\A k \in Closers : closer[k] \in {"new", "returned", "raised"}) => ~client

=============================================================================
