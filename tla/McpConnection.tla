---------------------------- MODULE McpConnection ----------------------------
(***************************************************************************)
(* The connection to one MCP server: a worker task owns it and answers the  *)
(* requests of one queue, callers share an attempt to connect, a dropped    *)
(* connection is replaced, and disconnect ends the worker with a mark in    *)
(* the same queue, which outlives every worker.                            *)
(*                                                                         *)
(*   mcp/client_manager.py   connect, _open, _serve, disconnect, _request    *)
(*   mcp/tool.py             MCPTool, MCPResourceTool                        *)
(***************************************************************************)
EXTENDS Naturals, Sequences, FiniteSets, SequencesExt

CONSTANTS
    ServerCallers,   \* tool calls, one request each
    Readers,         \* those of read-only tools and of resources
    MaxWorkers,      \* bound: workers ever started
    MaxSends,        \* attempts of the retry policy
    MaxDisconnects   \* bound: calls of disconnect

\* What disconnect puts into the queue: no request.
EndMark == "end"

ASSUME McpAssumption ==
    /\ EndMark \notin ServerCallers
    /\ Readers \subseteq ServerCallers
    /\ MaxWorkers \in Nat /\ MaxSends \in Nat \ {0} /\ MaxDisconnects \in Nat

VARIABLES
    worker,        \* life of every worker started so far
    current,       \* server.worker, 0 for None
    connecting,    \* worker of the attempt in progress, 0 for None
    refusing,      \* failed_at is less than retry_after_seconds ago
    requests,      \* the queue: callers and end marks
    asker,         \* where every caller is
    sends,         \* tries of each caller
    flight,        \* calls a worker runs: pairs of worker and caller
    ran,           \* times a caller's request reached the server
    unheard,       \* requests put when their worker was already gone
    disconnecting, \* "no", "cancelling" or "awaiting"
    awaited,       \* the worker disconnect waits for
    disconnects    \* calls of disconnect

mcpVars == <<worker, current, connecting, refusing, requests, asker, sends, flight, ran,
             unheard, disconnecting, awaited, disconnects>>

-----------------------------------------------------------------------------
Workers == DOMAIN worker
Alive(g) == g # 0 /\ worker[g] \in {"opening", "serving", "closing", "failing"}
Working(g) == g # 0 /\ worker[g] = "serving"

McpTypeOK ==
    /\ \A g \in Workers : worker[g] \in {"opening", "serving", "closing", "failing", "ended", "died"}
    /\ current \in {0} \cup Workers /\ connecting \in {0} \cup Workers /\ refusing \in BOOLEAN
    /\ asker \in [ServerCallers -> {"idle", "connecting", "connected", "waiting", "answered", "failed",
                                    "lost", "unavailable", "cancelled"}]
    /\ sends \in [ServerCallers -> 0..MaxSends]
    /\ flight \subseteq Workers \X ServerCallers /\ unheard \subseteq ServerCallers
    /\ disconnecting \in {"no", "cancelling", "awaiting"} /\ awaited \in {0} \cup Workers
    /\ disconnects \in 0..MaxDisconnects

McpInit ==
    /\ worker = <<>> /\ current = 0 /\ connecting = 0 /\ refusing = FALSE /\ requests = <<>>
    /\ asker = [c \in ServerCallers |-> "idle"] /\ sends = [c \in ServerCallers |-> 0]
    /\ flight = {} /\ ran = [c \in ServerCallers |-> 0] /\ unheard = {}
    /\ disconnecting = "no" /\ awaited = 0 /\ disconnects = 0

Become(callers, state) == [c \in ServerCallers |-> IF c \in callers THEN state ELSE asker[c]]

-----------------------------------------------------------------------------
(* Requests.                                                               *)

\* Slip: whatever was lost is sent again.
AlwaysAgain(c) == sends[c] < MaxSends

\* A request that was lost may have run: only what reads is sent again.
MayRepeat(c) == c \in Readers /\ sends[c] < MaxSends

\* Callers whose request was lost: they fail, or start over.
Lost(callers) ==
    [c \in ServerCallers |-> IF c \notin callers THEN asker[c] ELSE IF MayRepeat(c) THEN "idle" ELSE "lost"]

\* With a worker: into its queue.  Otherwise the attempt in progress is
\* shared, a new one begins, or the server is known to be unavailable.
AskServer(c) ==
    /\ asker[c] = "idle" /\ sends[c] < MaxSends
    /\ sends' = [sends EXCEPT ![c] = @ + 1]
    /\ \/ /\ Alive(current)
          /\ requests' = Append(requests, c) /\ asker' = Become({c}, "waiting")
          /\ UNCHANGED <<worker, connecting, current>>
       \/ /\ ~Alive(current) /\ connecting # 0
          /\ asker' = Become({c}, "connecting") /\ UNCHANGED <<worker, connecting, requests, current>>
       \/ /\ ~Alive(current) /\ connecting = 0 /\ ~refusing /\ Len(worker) < MaxWorkers
          /\ worker' = Append(worker, "opening") /\ connecting' = Len(worker) + 1 /\ current' = 0
          /\ asker' = Become({c}, "connecting") /\ UNCHANGED requests
       \/ /\ ~Alive(current) /\ connecting = 0 /\ refusing
          /\ asker' = Become({c}, "unavailable") /\ UNCHANGED <<worker, connecting, requests, current>>
    /\ UNCHANGED <<refusing, flight, ran, unheard, disconnecting, awaited, disconnects>>

\* The caller that waited for the connection goes on.  It does not look at the
\* worker again, which may be gone by now.
PutRequest(c) ==
    /\ asker[c] = "connected"
    /\ requests' = Append(requests, c) /\ asker' = Become({c}, "waiting")
    /\ unheard' = IF Alive(current) THEN unheard ELSE unheard \cup {c}
    /\ UNCHANGED <<worker, current, connecting, refusing, sends, flight, ran, disconnecting, awaited,
                   disconnects>>

\* The caller's run is cancelled, or its time is up.
CallerLeaves(c) ==
    /\ asker[c] \in {"connecting", "connected", "waiting"} /\ asker' = Become({c}, "cancelled")
    /\ UNCHANGED <<worker, current, connecting, refusing, requests, sends, flight, ran, unheard,
                   disconnecting, awaited, disconnects>>

\* Slip: what is still in the queue stays there.
NothingDrained == requests

\* A worker that goes, also one that never served, tells what is in the queue
\* so, requests for a worker after it included.
Drained == <<>>

Told == {c \in ToSet(requests) \ ToSet(Drained) : c # EndMark /\ asker[c] = "waiting"}

-----------------------------------------------------------------------------
(* The attempt to connect.                                                 *)

Connecting == {c \in ServerCallers : asker[c] = "connecting"}

\* The worker has discovered the tools and serves at once.
WorkerReady(g) ==
    /\ worker[g] = "opening" /\ worker' = [worker EXCEPT ![g] = "serving"]
    /\ UNCHANGED <<current, connecting, refusing, requests, asker, sends, flight, ran, unheard,
                   disconnecting, awaited, disconnects>>

\* The attempt ends a little later, and its callers later still.
ConnectionOpen ==
    /\ connecting # 0 /\ worker[connecting] # "opening" /\ disconnecting # "cancelling"
    /\ current' = connecting /\ connecting' = 0 /\ refusing' = FALSE
    /\ asker' = Become(Connecting, "connected")
    /\ UNCHANGED <<worker, requests, sends, flight, ran, unheard, disconnecting, awaited, disconnects>>

\* No answer, or an error, within the time and the tries of the attempt.
ConnectFails ==
    /\ connecting # 0 /\ worker[connecting] = "opening"
    /\ worker' = [worker EXCEPT ![connecting] = "died"] /\ connecting' = 0 /\ refusing' = TRUE
    /\ requests' = Drained /\ unheard' = unheard \ Told
    /\ asker' = [c \in ServerCallers |-> IF c \in Connecting THEN "unavailable" ELSE Lost(Told)[c]]
    /\ UNCHANGED <<current, sends, flight, ran, disconnecting, awaited, disconnects>>

RetryWindowEnds ==
    /\ refusing /\ refusing' = FALSE
    /\ UNCHANGED <<worker, current, connecting, requests, asker, sends, flight, ran, unheard,
                   disconnecting, awaited, disconnects>>

-----------------------------------------------------------------------------
(* The worker.  Getters of the queue are woken in their order: a younger     *)
(* worker gets nothing as long as an older one serves.                      *)

TakeRequest(g) ==
    /\ Working(g) /\ requests # <<>> /\ \A h \in 1..(g - 1) : ~Working(h)
    /\ requests' = Tail(requests)
    /\ LET c == Head(requests)
       IN  IF c = EndMark
           THEN worker' = [worker EXCEPT ![g] = "closing"] /\ UNCHANGED <<flight, ran, unheard>>
           ELSE /\ unheard' = unheard \ {c}
                /\ IF asker[c] = "waiting"
                   THEN flight' = flight \cup {<<g, c>>} /\ ran' = [ran EXCEPT ![c] = @ + 1]
                   ELSE UNCHANGED <<flight, ran>>
                /\ UNCHANGED worker
    /\ UNCHANGED <<current, connecting, refusing, asker, sends, disconnecting, awaited, disconnects>>

\* A call is over: the server answers, or the client raises, or the transport
\* has failed under this call and the worker does not know yet.
CallEnds(g, c) ==
    /\ <<g, c>> \in flight /\ Working(g) /\ flight' = flight \ {<<g, c>>}
    /\ asker' \in IF asker[c] # "waiting" THEN {asker}
                   ELSE {Become({c}, "answered"), Become({c}, "failed"), Lost({c})}
    /\ UNCHANGED <<worker, current, connecting, refusing, requests, sends, ran, unheard, disconnecting,
                   awaited, disconnects>>

ConnectionDrops(g) ==
    /\ Working(g) /\ worker' = [worker EXCEPT ![g] = "failing"]
    /\ UNCHANGED <<current, connecting, refusing, requests, asker, sends, flight, ran, unheard,
                   disconnecting, awaited, disconnects>>

\* Calls under way are cancelled as soon as the loop is left.
CallsCancelled(g) ==
    /\ worker[g] \in {"closing", "failing"} /\ \E c \in ServerCallers : <<g, c>> \in flight
    /\ LET calls == {c \in ServerCallers : <<g, c>> \in flight}
       IN  asker' = Lost({c \in calls : asker[c] = "waiting"})
    /\ flight' = {f \in flight : f[1] # g}
    /\ UNCHANGED <<worker, current, connecting, refusing, requests, sends, ran, unheard, disconnecting,
                   awaited, disconnects>>

WorkerEnds(g) ==
    /\ worker[g] \in {"closing", "failing"} /\ ~\E c \in ServerCallers : <<g, c>> \in flight
    /\ worker' = [worker EXCEPT ![g] = IF @ = "closing" THEN "ended" ELSE "died"]
    /\ requests' = Drained /\ asker' = Lost(Told) /\ unheard' = unheard \ Told
    /\ UNCHANGED <<current, connecting, refusing, sends, flight, ran, disconnecting, awaited, disconnects>>

-----------------------------------------------------------------------------
(* disconnect.                                                             *)

\* server.worker is forgotten and gets the end mark, though it may be gone.
MarkEnd(queue) ==
    /\ refusing' = FALSE /\ current' = 0
    /\ IF current = 0 THEN disconnecting' = "no" /\ requests' = queue /\ UNCHANGED awaited
       ELSE disconnecting' = "awaiting" /\ awaited' = current /\ requests' = Append(queue, EndMark)

Disconnect ==
    /\ disconnecting = "no" /\ disconnects < MaxDisconnects /\ disconnects' = disconnects + 1
    /\ IF connecting # 0
       THEN disconnecting' = "cancelling" /\ UNCHANGED <<current, refusing, requests, awaited>>
       ELSE MarkEnd(requests)
    /\ UNCHANGED <<worker, connecting, asker, sends, flight, ran, unheard>>

\* The attempt is cancelled, unless it has failed meanwhile, and has cancelled
\* its worker; so are the callers that share it.
AttemptCancelled ==
    /\ disconnecting = "cancelling"
    /\ \/ /\ connecting # 0 /\ connecting' = 0
          /\ LET calls == {c \in ServerCallers : <<connecting, c>> \in flight /\ asker[c] = "waiting"}
             IN  asker' = [c \in ServerCallers |->
                              IF c \in Connecting THEN "cancelled" ELSE Lost(Told \cup calls)[c]]
          /\ worker' = [worker EXCEPT ![connecting] = "died"]
          /\ flight' = {f \in flight : f[1] # connecting}
          /\ MarkEnd(Drained) /\ unheard' = unheard \ Told
       \/ /\ connecting = 0 /\ MarkEnd(requests)
          /\ UNCHANGED <<worker, connecting, asker, flight, unheard>>
    /\ UNCHANGED <<sends, ran, disconnects>>

\* It awaits the worker, and raises what that one died of.
Disconnected ==
    /\ disconnecting = "awaiting" /\ worker[awaited] \in {"ended", "died"}
    /\ disconnecting' = "no"
    /\ UNCHANGED <<worker, current, connecting, refusing, requests, asker, sends, flight, ran, unheard,
                   awaited, disconnects>>

McpNext ==
    \/ \E c \in ServerCallers : AskServer(c) \/ PutRequest(c) \/ CallerLeaves(c)
    \/ \E g \in Workers :
          \/ WorkerReady(g) \/ TakeRequest(g) \/ ConnectionDrops(g) \/ CallsCancelled(g) \/ WorkerEnds(g)
          \/ \E c \in ServerCallers : CallEnds(g, c)
    \/ ConnectionOpen \/ ConnectFails \/ RetryWindowEnds
    \/ Disconnect \/ AttemptCancelled \/ Disconnected

McpSpec == McpInit /\ [][McpNext]_mcpVars

-----------------------------------------------------------------------------
\* However connections drop, are replaced and disconnected: what does not only
\* read reaches the server at most once; a caller that waits is being served,
\* or is in the queue of a worker that will answer or turn it away (unless it
\* was put there behind a worker that had just gone); and a worker that serves
\* is the server's, or the attempt's, or awaited by the disconnect that ended
\* it: none is left behind.
McpKeepsPromises ==
    /\ \A c \in ServerCallers \ Readers : ran[c] <= 1
    /\ \A c \in ServerCallers : asker[c] = "waiting" =>
          \/ \E g \in Workers : Alive(g) /\ <<g, c>> \in flight
          \/ c \in ToSet(requests) /\ (c \in unheard \/ \E g \in Workers : Alive(g) /\ worker[g] # "opening")
    /\ \A g \in Workers : Alive(g) => g \in {current, connecting} \/ (disconnecting = "awaiting" /\ awaited = g)
=============================================================================
