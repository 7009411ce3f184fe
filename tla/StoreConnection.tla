--------------------------- MODULE StoreConnection ---------------------------
(***************************************************************************)
(* The connection of a store: opened by the first operation that needs it,  *)
(* by "async with" or by hand, closed by the end of the "async with" or by  *)
(* hand, while operations of several tasks are under way.                   *)
(*                                                                         *)
(*   base/component.py                      CoreLifecycleComponent           *)
(*   capabilities/{session,quota}_store/mongodb/_store.py, and the MongoDB   *)
(*   and SQLite backends of memory, context and knowledge                    *)
(*                                                                         *)
(* One step is the code between two awaits.                                 *)
(***************************************************************************)
EXTENDS Naturals

CONSTANTS
    Users,      \* tasks that use the store
    MaxClients  \* bound: clients ever created

ASSUME StoreConnectionAssumption == MaxClients \in Nat /\ "nobody" \notin Users

VARIABLES
    connected,  \* _connected
    connectLock,\* the task that holds _connect_lock
    clientLock, \* the task that holds the backend's own lock
    client,     \* _mongo_client, _collection: the client in use, 0: None
    created,    \* clients created so far
    openClients,\* those that have not been closed
    using,      \* what each task does
    handling,   \* the client each task is setting up or closing
    disturbed   \* a disconnect by hand, or with other calls under way

storeConnectionVars == <<connected, connectLock, clientLock, client, created,
                         openClients, using, handling, disturbed>>

-----------------------------------------------------------------------------
NoUser == "nobody"
UseSteps == {"idle", "ensure", "connect", "setup", "operate",
             "direct", "closing", "exit"}

StoreConnectionTypeOK ==
    /\ connected \in BOOLEAN
    /\ connectLock \in Users \cup {NoUser} /\ clientLock \in Users \cup {NoUser}
    /\ client \in 0..MaxClients /\ created \in 0..MaxClients
    /\ openClients \subseteq 1..MaxClients
    /\ using \in [Users -> UseSteps] /\ handling \in [Users -> 0..MaxClients]
    /\ disturbed \in BOOLEAN

StoreConnectionInit ==
    /\ connected = FALSE /\ connectLock = NoUser /\ clientLock = NoUser
    /\ client = 0 /\ created = 0 /\ openClients = {}
    /\ using = [u \in Users |-> "idle"] /\ handling = [u \in Users |-> 0]
    /\ disturbed = FALSE

To(u, step) == using' = [using EXCEPT ![u] = step]

-----------------------------------------------------------------------------
(* _ensure_connected, then the operation.                                  *)

Begin(u) ==
    /\ using[u] = "idle"
    /\ To(u, IF connected THEN "operate" ELSE "ensure")
    /\ UNCHANGED <<connected, connectLock, clientLock, client, created, openClients, handling, disturbed>>

TakeConnectLock(u) ==
    /\ using[u] = "ensure" /\ connectLock = NoUser
    /\ IF connected THEN To(u, "operate") /\ UNCHANGED connectLock
       ELSE To(u, "connect") /\ connectLock' = u
    /\ UNCHANGED <<connected, clientLock, client, created, openClients, handling, disturbed>>

\* connect() is also called by hand.
ConnectByHand(u) ==
    /\ using[u] = "idle" /\ To(u, "direct")
    /\ UNCHANGED <<connected, connectLock, clientLock, client, created, openClients, handling, disturbed>>

\* What follows connect(): the operation, or nothing when it was by hand.
AfterConnect(u) ==
    IF connectLock = u
    THEN connected' = TRUE /\ connectLock' = NoUser /\ To(u, "operate")
    ELSE To(u, "idle") /\ UNCHANGED <<connected, connectLock>>

\* Slip: a client is created whoever created one meanwhile.
CreateAnyway(u) == TRUE

\* The backend's lock is held and there is no client yet.
NeedsClient(u) == client = 0

\* The client is there before its ping and its indexes are.
CreateClient(u) ==
    /\ using[u] \in {"connect", "direct"} /\ clientLock = NoUser
    /\ NeedsClient(u) /\ created < MaxClients
    /\ created' = created + 1 /\ openClients' = openClients \cup {created + 1}
    /\ handling' = [handling EXCEPT ![u] = created + 1]
    /\ clientLock' = u /\ To(u, "setup")
    /\ UNCHANGED <<connected, connectLock, client, disturbed>>

AlreadyThere(u) ==
    /\ using[u] \in {"connect", "direct"} /\ clientLock = NoUser /\ client # 0
    /\ AfterConnect(u)
    /\ UNCHANGED <<clientLock, client, created, openClients, handling, disturbed>>

SetUp(u) ==
    /\ using[u] = "setup"
    /\ client' = handling[u] /\ handling' = [handling EXCEPT ![u] = 0] /\ clientLock' = NoUser
    /\ AfterConnect(u)
    /\ UNCHANGED <<created, openClients, disturbed>>

\* The ping fails or the task is cancelled: the client is closed again.
SetUpFails(u) ==
    /\ using[u] = "setup"
    /\ openClients' = openClients \ {handling[u]}
    /\ handling' = [handling EXCEPT ![u] = 0] /\ clientLock' = NoUser
    /\ connectLock' = IF connectLock = u THEN NoUser ELSE connectLock
    /\ To(u, "idle")
    /\ UNCHANGED <<connected, client, created, disturbed>>

Operated(u) ==
    /\ using[u] = "operate" /\ To(u, "idle")
    /\ UNCHANGED <<connected, connectLock, clientLock, client, created, openClients, handling, disturbed>>

-----------------------------------------------------------------------------
(* disconnect.                                                             *)

\* Neither way waits for the operations under way.
BeginDisconnect(u, step) ==
    /\ using[u] = "idle" /\ clientLock = NoUser
    /\ step = "exit" => connected
    /\ clientLock' = u /\ handling' = [handling EXCEPT ![u] = client] /\ client' = 0
    /\ To(u, step)
    /\ UNCHANGED <<connected, connectLock, created, openClients, disturbed>>

\* disconnect() by hand leaves _connected as it is; __aexit__ resets it.
EndDisconnect(u) ==
    /\ using[u] \in {"closing", "exit"} /\ To(u, "idle")
    /\ openClients' = openClients \ {handling[u]}
    /\ handling' = [handling EXCEPT ![u] = 0] /\ clientLock' = NoUser
    /\ connected' = IF using[u] = "exit" THEN FALSE ELSE connected
    /\ disturbed' = (\/ disturbed
                     \/ using[u] = "closing" /\ connected
                     \/ \E v \in Users \ {u} : using[v] # "idle")
    /\ UNCHANGED <<connectLock, client, created>>

StoreConnectionNext ==
    \E u \in Users :
       \/ Begin(u) \/ TakeConnectLock(u) \/ ConnectByHand(u) \/ CreateClient(u)
       \/ AlreadyThere(u) \/ SetUp(u) \/ SetUpFails(u) \/ Operated(u)
       \/ \E step \in {"closing", "exit"} : BeginDisconnect(u, step)
       \/ EndDisconnect(u)

StoreConnectionSpec == StoreConnectionInit /\ [][StoreConnectionNext]_storeConnectionVars

-----------------------------------------------------------------------------
\* No client stays open that nobody will close: the one in use and those being
\* set up or closed are all there are.  And an operation finds its client,
\* unless the store was disconnected by hand (which leaves _connected TRUE) or
\* under it.
OneOpenClient ==
    /\ openClients = ({client} \cup {handling[u] : u \in Users}) \ {0}
    /\ \A u \in Users : using[u] = "operate" =>
          client # 0 \/ disturbed \/ \E v \in Users : using[v] \in {"closing", "exit"}
=============================================================================
