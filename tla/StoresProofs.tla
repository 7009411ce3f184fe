---------------------------- MODULE StoresProofs ----------------------------
(***************************************************************************)
(* What runs, sessions and tasks share, each for every value of its        *)
(* constants: a saved session (SessionStore), the client of a store        *)
(* (StoreConnection), the quota of a user (Quota), an MCP connection       *)
(* (McpConnection).                                                        *)
(*                                                                         *)
(* SessionStore.  While the calls on a session come one after the other,   *)
(* only one thread has anything under way, what it writes is the last state*)
(* of the conversation, and the listing is written after the body and      *)
(* deleted before it; a crash in between leaves the listing the older one. *)
(*                                                                         *)
(* StoreConnection.  The client is swapped under the backend's lock only:  *)
(* whoever holds it has the one client that is neither in use nor closed,  *)
(* and nobody else has any.                                                *)
(*                                                                         *)
(* Quota.  An entry of the store says what its period was charged, a       *)
(* charged period without one made room for newer ones (LedgerOK); what is *)
(* charged beyond the quota was added by runs that are through with it.    *)
(*                                                                         *)
(* McpConnection.  At most one worker serves, the queue and the answers of *)
(* the callers agree (CallsHeld), a caller that waits has a worker to wake *)
(* it (Waited), and a request that is not read-only is put once (AskedOnce).*)
(***************************************************************************)
EXTENDS SessionStore, StoreConnection, Quota, McpConnection, WellFoundedInduction, FiniteSetTheorems, TLAPS

-----------------------------------------------------------------------------
(* Saved sessions.                                                         *)

BodySteps == {"body", "bodyTmp", "bodyFull"}
MetaSteps == {"meta", "metaTmp", "metaFull"}
Deletes == {"deleteMeta", "deleteBody"}

File == [of : 0..MaxSaves, whole : BOOLEAN]

Sorts == /\ body \in File /\ meta \in File /\ bodyTmp \in File /\ metaTmp \in File
         /\ saving \in [Callers -> [step : SessionSteps, of : 0..MaxSaves]]
         /\ saves \in 0..MaxSaves /\ kept \in 0..MaxSaves

Alone == \A c, d \in Callers : saving[c].step # "idle" /\ saving[d].step # "idle" => c = d

Files == /\ body.whole = TRUE /\ meta.whole = TRUE
         /\ meta.of <= body.of /\ body.of <= saves /\ kept <= body.of

\* How far a thread is, and what it has written.
Written(c) ==
    LET step == saving[c].step
    IN  /\ step \in BodySteps \cup MetaSteps => saving[c].of = saves
        /\ step \in Deletes => saving[c].of = 0
        /\ step \in {"bodyTmp", "bodyFull"} => bodyTmp.of = saves
        /\ step = "bodyFull" => bodyTmp.whole = TRUE
        /\ step \in MetaSteps => body.of = saves
        /\ step \in {"metaTmp", "metaFull"} => metaTmp.of = saves
        /\ step = "metaFull" => metaTmp.whole = TRUE
        /\ step = "deleteBody" => meta.of = 0

\* An idle thread has nothing under way.
IdleIsIdle == \A c \in Callers : saving[c].step = "idle" <=> saving[c] = Idle

Serial == Alone /\ Files /\ \A c \in Callers : Written(c)

IInv == Sorts /\ IdleIsIdle /\ (~overlapped => Serial)

-----------------------------------------------------------------------------
LEMMA FlagKept == SessionStoreSpec => [](overlapped \in BOOLEAN)
<1>1. SessionStoreInit => overlapped \in BOOLEAN
  BY DEF SessionStoreInit
<1>2. overlapped \in BOOLEAN /\ [SessionStoreNext]_sessionStoreVars => (overlapped \in BOOLEAN)'
  <2> SUFFICES ASSUME overlapped \in BOOLEAN, [SessionStoreNext]_sessionStoreVars
               PROVE  overlapped' \in BOOLEAN
    OBVIOUS
  <2>1. ASSUME NEW c \in Callers, BeginSave(c) \/ BeginDelete(c) PROVE overlapped' \in BOOLEAN
    BY <2>1, Zenon DEF BeginSave, BeginDelete, Overlaps
  <2>2. ASSUME NEW c \in Callers, OpenTmp(c) \/ FillTmp(c) \/ Publish(c) \/ Unlink(c) \/ SaveDies(c)
        PROVE  overlapped' \in BOOLEAN
    BY <2>2, Zenon DEF OpenTmp, FillTmp, Publish, Unlink, SaveDies
  <2>3. CASE UNCHANGED sessionStoreVars
    BY <2>3, Zenon DEF sessionStoreVars
  <2> QED BY <2>1, <2>2, <2>3 DEF SessionStoreNext
<1> QED BY <1>1, <1>2, PTL DEF SessionStoreSpec

\* What a file may become, and where a thread may go.
LEMMA FilesStayFiles ==
  /\ NoFile \in File
  /\ \A n \in 0..MaxSaves : [of |-> n, whole |-> FALSE] \in File
  /\ \A f \in File : [f EXCEPT !.whole = TRUE] \in File
<1>1. NoFile \in File
  BY SessionStoreAssumption DEF SessionStoreAssumption, NoFile, File
<1>2. \A n \in 0..MaxSaves : [of |-> n, whole |-> FALSE] \in File
  BY DEF File
<1>3. \A f \in File : [f EXCEPT !.whole = TRUE] \in File
  BY Zenon DEF File
<1> QED BY <1>1, <1>2, <1>3

LEMMA ThreadsGoOn ==
  ASSUME Sorts, NEW c \in Callers
  PROVE  /\ saving[c].of \in 0..MaxSaves
         /\ [saving EXCEPT ![c] = Idle] \in [Callers -> [step : SessionSteps, of : 0..MaxSaves]]
         /\ \A step \in SessionSteps :
               [saving EXCEPT ![c].step = step] \in [Callers -> [step : SessionSteps, of : 0..MaxSaves]]
BY SessionStoreAssumption DEF SessionStoreAssumption, Sorts, Idle, SessionSteps

LEMMA NextFiles ==
  ASSUME Sorts, NEW c \in Callers, NEW first,
         NEW step \in {"body", "meta", "deleteMeta", "deleteBody"}, NextFile(c, step, first)
  PROVE  /\ saving' \in [Callers -> [step : SessionSteps, of : 0..MaxSaves]]
         /\ kept' \in 0..MaxSaves
<1>1. Other(step) \in SessionSteps
  BY DEF Other, SessionSteps
<1> QED BY <1>1, ThreadsGoOn DEF NextFile, Now, Sorts

LEMMA SortsKeep == ASSUME Sorts, [SessionStoreNext]_sessionStoreVars PROVE Sorts'
<1>1. ASSUME NEW c \in Callers, BeginSave(c) \/ BeginDelete(c) PROVE Sorts'
  BY <1>1, SessionStoreAssumption
     DEF SessionStoreAssumption, Sorts, SessionSteps, BeginSave, BeginDelete, Saving, FirstFile, FirstDeleted
<1>2. ASSUME NEW c \in Callers, OpenTmp(c) PROVE Sorts'
  <2>1. "bodyTmp" \in SessionSteps /\ "metaTmp" \in SessionSteps
    BY DEF SessionSteps
  <2>2. /\ [of |-> saving[c].of, whole |-> FALSE] \in File
        /\ [saving EXCEPT ![c].step = "bodyTmp"] \in [Callers -> [step : SessionSteps, of : 0..MaxSaves]]
        /\ [saving EXCEPT ![c].step = "metaTmp"] \in [Callers -> [step : SessionSteps, of : 0..MaxSaves]]
    BY <2>1, FilesStayFiles, ThreadsGoOn, Zenon
  <2> QED BY <1>2, <2>2, Zenon DEF OpenTmp, Now, Sorts
<1>3. ASSUME NEW c \in Callers, FillTmp(c) PROVE Sorts'
  <2>1. "bodyFull" \in SessionSteps /\ "metaFull" \in SessionSteps
    BY DEF SessionSteps
  <2>2. /\ [saving EXCEPT ![c].step = "bodyFull"] \in [Callers -> [step : SessionSteps, of : 0..MaxSaves]]
        /\ [saving EXCEPT ![c].step = "metaFull"] \in [Callers -> [step : SessionSteps, of : 0..MaxSaves]]
    BY <2>1, ThreadsGoOn, Zenon
  <2> QED BY <1>3, <2>2, FilesStayFiles, Zenon DEF FillTmp, Now, Sorts
<1>4. ASSUME NEW c \in Callers, Publish(c) PROVE Sorts'
  BY <1>4, FilesStayFiles, ThreadsGoOn, NextFiles, Zenon DEF Publish, Sorts
<1>5. ASSUME NEW c \in Callers, Unlink(c) PROVE Sorts'
  BY <1>5, FilesStayFiles, NextFiles, Zenon DEF Unlink, Sorts
<1>6. ASSUME NEW c \in Callers, SaveDies(c) PROVE Sorts'
  BY <1>6, ThreadsGoOn DEF SaveDies, Sorts
<1>7. CASE UNCHANGED sessionStoreVars
  BY <1>7 DEF sessionStoreVars, Sorts
<1> QED BY <1>1, <1>2, <1>3, <1>4, <1>5, <1>6, <1>7 DEF SessionStoreNext

LEMMA IdleKept == ASSUME Sorts, IdleIsIdle, [SessionStoreNext]_sessionStoreVars PROVE IdleIsIdle'
<1> USE DEF Sorts, IdleIsIdle, Idle, Now
<1>1. ASSUME NEW c \in Callers, BeginSave(c) \/ BeginDelete(c) PROVE IdleIsIdle'
  BY <1>1 DEF BeginSave, BeginDelete, Saving, FirstFile, FirstDeleted
<1>2. ASSUME NEW c \in Callers, OpenTmp(c) PROVE IdleIsIdle'
  BY <1>2 DEF OpenTmp
<1>3. ASSUME NEW c \in Callers, FillTmp(c) PROVE IdleIsIdle'
  BY <1>3 DEF FillTmp
<1>4. ASSUME NEW c \in Callers, Publish(c) PROVE IdleIsIdle'
  BY <1>4 DEF Publish, NextFile, Other, FirstFile
<1>5. ASSUME NEW c \in Callers, Unlink(c) PROVE IdleIsIdle'
  BY <1>5 DEF Unlink, NextFile, Other, FirstDeleted
<1>6. ASSUME NEW c \in Callers, SaveDies(c) PROVE IdleIsIdle'
  BY <1>6 DEF SaveDies
<1>7. CASE UNCHANGED sessionStoreVars
  BY <1>7 DEF sessionStoreVars
<1> QED BY <1>1, <1>2, <1>3, <1>4, <1>5, <1>6, <1>7 DEF SessionStoreNext

-----------------------------------------------------------------------------
(* One action at a time, of a caller that is alone.                        *)

LEMMA BeginsKeep ==
  ASSUME IInv, Sorts', NEW c \in Callers, BeginSave(c) \/ BeginDelete(c), ~overlapped' PROVE Serial'
<1>1. Serial /\ \A d \in Callers \ {c} : saving[d] = Idle
  BY DEF IInv, BeginSave, BeginDelete, Overlaps
<1>2. \A d \in Callers \ {c} : saving'[d] = Idle
  BY <1>1 DEF IInv, Sorts, BeginSave, BeginDelete
<1>3. Alone'
  BY <1>2 DEF Alone, Idle
<1>4. Files'
  BY <1>1, SessionStoreAssumption
     DEF SessionStoreAssumption, Serial, Files, BeginSave, BeginDelete, IInv, Sorts, File
<1>5. Written(c)'
  BY DEF Written, BeginSave, BeginDelete, Saving, FirstFile, FirstDeleted, IInv, Sorts,
         BodySteps, MetaSteps, Deletes
<1>6. \A d \in Callers \ {c} : Written(d)'
  BY <1>2 DEF Written, Idle, BodySteps, MetaSteps, Deletes
<1> QED BY <1>3, <1>4, <1>5, <1>6 DEF Serial

\* The others are idle before and after.
LEMMA OthersRest ==
  ASSUME Sorts, IdleIsIdle, Serial, NEW c \in Callers, saving[c].step # "idle",
         \/ saving' = [saving EXCEPT ![c] = Idle]
         \/ \E step \in SessionSteps : saving' = [saving EXCEPT ![c].step = step]
  PROVE  Alone' /\ \A d \in Callers \ {c} : Written(d)'
<1>1. \A d \in Callers \ {c} : saving[d].step = "idle"
  BY DEF Serial, Alone
<1>2. \A d \in Callers \ {c} : saving'[d] = saving[d]
  BY DEF Sorts
<1>3. Alone'
  BY <1>1, <1>2 DEF Alone
<1>4. \A d \in Callers \ {c} : Written(d)'
  BY <1>1, <1>2 DEF Written, BodySteps, MetaSteps, Deletes
<1> QED BY <1>3, <1>4

LEMMA OpenKeeps ==
  ASSUME IInv, Sorts', NEW c \in Callers, OpenTmp(c), ~overlapped' PROVE Serial'
<1>1. Serial /\ saving[c].step \in {"body", "meta"}
  BY DEF IInv, OpenTmp
<1>2. Alone' /\ \A d \in Callers \ {c} : Written(d)'
  BY <1>1, OthersRest DEF IInv, OpenTmp, Now, SessionSteps
<1>3. Files'
  BY <1>1 DEF Serial, Files, OpenTmp
<1>4. Written(c)'
  BY <1>1 DEF Serial, Written, OpenTmp, Now, IInv, Sorts, BodySteps, MetaSteps, Deletes
<1> QED BY <1>2, <1>3, <1>4 DEF Serial

LEMMA FillKeeps ==
  ASSUME IInv, Sorts', NEW c \in Callers, FillTmp(c), ~overlapped' PROVE Serial'
<1>1. Serial /\ saving[c].step \in {"bodyTmp", "metaTmp"}
  BY DEF IInv, FillTmp
<1>2. Alone' /\ \A d \in Callers \ {c} : Written(d)'
  BY <1>1, OthersRest DEF IInv, FillTmp, Now, SessionSteps
<1>3. Files'
  BY <1>1 DEF Serial, Files, FillTmp
<1>4. Written(c)'
  BY <1>1 DEF Serial, Written, FillTmp, Now, IInv, Sorts, File, BodySteps, MetaSteps, Deletes
<1> QED BY <1>2, <1>3, <1>4 DEF Serial

\* What is published is the last state: the body first, the listing after it.
LEMMA PublishKeeps ==
  ASSUME IInv, Sorts', NEW c \in Callers, Publish(c), ~overlapped' PROVE Serial'
<1>1. Serial /\ saving[c].step \in {"bodyFull", "metaFull"}
  BY DEF IInv, Publish
<1>2. Alone' /\ \A d \in Callers \ {c} : Written(d)'
  BY <1>1, OthersRest DEF IInv, Publish, NextFile, Other, FirstFile, Now, SessionSteps
<1>3. Files'
  BY <1>1 DEF Serial, Files, Written, Publish, NextFile, FirstFile, IInv, Sorts, File, BodySteps, MetaSteps
<1>4. Written(c)'
  BY <1>1 DEF Serial, Written, Publish, NextFile, Other, FirstFile, Now, Idle, IInv, Sorts, File,
              BodySteps, MetaSteps, Deletes
<1> QED BY <1>2, <1>3, <1>4 DEF Serial

LEMMA UnlinkKeeps ==
  ASSUME IInv, Sorts', NEW c \in Callers, Unlink(c), ~overlapped' PROVE Serial'
<1>1. Serial /\ saving[c].step \in Deletes
  BY DEF IInv, Unlink, Deletes
<1>2. Alone' /\ \A d \in Callers \ {c} : Written(d)'
  BY <1>1, OthersRest DEF IInv, Unlink, Deletes, NextFile, Other, FirstDeleted, Now, SessionSteps
<1>3. Files'
  BY <1>1 DEF Serial, Files, Written, Unlink, NextFile, FirstDeleted, NoFile, IInv, Sorts, File, Deletes
<1>4. Written(c)'
  BY <1>1 DEF Serial, Written, Unlink, NextFile, Other, FirstDeleted, NoFile, Now, Idle, IInv, Sorts,
              BodySteps, MetaSteps, Deletes
<1> QED BY <1>2, <1>3, <1>4 DEF Serial

LEMMA DeathKeeps ==
  ASSUME IInv, Sorts', NEW c \in Callers, SaveDies(c), ~overlapped' PROVE Serial'
<1>1. Serial /\ saving[c].step # "idle"
  BY DEF IInv, IdleIsIdle, SaveDies
<1>2. Alone' /\ \A d \in Callers \ {c} : Written(d)'
  BY <1>1, OthersRest DEF IInv, SaveDies
<1>3. Files' /\ Written(c)'
  BY <1>1 DEF Serial, Files, Written, SaveDies, Idle, IInv, Sorts, BodySteps, MetaSteps, Deletes
<1> QED BY <1>2, <1>3 DEF Serial

-----------------------------------------------------------------------------
\* Every file and every thread keeps its type (LocalSessionStore).
THEOREM SessionsTypeCorrect == SessionStoreSpec => []SessionStoreTypeOK
<1>1. SessionStoreInit => Sorts
  BY SessionStoreAssumption, FilesStayFiles
     DEF SessionStoreAssumption, SessionStoreInit, Sorts, Idle, SessionSteps
<1>2. SessionStoreSpec => []Sorts
  BY <1>1, SortsKeep, PTL DEF SessionStoreSpec
<1>3. overlapped \in BOOLEAN /\ Sorts => SessionStoreTypeOK
  BY DEF Sorts, File, SessionStoreTypeOK
<1> QED BY <1>2, <1>3, FlagKept, PTL

\* For any number of callers whose calls on a session come one after the
\* other, and wherever one dies: both files are whole, what the listing shows
\* can be loaded, and a save that returned is there (LocalSessionStore._save,
\* _delete, _write_atomic).
THEOREM SerialSavesAreReadable == SessionStoreSpec => []SessionReadable
<1>1. SessionStoreInit => IInv
  <2>1. SessionStoreInit => Sorts
    BY SessionStoreAssumption, FilesStayFiles
       DEF SessionStoreAssumption, SessionStoreInit, Sorts, Idle, SessionSteps
  <2>2. SessionStoreInit => IdleIsIdle /\ Serial
    BY DEF SessionStoreInit, IdleIsIdle, Serial, Alone, Files, Written, Idle, NoFile,
           BodySteps, MetaSteps, Deletes
  <2> QED BY <2>1, <2>2 DEF IInv
<1>2. IInv /\ [SessionStoreNext]_sessionStoreVars => IInv'
  <2> SUFFICES ASSUME IInv, [SessionStoreNext]_sessionStoreVars PROVE IInv'
    OBVIOUS
  <2>1. Sorts' /\ IdleIsIdle'
    BY SortsKeep, IdleKept DEF IInv
  <2>2. ASSUME NEW c \in Callers, ~overlapped',
               \/ BeginSave(c) \/ BeginDelete(c) \/ OpenTmp(c) \/ FillTmp(c)
               \/ Publish(c) \/ Unlink(c) \/ SaveDies(c)
        PROVE  Serial'
    BY <2>1, <2>2, BeginsKeep, OpenKeeps, FillKeeps, PublishKeeps, UnlinkKeeps, DeathKeeps
  <2>3. CASE UNCHANGED sessionStoreVars
    BY <2>1, <2>3 DEF sessionStoreVars, IInv, Serial, Alone, Files, Written
  <2> QED BY <2>1, <2>2, <2>3 DEF SessionStoreNext, IInv
<1>3. IInv => SessionReadable
  BY DEF IInv, Serial, Files, SessionReadable
<1> QED BY <1>1, <1>2, <1>3, PTL DEF SessionStoreSpec

-----------------------------------------------------------------------------
(* The client of a store.                                                  *)

\* TypeOK in two parts: the SMT solver has the one, Zenon the Booleans.
Flags == connected \in BOOLEAN /\ disturbed \in BOOLEAN

ConnectionSorts == /\ connectLock \in Users \cup {NoUser} /\ clientLock \in Users \cup {NoUser}
         /\ client \in 0..MaxClients /\ created \in 0..MaxClients
         /\ openClients \subseteq 1..MaxClients
         /\ using \in [Users -> UseSteps] /\ handling \in [Users -> 0..MaxClients]

InLock == {"setup", "closing", "exit"}
Closing == \E v \in Users : using[v] \in {"closing", "exit"}

LockHeld == \A u \in Users : using[u] \in InLock <=> clientLock = u

HandledInLock == /\ \A u \in Users : clientLock # u => handling[u] = 0
                 /\ \A u \in Users : using[u] = "setup" => handling[u] # 0
                 /\ clientLock # NoUser => client = 0

Accounted == openClients = ({client} \cup {handling[u] : u \in Users}) \ {0}

\* Without a client nobody believes to be connected.
NoneFound == client = 0 /\ ~Closing =>
                disturbed \/ (~connected /\ \A u \in Users : using[u] # "operate")

ConnectionIInv == ConnectionSorts /\ LockHeld /\ HandledInLock /\ Accounted /\ NoneFound

-----------------------------------------------------------------------------
LEMMA FlagsHold == StoreConnectionSpec => []Flags
<1>1. StoreConnectionInit => Flags
  BY DEF StoreConnectionInit, Flags
<1>2. Flags /\ [StoreConnectionNext]_storeConnectionVars => Flags'
  <2> SUFFICES ASSUME Flags, [StoreConnectionNext]_storeConnectionVars PROVE Flags'
    OBVIOUS
  <2> USE DEF Flags
  <2>1. ASSUME NEW u \in Users,
               Begin(u) \/ ConnectByHand(u) \/ Operated(u) \/ TakeConnectLock(u) \/ CreateClient(u)
        PROVE  Flags'
    BY <2>1, Zenon DEF Begin, ConnectByHand, Operated, TakeConnectLock, CreateClient
  <2>2. ASSUME NEW u \in Users, AlreadyThere(u) \/ SetUp(u) \/ SetUpFails(u) PROVE Flags'
    BY <2>2, Zenon DEF AlreadyThere, SetUp, SetUpFails, AfterConnect
  <2>3. ASSUME NEW u \in Users, NEW step \in {"closing", "exit"}, BeginDisconnect(u, step) PROVE Flags'
    BY <2>3, Zenon DEF BeginDisconnect
  <2>4. ASSUME NEW u \in Users, EndDisconnect(u) PROVE Flags'
    BY <2>4, Zenon DEF EndDisconnect
  <2>5. CASE UNCHANGED storeConnectionVars
    BY <2>5, Zenon DEF storeConnectionVars
  <2> QED BY <2>1, <2>2, <2>3, <2>4, <2>5 DEF StoreConnectionNext
<1> QED BY <1>1, <1>2, PTL DEF StoreConnectionSpec

LEMMA ConnectionSortsKeep == ASSUME ConnectionSorts, [StoreConnectionNext]_storeConnectionVars PROVE ConnectionSorts'
<1> USE StoreConnectionAssumption DEF StoreConnectionAssumption, ConnectionSorts, UseSteps, To
<1>1. ASSUME NEW u \in Users,
             Begin(u) \/ ConnectByHand(u) \/ Operated(u) \/ TakeConnectLock(u)
      PROVE  ConnectionSorts'
  BY <1>1 DEF Begin, ConnectByHand, Operated, TakeConnectLock
<1>2. ASSUME NEW u \in Users, CreateClient(u) PROVE ConnectionSorts'
  BY <1>2 DEF CreateClient
<1>3. ASSUME NEW u \in Users, AlreadyThere(u) PROVE ConnectionSorts'
  BY <1>3 DEF AlreadyThere, AfterConnect
<1>4. ASSUME NEW u \in Users, SetUp(u) PROVE ConnectionSorts'
  BY <1>4 DEF SetUp, AfterConnect
<1>5. ASSUME NEW u \in Users, SetUpFails(u) PROVE ConnectionSorts'
  <2>1. openClients' \subseteq openClients
    BY <1>5, Zenon DEF SetUpFails
  <2>2. openClients' \subseteq 1..MaxClients
    BY <2>1
  <2> QED BY <1>5, <2>2 DEF SetUpFails
<1>6. ASSUME NEW u \in Users, NEW step \in {"closing", "exit"}, BeginDisconnect(u, step) PROVE ConnectionSorts'
  BY <1>6 DEF BeginDisconnect
<1>7. ASSUME NEW u \in Users, EndDisconnect(u) PROVE ConnectionSorts'
  <2>1. openClients' \subseteq openClients
    BY <1>7, Zenon DEF EndDisconnect
  <2>2. openClients' \subseteq 1..MaxClients
    BY <2>1
  <2> QED BY <1>7, <2>2 DEF EndDisconnect
<1>8. CASE UNCHANGED storeConnectionVars
  BY <1>8 DEF storeConnectionVars
<1> QED BY <1>1, <1>2, <1>3, <1>4, <1>5, <1>6, <1>7, <1>8 DEF StoreConnectionNext

LEMMA Initially == StoreConnectionInit => ConnectionIInv
<1> SUFFICES ASSUME StoreConnectionInit PROVE ConnectionIInv
  OBVIOUS
<1> USE StoreConnectionAssumption DEF StoreConnectionAssumption, StoreConnectionInit
<1>1. ConnectionSorts
  BY DEF ConnectionSorts, UseSteps
<1>2. LockHeld /\ HandledInLock /\ NoneFound
  BY DEF LockHeld, InLock, NoUser, HandledInLock, NoneFound
<1>3. Accounted
  BY DEF Accounted
<1> QED BY <1>1, <1>2, <1>3 DEF ConnectionIInv

\* A task that only moves on, or takes the lock of the connection.
LEMMA UseKeeps ==
  ASSUME ConnectionIInv, NEW u \in Users,
         Begin(u) \/ ConnectByHand(u) \/ Operated(u) \/ TakeConnectLock(u) \/ AlreadyThere(u)
  PROVE  LockHeld' /\ HandledInLock' /\ Accounted' /\ NoneFound'
<1> USE DEF ConnectionIInv, To, AfterConnect, Begin, ConnectByHand, Operated, TakeConnectLock, AlreadyThere
<1>1. UNCHANGED <<clientLock, client, openClients, handling, disturbed>>
  OBVIOUS
<1>2. /\ using[u] \notin InLock /\ using'[u] \notin InLock /\ using'[u] # "setup"
      /\ \A v \in Users \ {u} : using'[v] = using[v]
  BY DEF ConnectionSorts, InLock
<1>3. LockHeld' /\ HandledInLock'
  BY <1>1, <1>2 DEF LockHeld, HandledInLock
<1>4. Accounted'
  BY <1>1 DEF Accounted
<1>5. NoneFound'
  <2> SUFFICES ASSUME client' = 0, ~Closing', ~disturbed'
               PROVE  ~connected' /\ \A v \in Users : using'[v] # "operate"
    BY DEF NoneFound
  <2>1. client = 0 /\ ~Closing /\ ~disturbed
    BY <1>1, <1>2 DEF Closing, InLock
  <2>2. ~connected /\ \A v \in Users : using[v] # "operate"
    BY <2>1 DEF NoneFound
  <2> QED BY <2>1, <2>2, <1>2 DEF ConnectionSorts
<1> QED BY <1>3, <1>4, <1>5

\* Only the holder of the lock creates a client, and there is none before.
LEMMA CreateKeeps ==
  ASSUME ConnectionIInv, NEW u \in Users, CreateClient(u)
  PROVE  LockHeld' /\ HandledInLock' /\ Accounted' /\ NoneFound'
<1> USE StoreConnectionAssumption DEF StoreConnectionAssumption, ConnectionIInv, To, CreateClient, NeedsClient
<1>1. /\ client = 0 /\ client' = 0 /\ clientLock' = u /\ u # NoUser
      /\ \A v \in Users : handling[v] = 0 /\ using[v] \notin InLock
      /\ created + 1 # 0
  BY DEF NoUser, LockHeld, HandledInLock, ConnectionSorts
<1>2. /\ using'[u] = "setup" /\ handling'[u] = created + 1
      /\ \A v \in Users \ {u} : using'[v] = using[v] /\ handling'[v] = 0
  BY <1>1 DEF ConnectionSorts
<1>3. LockHeld' /\ HandledInLock'
  BY <1>1, <1>2 DEF LockHeld, HandledInLock, InLock
<1>4. Accounted'
  BY <1>1, <1>2 DEF Accounted
<1>5. NoneFound'
  <2>1. ~Closing
    BY <1>1 DEF Closing, InLock
  <2> QED BY <1>1, <1>2, <2>1 DEF NoneFound
<1> QED BY <1>3, <1>4, <1>5

\* The new client comes into use, or is closed again.
LEMMA SetUpKeeps ==
  ASSUME ConnectionIInv, NEW u \in Users, SetUp(u) \/ SetUpFails(u)
  PROVE  LockHeld' /\ HandledInLock' /\ Accounted' /\ NoneFound'
<1> USE StoreConnectionAssumption DEF StoreConnectionAssumption, ConnectionIInv, To
<1>1. /\ using[u] = "setup" /\ clientLock = u /\ clientLock' = NoUser /\ client = 0
      /\ handling[u] # 0 /\ u # NoUser
      /\ \A v \in Users \ {u} : handling[v] = 0 /\ using[v] \notin InLock
  BY DEF SetUp, SetUpFails, NoUser, InLock, LockHeld, HandledInLock
<1>2. /\ using'[u] \in {"idle", "operate"} /\ handling' = [handling EXCEPT ![u] = 0]
      /\ \A v \in Users \ {u} : using'[v] = using[v]
  BY DEF SetUp, SetUpFails, AfterConnect, ConnectionSorts
<1>3. \A v \in Users : handling'[v] = 0
  BY <1>1, <1>2 DEF ConnectionSorts
<1>4. \A v \in Users : v # NoUser /\ using'[v] \notin InLock
  BY <1>1, <1>2 DEF NoUser, InLock
<1>5. LockHeld' /\ HandledInLock'
  BY <1>1, <1>3, <1>4 DEF LockHeld, HandledInLock, InLock
<1>6. CASE SetUp(u)
  <2>1. client' = handling[u] /\ openClients' = openClients
    BY <1>6 DEF SetUp
  <2>2. Accounted'
    BY <2>1, <1>1, <1>3 DEF Accounted
  <2>3. NoneFound'
    BY <2>1, <1>1 DEF NoneFound
  <2> QED BY <1>5, <2>2, <2>3
<1>7. CASE SetUpFails(u)
  <2>1. UNCHANGED <<client, connected, disturbed>> /\ openClients' = openClients \ {handling[u]}
    BY <1>7 DEF SetUpFails
  <2>2. Accounted'
    BY <2>1, <1>1, <1>3 DEF Accounted
  <2>3. ~Closing /\ using'[u] = "idle"
    BY <1>1, <1>7 DEF Closing, InLock, SetUpFails, ConnectionSorts
  <2>4. NoneFound'
    BY <2>1, <2>3, <1>1, <1>2 DEF NoneFound
  <2> QED BY <1>5, <2>2, <2>4
<1> QED BY <1>6, <1>7

\* The client goes out of use into the hands of the one who closes it.
LEMMA BeginDisconnectKeeps ==
  ASSUME ConnectionIInv, NEW u \in Users, NEW step \in {"closing", "exit"}, BeginDisconnect(u, step)
  PROVE  LockHeld' /\ HandledInLock' /\ Accounted' /\ NoneFound'
<1> USE StoreConnectionAssumption DEF StoreConnectionAssumption, ConnectionIInv, To, BeginDisconnect
<1>1. /\ clientLock' = u /\ client' = 0 /\ u # NoUser /\ openClients' = openClients
      /\ \A v \in Users : handling[v] = 0 /\ using[v] \notin InLock
  BY DEF NoUser, LockHeld, HandledInLock, ConnectionSorts
<1>2. /\ using'[u] = step /\ handling'[u] = client
      /\ \A v \in Users \ {u} : using'[v] = using[v] /\ handling'[v] = 0
  BY <1>1 DEF ConnectionSorts
<1>3. LockHeld' /\ HandledInLock'
  BY <1>1, <1>2 DEF LockHeld, HandledInLock, InLock
<1>4. Accounted'
  BY <1>1, <1>2 DEF Accounted
<1>5. Closing'
  BY <1>2 DEF Closing
<1> QED BY <1>3, <1>4, <1>5 DEF NoneFound

\* What it disturbs it records.
LEMMA EndDisconnectKeeps ==
  ASSUME ConnectionIInv, NEW u \in Users, EndDisconnect(u)
  PROVE  LockHeld' /\ HandledInLock' /\ Accounted' /\ NoneFound'
<1> USE StoreConnectionAssumption DEF StoreConnectionAssumption, ConnectionIInv, To, EndDisconnect
<1>1. /\ using[u] \in {"closing", "exit"} /\ clientLock = u /\ clientLock' = NoUser /\ u # NoUser
      /\ client = 0 /\ client' = 0 /\ openClients' = openClients \ {handling[u]}
      /\ \A v \in Users \ {u} : handling[v] = 0 /\ using[v] \notin InLock
  BY DEF NoUser, InLock, LockHeld, HandledInLock
<1>2. /\ using'[u] = "idle" /\ handling' = [handling EXCEPT ![u] = 0]
      /\ \A v \in Users \ {u} : using'[v] = using[v]
  BY DEF ConnectionSorts
<1>3. \A v \in Users : v # NoUser /\ handling'[v] = 0 /\ using'[v] \notin InLock
  BY <1>1, <1>2 DEF ConnectionSorts, NoUser, InLock
<1>4. LockHeld' /\ HandledInLock'
  BY <1>1, <1>3 DEF LockHeld, HandledInLock, InLock
<1>5. Accounted'
  BY <1>1, <1>3 DEF Accounted
<1>6. NoneFound'
  <2> SUFFICES ASSUME ~disturbed'
               PROVE  ~connected' /\ \A v \in Users : using'[v] # "operate"
    BY DEF NoneFound
  <2>1. ~(using[u] = "closing" /\ connected) /\ \A v \in Users \ {u} : using[v] = "idle"
    OBVIOUS
  <2> QED BY <2>1, <1>1, <1>2
<1> QED BY <1>4, <1>5, <1>6

-----------------------------------------------------------------------------
\* Every variable of the connection keeps its type, the number of clients
\* included (CoreLifecycleComponent.connect, disconnect).
THEOREM ConnectionTypeCorrect == StoreConnectionSpec => []StoreConnectionTypeOK
<1>1. StoreConnectionInit => ConnectionSorts
  BY Initially DEF ConnectionIInv
<1>2. StoreConnectionSpec => []ConnectionSorts
  BY <1>1, ConnectionSortsKeep, PTL DEF StoreConnectionSpec
<1>3. Flags /\ ConnectionSorts => StoreConnectionTypeOK
  BY DEF Flags, ConnectionSorts, StoreConnectionTypeOK
<1> QED BY <1>2, <1>3, FlagsHold, PTL

\* For any number of tasks that open, use and close a store at once: no client
\* is left open that nobody will close, and an operation finds its client
\* unless the store was closed under it (CoreLifecycleComponent, the stores'
\* _connect and _disconnect).
THEOREM NoClientLeaks == StoreConnectionSpec => []OneOpenClient
<1>1. ConnectionIInv /\ [StoreConnectionNext]_storeConnectionVars => ConnectionIInv'
  <2> SUFFICES ASSUME ConnectionIInv, [StoreConnectionNext]_storeConnectionVars PROVE ConnectionIInv'
    OBVIOUS
  <2>1. ConnectionSorts'
    BY ConnectionSortsKeep DEF ConnectionIInv
  <2>2. CASE StoreConnectionNext
    BY <2>1, <2>2, UseKeeps, CreateKeeps, SetUpKeeps, BeginDisconnectKeeps, EndDisconnectKeeps
       DEF StoreConnectionNext, ConnectionIInv
  <2>3. CASE UNCHANGED storeConnectionVars
    BY <2>1, <2>3 DEF storeConnectionVars, ConnectionIInv, LockHeld, HandledInLock, Accounted, NoneFound, Closing
  <2> QED BY <2>2, <2>3
<1>2. ConnectionIInv => OneOpenClient
  BY DEF ConnectionIInv, Accounted, NoneFound, Closing, OneOpenClient
<1> QED BY <1>1, <1>2, Initially, PTL DEF StoreConnectionSpec

-----------------------------------------------------------------------------
(* The quota of a user.                                                    *)

-----------------------------------------------------------------------------
(* Least and greatest numbers of a set.                                    *)

LEMMA LeastNat == ASSUME NEW T \in SUBSET Nat, T # {} PROVE \E x \in T : \A y \in T : x <= y
<1> DEFINE R == OpToRel(<, Nat)
<1>1. IsWellFoundedOn(R, Nat)
  BY NatLessThanWellFounded
<1> HIDE DEF R
<1>2. PICK x \in T : \A y \in T : ~ (<<y, x>> \in R)
  BY <1>1, WFMin
<1>3. \A y \in T : ~ (y < x)
  BY <1>2 DEF R, OpToRel
<1> QED BY <1>3

LEMMA GreatestNat ==
    ASSUME NEW T \in SUBSET Nat, NEW m \in Nat, T # {}, \A y \in T : y <= m
    PROVE  \E x \in T : \A y \in T : y <= x
<1> DEFINE D == {m - y : y \in T}
<1>1. \A y \in T : m - y \in Nat
  OBVIOUS
<1>2. D \subseteq Nat
  BY <1>1
<1>3. D # {}
  OBVIOUS
<1>4. PICK d \in D : \A e \in D : d <= e
  BY <1>2, <1>3, LeastNat
<1>5. PICK x \in T : d = m - x
  BY <1>4
<1>6. \A y \in T : m - y \in D
  OBVIOUS
<1>7. \A y \in T : m - x <= m - y
  BY <1>4, <1>5, <1>6
<1> QED BY <1>7

-----------------------------------------------------------------------------
(* The ledger and the quota.                                               *)

Entries == Usage \cup {NoEntry}
Pending(p) == payer[p] \in {"charging", "adding"}

\* A run that may still add tokens to a day: its response is on the way, or
\* the day is today and nothing it has seen stops its next request.
MayCharge(p, d) ==
    \/ Pending(p) /\ due[p].day = d /\ due[p].sum.tokens > 0
    \/ d = today /\ \/ payer[p] \in {"working", "asking"} /\ seen[p].tokens < QuotaTokens
                    \/ Pending(p) /\ due[p].day < d
MayCount(p, d) == Pending(p) /\ due[p].day = d /\ due[p].sum.tasks > 0

Through(d) == {p \in Payers : ~MayCharge(p, d)}
Counted(d) == {p \in Payers : ~MayCount(p, d)}

\* What a day is charged beyond the limit was added by the runs that are through.
TokensWithin(d) == charged[d].tokens < QuotaTokens + Cardinality(Through(d)) * Dearest
TasksWithin(d) == charged[d].tasks < QuotaTasks + Cardinality(Counted(d))

DueOK(p) ==
    /\ due[p].day <= today /\ due[p].sum.tokens \in Prices \cup {0} /\ due[p].sum.tasks \in {0, 1}
    /\ payer[p] = "asking" => seen[p].tokens < QuotaTokens

\* Who has read the file holds the lock, and the file is what was read.
AddOK(p) ==
    /\ payer[p] # "gone"
    /\ payer[p] = "adding" => /\ backend = "local" /\ copy[p] = ledger
                              /\ \A q \in Payers : payer[q] = "adding" => q = p

HeldAfter(l, d) == {e \in Days : e > d /\ l[e] # NoEntry}
Keeps(l, c, d) ==
    /\ l[d] # NoEntry => l[d] = c[d]
    /\ l[d] = NoEntry /\ c[d] # NoUsage => Cardinality(HeldAfter(l, d)) >= KeepPeriods

LedgerOK ==
    /\ \A d \in Days : Keeps(ledger, charged, d)
    /\ \A d \in Days : d > today => ledger[d] = NoEntry /\ charged[d] = NoUsage
    /\ backend = "mongodb" => \A d \in Days : ledger[d] = NoEntry => charged[d] = NoUsage

-----------------------------------------------------------------------------
(* Types.                                                                  *)

LEMMA QuotaNumbers ==
    /\ IsFiniteSet(Payers) /\ Prices \subseteq Nat \ {0}
    /\ Dearest \in Nat /\ \A n \in Prices : n <= Dearest
    /\ QuotaTokens \in Nat \ {0} /\ QuotaTasks \in Nat \ {0} /\ KeepPeriods \in Nat \ {0}
    /\ LastDay \in Nat \ {0} /\ Days \subseteq Nat /\ 1 \in Days
<1>1. \E dearest \in Prices : \A n \in Prices : n <= dearest
  BY QuotaAssumption DEF QuotaAssumption
<1>2. Dearest \in Prices /\ \A n \in Prices : n <= Dearest
  BY <1>1 DEF Dearest
<1> QED BY <1>2, QuotaAssumption DEF QuotaAssumption, Days

LEMMA QuotaValues ==
    /\ NoUsage \in Usage /\ NoEntry \notin Usage /\ NoEntry \in Entries /\ NoCharge \in Charges
    /\ Cleared \in Counters /\ NoLedger \in [Days -> Entries]
    /\ \A u, v \in Usage : Plus(u, v) \in Usage
<1>1. NoUsage \in Usage /\ NoEntry \notin Usage
  BY DEF NoUsage, Usage, NoEntry
<1>2. NoEntry \in Entries /\ NoLedger \in [Days -> Entries]
  BY DEF NoLedger, Entries
<1>3. NoCharge \in Charges
  BY <1>1, QuotaNumbers DEF NoCharge, Charges
<1>4. Cleared \in Counters
  BY DEF Cleared, Counters
<1>5. \A u, v \in Usage : Plus(u, v) \in Usage
  BY DEF Usage, Plus
<1> QED BY <1>1, <1>2, <1>3, <1>4, <1>5

LEMMA LedgerTypes ==
    ASSUME NEW l \in [Days -> Entries], NEW charge \in Charges
    PROVE  /\ \A d \in Days : UsageOf(l, d) \in Usage
           /\ Added(l, charge) \in [Days -> Entries] /\ Added(l, charge)[charge.day] \in Usage
           /\ Added(l, charge)[charge.day] = Plus(UsageOf(l, charge.day), charge.sum)
           /\ \A d \in Days : d # charge.day => Added(l, charge)[d] = l[d]
           /\ Newest(l) \in [Days -> Entries]
<1>1. \A d \in Days : UsageOf(l, d) \in Usage
  BY QuotaValues DEF UsageOf, Entries
<1>2. charge.day \in Days /\ charge.sum \in Usage
  BY DEF Charges
<1>3. Plus(UsageOf(l, charge.day), charge.sum) \in Usage
  BY <1>1, <1>2, QuotaValues
<1>4. Newest(l) \in [Days -> Entries]
  BY QuotaValues DEF Newest
<1> QED BY <1>1, <1>2, <1>3, <1>4 DEF Added, Entries

LEMMA ChargedTypes ==
    ASSUME NEW l \in [Days -> Usage], NEW charge \in Charges
    PROVE  /\ Added(l, charge) \in [Days -> Usage]
           /\ Added(l, charge)[charge.day] = Plus(l[charge.day], charge.sum)
           /\ \A d \in Days : d # charge.day => Added(l, charge)[d] = l[d]
<1>1. charge.day \in Days /\ charge.sum \in Usage
  BY DEF Charges
<1>2. UsageOf(l, charge.day) = l[charge.day]
  BY <1>1, QuotaValues DEF UsageOf
<1>3. Plus(l[charge.day], charge.sum) \in Usage
  BY <1>1, QuotaValues
<1> QED BY <1>1, <1>2, <1>3 DEF Added

LEMMA LeavesTyped ==
    ASSUME QuotaTypeOK, NEW p \in Payers, Leaves(p)
    PROVE  /\ payer' \in [Payers -> PayerStates] /\ spent' \in [Payers -> Counters]
           /\ seen' \in [Payers -> Usage] /\ due' \in [Payers -> Charges]
           /\ copy' \in [Payers -> [Days -> Entries]]
BY QuotaValues DEF QuotaTypeOK, Leaves, Goes, PayerStates, Entries

LEMMA SettlesTyped ==
    ASSUME QuotaTypeOK, NEW p \in Payers, NEW l, l[due[p].day] \in Usage, Settles(p, l)
    PROVE  /\ payer' \in [Payers -> PayerStates] /\ spent' \in [Payers -> Counters]
           /\ seen' \in [Payers -> Usage] /\ due' \in [Payers -> Charges]
           /\ copy' \in [Payers -> [Days -> Entries]]
BY QuotaValues DEF QuotaTypeOK, Settles, Goes, PayerStates, Entries

LEMMA QuotaTyped == ASSUME QuotaTypeOK, [QuotaNext]_quotaVars PROVE QuotaTypeOK'
<1>a. \A p \in Payers : due[p] \in Charges /\ copy[p] \in [Days -> Entries] /\ spent[p] \in Counters
  BY DEF QuotaTypeOK, Entries
<1>b. ledger \in [Days -> Entries] /\ charged \in [Days -> Usage] /\ today \in Days
  BY DEF QuotaTypeOK, Entries
<1>1. ASSUME NEW p \in Payers, StartTask(p) PROVE QuotaTypeOK'
  BY <1>1, QuotaValues DEF StartTask, QuotaTypeOK, Goes, PayerStates, storeVars
<1>2. ASSUME NEW p \in Payers, ResumeTask(p) \/ PauseRun(p) PROVE QuotaTypeOK'
  BY <1>2 DEF ResumeTask, PauseRun, QuotaTypeOK, Goes, PayerStates, storeVars
<1>3. ASSUME NEW p \in Payers, CheckQuota(p) PROVE QuotaTypeOK'
  <2>1. CASE Leaves(p)
    BY <1>3, <2>1, LeavesTyped DEF CheckQuota, QuotaTypeOK, storeVars, Entries
  <2>2. CASE ~Leaves(p)
    <3> DEFINE used == UsageOf(ledger, today)
    <3>1. used \in Usage
      BY <1>b, LedgerTypes, QuotaValues
    <3> HIDE DEF used
    <3>2. seen' = [seen EXCEPT ![p] = used] /\ UNCHANGED <<spent, copy, today, storeVars, fresh>>
          /\ \/ Charge(p, [tokens |-> 0, tasks |-> 1])
             \/ Goes(p, "working") /\ UNCHANGED due
      BY <1>3, <2>2 DEF CheckQuota, used
    <3>3. [tokens |-> 0, tasks |-> 1] \in Usage
      BY DEF Usage
    <3>4. [day |-> today, sum |-> [tokens |-> 0, tasks |-> 1]] \in Charges
      BY <1>b, <3>3 DEF Charges
    <3>5. due' \in [Payers -> Charges] /\ payer' \in [Payers -> PayerStates]
      BY <3>2, <3>4 DEF Charge, Goes, QuotaTypeOK, PayerStates
    <3>6. seen' \in [Payers -> Usage]
      BY <3>1, <3>2 DEF QuotaTypeOK
    <3> QED BY <3>2, <3>5, <3>6 DEF QuotaTypeOK, storeVars
  <2> QED BY <2>1, <2>2
<1>4. ASSUME NEW p \in Payers, AskModel(p) PROVE QuotaTypeOK'
  <2>1. CASE Leaves(p)
    BY <1>4, <2>1, LeavesTyped DEF AskModel, QuotaTypeOK, storeVars, Entries
  <2>2. CASE ~Leaves(p)
    <3>1. [spent[p] EXCEPT !.models = @ + 1] \in Counters
      BY <1>a DEF Counters
    <3>2. spent' = [spent EXCEPT ![p] = [spent[p] EXCEPT !.models = @ + 1]] /\ Goes(p, "asking")
          /\ UNCHANGED <<seen, due, copy, today, storeVars, fresh>>
      BY <1>4, <2>2 DEF AskModel
    <3>3. spent' \in [Payers -> Counters]
      BY <3>1, <3>2 DEF QuotaTypeOK
    <3> QED BY <3>2, <3>3 DEF QuotaTypeOK, Goes, PayerStates, storeVars
  <2> QED BY <2>1, <2>2
<1>5. ASSUME NEW p \in Payers, ModelAnswers(p) PROVE QuotaTypeOK'
  <2>1. PICK n \in Prices : /\ spent' = [spent EXCEPT ![p].tokens = @ + n]
                            /\ Charge(p, [tokens |-> n, tasks |-> 0])
    BY <1>5 DEF ModelAnswers
  <2>a. n \in Nat
    BY QuotaNumbers
  <2>2. [spent[p] EXCEPT !.tokens = @ + n] \in Counters
    BY <1>a, <2>a DEF Counters
  <2>3. spent' \in [Payers -> Counters]
    BY <2>1, <2>2 DEF QuotaTypeOK
  <2>4. [day |-> today, sum |-> [tokens |-> n, tasks |-> 0]] \in Charges
    BY <1>b, <2>a DEF Charges, Usage
  <2>5. due' \in [Payers -> Charges] /\ payer' \in [Payers -> PayerStates]
    BY <2>1, <2>4 DEF Charge, Goes, QuotaTypeOK, PayerStates
  <2> QED BY <1>5, <2>3, <2>5 DEF ModelAnswers, QuotaTypeOK, storeVars
<1>6. ASSUME NEW p \in Payers, UseTool(p) PROVE QuotaTypeOK'
  <2>1. [spent[p] EXCEPT !.blocked = TRUE] \in Counters
    BY <1>a DEF Counters
  <2>2. [spent[p] EXCEPT !.tools = @ + 1] \in Counters
    BY <1>a DEF Counters
  <2>3. \/ spent' = [spent EXCEPT ![p] = [spent[p] EXCEPT !.blocked = TRUE]]
        \/ spent' = [spent EXCEPT ![p] = [spent[p] EXCEPT !.tools = @ + 1]]
    BY <1>6 DEF UseTool
  <2>4. spent' \in [Payers -> Counters]
    BY <2>1, <2>2, <2>3 DEF QuotaTypeOK
  <2> QED BY <1>6, <2>4 DEF UseTool, QuotaTypeOK, storeVars
<1>7. ASSUME NEW p \in Payers, EndRun(p) PROVE QuotaTypeOK'
  BY <1>7, LeavesTyped DEF EndRun, QuotaTypeOK, storeVars, Entries
<1>8. ASSUME NEW p \in Payers, AddReads(p) PROVE QuotaTypeOK'
  BY <1>8 DEF AddReads, QuotaTypeOK, Goes, PayerStates, storeVars
<1>9. ASSUME NEW p \in Payers, AddWrites(p) PROVE QuotaTypeOK'
  <2> DEFINE l == Added(copy[p], due[p])
  <2>1. l \in [Days -> Entries] /\ l[due[p].day] \in Usage /\ Newest(l) \in [Days -> Entries]
    BY <1>a, LedgerTypes
  <2>2. Added(charged, due[p]) \in [Days -> Usage]
    BY <1>a, <1>b, ChargedTypes
  <2> HIDE DEF l
  <2>3. Leaves(p) \/ Settles(p, l)
    BY <1>9 DEF AddWrites, l
  <2>4. ledger' = Newest(l) /\ charged' = Added(charged, due[p]) /\ UNCHANGED <<backend, today, fresh, abandoned>>
    BY <1>9 DEF AddWrites, l
  <2> QED BY <2>1, <2>2, <2>3, <2>4, LeavesTyped, SettlesTyped DEF QuotaTypeOK, Entries
<1>10. ASSUME NEW p \in Payers, AbandonAdd(p) PROVE QuotaTypeOK'
  BY <1>10 DEF AbandonAdd, QuotaTypeOK, Goes, PayerStates
<1>11. ASSUME NEW p \in Payers, AddInDatabase(p) PROVE QuotaTypeOK'
  <2>1. /\ ledger' = Added(ledger, due[p]) /\ ledger' \in [Days -> Entries]
        /\ ledger'[due[p].day] \in Usage /\ charged' \in [Days -> Usage]
    BY <1>11, <1>a, <1>b, LedgerTypes, ChargedTypes DEF AddInDatabase
  <2>2. Settles(p, ledger') /\ UNCHANGED <<backend, today, fresh, abandoned>>
    BY <1>11 DEF AddInDatabase
  <2> QED BY <2>1, <2>2, SettlesTyped DEF QuotaTypeOK, Entries
<1>12. CASE NextDay
  BY <1>12, QuotaNumbers DEF NextDay, QuotaTypeOK, storeVars, Days
<1>13. CASE UNCHANGED quotaVars
  BY <1>13 DEF quotaVars, QuotaTypeOK
<1> QED
  BY <1>1, <1>2, <1>3, <1>4, <1>5, <1>6, <1>7, <1>8, <1>9, <1>10, <1>11, <1>12, <1>13 DEF QuotaNext

-----------------------------------------------------------------------------
(* The ledger keeps the newest.                                            *)

LEMMA HeldFinite ==
    ASSUME NEW l, NEW d \in Days
    PROVE  IsFiniteSet(HeldAfter(l, d)) /\ Cardinality(HeldAfter(l, d)) \in Nat
<1>1. IsFiniteSet(Days)
  BY QuotaNumbers, FS_Interval DEF Days
<1>2. HeldAfter(l, d) \in SUBSET Days
  BY DEF HeldAfter
<1> QED BY <1>1, <1>2, FS_Subset, FS_CardinalityType

LEMMA MoreHeld ==
    ASSUME NEW l, NEW m, NEW d \in Days, HeldAfter(l, d) \subseteq HeldAfter(m, d)
    PROVE  Cardinality(HeldAfter(l, d)) <= Cardinality(HeldAfter(m, d))
BY HeldFinite, FS_Subset

LEMMA NewestIs ==
    ASSUME NEW l \in [Days -> Entries], NEW d \in Days
    PROVE  Newest(l)[d] = IF Cardinality(HeldAfter(l, d)) < KeepPeriods THEN l[d] ELSE NoEntry
<1>1. HeldAfter(l, d) = {e \in {x \in Days : l[x] # NoEntry} : e > d}
  BY DEF HeldAfter
<1> QED BY <1>1 DEF Newest

\* Of the entries after a day, as many as are to be kept are kept.
LEMMA NewestKeeps ==
    ASSUME NEW l \in [Days -> Entries], NEW d \in Days,
           Cardinality(HeldAfter(l, d)) >= KeepPeriods
    PROVE  Cardinality(HeldAfter(Newest(l), d)) >= KeepPeriods
<1> DEFINE S == HeldAfter(l, d)
           T == HeldAfter(Newest(l), d)
<1>1. T \subseteq S
  BY NewestIs DEF HeldAfter
<1>2. /\ IsFiniteSet(S) /\ IsFiniteSet(T) /\ Cardinality(S) \in Nat /\ Cardinality(T) \in Nat
      /\ KeepPeriods \in Nat /\ S \subseteq Days /\ T \subseteq Days /\ d \in Nat
  BY HeldFinite, QuotaNumbers DEF HeldAfter
<1> SUFFICES ASSUME Cardinality(T) < KeepPeriods PROVE FALSE
  BY <1>2
<1>3. S \ T # {}
  BY <1>1, <1>2
<1>4. PICK m \in S \ T : \A e \in S \ T : e <= m
  <2>1. S \ T \in SUBSET Nat
    BY <1>2, QuotaNumbers
  <2>2. \A e \in S \ T : e <= LastDay
    BY <1>2 DEF Days
  <2>3. LastDay \in Nat
    BY QuotaNumbers
  <2> HIDE DEF S, T
  <2> QED BY <1>3, <2>1, <2>2, <2>3, GreatestNat
<1>5. m \in Days /\ m > d /\ l[m] # NoEntry /\ m \in Nat
  BY <1>4, QuotaNumbers DEF HeldAfter
<1>6. HeldAfter(l, m) \subseteq T
  <2> SUFFICES ASSUME NEW e \in HeldAfter(l, m) PROVE e \in T
    OBVIOUS
  <2>1. e \in Days /\ e \in Nat /\ e > m /\ l[e] # NoEntry
    BY QuotaNumbers DEF HeldAfter
  <2>2. e \in S
    BY <1>2, <1>5, <2>1 DEF HeldAfter
  <2> QED BY <1>4, <1>5, <2>1, <2>2
<1>7. Cardinality(HeldAfter(l, m)) < KeepPeriods
  BY <1>2, <1>5, <1>6, HeldFinite, FS_Subset
<1>8. Newest(l)[m] = l[m]
  BY <1>5, <1>7, NewestIs
<1> QED BY <1>4, <1>5, <1>8 DEF HeldAfter

\* An add that goes to the file as it is keeps what the file says true.
LEMMA AddKeeps ==
    ASSUME NEW l \in [Days -> Entries], NEW c \in [Days -> Usage], NEW charge \in Charges,
           \A d \in Days : Keeps(l, c, d), NEW d \in Days
    PROVE  Keeps(Newest(Added(l, charge)), Added(c, charge), d)
<1> DEFINE L == Added(l, charge)
           C == Added(c, charge)
           day == charge.day
<1>1. /\ L \in [Days -> Entries] /\ L[day] = Plus(UsageOf(l, day), charge.sum) /\ L[day] \in Usage
      /\ \A e \in Days : e # day => L[e] = l[e]
      /\ C[day] = Plus(c[day], charge.sum) /\ \A e \in Days : e # day => C[e] = c[e]
      /\ day \in Days
  BY LedgerTypes, ChargedTypes DEF Charges
<1> HIDE DEF L, C
<1>2. L[day] # NoEntry /\ \A e \in Days : l[e] # NoEntry => L[e] # NoEntry
  BY <1>1, QuotaValues
<1>3. Cardinality(HeldAfter(l, d)) <= Cardinality(HeldAfter(L, d))
  <2>1. HeldAfter(l, d) \subseteq HeldAfter(L, d)
    BY <1>2 DEF HeldAfter
  <2> QED BY <2>1, MoreHeld
<1>4. Newest(L)[d] = IF Cardinality(HeldAfter(L, d)) < KeepPeriods THEN L[d] ELSE NoEntry
  BY <1>1, NewestIs
<1>5. Keeps(l, c, d) /\ Cardinality(HeldAfter(l, d)) \in Nat /\ Cardinality(HeldAfter(L, d)) \in Nat
      /\ KeepPeriods \in Nat
  BY HeldFinite, QuotaNumbers
<1>6. ASSUME Newest(L)[d] # NoEntry PROVE Newest(L)[d] = C[d]
  <2>1. Newest(L)[d] = L[d] /\ Cardinality(HeldAfter(L, d)) < KeepPeriods
    BY <1>4, <1>6
  <2>2. CASE d # day
    BY <1>1, <1>5, <1>6, <2>1, <2>2 DEF Keeps
  <2>3. CASE d = day
    <3>1. UsageOf(l, d) = c[d]
      BY <1>3, <1>5, <2>1 DEF Keeps, UsageOf
    <3> QED BY <1>1, <2>1, <2>3, <3>1
  <2> QED BY <2>2, <2>3
<1>7. ASSUME Newest(L)[d] = NoEntry, C[d] # NoUsage
      PROVE  Cardinality(HeldAfter(Newest(L), d)) >= KeepPeriods
  <2>1. Cardinality(HeldAfter(L, d)) >= KeepPeriods
    <3>1. CASE Cardinality(HeldAfter(L, d)) < KeepPeriods
      <4>1. L[d] = NoEntry
        BY <1>4, <1>7, <3>1
      <4>2. d # day /\ l[d] = NoEntry /\ c[d] # NoUsage
        BY <1>1, <1>2, <1>7, <4>1
      <4> QED BY <1>3, <1>5, <4>2 DEF Keeps
    <3> QED BY <1>5, <3>1
  <2> QED BY <1>1, <2>1, NewestKeeps
<1> QED BY <1>6, <1>7 DEF Keeps, L, C

\* The database keeps all periods.
LEMMA AddKeepsAll ==
    ASSUME NEW l \in [Days -> Entries], NEW c \in [Days -> Usage], NEW charge \in Charges,
           NEW d \in Days, Keeps(l, c, d), l[d] = NoEntry => c[d] = NoUsage
    PROVE  /\ Keeps(Added(l, charge), Added(c, charge), d)
           /\ Added(l, charge)[d] = NoEntry => Added(c, charge)[d] = NoUsage
<1>1. CASE d # charge.day
  <2>1. Added(l, charge)[d] = l[d] /\ Added(c, charge)[d] = c[d]
    BY <1>1, LedgerTypes, ChargedTypes
  <2> QED BY <2>1 DEF Keeps
<1>2. CASE d = charge.day
  <2>1. UsageOf(l, d) = c[d]
    BY DEF UsageOf, Keeps
  <2>2. Added(l, charge)[d] = Added(c, charge)[d] /\ Added(l, charge)[d] # NoEntry
    BY <1>2, <2>1, LedgerTypes, ChargedTypes, QuotaValues
  <2> QED BY <2>2 DEF Keeps
<1> QED BY <1>1, <1>2

\* Nothing is newer than today's entry, so it is kept and complete.
LEMMA TodayIsKept ==
    ASSUME QuotaTypeOK, LedgerOK
    PROVE  HeldAfter(ledger, today) = {} /\ UsageOf(ledger, today) = charged[today]
<1>1. today \in Days /\ charged \in [Days -> Usage] /\ KeepPeriods \in Nat \ {0}
  BY QuotaNumbers DEF QuotaTypeOK
<1>2. HeldAfter(ledger, today) = {}
  BY DEF LedgerOK, HeldAfter
<1>3. ~(Cardinality(HeldAfter(ledger, today)) >= KeepPeriods)
  BY <1>1, <1>2, FS_EmptySet
<1>4. ledger[today] = NoEntry => charged[today] = NoUsage
  BY <1>1, <1>3 DEF LedgerOK, Keeps
<1>5. ledger[today] # NoEntry => ledger[today] = charged[today]
  BY <1>1 DEF LedgerOK, Keeps
<1> QED BY <1>2, <1>4, <1>5 DEF UsageOf

-----------------------------------------------------------------------------
(* Counting who is through.                                                *)

LEMMA CountingPayers ==
    ASSUME NEW S \in SUBSET Payers, NEW T \in SUBSET Payers, S \subseteq T
    PROVE  /\ Cardinality(S) \in Nat /\ Cardinality(T) \in Nat /\ Cardinality(S) <= Cardinality(T)
           /\ \A p \in T \ S : Cardinality(S) + 1 <= Cardinality(T)
<1>1. IsFiniteSet(S) /\ IsFiniteSet(T)
  BY QuotaNumbers, FS_Subset
<1>2. Cardinality(S) <= Cardinality(T) /\ Cardinality(S) \in Nat /\ Cardinality(T) \in Nat
  BY <1>1, FS_Subset, FS_CardinalityType
<1>3. ASSUME NEW p \in T \ S PROVE Cardinality(S) + 1 <= Cardinality(T)
  <2>1. Cardinality(S \cup {p}) = Cardinality(S) + 1
    BY <1>1, <1>3, FS_AddElement
  <2>2. Cardinality(S \cup {p}) <= Cardinality(T)
    BY <1>1, <1>3, FS_Subset
  <2> QED BY <2>1, <2>2
<1> QED BY <1>2, <1>3

LEMMA Times ==
    ASSUME NEW a \in Nat, NEW b \in Nat, NEW n \in Nat, a <= b
    PROVE  /\ a * n \in Nat /\ b * n \in Nat /\ a * n <= b * n
           /\ a + 1 <= b => a * n + n <= b * n
<1>1. PICK k \in Nat : b = a + k
  <2>1. b - a \in Nat /\ b = a + (b - a)
    OBVIOUS
  <2> QED BY <2>1
<1>2. b * n = a * n + k * n /\ a * n \in Nat /\ k * n \in Nat
  BY <1>1
<1>3. ASSUME a + 1 <= b PROVE a * n + n <= b * n
  <2>1. PICK j \in Nat : k = j + 1
    <3>1. k - 1 \in Nat /\ k = (k - 1) + 1
      BY <1>1, <1>3
    <3> QED BY <3>1
  <2>2. k * n = j * n + n /\ j * n \in Nat
    BY <2>1
  <2> QED BY <1>2, <2>2
<1> QED BY <1>2, <1>3

\* The day's tokens stay within, or one run more is through.
LEMMA TokensStep ==
    ASSUME NEW d \in Days, TokensWithin(d), charged[d].tokens \in Nat, charged'[d].tokens \in Nat,
           \/ charged'[d].tokens < QuotaTokens
           \/ /\ charged'[d].tokens = charged[d].tokens
              /\ \A q \in Payers : MayCharge(q, d)' => MayCharge(q, d)
           \/ /\ charged'[d].tokens <= charged[d].tokens + Dearest
              /\ \A q \in Payers : MayCharge(q, d)' => MayCharge(q, d)
              /\ \E p \in Payers : MayCharge(p, d) /\ ~MayCharge(p, d)'
    PROVE  TokensWithin(d)'
<1> DEFINE S == Through(d)
           T == Through(d)'
<1>1. S \in SUBSET Payers /\ T \in SUBSET Payers
  BY DEF Through
<1>2. Cardinality(S) \in Nat /\ Cardinality(T) \in Nat /\ Dearest \in Nat /\ QuotaTokens \in Nat
  BY <1>1, CountingPayers, QuotaNumbers
<1>3. Cardinality(S) * Dearest \in Nat /\ Cardinality(T) * Dearest \in Nat
  BY <1>2, Times
<1>4. charged[d].tokens < QuotaTokens + Cardinality(S) * Dearest
  BY DEF TokensWithin
<1>5. CASE charged'[d].tokens < QuotaTokens
  BY <1>2, <1>3, <1>5 DEF TokensWithin
<1>6. CASE /\ charged'[d].tokens = charged[d].tokens
           /\ \A q \in Payers : MayCharge(q, d)' => MayCharge(q, d)
  <2>1. S \subseteq T
    BY <1>6 DEF Through
  <2>2. Cardinality(S) * Dearest <= Cardinality(T) * Dearest
    BY <1>1, <1>2, <2>1, CountingPayers, Times
  <2>3. charged'[d].tokens < QuotaTokens + Cardinality(T) * Dearest
    BY <1>2, <1>3, <1>4, <1>6, <2>2
  <2> QED BY <2>3 DEF TokensWithin
<1>7. CASE /\ charged'[d].tokens <= charged[d].tokens + Dearest
           /\ \A q \in Payers : MayCharge(q, d)' => MayCharge(q, d)
           /\ \E p \in Payers : MayCharge(p, d) /\ ~MayCharge(p, d)'
  <2>1. S \subseteq T /\ \E p \in Payers : p \in T \ S
    BY <1>7 DEF Through
  <2>2. Cardinality(S) * Dearest + Dearest <= Cardinality(T) * Dearest
    BY <1>1, <1>2, <2>1, CountingPayers, Times
  <2>3. charged'[d].tokens < QuotaTokens + Cardinality(T) * Dearest
    BY <1>2, <1>3, <1>4, <1>7, <2>2
  <2> QED BY <2>3 DEF TokensWithin
<1> QED BY <1>5, <1>6, <1>7

LEMMA TasksStep ==
    ASSUME NEW d \in Days, TasksWithin(d), charged[d].tasks \in Nat, charged'[d].tasks \in Nat,
           \/ charged'[d].tasks < QuotaTasks
           \/ /\ charged'[d].tasks = charged[d].tasks
              /\ \A q \in Payers : MayCount(q, d)' => MayCount(q, d)
           \/ /\ charged'[d].tasks <= charged[d].tasks + 1
              /\ \A q \in Payers : MayCount(q, d)' => MayCount(q, d)
              /\ \E p \in Payers : MayCount(p, d) /\ ~MayCount(p, d)'
    PROVE  TasksWithin(d)'
<1> DEFINE S == Counted(d)
           T == Counted(d)'
<1>1. S \in SUBSET Payers /\ T \in SUBSET Payers
  BY DEF Counted
<1>2. Cardinality(S) \in Nat /\ Cardinality(T) \in Nat /\ QuotaTasks \in Nat
  BY <1>1, CountingPayers, QuotaNumbers
<1>3. charged[d].tasks < QuotaTasks + Cardinality(S)
  BY DEF TasksWithin
<1>4. CASE charged'[d].tasks < QuotaTasks
  BY <1>2, <1>4 DEF TasksWithin
<1>5. CASE /\ charged'[d].tasks = charged[d].tasks
           /\ \A q \in Payers : MayCount(q, d)' => MayCount(q, d)
  <2>1. S \subseteq T
    BY <1>5 DEF Counted
  <2>2. Cardinality(S) <= Cardinality(T)
    BY <1>1, <2>1, CountingPayers
  <2>3. charged'[d].tasks < QuotaTasks + Cardinality(T)
    BY <1>2, <1>3, <1>5, <2>2
  <2> QED BY <2>3 DEF TasksWithin
<1>6. CASE /\ charged'[d].tasks <= charged[d].tasks + 1
           /\ \A q \in Payers : MayCount(q, d)' => MayCount(q, d)
           /\ \E p \in Payers : MayCount(p, d) /\ ~MayCount(p, d)'
  <2>1. S \subseteq T /\ \E p \in Payers : p \in T \ S
    BY <1>6 DEF Counted
  <2>2. Cardinality(S) + 1 <= Cardinality(T)
    BY <1>1, <2>1, CountingPayers
  <2>3. charged'[d].tasks < QuotaTasks + Cardinality(T)
    BY <1>2, <1>3, <1>6, <2>2
  <2> QED BY <2>3 DEF TasksWithin
<1> QED BY <1>4, <1>5, <1>6

-----------------------------------------------------------------------------
(* The steps.                                                              *)

QuotaSound ==
    /\ \A p \in Payers : DueOK(p) /\ AddOK(p)
    /\ LedgerOK
    /\ \A d \in Days : TokensWithin(d) /\ TasksWithin(d)

LEMMA UsageNumbers ==
    ASSUME QuotaTypeOK
    PROVE  /\ \A d \in Days : charged[d].tokens \in Nat /\ charged[d].tasks \in Nat
           /\ \A p \in Payers : /\ due[p] \in Charges /\ due[p].day \in Days /\ due[p].sum \in Usage
                                /\ due[p].sum.tokens \in Nat /\ due[p].sum.tasks \in Nat
                                /\ seen[p].tokens \in Nat /\ payer[p] \in PayerStates
           /\ today \in Days /\ today \in Nat /\ ledger \in [Days -> Entries] /\ charged \in [Days -> Usage]
BY QuotaNumbers DEF QuotaTypeOK, Usage, Charges, Entries

\* A step of one run that leaves the store alone.
LEMMA PayerStep ==
    ASSUME QuotaTypeOK, QuotaTypeOK', QuotaSound, NEW p \in Payers, UNCHANGED <<today, storeVars>>,
           \A q \in Payers \ {p} : /\ payer'[q] = payer[q] /\ due'[q] = due[q]
                                   /\ seen'[q] = seen[q] /\ copy'[q] = copy[q],
           DueOK(p)', AddOK(p)',
           \A d \in Days : charged[d].tokens < QuotaTokens \/ (MayCharge(p, d)' => MayCharge(p, d)),
           \A d \in Days : charged[d].tasks < QuotaTasks \/ (MayCount(p, d)' => MayCount(p, d))
    PROVE  QuotaSound'
<1>1. charged' = charged /\ ledger' = ledger /\ backend' = backend /\ today' = today
  BY DEF storeVars
<1>2. ASSUME NEW q \in Payers \ {p} PROVE DueOK(q)' /\ AddOK(q)'
  BY <1>1, <1>2 DEF QuotaSound, DueOK, AddOK
<1>3. LedgerOK'
  BY <1>1 DEF QuotaSound, LedgerOK, Keeps, HeldAfter
<1>4. ASSUME NEW d \in Days PROVE TokensWithin(d)' /\ TasksWithin(d)'
  <2>1. \A q \in Payers \ {p} : MayCharge(q, d)' = MayCharge(q, d) /\ MayCount(q, d)' = MayCount(q, d)
    BY <1>1 DEF MayCharge, MayCount, Pending
  <2>2. TokensWithin(d) /\ TasksWithin(d)
    BY DEF QuotaSound
  <2>3. charged'[d].tokens \in Nat /\ charged'[d].tasks \in Nat
    BY UsageNumbers, <1>1
  <2> QED BY <1>1, <2>1, <2>2, <2>3, TokensStep, TasksStep
<1> QED BY <1>2, <1>3, <1>4 DEF QuotaSound

\* A charge that reaches the store: the run learns the total of its day.
LEMMA SettleStep ==
    ASSUME QuotaTypeOK, QuotaTypeOK', QuotaSound, NEW p \in Payers, Pending(p), NEW l, Settles(p, l),
           charged' = Added(charged, due[p]), UNCHANGED <<backend, today>>,
           due[p].day = today => l[due[p].day] = charged'[due[p].day],
           \A q \in Payers \ {p} : payer[q] # "adding",
           LedgerOK'
    PROVE  QuotaSound'
<1> DEFINE day == due[p].day
<1>1. /\ day \in Days /\ day \in Nat /\ today \in Nat /\ day <= today
      /\ due[p].sum.tokens \in Nat /\ due[p].sum.tokens <= Dearest /\ due[p].sum.tasks \in {0, 1}
      /\ charged'[day] = Plus(charged[day], due[p].sum)
      /\ \A d \in Days : d # day => charged'[d] = charged[d]
      /\ \A d \in Days : /\ charged[d].tokens \in Nat /\ charged'[d].tokens \in Nat
                         /\ charged[d].tasks \in Nat /\ charged'[d].tasks \in Nat
  <2>1. /\ due[p] \in Charges /\ day \in Days /\ today \in Nat /\ due[p].sum.tokens \in Nat
        /\ charged \in [Days -> Usage] /\ charged' \in [Days -> Usage]
    BY UsageNumbers DEF QuotaTypeOK
  <2>2. day <= today /\ due[p].sum.tokens \in Prices \cup {0} /\ due[p].sum.tasks \in {0, 1}
    BY DEF QuotaSound, DueOK
  <2>3. /\ charged'[day] = Plus(charged[day], due[p].sum)
        /\ \A d \in Days : d # day => charged'[d] = charged[d]
    BY <2>1, ChargedTypes
  <2>4. \A d \in Days : /\ charged[d].tokens \in Nat /\ charged'[d].tokens \in Nat
                         /\ charged[d].tasks \in Nat /\ charged'[d].tasks \in Nat
    <3>1. \A u \in Usage : u.tokens \in Nat /\ u.tasks \in Nat
      BY DEF Usage
    <3>2. \A d \in Days : charged[d] \in Usage /\ charged'[d] \in Usage
      BY <2>1
    <3> QED BY <3>1, <3>2
  <2>5. day \in Nat
    BY <2>1, QuotaNumbers
  <2>6. due[p].sum.tokens <= Dearest
    <3>1. Dearest \in Nat /\ \A n \in Prices : n <= Dearest
      BY QuotaNumbers
    <3> QED BY <2>2, <3>1
  <2> QED BY <2>1, <2>2, <2>3, <2>4, <2>5, <2>6
<1>2. /\ charged'[day].tokens = charged[day].tokens + due[p].sum.tokens
      /\ charged'[day].tasks = charged[day].tasks + due[p].sum.tasks
  BY <1>1 DEF Plus
<1>3. /\ payer'[p] = "working" /\ due'[p] = NoCharge /\ seen'[p] = l[day]
      /\ \A q \in Payers \ {p} : payer'[q] = payer[q] /\ due'[q] = due[q] /\ seen'[q] = seen[q]
  BY DEF Settles, Goes, QuotaTypeOK
<1>4. \A q \in Payers : DueOK(q)' /\ AddOK(q)'
  <2>1. DueOK(p)' /\ AddOK(p)'
    BY <1>3, UsageNumbers DEF DueOK, AddOK, NoCharge, NoUsage, Days
  <2>2. ASSUME NEW q \in Payers \ {p} PROVE DueOK(q)' /\ AddOK(q)'
    BY <1>3, <2>2 DEF QuotaSound, DueOK, AddOK
  <2> QED BY <2>1, <2>2
<1>5. ASSUME NEW d \in Days PROVE TokensWithin(d)'
  <2>1. \A q \in Payers \ {p} : MayCharge(q, d)' = MayCharge(q, d)
    BY <1>3 DEF MayCharge, Pending
  <2>2. MayCharge(p, d)' => d = today /\ l[day].tokens < QuotaTokens
    BY <1>3 DEF MayCharge, Pending
  <2>3. TokensWithin(d) /\ Dearest \in Nat /\ QuotaTokens \in Nat
    BY QuotaNumbers DEF QuotaSound
  <2>4. CASE d = day /\ due[p].sum.tokens > 0
    <3>1. MayCharge(p, d)
      BY <2>4 DEF MayCharge
    <3>2. MayCharge(p, d)' => charged'[d].tokens < QuotaTokens
      BY <2>2, <2>4
    <3> QED BY <1>1, <1>2, <2>1, <2>3, <2>4, <3>1, <3>2, TokensStep
  <2>5. CASE d = day /\ due[p].sum.tokens = 0
    <3>1. MayCharge(p, d)' => charged'[d].tokens < QuotaTokens
      BY <2>2, <2>5
    <3> QED BY <1>1, <1>2, <2>1, <2>3, <2>5, <3>1, TokensStep
  <2>6. CASE d # day
    <3>1. MayCharge(p, d)' => MayCharge(p, d)
      BY <1>1, <2>2, <2>6 DEF MayCharge
    <3> QED BY <1>1, <2>1, <2>3, <2>6, <3>1, TokensStep
  <2> QED BY <1>1, <2>4, <2>5, <2>6
<1>6. ASSUME NEW d \in Days PROVE TasksWithin(d)'
  <2>1. \A q \in Payers \ {p} : MayCount(q, d)' = MayCount(q, d)
    BY <1>3 DEF MayCount, Pending
  <2>2. ~MayCount(p, d)'
    BY <1>3 DEF MayCount, Pending
  <2>3. TasksWithin(d)
    BY DEF QuotaSound
  <2>4. CASE d = day /\ due[p].sum.tasks = 1
    <3>1. MayCount(p, d)
      BY <2>4 DEF MayCount
    <3> QED BY <1>1, <1>2, <2>1, <2>2, <2>3, <2>4, <3>1, TasksStep
  <2>5. CASE d # day \/ due[p].sum.tasks = 0
    BY <1>1, <1>2, <2>1, <2>2, <2>3, <2>5, TasksStep
  <2> QED BY <1>1, <2>4, <2>5
<1> QED BY <1>4, <1>5, <1>6 DEF QuotaSound

\* A run that is nowhere near the store owes nothing.
LEMMA OutsideStep ==
    ASSUME QuotaTypeOK, QuotaTypeOK', QuotaSound, NEW p \in Payers, UNCHANGED <<today, storeVars>>,
           NEW s \in {"idle", "paused", "starting"}, payer' = [payer EXCEPT ![p] = s],
           due' = due \/ due' = [due EXCEPT ![p] = NoCharge],
           \A q \in Payers \ {p} : seen'[q] = seen[q] /\ copy'[q] = copy[q]
    PROVE  QuotaSound'
<1>1. payer'[p] = s /\ \A q \in Payers \ {p} : payer'[q] = payer[q] /\ due'[q] = due[q]
  BY DEF QuotaTypeOK
<1>2. DueOK(p)'
  <2>1. due'[p] = due[p] \/ due'[p] = NoCharge
    BY DEF QuotaTypeOK
  <2> QED BY <1>1, <2>1, UsageNumbers DEF QuotaSound, DueOK, NoCharge, NoUsage, Days
<1>3. AddOK(p)' /\ \A d \in Days : ~MayCharge(p, d)' /\ ~MayCount(p, d)'
  BY <1>1 DEF AddOK, MayCharge, MayCount, Pending
<1> QED BY <1>1, <1>2, <1>3, PayerStep

LEMMA LeavesStep ==
    ASSUME QuotaTypeOK, QuotaTypeOK', QuotaSound, NEW p \in Payers, UNCHANGED <<today, storeVars>>, Leaves(p)
    PROVE  QuotaSound'
<1>1. \A q \in Payers \ {p} : seen'[q] = seen[q] /\ copy'[q] = copy[q]
  BY DEF Leaves, QuotaTypeOK
<1> QED BY <1>1, OutsideStep DEF Leaves, Goes

LEMMA QuotaSoundKept ==
    ASSUME QuotaTypeOK, QuotaTypeOK', QuotaSound, ~abandoned, ~abandoned', [QuotaNext]_quotaVars
    PROVE  QuotaSound'
<1>a. \A p \in Payers : DueOK(p) /\ AddOK(p)
  BY DEF QuotaSound
<1>1. ASSUME NEW p \in Payers, StartTask(p) \/ ResumeTask(p) \/ PauseRun(p) PROVE QuotaSound'
  BY <1>1, OutsideStep DEF StartTask, ResumeTask, PauseRun, Goes
<1>2. ASSUME NEW p \in Payers, EndRun(p) PROVE QuotaSound'
  BY <1>2, LeavesStep DEF EndRun
<1>3. ASSUME NEW p \in Payers, CheckQuota(p) PROVE QuotaSound'
  <2>1. CASE Leaves(p)
    BY <1>3, <2>1, LeavesStep DEF CheckQuota
  <2>2. CASE ~Leaves(p)
    <3> DEFINE used == UsageOf(ledger, today)
    <3>1. used = charged[today] /\ today \in Days
      BY TodayIsKept, UsageNumbers DEF QuotaSound
    <3>2. /\ ~(fresh[p] /\ QuotaExceeded(used, TRUE)) /\ ~Exhausted(spent[p], used)
          /\ seen' = [seen EXCEPT ![p] = used] /\ UNCHANGED <<copy, today, storeVars>>
          /\ \/ fresh[p] /\ Charge(p, [tokens |-> 0, tasks |-> 1])
             \/ Goes(p, "working") /\ UNCHANGED due
      BY <1>3, <2>2 DEF CheckQuota
    <3>3. used.tokens < QuotaTokens /\ (fresh[p] => used.tasks < QuotaTasks)
      BY <3>1, <3>2, UsageNumbers, QuotaNumbers DEF Exhausted, QuotaExceeded
    <3> HIDE DEF used
    <3>4. /\ seen'[p] = used /\ \A q \in Payers \ {p} : seen'[q] = seen[q] /\ payer'[q] = payer[q] /\ due'[q] = due[q]
          /\ \/ /\ payer'[p] = "charging" /\ fresh[p]
                /\ due'[p] = [day |-> today, sum |-> [tokens |-> 0, tasks |-> 1]]
             \/ payer'[p] = "working" /\ due'[p] = due[p]
      BY <3>2 DEF QuotaTypeOK, Charge, Goes
    <3>5. DueOK(p)' /\ AddOK(p)'
      BY <1>a, <3>2, <3>4, UsageNumbers DEF DueOK, AddOK
    <3>6. ASSUME NEW d \in Days PROVE charged[d].tokens < QuotaTokens \/ (MayCharge(p, d)' => MayCharge(p, d))
      BY <3>1, <3>2, <3>3, <3>4 DEF MayCharge, Pending
    <3>7. ASSUME NEW d \in Days PROVE charged[d].tasks < QuotaTasks \/ (MayCount(p, d)' => MayCount(p, d))
      BY <3>1, <3>2, <3>3, <3>4 DEF MayCount, Pending
    <3> QED BY <3>2, <3>4, <3>5, <3>6, <3>7, PayerStep
  <2> QED BY <2>1, <2>2
<1>4. ASSUME NEW p \in Payers, AskModel(p) PROVE QuotaSound'
  <2>1. CASE Leaves(p)
    BY <1>4, <2>1, LeavesStep DEF AskModel
  <2>2. CASE ~Leaves(p)
    <3>1. /\ payer[p] = "working" /\ ~Exhausted(spent[p], seen[p]) /\ Goes(p, "asking")
          /\ UNCHANGED <<seen, due, copy, today, storeVars>>
      BY <1>4, <2>2 DEF AskModel
    <3>2. seen[p].tokens < QuotaTokens
      BY <3>1, UsageNumbers, QuotaNumbers DEF Exhausted, QuotaExceeded
    <3>3. payer'[p] = "asking" /\ \A q \in Payers \ {p} : payer'[q] = payer[q]
      BY <3>1 DEF Goes, QuotaTypeOK
    <3>4. DueOK(p)' /\ AddOK(p)'
      BY <1>a, <3>1, <3>2, <3>3 DEF DueOK, AddOK
    <3>5. \A d \in Days : (MayCharge(p, d)' => MayCharge(p, d)) /\ (MayCount(p, d)' => MayCount(p, d))
      BY <3>1, <3>3 DEF MayCharge, MayCount, Pending
    <3> QED BY <3>1, <3>3, <3>4, <3>5, PayerStep
  <2> QED BY <2>1, <2>2
<1>5. ASSUME NEW p \in Payers, ModelAnswers(p) PROVE QuotaSound'
  <2>1. PICK n \in Prices : Charge(p, [tokens |-> n, tasks |-> 0])
    BY <1>5 DEF ModelAnswers
  <2>2. payer[p] = "asking" /\ UNCHANGED <<today, storeVars, seen, copy>> /\ seen[p].tokens < QuotaTokens
    BY <1>5, <1>a DEF ModelAnswers, DueOK
  <2>3. /\ payer'[p] = "charging" /\ due'[p] = [day |-> today, sum |-> [tokens |-> n, tasks |-> 0]]
        /\ \A q \in Payers \ {p} : payer'[q] = payer[q] /\ due'[q] = due[q]
    BY <2>1 DEF Charge, Goes, QuotaTypeOK
  <2>4. DueOK(p)' /\ AddOK(p)'
    BY <2>2, <2>3, UsageNumbers DEF DueOK, AddOK
  <2>5. \A d \in Days : (MayCharge(p, d)' => MayCharge(p, d)) /\ ~MayCount(p, d)'
    BY <2>2, <2>3, UsageNumbers DEF MayCharge, MayCount, Pending
  <2> QED BY <2>2, <2>3, <2>4, <2>5, PayerStep
<1>6. ASSUME NEW p \in Payers, UseTool(p) PROVE QuotaSound'
  <2>1. UNCHANGED <<today, storeVars, payer, seen, due, copy>>
    BY <1>6 DEF UseTool
  <2>2. DueOK(p)' /\ AddOK(p)' /\ \A d \in Days : MayCharge(p, d)' = MayCharge(p, d) /\ MayCount(p, d)' = MayCount(p, d)
    BY <1>a, <2>1 DEF DueOK, AddOK, MayCharge, MayCount, Pending, storeVars
  <2> QED BY <2>1, <2>2, PayerStep
<1>7. ASSUME NEW p \in Payers, AddReads(p) PROVE QuotaSound'
  <2>1. /\ payer[p] = "charging" /\ backend = "local" /\ \A q \in Payers : payer[q] # "adding"
        /\ UNCHANGED <<today, storeVars, seen, due>>
    BY <1>7 DEF AddReads, StoreLocked
  <2>2. /\ payer'[p] = "adding" /\ copy'[p] = ledger
        /\ \A q \in Payers \ {p} : payer'[q] = payer[q] /\ copy'[q] = copy[q]
    BY <1>7 DEF AddReads, Goes, QuotaTypeOK
  <2>3. DueOK(p)'
    BY <1>a, <2>1, <2>2 DEF DueOK
  <2>4. AddOK(p)'
    BY <2>1, <2>2 DEF AddOK, storeVars
  <2>5. \A d \in Days : (MayCharge(p, d)' => MayCharge(p, d)) /\ (MayCount(p, d)' => MayCount(p, d))
    BY <2>1, <2>2 DEF MayCharge, MayCount, Pending
  <2> QED BY <2>1, <2>2, <2>3, <2>4, <2>5, PayerStep
<1>8. ASSUME NEW p \in Payers, AddWrites(p) PROVE QuotaSound'
  <2> DEFINE l == Added(ledger, due[p])
  <2>1. /\ payer[p] = "adding" /\ backend = "local" /\ copy[p] = ledger
        /\ \A q \in Payers \ {p} : payer[q] # "adding"
    BY <1>8, <1>a DEF AddWrites, AddOK
  <2>2. /\ ledger' = Newest(l) /\ charged' = Added(charged, due[p]) /\ Settles(p, l)
        /\ UNCHANGED <<backend, today>>
    BY <1>8, <2>1 DEF AddWrites
  <2>3. /\ due[p] \in Charges /\ ledger \in [Days -> Entries] /\ charged \in [Days -> Usage]
        /\ l \in [Days -> Entries] /\ due[p].day \in Days /\ due[p].day <= today
        /\ l[due[p].day] = Plus(UsageOf(ledger, due[p].day), due[p].sum)
        /\ \A d \in Days : d # due[p].day => l[d] = ledger[d] /\ Added(charged, due[p])[d] = charged[d]
        /\ Added(charged, due[p])[due[p].day] = Plus(charged[due[p].day], due[p].sum)
    <3>1. /\ due[p] \in Charges /\ ledger \in [Days -> Entries] /\ charged \in [Days -> Usage]
          /\ due[p].day \in Days /\ due[p].day <= today
      BY <1>a, UsageNumbers DEF DueOK
    <3>2. /\ l \in [Days -> Entries] /\ l[due[p].day] = Plus(UsageOf(ledger, due[p].day), due[p].sum)
          /\ \A d \in Days : d # due[p].day => l[d] = ledger[d]
      BY <3>1, LedgerTypes
    <3>3. /\ \A d \in Days : d # due[p].day => Added(charged, due[p])[d] = charged[d]
          /\ Added(charged, due[p])[due[p].day] = Plus(charged[due[p].day], due[p].sum)
      BY <3>1, ChargedTypes
    <3> QED BY <3>1, <3>2, <3>3
  <2>4. \A d \in Days : Keeps(ledger', charged', d)
    BY <2>2, <2>3, AddKeeps DEF QuotaSound, LedgerOK
  <2>5. \A d \in Days : d > today => ledger'[d] = NoEntry /\ charged'[d] = NoUsage
    <3> SUFFICES ASSUME NEW d \in Days, d > today PROVE ledger'[d] = NoEntry /\ charged'[d] = NoUsage
      OBVIOUS
    <3>1. d # due[p].day
      BY <2>3, UsageNumbers, QuotaNumbers
    <3>2. l[d] = NoEntry /\ charged[d] = NoUsage
      BY <2>3, <3>1 DEF QuotaSound, LedgerOK
    <3>3. Newest(l)[d] = NoEntry
      BY <2>3, <3>2, NewestIs
    <3> QED BY <2>2, <2>3, <3>1, <3>2, <3>3
  <2>6. LedgerOK'
    BY <2>1, <2>2, <2>4, <2>5 DEF LedgerOK
  <2>7. due[p].day = today => l[due[p].day] = charged'[due[p].day]
    BY <2>2, <2>3, TodayIsKept DEF QuotaSound
  <2> HIDE DEF l
  <2> QED BY <2>1, <2>2, <2>6, <2>7, SettleStep DEF Pending
<1>9. ASSUME NEW p \in Payers, AddInDatabase(p) PROVE QuotaSound'
  <2>1. /\ payer[p] = "charging" /\ backend = "mongodb" /\ ledger' = Added(ledger, due[p])
        /\ charged' = Added(charged, due[p]) /\ Settles(p, ledger') /\ UNCHANGED <<backend, today>>
    BY <1>9 DEF AddInDatabase
  <2>2. \A q \in Payers : payer[q] # "adding"
    BY <1>a, <2>1 DEF AddOK
  <2>3. /\ due[p] \in Charges /\ ledger \in [Days -> Entries] /\ charged \in [Days -> Usage]
        /\ due[p].day \in Days /\ due[p].day <= today
        /\ ledger'[due[p].day] = Plus(UsageOf(ledger, due[p].day), due[p].sum)
        /\ \A d \in Days : d # due[p].day => ledger'[d] = ledger[d] /\ charged'[d] = charged[d]
        /\ charged'[due[p].day] = Plus(charged[due[p].day], due[p].sum)
    BY <1>a, <2>1, UsageNumbers, LedgerTypes, ChargedTypes DEF DueOK
  <2>4. \A d \in Days : Keeps(ledger, charged, d) /\ (ledger[d] = NoEntry => charged[d] = NoUsage)
    BY <2>1 DEF QuotaSound, LedgerOK
  <2>5. \A d \in Days : Keeps(ledger', charged', d) /\ (ledger'[d] = NoEntry => charged'[d] = NoUsage)
    BY <2>1, <2>3, <2>4, AddKeepsAll
  <2>6. \A d \in Days : d > today => ledger'[d] = NoEntry /\ charged'[d] = NoUsage
    <3> SUFFICES ASSUME NEW d \in Days, d > today PROVE ledger'[d] = NoEntry /\ charged'[d] = NoUsage
      OBVIOUS
    <3>1. d # due[p].day
      BY <2>3, UsageNumbers, QuotaNumbers
    <3> QED BY <2>3, <3>1 DEF QuotaSound, LedgerOK
  <2>7. LedgerOK'
    BY <2>1, <2>5, <2>6 DEF LedgerOK
  <2>8. due[p].day = today => ledger'[due[p].day] = charged'[due[p].day]
    BY <2>1, <2>3, TodayIsKept DEF QuotaSound
  <2> QED BY <2>1, <2>2, <2>7, <2>8, SettleStep DEF Pending
<1>10. ASSUME NEW p \in Payers, AbandonAdd(p) PROVE FALSE
  BY <1>10 DEF AbandonAdd
<1>11. CASE NextDay
  <2>1. today' = today + 1 /\ UNCHANGED <<storeVars, payer, seen, due, copy>>
    BY <1>11 DEF NextDay
  <2>2. \A d \in Days : d \in Nat
    BY QuotaNumbers
  <2>3. \A p \in Payers : DueOK(p)' /\ AddOK(p)'
    BY <1>a, <2>1, <2>2, UsageNumbers DEF DueOK, AddOK, storeVars
  <2>4. LedgerOK'
    BY <2>1, <2>2, UsageNumbers DEF QuotaSound, LedgerOK, Keeps, HeldAfter, storeVars
  <2>5. ASSUME NEW d \in Days PROVE TokensWithin(d)' /\ TasksWithin(d)'
    <3>1. charged'[d] = charged[d] /\ charged'[d].tokens \in Nat /\ charged'[d].tasks \in Nat
      BY <2>1, UsageNumbers DEF storeVars
    <3>2. \A q \in Payers : MayCount(q, d)' = MayCount(q, d)
      BY <2>1 DEF MayCount, Pending
    <3>3. CASE d = today'
      <4>1. charged'[d].tokens < QuotaTokens
        BY <2>1, <3>1, <3>3, UsageNumbers, QuotaNumbers DEF QuotaSound, LedgerOK, NoUsage
      <4> QED BY <3>1, <3>2, <4>1, TokensStep, TasksStep DEF QuotaSound
    <3>4. CASE d # today'
      <4>1. \A q \in Payers : MayCharge(q, d)' => MayCharge(q, d)
        BY <2>1, <3>4 DEF MayCharge, Pending
      <4> QED BY <3>1, <3>2, <4>1, TokensStep, TasksStep DEF QuotaSound
    <3> QED BY <3>3, <3>4
  <2> QED BY <2>3, <2>4, <2>5 DEF QuotaSound
<1>12. CASE UNCHANGED quotaVars
  BY <1>12 DEF quotaVars, QuotaSound, DueOK, AddOK, LedgerOK, Keeps, HeldAfter, TokensWithin, TasksWithin,
     Through, Counted, MayCharge, MayCount, Pending
<1> QED
  BY <1>1, <1>2, <1>3, <1>4, <1>5, <1>6, <1>7, <1>8, <1>9, <1>10, <1>11, <1>12 DEF QuotaNext

LEMMA QuotaSoundInit == ASSUME QuotaInit PROVE QuotaTypeOK /\ QuotaSound
<1>1. QuotaTypeOK
  BY QuotaValues, QuotaNumbers DEF QuotaInit, QuotaTypeOK, PayerStates, Entries
<1>2. \A p \in Payers : DueOK(p) /\ AddOK(p)
  BY DEF QuotaInit, DueOK, AddOK, NoCharge, NoUsage
<1>3. LedgerOK
  BY DEF QuotaInit, LedgerOK, Keeps, NoLedger
<1>4. ASSUME NEW d \in Days PROVE TokensWithin(d) /\ TasksWithin(d)
  <2>1. charged[d].tokens = 0 /\ charged[d].tasks = 0
    BY DEF QuotaInit, NoUsage
  <2>2. Through(d) \in SUBSET Payers /\ Counted(d) \in SUBSET Payers
    BY DEF Through, Counted
  <2>3. Cardinality(Through(d)) \in Nat /\ Cardinality(Counted(d)) \in Nat
    BY <2>2, CountingPayers
  <2>4. Cardinality(Through(d)) * Dearest \in Nat
    BY <2>3, QuotaNumbers, Times
  <2> QED BY <2>1, <2>3, <2>4, QuotaNumbers DEF TokensWithin, TasksWithin
<1> QED BY <1>1, <1>2, <1>3, <1>4 DEF QuotaSound

\* The quota holds, up to what runs at once may add to it, and the store
\* remembers every charge of the periods it keeps.
THEOREM QuotaIsKept == QuotaSpec => []QuotaKept
<1> DEFINE QuotaIInv == QuotaTypeOK /\ abandoned \in BOOLEAN /\ (~abandoned => QuotaSound)
<1>1. QuotaInit => QuotaIInv
  BY QuotaSoundInit DEF QuotaTypeOK
<1>2. ASSUME QuotaIInv, [QuotaNext]_quotaVars PROVE QuotaIInv'
  <2>1. QuotaTypeOK'
    BY <1>2, QuotaTyped
  <2>2. abandoned => abandoned'
    BY <1>2 DEF QuotaNext, quotaVars, storeVars, StartTask, ResumeTask, CheckQuota, AskModel, ModelAnswers,
       UseTool, EndRun, PauseRun, AddReads, AddWrites, AbandonAdd, AddInDatabase, NextDay
  <2> QED BY <1>2, <2>1, <2>2, QuotaSoundKept DEF QuotaTypeOK
<1>3. ASSUME QuotaIInv PROVE QuotaKept
  <2> SUFFICES ASSUME ~abandoned PROVE QuotaKept
    BY DEF QuotaKept, OvershootBounded, ChargesKept
  <2>1. ASSUME NEW d \in Days
        PROVE  /\ charged[d].tokens < QuotaTokens + Cardinality(Payers) * Dearest
               /\ charged[d].tasks < QuotaTasks + Cardinality(Payers)
    <3>1. Through(d) \in SUBSET Payers /\ Counted(d) \in SUBSET Payers
      BY DEF Through, Counted
    <3>2. /\ Cardinality(Through(d)) \in Nat /\ Cardinality(Counted(d)) \in Nat /\ Cardinality(Payers) \in Nat
          /\ Cardinality(Through(d)) <= Cardinality(Payers) /\ Cardinality(Counted(d)) <= Cardinality(Payers)
      BY <3>1, CountingPayers
    <3>3. /\ Cardinality(Through(d)) * Dearest \in Nat /\ Cardinality(Payers) * Dearest \in Nat
          /\ Cardinality(Through(d)) * Dearest <= Cardinality(Payers) * Dearest
      BY <3>2, QuotaNumbers, Times
    <3>4. TokensWithin(d) /\ TasksWithin(d)
      BY <1>3 DEF QuotaSound
    <3>5. charged[d].tokens \in Nat /\ charged[d].tasks \in Nat /\ QuotaTokens \in Nat /\ QuotaTasks \in Nat
      BY <1>3, UsageNumbers, QuotaNumbers
    <3> QED BY <3>2, <3>3, <3>4, <3>5 DEF TokensWithin, TasksWithin
  <2>2. \A d \in Days : Keeps(ledger, charged, d)
    BY <1>3 DEF QuotaSound, LedgerOK
  <2> QED BY <2>1, <2>2 DEF QuotaKept, OvershootBounded, ChargesKept, Keeps, HeldAfter
<1> HIDE DEF QuotaIInv
<1> QED BY <1>1, <1>2, <1>3, PTL DEF QuotaSpec

-----------------------------------------------------------------------------
(* An MCP connection.                                                      *)

-----------------------------------------------------------------------------
(* The inductive invariant.                                                *)

Lives == {"opening", "serving", "closing", "failing", "ended", "died"}
Places == {"idle", "connecting", "connected", "waiting", "answered", "failed", "lost", "unavailable",
           "cancelled"}

McpSorts ==
    /\ worker \in Seq(Lives) /\ requests \in Seq(ServerCallers \cup {EndMark})
    /\ ran \in [ServerCallers -> Nat]
    /\ McpTypeOK

\* One worker at a time is the server's or the attempt's.
OneWorker ==
    /\ connecting # 0 => current = 0
    /\ current # 0 => worker[current] # "opening"
    /\ disconnecting = "awaiting" => awaited # 0
    /\ \A g \in Workers : Alive(g) => g \in {current, connecting} \/ (disconnecting = "awaiting" /\ awaited = g)

\* Calls run in workers that have not ended.
CallsHeld == \A f \in flight : worker[f[1]] \in {"serving", "closing", "failing"}

Waited ==
    \A c \in ServerCallers : asker[c] = "waiting" =>
        \/ \E g \in Workers : Alive(g) /\ <<g, c>> \in flight
        \/ c \in ToSet(requests) /\ (c \in unheard \/ \E g \in Workers : Alive(g) /\ worker[g] # "opening")

\* What does not only read is asked once: it is nowhere before that, and in
\* the queue at one place until a worker takes it.
AskedOnce ==
    \A c \in ServerCallers \ Readers :
        /\ ran[c] <= 1
        /\ c \in ToSet(requests) => ran[c] = 0
        /\ asker[c] \in {"idle", "connecting", "connected"} => ran[c] = 0 /\ c \notin ToSet(requests)
        /\ \A i, j \in 1..Len(requests) : requests[i] = c /\ requests[j] = c => i = j

McpIInv == McpSorts /\ OneWorker /\ CallsHeld /\ Waited /\ AskedOnce

-----------------------------------------------------------------------------
(* What the parts of the actions do.                                       *)

LEMMA Lives1 ==
    ASSUME McpSorts
    PROVE  /\ worker \in [1..Len(worker) -> Lives] /\ Len(worker) \in Nat /\ Workers = 1..Len(worker)
           /\ \A g \in Workers : worker[g] \in Lives /\ g # 0
           /\ requests \in [1..Len(requests) -> ServerCallers \cup {EndMark}] /\ Len(requests) \in Nat
           /\ ToSet(requests) = {requests[i] : i \in 1..Len(requests)}
           /\ asker \in [ServerCallers -> Places] /\ sends \in [ServerCallers -> Nat]
           /\ MaxSends \in Nat /\ disconnects \in Nat /\ MaxDisconnects \in Nat
BY McpAssumption DEF McpSorts, McpTypeOK, Workers, ToSet, Places

\* A worker that lives on as something else.
LEMMA Changes ==
    ASSUME McpSorts, NEW g \in Workers, NEW life \in Lives, worker' = [worker EXCEPT ![g] = life]
    PROVE  /\ worker' \in Seq(Lives) /\ Workers' = Workers /\ worker'[g] = life
           /\ \A h \in Workers : h # g => worker'[h] = worker[h]
<1>1. worker \in Seq(Lives) /\ Workers = 1..Len(worker)
  BY Lives1 DEF McpSorts
<1> QED
  BY <1>1 DEF Workers

\* A request put, and a request taken.
LEMMA Puts ==
    ASSUME McpSorts, NEW r \in ServerCallers \cup {EndMark}, requests' = Append(requests, r)
    PROVE  /\ requests' \in Seq(ServerCallers \cup {EndMark})
           /\ ToSet(requests') = ToSet(requests) \cup {r}
           /\ Len(requests') = Len(requests) + 1 /\ requests'[Len(requests) + 1] = r
           /\ \A i \in 1..Len(requests) : requests'[i] = requests[i]
<1>1. requests \in Seq(ServerCallers \cup {EndMark}) /\ Len(requests) \in Nat
  BY Lives1 DEF McpSorts
<1>2. /\ requests' \in Seq(ServerCallers \cup {EndMark})
      /\ Len(requests') = Len(requests) + 1 /\ requests'[Len(requests) + 1] = r
      /\ \A i \in 1..Len(requests) : requests'[i] = requests[i]
  BY <1>1
<1>3. DOMAIN requests = 1..Len(requests) /\ DOMAIN requests' = 1..(Len(requests) + 1)
  BY <1>1, <1>2
<1>4. ToSet(requests) \cup {r} \subseteq ToSet(requests')
  BY <1>1, <1>2, <1>3 DEF ToSet
<1>5. ASSUME NEW i \in DOMAIN requests' PROVE requests'[i] \in ToSet(requests) \cup {r}
  BY <1>1, <1>2, <1>3, <1>5 DEF ToSet
<1> QED
  BY <1>2, <1>4, <1>5 DEF ToSet

LEMMA Takes ==
    ASSUME McpSorts, requests # <<>>, requests' = Tail(requests)
    PROVE  /\ requests' \in Seq(ServerCallers \cup {EndMark})
           /\ Head(requests) = requests[1] /\ Head(requests) \in ServerCallers \cup {EndMark}
           /\ Head(requests) \in ToSet(requests) /\ Len(requests) > 0
           /\ ToSet(requests) = ToSet(requests') \cup {Head(requests)}
           /\ Len(requests') = Len(requests) - 1
           /\ \A i \in 1..Len(requests') : requests'[i] = requests[i + 1]
<1>1. requests \in Seq(ServerCallers \cup {EndMark}) /\ Len(requests) \in Nat /\ Len(requests) > 0
  BY Lives1 DEF McpSorts
<1>2. /\ requests' \in Seq(ServerCallers \cup {EndMark}) /\ Head(requests) = requests[1]
      /\ Len(requests') = Len(requests) - 1
      /\ \A i \in 1..Len(requests') : requests'[i] = requests[i + 1]
  BY <1>1
<1>3. DOMAIN requests = 1..Len(requests) /\ DOMAIN requests' = 1..(Len(requests) - 1)
  BY <1>1, <1>2
<1>4. Head(requests) \in ServerCallers \cup {EndMark} /\ Head(requests) \in ToSet(requests)
  BY <1>1, <1>2, <1>3 DEF ToSet
<1>5. ASSUME NEW i \in DOMAIN requests' PROVE requests'[i] \in ToSet(requests)
  BY <1>1, <1>2, <1>3 DEF ToSet
<1>6. ASSUME NEW i \in DOMAIN requests PROVE requests[i] \in ToSet(requests') \cup {Head(requests)}
  <2>1. CASE i = 1
    BY <1>2, <2>1
  <2>2. CASE i # 1
    <3>1. i - 1 \in 1..Len(requests') /\ requests'[i - 1] = requests[(i - 1) + 1] /\ (i - 1) + 1 = i
      BY <1>1, <1>2, <1>3, <2>2
    <3> QED
      BY <1>2, <1>3, <3>1 DEF ToSet
  <2> QED
    BY <2>1, <2>2
<1> QED
  BY <1>1, <1>2, <1>4, <1>5, <1>6 DEF ToSet

LEMMA Nothing == Drained \in Seq(ServerCallers \cup {EndMark}) /\ ToSet(Drained) = {} /\ Len(Drained) = 0
BY DEF Drained, ToSet

\* Where a step may put the callers it tells something.
LEMMA Moves ==
    ASSUME McpSorts, NEW S
    PROVE  /\ \A p \in Places : Become(S, p) \in [ServerCallers -> Places]
           /\ \A p \in Places, c \in ServerCallers : Become(S, p)[c] = IF c \in S THEN p ELSE asker[c]
           /\ Lost(S) \in [ServerCallers -> Places]
           /\ \A c \in ServerCallers :
                 /\ c \notin S => Lost(S)[c] = asker[c]
                 /\ c \in S => Lost(S)[c] \in {"idle", "lost"} /\ (c \notin Readers => Lost(S)[c] = "lost")
BY Lives1 DEF Become, Lost, MayRepeat, Places

-----------------------------------------------------------------------------
(* Types.                                                                  *)

LEMMA McpStarts == ASSUME McpInit PROVE McpIInv
<1>1. worker = <<>> /\ requests = <<>> /\ Workers = {} /\ ToSet(requests) = {} /\ Len(requests) = 0
  BY DEF McpInit, Workers, ToSet
<1>2. worker \in Seq(Lives) /\ requests \in Seq(ServerCallers \cup {EndMark})
  BY <1>1
<1>3. McpSorts
  <2>1. /\ sends \in [ServerCallers -> 0..MaxSends] /\ ran \in [ServerCallers -> Nat]
        /\ disconnects \in 0..MaxDisconnects
    BY McpAssumption DEF McpInit
  <2>2. Workers = {}
    BY <1>1
  <2>3. /\ current = 0 /\ connecting = 0 /\ refusing = FALSE /\ flight = {} /\ unheard = {}
        /\ disconnecting = "no" /\ awaited = 0
        /\ asker \in [ServerCallers -> {"idle", "connecting", "connected", "waiting", "answered", "failed",
                                        "lost", "unavailable", "cancelled"}]
    BY DEF McpInit
  <2>4. McpTypeOK
    BY <2>1, <2>2, <2>3 DEF McpTypeOK
  <2> QED
    BY <1>2, <2>1, <2>4 DEF McpSorts
<1> QED
  BY <1>1, <1>3 DEF McpInit, McpIInv, OneWorker, CallsHeld, Waited, AskedOnce

LEMMA CallersKeepSorts ==
    ASSUME McpSorts, NEW c \in ServerCallers, AskServer(c) \/ PutRequest(c) \/ CallerLeaves(c)
    PROVE  McpSorts'
<1>0. McpTypeOK
  BY DEF McpSorts
<1>1. CASE CallerLeaves(c)
  <2>1. asker' \in [ServerCallers -> Places]
    BY <1>1, Moves DEF CallerLeaves, Places
  <2>2. UNCHANGED <<worker, current, connecting, refusing, requests, sends, flight, ran, unheard,
                    disconnecting, awaited, disconnects>>
    BY <1>1 DEF CallerLeaves
  <2> QED
    BY <1>0, <2>1, <2>2 DEF McpSorts, McpTypeOK, Workers, Places
<1>2. CASE PutRequest(c)
  <2>1. requests' \in Seq(ServerCallers \cup {EndMark})
    BY <1>2, Puts DEF PutRequest
  <2>2. asker' \in [ServerCallers -> Places]
    BY <1>2, Moves DEF PutRequest, Places
  <2> QED
    BY <1>0, <1>2, <2>1, <2>2 DEF PutRequest, McpSorts, McpTypeOK, Workers, Places
<1>3. CASE AskServer(c)
  <2>1. sends' \in [ServerCallers -> 0..MaxSends]
    BY <1>0, <1>3, Lives1 DEF AskServer, McpTypeOK
  <2>2. asker' \in [ServerCallers -> Places]
    BY <1>3, Moves DEF AskServer, Places
  <2>3. requests' \in Seq(ServerCallers \cup {EndMark})
    BY <1>3, Puts DEF AskServer, McpSorts
  <2>4. CASE UNCHANGED <<worker, connecting, current>>
    BY <1>0, <1>3, <2>1, <2>2, <2>3, <2>4 DEF AskServer, McpSorts, McpTypeOK, Workers, Places
  <2>5. CASE worker' = Append(worker, "opening") /\ connecting' = Len(worker) + 1 /\ current' = 0
    <3>1. /\ worker' \in Seq(Lives) /\ Workers' = Workers \cup {Len(worker) + 1}
      BY <2>5 DEF McpSorts, Workers, Lives
    <3>2. \A g \in Workers' : worker'[g] \in Lives
      <4>1. \A s \in Seq(Lives) : \A g \in DOMAIN s : s[g] \in Lives
        OBVIOUS
      <4> QED
        BY <3>1, <4>1 DEF Workers
    <3> QED
      BY <1>0, <1>3, <2>1, <2>2, <2>3, <2>5, <3>1, <3>2 DEF AskServer, McpSorts, McpTypeOK, Places, Lives
  <2> QED
    BY <1>3, <2>4, <2>5 DEF AskServer
<1> QED
  BY <1>1, <1>2, <1>3

LEMMA WorkerKeepsSorts ==
    ASSUME McpSorts, NEW g \in Workers,
           \/ WorkerReady(g) \/ TakeRequest(g) \/ ConnectionDrops(g) \/ CallsCancelled(g) \/ WorkerEnds(g)
           \/ \E c \in ServerCallers : CallEnds(g, c)
    PROVE  McpSorts'
<1>0. McpTypeOK /\ worker \in Seq(Lives)
  BY DEF McpSorts
<1>1. \A life \in Lives : worker' = [worker EXCEPT ![g] = life] =>
          worker' \in Seq(Lives) /\ Workers' = Workers /\ \A h \in Workers : worker'[h] \in Lives
  BY Changes, Lives1
<1>2. CASE WorkerReady(g) \/ ConnectionDrops(g)
  <2>1. worker' \in Seq(Lives) /\ Workers' = Workers /\ \A h \in Workers : worker'[h] \in Lives
    BY <1>1, <1>2 DEF WorkerReady, ConnectionDrops, Lives
  <2> QED
    BY <1>0, <1>2, <2>1 DEF WorkerReady, ConnectionDrops, McpSorts, McpTypeOK, Lives
<1>3. CASE TakeRequest(g)
  <2>1. /\ requests' \in Seq(ServerCallers \cup {EndMark})
        /\ Head(requests) \in ServerCallers \cup {EndMark}
    BY <1>3, Takes DEF TakeRequest
  <2>2. worker' \in Seq(Lives) /\ Workers' = Workers /\ \A h \in Workers : worker'[h] \in Lives
    BY <1>0, <1>1, <1>3, Lives1 DEF TakeRequest, Lives, Workers
  <2>3. Head(requests) # EndMark => Head(requests) \in ServerCallers
    BY <2>1
  <2>4. ran' \in [ServerCallers -> Nat]
    BY <1>3, <2>3 DEF TakeRequest, McpSorts
  <2>5. flight' \subseteq Workers \X ServerCallers /\ unheard' \subseteq ServerCallers
    BY <1>0, <1>3, <2>3 DEF TakeRequest, McpTypeOK
  <2> QED
    BY <1>0, <1>3, <2>1, <2>2, <2>4, <2>5 DEF TakeRequest, McpSorts, McpTypeOK, Lives
<1>4. CASE CallsCancelled(g) \/ \E c \in ServerCallers : CallEnds(g, c)
  <2>1. asker' \in [ServerCallers -> Places]
    <3>1. CASE CallsCancelled(g)
      BY <3>1, Moves DEF CallsCancelled
    <3>2. ASSUME NEW c \in ServerCallers, CallEnds(g, c) PROVE asker' \in [ServerCallers -> Places]
      <4>1. asker' \in {asker, Become({c}, "answered"), Become({c}, "failed"), Lost({c})}
        BY <3>2 DEF CallEnds
      <4> QED
        BY <4>1, Moves, Lives1 DEF Places
    <3> QED
      BY <1>4, <3>1, <3>2
  <2>2. flight' \subseteq flight
    BY <1>4 DEF CallsCancelled, CallEnds
  <2> QED
    BY <1>0, <1>4, <2>1, <2>2 DEF CallsCancelled, CallEnds, McpSorts, McpTypeOK, Workers, Places
<1>5. CASE WorkerEnds(g)
  <2>1. worker' \in Seq(Lives) /\ Workers' = Workers /\ \A h \in Workers : worker'[h] \in Lives
    BY <1>1, <1>5 DEF WorkerEnds, Lives
  <2>2. asker' \in [ServerCallers -> Places] /\ requests' \in Seq(ServerCallers \cup {EndMark})
    BY <1>5, Moves, Nothing DEF WorkerEnds
  <2> QED
    BY <1>0, <1>5, <2>1, <2>2 DEF WorkerEnds, McpSorts, McpTypeOK, Places, Lives
<1> QED
  BY <1>2, <1>3, <1>4, <1>5

\* Either nothing was connected, or its worker is awaited.
LEMMA Marks ==
    ASSUME McpSorts, NEW queue \in Seq(ServerCallers \cup {EndMark}), MarkEnd(queue)
    PROVE  /\ requests' \in Seq(ServerCallers \cup {EndMark})
           /\ current' = 0 /\ refusing' = FALSE /\ disconnecting' \in {"no", "awaiting"}
           /\ awaited' \in {0} \cup Workers
           /\ current # 0 => disconnecting' = "awaiting" /\ awaited' = current
           /\ current = 0 => disconnecting' = "no"
<1>1. Append(queue, EndMark) \in Seq(ServerCallers \cup {EndMark})
  OBVIOUS
<1> QED
  BY <1>1 DEF MarkEnd, McpSorts, McpTypeOK

LEMMA ManagerKeepsSorts ==
    ASSUME McpSorts,
           \/ ConnectionOpen \/ ConnectFails \/ RetryWindowEnds
           \/ Disconnect \/ AttemptCancelled \/ Disconnected
    PROVE  McpSorts'
<1>0. McpTypeOK /\ worker \in Seq(Lives) /\ requests \in Seq(ServerCallers \cup {EndMark})
      /\ MaxDisconnects \in Nat /\ disconnects \in Nat
  BY Lives1 DEF McpSorts
<1>1. connecting # 0 => connecting \in Workers
  BY <1>0 DEF McpTypeOK
<1>2. connecting # 0 /\ worker' = [worker EXCEPT ![connecting] = "died"] =>
          worker' \in Seq(Lives) /\ Workers' = Workers /\ \A h \in Workers : worker'[h] \in Lives
  BY <1>1, Changes, Lives1 DEF Lives
<1>3. CASE ConnectionOpen
  <2>1. asker' \in [ServerCallers -> Places]
    BY <1>3, Moves DEF ConnectionOpen, Places
  <2> QED
    BY <1>0, <1>3, <2>1 DEF ConnectionOpen, McpSorts, McpTypeOK, Workers, Places
<1>4. CASE ConnectFails
  <2>1. worker' \in Seq(Lives) /\ Workers' = Workers /\ \A h \in Workers : worker'[h] \in Lives
    BY <1>2, <1>4 DEF ConnectFails
  <2>2. asker' \in [ServerCallers -> Places]
    BY <1>4, Moves DEF ConnectFails, Places
  <2>3. requests' \in Seq(ServerCallers \cup {EndMark})
    BY <1>4, Nothing DEF ConnectFails
  <2> QED
    BY <1>0, <1>4, <2>1, <2>2, <2>3 DEF ConnectFails, McpSorts, McpTypeOK, Lives, Places
<1>5. CASE RetryWindowEnds \/ Disconnected
  BY <1>0, <1>5 DEF RetryWindowEnds, Disconnected, McpSorts, McpTypeOK, Workers
<1>6. CASE Disconnect
  <2>1. disconnects' \in 0..MaxDisconnects
    BY <1>0, <1>6 DEF Disconnect
  <2>2. CASE connecting # 0
    BY <1>0, <1>6, <2>1, <2>2 DEF Disconnect, McpSorts, McpTypeOK, Workers
  <2>3. CASE connecting = 0
    <3>1. MarkEnd(requests)
      BY <1>6, <2>3 DEF Disconnect
    <3> QED
      BY <1>0, <1>6, <2>1, <2>3, <3>1, Marks DEF Disconnect, McpSorts, McpTypeOK, Workers
  <2> QED
    BY <2>2, <2>3
<1>7. CASE AttemptCancelled
  <2>1. CASE connecting # 0
    <3>1. worker' = [worker EXCEPT ![connecting] = "died"] /\ connecting' = 0 /\ MarkEnd(Drained)
          /\ unheard' = unheard \ Told /\ UNCHANGED <<sends, ran, disconnects>>
          /\ flight' \subseteq flight
      BY <1>7, <2>1 DEF AttemptCancelled
    <3>2. PICK S : asker' = [c \in ServerCallers |-> IF c \in Connecting THEN "cancelled" ELSE Lost(S)[c]]
      BY <1>7, <2>1 DEF AttemptCancelled
    <3>3. asker' \in [ServerCallers -> Places]
      BY <3>2, Moves DEF Places
    <3>4. worker' \in Seq(Lives) /\ Workers' = Workers /\ \A h \in Workers : worker'[h] \in Lives
      BY <1>2, <2>1, <3>1
    <3>5. /\ requests' \in Seq(ServerCallers \cup {EndMark})
          /\ current' = 0 /\ refusing' = FALSE /\ disconnecting' \in {"no", "awaiting"}
          /\ awaited' \in {0} \cup Workers
      BY <3>1, Marks, Nothing
    <3> QED
      BY <1>0, <3>1, <3>3, <3>4, <3>5 DEF McpSorts, McpTypeOK, Lives, Places
  <2>2. CASE connecting = 0
    <3>1. MarkEnd(requests) /\ UNCHANGED <<worker, connecting, asker, flight, unheard, sends, ran, disconnects>>
      BY <1>7, <2>2 DEF AttemptCancelled
    <3> QED
      BY <1>0, <3>1, Marks DEF McpSorts, McpTypeOK, Workers
  <2> QED
    BY <2>1, <2>2
<1> QED
  BY <1>3, <1>4, <1>5, <1>6, <1>7

LEMMA McpSortsKept ==
    ASSUME McpSorts, [McpNext]_mcpVars PROVE McpSorts'
<1>1. CASE UNCHANGED mcpVars
  BY <1>1 DEF mcpVars, McpSorts, McpTypeOK, Workers
<1>2. CASE McpNext
  BY <1>2, CallersKeepSorts, WorkerKeepsSorts, ManagerKeepsSorts DEF McpNext
<1> QED
  BY <1>1, <1>2

\* The records of the connection stay well formed, for any number of callers,
\* workers, tries and disconnects.
THEOREM McpTypeCorrect == McpSpec => []McpTypeOK
<1>1. McpInit => McpSorts
  BY McpStarts DEF McpIInv
<1>2. McpSorts /\ [McpNext]_mcpVars => McpSorts'
  BY McpSortsKept
<1>3. McpSorts => McpTypeOK
  BY DEF McpSorts
<1> QED
  BY <1>1, <1>2, <1>3, PTL DEF McpSpec

-----------------------------------------------------------------------------
(* Who lives, and who waits.                                               *)

LEMMA CallersKeepOneWorker ==
    ASSUME McpSorts, OneWorker, CallsHeld, NEW c \in ServerCallers,
           AskServer(c) \/ PutRequest(c) \/ CallerLeaves(c)
    PROVE  OneWorker' /\ CallsHeld' /\ \A g \in Workers : g \in Workers' /\ worker'[g] = worker[g]
<1>1. CASE UNCHANGED <<worker, current, connecting, flight, disconnecting, awaited>>
  BY <1>1 DEF OneWorker, CallsHeld, Workers, Alive
<1>2. CASE AskServer(c) /\ worker' = Append(worker, "opening")
  <2>1. /\ ~Alive(current) /\ connecting = 0 /\ connecting' = Len(worker) + 1 /\ current' = 0
        /\ UNCHANGED <<flight, disconnecting, awaited>>
    BY <1>2, Lives1 DEF AskServer, McpSorts
  <2>2. /\ Workers' = Workers \cup {Len(worker) + 1} /\ Len(worker) + 1 \notin Workers
        /\ \A g \in Workers : worker'[g] = worker[g] /\ g # 0
    BY <1>2, Lives1 DEF McpSorts, Workers
  <2>3. ASSUME NEW g \in Workers', Alive(g)'
        PROVE  g \in {current', connecting'} \/ (disconnecting' = "awaiting" /\ awaited' = g)
    BY <2>1, <2>2, <2>3 DEF OneWorker, Alive
  <2>4. CallsHeld'
    BY <2>1, <2>2 DEF CallsHeld, McpSorts, McpTypeOK
  <2> QED
    BY <2>1, <2>2, <2>3, <2>4 DEF OneWorker
<1> QED
  BY <1>1, <1>2 DEF AskServer, PutRequest, CallerLeaves

LEMMA WorkerKeepsOneWorker ==
    ASSUME McpSorts, OneWorker, CallsHeld, NEW g \in Workers,
           \/ WorkerReady(g) \/ TakeRequest(g) \/ ConnectionDrops(g) \/ CallsCancelled(g) \/ WorkerEnds(g)
           \/ \E c \in ServerCallers : CallEnds(g, c)
    PROVE  OneWorker' /\ CallsHeld'
<1>1. UNCHANGED <<current, connecting, disconnecting, awaited>>
  BY DEF WorkerReady, TakeRequest, ConnectionDrops, CallsCancelled, WorkerEnds, CallEnds
<1>2. /\ Workers' = Workers /\ (worker[g] \in {"ended", "died"} => worker'[g] = worker[g])
      /\ worker'[g] = "opening" => worker[g] = "opening"
      /\ \A h \in Workers : h # g => worker'[h] = worker[h]
  <2>1. worker' = worker \/ \E life \in Lives \ {"opening"} :
            worker' = [worker EXCEPT ![g] = life] /\ worker[g] \notin {"ended", "died"}
    BY DEF WorkerReady, TakeRequest, ConnectionDrops, CallsCancelled, WorkerEnds, CallEnds, Working, Lives
  <2> QED
    BY <2>1, Changes DEF Workers
<1>3. OneWorker'
  BY <1>1, <1>2 DEF OneWorker, Alive, McpSorts, McpTypeOK
<1>4. CallsHeld'
  <2>1. CASE TakeRequest(g)
    <3>1. \A f \in flight' : f \in flight \/ f[1] = g
      BY <2>1 DEF TakeRequest
    <3>2. worker'[g] \in {"serving", "closing"}
      BY <2>1, Changes DEF TakeRequest, Working, Lives
    <3> QED
      BY <1>2, <3>1, <3>2 DEF CallsHeld, McpSorts, McpTypeOK
  <2>2. CASE WorkerEnds(g)
    <3>1. \A f \in flight' : f \in flight /\ f[1] # g /\ f[1] \in Workers
      <4>1. flight' = flight /\ \A c \in ServerCallers : <<g, c>> \notin flight
        BY <2>2 DEF WorkerEnds
      <4>2. \A f \in flight : f \in Workers \X ServerCallers /\ f = <<f[1], f[2]>> /\ f[2] \in ServerCallers
        BY DEF McpSorts, McpTypeOK
      <4> QED
        BY <4>1, <4>2
    <3> QED
      BY <1>2, <3>1 DEF CallsHeld
  <2>3. CASE WorkerReady(g) \/ ConnectionDrops(g)
    <3>1. worker'[g] \in {"serving", "failing"} /\ flight' = flight
      BY <2>3, Changes DEF WorkerReady, ConnectionDrops, Lives
    <3> QED
      BY <1>2, <3>1 DEF CallsHeld, McpSorts, McpTypeOK
  <2>4. CASE CallsCancelled(g) \/ \E c \in ServerCallers : CallEnds(g, c)
    BY <2>4 DEF CallsHeld, CallsCancelled, CallEnds
  <2> QED
    BY <2>1, <2>2, <2>3, <2>4
<1> QED
  BY <1>3, <1>4

LEMMA ManagerKeepsOneWorker ==
    ASSUME McpSorts, OneWorker, CallsHeld,
           \/ ConnectionOpen \/ ConnectFails \/ RetryWindowEnds
           \/ Disconnect \/ AttemptCancelled \/ Disconnected
    PROVE  OneWorker' /\ CallsHeld'
<1>1. connecting # 0 => connecting \in Workers /\ current = 0
  BY DEF McpSorts, McpTypeOK, OneWorker
<1>2. connecting # 0 /\ worker' = [worker EXCEPT ![connecting] = "died"] =>
          /\ Workers' = Workers /\ worker'[connecting] = "died"
          /\ \A g \in Workers : g # connecting => worker'[g] = worker[g]
  BY <1>1, Changes DEF Lives
<1>3. CASE ConnectionOpen \/ RetryWindowEnds
  BY <1>1, <1>3 DEF ConnectionOpen, RetryWindowEnds, OneWorker, CallsHeld, Workers, Alive
<1>4. CASE Disconnected
  <2>1. awaited \in Workers /\ ~Alive(awaited)
    BY <1>4 DEF Disconnected, OneWorker, McpSorts, McpTypeOK, Alive
  <2> QED
    BY <1>4, <2>1 DEF Disconnected, OneWorker, CallsHeld, Workers, Alive
<1>5. CASE ConnectFails
  <2>1. /\ connecting # 0 /\ worker[connecting] = "opening" /\ worker' = [worker EXCEPT ![connecting] = "died"]
        /\ connecting' = 0 /\ UNCHANGED <<current, flight, disconnecting, awaited>>
    BY <1>5 DEF ConnectFails
  <2>2. CallsHeld'
    BY <1>2, <2>1 DEF CallsHeld, McpSorts, McpTypeOK
  <2> QED
    BY <1>1, <1>2, <2>1, <2>2 DEF OneWorker, Alive
<1>6. CASE Disconnect
  <2>1. UNCHANGED <<worker, connecting, flight>> /\ disconnecting = "no"
    BY <1>6 DEF Disconnect
  <2>2. CASE connecting # 0
    BY <1>1, <1>6, <2>1, <2>2 DEF Disconnect, OneWorker, CallsHeld, Workers, Alive
  <2>3. CASE connecting = 0
    <3>1. MarkEnd(requests)
      BY <1>6, <2>3 DEF Disconnect
    <3>2. /\ current' = 0 /\ disconnecting' \in {"no", "awaiting"}
          /\ current # 0 => disconnecting' = "awaiting" /\ awaited' = current
          /\ current = 0 => disconnecting' = "no"
      BY <3>1, Marks DEF McpSorts
    <3> QED
      BY <2>1, <2>3, <3>2 DEF OneWorker, CallsHeld, Workers, Alive
  <2> QED
    BY <2>2, <2>3
<1>7. CASE AttemptCancelled
  <2>1. disconnecting = "cancelling" /\ connecting' = 0
    BY <1>7 DEF AttemptCancelled
  <2>2. /\ current' = 0 /\ disconnecting' \in {"no", "awaiting"}
        /\ current # 0 => disconnecting' = "awaiting" /\ awaited' = current
        /\ current = 0 => disconnecting' = "no"
    <3>1. MarkEnd(Drained) \/ MarkEnd(requests)
      BY <1>7 DEF AttemptCancelled
    <3> QED
      BY <3>1, Marks, Nothing DEF McpSorts
  <2>3. CASE connecting = 0
    <3>1. UNCHANGED <<worker, flight>>
      BY <1>7, <2>3 DEF AttemptCancelled
    <3> QED
      BY <2>1, <2>2, <2>3, <3>1 DEF OneWorker, CallsHeld, Workers, Alive
  <2>4. CASE connecting # 0
    <3>1. /\ worker' = [worker EXCEPT ![connecting] = "died"]
          /\ flight' = {f \in flight : f[1] # connecting}
      BY <1>7, <2>4 DEF AttemptCancelled
    <3>2. CallsHeld'
      BY <1>2, <2>4, <3>1 DEF CallsHeld, McpSorts, McpTypeOK
    <3> QED
      BY <1>1, <1>2, <2>1, <2>2, <2>4, <3>1, <3>2 DEF OneWorker, Alive
  <2> QED
    BY <2>3, <2>4
<1> QED
  BY <1>3, <1>4, <1>5, <1>6, <1>7

LEMMA InQueue ==
    ASSUME McpSorts PROVE \A c \in ServerCallers : c # EndMark
BY McpAssumption

LEMMA CallersKeepWaited ==
    ASSUME McpSorts, OneWorker, CallsHeld, Waited, NEW c \in ServerCallers,
           AskServer(c) \/ PutRequest(c) \/ CallerLeaves(c)
    PROVE  Waited'
<1>0. flight' = flight /\ \A g \in Workers : g # 0 /\ g \in Workers' /\ worker'[g] = worker[g]
  BY Lives1, CallersKeepOneWorker DEF AskServer, PutRequest, CallerLeaves
<1>1. \A d \in ServerCallers : d # c => asker'[d] = asker[d]
  BY Moves DEF AskServer, PutRequest, CallerLeaves, Places
<1>2. ToSet(requests) \subseteq ToSet(requests') /\ unheard \subseteq unheard'
  BY Puts DEF AskServer, PutRequest, CallerLeaves
<1>3. ASSUME NEW d \in ServerCallers, d # c, asker'[d] = "waiting"
      PROVE  \/ \E g \in Workers' : Alive(g)' /\ <<g, d>> \in flight'
             \/ d \in ToSet(requests') /\ (d \in unheard' \/ \E g \in Workers' : Alive(g)' /\ worker'[g] # "opening")
  BY <1>0, <1>1, <1>2, <1>3 DEF Waited, Alive
<1>4. ASSUME asker'[c] = "waiting"
      PROVE  c \in ToSet(requests') /\ (c \in unheard' \/ Alive(current))
  <2>1. CASE CallerLeaves(c)
    BY <1>4, <2>1, Moves DEF CallerLeaves, Places
  <2>2. CASE PutRequest(c)
    BY <2>2, Puts DEF PutRequest
  <2>3. CASE AskServer(c)
    <3>1. ~Alive(current) => asker'[c] # "waiting"
      BY <2>3, Moves DEF AskServer, Places
    <3> QED
      BY <1>4, <2>3, <3>1, Puts DEF AskServer
  <2> QED
    BY <2>1, <2>2, <2>3
<1>5. Alive(current) => current \in Workers /\ Alive(current) /\ worker[current] # "opening"
  BY DEF OneWorker, Alive, McpSorts, McpTypeOK
<1> QED
  BY <1>0, <1>3, <1>4, <1>5 DEF Waited, Alive

LEMMA WorkerKeepsWaited ==
    ASSUME McpSorts, CallsHeld, Waited, NEW g \in Workers,
           \/ WorkerReady(g) \/ TakeRequest(g) \/ ConnectionDrops(g) \/ CallsCancelled(g) \/ WorkerEnds(g)
           \/ \E c \in ServerCallers : CallEnds(g, c)
    PROVE  Waited'
<1>0. g # 0 /\ \A h \in Workers : h # 0
  BY Lives1
<1>1. CASE WorkerReady(g) \/ ConnectionDrops(g)
  <2>1. Workers' = Workers /\ worker'[g] \in {"serving", "failing"}
        /\ \A h \in Workers : h # g => worker'[h] = worker[h]
    BY <1>1, Changes DEF WorkerReady, ConnectionDrops, Lives
  <2> QED
    BY <1>0, <1>1, <2>1 DEF WorkerReady, ConnectionDrops, Waited, Alive
<1>2. CASE TakeRequest(g)
  <2>1. /\ Workers' = Workers /\ worker'[g] \in {"serving", "closing"} /\ asker' = asker /\ flight \subseteq flight'
        /\ \A h \in Workers : h # g => worker'[h] = worker[h]
    BY <1>2, Changes DEF TakeRequest, Working, Lives, Workers
  <2>2. /\ ToSet(requests) = ToSet(requests') \cup {Head(requests)}
        /\ unheard \subseteq unheard' \cup {Head(requests)}
        /\ \A c \in ServerCallers : c = Head(requests) /\ asker[c] = "waiting" => <<g, c>> \in flight'
    BY <1>2, Takes, InQueue DEF TakeRequest
  <2>3. Alive(g)' /\ worker'[g] # "opening"
    BY <1>0, <2>1 DEF Alive
  <2> QED
    BY <1>0, <2>1, <2>2, <2>3 DEF Waited, Alive
<1>3. ASSUME NEW c \in ServerCallers, CallEnds(g, c) PROVE Waited'
  <2>1. UNCHANGED <<worker, requests, unheard>> /\ flight' = flight \ {<<g, c>>}
    BY <1>3 DEF CallEnds
  <2>2. asker'[c] # "waiting" /\ \A d \in ServerCallers : d # c => asker'[d] = asker[d]
    <3>1. CASE asker[c] # "waiting"
      BY <1>3, <3>1 DEF CallEnds
    <3>2. CASE asker[c] = "waiting"
      <4>1. asker' \in {Become({c}, "answered"), Become({c}, "failed"), Lost({c})}
        BY <1>3, <3>2 DEF CallEnds
      <4> QED
        BY <4>1, Moves DEF Places
    <3> QED
      BY <3>1, <3>2
  <2> QED
    BY <2>1, <2>2 DEF Waited, Alive, Workers
<1>4. CASE CallsCancelled(g)
  <2>1. UNCHANGED <<worker, requests, unheard>> /\ flight' = {f \in flight : f[1] # g}
    BY <1>4 DEF CallsCancelled
  <2>2. /\ \A c \in ServerCallers : asker'[c] = "waiting" => asker[c] = "waiting" /\ <<g, c>> \notin flight
    <3> DEFINE S == {c \in ServerCallers : <<g, c>> \in flight /\ asker[c] = "waiting"}
    <3>1. asker' = Lost(S)
      <4>1. S = {c \in {d \in ServerCallers : <<g, d>> \in flight} : asker[c] = "waiting"}
        OBVIOUS
      <4> QED
        BY <1>4, <4>1 DEF CallsCancelled
    <3>2. \A c \in ServerCallers : c \in S \/ Lost(S)[c] = asker[c]
      BY Moves
    <3>3. \A c \in ServerCallers : c \in S => Lost(S)[c] # "waiting"
      BY Moves
    <3> QED
      BY <3>1, <3>2, <3>3
  <2>3. \A h \in Workers, c \in ServerCallers : <<h, c>> \in flight /\ h # g => <<h, c>> \in flight'
    BY <2>1
  <2> QED
    BY <2>1, <2>2, <2>3 DEF Waited, Alive, Workers
<1>5. CASE WorkerEnds(g)
  <2>1. /\ Workers' = Workers /\ flight' = flight /\ \A h \in Workers : h # g => worker'[h] = worker[h]
    BY <1>5, Changes DEF WorkerEnds, Lives
  <2>2. \A c \in ServerCallers : asker'[c] = "waiting" => asker[c] = "waiting" /\ c \notin ToSet(requests)
    <3>1. asker' = Lost(Told)
      BY <1>5 DEF WorkerEnds
    <3>2. \A c \in ServerCallers : c \in ToSet(requests) /\ asker[c] = "waiting" => c \in Told
      BY InQueue, Nothing DEF Told
    <3>3. \A c \in ServerCallers : c \in Told \/ Lost(Told)[c] = asker[c]
      BY Moves
    <3>4. \A c \in ServerCallers : c \in Told => Lost(Told)[c] # "waiting"
      BY Moves
    <3> QED
      BY <3>1, <3>2, <3>3, <3>4
  <2>3. \A c \in ServerCallers : <<g, c>> \notin flight
    BY <1>5 DEF WorkerEnds
  <2> QED
    BY <2>1, <2>2, <2>3 DEF Waited, Alive
<1> QED
  BY <1>1, <1>2, <1>3, <1>4, <1>5

\* Once the queue is drained nobody waits in it.
LEMMA ToldOff ==
    ASSUME McpSorts, NEW S
    PROVE  \A c \in ServerCallers :
              Lost(Told \cup S)[c] = "waiting" => asker[c] = "waiting" /\ c \notin S /\ c \notin ToSet(requests)
<1>1. \A c \in ServerCallers : c \in ToSet(requests) /\ asker[c] = "waiting" => c \in Told
  BY InQueue, Nothing DEF Told
<1>2. \A c \in ServerCallers : c \in Told \cup S \/ Lost(Told \cup S)[c] = asker[c]
  BY Moves
<1>3. \A c \in ServerCallers : c \in Told \cup S => Lost(Told \cup S)[c] # "waiting"
  BY Moves
<1> QED
  BY <1>1, <1>2, <1>3

LEMMA ManagerKeepsWaited ==
    ASSUME McpSorts, OneWorker, CallsHeld, Waited,
           \/ ConnectionOpen \/ ConnectFails \/ RetryWindowEnds
           \/ Disconnect \/ AttemptCancelled \/ Disconnected
    PROVE  Waited'
<1>0. connecting # 0 => connecting \in Workers
  BY DEF McpSorts, McpTypeOK
<1>1. CASE ConnectionOpen
  <2>1. \A c \in ServerCallers : asker'[c] = "waiting" => asker[c] = "waiting"
    BY <1>1, Moves DEF ConnectionOpen, Places
  <2> QED
    BY <1>1, <2>1 DEF ConnectionOpen, Waited, Alive, Workers
<1>2. CASE RetryWindowEnds \/ Disconnected
  BY <1>2 DEF RetryWindowEnds, Disconnected, Waited, Alive, Workers
<1>3. CASE ConnectFails
  <2>1. /\ worker' = [worker EXCEPT ![connecting] = "died"] /\ flight' = flight
        /\ worker[connecting] = "opening" /\ connecting \in Workers
        /\ asker' = [c \in ServerCallers |-> IF c \in Connecting THEN "unavailable" ELSE Lost(Told)[c]]
    BY <1>0, <1>3 DEF ConnectFails
  <2>2. /\ Workers' = Workers /\ \A h \in Workers : h # connecting => worker'[h] = worker[h]
    BY <2>1, Changes DEF Lives
  <2>3. \A c \in ServerCallers : asker'[c] = "waiting" => asker[c] = "waiting" /\ c \notin ToSet(requests)
    <3>1. Told \cup {} = Told
      OBVIOUS
    <3> QED
      BY <2>1, <3>1, ToldOff
  <2>4. \A c \in ServerCallers : <<connecting, c>> \notin flight
    BY <2>1 DEF CallsHeld
  <2> QED
    BY <2>1, <2>2, <2>3, <2>4 DEF Waited, Alive
<1>4. ASSUME MarkEnd(requests), UNCHANGED <<worker, asker, flight, unheard>> PROVE Waited'
  <2>1. ToSet(requests) \subseteq ToSet(requests')
    BY <1>4, Puts DEF MarkEnd
  <2> QED
    BY <1>4, <2>1 DEF Waited, Alive, Workers
<1>5. CASE Disconnect
  <2>1. CASE connecting = 0
    BY <1>4, <1>5, <2>1 DEF Disconnect
  <2>2. CASE connecting # 0
    BY <1>5, <2>2 DEF Disconnect, Waited, Alive, Workers
  <2> QED
    BY <2>1, <2>2
<1>6. CASE AttemptCancelled
  <2>1. CASE connecting = 0
    BY <1>4, <1>6, <2>1 DEF AttemptCancelled
  <2>2. CASE connecting # 0
    <3> DEFINE S == {c \in ServerCallers : <<connecting, c>> \in flight /\ asker[c] = "waiting"}
    <3>1. /\ worker' = [worker EXCEPT ![connecting] = "died"]
          /\ flight' = {f \in flight : f[1] # connecting} /\ connecting \in Workers
          /\ asker' = [c \in ServerCallers |-> IF c \in Connecting THEN "cancelled" ELSE Lost(Told \cup S)[c]]
      BY <1>0, <1>6, <2>2 DEF AttemptCancelled
    <3>2. /\ Workers' = Workers /\ \A h \in Workers : h # connecting => worker'[h] = worker[h]
      BY <3>1, Changes DEF Lives
    <3>3. \A c \in ServerCallers :
              asker'[c] = "waiting" => asker[c] = "waiting" /\ c \notin S /\ c \notin ToSet(requests)
      BY <3>1, ToldOff
    <3>4. \A h \in Workers, c \in ServerCallers : <<h, c>> \in flight /\ h # connecting => <<h, c>> \in flight'
      BY <3>1
    <3>5. \A c \in ServerCallers : asker'[c] = "waiting" => <<connecting, c>> \notin flight
      BY <3>3
    <3>6. ASSUME NEW c \in ServerCallers, asker'[c] = "waiting"
          PROVE  \E g \in Workers' : Alive(g)' /\ <<g, c>> \in flight'
      <4>1. PICK g \in Workers : Alive(g) /\ <<g, c>> \in flight
        BY <3>3, <3>6 DEF Waited
      <4> QED
        BY <3>2, <3>4, <3>5, <3>6, <4>1 DEF Alive
    <3> QED
      BY <3>6 DEF Waited
  <2> QED
    BY <2>1, <2>2
<1> QED
  BY <1>1, <1>2, <1>3, <1>5, <1>6

-----------------------------------------------------------------------------
(* What is asked once.                                                     *)

Early == {"idle", "connecting", "connected"}

\* Nothing is put into the queue but the mark.
LEMMA NoneAdded ==
    ASSUME McpSorts, \/ requests' = requests \/ requests' = Drained
                     \/ requests' = Append(requests, EndMark) \/ requests' = Append(Drained, EndMark)
    PROVE  \A c \in ServerCallers :
              /\ c \in ToSet(requests') => c \in ToSet(requests)
              /\ (\A i, j \in 1..Len(requests) : requests[i] = c /\ requests[j] = c => i = j) =>
                 \A i, j \in 1..Len(requests') : requests'[i] = c /\ requests'[j] = c => i = j
<1>1. CASE requests' = requests \/ requests' = Drained
  BY <1>1, Nothing
<1>2. CASE requests' = Append(requests, EndMark)
  <2>1. /\ ToSet(requests') = ToSet(requests) \cup {EndMark} /\ Len(requests) \in Nat
        /\ Len(requests') = Len(requests) + 1 /\ requests'[Len(requests) + 1] = EndMark
        /\ \A i \in 1..Len(requests) : requests'[i] = requests[i]
    BY <1>2, Puts, Lives1
  <2> QED
    BY <2>1, InQueue
<1>3. CASE requests' = Append(Drained, EndMark)
  <2>1. requests' = <<EndMark>>
    BY <1>3 DEF Drained
  <2>2. Len(requests') = 1 /\ ToSet(requests') = {EndMark}
    BY <2>1 DEF ToSet
  <2> QED
    BY <2>2, InQueue
<1> QED
  BY <1>1, <1>2, <1>3

LEMMA NobodyAsks ==
    ASSUME McpSorts, AskedOnce, ran' = ran,
           \/ requests' = requests \/ requests' = Drained
           \/ requests' = Append(requests, EndMark) \/ requests' = Append(Drained, EndMark),
           \A c \in ServerCallers \ Readers : asker'[c] \in Early => asker[c] \in Early
    PROVE  AskedOnce'
BY NoneAdded DEF AskedOnce, Early

LEMMA CallersAskOnce ==
    ASSUME McpSorts, AskedOnce, NEW c \in ServerCallers, AskServer(c) \/ PutRequest(c) \/ CallerLeaves(c)
    PROVE  AskedOnce'
<1>1. ran' = ran /\ \A d \in ServerCallers : d # c => asker'[d] = asker[d]
  BY Moves DEF AskServer, PutRequest, CallerLeaves, Places
<1>2. (asker'[c] \in Early => asker[c] \in Early) /\ (AskServer(c) \/ PutRequest(c) => asker[c] \in Early)
  BY Moves DEF AskServer, PutRequest, CallerLeaves, Places, Early
<1>3. CASE requests' = requests
  BY <1>1, <1>2, <1>3, NobodyAsks
<1>4. CASE requests' = Append(requests, c) /\ asker' = Become({c}, "waiting") /\ asker[c] \in Early
  <2>1. /\ ToSet(requests') = ToSet(requests) \cup {c} /\ Len(requests) \in Nat
        /\ Len(requests') = Len(requests) + 1 /\ requests'[Len(requests) + 1] = c
        /\ \A i \in 1..Len(requests) : requests'[i] = requests[i] /\ requests[i] \in ToSet(requests)
    BY <1>4, Puts, Lives1
  <2>2. asker'[c] = "waiting"
    BY <1>4, Moves DEF Places
  <2>3. ASSUME NEW d \in ServerCallers \ Readers
        PROVE  \A i, j \in 1..Len(requests') : requests'[i] = d /\ requests'[j] = d => i = j
    <3>1. CASE d = c
      BY <1>4, <2>1, <2>3, <3>1 DEF AskedOnce, Early
    <3>2. CASE d # c
      BY <2>1, <2>3, <3>2 DEF AskedOnce
    <3> QED
      BY <3>1, <3>2
  <2>4. ASSUME NEW d \in ServerCallers \ Readers
        PROVE  /\ ran'[d] <= 1
               /\ d \in ToSet(requests') => ran'[d] = 0
               /\ asker'[d] \in Early => ran'[d] = 0 /\ d \notin ToSet(requests')
    <3>1. CASE d = c
      BY <1>1, <1>4, <2>2, <2>4, <3>1 DEF AskedOnce, Early
    <3>2. CASE d # c
      BY <1>1, <2>1, <2>4, <3>2 DEF AskedOnce, Early
    <3> QED
      BY <3>1, <3>2
  <2> QED
    BY <2>3, <2>4 DEF AskedOnce, Early
<1> QED
  BY <1>2, <1>3, <1>4 DEF AskServer, PutRequest, CallerLeaves

LEMMA WorkerAsksOnce ==
    ASSUME McpSorts, AskedOnce, NEW g \in Workers,
           \/ WorkerReady(g) \/ TakeRequest(g) \/ ConnectionDrops(g) \/ CallsCancelled(g) \/ WorkerEnds(g)
           \/ \E c \in ServerCallers : CallEnds(g, c)
    PROVE  AskedOnce'
<1>1. CASE WorkerReady(g) \/ ConnectionDrops(g)
  BY <1>1, NobodyAsks DEF WorkerReady, ConnectionDrops
<1>2. ASSUME NEW S, asker' = Lost(S)
      PROVE  \A c \in ServerCallers \ Readers : asker'[c] \in Early => asker[c] \in Early
  BY <1>2, Moves DEF Early
<1>3. ASSUME NEW c \in ServerCallers, CallEnds(g, c) PROVE AskedOnce'
  <2>1. asker' \in {asker, Become({c}, "answered"), Become({c}, "failed"), Lost({c})}
    BY <1>3 DEF CallEnds
  <2>2. \A p \in {"answered", "failed"}, d \in ServerCallers :
            Become({c}, p)[d] \in Early => asker[d] \in Early
    BY Moves DEF Places, Early
  <2>3. \A d \in ServerCallers \ Readers : asker'[d] \in Early => asker[d] \in Early
    BY <1>2, <2>1, <2>2
  <2> QED
    BY <1>3, <2>3, NobodyAsks DEF CallEnds
<1>4. CASE CallsCancelled(g) \/ WorkerEnds(g)
  <2>1. \E S : asker' = Lost(S)
    BY <1>4 DEF CallsCancelled, WorkerEnds
  <2>2. \A d \in ServerCallers \ Readers : asker'[d] \in Early => asker[d] \in Early
    BY <1>2, <2>1
  <2> QED
    BY <1>4, <2>2, NobodyAsks DEF CallsCancelled, WorkerEnds
<1>5. CASE TakeRequest(g)
  <2> DEFINE r == Head(requests)
  <2>1. /\ requests # <<>> /\ requests' = Tail(requests) /\ asker' = asker
        /\ r # EndMark /\ asker[r] = "waiting" => ran' = [ran EXCEPT ![r] = @ + 1]
        /\ r = EndMark \/ asker[r] # "waiting" => ran' = ran
    BY <1>5 DEF TakeRequest
  <2>2. /\ r = requests[1] /\ r \in ServerCallers \cup {EndMark} /\ r \in ToSet(requests)
        /\ ToSet(requests) = ToSet(requests') \cup {r} /\ Len(requests) \in Nat /\ Len(requests) > 0
        /\ Len(requests') = Len(requests) - 1
        /\ \A i \in 1..Len(requests') : requests'[i] = requests[i + 1]
    BY <2>1, Takes, Lives1
  <2>3. ASSUME NEW d \in ServerCallers \ Readers
        PROVE  \A i, j \in 1..Len(requests') : requests'[i] = d /\ requests'[j] = d => i = j
    <3>1. SUFFICES ASSUME NEW i \in 1..Len(requests'), NEW j \in 1..Len(requests'),
                          requests'[i] = d, requests'[j] = d
                   PROVE  i = j
      OBVIOUS
    <3>2. i + 1 \in 1..Len(requests) /\ j + 1 \in 1..Len(requests)
          /\ requests[i + 1] = d /\ requests[j + 1] = d
      BY <2>2, <3>1
    <3>3. i + 1 = j + 1
      BY <2>3, <3>2 DEF AskedOnce
    <3> QED
      BY <3>3
  <2>4. ASSUME NEW d \in ServerCallers \ Readers, d = r PROVE d \notin ToSet(requests')
    <3>1. SUFFICES ASSUME NEW i \in DOMAIN requests', requests'[i] = d PROVE FALSE
      BY DEF ToSet
    <3>2. requests' \in Seq(ServerCallers \cup {EndMark})
      BY <2>1, Takes
    <3>3. i \in 1..Len(requests')
      BY <3>2
    <3>4. i + 1 \in 1..Len(requests) /\ requests[i + 1] = d /\ 1 \in 1..Len(requests) /\ requests[1] = d
      BY <2>2, <2>4, <3>1, <3>3
    <3>5. i + 1 = 1
      BY <2>4, <3>4 DEF AskedOnce
    <3> QED
      BY <3>3, <3>5
  <2>5. ASSUME NEW d \in ServerCallers \ Readers
        PROVE  /\ ran'[d] <= 1
               /\ d \in ToSet(requests') => ran'[d] = 0
               /\ asker'[d] \in Early => ran'[d] = 0 /\ d \notin ToSet(requests')
    <3>1. CASE d = r
      <4>1. ran[d] = 0 /\ d # EndMark /\ asker[d] \notin Early /\ ran'[d] \in {0, 1}
        BY <2>1, <2>2, <2>5, <3>1, InQueue DEF AskedOnce, Early, McpSorts
      <4> QED
        BY <2>1, <2>4, <2>5, <3>1, <4>1
    <3>2. CASE d # r
      <4>1. ran'[d] = ran[d]
        BY <2>1, <2>2, <3>2 DEF McpSorts
      <4> QED
        BY <2>1, <2>2, <2>5, <4>1 DEF AskedOnce, Early
    <3> QED
      BY <3>1, <3>2
  <2> QED
    BY <2>3, <2>5 DEF AskedOnce, Early
<1> QED
  BY <1>1, <1>3, <1>4, <1>5

LEMMA ManagerAsksOnce ==
    ASSUME McpSorts, AskedOnce,
           \/ ConnectionOpen \/ ConnectFails \/ RetryWindowEnds
           \/ Disconnect \/ AttemptCancelled \/ Disconnected
    PROVE  AskedOnce'
<1>1. \A c \in ServerCallers \ Readers : asker'[c] \in Early => asker[c] \in Early
  <2>1. CASE ConnectionOpen
    BY <2>1, Moves DEF ConnectionOpen, Connecting, Places, Early
  <2>2. CASE ConnectFails
    BY <2>2, Moves DEF ConnectFails, Connecting, Early
  <2>3. CASE AttemptCancelled
    <3>1. CASE connecting = 0
      BY <2>3, <3>1 DEF AttemptCancelled
    <3>2. CASE connecting # 0
      <4>1. PICK S : asker' = [c \in ServerCallers |-> IF c \in Connecting THEN "cancelled" ELSE Lost(S)[c]]
        BY <2>3, <3>2 DEF AttemptCancelled
      <4> QED
        BY <4>1, Moves DEF Early
    <3> QED
      BY <3>1, <3>2
  <2>4. CASE RetryWindowEnds \/ Disconnect \/ Disconnected
    BY <2>4 DEF RetryWindowEnds, Disconnect, Disconnected
  <2> QED
    BY <2>1, <2>2, <2>3, <2>4
<1>2. ran' = ran
  BY DEF ConnectionOpen, ConnectFails, RetryWindowEnds, Disconnect, AttemptCancelled, Disconnected
<1>3. \/ requests' = requests \/ requests' = Drained
      \/ requests' = Append(requests, EndMark) \/ requests' = Append(Drained, EndMark)
  BY DEF ConnectionOpen, ConnectFails, RetryWindowEnds, Disconnect, AttemptCancelled, Disconnected, MarkEnd
<1> QED
  BY <1>1, <1>2, <1>3, NobodyAsks

-----------------------------------------------------------------------------
LEMMA McpKept ==
    ASSUME McpIInv, [McpNext]_mcpVars PROVE McpIInv'
<1>1. CASE UNCHANGED mcpVars
  <2>1. McpSorts' /\ AskedOnce'
    BY <1>1, McpSortsKept, NobodyAsks DEF mcpVars, McpIInv
  <2>2. OneWorker' /\ CallsHeld' /\ Waited'
    BY <1>1 DEF mcpVars, McpIInv, OneWorker, CallsHeld, Waited, Workers, Alive
  <2> QED
    BY <2>1, <2>2 DEF McpIInv
<1>2. ASSUME NEW c \in ServerCallers, AskServer(c) \/ PutRequest(c) \/ CallerLeaves(c) PROVE McpIInv'
  BY <1>2, CallersKeepSorts, CallersKeepOneWorker, CallersKeepWaited, CallersAskOnce DEF McpIInv
<1>3. ASSUME NEW g \in Workers,
             \/ WorkerReady(g) \/ TakeRequest(g) \/ ConnectionDrops(g) \/ CallsCancelled(g) \/ WorkerEnds(g)
             \/ \E c \in ServerCallers : CallEnds(g, c)
      PROVE  McpIInv'
  BY <1>3, WorkerKeepsSorts, WorkerKeepsOneWorker, WorkerKeepsWaited, WorkerAsksOnce DEF McpIInv
<1>4. CASE \/ ConnectionOpen \/ ConnectFails \/ RetryWindowEnds
           \/ Disconnect \/ AttemptCancelled \/ Disconnected
  BY <1>4, ManagerKeepsSorts, ManagerKeepsOneWorker, ManagerKeepsWaited, ManagerAsksOnce DEF McpIInv
<1> QED
  BY <1>1, <1>2, <1>3, <1>4 DEF McpNext

\* For any number of callers, workers, tries and disconnects: what does not
\* only read reaches the server at most once, a caller that waits is served
\* or will be told (save where the code leaves it behind), and no worker is
\* left running without an owner (mcp/client_manager.py, _serve, disconnect).
THEOREM McpPromisesKept == McpSpec => []McpKeepsPromises
<1>1. McpInit => McpIInv
  BY McpStarts
<1>2. McpIInv /\ [McpNext]_mcpVars => McpIInv'
  BY McpKept
<1>3. McpIInv => McpKeepsPromises
  BY DEF McpIInv, OneWorker, Waited, AskedOnce, McpKeepsPromises
<1> QED
  BY <1>1, <1>2, <1>3, PTL DEF McpSpec
=============================================================================
