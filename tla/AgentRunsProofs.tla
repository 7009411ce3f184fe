---------------------------- MODULE AgentRunsProofs ----------------------------
(***************************************************************************)
(* What holds of AgentRuns for every number of runs, sessions and callers  *)
(* of close(): one run per session, no run on what close() releases, no    *)
(* sandbox after a close() that returned, no client taken from another     *)
(* agent.                                                                  *)
(*                                                                         *)
(* The invariant has four parts.  Counting: _active_runs is the number of  *)
(* runs that hold a lock, so zero means that nobody is inside.  Closing:   *)
(* past its wait a close() has seen zero, and since _closed is set nobody  *)
(* was let in again.  Pools: the manager is shut before its sandboxes are  *)
(* let go, so what is let go stays so.  Client: the agent is one user      *)
(* more than the others until its first close() returns.                   *)
(***************************************************************************)
EXTENDS AgentRuns, FiniteSetTheorems, TLAPS

-----------------------------------------------------------------------------
Insiders == {r \in Runs : Holds(r)}

Counting ==
    /\ active = Cardinality(Insiders)
    /\ OneRunPerSession
    /\ \A r \in sending : pc[r] \in {"uploading", "interrupted"}

ClosingOK ==
    /\ \A k \in Closers : closer[k] # "new" => closed
    /\ \A k \in Closers : first[k] => closer[k] # "new"
    /\ \A j, k \in Closers : first[j] /\ first[k] => j = k
    /\ \A k \in Closers : Releasing(k) => active = 0
    /\ \A k \in Closers : closer[k] = "waiting" => active > 0

PoolsOK ==
    /\ \A k \in Closers : closer[k] \in {"leases", "rest", "returned"} => shut
    /\ \A k \in Closers : closer[k] \in {"rest", "returned"} =>
          env = {} /\ \A r \in Runs : call[r] # "leased"

ClientOK ==
    /\ users >= others
    /\ (\A k \in Closers : first[k] => closer[k] # "returned") => users > others
    /\ users > 0 => client

IInv == TypeOK /\ Counting /\ ClosingOK /\ PoolsOK /\ ClientOK

-----------------------------------------------------------------------------
(* Counting runs in and out.                                               *)

LEMMA InsidersFinite == IsFiniteSet(Insiders) /\ Cardinality(Insiders) \in Nat
<1>1. Insiders \in SUBSET Runs
  BY DEF Insiders
<1> QED
  BY <1>1, FS_Subset, FS_CardinalityType, ConstantsAssumption

\* A run that gets in makes the count one more.
LEMMA CountIn ==
    ASSUME IInv, NEW r \in Runs, ~Holds(r), Free(Session(r)), Admit(r), UNCHANGED sending,
           r \notin sending
    PROVE  Counting'
<1>1. Insiders' = Insiders \cup {r}
  BY DEF Insiders, Holds, Admit, Inside, IInv, TypeOK
<1>2. Cardinality(Insiders \cup {r}) = Cardinality(Insiders) + 1
  BY InsidersFinite, FS_AddElement DEF Insiders
<1>3. OneRunPerSession'
  BY DEF IInv, TypeOK, Counting, OneRunPerSession, Free, Holds, Admit, Session
<1>4. \A q \in sending' : pc'[q] \in {"uploading", "interrupted"}
  BY DEF IInv, TypeOK, Counting, Admit
<1> QED
  BY <1>1, <1>2, <1>3, <1>4 DEF Counting, IInv, Admit

\* A run that leaves makes it one less, and there was at least one.
LEMMA CountOut ==
    ASSUME IInv, NEW r \in Runs, Holds(r), active' = active - 1,
           \E st \in RunStates \ Inside : pc' = [pc EXCEPT ![r] = st]
    PROVE  /\ active > 0 /\ active' \in Nat
           /\ active' = Cardinality(Insiders') /\ OneRunPerSession'
<1>1. Insiders' = Insiders \ {r} /\ r \in Insiders
  BY DEF Insiders, Holds, Inside, IInv, TypeOK
<1>2. Cardinality(Insiders \ {r}) = Cardinality(Insiders) - 1
  BY <1>1, InsidersFinite, FS_RemoveElement
<1>3. Cardinality(Insiders) # 0
  BY <1>1, InsidersFinite, FS_EmptySet
<1>4. OneRunPerSession'
  BY DEF IInv, TypeOK, Counting, OneRunPerSession, Holds, Inside
<1> QED
  BY <1>1, <1>2, <1>3, <1>4, InsidersFinite DEF IInv, Counting

\* Nothing changes for the count when no run gets in or out.
LEMMA CountSame ==
    ASSUME IInv, UNCHANGED active,
           \A r \in Runs : Holds(r)' = Holds(r),
           \A r \in sending' : pc'[r] \in {"uploading", "interrupted"}
    PROVE  Counting'
<1>1. Insiders' = Insiders
  BY DEF Insiders
<1>2. OneRunPerSession'
  BY DEF IInv, Counting, OneRunPerSession, Session
<1> QED
  BY <1>1, <1>2 DEF IInv, Counting

-----------------------------------------------------------------------------
(* The steps of a run.                                                     *)

\* Leave wakes the waiting close()s when the last run leaves.
LEMMA LeaveKeeps ==
    ASSUME IInv, NEW r \in Runs, Holds(r), Leave,
           \E st \in RunStates \ Inside : pc' = [pc EXCEPT ![r] = st],
           UNCHANGED <<closed, first, shut>>
    PROVE  /\ ClosingOK' /\ closer' \in [Closers -> CloseStates] /\ active' \in Nat
           /\ active' = Cardinality(Insiders') /\ OneRunPerSession'
           /\ \A k \in Closers : closer[k] \notin {"leases", "rest", "returned"}
                                  /\ closer'[k] \notin {"leases", "rest", "returned"}
<1>1. /\ active > 0 /\ active' \in Nat
      /\ active' = Cardinality(Insiders') /\ OneRunPerSession'
  BY CountOut DEF Leave
<1>2. \A k \in Closers : ~Releasing(k)
  BY <1>1 DEF IInv, ClosingOK
<1>3. closer' \in [Closers -> CloseStates]
  BY DEF Leave, IInv, TypeOK, CloseStates
<1>4. ClosingOK'
  BY <1>1, <1>2 DEF ClosingOK, Leave, IInv, TypeOK, Releasing, CloseStates
<1> QED
  BY <1>1, <1>2, <1>3, <1>4 DEF Leave, Releasing, IInv, TypeOK

LEMMA StartKeeps == ASSUME IInv, NEW r \in Runs, Start(r) PROVE IInv'
<1>0. UNCHANGED <<left, call, sending, closed, closer, first, shut, env, mcp, drops,
                  users, others, client>>
  BY DEF Start, closeVars, poolVars, clientVars
<1>1. CASE closed /\ Refuse(r) /\ UNCHANGED ahead
  <2>1. Counting'
    BY <1>0, <1>1, CountSame DEF Refuse, Start, Holds, Inside, IInv, TypeOK, Counting
  <2> QED
    BY <1>0, <1>1, <2>1 DEF IInv, TypeOK, ClosingOK, PoolsOK, ClientOK, Releasing, Refuse, RunStates
<1>2. CASE ~closed /\ LockFree(Session(r)) /\ Admit(r) /\ UNCHANGED ahead
  <2>1. Counting'
    BY <1>0, <1>2, CountIn DEF Start, Holds, Inside, LockFree, IInv, Counting
  <2> QED
    BY <1>0, <1>2, <2>1 DEF IInv, TypeOK, ClosingOK, PoolsOK, ClientOK, Releasing, Admit, RunStates, CloseStates
<1>3. CASE ~closed /\ pc' = [pc EXCEPT ![r] = "queued"]
           /\ ahead' = [ahead EXCEPT ![r] = Waiters(Session(r))] /\ UNCHANGED active
  <2>1. Counting'
    BY <1>0, <1>3, CountSame DEF Start, Holds, Inside, IInv, TypeOK, Counting
  <2> QED
    BY <1>0, <1>3, <2>1 DEF IInv, TypeOK, ClosingOK, PoolsOK, ClientOK, Releasing, RunStates, Waiters
<1> QED
  BY <1>1, <1>2, <1>3 DEF Start

LEMMA TakeLockKeeps == ASSUME IInv, NEW r \in Runs, TakeLock(r) PROVE IInv'
<1>0. UNCHANGED <<left, call, sending, closed, closer, first, shut, env, mcp, drops,
                  users, others, client>>
  BY DEF TakeLock, closeVars, poolVars, clientVars
<1>1. CASE closed /\ Refuse(r)
  <2>1. Counting'
    BY <1>0, <1>1, CountSame DEF Refuse, TakeLock, Holds, Inside, IInv, TypeOK, Counting
  <2> QED
    BY <1>0, <1>1, <2>1
       DEF IInv, TypeOK, ClosingOK, PoolsOK, ClientOK, Releasing, Refuse, RunStates, TakeLock
<1>2. CASE ~closed /\ Admit(r)
  <2>1. Counting'
    BY <1>0, <1>2, CountIn DEF TakeLock, Holds, Inside, IInv, Counting
  <2> QED
    BY <1>0, <1>2, <2>1
       DEF IInv, TypeOK, ClosingOK, PoolsOK, ClientOK, Releasing, Admit, RunStates, TakeLock, CloseStates
<1> QED
  BY <1>1, <1>2 DEF TakeLock, StillOpen

\* Steps that move no run in or out and touch neither close() nor client.
LEMMA StayKeeps ==
    ASSUME IInv, TypeOK', UNCHANGED <<active, closed, closer, first, shut, users, others, client>>,
           \A r \in Runs : Holds(r)' = Holds(r),
           \A r \in sending' : pc'[r] \in {"uploading", "interrupted"},
           shut => env' \subseteq env /\ \A r \in Runs : call'[r] = "leased" => call[r] = "leased"
    PROVE  IInv'
<1>1. Counting'
  BY CountSame
<1> QED
  BY <1>1 DEF IInv, ClosingOK, PoolsOK, ClientOK, Releasing

\* The steps of a run that only stay inside or outside.
LEMMA BodyKeeps ==
    ASSUME IInv, NEW r \in Runs,
           \/ GiveUp(r) \/ EnsureMcp(r) \/ CallTool(r) \/ Acquire(r) \/ Release(r)
           \/ Ask(r) \/ AskAgain(r) \/ Answer(r) \/ LoopEnds(r) \/ CancelLoop(r)
    PROVE  IInv'
<1>1. CASE GiveUp(r)
  <2>1. TypeOK'
    BY <1>1 DEF GiveUp, IInv, TypeOK, RunStates, closeVars, poolVars, clientVars
  <2> QED
    BY <1>1, <2>1, StayKeeps
       DEF GiveUp, IInv, TypeOK, Counting, Holds, Inside, closeVars, poolVars, clientVars
<1>2. CASE EnsureMcp(r)
  <2>1. TypeOK'
    BY <1>2 DEF EnsureMcp, Connected, IInv, TypeOK, RunStates, agentVars, closeVars, clientVars
  <2> QED
    BY <1>2, <2>1, StayKeeps
       DEF EnsureMcp, IInv, TypeOK, Counting, Holds, Inside, agentVars, closeVars, clientVars
<1>3. CASE CallTool(r)
  <2>1. TypeOK'
    BY <1>3, ConstantsAssumption
       DEF CallTool, IInv, TypeOK, CallStates, agentVars, closeVars, poolVars, clientVars
  <2> QED
    BY <1>3, <2>1, StayKeeps
       DEF CallTool, IInv, TypeOK, Counting, Holds, agentVars, closeVars, poolVars, clientVars
<1>4. CASE Acquire(r)
  <2>1. TypeOK'
    BY <1>4, ConstantsAssumption
       DEF Acquire, IInv, TypeOK, CallStates, Session, agentVars, closeVars, clientVars
  <2>2. shut => env' = env /\ \A q \in Runs : call'[q] = "leased" => call[q] = "leased"
    BY <1>4 DEF Acquire, Shut, IInv, TypeOK
  <2> QED
    BY <1>4, <2>1, <2>2, StayKeeps
       DEF Acquire, IInv, Counting, Holds, agentVars, closeVars, clientVars
<1>5. CASE Release(r)
  <2>1. TypeOK'
    BY <1>5 DEF Release, IInv, TypeOK, CallStates, agentVars, closeVars, clientVars
  <2> QED
    BY <1>5, <2>1, StayKeeps
       DEF Release, IInv, TypeOK, Counting, Holds, agentVars, closeVars, clientVars
<1>6. CASE Ask(r) \/ AskAgain(r)
  <2>1. TypeOK'
    BY <1>6 DEF Ask, AskAgain, Request, Connected, IInv, TypeOK, CallStates, agentVars, closeVars, clientVars
  <2> QED
    BY <1>6, <2>1, StayKeeps
       DEF Ask, AskAgain, Request, IInv, TypeOK, Counting, Holds, agentVars, closeVars, clientVars
<1>7. CASE Answer(r)
  <2>1. TypeOK'
    BY <1>7 DEF Answer, IInv, TypeOK, CallStates, agentVars, closeVars, poolVars, clientVars
  <2> QED
    BY <1>7, <2>1, StayKeeps
       DEF Answer, IInv, TypeOK, Counting, Holds, agentVars, closeVars, poolVars, clientVars
<1>8. CASE LoopEnds(r)
  <2>1. TypeOK'
    BY <1>8 DEF LoopEnds, IInv, TypeOK, RunStates, agentVars, closeVars, poolVars, clientVars
  <2>2. \A q \in sending' : pc'[q] \in {"uploading", "interrupted"}
    BY <1>8 DEF LoopEnds, IInv, TypeOK, Counting
  <2> QED
    BY <1>8, <2>1, <2>2, StayKeeps
       DEF LoopEnds, IInv, TypeOK, Holds, Inside, agentVars, closeVars, poolVars, clientVars
<1>9. CASE CancelLoop(r)
  <2>1. TypeOK'
    BY <1>9 DEF CancelLoop, IInv, TypeOK, RunStates, CallStates, agentVars, closeVars, clientVars
  <2>2. \A q \in sending' : pc'[q] \in {"uploading", "interrupted"}
    BY <1>9 DEF CancelLoop, IInv, TypeOK, Counting
  <2>3. env' \subseteq env
    BY <1>9 DEF CancelLoop
  <2> QED
    BY <1>9, <2>1, <2>2, <2>3, StayKeeps
       DEF CancelLoop, IInv, TypeOK, Holds, Inside, agentVars, closeVars, clientVars
<1> QED
  BY <1>1, <1>2, <1>3, <1>4, <1>5, <1>6, <1>7, <1>8, <1>9

\* The steps that count a run out.
LEMMA OutKeeps ==
    ASSUME IInv, NEW r \in Runs, NeverBegins(r) \/ InterruptUpload(r) \/ (Uploaded(r) /\ Holds(r))
    PROVE  IInv'
<1>1. /\ Holds(r) /\ Leave /\ UNCHANGED <<left, call, ahead, closed, first, shut, env, drops,
                                         users, others, client>>
      /\ \E st \in {"ended", "interrupted"} : pc' = [pc EXCEPT ![r] = st]
      /\ mcp' \in {"down", "up", "dropped"}
  BY DEF NeverBegins, InterruptUpload, Uploaded, Holds, Inside, Connected, IInv, TypeOK,
         poolVars, clientVars
<1>2. \E st \in RunStates \ Inside : pc' = [pc EXCEPT ![r] = st]
  BY <1>1 DEF RunStates, Inside
<1>3. /\ ClosingOK' /\ closer' \in [Closers -> CloseStates] /\ active' \in Nat
      /\ active' = Cardinality(Insiders') /\ OneRunPerSession'
      /\ \A k \in Closers : closer[k] \notin {"leases", "rest", "returned"}
                             /\ closer'[k] \notin {"leases", "rest", "returned"}
  BY <1>1, <1>2, LeaveKeeps
<1>4. sending' \subseteq sending /\ \A q \in sending' : pc'[q] \in {"uploading", "interrupted"}
  BY <1>1 DEF NeverBegins, InterruptUpload, Uploaded, IInv, TypeOK, Counting, Inside, Holds
<1>5. TypeOK'
  BY <1>1, <1>2, <1>3, <1>4 DEF IInv, TypeOK
<1> QED
  BY <1>1, <1>3, <1>4, <1>5 DEF IInv, Counting, PoolsOK, ClientOK

\* An upload that nobody waits for.
LEMMA UploadedKeeps == ASSUME IInv, NEW r \in Runs, Uploaded(r), ~Holds(r) PROVE IInv'
<1>1. TypeOK'
  BY DEF Uploaded, IInv, TypeOK, poolVars, clientVars
<1> QED
  BY <1>1, StayKeeps DEF Uploaded, IInv, Counting, Holds, poolVars, clientVars

-----------------------------------------------------------------------------
(* The rest of the agent.                                                  *)

LEMMA DropKeeps == ASSUME IInv, Drop PROVE IInv'
<1>1. TypeOK'
  BY ConstantsAssumption
     DEF Drop, Interrupted, IInv, TypeOK, CallStates, agentVars, closeVars, clientVars
<1> QED
  BY <1>1, StayKeeps
     DEF Drop, Interrupted, IInv, Counting, Holds, agentVars, closeVars, clientVars

LEMMA ExpireKeeps == ASSUME IInv, NEW s \in Sessions, Expire(s) PROVE IInv'
<1>1. TypeOK'
  BY DEF Expire, IInv, TypeOK, runVars, agentVars, closeVars, clientVars
<1> QED
  BY <1>1, StayKeeps DEF Expire, IInv, Counting, Holds, runVars, agentVars, closeVars, clientVars

LEMMA CloseKeeps == ASSUME IInv, NEW k \in Closers, Close(k) PROVE IInv'
<1>0. UNCHANGED <<pc, left, call, sending, ahead, active, shut, env, mcp, drops, users, others, client>>
  BY DEF Close, runVars, poolVars, clientVars
<1>1. TypeOK'
  BY <1>0 DEF Close, IInv, TypeOK, CloseStates
<1>2. Counting'
  BY <1>0, CountSame DEF IInv, Counting, Holds
<1>3. ClosingOK'
  BY <1>0 DEF Close, IInv, TypeOK, ClosingOK, Releasing
<1>4. PoolsOK' /\ ClientOK'
  BY <1>0 DEF Close, IInv, TypeOK, PoolsOK, ClientOK, ClosingOK
<1> QED
  BY <1>1, <1>2, <1>3, <1>4 DEF IInv

LEMMA ClosingKeeps == ASSUME IInv, NEW k \in Closers, Closing(k) PROVE IInv'
<1>0. /\ UNCHANGED <<pc, left, sending, ahead, active, closed, first, drops, others>>
      /\ \E st \in {"raised", "manager", "leases", "rest", "returned"} : closer' = [closer EXCEPT ![k] = st]
      /\ Releasing(k) /\ closer[k] # "returned"
  <2>1. CASE CloseMcp(k)
    BY <2>1 DEF CloseMcp, Releasing, agentVars, clientVars
  <2>2. CASE ShutManager(k)
    BY <2>2 DEF ShutManager, Releasing, runVars, agentVars, clientVars
  <2>3. CASE CloseEnvironments(k)
    BY <2>3 DEF CloseEnvironments, Releasing, runVars, agentVars, clientVars
  <2>4. CASE CloseRest(k)
    BY <2>4 DEF CloseRest, Releasing, runVars, agentVars, poolVars
  <2> QED
    BY <2>1, <2>2, <2>3, <2>4 DEF Closing
<1>1. Counting'
  BY <1>0, CountSame DEF IInv, Counting, Holds
<1>2. ClosingOK'
  BY <1>0 DEF IInv, TypeOK, ClosingOK, Releasing
<1>3. CASE CloseMcp(k)
  <2>1. TypeOK'
    BY <1>0, <1>3 DEF CloseMcp, Interrupted, IInv, TypeOK, CallStates, CloseStates, clientVars
  <2>2. PoolsOK' /\ ClientOK'
    BY <1>3 DEF CloseMcp, Interrupted, IInv, TypeOK, PoolsOK, ClientOK, clientVars
  <2> QED
    BY <1>1, <1>2, <2>1, <2>2 DEF IInv
<1>4. CASE ShutManager(k)
  <2>1. TypeOK'
    BY <1>0, <1>4 DEF ShutManager, IInv, TypeOK, CloseStates, runVars, clientVars
  <2>2. PoolsOK' /\ ClientOK'
    BY <1>4 DEF ShutManager, IInv, TypeOK, PoolsOK, ClientOK, runVars, clientVars
  <2> QED
    BY <1>1, <1>2, <2>1, <2>2 DEF IInv
<1>5. CASE CloseEnvironments(k)
  <2>1. TypeOK'
    BY <1>0, <1>5 DEF CloseEnvironments, IInv, TypeOK, CloseStates, runVars, clientVars
  <2>2. PoolsOK' /\ ClientOK'
    BY <1>5 DEF CloseEnvironments, IInv, TypeOK, PoolsOK, ClientOK, runVars, clientVars
  <2> QED
    BY <1>1, <1>2, <2>1, <2>2 DEF IInv
<1>6. CASE CloseRest(k)
  <2>0. users' \in Nat /\ client' \in BOOLEAN
    <3>1. CASE Detach
      BY <3>1 DEF Detach, IInv, TypeOK
    <3>2. CASE UNCHANGED <<users, client>>
      BY <3>2 DEF IInv, TypeOK
    <3> QED
      BY <1>6, <3>1, <3>2 DEF CloseRest
  <2>1. TypeOK'
    BY <1>0, <1>6, <2>0 DEF CloseRest, IInv, TypeOK, CloseStates, runVars, poolVars
  <2>2. PoolsOK'
    BY <1>6 DEF CloseRest, IInv, TypeOK, PoolsOK, runVars, poolVars
  <2>3. first[k] => users > others
    BY <1>6 DEF CloseRest, IInv, ClosingOK, ClientOK
  <2>4. ClientOK'
    BY <1>6, <2>3, ConstantsAssumption
       DEF CloseRest, Detaches, Detach, IInv, TypeOK, ClientOK, ClosingOK
  <2> QED
    BY <1>1, <1>2, <2>1, <2>2, <2>4 DEF IInv
<1> QED
  BY <1>3, <1>4, <1>5, <1>6 DEF Closing

LEMMA OtherKeeps == ASSUME IInv, OtherCloses PROVE IInv'
<1>0. UNCHANGED <<pc, left, call, sending, ahead, active, closed, closer, first, shut, env, mcp, drops>>
  BY DEF OtherCloses, runVars, agentVars, closeVars, poolVars
<1>1. TypeOK'
  BY <1>0, ConstantsAssumption DEF OtherCloses, Detach, IInv, TypeOK
<1>2. Counting'
  BY <1>0, CountSame DEF IInv, Counting, Holds
<1>3. ClosingOK' /\ PoolsOK'
  BY <1>0 DEF IInv, ClosingOK, PoolsOK, Releasing
<1>4. ClientOK'
  BY <1>0, ConstantsAssumption DEF OtherCloses, Detach, IInv, TypeOK, ClientOK
<1> QED
  BY <1>1, <1>2, <1>3, <1>4 DEF IInv

-----------------------------------------------------------------------------
(* The theorems.                                                           *)

LEMMA InitOK == Init => IInv
<1> SUFFICES ASSUME Init PROVE IInv
  OBVIOUS
<1>1. TypeOK
  <2>1. /\ pc \in [Runs -> RunStates] /\ call \in [Runs -> CallStates] /\ sending \in SUBSET Runs
        /\ ahead \in [Runs -> SUBSET Runs] /\ closer \in [Closers -> CloseStates]
        /\ first \in [Closers -> BOOLEAN] /\ env \in SUBSET Sessions
        /\ mcp \in {"down", "up", "dropped"} /\ closed \in BOOLEAN /\ shut \in BOOLEAN
        /\ client \in BOOLEAN
    BY DEF Init, RunStates, CallStates, CloseStates
  <2>2. /\ left \in [Runs -> 0..MaxCalls] /\ active \in Nat /\ drops \in 0..MaxDrops
        /\ users \in Nat /\ others \in 0..Others
    BY ConstantsAssumption DEF Init
  <2> QED
    BY <2>1, <2>2 DEF TypeOK
<1>2. Insiders = {}
  BY DEF Init, Insiders, Holds, Inside
<1>3. Counting
  BY <1>2, FS_EmptySet DEF Init, Counting, OneRunPerSession, Holds, Inside
<1>4. ClosingOK /\ PoolsOK /\ ClientOK
  BY ConstantsAssumption DEF Init, ClosingOK, PoolsOK, ClientOK, Releasing
<1> QED
  BY <1>1, <1>3, <1>4 DEF IInv

LEMMA NextKeeps == IInv /\ [Next]_vars => IInv'
<1> SUFFICES ASSUME IInv, [Next]_vars PROVE IInv'
  OBVIOUS
<1>1. ASSUME NEW r \in Runs,
             \/ Start(r) \/ TakeLock(r) \/ GiveUp(r) \/ CallTool(r) \/ CancelLoop(r)
             \/ InterruptUpload(r) \/ Advance(r)
      PROVE  IInv'
  BY <1>1, StartKeeps, TakeLockKeeps, BodyKeeps, OutKeeps, UploadedKeeps DEF Advance
<1>2. CASE UNCHANGED vars
  BY <1>2 DEF vars, runVars, agentVars, closeVars, poolVars, clientVars, IInv, TypeOK, Counting,
              Insiders, Holds, OneRunPerSession, ClosingOK, Releasing, PoolsOK, ClientOK
<1> QED
  BY <1>1, <1>2, DropKeeps, ExpireKeeps, CloseKeeps, ClosingKeeps, OtherKeeps DEF Next

\* The inductive invariant holds in every reachable state.
THEOREM Invariance == Spec => []IInv
  BY InitOK, NextKeeps, PTL DEF Spec

\* Every variable keeps its type (the state run_stream_events and close share).
THEOREM TypeCorrect == Spec => []TypeOK
<1>1. IInv => TypeOK
  BY DEF IInv
<1> QED
  BY <1>1, Invariance, PTL

\* Two runs never work on the same conversation at once, however many are
\* waiting for it (run_stream_events, the session's lock).
THEOREM SessionsAreSerial == Spec => []OneRunPerSession
<1>1. IInv => OneRunPerSession
  BY DEF IInv, Counting
<1> QED
  BY <1>1, Invariance, PTL

\* A close() that waits always has a run that will wake it (_tracking_run).
THEOREM CloseIsWoken == Spec => []WaitsForSomeone
<1>1. IInv => WaitsForSomeone
  <2> SUFFICES ASSUME IInv, active > 0 PROVE \E r \in Runs : Holds(r)
    BY DEF IInv, ClosingOK, WaitsForSomeone
  <2>1. Insiders # {}
    BY FS_EmptySet DEF IInv, Counting
  <2> QED
    BY <2>1 DEF Insiders
<1> QED
  BY <1>1, Invariance, PTL

\* No run is on what close() releases, and none gets there later (close).
THEOREM NothingReleasedUnderARun == Spec => []ReleaseWhenIdle
<1>1. IInv => ReleaseWhenIdle
  <2> SUFFICES ASSUME IInv, NEW k \in Closers, Releasing(k), NEW r \in Runs PROVE ~Holds(r)
    BY DEF ReleaseWhenIdle
  <2>1. Insiders = {}
    BY InsidersFinite, FS_EmptySet DEF IInv, ClosingOK, Counting
  <2> QED
    BY <2>1 DEF Insiders
<1> QED
  BY <1>1, Invariance, PTL

\* No sandbox outlives a close() that returned, whatever calls a failed run
\* left behind (EnvironmentManager.acquire, close).
THEOREM NoSandboxOutlivesClose == Spec => []SandboxesReleased
<1>1. IInv => SandboxesReleased
  BY DEF IInv, PoolsOK, SandboxesReleased
<1> QED
  BY <1>1, Invariance, PTL

\* The client of another agent keeps its connections (attach, detach, close).
THEOREM ClientIsShared == Spec => []ClientKeptForOthers
<1>1. IInv => ClientKeptForOthers
  BY ConstantsAssumption DEF IInv, TypeOK, ClientOK, ClientKeptForOthers
<1> QED
  BY <1>1, Invariance, PTL

\* The workspace is disconnected under no upload that somebody waits for
\* (_drive, the shield).
THEOREM NoUploadUnderClose == Spec => []UploadsSettled
<1>1. IInv => UploadsSettled
  <2> SUFFICES ASSUME IInv, NEW k \in Closers, closer[k] = "returned", NEW r \in sending
               PROVE  pc[r] = "interrupted"
    BY DEF UploadsSettled
  <2>1. Insiders = {}
    BY InsidersFinite, FS_EmptySet DEF IInv, ClosingOK, Counting, Releasing
  <2>2. r \in Runs /\ pc[r] # "uploading"
    BY <2>1 DEF IInv, TypeOK, Insiders, Holds, Inside
  <2> QED
    BY <2>2 DEF IInv, Counting
<1> QED
  BY <1>1, Invariance, PTL
=============================================================================
