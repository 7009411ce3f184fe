-------------------------- MODULE WorkspacesProofs --------------------------
(***************************************************************************)
(* What happens to a user's files in sandboxes and remote stores, each for *)
(* any number of conversations, servers, edits and contents.               *)
(*                                                                         *)
(* Sandboxes.  What a sandbox remembers of its last sync is on both sides  *)
(* or was given up: edited over, deleted, or gone with its sandbox.  So a  *)
(* sync that finds nothing new on a side replaces nothing that is only     *)
(* there.                                                                  *)
(*                                                                         *)
(* WorkspaceSync.  A content a server has once synced, and which nobody    *)
(* has edited over or taken the place of since, is still in the store and  *)
(* in that server's cache (Vouched).  So what a sync replaces or deletes   *)
(* without recording it, because its manifest knows it, is either there    *)
(* still or was given up before.                                           *)
(***************************************************************************)
EXTENDS Sandboxes, WorkspaceSync, TLAPS

-----------------------------------------------------------------------------
(* Sandboxes.                                                              *)

\* Contents nobody counts on.
Given == gone \cup replaced \cup excused

\* Who holds the user's lock is where the purpose leads.
HoldOK ==
    /\ held = Nobody <=> place = "free"
    /\ place = "disconnect" => held.for \in {"cancelled", "timer", "close"}
    /\ place \in {"connect", "recover", "in", "leased", "out"} => held.for \in {"lease", "again"}
    /\ place = "connect" => held.of \notin session
    /\ syncWindow.open => Syncing /\ Copies

\* Between a listing and its move only the host's file changes.
WindowOK == syncWindow.open =>
    /\ box[held.of] = syncWindow.box /\ syncWindow.host <= edits
    /\ host # syncWindow.host =>
          syncWindow.host \in replaced /\ \A c \in Conversations : base[c] # host

Based == \A c \in Conversations : base[c] \in Given \/ (host = base[c] /\ box[c] = base[c])
DeadExcused == \A c \in session \ alive : box[c] \in excused
Fresh == /\ host <= edits /\ 0 \in gone
         /\ \A c \in Conversations : box[c] <= edits /\ base[c] <= edits
NoCopies == ~Copies => \A c \in Conversations : box[c] = 0 /\ base[c] = 0

Accounted(n) == n \in Given \/ host = n \/ \E c \in session : box[c] = n

FilesOK == /\ WindowOK /\ Based /\ DeadExcused /\ Fresh /\ NoCopies
           /\ \A n \in 1..edits : Accounted(n)

\* After close() no lease begins, and what it has visited is settled.
ClosingOK == result # "none" =>
    /\ closed /\ timers \subseteq toClose
    /\ toClose # Conversations => held.for \notin {"lease", "again", "cancelled"}
    /\ held.for = "timer" => held.of \in toClose
    /\ \A c \in session \ toClose : c \in failed \/ held = [of |-> c, for |-> "close"]
    /\ result \in {"raised", "closed"} => toClose = {} /\ held.for # "close"
    /\ result = "closed" => failed = {}

-----------------------------------------------------------------------------
(* Types.                                                                  *)

Sorts == SandboxTypeOK /\ HoldOK

LEMMA MovesTyped ==
    ASSUME SandboxTypeOK, NEW known \in BOOLEAN, Moves(known), held.of \in Conversations
    PROVE  /\ host' \in Contents /\ box' \in [Conversations -> Contents]
           /\ base' \in [Conversations -> Contents] /\ excused' \subseteq Contents
<1>1. syncWindow.host \in Contents /\ syncWindow.box \in Contents /\ 0 \in Contents
  BY SandboxesAssumption DEF SandboxTypeOK, SandboxesAssumption, Contents
<1>2. \A n \in Contents : Hash(n) \in Contents
  BY <1>1 DEF Hash
<1>3. Baseline(Hash(syncWindow.host), Hash(syncWindow.box), base[held.of]) \in Contents
  BY <1>1, <1>2 DEF SandboxTypeOK, Baseline
<1>4. Baseline(Hash(syncWindow.box), Hash(syncWindow.host), base[held.of]) \in Contents
  BY <1>1, <1>2 DEF SandboxTypeOK, Baseline
<1>5. CASE MoveIn(known)
  BY <1>1, <1>3, <1>5 DEF MoveIn, SandboxTypeOK
<1>6. CASE MoveOut(known)
  BY <1>1, <1>4, <1>6 DEF MoveOut, SandboxTypeOK
<1> QED
  BY <1>5, <1>6 DEF Moves

\* What the end of a sync does to the lock and the entries.
LEMMA SyncedSorts ==
    ASSUME SandboxTypeOK, HoldOK, Syncing, held.of \in Conversations, Synced \/ SyncRaised
    PROVE  /\ held' \in {held, Nobody} /\ place' \in Stages /\ syncWindow' = NoWindow
           /\ session' \subseteq session /\ alive' \subseteq session'
           /\ failed' \subseteq Conversations /\ timers' \subseteq Conversations
           /\ held' = Nobody <=> place' = "free"
           /\ place' \in {"free", "in", "leased"}
           /\ place' # "free" => held.for \in {"lease", "again"}
           /\ session' # session => place = "disconnect"
  BY DEF SandboxTypeOK, HoldOK, Syncing, Synced, SyncRaised, Cleaned, Frees, Enters, Stages,
         openVars, Nobody, Purposes

LEMMA SortsKept == ASSUME Sorts, [SandboxNext]_sandboxVars PROVE Sorts'
<1> USE DEF Sorts
<1> DEFINE Locks == /\ held \in [of : Conversations, for : Purposes] \cup {Nobody}
                    /\ place \in Stages
                    /\ syncWindow \in [open : BOOLEAN, host : Contents, box : Contents]
<1>a. /\ (held.of \in Conversations /\ held.for \in Purposes) \/ held = Nobody
      /\ held.for \in Purposes <=> held # Nobody
  BY DEF SandboxTypeOK, Nobody, Purposes
<1>b. /\ NoWindow \in [open : BOOLEAN, host : Contents, box : Contents] /\ ~NoWindow.open
      /\ 0 \in Contents
  BY SandboxesAssumption DEF NoWindow, Contents, SandboxesAssumption
<1>c. Nobody \notin [of : Conversations, for : Purposes]
  BY DEF Nobody, Purposes
<1>1. ASSUME NEW c \in Conversations, Ask(c) PROVE Sorts'
  <2>1. SandboxTypeOK'
    BY <1>1 DEF Ask, SandboxTypeOK, lockVars, openVars, fileVars, editVars
  <2>2. HoldOK'
    BY <1>1 DEF Ask, HoldOK, lockVars, openVars, Syncing, Copies
  <2> QED BY <2>1, <2>2
<1>2. ASSUME NEW c \in Conversations, Acquire(c) PROVE Sorts'
  <2>1. /\ provider' = provider /\ session' = session
        /\ \/ held' = held /\ place' = place /\ syncWindow' = syncWindow
           \/ /\ held' = [of |-> c, for |-> "lease"] /\ place' \in {"connect", "recover", "in"}
              /\ syncWindow' = NoWindow /\ (place' = "connect" => c \notin session)
    BY <1>2 DEF Acquire, lockVars
  <2>2. Locks'
    BY <1>2, <1>b, <2>1 DEF SandboxTypeOK, Stages, Purposes
  <2>3. timers' \subseteq Conversations
    BY <1>2 DEF Acquire, SandboxTypeOK
  <2>4. SandboxTypeOK'
    BY <1>2, <2>2, <2>3 DEF Acquire, SandboxTypeOK, fileVars, editVars
  <2>5. CASE held' = held /\ place' = place /\ syncWindow' = syncWindow
    BY <2>1, <2>4, <2>5 DEF HoldOK, Syncing, Copies
  <2>6. CASE /\ held' = [of |-> c, for |-> "lease"] /\ place' \in {"connect", "recover", "in"}
             /\ syncWindow' = NoWindow /\ (place' = "connect" => c \notin session)
    BY <2>1, <2>4, <2>6, <1>b DEF HoldOK, Nobody
  <2> QED BY <2>1, <2>4, <2>5, <2>6
<1>3. ASSUME NEW c \in Conversations, SandboxDies(c) PROVE Sorts'
  <2>1. SandboxTypeOK'
    BY <1>3 DEF SandboxDies, SandboxTypeOK, managerVars, lockVars, fileVars, editVars
  <2>2. HoldOK'
    BY <1>3 DEF SandboxDies, HoldOK, lockVars, Syncing, Copies
  <2> QED BY <2>1, <2>2
<1>4. ASSUME NEW c \in Conversations, Expire(c) PROVE Sorts'
  <2>1. Locks'
    BY <1>4, <1>b DEF Expire, SandboxTypeOK, Stages, Purposes
  <2>2. SandboxTypeOK'
    BY <1>4, <2>1 DEF Expire, SandboxTypeOK, managerVars, fileVars, editVars
  <2>3. HoldOK'
    BY <1>4, <1>b, <2>2 DEF Expire, HoldOK, Nobody
  <2> QED BY <2>2, <2>3
<1>5. ASSUME NEW c \in Conversations, CloseEntry(c) PROVE Sorts'
  <2>1. Locks'
    BY <1>5, <1>b DEF CloseEntry, SandboxTypeOK, Stages, Purposes, lockVars
  <2>2. failed' \subseteq Conversations
    BY <1>5 DEF CloseEntry, SandboxTypeOK
  <2>3. SandboxTypeOK'
    BY <1>5, <2>1, <2>2 DEF CloseEntry, SandboxTypeOK, fileVars, editVars
  <2>4. HoldOK'
    BY <1>5, <1>b, <2>3 DEF CloseEntry, HoldOK, Nobody, lockVars, Syncing, Copies
  <2> QED BY <2>3, <2>4
<1>6. CASE Connect
  <2>1. held.of \in Conversations /\ held # Nobody
    BY <1>a, <1>6 DEF Connect, HoldOK
  <2>2. Locks'
    BY <1>6, <1>b DEF Connect, Enters, SandboxTypeOK, Stages
  <2>3. SandboxTypeOK'
    BY <1>6, <1>b, <2>1, <2>2 DEF Connect, SandboxTypeOK, managerVars, editVars
  <2>4. HoldOK'
    BY <1>6, <1>b, <2>1 DEF Connect, Enters, HoldOK
  <2> QED BY <2>3, <2>4
<1>7. CASE CannotConnect
  <2>1. Locks'
    BY <1>7, <1>b DEF CannotConnect, Frees, SandboxTypeOK, Stages
  <2>2. SandboxTypeOK'
    BY <1>7, <2>1 DEF CannotConnect, SandboxTypeOK, managerVars, openVars, fileVars, editVars
  <2>3. HoldOK'
    BY <1>7, <1>b DEF CannotConnect, Frees, HoldOK
  <2> QED BY <2>2, <2>3
<1>8. ASSUME Syncing, Synced \/ SyncRaised,
             UNCHANGED <<provider, managerVars, editVars>>,
             /\ host' \in Contents /\ box' \in [Conversations -> Contents]
             /\ base' \in [Conversations -> Contents] /\ excused' \subseteq Contents
      PROVE  Sorts'
  <2>1. held.of \in Conversations
    BY <1>a, <1>8 DEF Syncing, HoldOK
  <2>2. /\ held' \in {held, Nobody} /\ place' \in Stages /\ syncWindow' = NoWindow
        /\ session' \subseteq session /\ alive' \subseteq session'
        /\ failed' \subseteq Conversations /\ timers' \subseteq Conversations
        /\ held' = Nobody <=> place' = "free"
        /\ place' \in {"free", "in", "leased"}
        /\ place' # "free" => held.for \in {"lease", "again"}
    BY <1>8, <2>1, SyncedSorts
  <2>3. Locks'
    BY <1>b, <2>2 DEF SandboxTypeOK
  <2>4. SandboxTypeOK'
    BY <1>8, <2>2, <2>3 DEF SandboxTypeOK, managerVars, editVars
  <2>5. HoldOK'
    BY <1>b, <2>2 DEF HoldOK, Nobody
  <2> QED BY <2>4, <2>5
<1>9. CASE List
  <2>1. Locks'
    BY <1>9, <1>a DEF List, SandboxTypeOK, Syncing, HoldOK
  <2>2. SandboxTypeOK'
    BY <1>9, <2>1 DEF List, SandboxTypeOK, managerVars, openVars, fileVars, editVars
  <2>3. HoldOK'
    BY <1>9 DEF List, HoldOK, Syncing, Copies, openVars
  <2> QED BY <2>2, <2>3
<1>10. CASE SyncFails \/ NothingToSync
  BY <1>8, <1>10 DEF SyncFails, NothingToSync, fileVars, SandboxTypeOK
<1>11. CASE Move \/ MoveUnanswered
  <2>1. Syncing /\ held.of \in Conversations
    BY <1>a, <1>11 DEF Move, MoveUnanswered, HoldOK, Syncing
  <2>2. PICK known \in BOOLEAN : Moves(known)
    BY <1>11 DEF Move, MoveUnanswered
  <2>3. /\ host' \in Contents /\ box' \in [Conversations -> Contents]
        /\ base' \in [Conversations -> Contents] /\ excused' \subseteq Contents
    BY <2>1, <2>2, MovesTyped
  <2> QED BY <1>8, <1>11, <2>1, <2>3 DEF Move, MoveUnanswered
<1>12. CASE FindLost
  <2>1. held.of \in Conversations /\ held # Nobody /\ held.for \in Purposes
    BY <1>a, <1>12 DEF FindLost, Syncing, HoldOK
  <2>2. CASE /\ place \in {"recover", "in"} /\ held.for = "lease"
             /\ Dropped /\ place' = "connect" /\ syncWindow' = NoWindow
             /\ held' = [held EXCEPT !.for = "again"]
    <3>1. held' \in [of : Conversations, for : Purposes] /\ held'.of = held.of /\ held'.for = "again"
      BY <2>1, <2>2, <1>c DEF SandboxTypeOK, Purposes
    <3>2. Locks'
      BY <2>2, <3>1, <1>b DEF SandboxTypeOK, Stages
    <3>3. session' \subseteq session /\ alive' \subseteq session' /\ failed' \subseteq Conversations
          /\ timers' = timers /\ held.of \notin session'
      BY <2>2 DEF Dropped, SandboxTypeOK
    <3>4. SandboxTypeOK'
      BY <1>12, <3>2, <3>3 DEF FindLost, SandboxTypeOK, managerVars, fileVars, editVars
    <3>5. HoldOK'
      BY <2>2, <3>1, <3>3, <1>b, <1>c DEF HoldOK
    <3> QED BY <3>4, <3>5
  <2>3. CASE /\ Frees
             /\ session' \subseteq session /\ alive' \subseteq session' /\ failed' \subseteq Conversations
             /\ timers' = timers
    <3>1. Locks'
      BY <2>3, <1>b DEF Frees, SandboxTypeOK, Stages
    <3>2. SandboxTypeOK'
      BY <1>12, <2>3, <3>1 DEF FindLost, SandboxTypeOK, managerVars, fileVars, editVars
    <3>3. HoldOK'
      BY <2>3, <1>b DEF Frees, HoldOK
    <3> QED BY <3>2, <3>3
  <2> QED
    BY <1>12, <2>1, <2>2, <2>3 DEF FindLost, Dropped, Cleaned, openVars, SandboxTypeOK
<1>13. CASE ContainerReplaced
  <2>1. SandboxTypeOK'
    BY <1>13, <1>a, <1>b DEF ContainerReplaced, SandboxTypeOK, HoldOK, managerVars, lockVars, openVars, editVars
  <2>2. HoldOK'
    BY <1>13 DEF ContainerReplaced, HoldOK, lockVars, openVars, Syncing, Copies
  <2> QED BY <2>1, <2>2
<1>14. CASE LeaseEnds
  <2>1. Locks'
    BY <1>14, <1>b DEF LeaseEnds, Enters, SandboxTypeOK, Stages
  <2>2. SandboxTypeOK'
    BY <1>14, <2>1 DEF LeaseEnds, SandboxTypeOK, managerVars, openVars, fileVars, editVars
  <2>3. HoldOK'
    BY <1>14, <1>b DEF LeaseEnds, Enters, HoldOK
  <2> QED BY <2>2, <2>3
<1>15. CASE LeaseCancelled
  <2>1. held \in [of : Conversations, for : Purposes]
    BY <1>15 DEF LeaseCancelled, HoldOK, SandboxTypeOK
  <2>2. held' \in [of : Conversations, for : Purposes] /\ held'.for = "cancelled"
    BY <1>15, <2>1 DEF LeaseCancelled, Purposes
  <2>3. Locks'
    BY <1>15, <1>b, <2>2 DEF LeaseCancelled, SandboxTypeOK, Stages
  <2>4. SandboxTypeOK'
    BY <1>15, <2>3 DEF LeaseCancelled, SandboxTypeOK, managerVars, openVars, fileVars, editVars
  <2>5. HoldOK'
    BY <1>15, <1>b, <1>c, <2>2 DEF LeaseCancelled, HoldOK
  <2> QED BY <2>4, <2>5
<1>16. CASE LeaseLost
  <2>1. Locks'
    BY <1>16, <1>b DEF LeaseLost, Frees, SandboxTypeOK, Stages
  <2>2. SandboxTypeOK'
    BY <1>16, <2>1 DEF LeaseLost, Dropped, SandboxTypeOK, managerVars, fileVars, editVars
  <2>3. HoldOK'
    BY <1>16, <1>b DEF LeaseLost, Frees, HoldOK
  <2> QED BY <2>2, <2>3
<1>17. CASE Close
  <2>1. SandboxTypeOK'
    BY <1>17 DEF Close, SandboxTypeOK, lockVars, fileVars, editVars
  <2>2. HoldOK'
    BY <1>17 DEF Close, HoldOK, lockVars, Syncing, Copies
  <2> QED BY <2>1, <2>2
<1>18. CASE CloseReturns
  <2>1. SandboxTypeOK'
    BY <1>18 DEF CloseReturns, SandboxTypeOK, lockVars, openVars, fileVars, editVars
  <2>2. HoldOK'
    BY <1>18 DEF CloseReturns, HoldOK, lockVars, openVars, Syncing, Copies
  <2> QED BY <2>1, <2>2
<1>19. ASSUME NEW deletes \in BOOLEAN, Command(deletes) \/ HostEdit(deletes) PROVE Sorts'
  <2>1. edits + 1 \in Contents
    BY <1>19, SandboxesAssumption DEF Command, HostEdit, EditOver, SandboxTypeOK, Contents, SandboxesAssumption
  <2>2. held.of \in Conversations \/ HostEdit(deletes)
    BY <1>19, <1>a DEF Command, HoldOK
  <2>3. /\ edits' \in Contents /\ gone' \subseteq Contents /\ replaced' \subseteq Contents
        /\ host' \in Contents /\ box' \in [Conversations -> Contents]
    BY <1>19, <2>1, <2>2 DEF Command, HostEdit, EditOver, SandboxTypeOK
  <2>4. SandboxTypeOK'
    BY <1>19, <2>3 DEF Command, HostEdit, SandboxTypeOK, managerVars, lockVars, openVars
  <2>5. HoldOK'
    BY <1>19 DEF Command, HostEdit, HoldOK, lockVars, openVars, Syncing, Copies
  <2> QED BY <2>4, <2>5
<1>20. CASE UNCHANGED sandboxVars
  <2>1. SandboxTypeOK'
    BY <1>20 DEF sandboxVars, SandboxTypeOK, managerVars, lockVars, openVars, fileVars, editVars
  <2>2. HoldOK'
    BY <1>20 DEF sandboxVars, HoldOK, managerVars, lockVars, openVars, fileVars, editVars, Syncing, Copies
  <2> QED BY <2>1, <2>2
<1> QED
  BY <1>1, <1>2, <1>3, <1>4, <1>5, <1>6, <1>7, <1>9, <1>10, <1>11, <1>12, <1>13, <1>14, <1>15, <1>16,
     <1>17, <1>18, <1>19, <1>20 DEF SandboxNext

\* The initial state has the sorts.
LEMMA SortsInit == ASSUME SandboxInit PROVE Sorts
<1>a. 0 \in Contents
  BY SandboxesAssumption DEF Contents, SandboxesAssumption
<1>b. syncWindow \in [open : BOOLEAN, host : Contents, box : Contents]
  BY <1>a DEF SandboxInit, NoWindow
<1>1. SandboxTypeOK
  BY <1>a, <1>b DEF SandboxInit, SandboxTypeOK, Nobody, Stages
<1>2. HoldOK
  BY DEF SandboxInit, HoldOK, Nobody, NoWindow
<1> QED BY <1>1, <1>2 DEF Sorts

\* The variables have their types.
THEOREM SandboxesTypeCorrect == SandboxSpec => []SandboxTypeOK
<1>1. Sorts => SandboxTypeOK
  BY DEF Sorts
<1> QED BY <1>1, SortsInit, SortsKept, PTL DEF SandboxSpec

-----------------------------------------------------------------------------
(* What close() leaves open.                                               *)

\* Once close() has visited an entry, the lock is held for a timer or for it.
LEMMA HeldWhileClosing ==
    ASSUME Sorts, ClosingOK, result # "none", held # Nobody
    PROVE  /\ toClose # Conversations => place = "disconnect" /\ held.for \in {"timer", "close"}
           /\ result = "closing" /\ held.of \in Conversations /\ closed
<1>1. held.of \in Conversations /\ held.for \in Purposes
  BY DEF Sorts, SandboxTypeOK
<1>2. toClose # Conversations => place = "disconnect" /\ held.for \in {"timer", "close"}
  BY DEF Sorts, HoldOK, SandboxTypeOK, Stages, ClosingOK
<1>3. result \in {"none", "closing", "closed", "raised"}
  BY DEF Sorts, SandboxTypeOK
<1>4. result = "closing"
  BY <1>1, <1>2, <1>3 DEF ClosingOK, Sorts, HoldOK
<1> QED BY <1>1, <1>2, <1>4 DEF ClosingOK

LEMMA ClosingKept == ASSUME Sorts, Sorts', ClosingOK, [SandboxNext]_sandboxVars PROVE ClosingOK'
<1> SUFFICES ASSUME result' # "none" PROVE ClosingOK'
  BY DEF ClosingOK
<1>a. toClose \subseteq Conversations /\ session \subseteq Conversations /\ timers \subseteq Conversations
  BY DEF Sorts, SandboxTypeOK
<1>b. Nobody.for = "nothing"
  BY DEF Nobody
<1>1. ASSUME UNCHANGED <<closed, result, toClose, held, session, failed, timers>> PROVE ClosingOK'
  BY <1>1 DEF ClosingOK
<1>2. ASSUME NEW c \in Conversations, Ask(c) \/ Acquire(c) \/ SandboxDies(c) PROVE ClosingOK'
  <2>1. result # "none" /\ closed
    BY <1>2 DEF Ask, Acquire, SandboxDies, managerVars, ClosingOK
  <2> QED BY <1>1, <1>2, <2>1 DEF Ask, Acquire, SandboxDies, managerVars, lockVars, openVars
<1>3. ASSUME NEW c \in Conversations, Expire(c) PROVE ClosingOK'
  <2>1. result # "none" /\ c \in toClose
    BY <1>3 DEF Expire, managerVars, ClosingOK
  <2>2. held'.for = "timer" /\ held'.of = c /\ held.for = "nothing"
    BY <1>3, <1>b DEF Expire
  <2>3. held' # [of |-> c, for |-> "close"] /\ \A d \in session \ toClose : d \in failed
    BY <1>3, <1>b, <2>1, <2>2 DEF Expire, ClosingOK
  <2> QED BY <1>3, <2>1, <2>2, <2>3 DEF Expire, managerVars, ClosingOK
<1>4. CASE Connect
  <2>1. result # "none" /\ held # Nobody
    BY <1>4 DEF Connect, managerVars, Sorts, HoldOK
  <2>2. toClose = Conversations /\ held.of \in Conversations
    BY <1>4, <2>1, HeldWhileClosing DEF Connect
  <2> QED BY <1>4, <2>1, <2>2, <1>a DEF Connect, Enters, managerVars, ClosingOK
<1>5. CASE CannotConnect
  <2>1. result # "none" /\ held # Nobody
    BY <1>5 DEF CannotConnect, managerVars, Sorts, HoldOK
  <2>2. toClose = Conversations
    BY <1>5, <2>1, HeldWhileClosing DEF CannotConnect
  <2> QED BY <1>5, <1>a, <1>b, <2>1, <2>2 DEF CannotConnect, Frees, managerVars, openVars, ClosingOK
<1>6. ASSUME place # "free", UNCHANGED managerVars,
             \/ Frees /\ session' = session /\ timers' \subseteq Conversations
                /\ place # "disconnect"
             \/ place # "disconnect" /\ session' \subseteq session /\ timers' \subseteq Conversations
                /\ (held' = Nobody \/ held'.for \in {"lease", "again", "cancelled"})
             \/ place = "disconnect" /\ Frees /\ timers' = timers /\ failed' = failed \cup {held.of}
                /\ session' = session
             \/ place = "disconnect" /\ Frees /\ timers' = timers /\ failed' = failed \ {held.of}
                /\ session' = session \ {held.of}
      PROVE  ClosingOK'
  <2>1. result # "none" /\ held # Nobody
    BY <1>6 DEF managerVars, Sorts, HoldOK
  <2>2. /\ toClose # Conversations => place = "disconnect" /\ held.for \in {"timer", "close"}
        /\ result = "closing" /\ held.of \in Conversations /\ closed
    BY <2>1, HeldWhileClosing
  <2>3. CASE toClose = Conversations
    BY <1>6, <1>a, <1>b, <2>2, <2>3 DEF Frees, managerVars, ClosingOK
  <2>4. CASE toClose # Conversations
    <3>1. /\ Frees /\ timers' = timers
          /\ \/ failed' = failed \cup {held.of} /\ session' = session
             \/ failed' = failed \ {held.of} /\ session' = session \ {held.of}
      BY <1>6, <2>2, <2>4
    <3>2. held.for = "timer" => held.of \in toClose
      BY <2>1 DEF ClosingOK
    <3>3. \A c \in session \ toClose : c \in failed \/ c = held.of
      BY <2>1 DEF ClosingOK
    <3>4. \A c \in session' \ toClose : c \in failed'
      BY <3>1, <3>3
    <3> QED BY <1>6, <1>b, <2>1, <2>2, <3>1, <3>4 DEF Frees, managerVars, ClosingOK
  <2> QED BY <2>3, <2>4
<1>7. ASSUME Syncing, Synced \/ SyncRaised, UNCHANGED managerVars PROVE ClosingOK'
  <2>1. place # "free" /\ held.of \in Conversations /\ held # Nobody
    BY <1>7 DEF Syncing, Sorts, HoldOK, SandboxTypeOK
  <2>2. CASE place = "disconnect"
    BY <1>6, <1>7, <2>1, <2>2 DEF Synced, Cleaned, SyncRaised
  <2>3. CASE place # "disconnect"
    <3>1. held.for \in {"lease", "again"}
      BY <1>7, <2>3 DEF Sorts, HoldOK, Syncing
    <3>2. /\ session' \subseteq session /\ timers' \subseteq Conversations
          /\ held' = Nobody \/ held'.for \in {"lease", "again", "cancelled"}
      BY <1>7, <1>a, <2>1, <2>3, <3>1 DEF Synced, SyncRaised, Enters, Frees, openVars
    <3> QED BY <1>6, <1>7, <2>1, <2>3, <3>2
  <2> QED BY <2>2, <2>3
<1>8. CASE Move \/ MoveUnanswered
  BY <1>7, <1>8 DEF Move, MoveUnanswered, Sorts, HoldOK
<1>9. CASE SyncFails \/ NothingToSync
  BY <1>7, <1>9 DEF SyncFails, NothingToSync
<1>10. CASE FindLost
  <2>1. place # "free" /\ held \in [of : Conversations, for : Purposes]
    BY <1>10 DEF FindLost, Syncing, Sorts, HoldOK, SandboxTypeOK
  <2>2. CASE place = "disconnect"
    BY <1>6, <1>10, <2>1, <2>2 DEF FindLost, Cleaned
  <2>3. CASE place # "disconnect"
    <3>1. /\ session' \subseteq session /\ timers' \subseteq Conversations
          /\ held' = Nobody \/ held' = [held EXCEPT !.for = "again"]
      BY <1>10, <1>a, <2>1, <2>3 DEF FindLost, Syncing, Dropped, Frees, openVars
    <3>2. held' = Nobody \/ held'.for = "again"
      BY <2>1, <3>1
    <3> QED BY <1>6, <1>10, <2>1, <2>3, <3>1, <3>2 DEF FindLost
  <2> QED BY <2>2, <2>3
<1>11. CASE List \/ ContainerReplaced
  BY <1>1, <1>11 DEF List, ContainerReplaced, managerVars, lockVars, openVars
<1>12. CASE LeaseEnds \/ LeaseCancelled \/ LeaseLost
  <2>1. place = "leased" /\ held \in [of : Conversations, for : Purposes] /\ held.for \in {"lease", "again"}
    BY <1>12 DEF LeaseEnds, LeaseCancelled, LeaseLost, Sorts, HoldOK, SandboxTypeOK
  <2>2. /\ session' \subseteq session /\ timers' \subseteq Conversations
        /\ held' = Nobody \/ held'.for \in {"lease", "again", "cancelled"}
    BY <1>12, <1>a, <2>1 DEF LeaseEnds, LeaseCancelled, LeaseLost, Enters, Frees, Dropped, openVars
  <2> QED BY <1>6, <1>12, <2>1, <2>2 DEF LeaseEnds, LeaseCancelled, LeaseLost
<1>13. CASE Close
  <2>1. toClose' = Conversations /\ timers' = {} /\ closed' /\ result' = "closing" /\ held' = held
        /\ session' = session
    BY <1>13 DEF Close, lockVars
  <2>2. held.for = "timer" => held.of \in Conversations
    BY <1>b DEF Sorts, SandboxTypeOK
  <2> QED BY <1>a, <2>1, <2>2 DEF ClosingOK
<1>14. ASSUME NEW c \in Conversations, CloseEntry(c) PROVE ClosingOK'
  <2>1. result = "closing" /\ c \in toClose /\ held = Nobody /\ toClose' = toClose \ {c}
        /\ timers' = timers \ {c} /\ result' = result /\ closed' = closed /\ session' = session
    BY <1>14 DEF CloseEntry
  <2>2. \A d \in session \ toClose : d \in failed
    BY <2>1, <1>b DEF ClosingOK
  <2>3. \/ held' = [of |-> c, for |-> "close"] /\ failed' = failed
        \/ held' = held /\ failed' = failed \ {c} /\ c \notin session
    BY <1>14 DEF CloseEntry, lockVars
  <2>4. \A d \in session' \ toClose' : d \in failed' \/ held' = [of |-> d, for |-> "close"]
    BY <2>1, <2>2, <2>3
  <2>5. held'.for \in {"nothing", "close"}
    BY <2>1, <2>3, <1>b
  <2> QED BY <2>1, <2>4, <2>5 DEF ClosingOK
<1>15. CASE CloseReturns
  <2>1. result = "closing" /\ toClose = {} /\ held.for # "close" /\ result' \in {"closed", "raised"}
        /\ (result' = "closed" => failed = {})
        /\ UNCHANGED <<closed, toClose, held, session, failed, timers>>
    BY <1>15 DEF CloseReturns, lockVars, openVars
  <2> QED BY <2>1 DEF ClosingOK
<1>16. ASSUME NEW deletes \in BOOLEAN, Command(deletes) \/ HostEdit(deletes) PROVE ClosingOK'
  BY <1>1, <1>16 DEF Command, HostEdit, managerVars, lockVars, openVars
<1>17. CASE UNCHANGED sandboxVars
  BY <1>1, <1>17 DEF sandboxVars, managerVars, lockVars, openVars
<1> QED
  BY <1>2, <1>3, <1>4, <1>5, <1>8, <1>9, <1>10, <1>11, <1>12, <1>13, <1>14, <1>15, <1>16, <1>17 DEF SandboxNext

\* When close() is over without an error no sandbox is open; when it raised,
\* what is still open is what it reported.
THEOREM CloseLeavesNothingOpen == SandboxSpec => []CloseReleases
<1>1. SandboxInit => ClosingOK
  BY DEF SandboxInit, ClosingOK
<1>2. Sorts /\ ClosingOK => CloseReleases
  <2> SUFFICES ASSUME Sorts, ClosingOK PROVE CloseReleases
    OBVIOUS
  <2>1. result = "closed" => held.for # "close" /\ toClose = {} /\ failed = {}
    BY DEF ClosingOK
  <2>2. result = "closed" => \A c \in session : held = [of |-> c, for |-> "close"]
    BY <2>1 DEF ClosingOK
  <2>3. result = "closed" => session = {}
    BY <2>1, <2>2
  <2>4. ASSUME result = "raised", held = Nobody PROVE session \subseteq failed
    <3>1. held.for = "nothing"
      BY <2>4 DEF Nobody
    <3>2. toClose = {} /\ \A c \in session \ toClose : c \in failed
      BY <2>4, <3>1 DEF ClosingOK
    <3> QED BY <3>2
  <2> QED BY <2>3, <2>4 DEF CloseReleases
<1> QED BY <1>1, <1>2, SortsInit, SortsKept, ClosingKept, PTL DEF SandboxSpec

-----------------------------------------------------------------------------
(* What a sync replaces.                                                   *)

\* What a move replaces on one side was given up or is on the other side,
\* and what the session remembers afterwards is on both sides or given up.
LEMMA MoveReplaces ==
    ASSUME Sorts, FilesOK, syncWindow.open, held.of \in Conversations,
           NEW known \in BOOLEAN, Moves(known), UNCHANGED editVars
    PROVE  /\ excused \subseteq excused' /\ host' <= edits
           /\ \A d \in Conversations : box'[d] <= edits /\ base'[d] <= edits
           /\ \A d \in Conversations \ {held.of} : box'[d] = box[d] /\ base'[d] = base[d]
           /\ Based'
           /\ host \in Given' \/ host' = host
           /\ box[held.of] \in Given' \/ host' = box[held.of] \/ (place = "in" /\ box' = box)
<1> DEFINE c == held.of
           old == syncWindow.host
           there == Hash(box[c])
<1>a. /\ box \in [Conversations -> Contents] /\ base \in [Conversations -> Contents]
      /\ old \in Contents /\ host \in Contents /\ edits \in Contents /\ excused \subseteq Contents
  BY DEF Sorts, SandboxTypeOK
<1>b. /\ 0 \in gone /\ 0 <= edits /\ host <= edits /\ old <= edits /\ syncWindow.box = box[c]
      /\ \A d \in Conversations : box[d] <= edits /\ base[d] <= edits
  BY <1>a DEF FilesOK, WindowOK, Fresh, Contents
<1>c. host = old \/ (old \in replaced /\ \A d \in Conversations : base[d] # host)
  BY DEF FilesOK, WindowOK
<1>d. base[c] \in Given \/ (host = base[c] /\ box[c] = base[c])
  BY DEF FilesOK, Based
<1>e. gone' = gone /\ replaced' = replaced
  BY DEF editVars
<1>f. (there = 0 /\ box[c] \in gone) \/ there = box[c]
  BY DEF Hash
<1>g. (Hash(old) = 0 /\ old \in gone) \/ Hash(old) = old
  BY DEF Hash
<1>h. Hash(host) = 0 \/ Hash(host) = host
  BY DEF Hash
<1>i. there <= edits /\ Hash(old) <= edits
  BY <1>b, <1>f, <1>g
<1>1. CASE place = "in"
  <2> DEFINE carried == Carries(Hash(old), there, base[c])
  <2>1. /\ ~Conflicts(Hash(old), there, base[c]) /\ host' = host
        /\ \/ carried /\ box' = [box EXCEPT ![c] = IF Hash(old) = 0 THEN old ELSE host]
           \/ ~carried /\ box' = box
        /\ excused' = excused
        /\ \/ base' = [base EXCEPT ![c] = Baseline(Hash(old), there, base[c])]
           \/ base' = base
    BY <1>1, <1>a, <1>b DEF Moves, MoveIn
  <2>2. Baseline(Hash(old), there, base[c]) \in {Hash(old), base[c]}
    BY DEF Baseline
  <2>3. \A d \in Conversations : box'[d] <= edits /\ base'[d] <= edits
    BY <2>1, <2>2, <1>a, <1>b, <1>i
  <2>4. \A d \in Conversations \ {c} : box'[d] = box[d] /\ base'[d] = base[d]
    BY <2>1, <1>a
  <2>6. base'[c] \in Given \/ (host = base'[c] /\ box'[c] = base'[c])
    <3>1. CASE base' = base
      <4>1. CASE base[c] \in Given
        BY <3>1, <4>1
      <4>2. CASE host = base[c] /\ box[c] = base[c] /\ base[c] \notin Given
        <5>1. host = old
          BY <4>2, <1>c
        <5>2. Hash(old) = old
          BY <4>2, <5>1, <1>g DEF Given
        <5>3. box'[c] = host
          BY <2>1, <4>2, <5>1, <5>2, <1>a
        <5> QED BY <3>1, <4>2, <5>3
      <4> QED BY <4>1, <4>2, <1>d
    <3>2. CASE base' = [base EXCEPT ![c] = Baseline(Hash(old), there, base[c])] /\ carried
      <4>1. base'[c] = Hash(old)
        BY <3>2, <1>a DEF Baseline
      <4>2. CASE Hash(old) = 0
        BY <4>1, <4>2, <1>b DEF Given
      <4>3. CASE Hash(old) # 0
        BY <2>1, <3>2, <4>1, <4>3, <1>a, <1>c, <1>g DEF Given
      <4> QED BY <4>2, <4>3
    <3>3. CASE base' = [base EXCEPT ![c] = Baseline(Hash(old), there, base[c])] /\ ~carried
      <4>1. CASE Hash(old) = there
        <5>1. base'[c] = Hash(old)
          BY <3>3, <4>1, <1>a DEF Baseline
        <5> QED BY <2>1, <3>3, <4>1, <5>1, <1>b, <1>c, <1>f, <1>g DEF Given
      <4>2. CASE Hash(old) # there
        <5>1. base'[c] = base[c] /\ box' = box
          BY <2>1, <3>3, <4>2, <1>a DEF Baseline
        <5> QED BY <5>1, <1>d
      <4> QED BY <4>1, <4>2
    <3> QED BY <2>1, <3>1, <3>2, <3>3
  <2>7. Given' = Given
    BY <2>1, <1>e DEF Given
  <2>8. Based'
    BY <2>1, <2>4, <2>6, <2>7 DEF FilesOK, Based
  <2>9. box[c] \in Given \/ host = box[c] \/ box' = box
    <3>1. CASE carried
      <4>1. there = base[c]
        BY <2>1, <3>1 DEF Conflicts
      <4> QED BY <4>1, <1>d, <1>f DEF Given
    <3> QED BY <2>1, <3>1
  <2> QED BY <1>1, <2>1, <2>3, <2>4, <2>7, <2>8, <2>9, <1>b
<1>2. CASE place # "in"
  <2> DEFINE carried == Carries(there, Hash(old), base[c])
  <2>1. /\ ~Conflicts(there, Hash(old), base[c]) /\ box' = box
        /\ \/ carried /\ host' = box[c] /\ excused' = excused \cup ({host} \ {old})
           \/ ~carried /\ host' = host /\ excused' = excused
        /\ \/ base' = [base EXCEPT ![c] = Baseline(there, Hash(old), base[c])]
           \/ base' = base
    BY <1>2, <1>a, <1>b DEF Moves, MoveOut
  <2>2. Baseline(there, Hash(old), base[c]) \in {there, base[c]}
    BY DEF Baseline
  <2>3. \A d \in Conversations : box'[d] <= edits /\ base'[d] <= edits
    BY <2>1, <2>2, <1>a, <1>b, <1>i
  <2>4. \A d \in Conversations \ {c} : box'[d] = box[d] /\ base'[d] = base[d]
    BY <2>1, <1>a
  <2>5. Given \subseteq Given' /\ excused \subseteq excused'
    BY <2>1, <1>e DEF Given
  <2>6. host \in Given' \/ host' = host
    <3>1. CASE carried /\ host = old
      <4>1. Hash(old) = base[c]
        BY <2>1, <3>1 DEF Conflicts
      <4>2. host \in gone \/ host = base[c]
        BY <3>1, <4>1, <1>g
      <4>3. host \in Given \/ (host = base[c] /\ box[c] = base[c])
        BY <4>2, <1>d DEF Given
      <4> QED BY <2>1, <2>5, <3>1, <4>3
    <3>2. CASE carried /\ host # old
      BY <2>1, <3>2 DEF Given
    <3> QED BY <2>1, <3>1, <3>2
  <2>7. box[c] \in Given' \/ host' = box[c]
    <3>1. CASE ~carried /\ there = Hash(old)
      BY <2>1, <2>5, <3>1, <1>b, <1>c, <1>f, <1>g DEF Given
    <3>2. CASE ~carried /\ there = base[c]
      BY <2>1, <2>5, <3>2, <1>d, <1>f DEF Given
    <3> QED BY <2>1, <3>1, <3>2 DEF Carries
  <2>8. base'[c] \in Given' \/ (host' = base'[c] /\ box'[c] = base'[c])
    <3>1. CASE base'[c] = base[c]
      BY <2>1, <2>5, <2>6, <3>1, <1>d
    <3>2. CASE base'[c] = there
      BY <2>1, <2>5, <2>7, <3>2, <1>b, <1>f DEF Given
    <3> QED BY <2>1, <2>2, <3>1, <3>2, <1>a
  <2>9. \A d \in Conversations \ {c} :
           base'[d] \in Given' \/ (host' = base'[d] /\ box'[d] = base'[d])
    BY <2>1, <2>4, <2>5, <2>6 DEF FilesOK, Based
  <2>10. Based'
    BY <2>8, <2>9 DEF Based
  <2> QED BY <1>2, <2>1, <2>3, <2>4, <2>5, <2>6, <2>7, <2>10, <1>b
<1> QED BY <1>1, <1>2

\* An edit gives up the content it replaces, and nobody remembers its own.
LEMMA EditReplaces ==
    ASSUME Sorts, FilesOK, NEW n \in Contents, NEW deletes \in BOOLEAN, EditOver(n, deletes),
           UNCHANGED excused
    PROVE  /\ edits' = edits + 1 /\ edits \in Nat /\ gone \subseteq gone' /\ replaced \subseteq replaced'
           /\ Given \subseteq Given' /\ n \in Given' /\ n \in replaced'
           /\ 0 \in gone' /\ host < edits'
           /\ \A c \in Conversations : base[c] < edits' /\ box[c] < edits'
<1>1. edits \in Nat
  BY DEF Sorts, SandboxTypeOK, Contents
<1>2. /\ edits' = edits + 1 /\ gone \subseteq gone' /\ replaced' = replaced \cup {n}
  BY DEF EditOver
<1>3. /\ host <= edits /\ 0 \in gone /\ host \in Nat
      /\ \A c \in Conversations : box[c] <= edits /\ base[c] <= edits /\ box[c] \in Nat /\ base[c] \in Nat
  BY DEF FilesOK, Fresh, Sorts, SandboxTypeOK, Contents
<1>4. Given \subseteq Given' /\ n \in Given'
  BY <1>2 DEF Given
<1> QED BY <1>1, <1>2, <1>3, <1>4

\* What every step keeps of the contents when it leaves the files alone: a
\* session that is forgotten was dead, or its content is elsewhere.
LEMMA QuietStep ==
    ASSUME Sorts, Sorts', FilesOK, UNCHANGED <<provider, fileVars, editVars>>,
           excused \subseteq excused', session' \subseteq session,
           \A c \in session' \ alive' : box[c] \in excused',
           \A c \in session \ session' : box[c] \in Given' \/ host = box[c],
           syncWindow' = NoWindow \/ (syncWindow' = syncWindow /\ held' = held /\ place' = place)
    PROVE  FilesOK'
<1>1. Given \subseteq Given'
  BY DEF Given, editVars
<1>2. WindowOK'
  <2>1. CASE syncWindow' = NoWindow
    BY <2>1 DEF WindowOK, NoWindow
  <2>2. CASE syncWindow' = syncWindow /\ held' = held /\ place' = place
    BY <2>2 DEF FilesOK, WindowOK, fileVars, editVars
  <2> QED BY <2>1, <2>2
<1>3. Based'
  BY <1>1 DEF FilesOK, Based, fileVars
<1>4. DeadExcused' /\ Fresh' /\ NoCopies'
  BY DEF FilesOK, DeadExcused, Fresh, NoCopies, Copies, fileVars, editVars
<1>5. \A n \in 1..edits' : Accounted(n)'
  <2> TAKE n \in 1..edits'
  <2>1. Accounted(n)
    BY DEF FilesOK, editVars
  <2> QED BY <1>1, <2>1 DEF Accounted, fileVars
<1> QED BY <1>2, <1>3, <1>4, <1>5 DEF FilesOK

LEMMA FilesKept == ASSUME Sorts, Sorts', FilesOK, [SandboxNext]_sandboxVars PROVE FilesOK'
<1>a. /\ box \in [Conversations -> Contents] /\ base \in [Conversations -> Contents]
      /\ host \in Contents /\ edits \in Nat /\ session \subseteq Conversations /\ alive \subseteq session
      /\ 0 \in gone
  BY DEF Sorts, SandboxTypeOK, Contents, FilesOK, Fresh
<1>b. \A c \in session \ alive : box[c] \in excused
  BY DEF FilesOK, DeadExcused
<1>1. ASSUME NEW c \in Conversations, Ask(c) \/ Acquire(c) \/ Expire(c) \/ CloseEntry(c) PROVE FilesOK'
  BY <1>1, <1>b, QuietStep DEF Ask, Acquire, Expire, CloseEntry, lockVars, openVars
<1>2. ASSUME NEW c \in Conversations, SandboxDies(c) PROVE FilesOK'
  <2>1. \A d \in session' \ alive' : box[d] \in excused'
    BY <1>2, <1>b DEF SandboxDies
  <2> QED BY <1>2, <2>1, QuietStep DEF SandboxDies, lockVars
<1>3. CASE CannotConnect \/ LeaseEnds \/ LeaseCancelled \/ Close \/ CloseReturns
  BY <1>3, <1>b, QuietStep
  DEF CannotConnect, LeaseEnds, LeaseCancelled, Close, CloseReturns, Enters, Frees, lockVars, openVars
<1>4. CASE Connect
  <2>1. held.of \in Conversations \ session /\ ~syncWindow.open
    BY <1>4 DEF Connect, Sorts, HoldOK, SandboxTypeOK, Syncing
  <2> DEFINE c == held.of
  <2>2. /\ box'[c] = 0 /\ base'[c] = 0 /\ \A d \in Conversations \ {c} : box'[d] = box[d] /\ base'[d] = base[d]
    BY <1>4, <1>a, <2>1 DEF Connect
  <2>3. Given' = Given /\ host' = host /\ edits' = edits /\ gone' = gone /\ excused' = excused
    BY <1>4 DEF Connect, editVars, Given
  <2>4. WindowOK'
    BY <1>4 DEF Connect, Enters, NoWindow, WindowOK
  <2>5. Based'
    BY <1>a, <2>2, <2>3 DEF FilesOK, Based, Given
  <2>6. DeadExcused'
    BY <1>4, <1>b, <2>1, <2>2, <2>3 DEF Connect, DeadExcused
  <2>7. Fresh'
    BY <1>a, <2>2, <2>3 DEF FilesOK, Fresh
  <2>8. NoCopies'
    BY <1>4, <2>2 DEF Connect, FilesOK, NoCopies, Copies
  <2>9. \A n \in 1..edits' : Accounted(n)'
    <3> TAKE n \in 1..edits'
    <3>1. Accounted(n)
      BY <2>3 DEF FilesOK
    <3>2. ASSUME NEW d \in session, box[d] = n PROVE d \in session' /\ box'[d] = n
      BY <1>4, <1>a, <2>1, <2>2, <3>2 DEF Connect
    <3> QED BY <2>3, <3>1, <3>2 DEF Accounted
  <2> QED BY <2>4, <2>5, <2>6, <2>7, <2>8, <2>9 DEF FilesOK
<1>5. CASE List
  <2>1. held.of \in Conversations /\ held.of \in session
    BY <1>5, <1>a DEF List
  <2>2. WindowOK'
    BY <1>5 DEF List, fileVars, editVars, WindowOK, FilesOK, Fresh
  <2>3. Given' = Given /\ UNCHANGED <<host, box, base, edits, gone, excused, session, alive, provider>>
    BY <1>5 DEF List, openVars, fileVars, editVars, Given
  <2> QED
    BY <2>2, <2>3 DEF FilesOK, Based, DeadExcused, Fresh, NoCopies, Copies, Accounted
<1>6. ASSUME place # "disconnect" \/ ~Copies \/ held.of \in session \ alive,
             Synced \/ SyncRaised, UNCHANGED <<provider, fileVars, editVars, excused>>
      PROVE  FilesOK'
  <2>1. syncWindow' = NoWindow
    BY <1>6 DEF Synced, SyncRaised, Cleaned, Enters, Frees
  <2>2. \/ session' = session /\ alive' = alive
        \/ place = "disconnect" /\ session' = session \ {held.of} /\ alive' = alive \ {held.of}
    BY <1>6 DEF Synced, SyncRaised, Cleaned, openVars
  <2>3. CASE session' = session /\ alive' = alive
    BY <1>6, <1>b, <2>1, <2>3, QuietStep
  <2>4. CASE place = "disconnect" /\ session' = session \ {held.of} /\ alive' = alive \ {held.of}
    <3>1. held.of \in session => box[held.of] \in Given'
      <4>1. CASE ~Copies
        BY <1>6, <1>a, <4>1 DEF FilesOK, NoCopies, Given, editVars
      <4>2. CASE held.of \in session \ alive
        BY <1>6, <1>b, <4>2 DEF Given, editVars
      <4> QED BY <1>6, <2>4, <4>1, <4>2
    <3>2. session' \subseteq session /\ \A d \in session' \ alive' : box[d] \in excused'
      BY <1>6, <1>b, <2>4
    <3> QED BY <1>6, <2>1, <2>4, <3>1, <3>2, QuietStep
  <2> QED BY <2>2, <2>3, <2>4
<1>7. CASE SyncFails
  <2>1. session' = session /\ alive' = alive /\ syncWindow' = NoWindow
    BY <1>7 DEF SyncFails, SyncRaised, Frees
  <2> QED BY <1>7, <1>b, <2>1, QuietStep DEF SyncFails
<1>8. CASE NothingToSync
  BY <1>6, <1>8 DEF NothingToSync
<1>9. ASSUME Dropped, held.of \in session \ alive, syncWindow' = NoWindow,
             UNCHANGED <<provider, fileVars, editVars, excused>>
      PROVE  FilesOK'
  <2>1. box[held.of] \in Given'
    BY <1>9, <1>b DEF Given, editVars
  <2>2. session' \subseteq session /\ \A d \in session' \ alive' : box[d] \in excused'
    BY <1>9, <1>b DEF Dropped
  <2> QED BY <1>9, <2>1, <2>2, QuietStep DEF Dropped
<1>10. CASE FindLost
  <2>1. held.of \in session \ alive /\ UNCHANGED <<provider, fileVars, editVars, excused>>
    BY <1>10 DEF FindLost
  <2>2. CASE Dropped /\ syncWindow' = NoWindow
    BY <1>9, <2>1, <2>2
  <2>3. CASE Frees /\ UNCHANGED openVars
    BY <1>b, <2>1, <2>3, QuietStep DEF Frees, openVars
  <2>4. CASE place = "disconnect" /\ Cleaned
    BY <1>6, <2>1, <2>4 DEF Synced
  <2> QED BY <1>10, <2>2, <2>3, <2>4 DEF FindLost, Frees
<1>11. CASE LeaseLost
  <2>1. CASE held.of \in session
    BY <1>9, <1>11, <2>1 DEF LeaseLost, Frees
  <2>2. CASE held.of \notin session
    BY <1>11, <1>a, <1>b, <2>2, QuietStep DEF LeaseLost, Frees, Dropped
  <2> QED BY <2>1, <2>2
<1>12. CASE Move \/ MoveUnanswered
  <2> DEFINE c == held.of
  <2>1. /\ syncWindow.open /\ c \in alive /\ c \in session /\ c \in Conversations
        /\ Synced \/ SyncRaised
        /\ UNCHANGED <<provider, editVars>>
    BY <1>12, <1>a DEF Move, MoveUnanswered
  <2>2. PICK known \in BOOLEAN : Moves(known)
    BY <1>12 DEF Move, MoveUnanswered
  <2>3. /\ excused \subseteq excused' /\ host' <= edits
        /\ \A d \in Conversations : box'[d] <= edits /\ base'[d] <= edits
        /\ \A d \in Conversations \ {c} : box'[d] = box[d] /\ base'[d] = base[d]
        /\ Based'
        /\ host \in Given' \/ host' = host
        /\ box[c] \in Given' \/ host' = box[c] \/ (place = "in" /\ box' = box)
    BY <2>1, <2>2, MoveReplaces
  <2>4. /\ syncWindow' = NoWindow
        /\ \/ session' = session /\ alive' = alive
           \/ place = "disconnect" /\ session' = session \ {c} /\ alive' = alive \ {c}
    BY <2>1 DEF Synced, SyncRaised, Cleaned, Enters, Frees, openVars
  <2>5. Given \subseteq Given' /\ edits' = edits /\ gone' = gone /\ provider' = provider
    BY <2>1, <2>3 DEF editVars, Given
  <2>6. WindowOK'
    BY <2>4 DEF WindowOK, NoWindow
  <2>7. DeadExcused'
    BY <1>a, <1>b, <2>1, <2>3, <2>4 DEF DeadExcused
  <2>8. Fresh'
    BY <1>a, <2>3, <2>5 DEF Fresh
  <2>9. NoCopies'
    BY <2>1, <2>5 DEF Sorts, HoldOK, NoCopies, Copies
  <2>10. \A n \in 1..edits' : Accounted(n)'
    <3> TAKE n \in 1..edits'
    <3>1. Accounted(n)
      BY <2>5 DEF FilesOK
    <3>2. CASE n \in Given \/ host = n
      BY <2>3, <2>5, <3>2 DEF Accounted
    <3>3. ASSUME NEW d \in session, box[d] = n, d # c PROVE Accounted(n)'
      <4>1. d \in session' /\ box'[d] = n
        BY <1>a, <2>3, <2>4, <3>3
      <4> QED BY <4>1 DEF Accounted
    <3>4. CASE box[c] = n
      BY <2>1, <2>3, <2>4, <3>4 DEF Accounted
    <3> QED BY <3>1, <3>2, <3>3, <3>4 DEF Accounted
  <2> QED BY <2>3, <2>6, <2>7, <2>8, <2>9, <2>10 DEF FilesOK
<1>13. CASE ContainerReplaced
  <2>1. held.of \in alive /\ held.of \in Conversations /\ ~syncWindow.open
    BY <1>13, <1>a DEF ContainerReplaced, Sorts, HoldOK, Syncing
  <2> DEFINE c == held.of
  <2>2. /\ box'[c] = 0 /\ base'[c] = 0 /\ \A d \in Conversations \ {c} : box'[d] = box[d] /\ base'[d] = base[d]
    BY <1>13, <1>a, <2>1 DEF ContainerReplaced
  <2>3. /\ Given \subseteq Given' /\ box[c] \in Given' /\ 0 \in Given'
        /\ UNCHANGED <<host, edits, gone, session, alive, syncWindow, provider>> /\ excused \subseteq excused'
    BY <1>13, <1>a DEF ContainerReplaced, editVars, openVars, lockVars, Given
  <2>4. WindowOK'
    BY <2>1, <2>3 DEF WindowOK
  <2>5. Based'
    BY <1>a, <2>2, <2>3 DEF FilesOK, Based
  <2>6. DeadExcused'
    BY <1>a, <1>b, <2>1, <2>2, <2>3 DEF DeadExcused
  <2>7. Fresh'
    BY <1>a, <2>2, <2>3 DEF FilesOK, Fresh
  <2>8. NoCopies'
    BY <1>a, <2>2, <2>3 DEF FilesOK, NoCopies, Copies
  <2>9. \A n \in 1..edits' : Accounted(n)'
    <3> TAKE n \in 1..edits'
    <3>1. Accounted(n)
      BY <2>3 DEF FilesOK
    <3> QED BY <1>a, <2>2, <2>3, <3>1 DEF Accounted
  <2> QED BY <2>4, <2>5, <2>6, <2>7, <2>8, <2>9 DEF FilesOK
<1>14. ASSUME NEW deletes \in BOOLEAN, EditOver(host, deletes), host' = edits + 1,
              UNCHANGED <<provider, lockVars, openVars, box, base, excused>>
       PROVE  FilesOK'
  <2>1. /\ edits' = edits + 1 /\ gone \subseteq gone' /\ replaced \subseteq replaced'
        /\ Given \subseteq Given' /\ host \in Given' /\ host \in replaced'
        /\ 0 \in gone' /\ host < edits'
        /\ \A c \in Conversations : base[c] < edits' /\ box[c] < edits'
    BY <1>14, <1>a, EditReplaces
  <2>2. WindowOK'
    <3> SUFFICES ASSUME syncWindow.open PROVE WindowOK'
      BY <1>14 DEF WindowOK, lockVars
    <3>1. box[held.of] = syncWindow.box /\ syncWindow.host <= edits /\ syncWindow.host \in Nat
      BY DEF FilesOK, WindowOK, Sorts, SandboxTypeOK, Contents
    <3>2. syncWindow.host = host \/ syncWindow.host \in replaced
      BY DEF FilesOK, WindowOK
    <3>3. \A c \in Conversations : base[c] # host'
      BY <1>14, <1>a, <2>1 DEF Contents
    <3>4. syncWindow.host <= edits'
      BY <1>a, <2>1, <3>1
    <3> QED BY <1>14, <2>1, <3>1, <3>2, <3>3, <3>4 DEF WindowOK, lockVars
  <2>3. Based'
    BY <1>14, <2>1 DEF FilesOK, Based
  <2>4. DeadExcused' /\ NoCopies'
    BY <1>14 DEF FilesOK, DeadExcused, NoCopies, Copies, openVars
  <2>5. Fresh'
    BY <1>14, <1>a, <2>1 DEF FilesOK, Fresh, Contents
  <2>6. \A n \in 1..edits' : Accounted(n)'
    <3> TAKE n \in 1..edits'
    <3>1. CASE n = edits + 1
      BY <1>14, <3>1 DEF Accounted
    <3>2. CASE n # edits + 1
      <4>1. n \in 1..edits
        BY <1>a, <2>1, <3>2
      <4>2. Accounted(n)
        BY <4>1 DEF FilesOK
      <4> QED BY <1>14, <2>1, <4>2 DEF Accounted, openVars
    <3> QED BY <3>1, <3>2
  <2> QED BY <2>2, <2>3, <2>4, <2>5, <2>6 DEF FilesOK
<1>15. ASSUME NEW deletes \in BOOLEAN, Command(deletes), Copies PROVE FilesOK'
  <2> DEFINE c == held.of
  <2>1. c \in alive /\ c \in Conversations /\ c \in session /\ ~syncWindow.open
    BY <1>15, <1>a DEF Command, Sorts, HoldOK, Syncing
  <2>2. /\ EditOver(box[c], deletes) /\ box[c] \in Contents
        /\ UNCHANGED <<excused, host, base, session, alive, syncWindow, provider>>
    BY <1>15, <1>a, <2>1 DEF Command, lockVars, openVars
  <2>3. /\ edits' = edits + 1 /\ gone \subseteq gone'
        /\ Given \subseteq Given' /\ box[c] \in Given' /\ 0 \in gone' /\ host < edits'
        /\ \A d \in Conversations : base[d] < edits' /\ box[d] < edits'
    BY <2>2, EditReplaces
  <2>4. box'[c] = edits + 1 /\ \A d \in Conversations \ {c} : box'[d] = box[d]
    BY <1>15, <1>a, <2>1 DEF Command
  <2>5. WindowOK'
    BY <2>1, <2>2 DEF WindowOK
  <2>6. Based'
    BY <2>1, <2>2, <2>3, <2>4 DEF FilesOK, Based
  <2>7. DeadExcused'
    BY <1>a, <1>b, <2>1, <2>2, <2>4 DEF DeadExcused
  <2>8. Fresh'
    BY <1>a, <2>2, <2>3, <2>4 DEF FilesOK, Fresh, Contents
  <2>9. NoCopies'
    BY <1>15, <2>2 DEF NoCopies, Copies
  <2>10. \A n \in 1..edits' : Accounted(n)'
    <3> TAKE n \in 1..edits'
    <3>1. CASE n = edits + 1
      BY <2>1, <2>2, <2>4, <3>1 DEF Accounted
    <3>2. CASE n # edits + 1
      <4>1. n \in 1..edits
        BY <1>a, <2>3, <3>2
      <4>2. Accounted(n)
        BY <4>1 DEF FilesOK
      <4> QED BY <1>a, <2>2, <2>3, <2>4, <4>2 DEF Accounted
    <3> QED BY <3>1, <3>2
  <2> QED BY <2>5, <2>6, <2>7, <2>8, <2>9, <2>10 DEF FilesOK
<1>16. ASSUME NEW deletes \in BOOLEAN, Command(deletes) \/ HostEdit(deletes) PROVE FilesOK'
  BY <1>14, <1>15, <1>16 DEF Command, HostEdit
<1>17. CASE UNCHANGED sandboxVars
  BY <1>17, <1>b, QuietStep DEF sandboxVars, lockVars, openVars
<1> QED
  BY <1>1, <1>2, <1>3, <1>4, <1>5, <1>7, <1>8, <1>10, <1>11, <1>12, <1>13, <1>16, <1>17 DEF SandboxNext

\* A content nobody edited over is still on the host or in an open sandbox,
\* unless its sandbox died or it was written between a listing and its move:
\* "Never silently overwrite concurrent edits or discard unsynced changes."
THEOREM NoEditIsLost == SandboxSpec => []NoSilentLoss
<1>1. SandboxInit => FilesOK
  BY DEF SandboxInit, FilesOK, WindowOK, Based, DeadExcused, Fresh, NoCopies, NoWindow, Given
<1>2. FilesOK => NoSilentLoss
  BY DEF FilesOK, NoSilentLoss, Accounted, Given
<1> QED BY <1>1, <1>2, SortsInit, SortsKept, FilesKept, PTL DEF SandboxSpec

-----------------------------------------------------------------------------
(* The sync of a remote workspace.                                         *)

Settled(m) == m = 0 \/ m \in superseded \cup clobbered

Vouched(s, m) == Settled(m) \/ (remote.id = m /\ local[s] = m)

\* The manifest of a server, on disk and in memory.
ManifestSynced == \A s \in Servers : Vouched(s, manifest[s]) /\ Vouched(s, entry[s])

\* What the listing and the scan said about what the manifest knows.
ListedSynced == \A s \in Servers : syncing[s] = "download" =>
    /\ phase[s] = "listed" => Settled(manifest[s]) \/ listed[s].id = manifest[s]
    /\ phase[s] = "scanned" => Settled(entry[s]) \/ listed[s].id = entry[s]

ScanSynced == \A s \in Servers : phase[s] = "scanned" =>
    /\ Settled(scanned[s]) \/ local[s] = scanned[s]
    /\ Settled(entry[s]) \/ scanned[s] = entry[s]

Kept == ManifestSynced /\ ListedSynced /\ ScanSynced /\ SyncLosesNothing

IInv == WorkspaceSyncTypeOK /\ Kept

-----------------------------------------------------------------------------
LEMMA TypeKept == ASSUME WorkspaceSyncTypeOK, [WorkspaceSyncNext]_workspaceSyncVars
                  PROVE  WorkspaceSyncTypeOK'
<1> USE WorkspaceSyncAssumption DEF WorkspaceSyncAssumption, WorkspaceSyncTypeOK, Versions, NoObject
<1>1. ASSUME NEW s \in Servers, StartDownload(s) PROVE WorkspaceSyncTypeOK'
  BY <1>1 DEF StartDownload, Reaches
<1>2. ASSUME NEW s \in Servers, Scan(s) PROVE WorkspaceSyncTypeOK'
  BY <1>2 DEF Scan, Reaches
<1>3. ASSUME NEW s \in Servers, Get(s) PROVE WorkspaceSyncTypeOK'
  BY <1>3 DEF Get, Reaches
<1>4. ASSUME NEW s \in Servers, KeepOrUnlink(s) PROVE WorkspaceSyncTypeOK'
  <2>1. local' \in [Servers -> 0..MaxVersions] /\ entry' \in [Servers -> 0..MaxVersions]
    BY <1>4 DEF KeepOrUnlink
  <2>2. clobbered' \subseteq clobbered \cup {local[s]} /\ local[s] \in 0..MaxVersions
    BY <1>4 DEF KeepOrUnlink
  <2>3. clobbered' \subseteq 0..MaxVersions
    BY <2>2
  <2> QED BY <1>4, <2>1, <2>3 DEF KeepOrUnlink, Reaches
<1>5. ASSUME NEW s \in Servers, Put(s) PROVE WorkspaceSyncTypeOK'
  BY <1>5 DEF Put, Reaches
<1>6. ASSUME NEW s \in Servers, DeleteOrKeep(s) PROVE WorkspaceSyncTypeOK'
  <2>1. remote' \in [id : 0..MaxVersions, sha : 0..MaxVersions]
    BY <1>6 DEF DeleteOrKeep
  <2>2. clobbered' \subseteq clobbered \cup {remote.id} /\ remote.id \in 0..MaxVersions
    BY <1>6 DEF DeleteOrKeep
  <2>3. clobbered' \subseteq 0..MaxVersions
    BY <2>2
  <2> QED BY <1>6, <2>1, <2>3 DEF DeleteOrKeep, Reaches
<1>7. ASSUME NEW s \in Servers, WriteManifest(s) PROVE WorkspaceSyncTypeOK'
  BY <1>7 DEF WriteManifest, Ends
<1>8. ASSUME NEW s \in Servers, SyncStops(s) PROVE WorkspaceSyncTypeOK'
  BY <1>8 DEF SyncStops, Ends
<1>9. ASSUME NEW s \in Servers, NEW deletes \in BOOLEAN, EditLocal(s, deletes) PROVE WorkspaceSyncTypeOK'
  <2>1. versions' \in 0..MaxVersions /\ local[s] \in 0..MaxVersions
    BY <1>9 DEF EditLocal
  <2>2. local' \in [Servers -> 0..MaxVersions]
    BY <1>9 DEF EditLocal
  <2>3. superseded' \subseteq 0..MaxVersions
    BY <1>9, <2>1 DEF EditLocal
  <2> QED BY <1>9, <2>1, <2>2, <2>3 DEF EditLocal
<1>10. ASSUME NEW deletes \in BOOLEAN, EditRemote(deletes) PROVE WorkspaceSyncTypeOK'
  <2>1. versions' \in 0..MaxVersions /\ remote.id \in 0..MaxVersions
    BY <1>10 DEF EditRemote
  <2>2. remote' \in [id : 0..MaxVersions, sha : 0..MaxVersions]
    BY <1>10 DEF EditRemote
  <2>3. superseded' \subseteq 0..MaxVersions
    BY <1>10, <2>1 DEF EditRemote
  <2> QED BY <1>10, <2>1, <2>2, <2>3 DEF EditRemote
<1>11. CASE UNCHANGED workspaceSyncVars
  BY <1>11 DEF workspaceSyncVars
<1> QED BY <1>1, <1>2, <1>3, <1>4, <1>5, <1>6, <1>7, <1>8, <1>9, <1>10, <1>11 DEF WorkspaceSyncNext

LEMMA Initially == WorkspaceSyncInit => IInv
<1> SUFFICES ASSUME WorkspaceSyncInit PROVE IInv
  OBVIOUS
<1> USE WorkspaceSyncAssumption DEF WorkspaceSyncAssumption, WorkspaceSyncInit
<1>1. WorkspaceSyncTypeOK
  BY DEF WorkspaceSyncTypeOK, Versions, NoObject
<1>2. Kept
  BY DEF Kept, ManifestSynced, Vouched, Settled, ListedSynced, ScanSynced, SyncLosesNothing
<1> QED BY <1>1, <1>2 DEF IInv

-----------------------------------------------------------------------------
LEMMA Lists == ASSUME IInv, NEW s \in Servers, StartDownload(s) PROVE Kept'
<1> USE DEF IInv, Kept, WorkspaceSyncTypeOK, StartDownload, Reaches
<1>1. ManifestSynced'
  BY DEF ManifestSynced, ListedSynced, ScanSynced, Vouched, Settled, Takes, Unlinks, NoObject
<1>2. ListedSynced' /\ ScanSynced'
  BY DEF ManifestSynced, ListedSynced, ScanSynced, Vouched, Settled, Takes, NoObject
<1>3. SyncLosesNothing'
  BY DEF ManifestSynced, ListedSynced, ScanSynced, Vouched, Settled, Takes, Unlinks, NoObject, SyncLosesNothing
<1> QED BY <1>1, <1>2, <1>3

LEMMA Scans == ASSUME IInv, NEW s \in Servers, Scan(s) PROVE Kept'
<1> USE DEF IInv, Kept, WorkspaceSyncTypeOK, Scan, Reaches
<1>1. ManifestSynced'
  BY DEF ManifestSynced, ListedSynced, ScanSynced, Vouched, Settled, Takes, Unlinks, NoObject
<1>2. ListedSynced' /\ ScanSynced'
  BY DEF ManifestSynced, ListedSynced, ScanSynced, Vouched, Settled, Takes, NoObject
<1>3. SyncLosesNothing'
  BY DEF ManifestSynced, ListedSynced, ScanSynced, Vouched, Settled, Takes, Unlinks, NoObject, SyncLosesNothing
<1> QED BY <1>1, <1>2, <1>3

LEMMA Gets == ASSUME IInv, NEW s \in Servers, Get(s) PROVE Kept'
<1> USE DEF IInv, Kept, WorkspaceSyncTypeOK, Get, Reaches
<1>1. ManifestSynced'
  BY DEF ManifestSynced, ListedSynced, ScanSynced, Vouched, Settled, Takes, Unlinks, NoObject
<1>2. ListedSynced' /\ ScanSynced'
  BY DEF ManifestSynced, ListedSynced, ScanSynced, Vouched, Settled, Takes, NoObject
<1>3. SyncLosesNothing'
  BY DEF ManifestSynced, ListedSynced, ScanSynced, Vouched, Settled, Takes, Unlinks, NoObject, SyncLosesNothing
<1> QED BY <1>1, <1>2, <1>3

LEMMA KeepsOrUnlinks == ASSUME IInv, NEW s \in Servers, KeepOrUnlink(s) PROVE Kept'
<1> USE DEF IInv, Kept, WorkspaceSyncTypeOK, KeepOrUnlink, Reaches
<1>1. ManifestSynced'
  BY DEF ManifestSynced, ListedSynced, ScanSynced, Vouched, Settled, Takes, Unlinks, NoObject
<1>2. ListedSynced' /\ ScanSynced'
  BY DEF ManifestSynced, ListedSynced, ScanSynced, Vouched, Settled, Takes, NoObject
<1>3. SyncLosesNothing'
  BY DEF ManifestSynced, ListedSynced, ScanSynced, Vouched, Settled, Takes, Unlinks, NoObject, SyncLosesNothing
<1> QED BY <1>1, <1>2, <1>3

LEMMA Puts == ASSUME IInv, NEW s \in Servers, Put(s) PROVE Kept'
<1> USE DEF IInv, Kept, WorkspaceSyncTypeOK, Put, Reaches
<1>1. ManifestSynced'
  BY DEF ManifestSynced, ListedSynced, ScanSynced, Vouched, Settled, Takes, Unlinks, NoObject
<1>2. ListedSynced' /\ ScanSynced'
  BY DEF ManifestSynced, ListedSynced, ScanSynced, Vouched, Settled, Takes, NoObject
<1>3. SyncLosesNothing'
  BY DEF ManifestSynced, ListedSynced, ScanSynced, Vouched, Settled, Takes, Unlinks, NoObject, SyncLosesNothing
<1> QED BY <1>1, <1>2, <1>3

LEMMA DeletesOrKeeps == ASSUME IInv, NEW s \in Servers, DeleteOrKeep(s) PROVE Kept'
<1> USE DEF IInv, Kept, WorkspaceSyncTypeOK, DeleteOrKeep, Reaches
<1>1. ManifestSynced'
  BY DEF ManifestSynced, ListedSynced, ScanSynced, Vouched, Settled, Takes, Unlinks, NoObject
<1>2. ListedSynced' /\ ScanSynced'
  BY DEF ManifestSynced, ListedSynced, ScanSynced, Vouched, Settled, Takes, NoObject
<1>3. SyncLosesNothing'
  BY DEF ManifestSynced, ListedSynced, ScanSynced, Vouched, Settled, Takes, Unlinks, NoObject, SyncLosesNothing
<1> QED BY <1>1, <1>2, <1>3

LEMMA Writes == ASSUME IInv, NEW s \in Servers, WriteManifest(s) PROVE Kept'
<1> USE DEF IInv, Kept, WorkspaceSyncTypeOK, WriteManifest, Ends
<1>1. ManifestSynced'
  BY DEF ManifestSynced, ListedSynced, ScanSynced, Vouched, Settled, Takes, Unlinks, NoObject
<1>2. ListedSynced' /\ ScanSynced'
  BY DEF ManifestSynced, ListedSynced, ScanSynced, Vouched, Settled, Takes, NoObject
<1>3. SyncLosesNothing'
  BY DEF ManifestSynced, ListedSynced, ScanSynced, Vouched, Settled, Takes, Unlinks, NoObject, SyncLosesNothing
<1> QED BY <1>1, <1>2, <1>3

LEMMA Stops == ASSUME IInv, NEW s \in Servers, SyncStops(s) PROVE Kept'
<1> USE DEF IInv, Kept, WorkspaceSyncTypeOK, SyncStops, Ends
<1>1. ManifestSynced'
  BY DEF ManifestSynced, ListedSynced, ScanSynced, Vouched, Settled, Takes, Unlinks, NoObject
<1>2. ListedSynced' /\ ScanSynced'
  BY DEF ManifestSynced, ListedSynced, ScanSynced, Vouched, Settled, Takes, NoObject
<1>3. SyncLosesNothing'
  BY DEF ManifestSynced, ListedSynced, ScanSynced, Vouched, Settled, Takes, Unlinks, NoObject, SyncLosesNothing
<1> QED BY <1>1, <1>2, <1>3

LEMMA LocalEdits == ASSUME IInv, NEW s \in Servers, NEW deletes \in BOOLEAN, EditLocal(s, deletes) PROVE Kept'
<1> USE DEF IInv, Kept, WorkspaceSyncTypeOK, EditLocal
<1>1. ManifestSynced'
  BY DEF ManifestSynced, ListedSynced, ScanSynced, Vouched, Settled, Takes, Unlinks, NoObject
<1>2. ListedSynced' /\ ScanSynced'
  BY DEF ManifestSynced, ListedSynced, ScanSynced, Vouched, Settled, Takes, NoObject
<1>3. SyncLosesNothing'
  <2> SUFFICES ASSUME NEW n \in 1..versions', n \notin superseded', n \notin clobbered
               PROVE  remote'.id = n \/ \E u \in Servers : local'[u] = n
    BY DEF SyncLosesNothing
  <2>1. CASE n \in 1..versions
    <3>1. remote.id = n \/ \E u \in Servers : local[u] = n
      BY <2>1 DEF SyncLosesNothing
    <3> QED BY <3>1 DEF NoObject
  <2>2. CASE n \notin 1..versions
    <3>1. n = versions + 1 /\ ~deletes
      BY <2>2, WorkspaceSyncAssumption DEF WorkspaceSyncAssumption, Versions
    <3>2. local'[s] = versions + 1
      BY <3>1
    <3> QED BY <3>1, <3>2
  <2> QED BY <2>1, <2>2
<1> QED BY <1>1, <1>2, <1>3

LEMMA RemoteEdits == ASSUME IInv, NEW deletes \in BOOLEAN, EditRemote(deletes) PROVE Kept'
<1> USE DEF IInv, Kept, WorkspaceSyncTypeOK, EditRemote
<1>1. ManifestSynced'
  BY DEF ManifestSynced, ListedSynced, ScanSynced, Vouched, Settled, Takes, Unlinks, NoObject
<1>2. ListedSynced' /\ ScanSynced'
  BY DEF ManifestSynced, ListedSynced, ScanSynced, Vouched, Settled, Takes, NoObject
<1>3. SyncLosesNothing'
  <2> SUFFICES ASSUME NEW n \in 1..versions', n \notin superseded', n \notin clobbered
               PROVE  remote'.id = n \/ \E u \in Servers : local'[u] = n
    BY DEF SyncLosesNothing
  <2>1. CASE n \in 1..versions
    <3>1. remote.id = n \/ \E u \in Servers : local[u] = n
      BY <2>1 DEF SyncLosesNothing
    <3> QED BY <3>1 DEF NoObject
  <2>2. CASE n \notin 1..versions
    <3>1. n = versions + 1 /\ ~deletes
      BY <2>2, WorkspaceSyncAssumption DEF WorkspaceSyncAssumption, Versions
    <3>2. remote'.id = versions + 1
      BY <3>1
    <3> QED BY <3>1, <3>2
  <2> QED BY <2>1, <2>2
<1> QED BY <1>1, <1>2, <1>3

-----------------------------------------------------------------------------
LEMMA Inductive == WorkspaceSyncSpec => []IInv
<1>1. IInv /\ [WorkspaceSyncNext]_workspaceSyncVars => IInv'
  <2> SUFFICES ASSUME IInv, [WorkspaceSyncNext]_workspaceSyncVars PROVE IInv'
    OBVIOUS
  <2>1. WorkspaceSyncTypeOK'
    BY TypeKept DEF IInv
  <2>2. ASSUME NEW s \in Servers,
               \/ StartDownload(s) \/ Scan(s) \/ Get(s) \/ KeepOrUnlink(s)
               \/ Put(s) \/ DeleteOrKeep(s) \/ WriteManifest(s) \/ SyncStops(s)
        PROVE  Kept'
    BY <2>2, Lists, Scans, Gets, KeepsOrUnlinks, Puts, DeletesOrKeeps, Writes, Stops
  <2>3. ASSUME NEW deletes \in BOOLEAN, EditRemote(deletes) \/ \E s \in Servers : EditLocal(s, deletes)
        PROVE  Kept'
    BY <2>3, LocalEdits, RemoteEdits
  <2>4. CASE UNCHANGED workspaceSyncVars
    BY <2>1, <2>4 DEF workspaceSyncVars, IInv, Kept, ManifestSynced, ListedSynced, ScanSynced, Vouched,
       Settled, SyncLosesNothing
  <2> QED BY <2>1, <2>2, <2>3, <2>4 DEF WorkspaceSyncNext, IInv
<1> QED BY <1>1, Initially, PTL DEF WorkspaceSyncSpec

\* Every variable of the sync keeps its type (RemoteWorkspace).
THEOREM SyncTypeCorrect == WorkspaceSyncSpec => []WorkspaceSyncTypeOK
<1>1. IInv => WorkspaceSyncTypeOK
  BY DEF IInv
<1> QED BY <1>1, Inductive, PTL

\* For any number of servers, wherever a sync stops and whatever is edited
\* meanwhile: a content is still in a cache or in the store, unless somebody
\* edited over it or the side a sync came from took its place
\* (RemoteWorkspace.download, upload).
THEOREM NoContentIsLost == WorkspaceSyncSpec => []SyncLosesNothing
<1>1. IInv => SyncLosesNothing
  BY DEF IInv, Kept
<1> QED BY <1>1, Inductive, PTL
=============================================================================
