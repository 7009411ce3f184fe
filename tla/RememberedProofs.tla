-------------------------- MODULE RememberedProofs --------------------------
(***************************************************************************)
(* What an agent reads and remembers, each for every value of its          *)
(* constants: files behind read stamps (FileTools), skill files (Skills),  *)
(* memories and their vectors (Registries), paths (FilePaths),             *)
(* observations (Logbook), and the window they fill (Compaction).          *)
(*                                                                         *)
(* FileTools.  A conversation recognises a content by its stamp.  Whatever *)
(* content the file has, a conversation whose stamp is the file's knows the*)
(* content, unless no stamp could tell it; and between the check and the   *)
(* replacement the content stays one it knows.                             *)
(*                                                                         *)
(* Skills.  The edits of a file are told by its hash alone: an edited file *)
(* differs from the manifest's entry unless the entry was dropped and made *)
(* again, and one nobody edited equals it unless a process died half way.  *)
(*                                                                         *)
(* Registries.  A vector that nobody raced is that of its row's text       *)
(* (TrueVectors), and a search has read every row it will not read again   *)
(* (Reading).                                                              *)
(*                                                                         *)
(* FilePaths.  Folders of what is in the tree are in it (TreeOK), so what  *)
(* is found below a directory that may be asked for can be opened step by  *)
(* step, and a walk that stops nowhere goes down every way to a file.      *)
(*                                                                         *)
(* Logbook.  The list of what fits only grows along the records, and what  *)
(* fits among the first of them is that list part of the way               *)
(* (FittingGrows, FittingFirst): the table's answer begins the list's.     *)
(*                                                                         *)
(* Compaction.  A window with calls still open is well formed: the open    *)
(* calls are of its last call message, and only results of the others have *)
(* followed (WellFormed).  Pruning and cutting leave a part of it (Part),  *)
(* and a part that begins at a block parts no call from its results.       *)
(***************************************************************************)
EXTENDS FileTools, Skills, Registries, FilePaths, Logbook, Compaction, LoopLemmas, FiniteSetTheorems, TLAPS

-----------------------------------------------------------------------------
(* Read stamps.                                                            *)

Stages == {"idle", "opened", "checked", "replaced"}

\* Where each operation can be; the lock of a process has one holder.
Steps == \A t \in Talks :
    /\ stage[t] = "opened" => doing[t] \in {"read", "edit", "delete"}
    /\ stage[t] = "checked" => doing[t] \in {"write", "edit", "delete"}
    /\ stage[t] = "replaced" => doing[t] \in {"write", "edit"}
    /\ doing[t] = "none" <=> stage[t] = "idle"
    /\ doing[t] = "read" => stage[t] = "opened"

OneWriter == \A t, u \in Talks :
    t # u /\ process[t] = process[u] => doing[t] \in {"none", "read"} \/ doing[u] \in {"none", "read"}

\* A stamp somebody holds is one the file has had.
StampsUsed == \A t \in Talks :
    /\ stamps[t] \in used \cup {Unread}
    /\ stage[t] = "opened" => Stamp(opened[t]) \in used
    /\ doing[t] \in {"edit", "delete"} /\ stage[t] = "opened" => stamps[t] = Stamp(opened[t])

Tellable == file.id # 0 /\ file.id \notin unstamped

StampsTell == Tellable => \A t \in Talks :
    /\ stamps[t] = Stamp(file) => file.id \in known[t]
    /\ stage[t] = "opened" /\ Stamp(opened[t]) = Stamp(file) => file.id = opened[t].id

\* What is about to be replaced, or just was.
InHand == \A t \in Talks :
    /\ 0 \in known[t]
    /\ stage[t] \in {"checked", "replaced"} => file.id \in known[t] \cup unstamped

FileUsed == file.id # 0 => Stamp(file) \in used

Kept == /\ Steps /\ OneWriter /\ StampsUsed /\ FileUsed /\ StampsTell /\ InHand
        /\ NothingUnreadReplaced

IInv == FileToolsTypeOK /\ Kept

-----------------------------------------------------------------------------
LEMMA NewFileIsFile ==
  ASSUME FileToolsTypeOK, NEW size \in Sizes, NEW same \in BOOLEAN, NEW seen \in BOOLEAN,
         NewFile(size, same, seen)
  PROVE  /\ file' \in Files /\ written' \in ContentIds /\ used' \subseteq Stamps
         /\ unstamped' \subseteq ContentIds
         /\ file'.id = written + 1 /\ file'.id # 0 /\ Stamp(file') = <<tick, size>>
         /\ used' = used \cup {Stamp(file')}
         /\ unstamped \subseteq unstamped'
         /\ seen \/ Stamp(file') \in used => file'.id \in unstamped'
<1> USE FileToolsAssumption DEF FileToolsAssumption, FileToolsTypeOK, ContentIds, NewFile
<1>1. written + 1 \in 0..MaxContents /\ written + 1 # 0
  OBVIOUS
<1>2. file' \in Files /\ file'.id = written + 1 /\ Stamp(file') = <<tick, size>>
  BY <1>1 DEF Files, Stamp
<1>3. used' \subseteq Stamps
  BY DEF Stamps
<1>4. unstamped' \subseteq ContentIds /\ unstamped \subseteq unstamped'
  BY <1>1
<1> QED BY <1>1, <1>2, <1>3, <1>4

LEMMA TypeKept == ASSUME FileToolsTypeOK, [FileToolsNext]_fileToolsVars PROVE FileToolsTypeOK'
<1> USE DEF FileToolsTypeOK, Ops, At, Done
<1>0. Gone \in Files /\ \A f \in Files : Stamp(f) \in Stamps
  BY FileToolsAssumption DEF FileToolsAssumption, Gone, Files, Stamp, Stamps, ContentIds
<1>1. ASSUME NEW t \in Talks, OpenToRead(t) PROVE FileToolsTypeOK'
  BY <1>1 DEF OpenToRead
<1>2. ASSUME NEW t \in Talks, ReadFile(t) PROVE FileToolsTypeOK'
  <2>1. file.id \in ContentIds /\ opened[t].id \in ContentIds
    BY DEF Files
  <2> QED BY <1>0, <1>2, <2>1 DEF ReadFile
<1>3. ASSUME NEW t \in Talks, Overwrite(t) PROVE FileToolsTypeOK'
  BY <1>3 DEF Overwrite
<1>4. ASSUME NEW t \in Talks, StatAgain(t) PROVE FileToolsTypeOK'
  BY <1>0, <1>4 DEF StatAgain
<1>5. ASSUME NEW t \in Talks, StatBack(t) PROVE FileToolsTypeOK'
  BY <1>0, <1>5 DEF StatBack
<1>6. ASSUME NEW t \in Talks, DeleteFile(t) PROVE FileToolsTypeOK'
  <2>1. lost' \subseteq ContentIds
    BY <1>6 DEF DeleteFile, Replaces, Files
  <2> QED BY <1>0, <1>6, <2>1 DEF DeleteFile
<1>7. ASSUME NEW t \in Talks, NEW op \in {"edit", "delete"}, OpenToChange(t, op) PROVE FileToolsTypeOK'
  BY <1>7 DEF OpenToChange
<1>8. ASSUME NEW t \in Talks, NEW size \in Sizes, Create(t, size) PROVE FileToolsTypeOK'
  <2>1. NewFile(size, FALSE, Watched(t)) /\ Watched(t) \in BOOLEAN
    BY <1>8 DEF Create, LinkNew, Watched
  <2>2. written + 1 \in ContentIds
    BY <2>1, FileToolsAssumption DEF FileToolsAssumption, NewFile, ContentIds
  <2>3. /\ file' \in Files /\ written' \in ContentIds /\ used' \subseteq Stamps
        /\ unstamped' \subseteq ContentIds
    BY <2>1, NewFileIsFile
  <2>4. known' \in [Talks -> SUBSET ContentIds]
    BY <1>8, <2>2 DEF Create, LinkNew
  <2>5. /\ doing' \in [Talks -> Ops] /\ opened' \in [Talks -> Files]
        /\ stage' \in [Talks -> {"idle", "opened", "checked", "replaced"}]
    BY <1>0, <1>8 DEF Create, LinkNew
  <2>6. UNCHANGED <<process, tick, stamps, lost>>
    BY <1>8 DEF Create, LinkNew
  <2> QED BY <2>3, <2>4, <2>5, <2>6
<1>9. ASSUME NEW t \in Talks, NEW size \in Sizes, Replace(t, size) PROVE FileToolsTypeOK'
  <2>1. NewFile(size, FALSE, Watched(t)) /\ Watched(t) \in BOOLEAN
    BY <1>9 DEF Replace, Watched
  <2>2. written + 1 \in ContentIds
    BY <2>1, FileToolsAssumption DEF FileToolsAssumption, NewFile, ContentIds
  <2>3. /\ file' \in Files /\ written' \in ContentIds /\ used' \subseteq Stamps
        /\ unstamped' \subseteq ContentIds
    BY <2>1, NewFileIsFile
  <2>4. known' \in [Talks -> SUBSET ContentIds]
    BY <1>9, <2>2 DEF Replace
  <2>5. /\ doing' \in [Talks -> Ops] /\ opened' \in [Talks -> Files]
        /\ stage' \in [Talks -> {"idle", "opened", "checked", "replaced"}]
    BY <1>0, <1>9 DEF Replace
  <2>6. lost' \subseteq ContentIds
    BY <1>9 DEF Replace, Replaces, Files
  <2>7. UNCHANGED <<process, tick, stamps>>
    BY <1>9 DEF Replace
  <2> QED BY <2>3, <2>4, <2>5, <2>6, <2>7
<1>10. ASSUME NEW size \in Sizes, NEW sameInode \in BOOLEAN, WrittenOutside(size, sameInode)
       PROVE  FileToolsTypeOK'
  <2> DEFINE seen == \E t \in Talks : stage[t] \in {"checked", "replaced"}
  <2>1. NewFile(size, sameInode, seen) /\ seen \in BOOLEAN
    BY <1>10 DEF WrittenOutside
  <2>2. UNCHANGED <<process, tick, stamps, known, doing, stage, opened, lost>>
    BY <1>10 DEF WrittenOutside
  <2> HIDE DEF seen
  <2>3. /\ file' \in Files /\ written' \in ContentIds /\ used' \subseteq Stamps
        /\ unstamped' \subseteq ContentIds
    BY <2>1, NewFileIsFile
  <2> QED BY <2>2, <2>3
<1>11. CASE DeletedOutside
  BY <1>0, <1>11 DEF DeletedOutside
<1>12. CASE ClockTicks
  BY <1>12, FileToolsAssumption DEF FileToolsAssumption, ClockTicks
<1>13. CASE UNCHANGED fileToolsVars
  BY <1>13 DEF fileToolsVars
<1> QED BY <1>1, <1>2, <1>3, <1>4, <1>5, <1>6, <1>7, <1>8, <1>9, <1>10, <1>11, <1>12, <1>13
        DEF FileToolsNext

LEMMA Initially == FileToolsInit => IInv
<1> SUFFICES ASSUME FileToolsInit PROVE IInv
  OBVIOUS
<1>1. FileToolsTypeOK
  BY FileToolsAssumption
     DEF FileToolsAssumption, FileToolsInit, FileToolsTypeOK, ContentIds, Files, Gone, Ops, Stamps
<1>2. /\ Steps /\ OneWriter /\ StampsUsed /\ FileUsed /\ StampsTell /\ InHand /\ NothingUnreadReplaced
  BY DEF FileToolsInit, Steps, OneWriter, StampsUsed, FileUsed, StampsTell, Tellable, InHand,
         NothingUnreadReplaced, Gone
<1> QED BY <1>1, <1>2 DEF IInv, Kept

-----------------------------------------------------------------------------

\* The operations of a tool, one lemma each.
LEMMA OpensToRead ==
  ASSUME IInv, FileToolsTypeOK', NEW t \in Talks, OpenToRead(t) PROVE Kept'
<1> USE DEF IInv, Kept, FileToolsTypeOK, OpenToRead, At
<1>1. Steps' /\ OneWriter'
  BY DEF Steps, OneWriter, PathLock
<1>2. StampsUsed' /\ FileUsed'
  BY DEF Steps, StampsUsed, FileUsed, CheckStamp, Gone
<1>3. StampsTell'
  BY DEF Steps, StampsTell, InHand, Tellable, CheckStamp, Gone
<1>4. InHand' /\ NothingUnreadReplaced'
  BY DEF Steps, InHand, StampsTell, StampsUsed, Tellable, CheckStamp, Replaces, NothingUnreadReplaced, Gone
<1> QED BY <1>1, <1>2, <1>3, <1>4

\* What is read is known, with the stamp of the open.
LEMMA Reads ==
  ASSUME IInv, FileToolsTypeOK', NEW t \in Talks, ReadFile(t) PROVE Kept'
<1> USE DEF IInv, Kept, FileToolsTypeOK, ReadFile, Done
<1>1. Steps' /\ OneWriter'
  BY DEF Steps, OneWriter, PathLock
<1>2. StampsUsed' /\ FileUsed'
  BY DEF Steps, StampsUsed, FileUsed, CheckStamp, Gone
<1>3. StampsTell'
  BY DEF Steps, StampsTell, InHand, Tellable, CheckStamp, Gone
<1>4. InHand' /\ NothingUnreadReplaced'
  BY DEF Steps, InHand, StampsTell, StampsUsed, Tellable, CheckStamp, Replaces, NothingUnreadReplaced, Gone
<1> QED BY <1>1, <1>2, <1>3, <1>4

LEMMA Overwrites ==
  ASSUME IInv, FileToolsTypeOK', NEW t \in Talks, Overwrite(t) PROVE Kept'
<1> USE DEF IInv, Kept, FileToolsTypeOK, Overwrite, At
<1>1. Steps' /\ OneWriter'
  BY DEF Steps, OneWriter, PathLock
<1>2. StampsUsed' /\ FileUsed'
  BY DEF Steps, StampsUsed, FileUsed, CheckStamp, Gone
<1>3. StampsTell'
  BY DEF Steps, StampsTell, InHand, Tellable, CheckStamp, Gone
<1>4. InHand' /\ NothingUnreadReplaced'
  BY DEF Steps, InHand, StampsTell, StampsUsed, Tellable, CheckStamp, Replaces, NothingUnreadReplaced, Gone
<1> QED BY <1>1, <1>2, <1>3, <1>4

LEMMA OpensToChange ==
  ASSUME IInv, FileToolsTypeOK', NEW t \in Talks, NEW op \in {"edit", "delete"}, OpenToChange(t, op) PROVE Kept'
<1> USE DEF IInv, Kept, FileToolsTypeOK, OpenToChange, At
<1>1. Steps' /\ OneWriter'
  BY DEF Steps, OneWriter, PathLock
<1>2. StampsUsed' /\ FileUsed'
  BY DEF Steps, StampsUsed, FileUsed, CheckStamp, Gone
<1>3. StampsTell'
  BY DEF Steps, StampsTell, InHand, Tellable, CheckStamp, Gone
<1>4. InHand' /\ NothingUnreadReplaced'
  BY DEF Steps, InHand, StampsTell, StampsUsed, Tellable, CheckStamp, Replaces, NothingUnreadReplaced, Gone
<1> QED BY <1>1, <1>2, <1>3, <1>4

\* A second look that agrees with the open agrees with the stamp.
LEMMA StatsAgain ==
  ASSUME IInv, FileToolsTypeOK', NEW t \in Talks, StatAgain(t) PROVE Kept'
<1> USE DEF IInv, Kept, FileToolsTypeOK, StatAgain, At, Done
<1>1. Steps' /\ OneWriter'
  BY DEF Steps, OneWriter, PathLock
<1>2. StampsUsed' /\ FileUsed'
  BY DEF Steps, StampsUsed, FileUsed, CheckStamp, Gone
<1>3. StampsTell'
  BY DEF Steps, StampsTell, InHand, Tellable, CheckStamp, Gone
<1>4. InHand' /\ NothingUnreadReplaced'
  BY DEF Steps, InHand, StampsTell, StampsUsed, Tellable, CheckStamp, Replaces, NothingUnreadReplaced, Gone
<1> QED BY <1>1, <1>2, <1>3, <1>4

\* The new stamp is that of a content in hand.
LEMMA StatsBack ==
  ASSUME IInv, FileToolsTypeOK', NEW t \in Talks, StatBack(t) PROVE Kept'
<1> USE DEF IInv, Kept, FileToolsTypeOK, StatBack, Done
<1>1. Steps' /\ OneWriter'
  BY DEF Steps, OneWriter, PathLock
<1>2. StampsUsed' /\ FileUsed'
  BY DEF Steps, StampsUsed, FileUsed, CheckStamp, Gone
<1>3. StampsTell'
  BY DEF Steps, StampsTell, InHand, Tellable, CheckStamp, Gone
<1>4. InHand' /\ NothingUnreadReplaced'
  BY DEF Steps, InHand, StampsTell, StampsUsed, Tellable, CheckStamp, Replaces, NothingUnreadReplaced, Gone
<1> QED BY <1>1, <1>2, <1>3, <1>4

LEMMA DeletesIt ==
  ASSUME IInv, FileToolsTypeOK', NEW t \in Talks, DeleteFile(t) PROVE Kept'
<1> USE DEF IInv, Kept, FileToolsTypeOK, DeleteFile, Done
<1>1. Steps' /\ OneWriter'
  BY DEF Steps, OneWriter, PathLock
<1>2. StampsUsed' /\ FileUsed'
  BY DEF Steps, StampsUsed, FileUsed, CheckStamp, Gone
<1>3. StampsTell'
  BY DEF Steps, StampsTell, InHand, Tellable, CheckStamp, Gone
<1>4. InHand' /\ NothingUnreadReplaced'
  BY DEF Steps, InHand, StampsTell, StampsUsed, Tellable, CheckStamp, Replaces, NothingUnreadReplaced, Gone
<1> QED BY <1>1, <1>2, <1>3, <1>4

\* What no tool does and what writes nothing.
LEMMA RestOfNext ==
  ASSUME IInv, FileToolsTypeOK', DeletedOutside \/ ClockTicks \/ UNCHANGED fileToolsVars PROVE Kept'
<1> USE DEF IInv, Kept, FileToolsTypeOK, DeletedOutside, ClockTicks, fileToolsVars
<1>1. Steps' /\ OneWriter' /\ StampsUsed' /\ NothingUnreadReplaced'
  BY DEF Steps, OneWriter, StampsUsed, NothingUnreadReplaced
<1>2. FileUsed' /\ StampsTell' /\ InHand'
  BY DEF FileUsed, StampsTell, InHand, Tellable, Gone
<1> QED BY <1>1, <1>2

\* A stamp somebody holds tells the new content from what he read: it was
\* there before, or the content counts as one that no stamp can tell.
LEMMA NewContentIsTold ==
  ASSUME IInv, FileToolsTypeOK', NEW size \in Sizes, NEW same \in BOOLEAN, NEW seen \in BOOLEAN,
         NewFile(size, same, seen), UNCHANGED stamps,
         \A t \in Talks : known[t] \subseteq known'[t],
         \A t \in Talks : stage'[t] = "opened" => stage[t] = "opened" /\ opened'[t] = opened[t],
         \A t \in Talks : stage'[t] = "opened" => doing'[t] = doing[t]
  PROVE  StampsUsed' /\ FileUsed' /\ StampsTell'
<1>1. /\ file'.id # 0 /\ used' = used \cup {Stamp(file')}
      /\ Stamp(file') \in used => file'.id \in unstamped'
  BY NewFileIsFile DEF IInv
<1>2. StampsUsed' /\ FileUsed'
  BY <1>1 DEF IInv, Kept, StampsUsed, FileUsed
<1>3. \A f \in Files : Stamp(f) # Unread
  BY DEF Stamp, Unread
<1>4. StampsTell'
  BY <1>1, <1>3 DEF IInv, Kept, StampsUsed, StampsTell, Tellable, FileToolsTypeOK
<1> QED BY <1>2, <1>4

LEMMA Creates ==
  ASSUME IInv, FileToolsTypeOK', NEW t \in Talks, NEW size \in Sizes, Create(t, size) PROVE Kept'
<1>1. NewFile(size, FALSE, Watched(t)) /\ Watched(t) \in BOOLEAN
  BY DEF Watched, Create, LinkNew
<1>2. /\ file'.id = written + 1
      /\ unstamped \subseteq unstamped' /\ (Watched(t) => file'.id \in unstamped')
  BY <1>1, NewFileIsFile DEF IInv
<1>4. StampsUsed' /\ FileUsed' /\ StampsTell'
  <2>1. /\ UNCHANGED stamps
        /\ \A u \in Talks : known[u] \subseteq known'[u]
        /\ \A u \in Talks : stage'[u] = "opened" =>
              stage[u] = "opened" /\ opened'[u] = opened[u] /\ doing'[u] = doing[u]
    BY DEF Create, LinkNew, At, IInv, FileToolsTypeOK
  <2> QED BY <1>1, <2>1, NewContentIsTold
<1> USE DEF IInv, Kept, FileToolsTypeOK, Create, LinkNew, At
<1>3. Steps' /\ OneWriter'
  BY DEF Steps, OneWriter, PathLock
<1>5. InHand'
  BY <1>2 DEF InHand, Steps, PathLock, Watched
<1>6. NothingUnreadReplaced'
  BY <1>2 DEF NothingUnreadReplaced
<1> QED BY <1>3, <1>4, <1>5, <1>6

LEMMA ReplacesKnown ==
  ASSUME IInv, FileToolsTypeOK', NEW t \in Talks, NEW size \in Sizes, Replace(t, size) PROVE Kept'
<1>1. NewFile(size, FALSE, Watched(t)) /\ Watched(t) \in BOOLEAN
  BY DEF Watched, Replace
<1>2. /\ file'.id = written + 1
      /\ unstamped \subseteq unstamped' /\ (Watched(t) => file'.id \in unstamped')
  BY <1>1, NewFileIsFile DEF IInv
<1>4. StampsUsed' /\ FileUsed' /\ StampsTell'
  <2>1. /\ UNCHANGED stamps
        /\ \A u \in Talks : known[u] \subseteq known'[u]
        /\ \A u \in Talks : stage'[u] = "opened" =>
              stage[u] = "opened" /\ opened'[u] = opened[u] /\ doing'[u] = doing[u]
    BY DEF Replace, At, IInv, FileToolsTypeOK
  <2> QED BY <1>1, <2>1, NewContentIsTold
<1> USE DEF IInv, Kept, FileToolsTypeOK, Replace, At
<1>3. Steps' /\ OneWriter'
  BY DEF Steps, OneWriter
<1>5. InHand'
  BY <1>2 DEF InHand, Steps, OneWriter, Watched
<1>6. NothingUnreadReplaced'
  BY <1>2 DEF NothingUnreadReplaced, Replaces, InHand
<1> QED BY <1>3, <1>4, <1>5, <1>6

LEMMA OutsideWrites ==
  ASSUME IInv, FileToolsTypeOK', NEW size \in Sizes, NEW sameInode \in BOOLEAN,
         WrittenOutside(size, sameInode)
  PROVE  Kept'
<1> DEFINE Seen == \E t \in Talks : stage[t] \in {"checked", "replaced"}
<1>1. NewFile(size, sameInode, Seen) /\ Seen \in BOOLEAN
  BY DEF WrittenOutside
<1>2. unstamped \subseteq unstamped' /\ (Seen => file'.id \in unstamped')
  BY <1>1, NewFileIsFile DEF IInv
<1>4. StampsUsed' /\ FileUsed' /\ StampsTell'
  <2>1. UNCHANGED <<stamps, known, stage, opened, doing>>
    BY DEF WrittenOutside
  <2> HIDE DEF Seen
  <2> QED BY <1>1, <2>1, NewContentIsTold
<1> USE DEF IInv, Kept, FileToolsTypeOK, WrittenOutside
<1>3. Steps' /\ OneWriter'
  BY DEF Steps, OneWriter
<1>5. InHand' /\ NothingUnreadReplaced'
  BY <1>2 DEF InHand, NothingUnreadReplaced
<1> QED BY <1>3, <1>4, <1>5

-----------------------------------------------------------------------------
LEMMA Inductive == FileToolsSpec => []IInv
<1>1. IInv /\ [FileToolsNext]_fileToolsVars => IInv'
  <2> SUFFICES ASSUME IInv, [FileToolsNext]_fileToolsVars PROVE IInv'
    OBVIOUS
  <2>1. FileToolsTypeOK'
    BY TypeKept DEF IInv
  <2>2. ASSUME NEW t \in Talks,
               \/ OpenToRead(t) \/ ReadFile(t) \/ Overwrite(t)
               \/ StatAgain(t) \/ StatBack(t) \/ DeleteFile(t)
        PROVE  Kept'
    BY <2>1, <2>2, OpensToRead, Reads, Overwrites, StatsAgain, StatsBack, DeletesIt
  <2>3. ASSUME NEW t \in Talks, NEW op \in {"edit", "delete"}, OpenToChange(t, op) PROVE Kept'
    BY <2>1, <2>3, OpensToChange
  <2>4. ASSUME NEW t \in Talks, NEW size \in Sizes, Create(t, size) \/ Replace(t, size) PROVE Kept'
    BY <2>1, <2>4, Creates, ReplacesKnown
  <2>5. ASSUME NEW size \in Sizes, NEW sameInode \in BOOLEAN, WrittenOutside(size, sameInode)
        PROVE  Kept'
    BY <2>1, <2>5, OutsideWrites
  <2>6. CASE DeletedOutside \/ ClockTicks \/ UNCHANGED fileToolsVars
    BY <2>1, <2>6, RestOfNext DEF IInv
  <2> QED BY <2>1, <2>2, <2>3, <2>4, <2>5, <2>6 DEF FileToolsNext, IInv
<1> QED BY <1>1, Initially, PTL DEF FileToolsSpec

\* Every variable of the file tools keeps its type (FileSystemTools,
\* UserFileSystem).
THEOREM FileToolsTypeCorrect == FileToolsSpec => []FileToolsTypeOK
<1>1. IInv => FileToolsTypeOK
  BY DEF IInv
<1> QED BY <1>1, Inductive, PTL

\* For any number of conversations in one process or two, and writers that no
\* lock holds back: what a tool replaces or deletes its conversation has read
\* or written, except what was written in the last instant or bears the stamp
\* of another content (UserFileSystem.edit, write, delete).
THEOREM NothingUnreadIsLost == FileToolsSpec => []NothingUnreadReplaced
<1>1. IInv => NothingUnreadReplaced
  BY DEF IInv, Kept
<1> QED BY <1>1, Inductive, PTL

-----------------------------------------------------------------------------
(* Skill files.                                                            *)

Flags == {cached, installed, edited, forgotten, interrupted, overwritten, leftBehind} \subseteq BOOLEAN

Sorts == /\ source \in {0} \cup Versions /\ cachedFile \in {0} \cup Versions
         /\ prepared \subseteq SkillRegistries /\ fetching \subseteq SkillRegistries
         /\ {localFile, manifest} \subseteq {0} \cup Versions \cup Edits

\* A folder that is not there has no manifest and no edits.
NothingBefore == ~installed => manifest = 0 /\ ~edited

EditsDiffer == edited /\ ~forgotten /\ manifest # 0 => localFile # manifest

RestAgrees == manifest # 0 /\ ~edited /\ ~interrupted => localFile = manifest

SkillIInv == NothingBefore /\ EditsDiffer /\ RestAgrees /\ SkillFilesRight

-----------------------------------------------------------------------------
LEMMA FlagsHold == SkillsSpec => []Flags
<1>1. SkillsInit => Flags
  BY DEF SkillsInit, Flags
<1>2. Flags /\ [SkillsNext]_skillsVars => Flags'
  <2> SUFFICES ASSUME Flags, [SkillsNext]_skillsVars PROVE Flags'
    OBVIOUS
  <2> USE DEF Flags
  <2>1. ASSUME NEW v \in {0} \cup Versions, ReleaseSource(v) PROVE Flags'
    BY <2>1, Zenon DEF ReleaseSource, cacheVars, folderVars
  <2>2. ASSUME NEW x \in {0} \cup Edits, EditFile(x) PROVE Flags'
    BY <2>2, Zenon DEF EditFile, cacheVars
  <2>3. ASSUME NEW r \in SkillRegistries,
               ConnectSkills(r) \/ Prepare(r) \/ DownloadSkill(r) \/ DownloadFails(r) \/ SkillInvalid(r)
        PROVE  Flags'
    BY <2>3, Zenon DEF ConnectSkills, Prepare, DownloadSkill, DownloadFails, SkillInvalid, folderVars
  <2>4. ASSUME NEW r \in SkillRegistries, NEW done \in BOOLEAN, Install(r, done) PROVE Flags'
    BY <2>4, Zenon DEF Install, Judged, cacheVars
  <2>5. ASSUME NEW r \in SkillRegistries, NEW done \in BOOLEAN, SyncSkill(r, done) PROVE Flags'
    BY <2>5, Zenon DEF SyncSkill, Judged, cacheVars
  <2>6. CASE UNCHANGED skillsVars
    BY <2>6, Zenon DEF skillsVars
  <2> QED BY <2>1, <2>2, <2>3, <2>4, <2>5, <2>6 DEF SkillsNext
<1> QED BY <1>1, <1>2, PTL DEF SkillsSpec

LEMMA SkillInitially == SkillsInit => SkillIInv
BY DEF SkillsInit, SkillIInv, NothingBefore, EditsDiffer, RestAgrees, SkillFilesRight

\* An edit differs from the entry, or it is the entry's own content.
LEMMA EditsKeep == ASSUME SkillIInv, NEW x \in {0} \cup Edits, EditFile(x) PROVE SkillIInv'
BY DEF EditFile, SkillIInv, NothingBefore, EditsDiffer, RestAgrees, SkillFilesRight

\* The first copy brings file and entry together, or dies before the entry.
LEMMA InstallKeeps ==
  ASSUME SkillIInv, NEW r \in SkillRegistries, NEW done \in BOOLEAN, Install(r, done) PROVE SkillIInv'
BY DEF Install, Judged, SkillIInv, NothingBefore, EditsDiffer, RestAgrees, SkillFilesRight

LEMMA SyncKeeps ==
  ASSUME SkillIInv, NEW r \in SkillRegistries, NEW done \in BOOLEAN, SyncSkill(r, done) PROVE SkillIInv'
BY DEF SyncSkill, FileSynced, ManifestSynced, Untouched, SourceFile, Judged,
   SkillIInv, NothingBefore, EditsDiffer, RestAgrees, SkillFilesRight

\* What the source, the cache and its registries do leaves the folder alone.
LEMMA CacheKeeps ==
  ASSUME SkillIInv, UNCHANGED folderVars PROVE SkillIInv'
BY DEF folderVars, SkillIInv, NothingBefore, EditsDiffer, RestAgrees, SkillFilesRight

LEMMA SortsKeep == Sorts /\ [SkillsNext]_skillsVars => Sorts'
<1> SUFFICES ASSUME Sorts, [SkillsNext]_skillsVars PROVE Sorts'
  OBVIOUS
<1> USE DEF Sorts
<1>1. ASSUME NEW v \in {0} \cup Versions, ReleaseSource(v) PROVE Sorts'
  BY <1>1 DEF ReleaseSource, cacheVars, folderVars
<1>2. ASSUME NEW x \in {0} \cup Edits, EditFile(x) PROVE Sorts'
  BY <1>2 DEF EditFile, cacheVars
<1>3. ASSUME NEW r \in SkillRegistries,
             ConnectSkills(r) \/ Prepare(r) \/ DownloadSkill(r) \/ DownloadFails(r) \/ SkillInvalid(r)
      PROVE  Sorts'
  BY <1>3 DEF ConnectSkills, Prepare, DownloadSkill, DownloadFails, SkillInvalid, folderVars
<1>4. ASSUME NEW r \in SkillRegistries, NEW done \in BOOLEAN, Install(r, done) PROVE Sorts'
  BY <1>4 DEF Install, Judged, cacheVars
<1>5. ASSUME NEW r \in SkillRegistries, NEW done \in BOOLEAN, SyncSkill(r, done) PROVE Sorts'
  BY <1>5 DEF SyncSkill, FileSynced, ManifestSynced, SourceFile, Judged, cacheVars
<1>6. CASE UNCHANGED skillsVars
  BY <1>6 DEF skillsVars
<1> QED BY <1>1, <1>2, <1>3, <1>4, <1>5, <1>6 DEF SkillsNext

-----------------------------------------------------------------------------
\* Every variable of the skill files keeps its type, the hash of the manifest
\* and the file's content included (CoreSkillBase.materialize).
THEOREM SkillsTypeCorrect == SkillsSpec => []SkillsTypeOK
<1>1. SkillsInit => Sorts
  BY DEF SkillsInit, Sorts
<1>2. SkillsSpec => []Sorts
  BY <1>1, SortsKeep, PTL DEF SkillsSpec
<1>3. Flags /\ Sorts => SkillsTypeOK
  BY DEF Flags, Sorts, SkillsTypeOK
<1> QED BY <1>2, <1>3, FlagsHold, PTL

\* However many registries share the cache, and wherever the process dies: no
\* edit the manifest still knows of is overwritten or deleted, and every other
\* file follows the source (CoreSkillBase.materialize, _sync).
THEOREM EditsAreKept == SkillsSpec => []SkillFilesRight
<1>1. SkillIInv /\ [SkillsNext]_skillsVars => SkillIInv'
  <2> SUFFICES ASSUME SkillIInv, [SkillsNext]_skillsVars PROVE SkillIInv'
    OBVIOUS
  <2>1. ASSUME NEW v \in {0} \cup Versions, ReleaseSource(v) PROVE SkillIInv'
    BY <2>1, CacheKeeps DEF ReleaseSource
  <2>2. ASSUME NEW x \in {0} \cup Edits, EditFile(x) PROVE SkillIInv'
    BY <2>2, EditsKeep
  <2>3. ASSUME NEW r \in SkillRegistries,
               ConnectSkills(r) \/ Prepare(r) \/ DownloadSkill(r) \/ DownloadFails(r) \/ SkillInvalid(r)
        PROVE  SkillIInv'
    BY <2>3, CacheKeeps DEF ConnectSkills, Prepare, DownloadSkill, DownloadFails, SkillInvalid
  <2>4. ASSUME NEW r \in SkillRegistries, NEW done \in BOOLEAN, Install(r, done) PROVE SkillIInv'
    BY <2>4, InstallKeeps
  <2>5. ASSUME NEW r \in SkillRegistries, NEW done \in BOOLEAN, SyncSkill(r, done) PROVE SkillIInv'
    BY <2>5, SyncKeeps
  <2>6. CASE UNCHANGED skillsVars
    BY <2>6, CacheKeeps DEF skillsVars, folderVars
  <2> QED BY <2>1, <2>2, <2>3, <2>4, <2>5, <2>6 DEF SkillsNext
<1>2. SkillIInv => SkillFilesRight
  BY DEF SkillIInv
<1> QED BY <1>1, <1>2, SkillInitially, PTL DEF SkillsSpec

-----------------------------------------------------------------------------
(* Memories and their vectors.                                             *)

-----------------------------------------------------------------------------
(* The inductive invariant.                                                *)

Task == [step : {"idle", "write", "embed", "rank"}, text : {0} \cup Texts, updated : 0..MaxWrites,
         seen : [Rows -> Memory], rows : SUBSET Rows, left : SUBSET Rows, raced : SUBSET Rows]

RegistrySorts ==
    /\ registry \in RegistryKinds
    /\ embeds \subseteq Rows /\ memories \in [Rows -> Memory] /\ writes \in 0..MaxWrites
    /\ raced \subseteq Rows /\ missed \subseteq Rows /\ asking \in [Rows -> Task]

\* A vector of the current model stands for the text of its row, unless a
\* race is known to have left it behind.
TrueVectors(rows, strays) ==
    \A x \in Rows :
        /\ rows[x].model = "current" => rows[x].vector # 0 /\ rows[x].text # 0
        /\ rows[x].model = "current" => rows[x].vector = rows[x].text \/ x \in strays

Searching(r) == asking[r].step \in {"embed", "rank"}

\* The times of the writes tell one version of a row from the next.
Clocked ==
    /\ \A x \in Rows : memories[x].updated <= writes
    /\ \A r, x \in Rows : asking[r].seen[x].updated <= writes
    /\ \A x \in Rows : asking[x].step = "write" =>
          /\ asking[x].text # 0
          /\ memories[x].updated < asking[x].updated /\ asking[x].updated <= writes
          /\ \A r \in Rows : asking[r].seen[x].updated < asking[x].updated

\* What a search that ranks what it read first did not read was passed over.
Covers(r) ==
    registry.backend # "mongodb" =>
        /\ \A x \in asking[r].rows : asking[r].seen[x].text # 0
        /\ \A x \in Searched(r) :
              asking[r].seen[x].text # 0 => x \in asking[r].rows \/ PassedOver(r, x, asking[r].rows)

\* What a search read is true, and what it has not to embed (any more) has a
\* vector of the current model as long as the row is the one it read.
Reading(r) ==
    /\ TrueVectors(asking[r].seen, asking[r].raced) /\ Covers(r)
    /\ asking[r].text \in Texts
    /\ asking[r].step = "rank" => asking[r].left = {}
    /\ \A x \in asking[r].left : asking[r].seen[x].text # 0
    /\ registry.backend = "mongodb" => \A x \in Rows \ asking[r].left :
          memories[x].text # 0 /\ asking[r].seen[x].text # 0
             /\ memories[x].updated = asking[r].seen[x].updated => memories[x].model = "current"

RegistryIInv ==
    /\ RegistrySorts /\ Clocked /\ TrueVectors(memories, raced)
    /\ \A r \in Rows : Searching(r) => Reading(r)
    /\ missed = {}

-----------------------------------------------------------------------------
(* Types.                                                                  *)

LEMMA Rowwise ==
    ASSUME RegistrySorts
    PROVE  /\ memories \in [Rows -> Memory] /\ asking \in [Rows -> Task]
           /\ NoMemory \in Memory /\ NoVectors \in [Rows -> Memory] /\ Quiet \in Task
           /\ writes \in Nat /\ MaxWrites \in Nat /\ Texts \subseteq Nat \ {0} /\ OldText \in Texts
           /\ \A m \in Memory : m.updated \in 0..MaxWrites /\ m.updated \in Nat
           /\ \A r \in Rows : asking[r] \in Task /\ asking[r].seen \in [Rows -> Memory]
                                 /\ asking[r].updated \in Nat
<1>1. NoMemory \in Memory
  BY RegistriesAssumption DEF NoMemory, Memory, Models
<1>2. NoVectors \in [Rows -> Memory]
  BY <1>1 DEF NoVectors
<1>3. Quiet \in Task
  BY <1>2, RegistriesAssumption DEF Quiet, Task
<1>4. \A m \in Memory : m.updated \in 0..MaxWrites /\ m.updated \in Nat
  BY RegistriesAssumption DEF Memory
<1>5. OldText \in Texts
  BY RegistriesAssumption DEF OldText
<1>6. \A t \in Task : t.seen \in [Rows -> Memory] /\ t.updated \in Nat
  BY RegistriesAssumption DEF Task
<1> QED
  BY <1>1, <1>2, <1>3, <1>4, <1>5, <1>6, RegistriesAssumption DEF RegistrySorts

\* The one task that goes on, and what it becomes.
Turns(r, task) == asking' = [asking EXCEPT ![r] = task]

LEMMA TaskTurns ==
    ASSUME RegistrySorts, NEW r \in Rows, NEW task \in Task, Turns(r, task)
    PROVE  /\ asking' \in [Rows -> Task] /\ asking'[r] = task
           /\ \A q \in Rows : q # r => asking'[q] = asking[q]
BY Rowwise DEF Turns

WriteTask(x) == [Quiet EXCEPT !.step = "write", !.text = x, !.updated = writes + 1]

LEMMA WritingTask ==
    ASSUME RegistrySorts, NEW r \in Rows, NEW x \in Texts, BeginWrite(r, x)
    PROVE  /\ Turns(r, WriteTask(x)) /\ WriteTask(x) \in Task
           /\ WriteTask(x).step = "write" /\ WriteTask(x).text = x
           /\ WriteTask(x).updated = writes + 1 /\ WriteTask(x).seen = NoVectors
<1>1. writes + 1 \in 0..MaxWrites
  BY Rowwise DEF BeginWrite
<1>2. WriteTask(x) \in Task
  BY <1>1, Rowwise DEF WriteTask, Task
<1>3. /\ WriteTask(x).step = "write" /\ WriteTask(x).text = x
      /\ WriteTask(x).updated = writes + 1 /\ WriteTask(x).seen = NoVectors
  BY DEF WriteTask, Quiet
<1>4. Turns(r, WriteTask(x))
  BY DEF BeginWrite, Turns, WriteTask
<1> QED
  BY <1>2, <1>3, <1>4

\* A row with another vector, and with another text.
Vectored(m, x) == [m EXCEPT !.vector = x, !.model = "current"]
Retold(m, x, time) == [m EXCEPT !.text = x, !.updated = time]

LEMMA Vectoring ==
    ASSUME NEW m \in Memory, NEW x \in {0} \cup Texts
    PROVE  /\ Vectored(m, x) \in Memory
           /\ Vectored(m, x).text = m.text /\ Vectored(m, x).updated = m.updated
           /\ Vectored(m, x).vector = x /\ Vectored(m, x).model = "current"
BY DEF Vectored, Memory, Models

LEMMA Retelling ==
    ASSUME NEW m \in Memory, NEW x \in Texts, NEW time \in 0..MaxWrites
    PROVE  /\ Retold(m, x, time) \in Memory
           /\ Retold(m, x, time).text = x /\ Retold(m, x, time).updated = time
           /\ Retold(m, x, time).vector = m.vector /\ Retold(m, x, time).model = m.model
BY DEF Retold, Memory

\* What is written is the text, with the vector it had or its own.
LEMMA RowIs ==
    ASSUME RegistrySorts, NEW r \in Rows, asking[r].text \in Texts
    PROVE  /\ RowWritten(r) \in Memory /\ RowWritten(r).text = asking[r].text
           /\ RowWritten(r).updated = asking[r].updated
           /\ \/ RowWritten(r).model = "none" /\ RowWritten(r).vector = 0
              \/ r \in embeds /\ RowWritten(r).model = "current" /\ RowWritten(r).vector = asking[r].text
              \/ /\ r \notin embeds /\ registry.backend = "mongodb"
                 /\ RowWritten(r).model = memories[r].model /\ RowWritten(r).vector = memories[r].vector
<1>1. /\ memories[r] \in Memory /\ asking[r] \in Task /\ asking[r].updated \in 0..MaxWrites
      /\ registry.backend \in {"local", "sqlite", "mongodb"}
  BY Rowwise DEF RegistrySorts, RegistryKinds, Task
<1>2. FileRow(r) = [text |-> asking[r].text, vector |-> 0, model |-> "none", updated |-> asking[r].updated]
      /\ FileRow(r) \in Memory
  BY <1>1 DEF FileRow, Memory, Models
<1> DEFINE m == Vectored(FileRow(r), asking[r].text)
<1> DEFINE n == Retold(memories[r], asking[r].text, asking[r].updated)
<1>3. /\ m \in Memory /\ m.text = asking[r].text /\ m.updated = asking[r].updated
      /\ m.model = "current" /\ m.vector = asking[r].text
      /\ n \in Memory /\ n.text = asking[r].text /\ n.updated = asking[r].updated
      /\ n.model = memories[r].model /\ n.vector = memories[r].vector
  <2>1. m \in Memory /\ m.text = FileRow(r).text /\ m.updated = FileRow(r).updated
        /\ m.model = "current" /\ m.vector = asking[r].text
    BY <1>2, Vectoring
  <2>2. /\ n \in Memory /\ n.text = asking[r].text /\ n.updated = asking[r].updated
        /\ n.model = memories[r].model /\ n.vector = memories[r].vector
    BY <1>1, Retelling
  <2>3. FileRow(r).text = asking[r].text /\ FileRow(r).updated = asking[r].updated
    BY DEF FileRow
  <2> QED
    BY <2>1, <2>2, <2>3
<1>4. /\ r \in embeds => SQLiteRow(r) = m /\ MongoRow(r) = m
      /\ r \notin embeds => SQLiteRow(r) = FileRow(r) /\ MongoRow(r) = n
  BY DEF SQLiteRow, MongoRow, Vectored, Retold
<1> HIDE DEF m, n
<1>5. CASE registry.backend = "local"
  BY <1>2, <1>5 DEF RowWritten
<1>6. CASE registry.backend = "sqlite"
  BY <1>2, <1>3, <1>4, <1>6 DEF RowWritten
<1>7. CASE registry.backend = "mongodb"
  BY <1>2, <1>3, <1>4, <1>7 DEF RowWritten
<1> QED
  BY <1>1, <1>5, <1>6, <1>7

LEMMA Writing ==
    ASSUME RegistryIInv, NEW r \in Rows, Writes(r)
    PROVE  /\ asking[r].step = "write" /\ asking[r].text \in Texts
           /\ RowWritten(r) \in Memory /\ memories' \in [Rows -> Memory]
           /\ memories'[r] = RowWritten(r) /\ \A x \in Rows : x # r => memories'[x] = memories[x]
           /\ Turns(r, Quiet) /\ UNCHANGED <<registry, embeds, writes, missed>>
           /\ raced' \subseteq Rows
<1>1. asking[r].step = "write" /\ asking[r].text \in Texts
  BY Rowwise DEF RegistryIInv, Clocked, Writes, Task
<1>2. RowWritten(r) \in Memory
  BY <1>1, RowIs DEF RegistryIInv
<1> QED
  BY <1>1, <1>2, Rowwise DEF RegistryIInv, Writes, Turns, RegistrySorts

SearchTask(step, x, rows) ==
    [step |-> step, text |-> x, updated |-> 0, seen |-> memories, rows |-> rows,
     left |-> Unembedded(rows), raced |-> raced]

LEMMA Searcher ==
    ASSUME RegistrySorts, NEW r \in Rows, NEW x \in Texts, BeginSearch(r, x)
    PROVE  \E step \in {"embed", "rank"}, rows \in FirstRead(r) :
              /\ Turns(r, SearchTask(step, x, rows)) /\ SearchTask(step, x, rows) \in Task
              /\ (step = "rank" => Unembedded(rows) = {})
<1>1. PICK rows \in FirstRead(r) : asking' = [asking EXCEPT ![r] =
              [step |-> IF Unembedded(rows) = {} THEN "rank" ELSE "embed", text |-> x, updated |-> 0,
               seen |-> memories, rows |-> rows, left |-> Unembedded(rows), raced |-> raced]]
  BY DEF BeginSearch
<1>2. rows \subseteq Rows
  BY DEF FirstRead, CandidatesOf, Searched
<1>3. Unembedded(rows) \subseteq Rows
  BY <1>2 DEF Unembedded, RegistrySorts, RegistryKinds
<1>4. 0 \in 0..MaxWrites
  BY Rowwise
<1>5. \A step \in {"embed", "rank"} : SearchTask(step, x, rows) \in Task
  BY <1>2, <1>3, <1>4 DEF Task, SearchTask, RegistrySorts
<1> DEFINE step == IF Unembedded(rows) = {} THEN "rank" ELSE "embed"
<1>6. Turns(r, SearchTask(step, x, rows)) /\ step \in {"embed", "rank"} /\ (step = "rank" => Unembedded(rows) = {})
  BY <1>1 DEF Turns, SearchTask
<1> HIDE DEF step
<1> QED
  BY <1>5, <1>6

\* The vectors one search stores now.
LEMMA VectorsAre ==
    ASSUME RegistrySorts, NEW r \in Rows, NEW now \in SUBSET asking[r].left
    PROVE  /\ VectorsFor(r, now) \in [Rows -> Memory]
           /\ \A x \in Rows : /\ VectorsFor(r, now)[x].text = memories[x].text
                              /\ VectorsFor(r, now)[x].updated = memories[x].updated
           /\ \A x \in Rows : IF x \in now /\ Stored(x)
                              THEN /\ VectorsFor(r, now)[x].vector = asking[r].seen[x].text
                                   /\ VectorsFor(r, now)[x].model = "current"
                              ELSE VectorsFor(r, now)[x] = memories[x]
<1>1. \A x \in Rows : memories[x] \in Memory /\ asking[r].seen[x].text \in {0} \cup Texts
  BY Rowwise DEF Memory
<1>2. \A x \in Rows :
         LET m == Vectored(memories[x], asking[r].seen[x].text)
         IN  /\ m \in Memory /\ m.text = memories[x].text /\ m.updated = memories[x].updated
             /\ m.vector = asking[r].seen[x].text /\ m.model = "current"
  BY <1>1, Vectoring
<1>3. VectorsFor(r, now) = [x \in Rows |-> IF x \in now /\ Stored(x)
                                         THEN Vectored(memories[x], asking[r].seen[x].text)
                                         ELSE memories[x]]
  BY DEF VectorsFor, Vectored
<1> QED
  BY <1>1, <1>2, <1>3

LEMMA Saving ==
    ASSUME RegistrySorts, NEW r \in Rows, SaveVectors(r)
    PROVE  \E now \in SUBSET asking[r].left :
              /\ memories' = VectorsFor(r, now)
              /\ raced' = {x \in raced \cup now :
                             IF x \in now THEN Stored(x) /\ memories[x].text # asking[r].seen[x].text
                             ELSE x \in raced}
              /\ asking' \in [Rows -> Task] /\ \A q \in Rows : q # r => asking'[q] = asking[q]
              /\ asking'[r].left = asking[r].left \ now /\ asking'[r].seen = asking[r].seen
              /\ asking'[r].raced = asking[r].raced /\ asking'[r].text = asking[r].text
              /\ asking'[r].rows = asking[r].rows
              /\ asking'[r].step \in {"embed", "rank"}
              /\ asking'[r].step = "rank" => asking'[r].left = {}
<1>1. PICK now \in SUBSET asking[r].left :
         /\ memories' = VectorsFor(r, now)
         /\ raced' = {x \in raced \cup now :
                        IF x \in now THEN Stored(x) /\ memories[x].text # asking[r].seen[x].text
                        ELSE x \in raced}
         /\ asking' = [asking EXCEPT ![r].left = @ \ now,
                                     ![r].step = IF asking[r].left = now THEN "rank" ELSE "embed"]
  BY DEF SaveVectors
<1>2. asking \in [Rows -> Task] /\ asking[r] \in Task /\ asking[r].left \subseteq Rows
  BY Rowwise DEF Task
<1> DEFINE task == [asking[r] EXCEPT !.left = asking[r].left \ now,
                                     !.step = IF asking[r].left = now THEN "rank" ELSE "embed"]
<1>3. task \in Task /\ task.left = asking[r].left \ now /\ task.seen = asking[r].seen
      /\ task.raced = asking[r].raced /\ task.text = asking[r].text /\ task.rows = asking[r].rows
      /\ task.step \in {"embed", "rank"}
      /\ (task.step = "rank" => task.left = {})
  BY <1>2 DEF Task
<1>4. asking' = [asking EXCEPT ![r] = task]
  BY <1>1, <1>2 DEF Task
<1> HIDE DEF task
<1>5. asking' \in [Rows -> Task] /\ asking'[r] = task /\ \A q \in Rows : q # r => asking'[q] = asking[q]
  BY <1>2, <1>3, <1>4
<1> QED
  BY <1>1, <1>3, <1>5

-----------------------------------------------------------------------------
(* Each step keeps the invariant.                                          *)

LEMMA RegistryStarts == ASSUME RegistriesInit PROVE RegistryIInv
<1>0. /\ NoMemory \in Memory /\ NoVectors \in [Rows -> Memory] /\ Quiet \in Task /\ OldText \in Texts
      /\ 0 \in 0..MaxWrites
  <2>1. NoMemory \in Memory
    BY RegistriesAssumption DEF NoMemory, Memory, Models
  <2>2. NoVectors \in [Rows -> Memory]
    BY <2>1 DEF NoVectors
  <2> QED
    BY <2>1, <2>2, RegistriesAssumption DEF Quiet, Task, OldText
<1>1. PICK old \in SUBSET Rows, model \in {"none", "earlier"} :
          memories = [r \in Rows |->
                 IF r \notin old THEN NoMemory
                 ELSE [text |-> OldText, vector |-> IF model = "none" THEN 0 ELSE OldText,
                       model |-> model, updated |-> 0]]
  BY DEF RegistriesInit
<1>2. [text |-> OldText, vector |-> IF model = "none" THEN 0 ELSE OldText, model |-> model,
       updated |-> 0] \in Memory
  BY <1>0 DEF Memory, Models
<1>3. memories \in [Rows -> Memory] /\ \A x \in Rows : memories[x].model # "current" /\ memories[x].updated = 0
  BY <1>0, <1>1, <1>2 DEF NoMemory
<1>4. asking = [r \in Rows |-> Quiet] /\ writes = 0 /\ raced = {} /\ missed = {} /\ embeds \subseteq Rows
      /\ registry \in RegistryKinds
  BY DEF RegistriesInit
<1>5. RegistrySorts
  BY <1>0, <1>3, <1>4 DEF RegistrySorts
<1>6. \A r \in Rows : asking[r].step = "idle" /\ \A x \in Rows : asking[r].seen[x].updated = 0
  BY <1>4 DEF Quiet, NoVectors, NoMemory
<1> QED
  BY <1>3, <1>4, <1>5, <1>6 DEF RegistryIInv, Clocked, TrueVectors, Searching

LEMMA QuietTask ==
    Quiet.step = "idle" /\ \A x \in Rows : Quiet.seen[x].updated = 0 /\ Quiet.seen[x].model = "none"
BY DEF Quiet, NoVectors, NoMemory

\* The clock stands, no row gets younger than a write that is under way, and
\* no search has read more.
LEMMA ClockedStays ==
    ASSUME RegistryIInv, writes' = writes,
           \A x \in Rows : memories'[x].updated = memories[x].updated \/ memories'[x].updated = 0,
           \A r, x \in Rows : \/ asking'[r].seen[x].updated = asking[r].seen[x].updated
                             \/ asking'[r].seen[x].updated = memories[x].updated
                             \/ asking'[r].seen[x].updated = 0,
           \A x \in Rows : asking'[x].step = "write" => asking'[x] = asking[x]
    PROVE  Clocked'
<1>1. /\ \A x \in Rows : memories[x].updated \in Nat /\ asking[x].updated \in Nat
      /\ \A r, x \in Rows : asking[r].seen[x].updated \in Nat
      /\ writes \in Nat
  BY Rowwise DEF RegistryIInv
<1>2. /\ \A x \in Rows : memories'[x].updated <= writes'
      /\ \A r, x \in Rows : asking'[r].seen[x].updated <= writes'
  BY <1>1 DEF RegistryIInv, Clocked
<1>3. ASSUME NEW x \in Rows, asking'[x].step = "write"
      PROVE  /\ asking'[x].text # 0
             /\ memories'[x].updated < asking'[x].updated /\ asking'[x].updated <= writes'
             /\ \A r \in Rows : asking'[r].seen[x].updated < asking'[x].updated
  <2>1. /\ asking'[x] = asking[x] /\ asking[x].text # 0 /\ asking[x].updated <= writes
        /\ memories[x].updated < asking[x].updated
        /\ \A r \in Rows : asking[r].seen[x].updated < asking[x].updated
    BY <1>3 DEF RegistryIInv, Clocked
  <2> QED
    BY <1>1, <1>3, <2>1
<1> QED
  BY <1>2, <1>3 DEF Clocked

\* What a search has read stays as it is until it ends.
LEMMA CoversStays ==
    ASSUME NEW q \in Rows, Covers(q), registry' = registry,
           asking'[q].seen = asking[q].seen, asking'[q].rows = asking[q].rows
    PROVE  Covers(q)'
BY DEF Covers, Searched, PassedOver, Capped, ShownRow

\* A task that is over reads and writes nothing.
LEMMA TaskEnds ==
    ASSUME RegistryIInv, NEW r \in Rows, Turns(r, Quiet), UNCHANGED <<registry, embeds, memories, writes, raced>>,
           missed' = {}
    PROVE  RegistryIInv'
<1>1. Quiet \in Task /\ asking' \in [Rows -> Task] /\ asking'[r] = Quiet
      /\ \A q \in Rows : q # r => asking'[q] = asking[q]
  BY TaskTurns, Rowwise DEF RegistryIInv
<1>2. RegistrySorts'
  BY <1>1 DEF RegistryIInv, RegistrySorts
<1>3. Clocked'
  BY <1>1, QuietTask, ClockedStays
<1>4. \A q \in Rows : Searching(q)' => q # r /\ Searching(q)
  BY <1>1, QuietTask DEF Searching
<1>5. \A q \in Rows : Searching(q)' => Reading(q)'
  BY <1>1, <1>4, CoversStays DEF RegistryIInv, Reading, TrueVectors
<1> QED
  BY <1>2, <1>3, <1>5 DEF RegistryIInv, TrueVectors

LEMMA WriteBegins ==
    ASSUME RegistryIInv, NEW r \in Rows, NEW x \in Texts, BeginWrite(r, x) PROVE RegistryIInv'
<1>1. /\ asking' \in [Rows -> Task] /\ asking'[r] = WriteTask(x)
      /\ \A q \in Rows : q # r => asking'[q] = asking[q]
      /\ WriteTask(x).step = "write" /\ WriteTask(x).text = x /\ x # 0
      /\ WriteTask(x).updated = writes + 1 /\ \A y \in Rows : WriteTask(x).seen[y].updated = 0
  BY WritingTask, TaskTurns, RegistriesAssumption DEF RegistryIInv, NoVectors, NoMemory
<1>2. /\ writes' = writes + 1 /\ writes' \in 0..MaxWrites
      /\ UNCHANGED <<registry, embeds, memories, raced, missed>>
  BY Rowwise DEF BeginWrite, RegistryIInv
<1>3. RegistrySorts'
  BY <1>1, <1>2 DEF RegistryIInv, RegistrySorts
<1>4. /\ \A y \in Rows : memories[y].updated \in Nat /\ memories[y].updated <= writes
      /\ \A q, y \in Rows : asking[q].seen[y].updated \in Nat /\ asking[q].seen[y].updated <= writes
      /\ \A q \in Rows : asking[q].updated \in Nat
      /\ writes \in Nat
  BY Rowwise DEF RegistryIInv, Clocked
<1>5. Clocked'
  BY <1>1, <1>2, <1>4 DEF RegistryIInv, Clocked
<1>6. \A q \in Rows : Searching(q)' => q # r /\ Searching(q)
  BY <1>1 DEF Searching
<1>7. \A q \in Rows : Searching(q)' => Reading(q)'
  BY <1>1, <1>2, <1>6, CoversStays DEF RegistryIInv, Reading, TrueVectors
<1> QED
  BY <1>2, <1>3, <1>5, <1>7 DEF RegistryIInv, TrueVectors

LEMMA WriteEnds ==
    ASSUME RegistryIInv, NEW r \in Rows, Writes(r) PROVE RegistryIInv'
<1>1. /\ asking[r].step = "write" /\ asking[r].text \in Texts /\ asking[r].text # 0
      /\ RowWritten(r) \in Memory /\ memories' \in [Rows -> Memory]
      /\ memories'[r] = RowWritten(r) /\ \A x \in Rows : x # r => memories'[x] = memories[x]
      /\ UNCHANGED <<registry, embeds, writes, missed>> /\ raced' \subseteq Rows
  BY Writing, RegistriesAssumption
<1>2. /\ asking' \in [Rows -> Task] /\ asking'[r] = Quiet
      /\ \A q \in Rows : q # r => asking'[q] = asking[q]
  BY Writing, TaskTurns, Rowwise DEF RegistryIInv
<1>3. RegistrySorts'
  BY <1>1, <1>2 DEF RegistryIInv, RegistrySorts
<1>4. /\ memories'[r].text = asking[r].text /\ memories'[r].updated = asking[r].updated
      /\ \/ memories'[r].model = "none"
         \/ memories'[r].model = "current" /\ memories'[r].vector = asking[r].text
         \/ /\ r \notin embeds /\ registry.backend = "mongodb"
            /\ memories'[r].model = memories[r].model /\ memories'[r].vector = memories[r].vector
  BY <1>1, RowIs DEF RegistryIInv
<1>5. /\ asking[r].updated \in Nat /\ memories[r].updated \in Nat /\ asking[r].updated <= writes
      /\ memories[r].updated < asking[r].updated
      /\ \A q \in Rows : asking[q].seen[r].updated \in Nat /\ asking[q].seen[r].updated < asking[r].updated
  BY <1>1, Rowwise DEF RegistryIInv, Clocked
<1>6. Clocked'
  <2>1. /\ \A x \in Rows : memories[x].updated \in Nat /\ asking[x].updated \in Nat
        /\ \A q, x \in Rows : asking[q].seen[x].updated \in Nat
        /\ writes \in Nat
    BY Rowwise DEF RegistryIInv
  <2>2. /\ \A x \in Rows : memories'[x].updated <= writes'
        /\ \A q, x \in Rows : asking'[q].seen[x].updated <= writes'
    BY <1>1, <1>2, <1>4, <1>5, <2>1, QuietTask DEF RegistryIInv, Clocked
  <2>3. ASSUME NEW x \in Rows, asking'[x].step = "write"
        PROVE  /\ asking'[x].text # 0
               /\ memories'[x].updated < asking'[x].updated /\ asking'[x].updated <= writes'
               /\ \A q \in Rows : asking'[q].seen[x].updated < asking'[x].updated
    <3>1. x # r /\ asking'[x] = asking[x] /\ memories'[x] = memories[x]
      BY <1>1, <1>2, <2>3, QuietTask
    <3>2. /\ asking[x].text # 0 /\ asking[x].updated <= writes /\ memories[x].updated < asking[x].updated
          /\ \A q \in Rows : asking[q].seen[x].updated < asking[x].updated
      BY <2>3, <3>1 DEF RegistryIInv, Clocked
    <3>3. 0 < asking[x].updated
      BY <2>1, <3>2
    <3> QED
      BY <1>1, <1>2, <3>1, <3>2, <3>3, QuietTask
  <2> QED
    BY <2>2, <2>3 DEF Clocked
<1>7. TrueVectors(memories, raced)'
  <2>1. ASSUME NEW x \in Rows, x # r PROVE x \in raced' <=> x \in raced
    BY <2>1 DEF Writes
  <2>2. memories'[r].model = "current" => memories'[r].vector # 0
    BY <1>1, <1>4 DEF RegistryIInv, TrueVectors
  <2>3. memories'[r].model = "current" => memories'[r].vector = memories'[r].text \/ r \in raced'
    BY <1>1, <1>4, <2>2 DEF Writes
  <2> QED
    BY <1>1, <1>4, <2>1, <2>2, <2>3 DEF RegistryIInv, TrueVectors
<1>8. ASSUME NEW q \in Rows, Searching(q)' PROVE Reading(q)'
  <2>1. q # r /\ Searching(q) /\ asking'[q] = asking[q]
    BY <1>2, <1>8, QuietTask DEF Searching
  <2>2. Reading(q)
    BY <2>1 DEF RegistryIInv
  <2>3. memories'[r].updated # asking[q].seen[r].updated
    BY <1>4, <1>5
  <2>4. Covers(q)'
    BY <1>1, <2>1, <2>2, CoversStays DEF Reading
  <2> QED
    BY <1>1, <2>1, <2>2, <2>3, <2>4 DEF Reading, TrueVectors
<1> QED
  BY <1>1, <1>3, <1>6, <1>7, <1>8 DEF RegistryIInv

LEMMA RowDeleted ==
    ASSUME RegistryIInv, NEW r \in Rows, Deletes(r) PROVE RegistryIInv'
<1>1. /\ memories' \in [Rows -> Memory] /\ memories'[r] = NoMemory
      /\ \A x \in Rows : x # r => memories'[x] = memories[x]
      /\ asking[r] = Quiet /\ raced' = raced \ {r} /\ UNCHANGED <<registry, embeds, asking, writes, missed>>
  BY Rowwise DEF Deletes, RegistryIInv
<1>2. NoMemory.text = 0 /\ NoMemory.model = "none" /\ NoMemory.updated = 0
  BY DEF NoMemory
<1>3. RegistrySorts'
  BY <1>1 DEF RegistryIInv, RegistrySorts
<1>4. Clocked'
  BY <1>1, <1>2, QuietTask, Rowwise DEF RegistryIInv, Clocked
<1>5. TrueVectors(memories, raced)'
  BY <1>1, <1>2 DEF RegistryIInv, TrueVectors
<1>6. \A q \in Rows : Searching(q)' => Reading(q)'
  BY <1>1, <1>2, CoversStays DEF RegistryIInv, Searching, Reading, TrueVectors
<1> QED
  BY <1>1, <1>3, <1>4, <1>5, <1>6 DEF RegistryIInv

\* The candidates are all there are, or as many as there may be.
LEMMA CandidatesAre ==
    ASSUME NEW S, NEW rows \in CandidatesOf(S), NEW x \in S, x \notin rows
    PROVE  /\ rows \subseteq S /\ Capped /\ Cardinality(rows) = registry.limits.candidates
           /\ registry.holds = "memory" => \A y \in rows : memories[x].updated <= memories[y].updated
BY DEF CandidatesOf

LEMMA SearchBegins ==
    ASSUME RegistryIInv, NEW r \in Rows, NEW x \in Texts, BeginSearch(r, x) PROVE RegistryIInv'
<1>1. PICK step \in {"embed", "rank"}, rows \in FirstRead(r) :
              /\ Turns(r, SearchTask(step, x, rows)) /\ SearchTask(step, x, rows) \in Task
              /\ (step = "rank" => Unembedded(rows) = {})
  BY Searcher DEF RegistryIInv
<1>2. /\ asking' \in [Rows -> Task] /\ asking'[r] = SearchTask(step, x, rows)
      /\ \A q \in Rows : q # r => asking'[q] = asking[q]
  BY <1>1, TaskTurns DEF RegistryIInv
<1>3. /\ asking'[r].step = step /\ asking'[r].seen = memories /\ asking'[r].left = Unembedded(rows)
      /\ asking'[r].raced = raced /\ asking'[r].text = x /\ asking'[r].rows = rows
  BY <1>2 DEF SearchTask
<1>4. UNCHANGED <<registry, embeds, memories, writes, raced, missed>>
  BY DEF BeginSearch
<1>5. RegistrySorts'
  BY <1>2, <1>4 DEF RegistryIInv, RegistrySorts
<1>6. Clocked'
  BY <1>2, <1>3, <1>4, Rowwise DEF RegistryIInv, Clocked
<1>7. Covers(r)'
  <2> SUFFICES ASSUME registry.backend # "mongodb"
               PROVE  /\ \A y \in rows : memories[y].text # 0
                      /\ \A y \in Searched(r) :
                            memories[y].text # 0 => y \in rows \/ PassedOver(r, y, rows)'
    BY <1>3, <1>4 DEF Covers, Searched
  <2> DEFINE S == {y \in Searched(r) : Stored(y)}
  <2>1. rows \in CandidatesOf(S)
    BY DEF FirstRead
  <2>2. rows \subseteq S
    BY <2>1 DEF CandidatesOf
  <2>3. ASSUME NEW y \in S, y \notin rows PROVE PassedOver(r, y, rows)'
    <3>1. /\ Capped /\ Cardinality(rows) = registry.limits.candidates
          /\ registry.holds = "memory" => \A z \in rows : memories[y].updated <= memories[z].updated
      BY <2>1, <2>3, CandidatesAre
    <3> QED
      BY <1>3, <1>4, <2>3, <3>1 DEF PassedOver, ShownRow, Capped
  <2> QED
    BY <2>2, <2>3 DEF Stored
<1>8. Reading(r)'
  <2>1. \A y \in Unembedded(rows) : memories[y].text # 0
    BY DEF Unembedded, NeedsVector, RegistryIInv, RegistrySorts, RegistryKinds
  <2>2. registry.backend = "mongodb" =>
            \A y \in Rows \ Unembedded(rows) : memories[y].text # 0 => memories[y].model = "current"
    BY DEF Unembedded, NeedsVector
  <2> QED
    BY <1>1, <1>3, <1>4, <1>7, <2>1, <2>2 DEF RegistryIInv, Reading, TrueVectors
<1>9. ASSUME NEW q \in Rows, q # r, Searching(q)' PROVE Reading(q)'
  BY <1>2, <1>4, <1>9, CoversStays DEF RegistryIInv, Searching, Reading, TrueVectors
<1> QED
  BY <1>4, <1>5, <1>6, <1>8, <1>9 DEF RegistryIInv, TrueVectors

LEMMA VectorsSaved ==
    ASSUME RegistryIInv, NEW r \in Rows, SaveVectors(r) PROVE RegistryIInv'
<1>1. PICK now \in SUBSET asking[r].left :
              /\ memories' = VectorsFor(r, now)
              /\ raced' = {x \in raced \cup now :
                             IF x \in now THEN Stored(x) /\ memories[x].text # asking[r].seen[x].text
                             ELSE x \in raced}
              /\ asking' \in [Rows -> Task] /\ \A q \in Rows : q # r => asking'[q] = asking[q]
              /\ asking'[r].left = asking[r].left \ now /\ asking'[r].seen = asking[r].seen
              /\ asking'[r].raced = asking[r].raced /\ asking'[r].text = asking[r].text
              /\ asking'[r].rows = asking[r].rows
              /\ asking'[r].step \in {"embed", "rank"}
              /\ asking'[r].step = "rank" => asking'[r].left = {}
  BY Saving DEF RegistryIInv
<1>2. asking[r].step = "embed" /\ UNCHANGED <<registry, embeds, writes, missed>>
  BY DEF SaveVectors
<1>3. /\ memories' \in [Rows -> Memory] /\ now \subseteq Rows
      /\ \A x \in Rows : memories'[x].text = memories[x].text /\ memories'[x].updated = memories[x].updated
      /\ \A x \in Rows : IF x \in now /\ Stored(x)
                         THEN memories'[x].vector = asking[r].seen[x].text /\ memories'[x].model = "current"
                         ELSE memories'[x] = memories[x]
  <2>1. asking[r].left \subseteq Rows
    BY Rowwise DEF RegistryIInv, Task
  <2> QED
    BY <1>1, <2>1, VectorsAre DEF RegistryIInv
<1>4. RegistrySorts'
  BY <1>1, <1>2, <1>3 DEF RegistryIInv, RegistrySorts
<1>5. Clocked'
  <2>1. \A q \in Rows : asking'[q].seen = asking[q].seen /\ (asking'[q].step = "write" => asking'[q] = asking[q])
    BY <1>1
  <2> QED
    BY <1>2, <1>3, <2>1, ClockedStays
<1>6. Reading(r)
  BY <1>2 DEF RegistryIInv, Searching
<1>7. TrueVectors(memories, raced)'
  <2>1. ASSUME NEW x \in Rows, x \in now, Stored(x)
        PROVE  /\ memories'[x].vector # 0 /\ memories'[x].text # 0
               /\ memories'[x].vector = memories'[x].text \/ x \in raced'
    BY <1>1, <1>3, <1>6, <2>1 DEF Reading, Stored
  <2>2. ASSUME NEW x \in Rows, ~(x \in now /\ Stored(x)), memories'[x].model = "current"
        PROVE  /\ memories'[x].vector # 0 /\ memories'[x].text # 0
               /\ memories'[x].vector = memories'[x].text \/ x \in raced'
    <3>1. memories'[x] = memories[x] /\ memories[x].text # 0 /\ x \notin now
      BY <1>3, <2>2 DEF RegistryIInv, TrueVectors, Stored
    <3> QED
      BY <1>1, <2>2, <3>1 DEF RegistryIInv, TrueVectors
  <2> QED
    BY <2>1, <2>2 DEF TrueVectors
<1>8. ASSUME NEW q \in Rows, Searching(q)' PROVE Reading(q)'
  <2>1. /\ Searching(q) /\ Reading(q) /\ asking'[q].seen = asking[q].seen /\ asking'[q].raced = asking[q].raced
        /\ asking'[q].text = asking[q].text /\ asking'[q].rows = asking[q].rows
        /\ asking'[q].left \subseteq asking[q].left
        /\ asking'[q].step = "rank" => asking'[q].left = {}
        /\ \A x \in asking[q].left \ asking'[q].left : q = r /\ x \in now
    <3>1. CASE q = r
      BY <1>1, <1>2, <1>6, <3>1 DEF Searching
    <3>2. CASE q # r
      BY <1>1, <1>8, <3>2 DEF Searching, RegistryIInv, Reading
    <3> QED
      BY <3>1, <3>2
  <2>2. \A x \in Rows : memories'[x] = memories[x] \/ memories'[x].model = "current"
    BY <1>3
  <2>3. \A x \in now : memories'[x].text # 0 => memories'[x].model = "current"
    BY <1>3 DEF Stored
  <2>4. ASSUME registry'.backend = "mongodb", NEW x \in Rows \ asking'[q].left,
               memories'[x].text # 0, asking'[q].seen[x].text # 0,
               memories'[x].updated = asking'[q].seen[x].updated
        PROVE  memories'[x].model = "current"
    BY <1>2, <1>3, <2>1, <2>2, <2>3, <2>4 DEF Reading
  <2>5. Covers(q)'
    BY <1>2, <2>1, CoversStays DEF Reading
  <2> QED
    BY <2>1, <2>4, <2>5 DEF Reading, TrueVectors
<1> QED
  BY <1>2, <1>4, <1>5, <1>7, <1>8 DEF RegistryIInv

\* What a search ranks has the vector of the text it shows, unless it strayed.
LEMMA VectorTells ==
    ASSUME RegistryIInv, NEW r \in Rows, asking[r].step = "rank", NEW rows \in LastRead(r),
           NEW x \in rows, x \notin Strays(r)
    PROVE  VectorUsed(r, x) = ShownRow(r, x).text
<1>1. /\ Reading(r) /\ registry.backend \in {"local", "sqlite", "mongodb"}
      /\ x \notin raced /\ x \notin asking[r].raced
  BY DEF RegistryIInv, Searching, RegistrySorts, RegistryKinds, Strays
<1>2. x \in Rows
  BY Rowwise DEF LastRead, CandidatesOf, Searched, RegistryIInv, Task
<1>3. CASE registry.backend = "local"
  BY <1>3 DEF VectorUsed
<1>4. CASE registry.backend = "sqlite"
  <2>1. asking[r].seen[x].text # 0
    BY <1>1, <1>4 DEF LastRead, Reading, Covers
  <2>2. ~NeedsVector(asking[r].seen[x]) => asking[r].seen[x].vector = asking[r].seen[x].text
    BY <1>1, <1>2, <2>1 DEF NeedsVector, Reading, TrueVectors
  <2> QED
    BY <1>4, <2>2 DEF VectorUsed, ShownRow
<1>5. CASE registry.backend = "mongodb"
  <2>1. memories[x].model = "current"
    BY <1>5 DEF LastRead, CandidatesOf
  <2>2. memories[x].vector = memories[x].text
    BY <1>1, <1>2, <2>1 DEF RegistryIInv, TrueVectors
  <2> QED
    BY <1>5, <2>2 DEF VectorUsed, ShownRow
<1> QED
  BY <1>1, <1>3, <1>4, <1>5

\* What is close enough is a candidate, unless it was passed over.
LEMMA NothingLeftOut ==
    ASSUME RegistryIInv, NEW r \in Rows, asking[r].step = "rank", NEW rows \in LastRead(r),
           NEW x \in Rows, Relevant(r, x)
    PROVE  x \in rows \/ PassedOver(r, x, rows)
<1>1. Reading(r) /\ asking[r].left = {}
  BY DEF RegistryIInv, Searching, Reading
<1>2. /\ x \in Searched(r) /\ memories[x].text # 0 /\ asking[r].seen[x].text = memories[x].text
      /\ memories[x].updated = asking[r].seen[x].updated
  BY DEF Relevant, Stored
<1>3. CASE registry.backend # "mongodb"
  BY <1>1, <1>2, <1>3 DEF LastRead, Reading, Covers
<1>4. CASE registry.backend = "mongodb"
  <2> DEFINE S == {y \in Searched(r) : memories[y].model = "current"}
  <2>1. memories[x].model = "current"
    BY <1>1, <1>2, <1>4 DEF Reading
  <2>2. rows \in CandidatesOf(S) /\ x \in S
    BY <1>2, <1>4, <2>1 DEF LastRead
  <2> HIDE DEF S
  <2>3. ASSUME x \notin rows PROVE PassedOver(r, x, rows)
    <3>1. /\ Capped /\ Cardinality(rows) = registry.limits.candidates
          /\ registry.holds = "memory" => \A z \in rows : memories[x].updated <= memories[z].updated
      BY <2>2, <2>3, CandidatesAre
    <3> QED
      BY <1>4, <2>3, <3>1 DEF PassedOver, ShownRow
  <2> QED
    BY <2>3
<1> QED
  BY <1>3, <1>4

\* A candidate that is close enough is found, or outranked.
LEMMA NothingMissed ==
    ASSUME RegistryIInv, NEW r \in Rows, asking[r].step = "rank", NEW rows \in LastRead(r),
           NEW found \in Ranked(r, rows), NEW x \in rows, x \in Rows, Relevant(r, x), x \notin found
    PROVE  Outranked(r, x, found)
<1> DEFINE score(y) == Similarity(r, VectorUsed(r, y))
<1>1. x \notin Strays(r) /\ asking[r].seen[x].text = memories[x].text
      /\ Similarity(r, memories[x].text) > registry.limits.score
  BY DEF Relevant
<1>2. score(x) = Similarity(r, memories[x].text)
  <2>1. ShownRow(r, x).text = memories[x].text
    BY <1>1 DEF ShownRow
  <2> QED
    BY <1>1, <2>1, VectorTells
<1>3. found \subseteq rows
  BY DEF Ranked
<1>4. Cardinality(found) = registry.limits.results /\ \A y \in found : score(x) <= score(y)
  BY <1>1, <1>2 DEF Ranked
<1>5. ASSUME NEW y \in found \ Strays(r)
      PROVE  Similarity(r, memories[x].text) <= Similarity(r, ShownRow(r, y).text)
  <2>1. VectorUsed(r, y) = ShownRow(r, y).text
    BY <1>3, VectorTells
  <2> QED
    BY <1>2, <1>4, <2>1
<1> QED
  BY <1>4, <1>5 DEF Outranked

LEMMA SearchEnds ==
    ASSUME RegistryIInv, NEW r \in Rows, EndSearch(r) PROVE RegistryIInv'
<1>1. PICK rows \in LastRead(r) : \E found \in Ranked(r, rows) :
          missed' = {x \in Rows \ found :
              Relevant(r, x) /\ ~PassedOver(r, x, rows) /\ ~Outranked(r, x, found)}
  BY DEF EndSearch
<1>2. PICK found \in Ranked(r, rows) :
          missed' = {x \in Rows \ found :
              Relevant(r, x) /\ ~PassedOver(r, x, rows) /\ ~Outranked(r, x, found)}
  BY <1>1
<1>3. asking[r].step = "rank"
  BY DEF EndSearch
<1>4. ASSUME NEW x \in Rows \ found, Relevant(r, x)
      PROVE  PassedOver(r, x, rows) \/ Outranked(r, x, found)
  BY <1>3, <1>4, NothingLeftOut, NothingMissed
<1>5. missed' = {}
  BY <1>2, <1>4
<1> QED
  BY <1>5, TaskEnds DEF EndSearch, Turns

LEMMA RegistryKept ==
    ASSUME RegistryIInv, [RegistriesNext]_registriesVars PROVE RegistryIInv'
<1>1. CASE UNCHANGED registriesVars
  <2>1. RegistrySorts'
    BY <1>1 DEF registriesVars, RegistryIInv, RegistrySorts
  <2>2. Clocked'
    BY <1>1, ClockedStays DEF registriesVars
  <2> QED
    BY <1>1, <2>1, <2>2, CoversStays DEF registriesVars, RegistryIInv, TrueVectors, Searching, Reading
<1>2. ASSUME NEW r \in Rows, RegistryFails(r) PROVE RegistryIInv'
  BY <1>2, TaskEnds DEF RegistryFails, Turns, RegistryIInv
<1>3. ASSUME NEW r \in Rows, StoreMemory(r) \/ UpsertBlock(r) PROVE RegistryIInv'
  BY <1>3, WriteEnds DEF StoreMemory, UpsertBlock
<1>4. ASSUME NEW r \in Rows, ForgetMemory(r) \/ DeleteBlock(r) PROVE RegistryIInv'
  BY <1>4, RowDeleted DEF ForgetMemory, DeleteBlock
<1> QED
  BY <1>1, <1>2, <1>3, <1>4, WriteBegins, SearchBegins, VectorsSaved, SearchEnds DEF RegistriesNext

\* The rows, their vectors and the tasks of the sessions stay well formed, for
\* any number of rows, texts and writes.
THEOREM RegistriesTypeCorrect == RegistriesSpec => []RegistriesTypeOK
<1>1. RegistriesInit => RegistryIInv
  BY RegistryStarts
<1>2. RegistryIInv /\ [RegistriesNext]_registriesVars => RegistryIInv'
  BY RegistryKept
<1>3. RegistryIInv => RegistriesTypeOK
  BY DEF RegistryIInv, RegistrySorts, RegistriesTypeOK, Task
<1> QED
  BY <1>1, <1>2, <1>3, PTL DEF RegistriesSpec

\* The loop of get_context keeps a record after each one it reads.
LEMMA KeptRowIs ==
    ASSUME RegistrySorts, NEW s \in Rows, NEW order \in ReadOrders
    PROVE  LET n == Cardinality(StoredRows)
               kept == KeptRow(s, order)
           IN  /\ n \in Nat /\ order \in [1..n -> StoredRows]
               /\ kept[0] = NobodysRow
               /\ \A i \in 1..n : kept[i] = IF Preferred(s, kept[i - 1], order[i]) THEN order[i] ELSE kept[i - 1]
<1> DEFINE n == Cardinality(StoredRows)
           D == Rows \cup {NobodysRow}
           G == [i \in 1..n |-> [k \in D |-> IF Preferred(s, k, order[i]) THEN order[i] ELSE k]]
           Step(f, i) == IF i = 0 THEN NobodysRow
                         ELSE IF Preferred(s, f[i - 1], order[i]) THEN order[i] ELSE f[i - 1]
<1>1. IsFiniteSet(StoredRows)
  BY RegistriesAssumption, FS_Subset DEF StoredRows
<1>2. n \in Nat
  BY <1>1, FS_CardinalityType
<1>3. order \in [1..n -> StoredRows] /\ StoredRows \subseteq Rows
  BY DEF ReadOrders, StoredRows
<1> HIDE DEF n
<1>4. G \in [1..n -> [D -> D]]
  BY <1>3
<1>5. \A i \in 1..n : \A k \in D : G[i][k] = IF Preferred(s, k, order[i]) THEN order[i] ELSE k
  OBVIOUS
<1> HIDE DEF G
<1>6. PICK f \in [0..n -> D] : f[0] = NobodysRow /\ \A i \in 1..n : f[i] = G[i][f[i - 1]]
  <2>1. NobodysRow \in D
    OBVIOUS
  <2> HIDE DEF D
  <2> QED
    BY <1>2, <1>4, <2>1, LoopRuns
<1>7. \A i \in 1..n : f[i] = Step(f, i)
  <2> SUFFICES ASSUME NEW i \in 1..n PROVE f[i] = Step(f, i)
    OBVIOUS
  <2>1. i - 1 \in 0..n /\ i # 0
    BY <1>2
  <2>2. f[i - 1] \in D
    BY <1>6, <2>1
  <2> QED
    BY <1>5, <1>6, <2>1, <2>2
<1>8. f = [i \in 0..n |-> Step(f, i)]
  <2>1. \A i \in 0..n : f[i] = Step(f, i)
    BY <1>2, <1>6, <1>7
  <2> HIDE DEF Step
  <2> QED
    BY <1>6, <2>1
<1> DEFINE kept == CHOOSE g : g = [i \in 0..n |-> Step(g, i)]
<1>9. kept = [i \in 0..n |-> Step(kept, i)]
  <2> HIDE DEF Step
  <2> QED
    BY <1>8
<1>10. kept = KeptRow(s, order)
  BY DEF KeptRow, n
<1> HIDE DEF kept
<1>11. kept[0] = NobodysRow /\ \A i \in 1..n : kept[i] = Step(kept, i)
  <2>1. \A i \in 0..n : kept[i] = Step(kept, i)
    <3> HIDE DEF Step
    <3> QED
      BY <1>9
  <2> QED
    BY <1>2, <2>1
<1> QED
  BY <1>2, <1>3, <1>10, <1>11 DEF n

\* What it keeps: the session's own record once it has read that, the newest
\* of those it has read until then.
KeepsBest(s, order, i, k) ==
    /\ i > 0 => k \in StoredRows
    /\ \A j \in 1..i : order[j] = s => k = s
    /\ k # s => \A j \in 1..i : memories[order[j]].updated <= memories[k].updated

LEMMA LoopKeepsBest ==
    ASSUME RegistrySorts, NEW s \in Rows, NEW order \in ReadOrders
    PROVE  KeepsBest(s, order, Cardinality(StoredRows), ChosenRow(s, order))
<1> DEFINE n == Cardinality(StoredRows)
           kept == KeptRow(s, order)
           S == {i \in 0..n : KeepsBest(s, order, i, kept[i])}
<1>1. /\ n \in Nat /\ order \in [1..n -> StoredRows]
      /\ kept[0] = NobodysRow
      /\ \A i \in 1..n : kept[i] = IF Preferred(s, kept[i - 1], order[i]) THEN order[i] ELSE kept[i - 1]
  BY KeptRowIs
<1> HIDE DEF n, kept
<1>2. 0 \in S
  BY <1>1 DEF KeepsBest
<1>3. ASSUME NEW i \in 0..n, i \in S, i < n PROVE i + 1 \in S
  <2> DEFINE r == order[i + 1]
             k == kept[i]
             l == kept[i + 1]
  <2>1. /\ i \in Nat /\ i + 1 \in 1..n /\ i + 1 - 1 = i /\ i + 1 \in 0..n
        /\ \A j \in 1..(i + 1) : j \in 1..i \/ j = i + 1
        /\ \A j \in 1..(i + 1) : j \in 1..n
    BY <1>1, <1>3
  <2>2. l = IF Preferred(s, k, r) THEN r ELSE k
    BY <1>1, <2>1
  <2>3. r \in StoredRows
    BY <1>1, <2>1
  <2>4. KeepsBest(s, order, i, k)
    BY <1>3
  <2>5. \A q \in StoredRows : q \in Rows /\ memories[q].updated \in Nat
    BY RegistriesAssumption DEF RegistrySorts, StoredRows, Memory
  <2>6. k = NobodysRow => i = 0
    BY <2>1, <2>4, RegistriesAssumption DEF KeepsBest, StoredRows
  <2>7. \A j \in 1..(i + 1) : order[j] \in StoredRows
    BY <1>1, <2>1
  <2>8. KeepsBest(s, order, i + 1, l)
    <3>1. CASE i = 0
      <4>1. k = NobodysRow
        BY <1>1, <3>1
      <4>2. l = r
        BY <2>2, <4>1 DEF Preferred
      <4>3. \A j \in 1..(i + 1) : j = i + 1
        BY <3>1
      <4> QED
        BY <2>1, <2>3, <2>5, <4>2, <4>3 DEF KeepsBest
    <3>2. CASE i > 0 /\ Preferred(s, k, r)
      <4>1. l = r /\ k # s /\ k \in StoredRows /\ (r = s \/ memories[r].updated > memories[k].updated)
        BY <2>1, <2>2, <2>4, <2>6, <3>2 DEF Preferred, KeepsBest
      <4>2. \A j \in 1..i : order[j] # s /\ memories[order[j]].updated <= memories[k].updated
        BY <2>4, <4>1 DEF KeepsBest
      <4>3. r # s => \A j \in 1..(i + 1) : memories[order[j]].updated <= memories[r].updated
        BY <2>1, <2>3, <2>5, <2>7, <4>1, <4>2
      <4> QED
        BY <2>1, <2>3, <4>1, <4>2, <4>3 DEF KeepsBest
    <3>3. CASE i > 0 /\ ~Preferred(s, k, r)
      <4>1. l = k /\ k \in StoredRows
        BY <2>2, <2>4, <3>3 DEF KeepsBest
      <4>2. k = s \/ (r # s /\ ~(memories[r].updated > memories[k].updated))
        BY <3>3 DEF Preferred
      <4>3. k # s => memories[r].updated <= memories[k].updated
        BY <2>3, <2>5, <4>1, <4>2
      <4> QED
        BY <2>1, <2>4, <4>1, <4>2, <4>3 DEF KeepsBest
    <3> QED
      BY <2>1, <3>1, <3>2, <3>3
  <2> QED
    BY <2>1, <2>8
<1>4. n \in S
  <2> HIDE DEF S
  <2>1. 0..n \subseteq S
    BY <1>1, <1>2, <1>3, Climbs
  <2> QED
    BY <1>1, <2>1
<1> QED
  BY <1>4 DEF n, kept, ChosenRow

\* The context of a session: its own record, else the newest recent one.
LEMMA ContextIs == RegistrySorts => ContextHasNewest
<1> SUFFICES ASSUME RegistrySorts, NEW s \in Rows, NEW order \in ReadOrders
             PROVE  IF Stored(s) THEN InContext(s, order) = {r \in {s} : WithinDays(r)}
                    ELSE \A r \in Rows : Stored(r) /\ WithinDays(r) =>
                            \E c \in InContext(s, order) : memories[c].updated >= memories[r].updated
  BY DEF ContextHasNewest
<1> DEFINE n == Cardinality(StoredRows)
           k == ChosenRow(s, order)
<1>1. /\ n \in Nat /\ order \in [1..n -> StoredRows]
      /\ \A r \in StoredRows : \E i \in 1..n : order[i] = r
  BY KeptRowIs DEF ReadOrders
<1>2. KeepsBest(s, order, n, k)
  BY LoopKeepsBest
<1> HIDE DEF n, k
<1>3. ASSUME NEW r \in StoredRows
      PROVE  k \in StoredRows /\ (r = s => k = s) /\ (k # s => memories[r].updated <= memories[k].updated)
  <2>1. PICK i \in 1..n : order[i] = r
    BY <1>1
  <2>2. n > 0
    BY <1>1, <2>1
  <2> QED
    BY <1>2, <2>1, <2>2 DEF KeepsBest
<1>4. InContext(s, order) = {r \in {k} \ {NobodysRow} : WithinDays(r)}
  BY DEF InContext, k
<1>5. CASE Stored(s)
  <2>1. k = s /\ s # NobodysRow
    BY <1>3, <1>5, RegistriesAssumption DEF StoredRows
  <2> QED
    BY <1>4, <1>5, <2>1
<1>6. CASE ~Stored(s)
  <2> SUFFICES ASSUME NEW r \in Rows, Stored(r), WithinDays(r)
               PROVE  \E c \in InContext(s, order) : memories[c].updated >= memories[r].updated
    BY <1>6
  <2>1. r \in StoredRows
    BY DEF StoredRows
  <2>2. k \in StoredRows /\ k # s /\ memories[r].updated <= memories[k].updated
    BY <1>3, <1>6, <2>1 DEF StoredRows
  <2>3. /\ k \in Rows /\ k # NobodysRow
        /\ memories[r].updated \in Nat /\ memories[k].updated \in Nat /\ writes \in Nat /\ ContextWindow \in Nat
    BY <2>2, RegistriesAssumption DEF RegistrySorts, StoredRows, Memory
  <2>4. WithinDays(k)
    BY <2>2, <2>3 DEF WithinDays
  <2> QED
    BY <1>4, <2>2, <2>3, <2>4
<1> QED
  BY <1>5, <1>6

\* However sessions write, delete and embed while another one searches, and in
\* each of the three backends: a search by meaning finds every row that says
\* what was asked and was not written meanwhile, unless its vector is known to
\* have been left behind (search_memory, search); and the context of a session
\* has its own record of a category, or the newest recent one, in whatever
\* order the records are read (get_context).
THEOREM MemoriesAreReached == RegistriesSpec => []MemoriesReach
<1>1. RegistriesInit => RegistryIInv
  BY RegistryStarts
<1>2. RegistryIInv /\ [RegistriesNext]_registriesVars => RegistryIInv'
  BY RegistryKept
<1>3. RegistryIInv => MemoriesReach
  BY ContextIs DEF RegistryIInv, MemoriesReach, SearchesFindAll
<1> QED
  BY <1>1, <1>2, <1>3, PTL DEF RegistriesSpec


-----------------------------------------------------------------------------
(* Paths.                                                                  *)

-----------------------------------------------------------------------------
(* Paths and what they begin with.                                         *)

\* The provers do not see that "workspace" is a string: it is said here.
Names == STRING \cup {"workspace"}

Path == Seq(Names)

\* The first i names of a path.
Upto(p, i) == SubSeq(p, 1, i)

LEMMA SamePath ==
    ASSUME NEW p \in Path, NEW q \in Path, Len(p) = Len(q), \A j \in 1..Len(p) : p[j] = q[j]
    PROVE  p = q
BY DEF Path

LEMMA UptoIs ==
    ASSUME NEW p \in Path, NEW i \in 0..Len(p)
    PROVE  /\ Upto(p, i) \in Path /\ Len(Upto(p, i)) = i
           /\ \A j \in 1..i : Upto(p, i)[j] = p[j]
BY DEF Path, Upto

LEMMA UptoUpto ==
    ASSUME NEW p \in Path, NEW i \in 0..Len(p), NEW j \in 0..i
    PROVE  Upto(Upto(p, i), j) = Upto(p, j)
<1>1. Len(p) \in Nat
  BY DEF Path
<1>2. /\ Upto(p, i) \in Path /\ Len(Upto(p, i)) = i /\ j \in 0..Len(p) /\ j \in 0..Len(Upto(p, i))
  BY <1>1, UptoIs
<1>3. /\ Upto(p, j) \in Path /\ Len(Upto(p, j)) = j /\ \A k \in 1..j : Upto(p, j)[k] = p[k]
      /\ Upto(Upto(p, i), j) \in Path /\ Len(Upto(Upto(p, i), j)) = j
      /\ \A k \in 1..j : Upto(Upto(p, i), j)[k] = Upto(p, i)[k]
  BY <1>2, UptoIs
<1>4. \A k \in 1..j : k \in 1..i /\ Upto(p, i)[k] = p[k]
  BY <1>1, <1>2, UptoIs
<1> QED
  BY <1>3, <1>4, SamePath

LEMMA UptoAll == ASSUME NEW p \in Path PROVE Upto(p, Len(p)) = p
<1>1. Len(p) \in Nat /\ Len(p) \in 0..Len(p)
  BY DEF Path
<1>2. /\ Upto(p, Len(p)) \in Path /\ Len(Upto(p, Len(p))) = Len(p)
      /\ \A j \in 1..Len(p) : Upto(p, Len(p))[j] = p[j]
  BY <1>1, UptoIs
<1> QED
  BY <1>2, SamePath

LEMMA PrefixIs ==
    ASSUME NEW p \in Path, NEW q \in Path
    PROVE  IsPrefix(p, q) <=> Len(p) <= Len(q) /\ p = Upto(q, Len(p))
<1>1. Len(p) \in Nat /\ Len(q) \in Nat
  BY DEF Path
<1>2. SubSeq(p, 1, Len(p)) = p
  BY UptoAll DEF Upto
<1> QED
  BY <1>1, <1>2 DEF IsPrefix, Upto

LEMMA NoNames == ASSUME NEW p \in Path PROVE (p = <<>> <=> Len(p) = 0) /\ Len(p) \in Nat /\ Upto(p, 0) = <<>>
<1>1. Len(p) \in Nat /\ 0 \in 0..Len(p)
  BY DEF Path
<1>2. Upto(p, 0) \in Path /\ Len(Upto(p, 0)) = 0
  BY <1>1, UptoIs
<1> QED
  BY <1>1, <1>2 DEF Path

LEMMA StringsArePaths == Seq(STRING) \subseteq Path /\ STRING \subseteq Names
<1>1. \A s \in Seq(STRING) : s \in [1..Len(s) -> Names] /\ Len(s) \in Nat
  BY DEF Names
<1> QED
  BY <1>1 DEF Path, Names

LEMMA OneName == ASSUME NEW S, NEW b \in S PROVE <<b>> \in Seq(S)
OBVIOUS

LEMMA FirstAndLast ==
    ASSUME NEW p \in Path, p # <<>>
    PROVE  Head(p) = p[1] /\ Last(p) = p[Len(p)] /\ Front(p) = Upto(p, Len(p) - 1) /\ Len(p) \in Nat \ {0}
BY NoNames DEF Path, Last, Front, Upto

-----------------------------------------------------------------------------
(* The tree.                                                               *)

\* The folders of the tree's nodes are in it, and no path is there twice.
TreeOK ==
    /\ tree \subseteq Nodes
    /\ \A n \in tree : Len(n.path) > 1 =>
          \E d \in tree : d.path = Front(n.path) /\ d.kind = "dir"
    /\ \A m, n \in tree : m.path = n.path => m = n

LEMMA PathsAre ==
    ASSUME TreeOK, NEW p \in Paths
    PROVE  /\ p \in Path /\ p # <<>> /\ Len(p) \in Nat \ {0}
           /\ \A i \in 1..Len(p) : p[i] \notin BadNames
           /\ Head(p) = p[1] /\ Last(p) = p[Len(p)] /\ Front(p) = Upto(p, Len(p) - 1)
<1>1. p \in Path /\ p # <<>> /\ \A i \in DOMAIN p : p[i] \notin BadNames
  BY FilePathsAssumption, StringsArePaths DEF TreeOK, Paths
<1>2. DOMAIN p = 1..Len(p)
  BY <1>1 DEF Path
<1> QED
  BY <1>1, <1>2, FirstAndLast

LEMMA KindIs ==
    ASSUME TreeOK, NEW n \in tree
    PROVE  n.path \in Paths /\ Kind(n.path) = n.kind
<1>1. (CHOOSE m \in tree : m.path = n.path) \in tree /\ (CHOOSE m \in tree : m.path = n.path).path = n.path
  OBVIOUS
<1> QED
  BY <1>1 DEF TreeOK, Kind, Paths

LEMMA FolderAbove ==
    ASSUME TreeOK, NEW p \in Paths, Len(p) > 1
    PROVE  IsDir(Upto(p, Len(p) - 1))
<1>1. PICK n \in tree : n.path = p
  BY DEF Paths
<1>2. PICK d \in tree : d.path = Front(p) /\ d.kind = "dir"
  BY <1>1 DEF TreeOK
<1>3. d.path \in Paths /\ Kind(d.path) = "dir"
  BY <1>2, KindIs
<1> QED
  BY <1>2, <1>3, PathsAre DEF IsDir, Exists

\* What lies above a node is a folder.
LEMMA FoldersAbove ==
    ASSUME TreeOK, NEW p \in Paths, NEW i \in 0..(Len(p) - 1)
    PROVE  IsDir(Upto(p, i))
<1>p. p \in Path /\ Len(p) \in Nat \ {0} /\ p # <<>> /\ Upto(p, 0) = <<>> /\ Upto(p, Len(p)) = p
  BY PathsAre, NoNames, UptoAll
<1> DEFINE missing == {k \in Nat : k <= Len(p) /\ ~IsDir(Upto(p, Len(p) - k)) /\ k >= 1}
<1> SUFFICES ASSUME ~IsDir(Upto(p, i)) PROVE FALSE
  OBVIOUS
<1>1. Len(p) - i \in missing
  <2>1. Len(p) - i \in Nat /\ Len(p) - i >= 1 /\ Len(p) - (Len(p) - i) = i /\ Len(p) - i <= Len(p)
    BY <1>p
  <2> QED
    BY <2>1
<1>2. PICK k \in missing : \A j \in missing : k <= j
  <2>1. missing \in SUBSET Nat
    OBVIOUS
  <2> HIDE DEF missing
  <2> QED
    BY <1>1, <2>1, LeastOf
<1>3. k \in Nat /\ k >= 1 /\ k <= Len(p) /\ ~IsDir(Upto(p, Len(p) - k))
  BY <1>2
<1>4. k < Len(p)
  BY <1>3, <1>p DEF IsDir
<1> DEFINE m == Len(p) - k + 1
           q == Upto(p, m)
<1>5. m \in 2..Len(p) /\ m - 1 = Len(p) - k /\ m \in 0..Len(p) /\ m - 1 \in 0..m
  BY <1>3, <1>4, <1>p
<1>6. q \in Path /\ Len(q) = m
  BY <1>5, <1>p, UptoIs
<1>7. q \in Paths
  <2>1. CASE k = 1
    BY <2>1, <1>p
  <2>2. CASE k # 1
    <3>1. k - 1 \in Nat /\ k - 1 >= 1 /\ k - 1 <= Len(p) /\ Len(p) - (k - 1) = m /\ ~(k <= k - 1)
      BY <2>2, <1>3, <1>4, <1>p
    <3>2. k - 1 \notin missing
      BY <3>1, <1>2
    <3>3. IsDir(Upto(p, Len(p) - (k - 1)))
      BY <3>1, <3>2
    <3>4. q # <<>>
      BY <1>6, <1>5, NoNames
    <3> QED
      BY <3>1, <3>3, <3>4 DEF IsDir, Exists
  <2> QED
    BY <2>1, <2>2
<1> HIDE DEF q, m
<1>8. IsDir(Upto(q, m - 1))
  <2>1. Len(q) > 1
    BY <1>5, <1>6
  <2> QED
    BY <2>1, <1>6, <1>7, FolderAbove
<1>9. Upto(q, m - 1) = Upto(p, m - 1)
  BY <1>5, <1>p, UptoUpto DEF q
<1> QED
  BY <1>3, <1>5, <1>8, <1>9

-----------------------------------------------------------------------------
(* What the walks see.                                                     *)

\* A part of a readable path that is not all of it is a folder that no walk
\* passes over.
LEMMA PartsOfReadable ==
    ASSUME TreeOK, NEW q \in Paths, Readable(q), NEW i \in 1..Len(q)
    PROVE  /\ Upto(q, i) \in Paths /\ Upto(q, i) \in Path /\ Len(Upto(q, i)) = i
           /\ ~Skipped(Upto(q, i))
           /\ i < Len(q) => IsDir(Upto(q, i))
<1> DEFINE e == Upto(q, i)
<1>1. /\ q \in Path /\ Len(q) \in Nat \ {0} /\ Head(q) = q[1] /\ Last(q) = q[Len(q)]
      /\ q # <<>> /\ Upto(q, Len(q)) = q
  BY PathsAre, UptoAll
<1>2. i \in 0..Len(q)
  BY <1>1
<1>3. e \in Path /\ Len(e) = i /\ \A j \in 1..i : e[j] = q[j]
  BY <1>1, <1>2, UptoIs
<1>4. i < Len(q) => IsDir(e)
  BY <1>1, FoldersAbove
<1>5. e # <<>>
  BY <1>3, NoNames
<1>6. e \in Paths
  <2>1. i = Len(q) \/ i < Len(q)
    BY <1>1
  <2> QED
    BY <2>1, <1>1, <1>4, <1>5 DEF IsDir, Exists
<1>7. /\ Last(e) = q[i]
      /\ Len(e) = 1 => e[1] = Head(q)
  BY <1>1, <1>3, <1>5, FirstAndLast
<1>8. /\ \A j \in 1..Len(q) : q[j] \notin BadNames \cup TempNames
      /\ \A j \in 1..(Len(q) - 1) : q[j] \notin DotNames
      /\ Head(q) \notin Blocked
  <2>1. DOMAIN q = 1..Len(q)
    BY <1>1 DEF Path
  <2> QED
    BY <1>1, <2>1 DEF Readable, Visible
<1>9. /\ i < Len(q) => Kind(e) = "dir" /\ q[i] \notin DotNames
      /\ ~(i < Len(q)) => Kind(e) \in {"file", "long"}
  <2>1. CASE i < Len(q)
    BY <2>1, <1>1, <1>4, <1>5, <1>8 DEF IsDir
  <2>2. CASE ~(i < Len(q))
    <3>1. i = Len(q)
      BY <2>2, <1>1
    <3> QED
      BY <3>1, <2>2, <1>1 DEF Readable, Regular
  <2> QED
    BY <2>1, <2>2
<1>10. ~Skipped(e)
  BY <1>1, <1>3, <1>7, <1>8, <1>9 DEF Skipped
<1> QED
  BY <1>3, <1>4, <1>6, <1>10

\* What a path begins with, a longer part of it begins with as well.
LEMMA PrefixOfPart ==
    ASSUME NEW p \in Path, NEW q \in Path, IsPrefix(p, q), NEW i \in Len(p)..Len(q)
    PROVE  IsPrefix(p, Upto(q, i))
<1>1. Len(p) \in Nat /\ Len(q) \in Nat /\ Len(p) <= Len(q) /\ p = Upto(q, Len(p))
  BY PrefixIs, NoNames
<1>2. Upto(q, i) \in Path /\ Len(Upto(q, i)) = i /\ Upto(Upto(q, i), Len(p)) = Upto(q, Len(p))
  BY <1>1, UptoIs, UptoUpto
<1> QED
  BY <1>1, <1>2, PrefixIs

\* The walk goes into the folders above a readable file, down to its depth,
\* and sees what is next on the way to it.
LEMMA WalkReaches ==
    ASSUME TreeOK, NEW q \in Paths, Readable(q), NEW root \in Path, IsDir(root), IsPrefix(root, q),
           NEW i \in Len(root)..(Len(q) - 1), i <= Len(root) + ScanDepth
    PROVE  Upto(q, i + 1) \in WalkedEntries(root)
<1>1. /\ q \in Path /\ Len(q) \in Nat \ {0} /\ Len(root) \in Nat /\ i \in Nat
      /\ i \in 0..Len(q) /\ i + 1 \in 1..Len(q) /\ i \in 0..(i + 1) /\ i + 1 \in 0..Len(q)
      /\ i \in Len(root)..Len(q)
  BY PathsAre, NoNames
<1> DEFINE d == Upto(q, i)
           e == Upto(q, i + 1)
<1>2. /\ e \in Paths /\ e \in Path /\ Len(e) = i + 1
      /\ d \in Path /\ Len(d) = i
      /\ Upto(e, i) = d
  BY <1>1, PartsOfReadable, UptoIs, UptoUpto
<1>3. IsPrefix(root, d)
  BY <1>1, PrefixOfPart
<1>4. IsDir(d)
  BY <1>1, FoldersAbove
<1>5. IsPrefix(d, e)
  BY <1>1, <1>2, PrefixIs
<1>6. ASSUME NEW j \in (Len(root) + 1)..Len(d) PROVE ~Skipped(SubSeq(d, 1, j))
  <2>1. j \in 0..i /\ j \in 1..Len(q)
    BY <1>1, <1>2
  <2>2. Upto(d, j) = Upto(q, j)
    BY <1>1, <2>1, UptoUpto
  <2>3. ~Skipped(Upto(q, j))
    BY <2>1, PartsOfReadable
  <2> QED
    BY <2>2, <2>3 DEF Upto
<1>7. d \in Walked(root)
  BY <1>2, <1>3, <1>4, <1>6 DEF Walked, IsDir, Exists
<1>8. e \in Entries(d)
  BY <1>2, <1>5 DEF Entries
<1> HIDE DEF d, e
<1>9. e \in WalkedEntries(root)
  BY <1>7, <1>8 DEF WalkedEntries
<1> QED
  BY <1>9 DEF e

\* A walk that does not stop finds every file the tools could read.
LEMMA ScansAll ==
    ASSUME TreeOK, NEW root \in Path, NEW found \in Scans(root), ~found.truncated,
           NEW q \in Paths, Readable(q), IsPrefix(root, q)
    PROVE  q \in found.paths
<1>1. /\ q \in Path /\ Len(q) \in Nat \ {0} /\ Len(root) \in Nat
      /\ Upto(q, Len(q)) = q /\ Len(root) <= Len(q) /\ root = Upto(q, Len(root))
  BY PathsAre, NoNames, UptoAll, PrefixIs
<1>2. root = q \/ (root # q /\ Len(root) \in 0..(Len(q) - 1) /\ IsDir(root))
  <2>1. Len(root) # Len(q) => Len(root) \in 0..(Len(q) - 1)
    BY <1>1
  <2>2. Len(root) # Len(q) => IsDir(root)
    BY <1>1, <2>1, FoldersAbove
  <2>3. Len(root) = Len(q) => root = q
    BY <1>1
  <2> QED
    BY <2>1, <2>2, <2>3
<1>3. Regular(q) /\ Exists(q)
  BY DEF Readable, Regular
<1>4. CASE root = q
  BY <1>3, <1>4 DEF Scans
<1>5. CASE root # q /\ Len(root) \in 0..(Len(q) - 1) /\ IsDir(root)
  <2>1. root \notin Paths \/ Kind(root) = "dir"
    BY <1>5, PathsAre DEF IsDir, Exists
  <2>2. ~Regular(root) /\ ~(~Exists(root) /\ root # <<>>)
    BY <1>5, <2>1 DEF Regular, IsDir, Exists
  <2>3. ~WalkStops(root) /\ found.paths = FilesBelow(root)
    BY <2>2 DEF Scans
  <2>4. ScanDepth \in Nat
    BY FilePathsAssumption
  <2>5. Len(q) - 1 <= Len(root) + ScanDepth
    <3> SUFFICES ASSUME ~(Len(q) - 1 <= Len(root) + ScanDepth) PROVE FALSE
      OBVIOUS
    <3> DEFINE k == Len(root) + ScanDepth
    <3>1. k \in Len(root)..(Len(q) - 1) /\ k <= Len(root) + ScanDepth /\ k + 1 \in 1..Len(q) /\ k + 1 < Len(q)
      BY <1>1, <2>4
    <3>2. Upto(q, k + 1) \in WalkedEntries(root)
      BY <1>5, <3>1, WalkReaches
    <3>3. /\ ~Skipped(Upto(q, k + 1)) /\ IsDir(Upto(q, k + 1)) /\ Len(Upto(q, k + 1)) = k + 1
      BY <3>1, PartsOfReadable
    <3>4. k + 1 > Len(root) + ScanDepth
      BY <1>1, <2>4
    <3> HIDE DEF k
    <3> QED
      BY <2>3, <3>2, <3>3, <3>4 DEF WalkStops
  <2>6. /\ Len(q) - 1 \in Len(root)..(Len(q) - 1) /\ Len(q) - 1 + 1 = Len(q) /\ Len(q) \in 1..Len(q)
    BY <1>1, <1>5
  <2>7. q \in WalkedEntries(root)
    BY <1>1, <1>5, <2>5, <2>6, WalkReaches
  <2>8. ~Skipped(q)
    BY <1>1, <2>6, PartsOfReadable
  <2> QED
    BY <1>3, <2>3, <2>7, <2>8 DEF FilesBelow
<1> QED
  BY <1>2, <1>4, <1>5

-----------------------------------------------------------------------------
(* What the tools show.                                                    *)

\* A file found below a directory that may be asked for can be read.
LEMMA FoundCanBeRead ==
    ASSUME TreeOK, NEW root \in Path, Listable(root), NEW p \in FilesBelow(root)
    PROVE  Readable(p)
<1>1. /\ p \in WalkedEntries(root) /\ ~Skipped(p) /\ Regular(p)
  BY DEF FilesBelow
<1>2. PICK d \in Walked(root) : p \in Entries(d)
  BY <1>1 DEF WalkedEntries
<1>3. p \in Paths /\ Len(p) = Len(d) + 1 /\ IsPrefix(d, p)
  BY <1>2 DEF Entries
<1>4. /\ d \in Paths \cup {<<>>} /\ IsPrefix(root, d) /\ IsDir(d)
      /\ \A i \in (Len(root) + 1)..Len(d) : ~Skipped(Upto(d, i))
  BY <1>2 DEF Walked, Upto
<1>5. d \in Path
  <2>1. <<>> \in Path
    BY DEF Path
  <2> QED
    BY <1>4, <2>1, PathsAre
<1>6. /\ p \in Path /\ p # <<>> /\ Len(p) \in Nat \ {0} /\ Head(p) = p[1] /\ Last(p) = p[Len(p)]
      /\ \A i \in 1..Len(p) : p[i] \notin BadNames
      /\ DOMAIN p = 1..Len(p)
  BY <1>3, PathsAre DEF Path
<1>7. /\ Len(root) \in Nat /\ Len(d) \in Nat /\ Len(root) <= Len(d)
      /\ d = Upto(p, Len(d)) /\ root = Upto(d, Len(root))
      /\ Len(d) = Len(p) - 1
  BY <1>3, <1>4, <1>5, <1>6, PrefixIs, NoNames
<1>l. Len(d) \in Nat /\ Len(p) \in Nat /\ Len(p) = Len(d) + 1
  BY <1>3, <1>6, <1>7
<1>8. /\ \A i \in 1..Len(d) : d[i] = p[i]
      /\ \A i \in 1..Len(root) : root[i] = p[i]
  <2>1. \A i \in 1..Len(d) : d[i] = p[i]
    <3>1. Len(d) \in 0..Len(p)
      BY <1>6, <1>7
    <3>2. \A i \in 1..Len(d) : Upto(p, Len(d))[i] = p[i]
      BY <3>1, <1>6, UptoIs
    <3> QED
      BY <3>2, <1>7
  <2>2. \A i \in 1..Len(root) : root[i] = d[i]
    <3>1. Len(root) \in 0..Len(d)
      BY <1>7
    <3> QED
      BY <3>1, <1>5, <1>7, UptoIs
  <2> QED
    BY <2>1, <2>2, <1>7
<1>9. /\ \A i \in 1..Len(root) : root[i] \notin BadNames \cup TempNames
      /\ \A i \in 1..(Len(root) - 1) : root[i] \notin DotNames
      /\ root # <<>> => /\ Head(root) \notin Blocked /\ Last(root) \notin DotNames
                        /\ Head(root) = root[1] /\ Last(root) = root[Len(root)]
  <2>1. DOMAIN root = 1..Len(root)
    BY DEF Path
  <2> QED
    BY <2>1, FirstAndLast DEF Listable, Visible
<1>10. ASSUME NEW i \in (Len(root) + 1)..Len(d)
       PROVE  p[i] \notin TempNames \cup DotNames /\ (i = 1 => p[1] \notin Blocked)
  <2> DEFINE e == Upto(p, i)
  <2>1. i \in 0..Len(p) /\ i \in 0..Len(d) /\ Len(d) \in 0..Len(p) /\ i \in Nat \ {0}
        /\ i \in 0..(Len(p) - 1)
    BY <1>6, <1>7
  <2>2. Upto(d, i) = e
    BY <1>6, <1>7, <2>1, UptoUpto
  <2>3. e \in Path /\ Len(e) = i /\ \A j \in 1..i : e[j] = p[j]
    BY <1>6, <2>1, UptoIs
  <2>4. e # <<>> /\ Last(e) = p[i] /\ e[1] = p[1]
    BY <2>1, <2>3, NoNames, FirstAndLast
  <2>5. IsDir(e)
    BY <1>3, <2>1, FoldersAbove
  <2>6. Kind(e) = "dir"
    BY <2>4, <2>5 DEF IsDir
  <2>7. ~Skipped(e)
    BY <1>4, <2>2
  <2> HIDE DEF e
  <2> QED
    BY <2>3, <2>4, <2>6, <2>7 DEF Skipped
<1>11. p[Len(p)] \notin TempNames /\ (Len(p) = 1 => p[1] \notin Blocked)
  BY <1>1, <1>6 DEF Skipped
<1>12. ASSUME NEW i \in 1..Len(p)
       PROVE  p[i] \notin TempNames /\ (i < Len(p) => p[i] \notin DotNames)
  <2>1. CASE i <= Len(root)
    <3>1. i \in 1..Len(root) /\ root # <<>> /\ (i = Len(root) \/ i \in 1..(Len(root) - 1))
      BY <2>1, <1>7, NoNames
    <3> QED
      BY <3>1, <1>8, <1>9
  <2>2. CASE i > Len(root) /\ i <= Len(d)
    <3>1. i \in (Len(root) + 1)..Len(d)
      BY <2>2, <1>7
    <3> QED
      BY <3>1, <1>10
  <2>3. CASE i > Len(d)
    <3>1. i = Len(p)
      BY <2>3, <1>l
    <3> QED
      BY <3>1, <1>11
  <2> QED
    BY <2>1, <2>2, <2>3, <1>7
<1>13. Head(p) \notin Blocked
  <2>1. CASE Len(root) >= 1
    <3>1. 1 \in 1..Len(root) /\ root # <<>>
      BY <2>1, <1>7, NoNames
    <3> QED
      BY <3>1, <1>6, <1>8, <1>9
  <2>2. CASE Len(root) = 0 /\ Len(d) >= 1
    <3>1. 1 \in (Len(root) + 1)..Len(d)
      BY <2>2, <1>7
    <3> QED
      BY <3>1, <1>6, <1>10
  <2>3. CASE Len(d) = 0
    <3>1. Len(p) = 1
      BY <2>3, <1>l
    <3> QED
      BY <3>1, <1>6, <1>11
  <2> QED
    BY <2>1, <2>2, <2>3, <1>7
<1>14. Visible(p)
  <2>1. \A i \in 1..(Len(p) - 1) : i \in 1..Len(p) /\ i < Len(p)
    BY <1>6
  <2> QED
    BY <2>1, <1>6, <1>12, <1>13 DEF Visible
<1>15. Reachable(p)
  BY <1>3, FoldersAbove DEF Reachable, Upto
<1> QED
  BY <1>1, <1>6, <1>14, <1>15 DEF Readable

\* What is asked for and not refused is a directory that may be asked for, a
\* file that can be read, or nothing.
LEMMA NotRefused ==
    ASSUME TreeOK, NEW root \in Path, ~Refused(root)
    PROVE  /\ Regular(root) => Readable(root)
           /\ ~Regular(root) /\ (Exists(root) \/ root = <<>>) => Listable(root)
<1>1. Visible(root) /\ (Exists(root) => Listable(root) \/ Readable(root)) /\ (Exists(root) => Reachable(root))
  BY DEF Refused
<1>2. CASE root = <<>>
  <2>1. ~Exists(root) /\ Len(root) = 0
    BY <1>2, PathsAre, NoNames DEF Exists
  <2>2. Reachable(root) /\ IsDir(root)
    BY <1>2, <2>1 DEF Reachable, IsDir
  <2> QED
    BY <1>1, <1>2, <2>1, <2>2 DEF Listable, Regular
<1>3. CASE root # <<>>
  BY <1>1, <1>3 DEF Listable, Readable, Regular, IsDir
<1> QED
  BY <1>2, <1>3

\* scan_files returns files that can be read.
LEMMA ScansCanBeRead ==
    ASSUME TreeOK, NEW root \in Path, ~Refused(root), NEW found \in Scans(root), NEW p \in found.paths
    PROVE  Readable(p)
<1>1. CASE Regular(root)
  BY <1>1, NotRefused DEF Scans
<1>2. CASE ~Regular(root)
  <2>1. Exists(root) \/ root = <<>>
    BY <1>2 DEF Scans
  <2>2. p \in FilesBelow(root)
    BY <1>2, <2>1 DEF Scans, Few
  <2> QED
    BY <1>2, <2>1, <2>2, NotRefused, FoundCanBeRead
<1> QED
  BY <1>1, <1>2

\* The name a tool shows is the name the tools accept, the two folders of
\* ShownCanBeRead aside.
LEMMA NamesReturn ==
    ASSUME NEW p \in Path, p # <<>>
    PROVE  \/ WorkspacePath(p) = p
           \/ Head(p) \notin {"workspace", "skills"}
           \/ Len(p) > 1 /\ p[1] = "workspace" /\ p[2] = "skills"
<1>1. Len(p) \in Nat \ {0} /\ Head(p) = p[1] /\ p \in Seq(Names)
  BY FirstAndLast DEF Path
<1>2. CASE Head(p) = "workspace"
  <2>1. /\ Tail(p) \in Seq(Names) /\ Len(Tail(p)) = Len(p) - 1
        /\ Tail(p) # <<>> => Len(p) > 1 /\ Head(Tail(p)) = p[2]
        /\ <<Head(p)>> \o Tail(p) = p
    BY <1>1
  <2>2. AsGiven(p) = Tail(p)
    BY <1>2 DEF AsGiven
  <2> QED
    BY <1>1, <1>2, <2>1, <2>2 DEF WorkspacePath
<1>3. CASE Head(p) = "skills"
  BY <1>3 DEF AsGiven, WorkspacePath
<1> QED
  BY <1>2, <1>3

-----------------------------------------------------------------------------
(* The questions.                                                          *)

FilePathsIInv == TreeOK /\ PathsAreTold

LEMMA FilePathsStart == FilePathsInit => FilePathsIInv
<1> SUFFICES ASSUME FilePathsInit PROVE FilePathsIInv
  OBVIOUS
<1>1. TreeOK
  BY DEF FilePathsInit, TreeOK
<1>2. PathsAreTold
  BY DEF FilePathsInit, PathsAreTold, ShownCanBeRead, ShownFiles, TruncatedOrComplete
<1> QED
  BY <1>1, <1>2 DEF FilePathsIInv

\* What may be asked for is a path, also below the workspace.
LEMMA AskedPaths ==
    ASSUME NEW p \in Asks
    PROVE  p \in Path /\ WorkspacePath(p) \in Path /\ SearchRoot(p) \in Path
<1>1. \A n \in Nodes : n.path \in Path /\ n.path # <<>>
  BY FilePathsAssumption, StringsArePaths
<1>2. \A q \in Path : AsGiven(q) \in Path
  <2>1. \A q \in Path : q # <<>> => Tail(q) \in Path
    BY DEF Path
  <2> QED
    BY <2>1 DEF AsGiven
<1>3. p \in Path
  <2>1. \A b \in BadNames : <<b>> \in Path
    BY FilePathsAssumption, StringsArePaths, OneName DEF Path
  <2>2. <<>> \in Path
    BY DEF Path
  <2> QED
    BY <1>1, <1>2, <2>1, <2>2 DEF Asks
<1>4. WorkspacePath(p) \in Path
  <2>1. \A q \in Path : <<"workspace">> \o q \in Path
    <3>1. "workspace" \in Names
      BY DEF Names
    <3>2. <<"workspace">> \in Seq(Names)
      BY <3>1, OneName
    <3> QED
      BY <3>1, <3>2 DEF Path
  <2> QED
    BY <1>2, <1>3, <2>1 DEF WorkspacePath
<1> QED
  BY <1>3, <1>4 DEF SearchRoot, Path

\* Every file among these can be read.
AllReadable(files) == \A p \in files : Regular(p) => Readable(p)

\* The files a question can be about.
Wanted(tool, root) ==
    {p \in Paths : /\ IsPrefix(root, p) /\ Readable(p)
                   /\ tool = "SearchFile" => Kind(p) # "long"}

\* An answer that does not say truncated has them all.
Complete(tool, root, a) ==
    tool \in {"FindFiles", "SearchFile"} /\ ~a.truncated => Wanted(tool, root) \subseteq a.paths

\* An answer of files that can be read, complete where it says so, tells what
\* it should.
LEMMA GoodAnswer ==
    ASSUME TreeOK, NEW tool, NEW root, NEW a, Answers(tool, root, a),
           AllReadable(a.paths), Complete(tool, root, a)
    PROVE  FilePathsIInv'
<1>1. UNCHANGED tree /\ asked'.tool = tool /\ asked'.path = root /\ answer' = a
  BY DEF Answers
<1>2. TreeOK'
  BY <1>1 DEF TreeOK
<1>3. /\ Paths' = Paths
      /\ \A p : /\ Kind(p)' = Kind(p) /\ Regular(p)' = Regular(p) /\ Readable(p)' = Readable(p)
  BY <1>1 DEF Paths, Kind, Regular, Exists, Readable, Reachable, IsDir
<1>4. ShownCanBeRead'
  <2> SUFFICES ASSUME NEW p \in ShownFiles'
               PROVE  \/ Readable(WorkspacePath(p))' /\ WorkspacePath(p) = p
                      \/ Head(p) \notin {"workspace", "skills"}
                      \/ Len(p) > 1 /\ p[1] = "workspace" /\ p[2] = "skills"
    BY DEF ShownCanBeRead
  <2>1. p \in a.paths /\ Regular(p)
    BY <1>1, <1>3 DEF ShownFiles
  <2>2. Readable(p) /\ p \in Path /\ p # <<>>
    BY <2>1, PathsAre DEF Regular, Exists, AllReadable
  <2> QED
    BY <2>2, <1>3, NamesReturn
<1>5. TruncatedOrComplete'
  BY <1>1, <1>3 DEF TruncatedOrComplete, Complete, Wanted
<1> QED
  BY <1>2, <1>4, <1>5 DEF FilePathsIInv, PathsAreTold

\* What a cut leaves is of what there was, and all of it unless it says so.
LEMMA CutIs ==
    ASSUME NEW files, NEW truncated \in BOOLEAN, NEW limit, NEW a \in Cut(files, truncated, limit)
    PROVE  a.paths \subseteq files /\ (~a.truncated => a.paths = files /\ ~truncated)
BY DEF Cut

LEMMA ListTells ==
    ASSUME TreeOK, NEW p \in Asks, NEW limit, ListDirectory(p, limit)
    PROVE  FilePathsIInv'
<1> DEFINE dir == WorkspacePath(p)
           shown == {e \in Entries(dir) : ~Skipped(e)}
<1>1. dir \in Path /\ ~Refused(dir)
  BY AskedPaths DEF ListDirectory
<1>2. CASE Regular(dir) \/ ~Exists(dir)
  <2>1. Answers("ListDirectory", dir, [paths |-> {dir} \cap Paths, truncated |-> FALSE])
    BY <1>2 DEF ListDirectory
  <2>2. AllReadable({dir} \cap Paths) /\ Complete("ListDirectory", dir, [paths |-> {dir} \cap Paths, truncated |-> FALSE])
    BY <1>1, NotRefused DEF AllReadable, Complete
  <2> HIDE DEF dir
  <2> QED
    BY <2>1, <2>2, GoodAnswer
<1>3. CASE ~(Regular(dir) \/ ~Exists(dir))
  <2>1. PICK seen \in IF Cardinality(Entries(dir)) > ScanEntries
                      THEN Few(shown, ScanEntries) ELSE {shown} :
            \E a \in Cut(seen, Cardinality(Entries(dir)) > ScanEntries, limit) :
               Answers("ListDirectory", dir, a)
    BY <1>3 DEF ListDirectory
  <2>2. PICK a \in Cut(seen, Cardinality(Entries(dir)) > ScanEntries, limit) :
            Answers("ListDirectory", dir, a)
    BY <2>1
  <2>3. seen \subseteq shown
    BY DEF Few
  <2>4. (Cardinality(Entries(dir)) > ScanEntries) \in BOOLEAN
    OBVIOUS
  <2>5. a.paths \subseteq seen
    BY <2>4, CutIs
  <2>6. Listable(dir)
    BY <1>1, <1>3, NotRefused
  <2>7. dir \in Walked(dir)
    <3>1. Len(dir) \in Nat /\ ScanDepth \in Nat /\ Upto(dir, Len(dir)) = dir
      BY <1>1, NoNames, UptoAll, FilePathsAssumption
    <3>2. IsPrefix(dir, dir) /\ Len(dir) <= Len(dir) + ScanDepth /\ (Len(dir) + 1)..Len(dir) = {}
      BY <1>1, <3>1, PrefixIs
    <3> QED
      BY <1>3, <2>6, <3>2 DEF Walked, Listable, Exists
  <2>8. \A q \in shown : Regular(q) => q \in FilesBelow(dir)
    BY <2>7 DEF FilesBelow, WalkedEntries
  <2>9. \A q \in shown : Regular(q) => Readable(q)
    BY <1>1, <2>6, <2>8, FoundCanBeRead
  <2> HIDE DEF dir, shown
  <2>10. AllReadable(a.paths) /\ Complete("ListDirectory", dir, a)
    BY <2>3, <2>5, <2>9 DEF AllReadable, Complete
  <2> QED
    BY <2>2, <2>10, GoodAnswer
<1> QED
  BY <1>2, <1>3

LEMMA ScanSaysSo == ASSUME NEW root, NEW found \in Scans(root) PROVE found.truncated \in BOOLEAN
<1>1. \A s : [paths |-> s, truncated |-> TRUE].truncated = TRUE /\ [paths |-> s, truncated |-> FALSE].truncated = FALSE
  OBVIOUS
<1>2. \E s : found = [paths |-> s, truncated |-> TRUE] \/ found = [paths |-> s, truncated |-> FALSE]
  BY DEF Scans
<1> QED
  BY <1>1, <1>2

LEMMA FindTells ==
    ASSUME TreeOK, NEW p \in Asks, NEW limit, FindFiles(p, limit)
    PROVE  FilePathsIInv'
<1> DEFINE root == SearchRoot(p)
<1>1. root \in Path /\ ~Refused(root)
  BY AskedPaths DEF FindFiles
<1>2. PICK found \in Scans(root) :
         \E a \in Cut(found.paths, found.truncated, limit) : Answers("FindFiles", root, a)
  BY DEF FindFiles
<1>3. PICK a \in Cut(found.paths, found.truncated, limit) : Answers("FindFiles", root, a)
  BY <1>2
<1> HIDE DEF root
<1>4. a.paths \subseteq found.paths /\ (~a.truncated => a.paths = found.paths /\ ~found.truncated)
  BY ScanSaysSo, CutIs
<1>5. \A q \in a.paths : Readable(q)
  BY <1>1, <1>4, ScansCanBeRead
<1>6. ~a.truncated => \A q \in Paths : IsPrefix(root, q) /\ Readable(q) => q \in a.paths
  BY <1>1, <1>4, ScansAll
<1>7. AllReadable(a.paths) /\ Complete("FindFiles", root, a)
  BY <1>5, <1>6 DEF AllReadable, Complete, Wanted
<1> QED
  BY <1>3, <1>7, GoodAnswer

LEMMA SearchTells ==
    ASSUME TreeOK, NEW p \in Asks, NEW limit, SearchFile(p, limit)
    PROVE  FilePathsIInv'
<1> DEFINE root == SearchRoot(p)
<1>1. root \in Path /\ ~Refused(root)
  BY AskedPaths DEF SearchFile
<1>2. PICK found \in Scans(root) :
         \E read \in IF Cardinality(found.paths) > SearchBytes
                     THEN {s \in SUBSET found.paths : Cardinality(s) = SearchBytes}
                     ELSE {found.paths} :
         \E unread \in SUBSET {q \in read : Kind(q) = "long"} :
         \E a \in Cut(read \ unread, found.truncated \/ read # found.paths, limit) :
            Answers("SearchFile", root, a)
  BY DEF SearchFile
<1>3. PICK read \in IF Cardinality(found.paths) > SearchBytes
                     THEN {s \in SUBSET found.paths : Cardinality(s) = SearchBytes}
                     ELSE {found.paths} :
         \E unread \in SUBSET {q \in read : Kind(q) = "long"} :
         \E a \in Cut(read \ unread, found.truncated \/ read # found.paths, limit) :
            Answers("SearchFile", root, a)
  BY <1>2
<1>u. PICK unread \in SUBSET {q \in read : Kind(q) = "long"} :
         \E a \in Cut(read \ unread, found.truncated \/ read # found.paths, limit) :
            Answers("SearchFile", root, a)
  BY <1>3
<1>4. PICK a \in Cut(read \ unread, found.truncated \/ read # found.paths, limit) :
         Answers("SearchFile", root, a)
  BY <1>u
<1> HIDE DEF root
<1>5. read \subseteq found.paths
  OBVIOUS
<1>6. /\ a.paths \subseteq read \ unread
      /\ ~a.truncated => a.paths = read \ unread /\ ~found.truncated /\ read = found.paths
  <2>1. (found.truncated \/ read # found.paths) \in BOOLEAN
    BY ScanSaysSo
  <2> QED
    BY <2>1, CutIs
<1>7. \A q \in a.paths : Readable(q)
  BY <1>1, <1>5, <1>6, ScansCanBeRead
<1>8. ~a.truncated =>
         \A q \in Paths : IsPrefix(root, q) /\ Readable(q) /\ Kind(q) # "long" => q \in a.paths
  BY <1>1, <1>6, ScansAll
<1>9. AllReadable(a.paths) /\ Complete("SearchFile", root, a)
  BY <1>7, <1>8 DEF AllReadable, Complete, Wanted
<1> QED
  BY <1>4, <1>9, GoodAnswer

\* What the file tools tell of the workspace can be used and is all there is,
\* whatever the tree holds and whatever the limits are: a file that is shown
\* can be read under the name it is shown by, and an answer that does not say
\* truncated leaves out no file the tools could read (_toolset.py,
\* _filesystem.py).
THEOREM PathsTold == FilePathsSpec => []PathsAreTold
<1>1. FilePathsInit => FilePathsIInv
  BY FilePathsStart
<1>2. FilePathsIInv /\ [FilePathsNext]_filePathsVars => FilePathsIInv'
  <2> SUFFICES ASSUME FilePathsIInv, [FilePathsNext]_filePathsVars PROVE FilePathsIInv'
    OBVIOUS
  <2>1. TreeOK
    BY DEF FilePathsIInv
  <2>2. ASSUME NEW p \in Asks, NEW limit \in Limits, ListDirectory(p, limit) PROVE FilePathsIInv'
    BY <2>1, <2>2, ListTells
  <2>3. ASSUME NEW p \in Asks, NEW limit \in Limits, FindFiles(p, limit) PROVE FilePathsIInv'
    BY <2>1, <2>3, FindTells
  <2>4. ASSUME NEW p \in Asks, NEW limit \in Limits, SearchFile(p, limit) PROVE FilePathsIInv'
    BY <2>1, <2>4, SearchTells
  <2>5. CASE UNCHANGED filePathsVars
    <3>1. tree' = tree /\ asked' = asked /\ answer' = answer
      BY <2>5 DEF filePathsVars
    <3>2. TreeOK'
      BY <2>1, <3>1 DEF TreeOK
    <3>3. /\ Paths' = Paths
          /\ \A p : /\ Kind(p)' = Kind(p) /\ Regular(p)' = Regular(p) /\ Readable(p)' = Readable(p)
      BY <3>1 DEF Paths, Kind, Regular, Exists, Readable, Reachable, IsDir
    <3>4. ShownCanBeRead' /\ TruncatedOrComplete'
      BY <3>1, <3>3 DEF FilePathsIInv, PathsAreTold, ShownCanBeRead, ShownFiles, TruncatedOrComplete
    <3> QED
      BY <3>2, <3>4 DEF FilePathsIInv, PathsAreTold
  <2> QED
    BY <2>2, <2>3, <2>4, <2>5 DEF FilePathsNext
<1>3. FilePathsIInv => PathsAreTold
  BY DEF FilePathsIInv
<1> QED
  BY <1>1, <1>2, <1>3, PTL DEF FilePathsSpec

-----------------------------------------------------------------------------
(* Observations.                                                           *)

\* s is how t begins.
Begins(s, t) == Len(s) <= Len(t) /\ \A k \in 1..Len(s) : s[k] = t[k]

LEMMA SameItems ==
    ASSUME NEW X, NEW s \in Seq(X), NEW t \in Seq(X), Len(s) = Len(t), \A k \in 1..Len(s) : s[k] = t[k]
    PROVE  s = t
OBVIOUS

LEMMA FirstItems ==
    ASSUME NEW X, NEW s \in Seq(X), NEW m \in 0..Len(s)
    PROVE  /\ SubSeq(s, 1, m) \in Seq(X) /\ Len(SubSeq(s, 1, m)) = m
           /\ \A k \in 1..m : SubSeq(s, 1, m)[k] = s[k]
OBVIOUS

LEMMA BeginsIs ==
    ASSUME NEW X, NEW s \in Seq(X), NEW t \in Seq(X), Begins(s, t)
    PROVE  IsPrefix(s, t) /\ s = SubSeq(t, 1, Len(s))
<1>1. Len(s) \in Nat /\ Len(t) \in Nat /\ Len(s) \in 0..Len(s) /\ Len(s) \in 0..Len(t)
  BY DEF Begins
<1>2. /\ SubSeq(s, 1, Len(s)) \in Seq(X) /\ Len(SubSeq(s, 1, Len(s))) = Len(s)
      /\ \A k \in 1..Len(s) : SubSeq(s, 1, Len(s))[k] = s[k]
  BY <1>1, FirstItems
<1>3. /\ SubSeq(t, 1, Len(s)) \in Seq(X) /\ Len(SubSeq(t, 1, Len(s))) = Len(s)
      /\ \A k \in 1..Len(s) : SubSeq(t, 1, Len(s))[k] = t[k]
  BY <1>1, FirstItems
<1>4. SubSeq(s, 1, Len(s)) = s
  BY <1>2, SameItems
<1>5. SubSeq(t, 1, Len(s)) = s
  BY <1>3, SameItems DEF Begins
<1> QED
  BY <1>4, <1>5 DEF IsPrefix, Begins

\* The loop over the records keeps a list after each one.
LEMMA FittingIs ==
    ASSUME NEW records \in Seq(Observation), NEW tags
    PROVE  LET n == Len(records)
               fits == Fitting(records, tags)
           IN  /\ fits \in [0..n -> Seq(Observation)] /\ fits[0] = <<>>
               /\ \A i \in 1..n :
                     fits[i] = IF Fits(records[i], tags) THEN Append(fits[i - 1], records[i]) ELSE fits[i - 1]
<1> DEFINE n == Len(records)
           D == Seq(Observation)
           G == [i \in 1..n |-> [l \in D |-> IF Fits(records[i], tags) THEN Append(l, records[i]) ELSE l]]
           Step(f, i) == IF i = 0 THEN <<>>
                         ELSE IF Fits(records[i], tags) THEN Append(f[i - 1], records[i]) ELSE f[i - 1]
<1>1. n \in Nat /\ \A i \in 1..n : records[i] \in Observation
  OBVIOUS
<1>2. <<>> \in D /\ \A l \in D : \A o \in Observation : Append(l, o) \in D
  OBVIOUS
<1> HIDE DEF n, D
<1>3. G \in [1..n -> [D -> D]]
  BY <1>1, <1>2
<1>4. \A i \in 1..n : \A l \in D : G[i][l] = IF Fits(records[i], tags) THEN Append(l, records[i]) ELSE l
  OBVIOUS
<1> HIDE DEF G
<1>5. PICK f \in [0..n -> D] : f[0] = <<>> /\ \A i \in 1..n : f[i] = G[i][f[i - 1]]
  <2> DEFINE none == <<>>
  <2>1. none \in D
    BY <1>2
  <2> HIDE DEF none
  <2>2. \E f \in [0..n -> D] : f[0] = none /\ \A i \in 1..n : f[i] = G[i][f[i - 1]]
    <3>1. n \in Nat
      BY <1>1
    <3> HIDE DEF Step
    <3> QED
      BY <3>1, <1>3, <2>1, LoopRuns
  <2> QED
    BY <2>2 DEF none
<1>6. \A i \in 1..n : f[i] = Step(f, i)
  <2> SUFFICES ASSUME NEW i \in 1..n PROVE f[i] = Step(f, i)
    OBVIOUS
  <2>1. i - 1 \in 0..n /\ i # 0
    BY <1>1
  <2>2. f[i - 1] \in D
    BY <1>5, <2>1
  <2> QED
    BY <1>4, <1>5, <2>1, <2>2
<1>7. f = [i \in 0..n |-> Step(f, i)]
  <2>1. \A i \in 0..n : f[i] = Step(f, i)
    <3>1. f[0] = Step(f, 0)
      BY <1>5
    <3>2. \A i \in 0..n : i = 0 \/ i \in 1..n
      BY <1>1
    <3> HIDE DEF Step
    <3> QED
      BY <1>6, <3>1, <3>2
  <2> HIDE DEF Step
  <2> QED
    BY <1>5, <2>1
<1> DEFINE fits == CHOOSE g : g = [i \in 0..n |-> Step(g, i)]
<1>8. fits = [i \in 0..n |-> Step(fits, i)]
  <2> HIDE DEF Step
  <2> QED
    BY <1>7
<1>9. fits = Fitting(records, tags)
  BY DEF Fitting, n
<1> HIDE DEF fits
<1>10. \A i \in 0..n : fits[i] = Step(fits, i)
  <2> HIDE DEF Step
  <2> QED
    BY <1>8
<1>11. fits[0] = <<>> /\ \A i \in 1..n : fits[i] = Step(fits, i) /\ i # 0
  BY <1>1, <1>10
<1>12. \A i \in 0..n : fits[i] \in D
  <2> DEFINE S == {i \in 0..n : fits[i] \in D}
  <2>1. 0 \in S
    BY <1>1, <1>2, <1>11
  <2>2. ASSUME NEW i \in 0..n, i \in S, i < n PROVE i + 1 \in S
    <3>1. i + 1 \in 1..n /\ i + 1 - 1 = i /\ i + 1 \in 0..n
      BY <1>1, <2>2
    <3>2. fits[i + 1] = IF Fits(records[i + 1], tags) THEN Append(fits[i], records[i + 1]) ELSE fits[i]
      BY <1>11, <3>1
    <3>3. fits[i + 1] \in D
      BY <1>1, <1>2, <2>2, <3>1, <3>2
    <3> QED
      BY <3>1, <3>3
  <2>3. 0..n \subseteq S
    <3> HIDE DEF S
    <3> QED
      BY <1>1, <2>1, <2>2, Climbs
  <2> QED
    BY <2>3
<1>13. fits \in [0..n -> D]
  <2> HIDE DEF Step
  <2> QED
    BY <1>8, <1>12
<1> QED
  BY <1>9, <1>11, <1>13 DEF n, D

\* The list only grows, by at most one record at a time.
LEMMA FittingGrows ==
    ASSUME NEW records \in Seq(Observation), NEW tags, NEW i \in 0..Len(records)
    PROVE  LET fits == Fitting(records, tags)
           IN  fits[i] \in Seq(Observation) /\ Len(fits[i]) <= i /\ Begins(fits[i], fits[Len(records)])
<1> DEFINE n == Len(records)
           fits == Fitting(records, tags)
           S == {j \in 0..n : Len(fits[j]) <= j /\ \A k \in 0..j : Begins(fits[k], fits[j])}
<1>1. /\ n \in Nat /\ fits \in [0..n -> Seq(Observation)] /\ fits[0] = <<>>
      /\ \A j \in 1..n :
            fits[j] = IF Fits(records[j], tags) THEN Append(fits[j - 1], records[j]) ELSE fits[j - 1]
      /\ \A j \in 1..n : records[j] \in Observation
  BY FittingIs
<1> HIDE DEF n, fits
<1>2. 0 \in S
  BY <1>1 DEF Begins
<1>3. ASSUME NEW j \in 0..n, j \in S, j < n PROVE j + 1 \in S
  <2>0. j \in Nat /\ n \in Nat /\ j < n
    BY <1>1, <1>3
  <2>1. j + 1 \in 1..n /\ j + 1 - 1 = j /\ j + 1 \in 0..n /\ \A k \in 0..(j + 1) : k \in 0..j \/ k = j + 1
    BY <2>0
  <2>2. fits[j + 1] = fits[j] \/ fits[j + 1] = Append(fits[j], records[j + 1])
    <3>1. fits[j + 1] = IF Fits(records[j + 1], tags) THEN Append(fits[j + 1 - 1], records[j + 1]) ELSE fits[j + 1 - 1]
      BY <1>1, <2>1
    <3> QED
      BY <2>1, <3>1
  <2>3. fits[j] \in Seq(Observation) /\ fits[j + 1] \in Seq(Observation) /\ records[j + 1] \in Observation
    BY <1>1, <2>1
  <2>4. Len(fits[j + 1]) <= Len(fits[j]) + 1 /\ Len(fits[j]) \in Nat /\ Len(fits[j + 1]) \in Nat
    BY <2>2, <2>3
  <2>5. Begins(fits[j], fits[j + 1])
    BY <2>2, <2>3 DEF Begins
  <2>6. ASSUME NEW k \in 0..j PROVE Begins(fits[k], fits[j + 1])
    <3>1. Begins(fits[k], fits[j])
      BY <1>3
    <3>2. fits[k] \in Seq(Observation)
      BY <1>1, <1>3
    <3> QED
      BY <2>3, <2>5, <3>1, <3>2 DEF Begins
  <2>7. Begins(fits[j + 1], fits[j + 1])
    BY <2>3 DEF Begins
  <2>8. Len(fits[j + 1]) <= j + 1
    BY <1>3, <2>4
  <2> QED
    BY <2>1, <2>6, <2>7, <2>8
<1>4. 0..n \subseteq S
  <2> HIDE DEF S
  <2> QED
    BY <1>1, <1>2, <1>3, Climbs
<1>5. i \in S /\ n \in S
  BY <1>1, <1>4 DEF n
<1> QED
  BY <1>1, <1>5 DEF n, fits

\* What the first m records leave is what the loop has after m of them.
LEMMA FittingFirst ==
    ASSUME NEW records \in Seq(Observation), NEW tags, NEW m \in 0..Len(records)
    PROVE  Tagged(SubSeq(records, 1, m), tags) = Fitting(records, tags)[m]
<1> DEFINE n == Len(records)
           first == SubSeq(records, 1, m)
           all == Fitting(records, tags)
           some == Fitting(first, tags)
           S == {j \in 0..m : some[j] = all[j]}
<1>1. n \in Nat /\ m \in 0..n /\ m \in Nat
  OBVIOUS
<1>2. first \in Seq(Observation) /\ Len(first) = m /\ \A k \in 1..m : first[k] = records[k]
  BY FirstItems
<1>3. /\ all[0] = <<>>
      /\ \A j \in 1..n :
            all[j] = IF Fits(records[j], tags) THEN Append(all[j - 1], records[j]) ELSE all[j - 1]
  BY FittingIs
<1> HIDE DEF first
<1>4. /\ some[0] = <<>>
      /\ \A j \in 1..m :
            some[j] = IF Fits(first[j], tags) THEN Append(some[j - 1], first[j]) ELSE some[j - 1]
  BY <1>2, FittingIs
<1> HIDE DEF n, all, some
<1>5. 0 \in S
  BY <1>1, <1>3, <1>4
<1>6. ASSUME NEW j \in 0..m, j \in S, j < m PROVE j + 1 \in S
  <2>1. j + 1 \in 1..m /\ j + 1 \in 1..n /\ j + 1 - 1 = j /\ j + 1 \in 0..m
    BY <1>1, <1>6
  <2>2. some[j + 1] = all[j + 1]
    BY <1>2, <1>3, <1>4, <1>6, <2>1
  <2> QED
    BY <2>1, <2>2
<1>7. 0..m \subseteq S
  <2> HIDE DEF S
  <2> QED
    BY <1>1, <1>5, <1>6, Climbs
<1>8. m \in S
  BY <1>1, <1>7
<1> QED
  BY <1>2, <1>8 DEF Tagged, some, all, first

\* Without tags every record fits.
LEMMA AllFit ==
    ASSUME NEW records \in Seq(Observation)
    PROVE  Tagged(records, {}) = records
<1> DEFINE n == Len(records)
           fits == Fitting(records, {})
           S == {j \in 0..n : Len(fits[j]) = j /\ \A k \in 1..j : fits[j][k] = records[k]}
<1>0. \A o : Fits(o, {})
  BY DEF Fits
<1>1. /\ n \in Nat /\ fits \in [0..n -> Seq(Observation)] /\ fits[0] = <<>>
      /\ \A j \in 1..n : fits[j] = Append(fits[j - 1], records[j])
      /\ \A j \in 1..n : records[j] \in Observation
  <2>1. /\ fits \in [0..n -> Seq(Observation)] /\ fits[0] = <<>>
        /\ \A j \in 1..n :
              fits[j] = IF Fits(records[j], {}) THEN Append(fits[j - 1], records[j]) ELSE fits[j - 1]
    BY FittingIs
  <2>2. n \in Nat /\ \A j \in 1..n : records[j] \in Observation
    OBVIOUS
  <2> HIDE DEF n, fits
  <2> QED
    BY <1>0, <2>1, <2>2
<1> HIDE DEF n, fits
<1>2. 0 \in S
  BY <1>1
<1>3. ASSUME NEW j \in 0..n, j \in S, j < n PROVE j + 1 \in S
  <2>0. j \in Nat /\ n \in Nat /\ j < n
    BY <1>1, <1>3
  <2>1. j + 1 \in 1..n /\ j + 1 - 1 = j /\ j + 1 \in 0..n /\ \A k \in 1..(j + 1) : k \in 1..j \/ k = j + 1
    BY <2>0
  <2>2. fits[j + 1] = Append(fits[j], records[j + 1])
    <3> DEFINE q == j + 1
    <3>0. q \in 1..n
      BY <2>1
    <3> HIDE DEF q
    <3>1. fits[q] = Append(fits[q - 1], records[q])
      BY <1>1, <3>0
    <3> QED
      BY <2>1, <3>1 DEF q
  <2>3. fits[j] \in Seq(Observation) /\ records[j + 1] \in Observation
    BY <1>1, <2>1
  <2>4. Len(fits[j + 1]) = j + 1
    BY <1>3, <2>2, <2>3
  <2>5. fits[j + 1][j + 1] = records[j + 1] /\ \A k \in 1..j : fits[j + 1][k] = fits[j][k]
    BY <1>3, <2>2, <2>3
  <2>6. \A k \in 1..(j + 1) : fits[j + 1][k] = records[k]
    BY <1>3, <2>1, <2>5
  <2> QED
    BY <2>1, <2>4, <2>6
<1>4. n \in S
  <2>1. 0..n \subseteq S
    <3> HIDE DEF S
    <3> QED
      BY <1>1, <1>2, <1>3, Climbs
  <2> QED
    BY <1>1, <2>1
<1>5. fits[n] \in Seq(Observation)
  BY <1>1
<1>6. fits[n] = records
  BY <1>4, <1>5, SameItems DEF n
<1> QED
  BY <1>6 DEF Tagged, n, fits

\* At most so many, from the front.
LEMMA AtMostIs ==
    ASSUME NEW records \in Seq(Observation), NEW limit \in Nat
    PROVE  LET n == IF limit < Len(records) THEN limit ELSE Len(records)
           IN  /\ n \in 0..Len(records) /\ n <= limit /\ AtMost(records, limit) = SubSeq(records, 1, n)
               /\ AtMost(records, limit) \in Seq(Observation) /\ Len(AtMost(records, limit)) = n
               /\ \A k \in 1..n : AtMost(records, limit)[k] = records[k]
               /\ Len(records) <= limit => AtMost(records, limit) = records
<1> DEFINE n == IF limit < Len(records) THEN limit ELSE Len(records)
<1>1. n \in 0..Len(records) /\ n <= limit /\ Len(records) \in Nat
  OBVIOUS
<1>2. AtMost(records, limit) = SubSeq(records, 1, n)
  BY DEF AtMost
<1>3. Len(records) <= limit => n = Len(records)
  OBVIOUS
<1> HIDE DEF n
<1>4. /\ SubSeq(records, 1, n) \in Seq(Observation) /\ Len(SubSeq(records, 1, n)) = n
      /\ \A k \in 1..n : SubSeq(records, 1, n)[k] = records[k]
  BY <1>1, FirstItems
<1>5. Len(records) <= limit => SubSeq(records, 1, n) = records
  BY <1>3, <1>4, SameItems
<1> QED
  BY <1>1, <1>2, <1>4, <1>5 DEF n

\* The table's answer is how the list's answer begins.
LEMMA TableBegins ==
    ASSUME NEW records \in Seq(Observation), NEW limit \in Nat, NEW tags
    PROVE  LET got == Tagged(AtMost(records, limit), tags)
               wanted == AtMost(Tagged(records, tags), limit)
           IN  /\ IsPrefix(got, wanted)
               /\ Len(records) <= limit \/ tags = {} => got = wanted
<1> DEFINE n == Len(records)
           m == IF limit < Len(records) THEN limit ELSE Len(records)
           got == Tagged(AtMost(records, limit), tags)
           all == Tagged(records, tags)
           wanted == AtMost(all, limit)
<1>1. m \in 0..n /\ m <= limit /\ AtMost(records, limit) = SubSeq(records, 1, m) /\ n \in Nat /\ m \in Nat
  BY AtMostIs
<1>2. got = Fitting(records, tags)[m]
  BY <1>1, FittingFirst
<1>3. all = Fitting(records, tags)[n]
  BY DEF Tagged
<1>4. got \in Seq(Observation) /\ Len(got) <= m /\ Begins(got, all)
  BY <1>1, <1>2, <1>3, FittingGrows
<1>5. all \in Seq(Observation) /\ Len(all) <= n
  BY <1>1, <1>3, FittingGrows
<1>6. Len(records) <= limit => got = all /\ Len(all) <= limit
  BY <1>1, <1>2, <1>3, <1>5
<1>7. tags = {} => got = AtMost(records, limit) /\ all = records
  BY AllFit, AtMostIs
<1> HIDE DEF n, m, got, all
<1>8. /\ wanted \in Seq(Observation) /\ Len(wanted) = (IF limit < Len(all) THEN limit ELSE Len(all))
      /\ \A k \in 1..Len(wanted) : wanted[k] = all[k]
      /\ Len(all) <= limit => wanted = all
  BY <1>5, AtMostIs
<1>9. Begins(got, wanted)
  <2>1. Len(got) <= Len(wanted)
    BY <1>1, <1>4, <1>5, <1>8 DEF Begins
  <2>2. \A k \in 1..Len(got) : k \in 1..Len(wanted)
    BY <1>4, <1>8, <2>1
  <2> QED
    BY <1>4, <1>8, <2>1, <2>2 DEF Begins
<1> HIDE DEF wanted
<1>10. IsPrefix(got, wanted)
  BY <1>4, <1>8, <1>9, BeginsIs
<1>11. tags = {} => got = wanted
  BY <1>7 DEF wanted
<1>12. Len(records) <= limit => got = wanted
  BY <1>6, <1>8
<1> QED
  BY <1>10, <1>11, <1>12 DEF got, wanted, all

\* The table keeps all that was ever noted.
LogbookIInv == LogbookTypeOK /\ (logbook = "sqlite" => Len(observations) = noted)

LEMMA RecallsRight == LogbookIInv => ObservationsRecalled
<1> SUFFICES ASSUME LogbookIInv, NEW limit \in 1..MaxObservations, NEW tags \in SUBSET Tags
             PROVE  LET wanted == AtMost(Tagged(observations, tags), limit)
                        got    == GetObservations(limit, tags)
                    IN  /\ IsPrefix(got, wanted)
                        /\ (logbook = "local" \/ tags = {} \/ Len(observations) <= limit) => got = wanted
                        /\ logbook = "sqlite" /\ tags = {} => Len(got) = IF limit < noted THEN limit ELSE noted
  BY DEF ObservationsRecalled
<1> DEFINE wanted == AtMost(Tagged(observations, tags), limit)
           fromTable == Tagged(AtMost(observations, limit), tags)
<1>1. observations \in Seq(Observation) /\ limit \in Nat
  BY LogbookAssumption DEF LogbookIInv, LogbookTypeOK
<1>2. IsPrefix(fromTable, wanted) /\ (Len(observations) <= limit \/ tags = {} => fromTable = wanted)
  BY <1>1, TableBegins
<1>3. CASE logbook = "sqlite"
  <2>1. GetObservations(limit, tags) = fromTable
    BY <1>3 DEF GetObservations, RecalledFromTable
  <2>2. tags = {} => Len(fromTable) = IF limit < noted THEN limit ELSE noted
    <3>1. Len(observations) = noted
      BY <1>3 DEF LogbookIInv
    <3>2. AtMost(observations, limit) \in Seq(Observation)
          /\ Len(AtMost(observations, limit)) = IF limit < noted THEN limit ELSE noted
      BY <1>1, <3>1, AtMostIs
    <3> QED
      BY <3>2, AllFit
  <2> HIDE DEF wanted, fromTable
  <2>3. /\ IsPrefix(fromTable, wanted)
        /\ (logbook = "local" \/ tags = {} \/ Len(observations) <= limit) => fromTable = wanted
    BY <1>2, <1>3
  <2> QED
    BY <2>1, <2>2, <2>3 DEF wanted
<1>4. CASE logbook # "sqlite"
  <2>1. GetObservations(limit, tags) = wanted
    BY <1>4 DEF GetObservations, RecalledLocally
  <2>2. wanted \in Seq(Observation)
    <3>1. Tagged(observations, tags) \in Seq(Observation)
      <4>1. Len(observations) \in 0..Len(observations)
        BY <1>1
      <4> QED
        BY <1>1, <4>1, FittingGrows DEF Tagged
    <3> QED
      BY <1>1, <3>1, AtMostIs
  <2>3. IsPrefix(wanted, wanted)
    <3> HIDE DEF wanted
    <3>1. Begins(wanted, wanted)
      BY <2>2 DEF Begins
    <3> QED
      BY <2>2, <3>1, BeginsIs
  <2> HIDE DEF wanted
  <2> QED
    BY <1>4, <2>1, <2>3 DEF wanted
<1> QED
  BY <1>3, <1>4

LEMMA LogbookKept == LogbookIInv /\ [LogbookNext]_logbookVars => LogbookIInv'
<1> SUFFICES ASSUME LogbookIInv, [LogbookNext]_logbookVars PROVE LogbookIInv'
  OBVIOUS
<1> USE LogbookAssumption
<1>1. ASSUME NEW tags \in SUBSET Tags, WriteObservation(tags) PROVE LogbookIInv'
  <2> DEFINE o == [id |-> noted + 1, tags |-> tags]
  <2>1. noted \in Nat /\ noted' = noted + 1 /\ noted' \in 0..MaxObservations /\ noted' \in 1..MaxObservations
    BY <1>1 DEF WriteObservation, LogbookIInv, LogbookTypeOK
  <2>2. o \in Observation
    BY <2>1 DEF Observation
  <2>3. observations \in Seq(Observation) /\ Len(observations) <= noted
    BY DEF LogbookIInv, LogbookTypeOK
  <2>4. observations' = <<o>> \o observations /\ logbook' = logbook
    BY <1>1 DEF WriteObservation
  <2> HIDE DEF o
  <2>5. observations' \in Seq(Observation) /\ Len(observations') = Len(observations) + 1
    BY <2>2, <2>3, <2>4
  <2> QED
    BY <2>1, <2>3, <2>4, <2>5 DEF LogbookIInv, LogbookTypeOK
<1>2. ASSUME RestartLogbook PROVE LogbookIInv'
  BY <1>2 DEF RestartLogbook, LogbookIInv, LogbookTypeOK
<1>3. CASE UNCHANGED logbookVars
  BY <1>3 DEF logbookVars, LogbookIInv, LogbookTypeOK
<1> QED
  BY <1>1, <1>2, <1>3 DEF LogbookNext

\* What get_observations returns are the newest observations with a tag asked
\* for, as many as asked for, from the list of the local registry; from the
\* table it is how that list begins, and all of it while the table has no more
\* rows than the limit (context/local/_registry.py, context/sqlite/_registry.py).
THEOREM NewestAreRecalled == LogbookSpec => []ObservationsRecalled
<1>1. LogbookInit => LogbookIInv
  BY LogbookAssumption DEF LogbookInit, LogbookIInv, LogbookTypeOK
<1>2. LogbookIInv /\ [LogbookNext]_logbookVars => LogbookIInv'
  BY LogbookKept
<1>3. LogbookIInv => ObservationsRecalled
  BY RecallsRight
<1> QED
  BY <1>1, <1>2, <1>3, PTL DEF LogbookSpec

-----------------------------------------------------------------------------
(* Compaction: tokens.                                                     *)

\* The loop that adds them up.
Sums(sum, messages) ==
    /\ sum \in [0..Len(messages) -> Nat] /\ sum[0] = 0
    /\ \A i, j \in 0..Len(messages) : j = i + 1 => sum[j] = sum[i] + messages[j].size

LEMMA MessagesOf ==
    ASSUME NEW m \in Seq(Messages)
    PROVE  /\ Len(m) \in Nat /\ DOMAIN m = 1..Len(m)
           /\ \A i \in 1..Len(m) : m[i] \in Messages /\ m[i].size \in Nat /\ m[i].size >= 1
<1>1. Len(m) \in Nat /\ DOMAIN m = 1..Len(m) /\ \A i \in 1..Len(m) : m[i] \in Messages
  OBVIOUS
<1>2. \A x \in Messages : x.size \in Nat /\ x.size >= 1
  BY CompactionAssumption DEF Messages
<1> QED
  BY <1>1, <1>2

LEMMA TokensAre ==
    ASSUME NEW m \in Seq(Messages)
    PROVE  \E sum : Sums(sum, m) /\ Tokens(m) = sum[Len(m)]
<1> DEFINE n == Len(m)
           Step(f, i) == IF i = 0 THEN 0 ELSE f[i - 1] + m[i].size
           D == Nat
           none == 0
           G == [i \in 1..n |-> [l \in D |-> l + m[i].size]]
<1>1. n \in Nat /\ \A i \in 1..n : m[i].size \in Nat
  BY MessagesOf
<1> HIDE DEF n
<1>2. G \in [1..n -> [D -> D]] /\ none \in D
  BY <1>1
<1>3. PICK f \in [0..n -> D] : f[0] = none /\ \A i \in 1..n : f[i] = G[i][f[i - 1]]
  <2>1. n \in Nat
    BY <1>1
  <2> HIDE DEF G, D, none
  <2> QED
    BY <1>2, <2>1, LoopRuns
<1>4. \A i \in 1..n : f[i] = f[i - 1] + m[i].size
  <2> SUFFICES ASSUME NEW i \in 1..n PROVE f[i] = f[i - 1] + m[i].size
    OBVIOUS
  <2>1. i - 1 \in 0..n
    BY <1>1
  <2>2. f[i - 1] \in D
    BY <1>3, <2>1
  <2> QED
    BY <1>3, <2>2
<1>5. f = [i \in 0..n |-> Step(f, i)]
  <2>1. \A i \in 0..n : f[i] = Step(f, i)
    BY <1>1, <1>3, <1>4
  <2> HIDE DEF Step
  <2> QED
    BY <1>3, <2>1
<1> DEFINE sum == CHOOSE g : g = [i \in 0..n |-> Step(g, i)]
<1>6. sum = [i \in 0..n |-> Step(sum, i)]
  <2> HIDE DEF Step
  <2> QED
    BY <1>5
<1>7. Tokens(m) = sum[n]
  BY DEF Tokens, n
<1> HIDE DEF sum
<1>8. sum[0] = 0 /\ \A i, j \in 0..n : j = i + 1 => sum[j] = sum[i] + m[j].size
  <2>1. \A i \in 0..n : sum[i] = Step(sum, i)
    <3> HIDE DEF Step
    <3> QED
      BY <1>6
  <2>2. \A i, j \in 0..n : j = i + 1 => i = j - 1 /\ j # 0
    BY <1>1
  <2> QED
    BY <1>1, <2>1, <2>2
<1>9. sum \in [0..n -> Nat]
  <2> DEFINE S == {i \in 0..n : sum[i] \in Nat}
  <2>1. 0 \in S /\ \A i \in 0..n : i \in S /\ i < n => i + 1 \in S
    <3>1. 0 \in S
      BY <1>1, <1>8
    <3>2. ASSUME NEW i \in 0..n, i \in S, i < n PROVE i + 1 \in S
      <4>1. i + 1 \in 1..n
        BY <1>1, <3>2
      <4>2. sum[i + 1] = sum[i] + m[i + 1].size
        BY <1>8, <4>1
      <4> QED
        BY <1>1, <3>2, <4>1, <4>2
    <3> QED
      BY <3>1, <3>2
  <2>2. 0..n \subseteq S
    <3> HIDE DEF S
    <3> QED
      BY <1>1, <2>1, Climbs
  <2>3. DOMAIN sum = 0..n /\ sum = [i \in 0..n |-> sum[i]]
    <3> HIDE DEF Step
    <3> QED
      BY <1>6
  <2> QED
    BY <2>2, <2>3
<1> QED
  BY <1>7, <1>8, <1>9 DEF Sums, n

LEMMA SumsStep ==
    ASSUME NEW m, NEW sum, Sums(sum, m), NEW i \in 0..Len(m), NEW j \in 0..Len(m), j = i + 1
    PROVE  sum[j] = sum[i] + m[j].size /\ sum[i] \in Nat /\ sum[j] \in Nat
BY DEF Sums

LEMMA SuffixIs ==
    ASSUME NEW m \in Seq(Messages), NEW c \in 1..Len(m) + 1
    PROVE  /\ Suffix(m, c) \in Seq(Messages) /\ Len(Suffix(m, c)) = Len(m) - c + 1
           /\ \A k \in 1..Len(m) - c + 1 : Suffix(m, c)[k] = m[c - 1 + k]
<1>1. Len(m) \in Nat
  OBVIOUS
<1>2. \A a, b \in Int : a..b = {x \in Int : a <= x /\ x <= b}
  OBVIOUS
<1>3. Len(SubSeq(m, c, Len(m))) = Len(m) - c + 1
  BY <1>1
<1>4. \A k \in 1..Len(m) - c + 1 : SubSeq(m, c, Len(m))[k] = m[c - 1 + k]
  BY <1>1
<1>5. SubSeq(m, c, Len(m)) \in Seq(Messages)
  BY <1>1
<1> QED
  BY <1>3, <1>4, <1>5 DEF Suffix

\* What is left of a window has no more tokens than the window.
LEMMA SuffixIsLess ==
    ASSUME NEW m \in Seq(Messages), NEW c \in 1..Len(m) + 1
    PROVE  Tokens(Suffix(m, c)) <= Tokens(m) /\ Tokens(m) \in Nat /\ Tokens(Suffix(m, c)) \in Nat
<1> DEFINE s == Suffix(m, c)
<1>1. /\ s \in Seq(Messages) /\ Len(s) = Len(m) - c + 1 /\ Len(s) \in Nat /\ Len(m) \in Nat
      /\ \A k \in 1..Len(s) : s[k] = m[c - 1 + k]
  BY SuffixIs
<1> HIDE DEF s
<1>2. PICK f : Sums(f, m) /\ Tokens(m) = f[Len(m)]
  BY TokensAre
<1>3. PICK h : Sums(h, s) /\ Tokens(s) = h[Len(s)]
  BY <1>1, TokensAre
<1>4. \A k \in 1..Len(m) : m[k].size \in Nat
  BY MessagesOf
<1> DEFINE S == {k \in 0..Len(s) : h[k] <= f[c - 1 + k]}
<1>5. 0 \in S
  <2>1. c - 1 + 0 \in 0..Len(m)
    BY <1>1
  <2>2. f[c - 1 + 0] \in Nat /\ h[0] = 0
    BY <1>2, <1>3, <2>1 DEF Sums
  <2> QED
    BY <1>1, <2>2
<1>6. ASSUME NEW k \in 0..Len(s), k \in S, k < Len(s) PROVE k + 1 \in S
  <2>1. /\ k + 1 \in 1..Len(s) /\ c - 1 + (k + 1) \in 1..Len(m)
        /\ c - 1 + (k + 1) = (c - 1 + k) + 1 /\ c - 1 + k \in 0..Len(m)
    BY <1>1, <1>6
  <2>2. h[k + 1] = h[k] + s[k + 1].size /\ h[k] \in Nat
    <3>1. k + 1 \in 0..Len(s)
      BY <1>1, <2>1
    <3> QED
      BY <1>3, <3>1, SumsStep
  <2>3. f[c - 1 + (k + 1)] = f[c - 1 + k] + m[c - 1 + (k + 1)].size /\ f[c - 1 + k] \in Nat
    <3> DEFINE i == c - 1 + k
               j == c - 1 + (k + 1)
    <3>1. i \in 0..Len(m) /\ j \in 0..Len(m) /\ j = i + 1
      BY <1>1, <2>1
    <3> HIDE DEF i, j
    <3>2. f[j] = f[i] + m[j].size /\ f[i] \in Nat
      BY <1>2, <3>1, SumsStep
    <3> QED
      BY <3>2 DEF i, j
  <2>4. s[k + 1].size = m[c - 1 + (k + 1)].size /\ s[k + 1].size \in Nat
    BY <1>1, <1>4, <2>1
  <2>5. h[k] <= f[c - 1 + k]
    BY <1>6
  <2>6. h[k + 1] <= f[c - 1 + (k + 1)]
    BY <2>2, <2>3, <2>4, <2>5
  <2> QED
    BY <2>1, <2>6
<1>7. Len(s) \in S
  <2> HIDE DEF S
  <2>1. 0..Len(s) \subseteq S
    BY <1>1, <1>5, <1>6, Climbs
  <2> QED
    BY <1>1, <2>1
<1>8. c - 1 + Len(s) = Len(m)
  BY <1>1
<1>9. f[Len(m)] \in Nat /\ h[Len(s)] \in Nat
  <2>1. Len(m) \in 0..Len(m) /\ Len(s) \in 0..Len(s)
    BY <1>1
  <2>2. f \in [0..Len(m) -> Nat] /\ h \in [0..Len(s) -> Nat]
    BY <1>2, <1>3 DEF Sums
  <2> QED
    BY <2>1, <2>2
<1> QED
  BY <1>2, <1>3, <1>7, <1>8, <1>9 DEF s

LEMMA TokensCount ==
    ASSUME NEW m \in Seq(Messages)
    PROVE  Tokens(m) \in Nat /\ Len(m) <= Tokens(m)
<1>1. Len(m) \in Nat /\ \A k \in 1..Len(m) : m[k].size \in Nat /\ m[k].size >= 1
  BY MessagesOf
<1>2. PICK f : Sums(f, m) /\ Tokens(m) = f[Len(m)]
  BY TokensAre
<1> DEFINE S == {k \in 0..Len(m) : k <= f[k]}
<1>3. 0 \in S
  BY <1>1, <1>2 DEF Sums
<1>4. ASSUME NEW k \in 0..Len(m), k \in S, k < Len(m) PROVE k + 1 \in S
  <2>1. k + 1 \in 1..Len(m)
    BY <1>1, <1>4
  <2>2. f[k + 1] = f[k] + m[k + 1].size /\ f[k] \in Nat
    BY <1>2, <2>1 DEF Sums
  <2> QED
    BY <1>1, <1>4, <2>1, <2>2
<1>5. Len(m) \in S
  <2> HIDE DEF S
  <2>1. 0..Len(m) \subseteq S
    BY <1>1, <1>3, <1>4, Climbs
  <2> QED
    BY <1>1, <2>1
<1> QED
  BY <1>1, <1>2, <1>5 DEF Sums

-----------------------------------------------------------------------------
(* Compaction: blocks and cuts.                                            *)

LEMMA BlocksAre ==
    ASSUME NEW m \in Seq(Messages)
    PROVE  /\ Blocks(m) \subseteq 1..Len(m) /\ IsFiniteSet(Blocks(m)) /\ Cardinality(Blocks(m)) <= Len(m)
           /\ \A i : IsFiniteSet(Since(Blocks(m), i)) /\ Cardinality(Since(Blocks(m), i)) \in Nat
           /\ Len(m) >= 1 => 1 \in Blocks(m)
<1>1. Len(m) \in Nat /\ Blocks(m) \subseteq 1..Len(m)
  BY MessagesOf DEF Blocks
<1>2. IsFiniteSet(1..Len(m)) /\ Cardinality(1..Len(m)) = Len(m)
  <2>1. IF 1 > Len(m) THEN Len(m) = 0 ELSE Len(m) - 1 + 1 = Len(m)
    BY <1>1
  <2> QED
    BY <1>1, <2>1, FS_Interval
<1>3. IsFiniteSet(Blocks(m)) /\ Cardinality(Blocks(m)) <= Len(m)
  BY <1>1, <1>2, FS_Subset
<1>4. ASSUME NEW i PROVE IsFiniteSet(Since(Blocks(m), i)) /\ Cardinality(Since(Blocks(m), i)) \in Nat
  <2>1. Since(Blocks(m), i) \in SUBSET Blocks(m)
    BY DEF Since
  <2> QED
    BY <1>3, <2>1, FS_Subset, FS_CardinalityType
<1>5. Len(m) >= 1 => 1 \in Blocks(m)
  <2>1. ~Follows(m, 1)
    BY DEF Follows
  <2>2. Len(m) >= 1 => 1 \in DOMAIN m
    BY MessagesOf
  <2> QED
    BY <2>1, <2>2 DEF Blocks
<1> QED
  BY <1>1, <1>3, <1>4, <1>5

\* Where a window may be cut.
Cuts(m) == Blocks(m) \cup {Len(m) + 1}

LEMMA CutsAre ==
    ASSUME NEW m \in Seq(Messages)
    PROVE  Cuts(m) \subseteq 1..Len(m) + 1 /\ 1 \in Cuts(m) /\ TurnStarts(m) \subseteq Cuts(m)
<1>1. Len(m) \in Nat
  OBVIOUS
<1>2. Len(m) >= 1 \/ Len(m) + 1 = 1
  BY <1>1
<1>3. Blocks(m) \subseteq 1..Len(m) /\ (Len(m) >= 1 => 1 \in Blocks(m))
  BY BlocksAre
<1>4. Cuts(m) \subseteq 1..Len(m) + 1
  BY <1>1, <1>3 DEF Cuts
<1>5. 1 \in Cuts(m)
  BY <1>2, <1>3 DEF Cuts
<1> QED
  BY <1>4, <1>5 DEF Cuts, TurnStarts

\* A cut never parts a message from the one that opens its block.
LEMMA FollowsAfter ==
    ASSUME NEW m \in Seq(Messages), NEW c \in Cuts(m), NEW j \in 1..Len(m), m[j].kind = "call", j < c,
           NEW i \in 1..Len(m), c <= i
    PROVE  ~\A k \in (j + 1)..i : m[k].kind = "result" /\ m[k].calls \subseteq m[j].calls
<1> SUFFICES ASSUME \A k \in (j + 1)..i : m[k].kind = "result" /\ m[k].calls \subseteq m[j].calls
             PROVE  FALSE
  OBVIOUS
<1>1. Len(m) \in Nat /\ DOMAIN m = 1..Len(m)
  OBVIOUS
<1>2. c \in Nat /\ c # Len(m) + 1
  BY <1>1, CutsAre
<1>3. ~Follows(m, c)
  BY <1>2 DEF Cuts, Blocks
<1>4. j \in 1..(c - 1) /\ \A k \in (j + 1)..c : k \in (j + 1)..i
  BY <1>1, <1>2
<1> QED
  BY <1>3, <1>4 DEF Follows

LEMMA SuffixBlocks ==
    ASSUME NEW m \in Seq(Messages), NEW c \in Cuts(m)
    PROVE  /\ \A k \in Blocks(Suffix(m, c)) : c - 1 + k \in Blocks(m)
           /\ Cardinality(Blocks(Suffix(m, c))) <= Cardinality(Since(Blocks(m), c))
<1> DEFINE s == Suffix(m, c)
<1>1. /\ c \in 1..Len(m) + 1 /\ Len(m) \in Nat /\ DOMAIN m = 1..Len(m)
  BY CutsAre
<1>2. /\ s \in Seq(Messages) /\ Len(s) = Len(m) - c + 1 /\ DOMAIN s = 1..Len(s) /\ Len(s) \in Nat
      /\ \A k \in 1..Len(s) : s[k] = m[c - 1 + k]
  BY <1>1, SuffixIs
<1> HIDE DEF s
<1>3. ASSUME NEW k \in Blocks(s) PROVE c - 1 + k \in Blocks(m) /\ c - 1 + k >= c /\ k \in Nat
  <2>1. k \in 1..Len(s) /\ ~Follows(s, k)
    BY <1>2 DEF Blocks
  <2>2. c - 1 + k \in 1..Len(m) /\ c <= c - 1 + k
    BY <1>1, <1>2, <2>1
  <2>3. ASSUME Follows(m, c - 1 + k) PROVE FALSE
    <3> DEFINE p == c - 1 + k
    <3>p. p \in 1..Len(m) /\ c <= p /\ Follows(m, p) /\ p = c - 1 + k
      BY <2>2, <2>3
    <3> HIDE DEF p
    <3>1. PICK j \in 1..(p - 1) :
             /\ m[j].kind = "call"
             /\ \A x \in (j + 1)..p : m[x].kind = "result" /\ m[x].calls \subseteq m[j].calls
      BY <3>p DEF Follows
    <3>2. j \in 1..Len(m)
      BY <1>1, <3>p
    <3>3. ~(j < c)
      BY <3>p, <3>1, <3>2, FollowsAfter
    <3> DEFINE i == j - c + 1
    <3>4. i \in 1..(k - 1) /\ i \in 1..Len(s) /\ c - 1 + i = j
      BY <1>1, <1>2, <2>1, <3>p, <3>2, <3>3
    <3> HIDE DEF i
    <3>5. s[i] = m[j]
      BY <1>2, <3>4
    <3>6. ASSUME NEW x \in (i + 1)..k PROVE s[x].kind = "result" /\ s[x].calls \subseteq s[i].calls
      <4> DEFINE y == c - 1 + x
      <4>1. x \in 1..Len(s) /\ y \in (j + 1)..p
        BY <1>1, <1>2, <2>1, <3>p, <3>4
      <4>2. s[x] = m[y]
        BY <1>2, <4>1
      <4> HIDE DEF y
      <4> QED
        BY <3>1, <3>5, <4>1, <4>2
    <3> QED
      BY <2>1, <3>1, <3>4, <3>5, <3>6 DEF Follows
  <2> QED
    BY <1>1, <2>1, <2>2, <2>3 DEF Blocks
<1>4. Cardinality(Blocks(s)) <= Cardinality(Since(Blocks(m), c))
  <2> DEFINE T == Since(Blocks(m), c)
             f == [k \in Blocks(s) |-> c - 1 + k]
  <2>1. \A k \in Blocks(s) : c - 1 + k \in T /\ k \in Nat
    BY <1>3 DEF Since
  <2>2. \A k, l \in Blocks(s) : c - 1 + k = c - 1 + l => k = l
    BY <1>1, <2>1
  <2> HIDE DEF T
  <2>3. f \in Injection(Blocks(s), T)
    BY <2>1, <2>2 DEF Injection, IsInjective
  <2>4. IsFiniteSet(T)
    BY BlocksAre DEF T
  <2> HIDE DEF f
  <2> QED
    BY <2>3, <2>4, FS_Injection DEF T
<1> QED
  BY <1>3, <1>4 DEF s

\* Of a set of places, some first one.
LEMMA MinIs ==
    ASSUME NEW S \in SUBSET Nat, S # {}
    PROVE  Min(S) \in S /\ \A j \in S : Min(S) <= j
BY LeastOf DEF Min

LEMMA SuffixOfSuffix ==
    ASSUME NEW m \in Seq(Messages), NEW c \in 1..Len(m) + 1, NEW e \in 1..Len(m) - c + 2
    PROVE  Suffix(m, c - 1 + e) = Suffix(Suffix(m, c), e) /\ c - 1 + e \in 1..Len(m) + 1
<1> DEFINE s == Suffix(m, c)
           d == c - 1 + e
           a == Suffix(m, d)
           b == Suffix(s, e)
<1>1. /\ s \in Seq(Messages) /\ Len(s) = Len(m) - c + 1 /\ \A k \in 1..Len(s) : s[k] = m[c - 1 + k]
  BY SuffixIs
<1> HIDE DEF s
<1>2. Len(m) \in Nat /\ Len(s) \in Nat
  BY <1>1
<1>3. d \in 1..Len(m) + 1 /\ e \in 1..Len(s) + 1 /\ Len(s) - e + 1 = Len(m) - d + 1
  BY <1>1, <1>2
<1>4. a \in Seq(Messages) /\ Len(a) = Len(m) - d + 1 /\ \A k \in 1..Len(m) - d + 1 : a[k] = m[d - 1 + k]
  <2> HIDE DEF d
  <2> QED
    BY <1>3, SuffixIs
<1>5. b \in Seq(Messages) /\ Len(b) = Len(s) - e + 1 /\ \A k \in 1..Len(s) - e + 1 : b[k] = s[e - 1 + k]
  BY <1>1, <1>3, SuffixIs
<1> HIDE DEF a, b
<1>6. ASSUME NEW k \in 1..Len(a) PROVE a[k] = b[k]
  <2>1. e - 1 + k \in 1..Len(s) /\ c - 1 + (e - 1 + k) = d - 1 + k
    <3>1. k \in 1..Len(s) - e + 1
      BY <1>3, <1>4
    <3> QED
      BY <1>2, <1>3, <3>1
  <2>2. s[e - 1 + k] = m[c - 1 + (e - 1 + k)]
    BY <1>1, <2>1
  <2>3. k \in 1..Len(m) - d + 1 /\ k \in 1..Len(s) - e + 1
    BY <1>3, <1>4
  <2>4. a[k] = m[d - 1 + k]
    BY <1>4, <2>3
  <2>5. b[k] = s[e - 1 + k]
    BY <1>5, <2>3
  <2> QED
    BY <2>1, <2>2, <2>4, <2>5
<1>7. a = b
  <2>1. Len(a) = Len(b)
    BY <1>3, <1>4, <1>5
  <2> QED
    BY <1>4, <1>5, <1>6, <2>1
<1> QED
  BY <1>3, <1>7 DEF a, b, s

\* A window that begins later has fewer tokens and fewer blocks.
LEMMA LaterIsLess ==
    ASSUME NEW m \in Seq(Messages), NEW c \in Cuts(m), NEW d \in Cuts(m), c <= d
    PROVE  /\ Tokens(Suffix(m, d)) <= Tokens(Suffix(m, c))
           /\ Tokens(Suffix(m, d)) \in Nat /\ Tokens(Suffix(m, c)) \in Nat
           /\ Cardinality(Since(Blocks(m), d)) <= Cardinality(Since(Blocks(m), c))
<1>1. c \in 1..Len(m) + 1 /\ d \in 1..Len(m) + 1 /\ Len(m) \in Nat
  BY CutsAre
<1> DEFINE s == Suffix(m, c)
           e == d - c + 1
<1>2. s \in Seq(Messages) /\ Len(s) = Len(m) - c + 1
  BY <1>1, SuffixIs
<1> HIDE DEF s
<1>3. e \in 1..Len(m) - c + 2 /\ e \in 1..Len(s) + 1 /\ c - 1 + e = d
  BY <1>1, <1>2
<1> HIDE DEF e
<1>4. Suffix(m, d) = Suffix(s, e)
  BY <1>1, <1>3, SuffixOfSuffix DEF s
<1>5. Tokens(Suffix(s, e)) <= Tokens(s) /\ Tokens(s) \in Nat /\ Tokens(Suffix(s, e)) \in Nat
  BY <1>2, <1>3, SuffixIsLess
<1>6. Since(Blocks(m), d) \in SUBSET Since(Blocks(m), c)
  <2>1. \A x \in Blocks(m) : x \in Nat
    BY <1>1, BlocksAre
  <2> QED
    BY <1>1, <2>1 DEF Since
<1>7. Cardinality(Since(Blocks(m), d)) <= Cardinality(Since(Blocks(m), c))
  BY <1>6, BlocksAre, FS_Subset
<1> QED
  BY <1>4, <1>5, <1>7 DEF s

\* What is kept fits, or is MinKeep blocks.
FitsIn(m, budget) == Cardinality(Blocks(m)) <= MinKeep \/ Tokens(m) <= budget

LEMMA RecentIs ==
    ASSUME NEW m \in Seq(Messages), NEW budget \in Nat
    PROVE  /\ Recent(m, budget) \in Cuts(m)
           /\ \/ Cardinality(Since(Blocks(m), Recent(m, budget))) <= MinKeep
              \/ Tokens(Suffix(m, Recent(m, budget))) <= budget
<1> DEFINE S == {i \in Blocks(m) \cup {Len(m) + 1} :
                   \/ Cardinality(Since(Blocks(m), i)) <= MinKeep
                   \/ Tokens(Suffix(m, i)) <= budget}
<1>1. Len(m) \in Nat /\ MinKeep \in Nat
  BY CompactionAssumption
<1>2. S \in SUBSET Nat
  BY <1>1, CutsAre DEF Cuts
<1>3. Len(m) + 1 \in S
  <2>1. Since(Blocks(m), Len(m) + 1) = {}
    BY <1>1, BlocksAre DEF Since
  <2>2. Cardinality(Since(Blocks(m), Len(m) + 1)) = 0
    BY <2>1, FS_EmptySet
  <2> QED
    BY <1>1, <2>2
<1>4. Recent(m, budget) = Min(S)
  BY DEF Recent
<1>5. Min(S) \in S
  <2> HIDE DEF S
  <2> QED
    BY <1>2, <1>3, MinIs
<1> QED
  BY <1>4, <1>5 DEF Cuts

\* What a compaction leaves, at a cut: few blocks or few tokens, but for a
\* sliding window without a budget.
LEMMA SummaryCutIs ==
    ASSUME NEW m \in Seq(Messages), history \in Nat
    PROVE  LET c == SummaryCut(m)
           IN  c \in Cuts(m) /\ FitsIn(Suffix(m, c), Budget)
<1> DEFINE room == IF Budget > 1 THEN Budget - 1 ELSE 1
           cut == Recent(m, room)
           later == Since(TurnStarts(m), cut)
           c == SummaryCut(m)
<1>1. Budget \in Nat /\ MinKeep \in Nat /\ MinKeep >= 1 /\ Len(m) \in Nat
  BY CompactionAssumption DEF Budget
<1>2. room \in Nat /\ (room <= Budget \/ room = 1)
  BY <1>1
<1>3. c = IF later # {} /\ Cardinality(Since(Blocks(m), Min(later))) >= MinKeep THEN Min(later) ELSE cut
  BY DEF SummaryCut
<1> HIDE DEF room, c
<1>4. cut \in Cuts(m) /\ (Cardinality(Since(Blocks(m), cut)) <= MinKeep \/ Tokens(Suffix(m, cut)) <= room)
  BY <1>2, RecentIs
<1>5. c \in Cuts(m) /\ cut <= c
  <2>1. CASE later # {}
    <3>1. later \in SUBSET Nat /\ later \subseteq Cuts(m) /\ \A x \in later : x >= cut
      BY <1>1, CutsAre DEF Since
    <3>2. Min(later) \in later
      <4> HIDE DEF later
      <4> QED
        BY <2>1, <3>1, MinIs
    <3>3. cut \in Nat /\ Min(later) \in Nat /\ Min(later) >= cut /\ Min(later) \in Cuts(m)
      <4>1. cut \in Nat
        BY <1>1, <1>4, CutsAre
      <4> HIDE DEF later
      <4> QED
        BY <3>1, <3>2, <4>1
    <3> HIDE DEF later
    <3> QED
      BY <1>3, <1>4, <3>3
  <2>2. CASE later = {}
    <3>1. cut \in Nat
      BY <1>1, <1>4, CutsAre
    <3> HIDE DEF later
    <3> QED
      BY <1>3, <1>4, <2>2, <3>1
  <2> QED
    BY <2>1, <2>2
<1> HIDE DEF cut
<1> DEFINE s == Suffix(m, c)
<1>6. /\ Tokens(s) <= Tokens(Suffix(m, cut)) /\ Tokens(s) \in Nat /\ Tokens(Suffix(m, cut)) \in Nat
      /\ Cardinality(Since(Blocks(m), c)) <= Cardinality(Since(Blocks(m), cut))
      /\ Cardinality(Since(Blocks(m), c)) \in Nat /\ Cardinality(Since(Blocks(m), cut)) \in Nat
  BY <1>4, <1>5, LaterIsLess, BlocksAre
<1>7. Cardinality(Blocks(s)) <= Cardinality(Since(Blocks(m), c))
  BY <1>5, SuffixBlocks
<1>8. s \in Seq(Messages) /\ Len(s) \in Nat
  <2>1. c \in 1..Len(m) + 1
    BY <1>5, CutsAre
  <2>2. s \in Seq(Messages)
    BY <2>1, SuffixIs
  <2> HIDE DEF s
  <2> QED
    BY <2>2
<1>9. /\ Cardinality(Blocks(s)) <= Len(s) /\ Len(s) <= Tokens(s) /\ IsFiniteSet(Blocks(s))
      /\ Cardinality(Blocks(s)) \in Nat
  <2> HIDE DEF s
  <2> QED
    BY <1>8, BlocksAre, TokensCount, FS_CardinalityType
<1>10. Cardinality(Blocks(s)) <= MinKeep \/ Tokens(s) <= Budget
  <2> DEFINE blocks == Cardinality(Blocks(s))
             since == Cardinality(Since(Blocks(m), c))
             recent == Cardinality(Since(Blocks(m), cut))
             tokens == Tokens(s)
             more == Tokens(Suffix(m, cut))
             n == Len(s)
  <2>1. /\ blocks \in Nat /\ since \in Nat /\ recent \in Nat /\ tokens \in Nat /\ more \in Nat /\ n \in Nat
        /\ blocks <= since /\ since <= recent /\ blocks <= n /\ n <= tokens /\ tokens <= more
        /\ (recent <= MinKeep \/ more <= room)
    BY <1>4, <1>6, <1>7, <1>8, <1>9
  <2> HIDE DEF blocks, since, recent, tokens, more, n
  <2>2. blocks <= MinKeep \/ tokens <= Budget
    BY <1>1, <1>2, <2>1
  <2> QED
    BY <2>2 DEF blocks, tokens
<1> QED
  BY <1>5, <1>10 DEF FitsIn, c

LEMMA WindowCutIs ==
    ASSUME NEW m \in Seq(Messages), history \in Nat
    PROVE  LET c == WindowCut(m)
           IN  c \in Cuts(m) /\ (FitsIn(Suffix(m, c), Budget) \/ Budget = 0)
<1> DEFINE turns == TurnStarts(m)
           few == {i \in turns : Cardinality(Since(turns, i)) <= MaxTurns}
           start == IF Cardinality(turns) > MaxTurns THEN Min(few) ELSE 1
           kept == Suffix(m, start)
           r == Recent(kept, Budget)
           c == WindowCut(m)
<1>1. Budget \in Nat /\ MinKeep \in Nat /\ Len(m) \in Nat /\ MaxTurns \in Nat /\ MaxTurns >= 1
  BY CompactionAssumption DEF Budget
<1>2. c = IF Budget > 0 /\ Tokens(kept) > Budget THEN start - 1 + r ELSE start
  BY DEF WindowCut
<1> HIDE DEF c
<1>3. turns \subseteq 1..Len(m) /\ turns \subseteq Cuts(m) /\ IsFiniteSet(turns)
  <2>1. turns \in SUBSET Blocks(m)
    BY DEF TurnStarts
  <2> QED
    BY <2>1, BlocksAre, CutsAre, FS_Subset
<1>4. start \in Cuts(m)
  <2>1. CASE Cardinality(turns) > MaxTurns
    <3>1. turns # {}
      <4>1. turns = {} => Cardinality(turns) = 0
        <5> HIDE DEF turns
        <5> QED
          BY FS_EmptySet
      <4> HIDE DEF turns
      <4> QED
        BY <1>1, <2>1, <4>1
    <3> HIDE DEF turns
    <3>2. turns \in SUBSET (0..Len(m))
      BY <1>1, <1>3
    <3>3. PICK last \in turns : \A i \in turns : i <= last
      BY <1>1, <3>1, <3>2, GreatestOf
    <3>4. Since(turns, last) = {last}
      <4>1. \A i \in turns : i \in Nat
        BY <3>2
      <4>2. \A i \in turns : i >= last => i = last
        BY <3>3, <4>1
      <4>3. last >= last
        BY <4>1
      <4> QED
        BY <4>2, <4>3 DEF Since
    <3>5. Cardinality(Since(turns, last)) = 1
      <4>1. Cardinality({last}) = 1
        BY FS_Singleton
      <4> QED
        BY <3>4, <4>1
    <3>6. last \in few /\ few \in SUBSET Nat
      <4>1. Cardinality(Since(turns, last)) <= MaxTurns
        BY <1>1, <3>5
      <4>2. few \in SUBSET turns /\ turns \in SUBSET Nat
        BY <1>3
      <4> QED
        BY <4>1, <4>2
    <3>7. Min(few) \in few
      <4> HIDE DEF few
      <4> QED
        BY <3>6, MinIs
    <3> QED
      BY <1>3, <2>1, <3>7
  <2>2. CASE ~(Cardinality(turns) > MaxTurns)
    BY <2>2, CutsAre
  <2> QED
    BY <2>1, <2>2
<1> HIDE DEF start
<1>5. start \in 1..Len(m) + 1
  BY <1>4, CutsAre
<1>6. kept \in Seq(Messages) /\ Len(kept) = Len(m) - start + 1
  BY <1>5, SuffixIs
<1>7. CASE ~(Budget > 0 /\ Tokens(kept) > Budget)
  <2>1. Tokens(kept) \in Nat
    <3> HIDE DEF kept
    <3> QED
      BY <1>6, TokensCount
  <2>2. c = start
    BY <1>2, <1>7
  <2>3. Budget = 0 \/ Tokens(kept) <= Budget
    BY <1>1, <1>7, <2>1
  <2> QED
    BY <1>4, <2>2, <2>3 DEF FitsIn, c
<1>8. CASE Budget > 0 /\ Tokens(kept) > Budget
  <2>1. /\ r \in Cuts(kept)
        /\ Cardinality(Since(Blocks(kept), r)) <= MinKeep \/ Tokens(Suffix(kept, r)) <= Budget
    <3> HIDE DEF kept
    <3> QED
      BY <1>1, <1>6, RecentIs
  <2>2. c = start - 1 + r
    BY <1>2, <1>8
  <2> HIDE DEF r
  <2>3. r \in 1..Len(kept) + 1
    <3> HIDE DEF kept
    <3> QED
      BY <1>6, <2>1, CutsAre
  <2>4. Suffix(m, c) = Suffix(kept, r)
    <3>1. r \in 1..Len(m) - start + 2
      BY <1>1, <1>5, <1>6, <2>3
    <3> QED
      BY <1>5, <2>2, <3>1, SuffixOfSuffix
  <2>5. c \in Cuts(m)
    <3>1. CASE r \in Blocks(kept)
      <4>1. start - 1 + r \in Blocks(m)
        BY <1>4, <3>1, SuffixBlocks
      <4> QED
        BY <2>2, <4>1 DEF Cuts
    <3>2. CASE r = Len(kept) + 1
      <4>1. c = Len(m) + 1
        BY <1>1, <1>5, <1>6, <2>2, <3>2
      <4> QED
        BY <4>1 DEF Cuts
    <3> QED
      BY <2>1, <3>1, <3>2 DEF Cuts
  <2>6. FitsIn(Suffix(kept, r), Budget)
    <3> HIDE DEF kept
    <3>1. Cardinality(Blocks(Suffix(kept, r))) <= Cardinality(Since(Blocks(kept), r))
      BY <1>6, <2>1, SuffixBlocks
    <3>2. Cardinality(Since(Blocks(kept), r)) \in Nat
      BY <1>6, BlocksAre
    <3>3. Cardinality(Blocks(Suffix(kept, r))) \in Nat
      <4>1. Suffix(kept, r) \in Seq(Messages)
        BY <1>6, <2>3, SuffixIs
      <4> QED
        BY <4>1, BlocksAre, FS_CardinalityType
    <3> QED
      BY <1>1, <2>1, <3>1, <3>2, <3>3 DEF FitsIn
  <2> QED
    BY <2>4, <2>5, <2>6 DEF c
<1> QED
  BY <1>7, <1>8

-----------------------------------------------------------------------------
(* Compaction: pruning.                                                    *)

\* A window without the messages before a cut and some of the harness's.
Part(s, m, c, g) ==
    /\ g \in [1..Len(s) -> c..Len(m)]
    /\ \A k, l \in 1..Len(s) : k < l => g[k] < g[l]
    /\ \A i \in c..Len(m) : m[i].kind # "harness" => \E k \in 1..Len(s) : g[k] = i
    /\ \A k \in 1..Len(s) :
          s[k].id = m[g[k]].id /\ s[k].kind = m[g[k]].kind /\ s[k].calls = m[g[k]].calls

\* What a message is after the pruning.
Spared(i) == IF Old(i) THEN Shrink(window[i]) ELSE window[i]

LEMMA SparedIs ==
    ASSUME window \in Seq(Messages), NEW i \in 1..Len(window)
    PROVE  /\ Spared(i) \in Messages
           /\ Spared(i).id = window[i].id /\ Spared(i).kind = window[i].kind
           /\ Spared(i).calls = window[i].calls
<1>1. window[i] \in Messages
  BY MessagesOf
<1>2. 1 \in 1..BigResult
  BY CompactionAssumption
<1>3. ASSUME NEW m \in Messages
      PROVE  Shrink(m) \in Messages /\ Shrink(m).id = m.id /\ Shrink(m).kind = m.kind /\ Shrink(m).calls = m.calls
  BY <1>2 DEF Shrink, Messages
<1> QED
  BY <1>1, <1>3 DEF Spared

LEMMA PrunedIs ==
    ASSUME window \in Seq(Messages)
    PROVE  Pruned \in Seq(Messages) /\ \E g : Part(Pruned, window, 1, g)
<1> DEFINE n == Len(window)
           Next1(l, i) == IF Goes(i) THEN l ELSE Append(l, Spared(i))
           Step(f, i) == IF i = 0 THEN <<>> ELSE Next1(f[i - 1], i)
           D == Seq(Messages)
           none == <<>>
           G == [i \in 1..n |-> [l \in D |-> Next1(l, i)]]
<1>1. n \in Nat /\ \A i \in 1..n : Spared(i) \in Messages
  BY SparedIs
<1> HIDE DEF n
<1>2. G \in [1..n -> [D -> D]] /\ none \in D
  BY <1>1
<1>3. PICK f \in [0..n -> D] : f[0] = none /\ \A i \in 1..n : f[i] = G[i][f[i - 1]]
  <2>1. n \in Nat
    BY <1>1
  <2> HIDE DEF G, D, none
  <2> QED
    BY <1>2, <2>1, LoopRuns
<1>4. \A i \in 1..n : f[i] = Next1(f[i - 1], i)
  <2> SUFFICES ASSUME NEW i \in 1..n PROVE f[i] = Next1(f[i - 1], i)
    OBVIOUS
  <2>1. i - 1 \in 0..n
    BY <1>1
  <2>2. f[i - 1] \in D
    BY <1>3, <2>1
  <2> HIDE DEF D, Next1
  <2> QED
    BY <1>3, <2>2
<1>5. f = [i \in 0..n |-> Step(f, i)]
  <2>1. \A i \in 0..n : f[i] = Step(f, i)
    <3> HIDE DEF Next1
    <3> QED
      BY <1>1, <1>3, <1>4
  <2> HIDE DEF Step
  <2> QED
    BY <1>3, <2>1
<1> DEFINE kept == CHOOSE h : h = [i \in 0..n |-> Step(h, i)]
<1>6. kept = [i \in 0..n |-> Step(kept, i)]
  <2> HIDE DEF Step
  <2> QED
    BY <1>5
<1>7. Pruned = kept[n]
  BY DEF Pruned, n, Spared
<1> HIDE DEF kept
<1>8. kept[0] = <<>> /\ \A i, j \in 0..n : j = i + 1 => kept[j] = Next1(kept[i], j)
  <2>1. \A i \in 0..n : kept[i] = Step(kept, i)
    <3> HIDE DEF Step
    <3> QED
      BY <1>6
  <2>2. \A i, j \in 0..n : j = i + 1 => i = j - 1 /\ j # 0
    BY <1>1
  <2> HIDE DEF Next1
  <2> QED
    BY <1>1, <2>1, <2>2
\* So far: what the first i messages came to.
<1> DEFINE Sofar(s, i, g) ==
             /\ g \in [1..Len(s) -> 1..i]
             /\ \A k, l \in 1..Len(s) : k < l => g[k] < g[l]
             /\ \A j \in 1..i : ~Goes(j) => \E k \in 1..Len(s) : g[k] = j
             /\ \A k \in 1..Len(s) : s[k] = Spared(g[k])
           S == {i \in 0..n : kept[i] \in Seq(Messages) /\ \E g : Sofar(kept[i], i, g)}
<1>9. 0 \in S
  <2> DEFINE g == [k \in 1..0 |-> 0]
  <2>1. kept[0] \in Seq(Messages) /\ Len(kept[0]) = 0
    BY <1>8
  <2>2. Sofar(kept[0], 0, g)
    BY <2>1
  <2> HIDE DEF Sofar, g
  <2> QED
    BY <1>1, <2>1, <2>2
<1>10. ASSUME NEW i \in 0..n, i \in S, i < n PROVE i + 1 \in S
  <2> DEFINE j == i + 1
             s == kept[i]
             t == kept[j]
  <2>1. j \in 0..n /\ j \in 1..n /\ j = i + 1 /\ i \in Nat
    BY <1>1, <1>10
  <2>2. t = Next1(s, j)
    <3> HIDE DEF j, Next1
    <3> QED
      BY <1>8, <2>1
  <2>3. PICK g : Sofar(s, i, g)
    BY <1>10
  <2>4. s \in Seq(Messages) /\ Len(s) \in Nat
    BY <1>10
  <2> HIDE DEF j, s, t
  <2>5. CASE Goes(j)
    <3>1. t = s
      BY <2>2, <2>5
    <3>2. Sofar(s, j, g)
      <4>1. 1..i \subseteq 1..j /\ \A x \in 1..j : x \in 1..i \/ x = j
        BY <2>1
      <4>2. g \in [1..Len(s) -> 1..j]
        BY <2>3, <4>1
      <4> QED
        BY <2>3, <2>5, <4>1, <4>2
    <3> HIDE DEF Sofar
    <3> QED
      BY <2>1, <2>4, <3>1, <3>2 DEF t, j
  <2>6. CASE ~Goes(j)
    <3> DEFINE e == Spared(j)
               p == Len(s) + 1
               h == [k \in 1..p |-> IF k = p THEN j ELSE g[k]]
    <3>1. t = Append(s, e) /\ e \in Messages
      BY <1>1, <2>1, <2>2, <2>6
    <3> HIDE DEF e
    <3>2. t \in Seq(Messages) /\ Len(t) = p /\ t[p] = e /\ \A k \in 1..Len(s) : t[k] = s[k]
      BY <2>4, <3>1
    <3>3. p \in 1..p /\ \A k \in 1..p : k = p \/ (k \in 1..Len(s) /\ k # p /\ k < p)
      BY <2>4
    <3>4. \A k \in 1..Len(s) : k \in 1..p /\ k # p
      BY <2>4
    <3>p. \A k, l \in 1..p : k < l => k # p
      BY <2>4
    <3> HIDE DEF p
    <3>5. h[p] = j /\ \A k \in 1..Len(s) : h[k] = g[k] /\ g[k] \in 1..i
      <4>1. g \in [1..Len(s) -> 1..i]
        BY <2>3
      <4> QED
        BY <3>3, <3>4, <4>1
    <3>6. \A x \in 1..i : x \in 1..j /\ x < j
      BY <2>1
    <3>7. j \in 1..j
      BY <2>1
    <3>8. h \in [1..p -> 1..j]
      <4>1. \A k \in 1..p : h[k] \in 1..j
        BY <3>3, <3>5, <3>6, <3>7
      <4>2. h = [k \in 1..p |-> h[k]]
        OBVIOUS
      <4> HIDE DEF h
      <4> QED
        BY <4>1, <4>2
    <3> HIDE DEF h
    <3>9. \A k, l \in 1..p : k < l => h[k] < h[l]
      <4> SUFFICES ASSUME NEW k \in 1..p, NEW l \in 1..p, k < l PROVE h[k] < h[l]
        OBVIOUS
      <4>1. k \in 1..Len(s)
        BY <3>p, <3>3
      <4>2. CASE l = p
        BY <3>5, <3>6, <4>1, <4>2
      <4>3. CASE l \in 1..Len(s)
        <5>1. g[k] < g[l]
          BY <2>3, <4>1, <4>3
        <5> QED
          BY <3>5, <4>1, <4>3, <5>1
      <4> QED
        BY <3>3, <4>2, <4>3
    <3>10. ASSUME NEW x \in 1..j, ~Goes(x) PROVE \E k \in 1..p : h[k] = x
      <4>1. x = j \/ x \in 1..i
        BY <2>1
      <4>2. CASE x \in 1..i
        <5>1. PICK k \in 1..Len(s) : g[k] = x
          BY <2>3, <3>10, <4>2
        <5> QED
          BY <3>4, <3>5, <5>1
      <4> QED
        BY <3>3, <3>5, <4>1, <4>2
    <3>11. ASSUME NEW k \in 1..p PROVE t[k] = Spared(h[k])
      <4>1. CASE k = p
        BY <3>2, <3>5, <4>1 DEF e
      <4>2. CASE k \in 1..Len(s)
        <5>1. s[k] = Spared(g[k])
          BY <2>3, <4>2
        <5> QED
          BY <3>2, <3>5, <4>2, <5>1
      <4> QED
        BY <3>3, <4>1, <4>2
    <3>12. Sofar(t, j, h)
      <4>1. Len(t) = p
        BY <3>2
      <4> QED
        BY <3>8, <3>9, <3>10, <3>11, <4>1
    <3> HIDE DEF Sofar
    <3> QED
      BY <2>1, <3>2, <3>12 DEF t, j
  <2> QED
    BY <2>5, <2>6
<1>11. n \in S
  <2> HIDE DEF S
  <2>1. 0..n \subseteq S
    BY <1>1, <1>9, <1>10, Climbs
  <2> QED
    BY <1>1, <2>1
<1>12. PICK g : Sofar(Pruned, n, g)
  <2> HIDE DEF Sofar
  <2> QED
    BY <1>7, <1>11
<1>13. Pruned \in Seq(Messages)
  BY <1>7, <1>11
<1>14. Part(Pruned, window, 1, g)
  <2>1. \A i \in 1..n : window[i].kind # "harness" => ~Goes(i)
    BY DEF Goes
  <2>2. \A i \in 1..n :
           Spared(i).id = window[i].id /\ Spared(i).kind = window[i].kind /\ Spared(i).calls = window[i].calls
    BY SparedIs DEF n
  <2>3. ASSUME NEW k \in 1..Len(Pruned) PROVE g[k] \in 1..n /\ Pruned[k] = Spared(g[k])
    BY <1>12
  <2> HIDE DEF Sofar
  <2>4. \A k \in 1..Len(Pruned) : /\ Pruned[k].id = window[g[k]].id /\ Pruned[k].kind = window[g[k]].kind
                                  /\ Pruned[k].calls = window[g[k]].calls
    BY <2>2, <2>3
  <2>5. /\ g \in [1..Len(Pruned) -> 1..n]
        /\ \A k, l \in 1..Len(Pruned) : k < l => g[k] < g[l]
        /\ \A j \in 1..n : ~Goes(j) => \E k \in 1..Len(Pruned) : g[k] = j
    BY <1>12 DEF Sofar
  <2> QED
    BY <2>1, <2>4, <2>5 DEF Part, n
<1> QED
  BY <1>13, <1>14

LEMMA SuffixPart ==
    ASSUME NEW m \in Seq(Messages), NEW c \in 1..Len(m) + 1
    PROVE  \E g : Part(Suffix(m, c), m, c, g)
<1> DEFINE s == Suffix(m, c)
           g == [k \in 1..Len(s) |-> c - 1 + k]
<1>1. /\ s \in Seq(Messages) /\ Len(s) = Len(m) - c + 1 /\ Len(s) \in Nat /\ Len(m) \in Nat
      /\ \A k \in 1..Len(s) : s[k] = m[c - 1 + k]
  BY SuffixIs
<1> HIDE DEF s
<1>2. \A k \in 1..Len(s) : c - 1 + k \in c..Len(m) /\ g[k] = c - 1 + k
  BY <1>1
<1>3. \A i \in c..Len(m) : i - c + 1 \in 1..Len(s) /\ c - 1 + (i - c + 1) = i
  BY <1>1
<1>4. g \in [1..Len(s) -> c..Len(m)]
  BY <1>2
<1>5. \A k, l \in 1..Len(s) : k < l => g[k] < g[l]
  BY <1>1, <1>2
<1> HIDE DEF g
<1>6. \A i \in c..Len(m) : \E k \in 1..Len(s) : g[k] = i
  BY <1>2, <1>3
<1>7. \A k \in 1..Len(s) : s[k] = m[g[k]]
  BY <1>1, <1>2
<1>8. Part(s, m, c, g)
  BY <1>4, <1>5, <1>6, <1>7 DEF Part
<1> QED
  BY <1>8 DEF s

\* Nothing but the harness's messages is lost to a part.
LEMMA PartIds ==
    ASSUME NEW m \in Seq(Messages), NEW s \in Seq(Messages), NEW c \in 1..Len(m) + 1, NEW g, Part(s, m, c, g)
    PROVE  /\ \A i \in c..Len(m) : m[i].kind # "harness" => m[i].id \in Ids(s)
           /\ \A k \in DOMAIN s : \E i \in DOMAIN m : s[k].id = m[i].id /\ s[k].kind = m[i].kind
<1>1. Len(m) \in Nat /\ DOMAIN m = 1..Len(m) /\ DOMAIN s = 1..Len(s)
  OBVIOUS
<1>2. ASSUME NEW i \in c..Len(m), m[i].kind # "harness" PROVE m[i].id \in Ids(s)
  <2>1. PICK k \in 1..Len(s) : g[k] = i
    BY <1>2 DEF Part
  <2>2. s[k].id = m[i].id
    BY <2>1 DEF Part
  <2> QED
    BY <1>1, <2>2 DEF Ids
<1>3. ASSUME NEW k \in DOMAIN s PROVE \E i \in DOMAIN m : s[k].id = m[i].id /\ s[k].kind = m[i].kind
  <2>1. g[k] \in c..Len(m) /\ s[k].id = m[g[k]].id /\ s[k].kind = m[g[k]].kind
    BY <1>1, <1>3 DEF Part
  <2>2. g[k] \in DOMAIN m
    BY <1>1, <2>1
  <2> QED
    BY <2>1, <2>2
<1> QED
  BY <1>2, <1>3

-----------------------------------------------------------------------------
(* Compaction: windows a provider accepts.                                 *)

ResultHasCall(messages, i) ==
    \E j \in 1..(i - 1) :
       /\ messages[j].kind = "call" /\ messages[i].calls \subseteq messages[j].calls
       /\ \A k \in (j + 1)..(i - 1) :
             messages[k].kind = "result" /\ messages[k].calls # messages[i].calls

CallHasResult(messages, i, call) ==
    \E j \in (i + 1)..Len(messages) :
       /\ messages[j].calls = {call}
       /\ \A k \in (i + 1)..j : messages[k].kind = "result"

OnlyResultsAfter(messages, i) ==
    \A k \in (i + 1)..Len(messages) : messages[k].kind = "result"

\* In the middle of a round: the calls that are open are the last message's
\* that makes any, and nothing but results of its others has followed.
WellFormed(messages, open) ==
    /\ \A i \in DOMAIN messages : messages[i].kind = "result" => ResultHasCall(messages, i)
    /\ \A i \in DOMAIN messages : messages[i].kind = "call" => \A call \in messages[i].calls :
          CallHasResult(messages, i, call) \/ (call \in open /\ OnlyResultsAfter(messages, i))
    /\ open # {} => \E i \in DOMAIN messages :
          /\ messages[i].kind = "call" /\ open \subseteq messages[i].calls
          /\ \A k \in (i + 1)..Len(messages) :
                messages[k].kind = "result" /\ \A call \in open : messages[k].calls # {call}

LEMMA AcceptedIs ==
    ASSUME NEW m
    PROVE  Accepted(m) <=> WellFormed(m, {})
<1>1. Accepted(m) <=> \A i \in DOMAIN m :
         /\ m[i].kind = "result" => ResultHasCall(m, i)
         /\ m[i].kind = "call" => \A call \in m[i].calls : CallHasResult(m, i, call)
  BY Zenon DEF Accepted, ResultHasCall, CallHasResult
<1> QED
  BY <1>1 DEF WellFormed

\* The results between a result and its call are of the same call message.
LEMMA ResultsBetween ==
    ASSUME NEW m \in Seq(Messages), Accepted(m), NEW p \in 1..Len(m), NEW j \in 1..(p - 1), m[j].kind = "call",
           \A k \in (j + 1)..(p - 1) : m[k].kind = "result",
           NEW k \in (j + 1)..(p - 1)
    PROVE  m[k].calls \subseteq m[j].calls
<1>1. Len(m) \in Nat /\ DOMAIN m = 1..Len(m)
  OBVIOUS
<1>2. k \in 1..Len(m) /\ m[k].kind = "result"
  BY <1>1
<1>3. ResultHasCall(m, k)
  BY <1>1, <1>2, AcceptedIs DEF WellFormed
<1>4. PICK l \in 1..(k - 1) :
         /\ m[l].kind = "call" /\ m[k].calls \subseteq m[l].calls
         /\ \A x \in (l + 1)..(k - 1) : m[x].kind = "result"
  BY <1>3 DEF ResultHasCall
<1>5. ~(l < j)
  <2>1. l < j => j \in (l + 1)..(k - 1)
    BY <1>1
  <2>2. m[j].kind # "result"
    OBVIOUS
  <2> QED
    BY <1>4, <2>1, <2>2
<1>6. ~(j < l)
  <2>1. j < l => l \in (j + 1)..(p - 1)
    BY <1>1
  <2>2. m[l].kind # "result"
    BY <1>4
  <2> QED
    BY <2>1, <2>2
<1>7. l = j
  BY <1>1, <1>5, <1>6
<1> QED
  BY <1>4, <1>7

LEMMA PartAccepted ==
    ASSUME NEW m \in Seq(Messages), NEW s \in Seq(Messages), NEW c \in Cuts(m), NEW g, Part(s, m, c, g),
           Accepted(m)
    PROVE  Accepted(s)
<1>1. Len(m) \in Nat /\ Len(s) \in Nat /\ DOMAIN m = 1..Len(m) /\ DOMAIN s = 1..Len(s) /\ c \in 1..Len(m) + 1
  BY CutsAre
<1>2. /\ \A k \in 1..Len(s) : g[k] \in c..Len(m) /\ g[k] \in 1..Len(m)
      /\ \A k \in 1..Len(s) : s[k].kind = m[g[k]].kind /\ s[k].calls = m[g[k]].calls
      /\ \A i \in c..Len(m) : m[i].kind # "harness" => \E k \in 1..Len(s) : g[k] = i
  <2>1. \A x \in c..Len(m) : x \in 1..Len(m)
    BY <1>1
  <2> QED
    BY <2>1 DEF Part
<1>3. \A k, l \in 1..Len(s) : k < l <=> g[k] < g[l]
  <2> SUFFICES ASSUME NEW k \in 1..Len(s), NEW l \in 1..Len(s) PROVE k < l <=> g[k] < g[l]
    OBVIOUS
  <2>1. g[k] \in Int /\ g[l] \in Int
    BY <1>1, <1>2
  <2>2. (k < l => g[k] < g[l]) /\ (l < k => g[l] < g[k]) /\ (k = l => g[k] = g[l])
    BY DEF Part
  <2> QED
    BY <2>1, <2>2
<1>4. ASSUME NEW i \in 1..Len(s), s[i].kind = "result" PROVE ResultHasCall(s, i)
  <2> DEFINE p == g[i]
  <2>1. p \in c..Len(m) /\ p \in 1..Len(m) /\ m[p].kind = "result" /\ s[i].calls = m[p].calls /\ p = g[i]
    BY <1>2, <1>4
  <2> HIDE DEF p
  <2>2. ResultHasCall(m, p)
    BY <1>1, <2>1, AcceptedIs DEF WellFormed
  <2>3. PICK j \in 1..(p - 1) :
           /\ m[j].kind = "call" /\ m[p].calls \subseteq m[j].calls
           /\ \A k \in (j + 1)..(p - 1) : m[k].kind = "result" /\ m[k].calls # m[p].calls
    BY <2>2 DEF ResultHasCall
  <2>4. ~(j < c)
    <3> SUFFICES ASSUME j < c PROVE FALSE
      OBVIOUS
    <3>1. \A k \in (j + 1)..p : k \in (j + 1)..(p - 1) \/ k = p
      BY <1>1, <2>1
    <3>2. \A k \in (j + 1)..(p - 1) : m[k].calls \subseteq m[j].calls
      BY <2>1, <2>3, ResultsBetween
    <3>3. \A k \in (j + 1)..p : m[k].kind = "result" /\ m[k].calls \subseteq m[j].calls
      BY <2>1, <2>3, <3>1, <3>2
    <3>4. j \in 1..Len(m) /\ c <= p
      BY <1>1, <2>1
    <3> QED
      BY <2>1, <2>3, <3>3, <3>4, FollowsAfter
  <2>5. j \in c..Len(m) /\ j < p
    BY <1>1, <2>1, <2>4
  <2>6. PICK l \in 1..Len(s) : g[l] = j
    BY <1>2, <2>3, <2>5
  <2>7. l < i
    BY <1>3, <2>1, <2>5, <2>6
  <2>8. ASSUME NEW x \in (l + 1)..(i - 1) PROVE s[x].kind = "result" /\ s[x].calls # s[i].calls
    <3>1. x \in 1..Len(s) /\ l < x /\ x < i
      BY <1>1, <2>8
    <3>2. j < g[x] /\ g[x] < p /\ g[x] \in 1..Len(m)
      BY <1>2, <1>3, <2>1, <2>6, <3>1
    <3>3. g[x] \in (j + 1)..(p - 1)
      BY <1>1, <2>1, <3>2
    <3>4. m[g[x]].kind = "result" /\ m[g[x]].calls # m[p].calls
      BY <2>3, <3>3, Zenon
    <3>5. s[x].kind = m[g[x]].kind /\ s[x].calls = m[g[x]].calls
      BY <1>2, <3>1
    <3> QED
      BY <2>1, <3>4, <3>5
  <2>9. l \in 1..(i - 1) /\ s[l].kind = "call" /\ s[i].calls \subseteq s[l].calls
    <3>1. l \in 1..(i - 1)
      BY <1>1, <2>7
    <3> QED
      BY <1>2, <2>1, <2>3, <2>6, <3>1
  <2> QED
    BY <2>8, <2>9 DEF ResultHasCall
<1>5. ASSUME NEW i \in 1..Len(s), s[i].kind = "call", NEW call \in s[i].calls PROVE CallHasResult(s, i, call)
  <2> DEFINE p == g[i]
  <2>1. p \in c..Len(m) /\ p \in 1..Len(m) /\ m[p].kind = "call" /\ s[i].calls = m[p].calls /\ p = g[i]
    BY <1>2, <1>5
  <2> HIDE DEF p
  <2>2. CallHasResult(m, p, call)
    BY <1>1, <1>5, <2>1, AcceptedIs DEF WellFormed
  <2>3. PICK j \in (p + 1)..Len(m) : m[j].calls = {call} /\ \A k \in (p + 1)..j : m[k].kind = "result"
    BY <2>2 DEF CallHasResult
  <2>4. j \in c..Len(m) /\ j \in (p + 1)..j /\ p < j
    BY <1>1, <2>1
  <2>5. PICK l \in 1..Len(s) : g[l] = j
    BY <1>2, <2>3, <2>4
  <2>6. i < l
    BY <1>3, <2>1, <2>4, <2>5
  <2>7. ASSUME NEW x \in (i + 1)..l PROVE s[x].kind = "result"
    <3>1. x \in 1..Len(s) /\ i < x /\ (x < l \/ x = l)
      BY <1>1, <2>7
    <3>2. p < g[x] /\ (g[x] < j \/ g[x] = j) /\ g[x] \in 1..Len(m)
      BY <1>2, <1>3, <2>1, <2>5, <3>1
    <3>3. g[x] \in (p + 1)..j
      BY <1>1, <2>1, <3>2
    <3>4. m[g[x]].kind = "result"
      BY <2>3, <3>3, Zenon
    <3>5. s[x].kind = m[g[x]].kind
      BY <1>2, <3>1
    <3> QED
      BY <3>4, <3>5
  <2>8. l \in (i + 1)..Len(s) /\ s[l].calls = {call}
    <3>1. l \in (i + 1)..Len(s)
      BY <1>1, <2>6
    <3> QED
      BY <1>2, <2>3, <2>5, <3>1
  <2> QED
    BY <2>7, <2>8 DEF CallHasResult
<1>6. WellFormed(s, {})
  BY <1>1, <1>4, <1>5 DEF WellFormed
<1> QED
  BY <1>6, AcceptedIs

LEMMA AppendIs ==
    ASSUME NEW m \in Seq(Messages), NEW x \in Messages
    PROVE  /\ Append(m, x) \in Seq(Messages) /\ Len(Append(m, x)) = Len(m) + 1 /\ Len(m) \in Nat
           /\ DOMAIN m = 1..Len(m) /\ DOMAIN Append(m, x) = 1..Len(m) + 1
           /\ \A k \in 1..Len(m) : Append(m, x)[k] = m[k]
           /\ Append(m, x)[Len(m) + 1] = x
OBVIOUS

LEMMA AppendKeeps ==
    ASSUME NEW m \in Seq(Messages), NEW x \in Messages, NEW i \in 1..Len(m)
    PROVE  /\ ResultHasCall(m, i) => ResultHasCall(Append(m, x), i)
           /\ \A call : CallHasResult(m, i, call) => CallHasResult(Append(m, x), i, call)
<1> DEFINE a == Append(m, x)
<1>1. /\ a \in Seq(Messages) /\ Len(a) = Len(m) + 1 /\ Len(m) \in Nat /\ \A k \in 1..Len(m) : a[k] = m[k]
  BY AppendIs
<1> HIDE DEF a
<1>2. ASSUME ResultHasCall(m, i) PROVE ResultHasCall(a, i)
  <2>1. PICK j \in 1..(i - 1) :
           /\ m[j].kind = "call" /\ m[i].calls \subseteq m[j].calls
           /\ \A k \in (j + 1)..(i - 1) : m[k].kind = "result" /\ m[k].calls # m[i].calls
    BY <1>2 DEF ResultHasCall
  <2>2. j \in 1..Len(m) /\ \A k \in (j + 1)..(i - 1) : k \in 1..Len(m)
    BY <1>1
  <2> QED
    BY <1>1, <2>1, <2>2 DEF ResultHasCall
<1>3. ASSUME NEW call, CallHasResult(m, i, call) PROVE CallHasResult(a, i, call)
  <2>1. PICK j \in (i + 1)..Len(m) : m[j].calls = {call} /\ \A k \in (i + 1)..j : m[k].kind = "result"
    BY <1>3 DEF CallHasResult
  <2>2. j \in 1..Len(m) /\ j \in (i + 1)..Len(a) /\ \A k \in (i + 1)..j : k \in 1..Len(m)
    BY <1>1
  <2> QED
    BY <1>1, <2>1, <2>2 DEF CallHasResult
<1> QED
  BY <1>2, <1>3 DEF a

\* A message of a user, of the harness, or an answer.
LEMMA SpeakKeeps ==
    ASSUME NEW m \in Seq(Messages), NEW x \in Messages, WellFormed(m, {}), x.kind \notin {"call", "result"}
    PROVE  WellFormed(Append(m, x), {})
<1> DEFINE a == Append(m, x)
<1>1. /\ a \in Seq(Messages) /\ Len(a) = Len(m) + 1 /\ Len(m) \in Nat /\ DOMAIN m = 1..Len(m)
      /\ DOMAIN a = 1..Len(m) + 1 /\ a[Len(m) + 1] = x /\ \A k \in 1..Len(m) : a[k] = m[k]
  BY AppendIs
<1>2. \A i \in 1..Len(m) : /\ ResultHasCall(m, i) => ResultHasCall(a, i)
                           /\ \A call : CallHasResult(m, i, call) => CallHasResult(a, i, call)
  BY AppendKeeps
<1> HIDE DEF a
<1>3. \A i \in DOMAIN a : i \in 1..Len(m) \/ i = Len(m) + 1
  BY <1>1
<1>4. \A i \in DOMAIN a : a[i].kind \in {"call", "result"} => i \in 1..Len(m) /\ a[i] = m[i]
  BY <1>1, <1>3
<1>5. \A i \in DOMAIN a : a[i].kind = "result" => ResultHasCall(a, i)
  BY <1>1, <1>2, <1>4 DEF WellFormed
<1>6. \A i \in DOMAIN a : a[i].kind = "call" => \A call \in a[i].calls : CallHasResult(a, i, call)
  BY <1>1, <1>2, <1>4 DEF WellFormed
<1> QED
  BY <1>5, <1>6 DEF WellFormed, a

LEMMA CallKeeps ==
    ASSUME NEW m \in Seq(Messages), NEW x \in Messages, WellFormed(m, {}), x.kind = "call"
    PROVE  WellFormed(Append(m, x), x.calls)
<1> DEFINE a == Append(m, x)
           n == Len(m) + 1
<1>1. /\ a \in Seq(Messages) /\ Len(a) = n /\ Len(m) \in Nat /\ DOMAIN m = 1..Len(m)
      /\ DOMAIN a = 1..n /\ a[n] = x /\ \A k \in 1..Len(m) : a[k] = m[k]
  BY AppendIs
<1>2. \A i \in 1..Len(m) : /\ ResultHasCall(m, i) => ResultHasCall(a, i)
                           /\ \A call : CallHasResult(m, i, call) => CallHasResult(a, i, call)
  BY AppendKeeps
<1>3. n \in 1..n /\ (n + 1)..n = {} /\ \A i \in 1..n : i \in 1..Len(m) \/ i = n
  BY <1>1
<1> HIDE DEF a, n
<1>4. \A i \in DOMAIN a : a[i].kind = "result" => ResultHasCall(a, i)
  BY <1>1, <1>2, <1>3 DEF WellFormed
<1>5. OnlyResultsAfter(a, n)
  BY <1>1, <1>3 DEF OnlyResultsAfter
<1>6. ASSUME NEW i \in DOMAIN a, a[i].kind = "call", NEW call \in a[i].calls
      PROVE  CallHasResult(a, i, call) \/ (call \in x.calls /\ OnlyResultsAfter(a, i))
  <2>1. CASE i = n
    BY <1>1, <1>5, <1>6, <2>1
  <2>2. CASE i \in 1..Len(m)
    BY <1>1, <1>2, <1>6, <2>2 DEF WellFormed
  <2> QED
    BY <1>1, <1>3, <2>1, <2>2
<1>7. n \in DOMAIN a /\ a[n].kind = "call" /\ x.calls \subseteq a[n].calls /\ (n + 1)..Len(a) = {}
  BY <1>1, <1>3
<1>8. \E i \in DOMAIN a :
         /\ a[i].kind = "call" /\ x.calls \subseteq a[i].calls
         /\ \A k \in (i + 1)..Len(a) : a[k].kind = "result" /\ \A call \in x.calls : a[k].calls # {call}
  BY <1>7
<1> QED
  BY <1>4, <1>6, <1>8 DEF WellFormed, a

LEMMA ResultKeeps ==
    ASSUME NEW m \in Seq(Messages), NEW x \in Messages, NEW open, WellFormed(m, open),
           NEW call \in open, x.kind = "result", x.calls = {call}
    PROVE  WellFormed(Append(m, x), open \ {call})
<1> DEFINE a == Append(m, x)
           n == Len(m) + 1
<1>1. /\ a \in Seq(Messages) /\ Len(a) = n /\ Len(m) \in Nat /\ DOMAIN m = 1..Len(m)
      /\ DOMAIN a = 1..n /\ a[n] = x /\ \A k \in 1..Len(m) : a[k] = m[k]
  BY AppendIs
<1>2. \A i \in 1..Len(m) : /\ ResultHasCall(m, i) => ResultHasCall(a, i)
                           /\ \A c : CallHasResult(m, i, c) => CallHasResult(a, i, c)
  BY AppendKeeps
<1>3. /\ n \in 1..n /\ n \in Nat /\ n = Len(m) + 1 /\ \A i \in 1..n : i \in 1..Len(m) \/ i = n
      /\ \A i \in 1..Len(m) : i \in 1..n /\ n \in (i + 1)..n /\ i \in 1..(n - 1)
      /\ \A i \in 1..Len(m) : \A k \in (i + 1)..n : k = n \/ (k \in (i + 1)..Len(m) /\ k \in 1..Len(m))
      /\ \A i \in 1..Len(m) : \A k \in (i + 1)..(n - 1) : k \in (i + 1)..Len(m) /\ k \in 1..Len(m)
  BY <1>1
<1> HIDE DEF a, n
<1>4. PICK j \in 1..Len(m) :
         /\ m[j].kind = "call" /\ open \subseteq m[j].calls
         /\ \A k \in (j + 1)..Len(m) : m[k].kind = "result" /\ \A c \in open : m[k].calls # {c}
  BY <1>1 DEF WellFormed
<1>5. ResultHasCall(a, n)
  <2>1. j \in 1..(n - 1) /\ a[j] = m[j] /\ a[n].calls \subseteq a[j].calls
    BY <1>1, <1>3, <1>4
  <2>2. ASSUME NEW k \in (j + 1)..(n - 1) PROVE a[k].kind = "result" /\ a[k].calls # a[n].calls
    BY <1>1, <1>3, <1>4, <2>2
  <2> QED
    BY <1>4, <2>1, <2>2 DEF ResultHasCall
<1>6. \A i \in DOMAIN a : a[i].kind = "result" => ResultHasCall(a, i)
  BY <1>1, <1>2, <1>3, <1>5 DEF WellFormed
<1>7. ASSUME NEW i \in DOMAIN a, a[i].kind = "call", NEW c \in a[i].calls
      PROVE  CallHasResult(a, i, c) \/ (c \in open \ {call} /\ OnlyResultsAfter(a, i))
  <2>1. i \in 1..Len(m) /\ a[i] = m[i]
    BY <1>1, <1>3, <1>7
  <2>2. CallHasResult(m, i, c) \/ (c \in open /\ OnlyResultsAfter(m, i))
    BY <1>1, <1>7, <2>1 DEF WellFormed
  <2>3. CASE CallHasResult(m, i, c)
    BY <1>2, <2>1, <2>3
  <2>4. CASE c \in open /\ OnlyResultsAfter(m, i)
    <3>1. \A k \in (i + 1)..n : a[k].kind = "result"
      BY <1>1, <1>3, <2>1, <2>4 DEF OnlyResultsAfter
    <3>2. CASE c = call
      BY <1>1, <1>3, <2>1, <3>1, <3>2 DEF CallHasResult
    <3>3. CASE c # call
      BY <1>1, <2>4, <3>1, <3>3 DEF OnlyResultsAfter
    <3> QED
      BY <3>2, <3>3
  <2> QED
    BY <2>2, <2>3, <2>4
<1>8. ASSUME NEW k \in (j + 1)..n PROVE a[k].kind = "result" /\ \A c \in open \ {call} : a[k].calls # {c}
  <2>1. CASE k = n
    BY <1>1, <2>1
  <2>2. CASE k # n
    <3>1. k \in (j + 1)..Len(m) /\ k \in 1..Len(m)
      BY <1>3, <1>8, <2>2
    <3>2. a[k] = m[k]
      BY <1>1, <3>1
    <3>3. m[k].kind = "result" /\ \A c \in open : m[k].calls # {c}
      BY <1>4, <3>1, Zenon
    <3> QED
      BY <3>2, <3>3
  <2> QED
    BY <2>1, <2>2
<1>9. j \in DOMAIN a /\ a[j].kind = "call" /\ open \ {call} \subseteq a[j].calls
  BY <1>1, <1>3, <1>4
<1> QED
  BY <1>1, <1>6, <1>7, <1>8, <1>9 DEF WellFormed, a

-----------------------------------------------------------------------------
(* Compaction: what a compaction does to the window.                       *)

LEMMA PrunedKeeps ==
    ASSUME window \in Seq(Messages)
    PROVE  /\ Pruned \in Seq(Messages)
           /\ Accepted(window) => Accepted(Pruned)
           /\ \A i \in DOMAIN window : window[i].kind # "harness" => window[i].id \in Ids(Pruned)
           /\ \A k \in DOMAIN Pruned : \E i \in DOMAIN window :
                 Pruned[k].id = window[i].id /\ Pruned[k].kind = window[i].kind
<1>1. Pruned \in Seq(Messages)
  BY PrunedIs
<1>2. PICK g : Part(Pruned, window, 1, g)
  BY PrunedIs
<1>3. 1 \in Cuts(window) /\ 1 \in 1..Len(window) + 1 /\ DOMAIN window = 1..Len(window)
  BY CutsAre
<1>4. Accepted(window) => Accepted(Pruned)
  BY <1>1, <1>2, <1>3, PartAccepted
<1> QED
  BY <1>1, <1>2, <1>3, <1>4, PartIds

LEMMA CutKeeps ==
    ASSUME NEW m \in Seq(Messages), NEW c \in Cuts(m)
    PROVE  /\ Suffix(m, c) \in Seq(Messages)
           /\ Accepted(m) => Accepted(Suffix(m, c))
           /\ Ids(m) = Ids(SubSeq(m, 1, c - 1)) \cup Ids(Suffix(m, c))
           /\ SubSeq(m, 1, c - 1) = <<>> => Ids(SubSeq(m, 1, c - 1)) = {}
           /\ \A k \in DOMAIN Suffix(m, c) : \E i \in DOMAIN m :
                 Suffix(m, c)[k].id = m[i].id /\ Suffix(m, c)[k].kind = m[i].kind
<1> DEFINE s == Suffix(m, c)
           old == SubSeq(m, 1, c - 1)
<1>1. c \in 1..Len(m) + 1 /\ Len(m) \in Nat /\ DOMAIN m = 1..Len(m)
  BY CutsAre
<1>2. /\ s \in Seq(Messages) /\ Len(s) = Len(m) - c + 1 /\ Len(s) \in Nat
      /\ \A k \in 1..Len(s) : s[k] = m[c - 1 + k]
  BY <1>1, SuffixIs
<1>3. PICK g : Part(s, m, c, g)
  BY <1>1, SuffixPart
<1>4. DOMAIN old = 1..(c - 1) /\ \A k \in 1..(c - 1) : old[k] = m[k]
  <2>1. old \in Seq(Messages) /\ Len(old) = c - 1
    BY <1>1
  <2>2. \A k \in 1..(c - 1) : old[k] = m[k]
    BY <1>1
  <2> HIDE DEF old
  <2> QED
    BY <2>1, <2>2
<1> HIDE DEF s, old
<1>5. DOMAIN s = 1..Len(s)
  BY <1>2
<1>6. Ids(m) \subseteq Ids(old) \cup Ids(s)
  <2> SUFFICES ASSUME NEW i \in 1..Len(m) PROVE m[i].id \in Ids(old) \cup Ids(s)
    BY <1>1 DEF Ids
  <2>1. CASE i < c
    <3>1. i \in 1..(c - 1)
      BY <1>1, <2>1
    <3> QED
      BY <1>4, <3>1 DEF Ids
  <2>2. CASE ~(i < c)
    <3> DEFINE k == i - c + 1
    <3>1. k \in 1..Len(s) /\ c - 1 + k = i
      BY <1>1, <1>2, <2>2
    <3> HIDE DEF k
    <3>2. s[k] = m[i]
      BY <1>2, <3>1
    <3> QED
      BY <1>5, <3>1, <3>2 DEF Ids
  <2> QED
    BY <2>1, <2>2
<1>7. Ids(old) \subseteq Ids(m)
  <2>1. \A k \in 1..(c - 1) : k \in DOMAIN m
    BY <1>1
  <2> QED
    BY <1>4, <2>1 DEF Ids
<1>8. \A k \in DOMAIN s : \E i \in DOMAIN m : s[k].id = m[i].id /\ s[k].kind = m[i].kind
  BY <1>1, <1>2, <1>3, PartIds
<1>9. Ids(s) \subseteq Ids(m)
  BY <1>8 DEF Ids
<1>10. old = <<>> => Ids(old) = {}
  BY DEF Ids
<1>11. Accepted(m) => Accepted(s)
  BY <1>2, <1>3, PartAccepted
<1> QED
  BY <1>2, <1>6, <1>7, <1>8, <1>9, <1>10, <1>11 DEF s, old

LEMMA CutPointIs ==
    ASSUME NEW m \in Seq(Messages), history \in Nat, strategy \in {"summary", "window"}
    PROVE  /\ CutPoint(m) \in Cuts(m)
           /\ FitsIn(Suffix(m, CutPoint(m)), Budget) \/ (strategy = "window" /\ Budget = 0)
<1>1. CASE strategy = "summary"
  BY <1>1, SummaryCutIs DEF CutPoint
<1>2. CASE strategy = "window"
  <2>1. CutPoint(m) = WindowCut(m)
    BY <1>2 DEF CutPoint
  <2> QED
    BY <1>2, <2>1, WindowCutIs
<1> QED
  BY <1>1, <1>2

-----------------------------------------------------------------------------
(* Compaction: the invariant.                                              *)

NotesTold == \A i \in DOMAIN window : window[i].kind = "harness" => window[i].id \in notes

Settled == ~hasGap => WellFormed(window, waiting) /\ compaction # "refused"

CompactionInv == CompactionTypeOK /\ NotesTold /\ Settled /\ CompactionKeeps

LEMMA CompactionStarts == CompactionInit => CompactionInv
<1> SUFFICES ASSUME CompactionInit PROVE CompactionInv
  OBVIOUS
<1>1. window = <<>> /\ DOMAIN window = {} /\ window \in Seq(Messages)
  BY DEF CompactionInit
<1>2. CompactionTypeOK
  <2>1. said \in 0..MaxMessages
    BY CompactionAssumption DEF CompactionInit
  <2>2. \A i \in DOMAIN window : window[i].id <= said
    BY <1>1
  <2> QED
    BY <1>1, <2>1, <2>2 DEF CompactionInit, CompactionTypeOK
<1>3. WellFormed(window, {})
  BY <1>1 DEF WellFormed
<1>4. NotesTold /\ Settled
  BY <1>1, <1>3 DEF CompactionInit, NotesTold, Settled
<1>5. CompactionKeeps
  <2>1. 1..said = {}
    BY DEF CompactionInit
  <2>2. compaction = "none"
    BY DEF CompactionInit
  <2> QED
    BY <1>3, <1>4, <2>1, <2>2, AcceptedIs DEF CompactionKeeps, Settled
<1> QED
  BY <1>2, <1>4, <1>5 DEF CompactionInv

\* What every message does that is appended.
LEMMA AppendedKeeps ==
    ASSUME CompactionInv, NEW kind \in Kinds, NEW size \in {1, BigResult},
           NEW calls \in SUBSET ((1..MaxMessages) \X (1..2)), Appended(kind, size, calls),
           waiting' \subseteq (1..MaxMessages) \X (1..2), hasGap' \in BOOLEAN,
           ~hasGap' => WellFormed(window', waiting')
    PROVE  CompactionInv'
<1> DEFINE x == Message(said + 1, kind, size, calls)
<1>1. said \in Nat /\ said < MaxMessages /\ MaxMessages \in Nat /\ window \in Seq(Messages)
  BY CompactionAssumption DEF CompactionInv, CompactionTypeOK, Appended
<1>2. x \in Messages /\ x.id = said + 1 /\ x.kind = kind
  BY <1>1, CompactionAssumption DEF Message, Messages
<1>3. window' = Append(window, x) /\ said' = said + 1 /\ said' \in 0..MaxMessages
  BY <1>1 DEF Appended
<1> HIDE DEF x
<1>4. /\ window' \in Seq(Messages) /\ DOMAIN window' = 1..Len(window) + 1 /\ DOMAIN window = 1..Len(window)
      /\ Len(window) \in Nat
      /\ window'[Len(window) + 1] = x /\ \A k \in 1..Len(window) : window'[k] = window[k]
  BY <1>1, <1>2, <1>3, AppendIs
<1>5. \A i \in DOMAIN window' : i \in DOMAIN window \/ i = Len(window) + 1
  BY <1>4
<1>6. \A i \in DOMAIN window' : window'[i].id <= said'
  <2>1. \A i \in DOMAIN window : window[i].id \in Nat /\ window[i].id <= said
    <3>1. \A i \in DOMAIN window : window[i].id \in Nat
      <4>1. \A y \in Messages : y.id \in Nat
        BY DEF Messages
      <4> QED
        BY <1>1, <1>4, <4>1, MessagesOf
    <3> QED
      BY <3>1 DEF CompactionInv, CompactionTypeOK
  <2>2. \A i \in DOMAIN window : window'[i].id <= said'
    BY <1>1, <1>3, <1>4, <2>1
  <2>3. window'[Len(window) + 1].id <= said'
    BY <1>1, <1>2, <1>3, <1>4
  <2> QED
    BY <1>5, <2>2, <2>3
<1>7. notes' \subseteq 1..said' /\ folded' \subseteq 1..said' /\ notes \subseteq notes'
  <2>1. 1..said \subseteq 1..said' /\ said + 1 \in 1..said'
    BY <1>1, <1>3
  <2> QED
    BY <2>1 DEF CompactionInv, CompactionTypeOK, Appended
<1>8. CompactionTypeOK'
  BY <1>3, <1>4, <1>6, <1>7 DEF CompactionInv, CompactionTypeOK, Appended
<1>9. NotesTold'
  <2>1. kind = "harness" => said + 1 \in notes'
    BY DEF Appended
  <2>2. \A i \in DOMAIN window : window'[i].kind = "harness" => window'[i].id \in notes'
    BY <1>4, <1>7 DEF CompactionInv, NotesTold
  <2> QED
    BY <1>2, <1>4, <1>5, <2>1, <2>2 DEF NotesTold
<1>10. Settled'
  BY DEF Settled, Appended
<1>11. strategy' = "summary" => 1..said' \subseteq Ids(window') \cup folded' \cup notes'
  <2>1. said + 1 \in Ids(window')
    <3>1. Len(window) + 1 \in DOMAIN window'
      BY <1>4
    <3> QED
      BY <1>2, <1>4, <3>1 DEF Ids
  <2>2. Ids(window) \subseteq Ids(window')
    <3>1. \A i \in DOMAIN window : i \in DOMAIN window' /\ window'[i] = window[i]
      BY <1>4
    <3> QED
      BY <3>1 DEF Ids
  <2>3. \A k \in 1..said' : k \in 1..said \/ k = said + 1
    BY <1>1, <1>3
  <2>4. strategy' = strategy /\ folded' = folded
    BY DEF Appended
  <2> QED
    BY <1>7, <2>1, <2>2, <2>3, <2>4 DEF CompactionInv, CompactionKeeps
<1>12. CompactionKeeps'
  <2>1. compaction' = "none"
    BY DEF Appended
  <2>2. ~hasGap' => (waiting' = {} => Accepted(window'))
    BY AcceptedIs
  <2> QED
    BY <1>11, <2>1, <2>2 DEF CompactionKeeps
<1> QED
  BY <1>8, <1>9, <1>10, <1>12 DEF CompactionInv

\* What a compaction changes: the window, to one of messages that were in it.
LEMMA WindowChanges ==
    ASSUME CompactionInv, waiting = {},
           UNCHANGED <<strategy, history, said, waiting, hasGap, notes>>,
           window' \in Seq(Messages), folded' \subseteq 1..said,
           compaction' \in {"refused", "pruned", "compacted"},
           \A k \in DOMAIN window' : \E i \in DOMAIN window :
              window'[k].id = window[i].id /\ window'[k].kind = window[i].kind,
           Accepted(window) => Accepted(window') /\ compaction' # "refused",
           strategy = "summary" => \A i \in DOMAIN window :
              window[i].kind # "harness" => window[i].id \in Ids(window') \cup folded',
           folded \subseteq folded',
           compaction' = "compacted" =>
              \/ Tokens(window') <= Budget' \/ Cardinality(Blocks(window')) <= MinKeep
              \/ strategy' = "window" /\ Budget' = 0
    PROVE  CompactionInv'
<1>1. \A k \in DOMAIN window' : window'[k].id <= said
  BY DEF CompactionInv, CompactionTypeOK
<1>2. CompactionTypeOK'
  BY <1>1 DEF CompactionInv, CompactionTypeOK
<1>3. NotesTold'
  BY DEF CompactionInv, NotesTold
<1>4. ~hasGap => Accepted(window') /\ compaction' # "refused"
  BY AcceptedIs DEF CompactionInv, Settled
<1>5. Settled'
  BY <1>4, AcceptedIs DEF Settled
<1>6. strategy' = "summary" => 1..said' \subseteq Ids(window') \cup folded' \cup notes'
  <2> SUFFICES ASSUME strategy = "summary", NEW n \in 1..said
               PROVE  n \in Ids(window') \cup folded' \cup notes'
    OBVIOUS
  <2>1. n \in Ids(window) \/ n \in folded \/ n \in notes
    BY DEF CompactionInv, CompactionKeeps
  <2>2. CASE n \in Ids(window)
    <3>1. PICK i \in DOMAIN window : n = window[i].id
      BY <2>2 DEF Ids
    <3>2. window[i].kind = "harness" => n \in notes
      BY <3>1 DEF CompactionInv, NotesTold
    <3> QED
      BY <3>1, <3>2
  <2> QED
    BY <2>1, <2>2
<1>7. CompactionKeeps'
  BY <1>4, <1>6 DEF CompactionKeeps
<1> QED
  BY <1>2, <1>3, <1>5, <1>7 DEF CompactionInv

LEMMA PruneKeeps == CompactionInv /\ PruneWindow => CompactionInv'
<1> SUFFICES ASSUME CompactionInv, PruneWindow PROVE CompactionInv'
  OBVIOUS
<1>1. window \in Seq(Messages) /\ folded \subseteq 1..said
  BY DEF CompactionInv, CompactionTypeOK
<1>2. /\ window' = Pruned /\ compaction' = "pruned" /\ waiting = {} /\ folded' = folded
      /\ UNCHANGED <<strategy, history, said, waiting, hasGap, notes>>
  BY DEF PruneWindow
<1>3. /\ window' \in Seq(Messages)
      /\ Accepted(window) => Accepted(window')
      /\ \A i \in DOMAIN window : window[i].kind # "harness" => window[i].id \in Ids(window')
      /\ \A k \in DOMAIN window' : \E i \in DOMAIN window :
            window'[k].id = window[i].id /\ window'[k].kind = window[i].kind
  BY <1>1, <1>2, PrunedKeeps
<1> QED
  BY <1>1, <1>2, <1>3, WindowChanges

LEMMA CompactKeeps == CompactionInv /\ CompactWindow => CompactionInv'
<1> SUFFICES ASSUME CompactionInv, CompactWindow PROVE CompactionInv'
  OBVIOUS
<1> DEFINE c == CutPoint(Pruned)
           old == SubSeq(Pruned, 1, c - 1)
           recent == Suffix(Pruned, c)
<1>1. /\ window \in Seq(Messages) /\ folded \subseteq 1..said /\ history \in Nat
      /\ strategy \in {"summary", "window"} /\ \A i \in DOMAIN window : window[i].id <= said
  BY CompactionAssumption DEF CompactionInv, CompactionTypeOK
<1>2. /\ waiting = {} /\ UNCHANGED <<strategy, history, said, waiting, hasGap, notes>>
      /\ IF Accepted(recent)
         THEN /\ window' = recent /\ compaction' = "compacted"
              /\ folded' = IF strategy = "summary" /\ old # <<>> THEN folded \cup Ids(old) ELSE folded
         ELSE compaction' = "refused" /\ window' = window /\ folded' = folded
  BY DEF CompactWindow, Folds
<1>3. /\ Pruned \in Seq(Messages)
      /\ Accepted(window) => Accepted(Pruned)
      /\ \A i \in DOMAIN window : window[i].kind # "harness" => window[i].id \in Ids(Pruned)
      /\ \A k \in DOMAIN Pruned : \E i \in DOMAIN window :
            Pruned[k].id = window[i].id /\ Pruned[k].kind = window[i].kind
  BY <1>1, PrunedKeeps
<1>4. c \in Cuts(Pruned) /\ (FitsIn(recent, Budget) \/ (strategy = "window" /\ Budget = 0))
  BY <1>1, <1>3, CutPointIs
<1>5. /\ recent \in Seq(Messages)
      /\ Accepted(Pruned) => Accepted(recent)
      /\ Ids(Pruned) = Ids(old) \cup Ids(recent)
      /\ old = <<>> => Ids(old) = {}
      /\ \A k \in DOMAIN recent : \E i \in DOMAIN Pruned :
            recent[k].id = Pruned[i].id /\ recent[k].kind = Pruned[i].kind
  <2> HIDE DEF c
  <2> QED
    BY <1>3, <1>4, CutKeeps
<1> HIDE DEF old, recent
<1>6. CASE Accepted(recent)
  <2>1. \A k \in DOMAIN recent : \E i \in DOMAIN window :
           recent[k].id = window[i].id /\ recent[k].kind = window[i].kind
    <3> SUFFICES ASSUME NEW k \in DOMAIN recent
                 PROVE  \E i \in DOMAIN window : recent[k].id = window[i].id /\ recent[k].kind = window[i].kind
      OBVIOUS
    <3>1. PICK j \in DOMAIN Pruned : recent[k].id = Pruned[j].id /\ recent[k].kind = Pruned[j].kind
      BY <1>5
    <3>2. PICK i \in DOMAIN window : Pruned[j].id = window[i].id /\ Pruned[j].kind = window[i].kind
      BY <1>3
    <3> QED
      BY <3>1, <3>2
  <2>2. Ids(old) \subseteq 1..said
    <3>1. \A i \in DOMAIN window : window[i].id \in 1..said
      <4>1. \A y \in Messages : y.id \in Nat /\ y.id >= 1
        BY DEF Messages
      <4>2. \A i \in DOMAIN window : window[i] \in Messages
        BY <1>1, MessagesOf
      <4>3. said \in Nat
        BY DEF CompactionInv, CompactionTypeOK
      <4> QED
        BY <1>1, <4>1, <4>2, <4>3
    <3>2. \A k \in DOMAIN Pruned : Pruned[k].id \in 1..said
      BY <1>3, <3>1
    <3>3. Ids(Pruned) \subseteq 1..said
      BY <3>2 DEF Ids
    <3> QED
      BY <1>5, <3>3
  <2>3. folded' \subseteq 1..said /\ folded \subseteq folded'
    BY <1>1, <1>2, <1>6, <2>2
  <2>4. strategy = "summary" => Ids(old) \subseteq folded'
    BY <1>2, <1>5, <1>6
  <2>5. strategy = "summary" => \A i \in DOMAIN window :
           window[i].kind # "harness" => window[i].id \in Ids(window') \cup folded'
    BY <1>2, <1>3, <1>5, <1>6, <2>4
  <2>6. Budget' = Budget
    BY <1>2 DEF Budget
  <2>7. \/ Tokens(window') <= Budget' \/ Cardinality(Blocks(window')) <= MinKeep
        \/ strategy' = "window" /\ Budget' = 0
    BY <1>2, <1>4, <1>6, <2>6 DEF FitsIn
  <2>8. window' = recent /\ compaction' = "compacted"
    BY <1>2, <1>6
  <2> QED
    BY <1>2, <1>5, <1>6, <2>1, <2>3, <2>5, <2>7, <2>8, WindowChanges
<1>7. CASE ~Accepted(recent)
  <2>1. ~Accepted(window)
    BY <1>3, <1>5, <1>7
  <2>2. /\ compaction' = "refused" /\ window' = window /\ folded' = folded
    BY <1>2, <1>7
  <2>3. hasGap
    BY <1>2, <2>1, AcceptedIs DEF CompactionInv, Settled
  <2>4. CompactionTypeOK'
    BY <1>2, <2>2 DEF CompactionInv, CompactionTypeOK
  <2>5. NotesTold' /\ Settled'
    BY <1>2, <2>2, <2>3 DEF CompactionInv, NotesTold, Settled
  <2>6. CompactionKeeps'
    BY <1>2, <2>2, <2>3 DEF CompactionInv, CompactionKeeps
  <2> QED
    BY <2>4, <2>5, <2>6 DEF CompactionInv
<1> QED
  BY <1>6, <1>7

LEMMA CompactionSteps == CompactionInv /\ [CompactionNext]_compactionVars => CompactionInv'
<1> SUFFICES ASSUME CompactionInv, [CompactionNext]_compactionVars PROVE CompactionInv'
  OBVIOUS
<1>0. /\ said \in Nat /\ MaxMessages \in Nat /\ window \in Seq(Messages) /\ hasGap \in BOOLEAN
      /\ waiting \subseteq (1..MaxMessages) \X (1..2)
      /\ ~hasGap => WellFormed(window, waiting)
  BY CompactionAssumption DEF CompactionInv, CompactionTypeOK, Settled
<1>m. ASSUME NEW kind \in Kinds, NEW size \in {1, BigResult},
             NEW calls \in SUBSET ((1..MaxMessages) \X (1..2)), said < MaxMessages
      PROVE  /\ Message(said + 1, kind, size, calls) \in Messages
             /\ Message(said + 1, kind, size, calls).kind = kind
             /\ Message(said + 1, kind, size, calls).calls = calls
  BY <1>0, <1>m, CompactionAssumption DEF Message, Messages
<1>1. ASSUME NEW kind \in {"user", "harness", "answer"}, Speak(kind) PROVE CompactionInv'
  <2> DEFINE x == Message(said + 1, kind, 1, {})
  <2>1. /\ waiting = {} /\ waiting' = {} /\ hasGap' = hasGap /\ Appended(kind, 1, {}) /\ kind \in Kinds
    BY <1>1 DEF Speak, Kinds
  <2>2. said < MaxMessages /\ window' = Append(window, x)
    BY <2>1 DEF Appended
  <2>3. x \in Messages /\ x.kind = kind
    BY <1>m, <2>1, <2>2
  <2> HIDE DEF x
  <2>4. ~hasGap' => WellFormed(window', waiting')
    BY <1>0, <1>1, <2>1, <2>2, <2>3, SpeakKeeps
  <2>5. waiting' \subseteq (1..MaxMessages) \X (1..2) /\ hasGap' \in BOOLEAN
    BY <1>0, <2>1
  <2>6. {} \in SUBSET ((1..MaxMessages) \X (1..2)) /\ 1 \in {1, BigResult}
    OBVIOUS
  <2> QED
    BY <2>1, <2>4, <2>5, <2>6, AppendedKeeps
<1>2. ASSUME NEW n \in 1..2, CallTools(n) PROVE CompactionInv'
  <2> DEFINE calls == {<<said + 1, k>> : k \in 1..n}
             x == Message(said + 1, "call", 1, calls)
  <2>1. /\ waiting = {} /\ waiting' = calls /\ hasGap' = hasGap /\ Appended("call", 1, calls)
    BY <1>2 DEF CallTools
  <2>2. said < MaxMessages /\ window' = Append(window, x)
    BY <2>1 DEF Appended
  <2>3. calls \in SUBSET ((1..MaxMessages) \X (1..2))
    <3>1. said + 1 \in 1..MaxMessages /\ \A k \in 1..n : k \in 1..2
      BY <1>0, <2>2
    <3> QED
      BY <3>1
  <2> HIDE DEF calls
  <2>4. x \in Messages /\ x.kind = "call" /\ x.calls = calls
    BY <1>m, <2>2, <2>3 DEF Kinds
  <2> HIDE DEF x
  <2>5. ~hasGap' => WellFormed(window', waiting')
    BY <1>0, <2>1, <2>2, <2>4, CallKeeps
  <2>6. waiting' \subseteq (1..MaxMessages) \X (1..2) /\ hasGap' \in BOOLEAN /\ "call" \in Kinds
    BY <1>0, <2>1, <2>3 DEF Kinds
  <2>7. 1 \in {1, BigResult}
    OBVIOUS
  <2> QED
    BY <2>1, <2>3, <2>5, <2>6, <2>7, AppendedKeeps
<1>3. ASSUME NEW call \in waiting, NEW size \in {1, BigResult}, ResultArrives(call, size) PROVE CompactionInv'
  <2> DEFINE x == Message(said + 1, "result", size, {call})
  <2>1. waiting' = waiting \ {call} /\ hasGap' = hasGap /\ Appended("result", size, {call})
    BY <1>3 DEF ResultArrives
  <2>2. said < MaxMessages /\ window' = Append(window, x)
    BY <2>1 DEF Appended
  <2>3. {call} \in SUBSET ((1..MaxMessages) \X (1..2)) /\ "result" \in Kinds
    BY <1>0 DEF Kinds
  <2>4. x \in Messages /\ x.kind = "result" /\ x.calls = {call}
    BY <1>m, <2>2, <2>3
  <2> HIDE DEF x
  <2>5. ~hasGap' => WellFormed(window', waiting')
    BY <1>0, <2>1, <2>2, <2>4, ResultKeeps
  <2>6. waiting' \subseteq (1..MaxMessages) \X (1..2) /\ hasGap' \in BOOLEAN
    BY <1>0, <2>1
  <2> QED
    BY <2>1, <2>3, <2>5, <2>6, AppendedKeeps
<1>4. CASE GiveUpCalls
  <2>1. /\ waiting' = {} /\ hasGap' = TRUE
        /\ UNCHANGED <<strategy, history, window, said, folded, notes, compaction>>
    BY <1>4 DEF GiveUpCalls
  <2>2. CompactionTypeOK'
    BY <2>1 DEF CompactionInv, CompactionTypeOK
  <2>3. NotesTold' /\ Settled'
    BY <2>1 DEF CompactionInv, NotesTold, Settled
  <2>4. Budget' = Budget
    BY <2>1 DEF Budget
  <2>5. CompactionKeeps'
    BY <2>1, <2>4 DEF CompactionInv, CompactionKeeps
  <2> QED
    BY <2>2, <2>3, <2>5 DEF CompactionInv
<1>5. CASE CompactionFails
  <2>1. /\ compaction' = "failed"
        /\ UNCHANGED <<strategy, history, window, said, waiting, hasGap, folded, notes>>
    BY <1>5 DEF CompactionFails
  <2>2. CompactionTypeOK'
    BY <2>1 DEF CompactionInv, CompactionTypeOK
  <2>3. NotesTold' /\ Settled'
    BY <2>1 DEF CompactionInv, NotesTold, Settled
  <2>4. CompactionKeeps'
    BY <2>1 DEF CompactionInv, CompactionKeeps
  <2> QED
    BY <2>2, <2>3, <2>4 DEF CompactionInv
<1>6. CASE UNCHANGED compactionVars
  <2>1. UNCHANGED <<strategy, history, window, said, waiting, hasGap, folded, notes, compaction>>
    BY <1>6 DEF compactionVars
  <2>2. CompactionTypeOK'
    BY <2>1 DEF CompactionInv, CompactionTypeOK
  <2>3. NotesTold' /\ Settled'
    BY <2>1 DEF CompactionInv, NotesTold, Settled
  <2>4. Budget' = Budget
    BY <2>1 DEF Budget
  <2>5. CompactionKeeps'
    BY <2>1, <2>4 DEF CompactionInv, CompactionKeeps
  <2> QED
    BY <2>2, <2>3, <2>5 DEF CompactionInv
<1> QED
  BY <1>1, <1>2, <1>3, <1>4, <1>5, <1>6, PruneKeeps, CompactKeeps DEF CompactionNext

LEMMA CompactionHolds == CompactionSpec => []CompactionInv
<1>1. CompactionInit => CompactionInv
  BY CompactionStarts
<1>2. CompactionInv /\ [CompactionNext]_compactionVars => CompactionInv'
  BY CompactionSteps
<1> QED
  BY <1>1, <1>2, PTL DEF CompactionSpec

\* The types of the window's state: every place of the window is a message of
\* the conversation so far, after any number of prunings and cuts.
THEOREM CompactionTypeCorrect == CompactionSpec => []CompactionTypeOK
<1>1. CompactionInv => CompactionTypeOK
  BY DEF CompactionInv
<1> QED
  BY <1>1, CompactionHolds, PTL

\* Whatever mix of messages, calls, prunings and cuts: without a given up
\* call the window between rounds is one a provider accepts and no compaction
\* is refused, what is kept fits, and a summary's window and summary hold the
\* whole conversation.
THEOREM WindowIsKept == CompactionSpec => []CompactionKeeps
<1>1. CompactionInv => CompactionKeeps
  BY DEF CompactionInv
<1> QED
  BY <1>1, CompactionHolds, PTL
=============================================================================
