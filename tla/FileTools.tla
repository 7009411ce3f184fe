------------------------------ MODULE FileTools ------------------------------
(***************************************************************************)
(* ReadFile, WriteFile, EditFile and DeleteFile on one file of a user, by   *)
(* the threads of several conversations, in one process or in two, while    *)
(* the user and the commands of the conversations write the same file.      *)
(*                                                                         *)
(*   capabilities/tools/file_system/_toolset.py      FileSystemTools         *)
(*   capabilities/workspace/local/_filesystem.py     UserFileSystem          *)
(*                                                                         *)
(* A file is its content (a number, 0: no file), its inode and its Stamp.   *)
(* The steps of an operation are the system calls between which another     *)
(* process can write; what fails changes nothing and only ends it.          *)
(***************************************************************************)
EXTENDS Naturals

CONSTANTS
    Talks,       \* conversations of the user
    Sizes,       \* sizes a content can have
    MaxContents, \* bound: contents ever written
    MaxTicks     \* bound: ticks of the file system's clock

ASSUME FileToolsAssumption ==
    Sizes \subseteq Nat /\ MaxContents \in Nat /\ MaxTicks \in Nat

VARIABLES
    process,    \* the process each conversation is served by
    file,       \* the file on disk
    tick,       \* the clock that stamps it
    written,    \* contents so far
    stamps,     \* RunContext.file_reads of each conversation, for this file
    known,      \* the contents its transcript shows
    doing,      \* the operation under way in its thread
    stage,      \* where it is
    opened,     \* the file as it was opened or checked
    lost,       \* contents a tool replaced that its conversation had not seen
    used,       \* stamps the file has had
    unstamped   \* contents written where a stamp can not tell

fileToolsVars == <<process, file, tick, written, stamps, known, doing,
                   stage, opened, lost, used, unstamped>>

-----------------------------------------------------------------------------
ContentIds == 0..MaxContents
Files == [id : ContentIds, inode : ContentIds, mtime : 0..MaxTicks, size : Sizes \cup {0}]
Gone == [id |-> 0, inode |-> 0, mtime |-> 0, size |-> 0]
Unread == <<>>

\* stamp_of: what a conversation remembers of the file.
Stamp(f) == <<f.mtime, f.size>>
Stamps == (0..MaxTicks) \X (Sizes \cup {0})
Ops == {"none", "read", "write", "edit", "delete"}

FileToolsTypeOK ==
    /\ process \in [Talks -> {1, 2}]
    /\ file \in Files /\ tick \in 0..MaxTicks /\ written \in ContentIds
    /\ stamps \in [Talks -> Stamps \cup {Unread}]
    /\ known \in [Talks -> SUBSET ContentIds]
    /\ doing \in [Talks -> Ops]
    /\ stage \in [Talks -> {"idle", "opened", "checked", "replaced"}]
    /\ opened \in [Talks -> Files]
    /\ used \subseteq Stamps /\ lost \subseteq ContentIds /\ unstamped \subseteq ContentIds

FileToolsInit ==
    /\ process \in [Talks -> {1, 2}] /\ \E t \in Talks : process[t] = 1
    /\ file = Gone /\ tick = 0 /\ written = 0
    /\ stamps = [t \in Talks |-> Unread] /\ known = [t \in Talks |-> {0}]
    /\ doing = [t \in Talks |-> "none"] /\ stage = [t \in Talks |-> "idle"]
    /\ opened = [t \in Talks |-> Gone] /\ lost = {} /\ used = {} /\ unstamped = {}

\* Slip: every conversation has a lock of its own.
NoPathLock(t) == TRUE

\* _path_lock: one operation that writes in each process; a read takes none.
PathLock(t) ==
    \A u \in Talks \ {t} : process[u] = process[t] => doing[u] \in {"none", "read"}

\* The operation is over, well or with an error.
Done(t) ==
    /\ doing' = [doing EXCEPT ![t] = "none"] /\ stage' = [stage EXCEPT ![t] = "idle"]
    /\ opened' = [opened EXCEPT ![t] = Gone]

At(t, op, where, f) ==
    /\ doing' = [doing EXCEPT ![t] = op] /\ stage' = [stage EXCEPT ![t] = where]
    /\ opened' = [opened EXCEPT ![t] = f]

\* Another process is between a look at the file and what it does on it.
Watched(t) == \E u \in Talks : process[u] # process[t] /\ stage[u] \in {"checked", "replaced"}

\* A new content takes the place of the file; sameInode: written in place.
\* Inside another operation's last window, or within a tick of a content of the
\* same size, a Stamp can not tell the two apart.
NewFile(size, sameInode, seen) ==
    /\ written < MaxContents /\ written' = written + 1
    /\ file' = [id |-> written + 1, mtime |-> tick, size |-> size,
                inode |-> IF sameInode /\ file.id # 0 THEN file.inode ELSE written + 1]
    /\ used' = used \cup {<<tick, size>>}
    /\ unstamped' = IF seen \/ <<tick, size>> \in used
                 THEN unstamped \cup {written + 1} ELSE unstamped

-----------------------------------------------------------------------------
(* ReadFile.                                                               *)

OpenToRead(t) ==
    /\ doing[t] = "none" /\ file.id # 0
    /\ At(t, "read", "opened", file)
    /\ UNCHANGED <<process, file, tick, written, stamps, known, lost, used, unstamped>>

\* Slip: the file is stamped when it has been read.
ReadStampedAfter(t) ==
    /\ doing[t] = "read" /\ file.id # 0
    /\ stamps' = [stamps EXCEPT ![t] = Stamp(file)]
    /\ known' = [known EXCEPT ![t] = @ \cup {opened[t].id}]
    /\ Done(t)
    /\ UNCHANGED <<process, file, tick, written, lost, used, unstamped>>

\* The stamp is that of the open; the text is that of the inode it opened,
\* which somebody may have written meanwhile.
ReadFile(t) ==
    /\ doing[t] = "read"
    /\ stamps' = [stamps EXCEPT ![t] = Stamp(opened[t])]
    /\ known' = [known EXCEPT ![t] = @ \cup
                    {IF file.inode = opened[t].inode THEN file.id ELSE opened[t].id}]
    /\ Done(t)
    /\ UNCHANGED <<process, file, tick, written, lost, used, unstamped>>

-----------------------------------------------------------------------------
(* What a tool does to the file.                                           *)

\* os.link takes the name only when it is free: nothing is replaced.
LinkNew(t, size) ==
    /\ file.id = 0 /\ NewFile(size, FALSE, Watched(t))
    /\ known' = [known EXCEPT ![t] = @ \cup {written + 1}]
    /\ At(t, "write", "replaced", Gone)
    /\ UNCHANGED lost

\* WriteFile of a file that is new to the conversation, or was read and is
\* gone since.
Create(t, size) ==
    /\ doing[t] = "none" /\ PathLock(t)
    /\ stamps[t] = Unread \/ file.id = 0
    /\ LinkNew(t, size)
    /\ UNCHANGED <<process, tick, stamps>>

\* _check_stamp
CheckStamp(t) == file.id # 0 /\ stamps[t] = Stamp(file)

\* WriteFile of a file that was read.
Overwrite(t) ==
    /\ doing[t] = "none" /\ PathLock(t)
    /\ CheckStamp(t)
    /\ At(t, "write", "checked", file)
    /\ UNCHANGED <<process, file, tick, written, stamps, known, lost, used, unstamped>>

\* EditFile and DeleteFile want the last read and read the file themselves.
OpenToChange(t, op) ==
    /\ doing[t] = "none" /\ PathLock(t)
    /\ CheckStamp(t)
    /\ At(t, op, "opened", file)
    /\ UNCHANGED <<process, file, tick, written, stamps, known, lost, used, unstamped>>

\* "file changed while it was being edited": inode, size and mtime.
StatAgain(t) ==
    /\ doing[t] \in {"edit", "delete"} /\ stage[t] = "opened"
    /\ IF /\ file.id # 0 /\ file.inode = opened[t].inode
          /\ Stamp(file) = Stamp(opened[t])
       THEN At(t, doing[t], "checked", file)
       ELSE Done(t)
    /\ UNCHANGED <<process, file, tick, written, stamps, known, lost, used, unstamped>>

\* What a tool takes away without having seen it.
Replaces(t) == lost' = IF file.id \in known[t] THEN lost ELSE lost \cup {file.id}

\* os.replace of the temporary file.
Replace(t, size) ==
    /\ doing[t] \in {"write", "edit"} /\ stage[t] = "checked"
    /\ NewFile(size, FALSE, Watched(t)) /\ Replaces(t)
    /\ known' = [known EXCEPT ![t] = @ \cup {written + 1}]
    /\ At(t, doing[t], "replaced", Gone)
    /\ UNCHANGED <<process, tick, stamps>>

\* The new stamp is read back from the path.
StatBack(t) ==
    /\ stage[t] = "replaced"
    /\ stamps' = [stamps EXCEPT ![t] = IF file.id = 0 THEN @ ELSE Stamp(file)]
    /\ Done(t)
    /\ UNCHANGED <<process, file, tick, written, known, lost, used, unstamped>>

DeleteFile(t) ==
    /\ doing[t] = "delete" /\ stage[t] = "checked"
    /\ file' = Gone /\ Replaces(t)
    /\ stamps' = [stamps EXCEPT ![t] = Unread]
    /\ Done(t)
    /\ UNCHANGED <<process, tick, written, known, used, unstamped>>

-----------------------------------------------------------------------------
(* Around the tools.                                                       *)

\* The user or a command, which no lock of the tools holds back.
WrittenOutside(size, sameInode) ==
    /\ NewFile(size, sameInode, \E t \in Talks : stage[t] \in {"checked", "replaced"})
    /\ UNCHANGED <<process, tick, stamps, known, doing, stage, opened, lost>>

DeletedOutside ==
    /\ file.id # 0 /\ file' = Gone
    /\ UNCHANGED <<process, tick, written, stamps, known, doing, stage,
                   opened, lost, used, unstamped>>

ClockTicks ==
    /\ tick < MaxTicks /\ tick' = tick + 1
    /\ UNCHANGED <<process, file, written, stamps, known, doing, stage,
                   opened, lost, used, unstamped>>

FileToolsNext ==
    \/ \E t \in Talks :
          \/ OpenToRead(t) \/ ReadFile(t) \/ Overwrite(t)
          \/ StatAgain(t) \/ StatBack(t) \/ DeleteFile(t)
          \/ \E op \in {"edit", "delete"} : OpenToChange(t, op)
          \/ \E size \in Sizes : Create(t, size) \/ Replace(t, size)
    \/ \E size \in Sizes, sameInode \in BOOLEAN : WrittenOutside(size, sameInode)
    \/ DeletedOutside \/ ClockTicks

FileToolsSpec == FileToolsInit /\ [][FileToolsNext]_fileToolsVars

-----------------------------------------------------------------------------
\* A tool replaces or deletes only what its conversation has read or written
\* (constant.py: "You must read a file before you edit, overwrite or delete
\* it"), unless somebody without the lock wrote it in the last instant
\* or a stamp can not tell it from the content before it.
NothingUnreadReplaced == lost \subseteq unstamped
=============================================================================
