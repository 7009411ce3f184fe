------------------------------ MODULE FilePaths ------------------------------
(***************************************************************************)
(* Which files the file tools reach by which path, and what ListDirectory,  *)
(* FindFiles and SearchFile show of a user's tree.                          *)
(*                                                                         *)
(*   capabilities/tools/file_system/_toolset.py      FileSystemTools         *)
(*   capabilities/workspace/local/_filesystem.py     UserFileSystem          *)
(*                                                                         *)
(* A path is a sequence of names below the user's folder.  The order in     *)
(* which scandir gives the entries is not modelled: a walk that stops at a  *)
(* limit may have seen any of them.                                         *)
(***************************************************************************)
EXTENDS Naturals, FiniteSets, Sequences, SequencesExt

CONSTANTS
    Nodes,      \* what a user's folder can hold: [path, kind]
    DotNames,   \* names that begin with a dot
    TempNames,  \* names of the temporary files of _write_temp
    BadNames,   \* segments a path may not have: empty, ".", ".."
    ScanFiles,  \* MAX_SCANNED_FILES
    ScanEntries,\* _MAX_SCAN_ENTRIES
    ScanDepth,  \* _MAX_SCAN_DEPTH
    SearchBytes \* MAX_SEARCH_TOTAL_BYTES, in files

ASSUME FilePathsAssumption ==
    /\ \A n \in Nodes :
          /\ n.kind \in {"dir", "file", "long", "hard", "link"}
          /\ n.path \in Seq(STRING) \ {<<>>}
          /\ \A i \in DOMAIN n.path : n.path[i] \notin BadNames
    /\ BadNames \subseteq STRING
    /\ TempNames \subseteq DotNames
    /\ {ScanFiles, ScanEntries, ScanDepth, SearchBytes} \subseteq Nat

VARIABLES
    tree,       \* the nodes that exist
    asked,      \* the last question: the tool, the path and the limit
    answer      \* and what it showed: paths and truncated

filePathsVars == <<tree, asked, answer>>

-----------------------------------------------------------------------------
(* Paths.                                                                  *)

Blocked == {"tools", "artifacts"}

\* _visible_parts
Visible(p) ==
    /\ \A i \in DOMAIN p : p[i] \notin BadNames \cup TempNames
    /\ \A i \in 1..(Len(p) - 1) : p[i] \notin DotNames
    /\ p # <<>> => Head(p) \notin Blocked

\* Slip: what the tools return is taken for a path in the workspace.
InWorkspace(p) == <<"workspace">> \o p

\* _as_given: paths are accepted as the tools return them.
AsGiven(p) == IF p # <<>> /\ Head(p) = "workspace" THEN Tail(p) ELSE p

\* _workspace_path
WorkspacePath(p) ==
    LET q == AsGiven(p)
    IN  IF q # <<>> /\ Head(q) = "skills" THEN q ELSE <<"workspace">> \o q

SearchRoot(p) == IF p = <<>> THEN <<>> ELSE WorkspacePath(p)

-----------------------------------------------------------------------------
(* The tree.                                                               *)

Paths == {n.path : n \in tree}
Kind(p) == (CHOOSE n \in tree : n.path = p).kind
Exists(p) == p \in Paths
IsDir(p) == p = <<>> \/ (Exists(p) /\ Kind(p) = "dir")
Regular(p) == Exists(p) /\ Kind(p) \in {"file", "long"}

\* _open_parent_fd: no link and no dot directory on the way.
Reachable(p) == \A i \in 0..(Len(p) - 1) : IsDir(SubSeq(p, 1, i))

\* _open_regular_file
Readable(p) == p # <<>> /\ Visible(p) /\ Reachable(p) /\ Regular(p)

\* list_files and scan_files: entries of a directory that are passed over.
Skipped(p) ==
    \/ Len(p) = 1 /\ p[1] \in Blocked
    \/ Last(p) \in TempNames
    \/ Kind(p) \in {"link", "hard"}
    \/ Kind(p) = "dir" /\ Last(p) \in DotNames

Entries(dir) == {p \in Paths : Len(p) = Len(dir) + 1 /\ IsPrefix(dir, p)}

\* The directories the walk from dir goes into.
Walked(dir) ==
    {d \in Paths \cup {<<>>} :
        /\ IsPrefix(dir, d) /\ IsDir(d) /\ Len(d) <= Len(dir) + ScanDepth
        /\ \A i \in (Len(dir) + 1)..Len(d) : ~Skipped(SubSeq(d, 1, i))}

WalkedEntries(dir) == UNION {Entries(d) : d \in Walked(dir)}
FilesBelow(dir) == {p \in WalkedEntries(dir) : ~Skipped(p) /\ Regular(p)}

\* A directory that can be asked for by its path.
Listable(p) ==
    Visible(p) /\ Reachable(p) /\ IsDir(p) /\ (p # <<>> => Last(p) \notin DotNames)

\* The walk ends before it has seen everything.
WalkStops(dir) ==
    \/ Cardinality(WalkedEntries(dir)) > ScanEntries
    \/ Cardinality(FilesBelow(dir)) > ScanFiles
    \/ \E p \in WalkedEntries(dir) :
          ~Skipped(p) /\ IsDir(p) /\ Len(p) > Len(dir) + ScanDepth

Few(files, n) == {s \in SUBSET files : Cardinality(s) <= n}

\* scan_files: what it may return for a path that has no error.
Scans(p) ==
    IF Regular(p) THEN {[paths |-> {p}, truncated |-> FALSE]}
    ELSE IF ~Exists(p) /\ p # <<>> THEN {[paths |-> {}, truncated |-> FALSE]}
    ELSE IF WalkStops(p)
         THEN {[paths |-> s, truncated |-> TRUE] : s \in Few(FilesBelow(p), ScanFiles)}
    ELSE {[paths |-> FilesBelow(p), truncated |-> FALSE]}

\* A path that raises: outside the scope, through a link, or neither a
\* regular file nor a directory.  One that does not exist does not raise.
Refused(p) ==
    \/ ~Visible(p)
    \/ Exists(p) /\ ~Listable(p) /\ ~Readable(p)
    \/ ~Reachable(p) /\ Exists(p)

\* Slip: an answer below its limit is taken for complete.
CutBelow(files, truncated, limit) ==
    LET n == IF Cardinality(files) > limit THEN limit ELSE Cardinality(files)
    IN  {[paths |-> s, truncated |-> Cardinality(files) > limit] :
            s \in {t \in SUBSET files : Cardinality(t) = n}}

\* Cut to the limit of the question.
Cut(files, truncated, limit) ==
    IF Cardinality(files) > limit
    THEN {[paths |-> s, truncated |-> TRUE] :
             s \in {t \in SUBSET files : Cardinality(t) = limit}}
    ELSE {[paths |-> files, truncated |-> truncated]}

-----------------------------------------------------------------------------
\* What the model asks for: a path as it knows it or as a tool returned it.
Asks == {n.path : n \in Nodes} \cup {AsGiven(n.path) : n \in Nodes} \cup {<<>>}
            \cup {<<b>> : b \in BadNames}

Limits == {1, ScanFiles}

\* A folder holds a node only together with the folders above it.
FilePathsInit ==
    /\ tree \in {t \in SUBSET Nodes :
                    \A n \in t : Len(n.path) > 1 =>
                        \E d \in t : d.path = Front(n.path) /\ d.kind = "dir"}
    /\ \A m, n \in tree : m.path = n.path => m = n
    /\ asked = [tool |-> "none", path |-> <<>>]
    /\ answer = [paths |-> {}, truncated |-> FALSE]

Answers(tool, p, a) ==
    /\ asked' = [tool |-> tool, path |-> p] /\ answer' = a /\ UNCHANGED tree

\* list_files sees ScanEntries entries of one directory.
ListDirectory(p, limit) ==
    LET dir == WorkspacePath(p)
        shown == {e \in Entries(dir) : ~Skipped(e)}
    IN  /\ Visible(AsGiven(p)) /\ ~Refused(dir)
        /\ IF Regular(dir) \/ ~Exists(dir)
           THEN Answers("ListDirectory", dir,
                        [paths |-> {dir} \cap Paths, truncated |-> FALSE])
           ELSE \E seen \in IF Cardinality(Entries(dir)) > ScanEntries
                            THEN Few(shown, ScanEntries) ELSE {shown} :
                \E a \in Cut(seen, Cardinality(Entries(dir)) > ScanEntries, limit) :
                    Answers("ListDirectory", dir, a)

\* The matches of the pattern are any of the files found.
FindFiles(p, limit) ==
    LET root == SearchRoot(p)
    IN  /\ Visible(p) /\ ~Refused(root)
        /\ \E found \in Scans(root) : \E a \in Cut(found.paths, found.truncated, limit) :
               Answers("FindFiles", root, a)

\* SearchFile with a pattern every line matches; a long file is searched in
\* its first MAX_SEARCH_FILE_BYTES, and not at all when they end in the
\* middle of a character.
SearchFile(p, limit) ==
    LET root == SearchRoot(p)
    IN  /\ Visible(p) /\ ~Refused(root)
        /\ \E found \in Scans(root) :
           \E read \in IF Cardinality(found.paths) > SearchBytes
                       THEN {s \in SUBSET found.paths : Cardinality(s) = SearchBytes}
                       ELSE {found.paths} :
           \E unread \in SUBSET {q \in read : Kind(q) = "long"} :
           \E a \in Cut(read \ unread, found.truncated \/ read # found.paths, limit) :
               Answers("SearchFile", root, a)

FilePathsNext ==
    /\ asked.tool = "none"
    /\ \E p \in Asks, limit \in Limits :
           ListDirectory(p, limit) \/ FindFiles(p, limit) \/ SearchFile(p, limit)

FilePathsSpec == FilePathsInit /\ [][FilePathsNext]_filePathsVars

-----------------------------------------------------------------------------
ShownFiles == {p \in answer.paths : Regular(p)}

\* The tools accept the paths they return (constant.py: "Paths that tools
\* return, like workspace/reports/q3.md, work too"): what is shown can be read
\* under the name it is shown by.  Not so, in the code, for a folder of the
\* workspace that is itself called skills, and for files beside workspace.
ShownCanBeRead ==
    \A p \in ShownFiles :
        \/ Readable(WorkspacePath(p)) /\ WorkspacePath(p) = p
        \/ Head(p) \notin {"workspace", "skills"}
        \/ Len(p) > 1 /\ p[1] = "workspace" /\ p[2] = "skills"

\* An answer that does not say truncated shows every file the tools could
\* read there, the long files of SearchFile aside.
TruncatedOrComplete ==
    asked.tool \in {"FindFiles", "SearchFile"} /\ ~answer.truncated =>
        \A p \in Paths :
            /\ IsPrefix(asked.path, p) /\ Readable(p)
            /\ asked.tool = "SearchFile" => Kind(p) # "long"
            => p \in answer.paths

\* What the tools tell of the workspace can be used, and is all there is.
PathsAreTold == ShownCanBeRead /\ TruncatedOrComplete
=============================================================================
