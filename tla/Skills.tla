-------------------------------- MODULE Skills --------------------------------
(***************************************************************************)
(* One file of a skill on its way from the source, through the cache that   *)
(* all registries of the source share, to a user's folder, where the user   *)
(* and the agent may edit it.  A manifest keeps the hash each file had when *)
(* it was last brought.                                                     *)
(*                                                                         *)
(*   base/skills.py                               CoreSkillBase             *)
(*   capabilities/skills/{local,github}/_registry.py                        *)
(***************************************************************************)
EXTENDS Naturals

CONSTANTS
    SkillRegistries,  \* registry objects of the same source, in any process
    Versions,         \* contents the source gives the file
    Edits             \* contents a user or an agent gives it

ASSUME SkillsAssumption ==
    /\ Versions \subseteq Nat \ {0} /\ Edits \subseteq Nat \ {0} /\ Versions \cap Edits = {}

VARIABLES
    source,       \* the file in the source, 0: not there
    cached,       \* the cache has the skill
    cachedFile,   \* and in it the file
    prepared,     \* registries that prepared it
    fetching,     \* those that emptied the cache and did not fill it yet
    installed,    \* the user has a folder of the skill
    localFile,    \* and in it the file
    manifest,     \* the manifest's hash of the file, 0: no entry
    edited,       \* the file is as a user left it
    forgotten,    \* the manifest had no entry of a file a user edited
    interrupted,  \* the process died between a file and the manifest
    overwritten,  \* an edit was lost
    leftBehind    \* a file nobody edited did not follow the source

skillsVars == <<source, cached, cachedFile, prepared, fetching, installed, localFile, manifest,
                edited, forgotten, interrupted, overwritten, leftBehind>>
cacheVars == <<cached, cachedFile, prepared, fetching>>
folderVars == <<installed, localFile, manifest, edited, forgotten, interrupted, overwritten, leftBehind>>

-----------------------------------------------------------------------------
SkillsTypeOK ==
    /\ source \in {0} \cup Versions /\ cachedFile \in {0} \cup Versions
    /\ prepared \subseteq SkillRegistries /\ fetching \subseteq SkillRegistries
    /\ {localFile, manifest} \subseteq {0} \cup Versions \cup Edits
    /\ {cached, installed, edited, forgotten, interrupted, overwritten, leftBehind} \subseteq BOOLEAN

\* A folder from before there were manifests has none.
SkillsInit ==
    /\ source \in {0} \cup Versions
    /\ cached = FALSE /\ cachedFile = 0 /\ prepared = {} /\ fetching = {}
    /\ installed \in BOOLEAN /\ localFile \in IF installed THEN {0} \cup Versions ELSE {0}
    /\ manifest = 0 /\ edited = FALSE
    /\ forgotten = FALSE /\ interrupted = FALSE /\ overwritten = FALSE /\ leftBehind = FALSE

-----------------------------------------------------------------------------
ReleaseSource(v) ==
    /\ v # source /\ source' = v
    /\ UNCHANGED <<cacheVars, folderVars>>

\* connect of a local registry empties the cache, prepared or not.
ConnectSkills(r) ==
    /\ cached' = FALSE /\ cachedFile' = 0
    /\ UNCHANGED <<source, prepared, fetching, folderVars>>

\* prepare: the skill's folder is removed from the cache ...
Prepare(r) ==
    /\ r \notin prepared \cup fetching
    /\ cached' = FALSE /\ cachedFile' = 0 /\ fetching' = fetching \cup {r}
    /\ UNCHANGED <<source, prepared, folderVars>>

\* ... and copied from the source, or from a clone of it ...
DownloadSkill(r) ==
    /\ r \in fetching
    /\ cached' = TRUE /\ cachedFile' = source
    /\ fetching' = fetching \ {r} /\ prepared' = prepared \cup {r}
    /\ UNCHANGED <<source, folderVars>>

\* ... unless the skill is not there, git fails, or another registry filled
\* the cache meanwhile.
DownloadFails(r) ==
    /\ r \in fetching /\ fetching' = fetching \ {r}
    /\ UNCHANGED <<source, cached, cachedFile, prepared, folderVars>>

\* Without a SKILL.md, or with one that can not be read, it is not prepared,
\* but cached.
SkillInvalid(r) ==
    /\ r \in fetching /\ fetching' = fetching \ {r}
    /\ cached' = TRUE /\ cachedFile' = source
    /\ UNCHANGED <<source, prepared, folderVars>>

\* A file with the content the manifest has is no edit.
EditFile(x) ==
    /\ installed /\ localFile # x
    /\ localFile' = x /\ edited' = (x = 0 \/ x # manifest) /\ forgotten' = FALSE
    /\ UNCHANGED <<source, cacheVars, installed, manifest, interrupted, overwritten, leftBehind>>

-----------------------------------------------------------------------------
(* materialize.                                                            *)

\* A cache that is not there reads as a skill without files.
SourceFile == IF cached THEN cachedFile ELSE 0

\* Slip: whatever the user did with the file.
TreatedAsUntouched == TRUE

\* The file is as it was when it was last brought.
Untouched == localFile = manifest

FileSynced ==
    IF SourceFile # 0
    THEN IF localFile = 0 THEN IF manifest = 0 THEN SourceFile ELSE 0
         ELSE IF manifest # 0 /\ Untouched THEN SourceFile
         ELSE localFile
    ELSE IF manifest # 0 /\ Untouched THEN 0 ELSE localFile

\* The entry goes with the file; a file without one is adopted as it is; an
\* entry of a file that was edited stays, until the source drops the file.
ManifestSynced ==
    IF SourceFile = 0 THEN 0
    ELSE IF manifest = 0 THEN IF localFile = 0 THEN SourceFile ELSE localFile
    ELSE IF localFile # 0 /\ Untouched THEN SourceFile
    ELSE manifest

\* What a materialize that leaves the file as "file" means for its edits;
\* "done": the manifest was written too.
Judged(file, done) ==
    /\ forgotten' = (edited /\ (forgotten \/ manifest = 0))
    /\ edited' = (edited /\ file = localFile)
    /\ interrupted' = (interrupted \/ ~done)
    /\ overwritten' = (overwritten \/ (edited /\ ~forgotten /\ manifest # 0 /\ file # localFile))
    /\ leftBehind' = (\/ leftBehind
                      \/ done /\ cached /\ manifest # 0 /\ ~edited /\ ~interrupted /\ file # cachedFile)

\* The first time: a copy of the cached folder.
Install(r, done) ==
    /\ r \in prepared /\ ~installed /\ cached
    /\ installed' = TRUE /\ localFile' = cachedFile
    /\ manifest' = IF done THEN cachedFile ELSE 0
    /\ Judged(cachedFile, done)
    /\ UNCHANGED <<source, cacheVars>>

\* After that, file by file, and the manifest at the end.
SyncSkill(r, done) ==
    /\ r \in prepared /\ installed
    /\ localFile' = FileSynced
    /\ manifest' = IF done THEN ManifestSynced ELSE manifest
    /\ Judged(FileSynced, done)
    /\ UNCHANGED <<source, cacheVars, installed>>

SkillsNext ==
    \/ \E v \in {0} \cup Versions : ReleaseSource(v)
    \/ \E x \in {0} \cup Edits : EditFile(x)
    \/ \E r \in SkillRegistries :
          \/ ConnectSkills(r) \/ Prepare(r) \/ DownloadSkill(r) \/ DownloadFails(r) \/ SkillInvalid(r)
          \/ \E done \in BOOLEAN : Install(r, done) \/ SyncSkill(r, done)

SkillsSpec == SkillsInit /\ [][SkillsNext]_skillsVars

-----------------------------------------------------------------------------
\* A file that a user or an agent edited or deleted is left alone, as long as
\* the manifest remembers what it was (it forgets when the source drops the
\* file, or the cache is empty for a moment).  A file nobody edited follows the
\* source, unless a process died between the file and the manifest: its entry
\* then never matches again.
SkillFilesRight == ~overwritten /\ ~leftBehind
=============================================================================
