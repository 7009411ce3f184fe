---------------------------- MODULE WorkspaceSync ----------------------------
(***************************************************************************)
(* The files of one user in object storage and the local copies of the      *)
(* servers that run his agents: download when a run starts, upload when it  *)
(* ends, and a manifest with the hashes of the last sync.                   *)
(*                                                                         *)
(*   capabilities/workspace/_remote.py               RemoteWorkspace         *)
(*   capabilities/workspace/{azure_blob,minio}       the storage             *)
(*                                                                         *)
(* Every file is synced on its own, so there is one.  A content is the      *)
(* number of its edit and stands for its hash; 0 is no file.                *)
(***************************************************************************)
EXTENDS Naturals

CONSTANTS
    Servers,    \* processes with a cache of their own
    MaxVersions \* bound: contents ever written

ASSUME WorkspaceSyncAssumption == MaxVersions \in Nat

VARIABLES
    local,      \* the file in each cache
    manifest,   \* its hash as of the last sync, on disk
    remote,     \* the object and the hash it carries, 0: none
    syncing,    \* what has the user's lock on each server
    phase,      \* how far it is
    listed,     \* what the listing of the store said
    scanned,    \* what the scan of the cache said
    entry,      \* the manifest in memory
    versions,   \* contents so far
    superseded, \* contents somebody edited over or deleted
    clobbered   \* contents the other side of a sync took the place of

workspaceSyncVars == <<local, manifest, remote, syncing, phase, listed, scanned,
                       entry, versions, superseded, clobbered>>

-----------------------------------------------------------------------------
Versions == 0..MaxVersions
NoObject == [id |-> 0, sha |-> 0]

WorkspaceSyncTypeOK ==
    /\ local \in [Servers -> Versions] /\ manifest \in [Servers -> Versions]
    /\ remote \in [id : Versions, sha : Versions]
    /\ syncing \in [Servers -> {"nothing", "download", "upload"}]
    /\ phase \in [Servers -> {"idle", "listed", "scanned", "moved"}]
    /\ listed \in [Servers -> [id : Versions, sha : Versions]]
    /\ scanned \in [Servers -> Versions] /\ entry \in [Servers -> Versions]
    /\ versions \in Versions
    /\ superseded \subseteq Versions /\ clobbered \subseteq Versions

WorkspaceSyncInit ==
    /\ local = [s \in Servers |-> 0] /\ manifest = [s \in Servers |-> 0]
    /\ remote = NoObject
    /\ syncing = [s \in Servers |-> "nothing"] /\ phase = [s \in Servers |-> "idle"]
    /\ listed = [s \in Servers |-> NoObject]
    /\ scanned = [s \in Servers |-> 0] /\ entry = [s \in Servers |-> 0]
    /\ versions = 0 /\ superseded = {} /\ clobbered = {}

\* The sync is over: its lock, listing and manifest in memory are gone.
Ends(s) ==
    /\ syncing' = [syncing EXCEPT ![s] = "nothing"] /\ phase' = [phase EXCEPT ![s] = "idle"]
    /\ listed' = [listed EXCEPT ![s] = NoObject]
    /\ scanned' = [scanned EXCEPT ![s] = 0] /\ entry' = [entry EXCEPT ![s] = 0]

Reaches(s, p) == phase' = [phase EXCEPT ![s] = p]

-----------------------------------------------------------------------------
(* download.                                                               *)

\* The user's lock is free; _list.
StartDownload(s) ==
    /\ syncing[s] = "nothing"
    /\ syncing' = [syncing EXCEPT ![s] = "download"] /\ Reaches(s, "listed")
    /\ listed' = [listed EXCEPT ![s] = remote]
    /\ UNCHANGED <<local, manifest, remote, scanned, entry, versions, superseded, clobbered>>

\* The manifest is read and the cache scanned.
Scan(s) ==
    /\ \/ syncing[s] = "download" /\ phase[s] = "listed" /\ UNCHANGED syncing
       \/ syncing[s] = "nothing" /\ syncing' = [syncing EXCEPT ![s] = "upload"]
    /\ scanned' = [scanned EXCEPT ![s] = local[s]]
    /\ entry' = [entry EXCEPT ![s] = manifest[s]] /\ Reaches(s, "scanned")
    /\ UNCHANGED <<local, manifest, remote, listed, versions, superseded, clobbered>>

\* The remote file differs, or carries no hash: it is taken, whatever was
\* done to the local one.
Takes(s) == listed[s].id # 0 /\ (listed[s].sha = 0 \/ scanned[s] # listed[s].sha)

Get(s) ==
    /\ syncing[s] = "download" /\ phase[s] = "scanned" /\ Takes(s) /\ remote.id # 0
    /\ local' = [local EXCEPT ![s] = remote.id]
    /\ clobbered' = clobbered \cup ({local[s]} \ {entry[s]})
    /\ entry' = [entry EXCEPT ![s] = remote.id] /\ Reaches(s, "moved")
    /\ UNCHANGED <<manifest, remote, syncing, listed, scanned, versions, superseded>>

\* Slip: what is not in the store is deleted here.
UnlinksAll(s) == listed[s].id = 0

\* Deleted in the store since the last sync, never a file made here.
Unlinks(s) == listed[s].id = 0 /\ entry[s] # 0 /\ scanned[s] = entry[s]

\* The file may have been edited since the scan.
KeepOrUnlink(s) ==
    /\ syncing[s] = "download" /\ phase[s] = "scanned" /\ ~Takes(s)
    /\ IF Unlinks(s)
       THEN /\ local' = [local EXCEPT ![s] = 0]
            /\ clobbered' = clobbered \cup ({local[s]} \ {scanned[s]})
       ELSE UNCHANGED <<local, clobbered>>
    /\ entry' = IF listed[s].id = 0 THEN [entry EXCEPT ![s] = 0] ELSE entry
    /\ Reaches(s, "moved")
    /\ UNCHANGED <<manifest, remote, syncing, listed, scanned, versions, superseded>>

-----------------------------------------------------------------------------
(* upload.                                                                 *)

\* The file of now is sent with the hash of the scan; the last upload wins.
Put(s) ==
    /\ syncing[s] = "upload" /\ phase[s] = "scanned"
    /\ scanned[s] # 0 /\ entry[s] # scanned[s] /\ local[s] # 0
    /\ clobbered' = clobbered \cup ({remote.id} \ {entry[s]})
    /\ remote' = [id |-> local[s], sha |-> scanned[s]]
    /\ entry' = [entry EXCEPT ![s] = scanned[s]] /\ Reaches(s, "moved")
    /\ UNCHANGED <<local, manifest, syncing, listed, scanned, versions, superseded>>

\* Removed here since the last sync, or nothing to do.
DeleteOrKeep(s) ==
    /\ syncing[s] = "upload" /\ phase[s] = "scanned" /\ scanned[s] \in {0, entry[s]}
    /\ IF scanned[s] = 0 /\ entry[s] # 0
       THEN remote' = NoObject /\ clobbered' = clobbered \cup ({remote.id} \ {entry[s]})
       ELSE UNCHANGED <<remote, clobbered>>
    /\ entry' = [entry EXCEPT ![s] = scanned[s]] /\ Reaches(s, "moved")
    /\ UNCHANGED <<local, manifest, syncing, listed, scanned, versions, superseded>>

-----------------------------------------------------------------------------
\* The manifest is written after the last file.
WriteManifest(s) ==
    /\ phase[s] = "moved"
    /\ manifest' = [manifest EXCEPT ![s] = entry[s]] /\ Ends(s)
    /\ UNCHANGED <<local, remote, versions, superseded, clobbered>>

\* The store fails, the file is gone, the task is cancelled or the process
\* dies: what moved has moved, the manifest stays as it was.
SyncStops(s) ==
    /\ syncing[s] # "nothing" /\ Ends(s)
    /\ UNCHANGED <<local, manifest, remote, versions, superseded, clobbered>>

\* A run or the user writes or deletes the file in a cache, at any time.
EditLocal(s, deletes) ==
    /\ IF deletes THEN local[s] # 0 ELSE versions < MaxVersions
    /\ versions' = IF deletes THEN versions ELSE versions + 1
    /\ local' = [local EXCEPT ![s] = IF deletes THEN 0 ELSE versions + 1]
    /\ superseded' = superseded \cup {local[s]}
    /\ UNCHANGED <<manifest, remote, syncing, phase, listed, scanned, entry, clobbered>>

\* Another program writes an object, without the hash, or deletes it.
EditRemote(deletes) ==
    /\ IF deletes THEN remote.id # 0 ELSE versions < MaxVersions
    /\ versions' = IF deletes THEN versions ELSE versions + 1
    /\ remote' = IF deletes THEN NoObject ELSE [id |-> versions + 1, sha |-> 0]
    /\ superseded' = superseded \cup {remote.id}
    /\ UNCHANGED <<local, manifest, syncing, phase, listed, scanned, entry, clobbered>>

WorkspaceSyncNext ==
    \/ \E s \in Servers :
          \/ StartDownload(s) \/ Scan(s) \/ Get(s) \/ KeepOrUnlink(s)
          \/ Put(s) \/ DeleteOrKeep(s) \/ WriteManifest(s) \/ SyncStops(s)
    \/ \E deletes \in BOOLEAN :
          EditRemote(deletes) \/ \E s \in Servers : EditLocal(s, deletes)

WorkspaceSyncSpec == WorkspaceSyncInit /\ [][WorkspaceSyncNext]_workspaceSyncVars

-----------------------------------------------------------------------------
\* Through failures and restarts a content is still in a cache or in the
\* store, unless somebody edited over it, or a sync found it where it did not
\* expect it: then the side the sync comes from wins (_remote.py: "the last
\* upload wins").  Above all a download never deletes a file made here.
SyncLosesNothing ==
    \A n \in (1..versions) \ (superseded \cup clobbered) :
        remote.id = n \/ \E s \in Servers : local[s] = n
=============================================================================
