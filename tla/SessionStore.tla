----------------------------- MODULE SessionStore -----------------------------
(***************************************************************************)
(* One conversation in the local session store: a file with the RunContext  *)
(* and one for the listing, each written by way of a temporary file of a    *)
(* fixed name, in threads that go on when their task is cancelled.          *)
(*                                                                         *)
(*   base/session_store.py                           CoreSessionStore        *)
(*   capabilities/session_store/local/_store.py      LocalSessionStore       *)
(***************************************************************************)
EXTENDS Naturals

CONSTANTS
    Callers,    \* tasks and processes that save or delete the session
    MaxSaves    \* bound: states of the conversation ever saved

ASSUME SessionStoreAssumption == MaxSaves \in Nat

VARIABLES
    body,       \* <session>.json
    meta,       \* <session>.meta.json
    bodyTmp,    \* <session>.json.tmp
    metaTmp,    \* <session>.meta.json.tmp
    saving,     \* what each caller's thread is doing
    saves,      \* states of the conversation so far
    kept,       \* the last one whose save returned, 0 after a delete
    overlapped  \* two calls on the session were under way at once

sessionStoreVars == <<body, meta, bodyTmp, metaTmp, saving, saves, kept, overlapped>>

-----------------------------------------------------------------------------
\* A file has the state it was written from; whole when the writer is done.
NoFile == [of |-> 0, whole |-> TRUE]
Idle == [step |-> "idle", of |-> 0]
Saving(step, n) == [step |-> step, of |-> n]

SessionSteps == {"idle", "body", "bodyTmp", "bodyFull", "meta", "metaTmp", "metaFull",
                 "deleteMeta", "deleteBody"}

SessionStoreTypeOK ==
    /\ {body, meta, bodyTmp, metaTmp} \subseteq [of : 0..MaxSaves, whole : BOOLEAN]
    /\ saving \in [Callers -> [step : SessionSteps, of : 0..MaxSaves]]
    /\ saves \in 0..MaxSaves /\ kept \in 0..MaxSaves /\ overlapped \in BOOLEAN

SessionStoreInit ==
    /\ body = NoFile /\ meta = NoFile /\ bodyTmp = NoFile /\ metaTmp = NoFile
    /\ saving = [c \in Callers |-> Idle] /\ saves = 0 /\ kept = 0
    /\ overlapped = FALSE

Now(c, step) == saving' = [saving EXCEPT ![c].step = step]

\* Slip: the listing is written before the conversation.
MetaFirst == "meta"

\* The first file of a save.
FirstFile == "body"

\* Slip: a delete takes the conversation first and the listing after it.
BodyFirst == "deleteBody"

\* The first file of a delete.
FirstDeleted == "deleteMeta"

Other(step) ==
    CASE step = "body" -> "meta" [] step = "meta" -> "body"
      [] step = "deleteMeta" -> "deleteBody" [] step = "deleteBody" -> "deleteMeta"

\* After a file: the other one, or the call returns.
NextFile(c, step, first) ==
    IF step = first THEN Now(c, Other(step)) /\ UNCHANGED kept
    ELSE saving' = [saving EXCEPT ![c] = Idle] /\ kept' = saving[c].of

-----------------------------------------------------------------------------
\* A caller begins; a call whose task was cancelled goes on in its thread.
Overlaps(c) == overlapped' = (overlapped \/ \E d \in Callers \ {c} : saving[d] # Idle)

\* save: the conversation as it is now.
BeginSave(c) ==
    /\ saving[c] = Idle /\ saves < MaxSaves
    /\ saves' = saves + 1 /\ saving' = [saving EXCEPT ![c] = Saving(FirstFile, saves + 1)]
    /\ Overlaps(c)
    /\ UNCHANGED <<body, meta, bodyTmp, metaTmp, kept>>

\* delete
BeginDelete(c) ==
    /\ saving[c] = Idle /\ saving' = [saving EXCEPT ![c] = Saving(FirstDeleted, 0)]
    /\ Overlaps(c)
    /\ UNCHANGED <<body, meta, bodyTmp, metaTmp, saves, kept>>

\* write_text opens the temporary file, and empties the one that is there ...
OpenTmp(c) ==
    /\ saving[c].step \in {"body", "meta"}
    /\ IF saving[c].step = "body"
       THEN bodyTmp' = [of |-> saving[c].of, whole |-> FALSE] /\ Now(c, "bodyTmp") /\ UNCHANGED metaTmp
       ELSE metaTmp' = [of |-> saving[c].of, whole |-> FALSE] /\ Now(c, "metaTmp") /\ UNCHANGED bodyTmp
    /\ UNCHANGED <<body, meta, saves, kept, overlapped>>

\* ... and fills it, unless another writer of the same name has it by now.
FillTmp(c) ==
    \/ /\ saving[c].step = "bodyTmp" /\ Now(c, "bodyFull")
       /\ bodyTmp' = IF bodyTmp.of = saving[c].of THEN [bodyTmp EXCEPT !.whole = TRUE] ELSE bodyTmp
       /\ UNCHANGED <<body, meta, metaTmp, saves, kept, overlapped>>
    \/ /\ saving[c].step = "metaTmp" /\ Now(c, "metaFull")
       /\ metaTmp' = IF metaTmp.of = saving[c].of THEN [metaTmp EXCEPT !.whole = TRUE] ELSE metaTmp
       /\ UNCHANGED <<body, meta, bodyTmp, saves, kept, overlapped>>

\* os.replace; without the temporary file it raises.
Publish(c) ==
    \/ /\ saving[c].step = "bodyFull"
       /\ IF bodyTmp = NoFile
          THEN saving' = [saving EXCEPT ![c] = Idle] /\ UNCHANGED <<body, bodyTmp, kept>>
          ELSE body' = bodyTmp /\ bodyTmp' = NoFile /\ NextFile(c, "body", FirstFile)
       /\ UNCHANGED <<meta, metaTmp, saves, overlapped>>
    \/ /\ saving[c].step = "metaFull"
       /\ IF metaTmp = NoFile
          THEN saving' = [saving EXCEPT ![c] = Idle] /\ UNCHANGED <<meta, metaTmp, kept>>
          ELSE meta' = metaTmp /\ metaTmp' = NoFile /\ NextFile(c, "meta", FirstFile)
       /\ UNCHANGED <<body, bodyTmp, saves, overlapped>>

\* _delete: unlink of the listing, then of the conversation.
Unlink(c) ==
    \/ /\ saving[c].step = "deleteMeta" /\ meta' = NoFile
       /\ NextFile(c, "deleteMeta", FirstDeleted)
       /\ UNCHANGED <<body, bodyTmp, metaTmp, saves, overlapped>>
    \/ /\ saving[c].step = "deleteBody" /\ body' = NoFile
       /\ NextFile(c, "deleteBody", FirstDeleted)
       /\ UNCHANGED <<meta, bodyTmp, metaTmp, saves, overlapped>>

\* The process dies, or the disk is full: the files stay as they are.
SaveDies(c) ==
    /\ saving[c] # Idle /\ saving' = [saving EXCEPT ![c] = Idle]
    /\ UNCHANGED <<body, meta, bodyTmp, metaTmp, saves, kept, overlapped>>

SessionStoreNext ==
    \E c \in Callers :
       \/ BeginSave(c) \/ BeginDelete(c) \/ OpenTmp(c) \/ FillTmp(c)
       \/ Publish(c) \/ Unlink(c) \/ SaveDies(c)

SessionStoreSpec == SessionStoreInit /\ [][SessionStoreNext]_sessionStoreVars

-----------------------------------------------------------------------------
\* While the calls on a session come one after the other, whatever crashes
\* between two steps: both files are whole ("readers never see half a file"),
\* a listed session can be loaded and is not older than its listing, and a
\* save that returned is there until a delete begins.
SessionReadable ==
    ~overlapped =>
        /\ body.whole /\ meta.whole
        /\ meta.of <= body.of
        /\ kept <= body.of \/ \E c \in Callers : saving[c].step \in {"deleteMeta", "deleteBody"}
=============================================================================
