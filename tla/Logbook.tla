------------------------------- MODULE Logbook -------------------------------
(***************************************************************************)
(* The observations an agent writes for later sessions: kept in a table by  *)
(* the SQLite registry, and by the local one in a list of its own.          *)
(*                                                                         *)
(*   capabilities/context/{sqlite,local}/_registry.py                       *)
(***************************************************************************)
EXTENDS Naturals, Sequences, SequencesExt

CONSTANTS
    Tags,             \* of observations
    MaxObservations   \* bound

ASSUME LogbookAssumption == MaxObservations \in Nat

VARIABLES
    logbook,      \* which registry it is
    observations, \* newest first
    noted         \* observations ever written

logbookVars == <<logbook, observations, noted>>

-----------------------------------------------------------------------------
Observation == [id : 1..MaxObservations, tags : SUBSET Tags]

LogbookTypeOK ==
    /\ logbook \in {"sqlite", "local"} /\ noted \in 0..MaxObservations
    /\ observations \in Seq(Observation) /\ Len(observations) <= noted

LogbookInit == logbook \in {"sqlite", "local"} /\ observations = <<>> /\ noted = 0

\* One transaction, or an insertion at the front of the list.
WriteObservation(tags) ==
    /\ noted < MaxObservations /\ noted' = noted + 1
    /\ observations' = <<[id |-> noted + 1, tags |-> tags]>> \o observations
    /\ UNCHANGED logbook

\* Another process, or the same one later: the list starts empty.
RestartLogbook ==
    /\ observations' = IF logbook = "sqlite" THEN observations ELSE <<>>
    /\ UNCHANGED <<logbook, noted>>

\* Any of the tags will do, and without tags any observation.
Fits(o, tags) == tags = {} \/ o.tags \cap tags # {}

\* Those that fit among the first i, for each i: the loop over the records.
Fitting(records, tags) ==
    LET fits[i \in 0..Len(records)] ==
            IF i = 0 THEN <<>>
            ELSE IF Fits(records[i], tags) THEN Append(fits[i - 1], records[i]) ELSE fits[i - 1]
    IN  fits

Tagged(records, tags) == Fitting(records, tags)[Len(records)]

AtMost(records, limit) == SubSeq(records, 1, IF limit < Len(records) THEN limit ELSE Len(records))

\* Slip: the local registry too picks by tag after the limit.
TaggedLast(limit, tags) == Tagged(AtMost(observations, limit), tags)

RecalledLocally(limit, tags) == AtMost(Tagged(observations, tags), limit)

\* SELECT has the limit; the tags are looked at afterwards.
RecalledFromTable(limit, tags) == Tagged(AtMost(observations, limit), tags)

GetObservations(limit, tags) ==
    IF logbook = "sqlite" THEN RecalledFromTable(limit, tags) ELSE RecalledLocally(limit, tags)

LogbookNext == RestartLogbook \/ \E tags \in SUBSET Tags : WriteObservation(tags)

LogbookSpec == LogbookInit /\ [][LogbookNext]_logbookVars

-----------------------------------------------------------------------------
\* What an agent recalls by tag are the newest observations with one of the
\* tags, as many as it asked for.  The SQLite registry may return fewer of
\* them, or none, once there are more observations than the limit: then it
\* misses older ones only, and never one without a tag asked for.
ObservationsRecalled ==
    \A limit \in 1..MaxObservations, tags \in SUBSET Tags :
       LET wanted == AtMost(Tagged(observations, tags), limit)
           got    == GetObservations(limit, tags)
       IN  /\ IsPrefix(got, wanted)
           /\ (logbook = "local" \/ tags = {} \/ Len(observations) <= limit) => got = wanted
           /\ logbook = "sqlite" /\ tags = {} => Len(got) = IF limit < noted THEN limit ELSE noted
=============================================================================
