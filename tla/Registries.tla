------------------------------ MODULE Registries ------------------------------
(***************************************************************************)
(* One category of a user's memories, or the blocks of a knowledge source:  *)
(* a row for each session (block), with the vector of its text for searches *)
(* by meaning.  A search awaits the embedding between its read and the      *)
(* vectors it stores, while other sessions write, and shows the closest few  *)
(* of the rows it has ranked.                                               *)
(*                                                                         *)
(*   base/memory.py, base/knowledge.py                                       *)
(*   capabilities/{memory,knowledge}/{local,sqlite,mongodb}/_registry.py     *)
(***************************************************************************)
EXTENDS Naturals, FiniteSets

CONSTANTS
    Rows,          \* sessions with a memory of the category, or blocks
    Askers,        \* bound: the sessions that search
    Texts,         \* what they can say
    MaxWrites,     \* bound: writes, the clock of "updated"
    ContextWindow, \* context_days, on that clock
    SearchLimits,  \* what a registry may be set to: results, candidates, min_score
    Closeness      \* the similarity of an asked text and of a vector's text

\* No record yet in get_context.
NobodysRow == "nobody"

ASSUME RegistriesAssumption ==
    /\ IsFiniteSet(Rows) /\ NobodysRow \notin Rows /\ Askers \subseteq Rows
    /\ Texts \subseteq Nat \ {0} /\ Texts # {} /\ MaxWrites \in Nat /\ ContextWindow \in Nat
    /\ SearchLimits \subseteq [results : Nat \ {0}, candidates : Nat \ {0}, score : Nat]
    /\ Closeness \in [Texts \X Texts -> Nat]

VARIABLES
    registry,   \* what it stores, where, and within which limits
    embeds,     \* the registry objects that have an embedding
    memories,   \* the rows
    asking,     \* what the task of each session does
    writes,     \* clock
    raced,      \* rows whose vector was stored for a text they no longer have
    missed      \* rows a search should have found and did not

registriesVars == <<registry, embeds, memories, asking, writes, raced, missed>>

-----------------------------------------------------------------------------
\* A row: its text (0: there is none), the text its vector stands for (0: no
\* vector), the model of the vector and the time of the write.
Models == {"none", "earlier", "current"}
NoMemory == [text |-> 0, vector |-> 0, model |-> "none", updated |-> 0]
Memory == [text : {0} \cup Texts, vector : {0} \cup Texts, model : Models, updated : 0..MaxWrites]

NoVectors == [r \in Rows |-> NoMemory]
Quiet == [step |-> "idle", text |-> 0, updated |-> 0, seen |-> NoVectors, rows |-> {}, left |-> {},
          raced |-> {}]

RegistryKinds ==
    [holds : {"memory", "knowledge"}, backend : {"local", "sqlite", "mongodb"}, limits : SearchLimits]

RegistriesTypeOK ==
    /\ registry \in RegistryKinds
    /\ embeds \subseteq Rows /\ memories \in [Rows -> Memory] /\ writes \in 0..MaxWrites
    /\ raced \subseteq Rows /\ missed \subseteq Rows
    /\ \A r \in Rows :
          /\ asking[r].step \in {"idle", "write", "embed", "rank"}
          /\ asking[r].text \in {0} \cup Texts /\ asking[r].updated \in 0..MaxWrites
          /\ asking[r].seen \in [Rows -> Memory]
          /\ asking[r].rows \subseteq Rows /\ asking[r].left \subseteq Rows
          /\ asking[r].raced \subseteq Rows

Stored(r) == memories[r].text # 0

\* One text is as good as another.
OldText == CHOOSE x \in Texts : TRUE

\* Rows from before: with the vector of an earlier model, or with none.  The
\* knowledge of SQLite and of files can not do without an embedding.
RegistriesInit ==
    /\ registry \in RegistryKinds
    /\ embeds \in SUBSET Rows
    /\ registry.holds = "knowledge" /\ registry.backend # "mongodb" => embeds = Rows
    /\ \E old \in SUBSET Rows, model \in {"none", "earlier"} :
          /\ registry.backend = "local" => model = "none"
          /\ memories = [r \in Rows |->
                 IF r \notin old THEN NoMemory
                 ELSE [text |-> OldText, vector |-> IF model = "none" THEN 0 ELSE OldText,
                       model |-> model, updated |-> 0]]
    /\ asking = [r \in Rows |-> Quiet] /\ writes = 0 /\ raced = {} /\ missed = {}

-----------------------------------------------------------------------------
(* create_or_update, upsert_block, delete.                                 *)

\* The record has its time before the embedding is awaited.
BeginWrite(r, x) ==
    /\ asking[r] = Quiet /\ writes < MaxWrites
    /\ writes' = writes + 1
    /\ asking' = [asking EXCEPT ![r] = [Quiet EXCEPT !.step = "write", !.text = x, !.updated = writes + 1]]
    /\ UNCHANGED <<registry, embeds, memories, raced, missed>>

\* The file of a session has no vectors.
FileRow(r) ==
    [text |-> asking[r].text, vector |-> 0, model |-> "none", updated |-> asking[r].updated]

\* Slip: a row that exists keeps its vector when its text is replaced.
KeepsVector(r) == [memories[r] EXCEPT !.text = asking[r].text, !.updated = asking[r].updated]

\* SQLite replaces the vector with the text, or with none.
SQLiteRow(r) ==
    IF r \in embeds THEN [FileRow(r) EXCEPT !.vector = asking[r].text, !.model = "current"]
    ELSE FileRow(r)

\* $set names only what the document has: without an embedding the vector
\* that was there stays.
MongoRow(r) ==
    IF r \in embeds THEN SQLiteRow(r)
    ELSE [memories[r] EXCEPT !.text = asking[r].text, !.updated = asking[r].updated]

RowWritten(r) ==
    CASE registry.backend = "local"   -> FileRow(r)
      [] registry.backend = "sqlite"  -> SQLiteRow(r)
      [] registry.backend = "mongodb" -> MongoRow(r)

Writes(r) ==
    /\ asking[r].step = "write"
    /\ memories' = [memories EXCEPT ![r] = RowWritten(r)]
    /\ raced' = IF r \notin embeds /\ registry.backend = "mongodb" /\ memories[r].vector # 0
                THEN raced \cup {r} ELSE raced \ {r}
    /\ asking' = [asking EXCEPT ![r] = Quiet]
    /\ UNCHANGED <<registry, embeds, writes, missed>>

StoreMemory(r) == registry.holds = "memory" /\ Writes(r)

\* The blocks of a local source are written by hand.
UpsertBlock(r) == registry.holds = "knowledge" /\ Writes(r)

Deletes(r) ==
    /\ asking[r] = Quiet /\ Stored(r)
    /\ memories' = [memories EXCEPT ![r] = NoMemory] /\ raced' = raced \ {r}
    /\ UNCHANGED <<registry, embeds, asking, writes, missed>>

ForgetMemory(r) == registry.holds = "memory" /\ Deletes(r)

DeleteBlock(r) == registry.holds = "knowledge" /\ Deletes(r)

\* The embedding or the database raises: nothing was written.
RegistryFails(r) ==
    /\ asking[r] # Quiet /\ asking' = [asking EXCEPT ![r] = Quiet]
    /\ UNCHANGED <<registry, embeds, memories, writes, raced, missed>>

-----------------------------------------------------------------------------
(* search_memory, search: by meaning.                                      *)

\* A session searches the memories of the others, a source all its blocks.
Searched(r) == IF registry.holds = "memory" THEN Rows \ {r} ELSE Rows

NeedsVector(m) == m.text # 0 /\ (m.vector = 0 \/ m.model # "current")

\* Only so many rows are ranked: by SQLite the newest memories, by MongoDB
\* when it has no vector index, of a source then any.
Capped ==
    \/ registry.backend = "mongodb"
    \/ registry.backend = "sqlite" /\ registry.holds = "memory"

CandidatesOf(S) ==
    {rows \in SUBSET S :
        \/ /\ rows = S
           /\ Capped /\ registry.backend = "sqlite" => Cardinality(S) <= registry.limits.candidates
        \/ /\ Capped /\ Cardinality(rows) = registry.limits.candidates
           /\ registry.holds = "memory" =>
                 \A x \in rows, y \in S \ rows : memories[y].updated <= memories[x].updated}

\* The others rank the rows they read first, MongoDB those it finds when the
\* vectors are there.
FirstRead(r) ==
    IF registry.backend = "mongodb" THEN {{}} ELSE CandidatesOf({x \in Searched(r) : Stored(x)})

LastRead(r) ==
    IF registry.backend = "mongodb" THEN CandidatesOf({x \in Searched(r) : memories[x].model = "current"})
    ELSE {asking[r].rows}

\* MongoDB embeds whatever the user has, SQLite what it is about to rank.
Unembedded(rows) ==
    CASE registry.backend = "local"   -> {}
      [] registry.backend = "sqlite"  -> {x \in rows : NeedsVector(memories[x])}
      [] registry.backend = "mongodb" -> {x \in Rows : NeedsVector(memories[x])}

BeginSearch(r, x) ==
    /\ asking[r] = Quiet /\ r \in embeds \cap Askers
    /\ \E rows \in FirstRead(r) :
          asking' = [asking EXCEPT ![r] =
              [step |-> IF Unembedded(rows) = {} THEN "rank" ELSE "embed", text |-> x, updated |-> 0,
               seen |-> memories, rows |-> rows, left |-> Unembedded(rows), raced |-> raced]]
    /\ UNCHANGED <<registry, embeds, memories, writes, raced, missed>>

\* The vectors of "now" are stored in the rows that are still there, whatever
\* text these have by then.
VectorsFor(r, now) ==
    [x \in Rows |-> IF x \in now /\ Stored(x)
                    THEN [memories[x] EXCEPT !.vector = asking[r].seen[x].text, !.model = "current"]
                    ELSE memories[x]]

\* SQLite in one transaction, MongoDB one document at a time.
SaveVectors(r) ==
    /\ asking[r].step = "embed"
    /\ \E now \in SUBSET asking[r].left :
          /\ IF registry.backend = "mongodb" THEN Cardinality(now) = 1 ELSE now = asking[r].left
          /\ memories' = VectorsFor(r, now)
          /\ raced' = {x \in raced \cup now :
                          IF x \in now THEN Stored(x) /\ memories[x].text # asking[r].seen[x].text
                          ELSE x \in raced}
          /\ asking' = [asking EXCEPT ![r].left = @ \ now,
                                      ![r].step = IF asking[r].left = now THEN "rank" ELSE "embed"]
    /\ UNCHANGED <<registry, embeds, writes, missed>>

\* MongoDB reads the rows and their vectors now, the others have read them.
ShownRow(r, x) == IF registry.backend = "mongodb" THEN memories[x] ELSE asking[r].seen[x]

VectorUsed(r, x) ==
    IF registry.backend = "local" \/ (registry.backend = "sqlite" /\ NeedsVector(ShownRow(r, x)))
    THEN ShownRow(r, x).text
    ELSE ShownRow(r, x).vector

\* No vector is like none.
Similarity(r, x) == IF x = 0 THEN 0 ELSE Closeness[asking[r].text, x]

\* rank: the closest above min_score, cut to the number of results.
Ranked(r, rows) ==
    LET score(x) == Similarity(r, VectorUsed(r, x))
        close == {x \in rows : score(x) > registry.limits.score}
    IN  {found \in SUBSET close :
            /\ \/ found = close /\ Cardinality(close) <= registry.limits.results
               \/ Cardinality(found) = registry.limits.results
            /\ \A x \in found, y \in close \ found : score(y) <= score(x)}

\* Rows whose vector may not be that of their text.
Strays(r) == raced \cup asking[r].raced

\* A row close enough to what was asked that was not written during the search.
Relevant(r, x) ==
    /\ x \in Searched(r) \ Strays(r) /\ Stored(x)
    /\ asking[r].seen[x].text = memories[x].text /\ asking[r].seen[x].updated = memories[x].updated
    /\ Similarity(r, memories[x].text) > registry.limits.score

\* Its place was taken: among the candidates, by newer memories, or in the
\* answer by rows that say something as close.
PassedOver(r, x, rows) ==
    /\ Capped /\ x \notin rows /\ Cardinality(rows) = registry.limits.candidates
    /\ registry.holds = "memory" => \A y \in rows : ShownRow(r, x).updated <= ShownRow(r, y).updated

Outranked(r, x, found) ==
    /\ Cardinality(found) = registry.limits.results
    /\ \A y \in found \ Strays(r) :
          Similarity(r, memories[x].text) <= Similarity(r, ShownRow(r, y).text)

EndSearch(r) ==
    /\ asking[r].step = "rank"
    /\ \E rows \in LastRead(r) : \E found \in Ranked(r, rows) :
          missed' = {x \in Rows \ found :
              Relevant(r, x) /\ ~PassedOver(r, x, rows) /\ ~Outranked(r, x, found)}
    /\ asking' = [asking EXCEPT ![r] = Quiet]
    /\ UNCHANGED <<registry, embeds, memories, writes, raced>>

RegistriesNext ==
    \E r \in Rows :
       \/ \E x \in Texts : BeginWrite(r, x) \/ BeginSearch(r, x)
       \/ StoreMemory(r) \/ UpsertBlock(r) \/ ForgetMemory(r) \/ DeleteBlock(r)
       \/ RegistryFails(r)
       \/ SaveVectors(r) \/ EndSearch(r)

RegistriesSpec == RegistriesInit /\ [][RegistriesNext]_registriesVars

-----------------------------------------------------------------------------
(* get_context.                                                            *)

StoredRows == {r \in Rows : Stored(r)}

\* The records come in any order.
ReadOrders ==
    {order \in [1..Cardinality(StoredRows) -> StoredRows] :
        \A r \in StoredRows : \E i \in DOMAIN order : order[i] = r}

Preferred(s, kept, r) ==
    \/ kept = NobodysRow
    \/ kept # s /\ (r = s \/ memories[r].updated > memories[kept].updated)

\* The record that is kept after the first i.
KeptRow(s, order) ==
    LET kept[i \in 0..Cardinality(StoredRows)] ==
            IF i = 0 THEN NobodysRow
            ELSE IF Preferred(s, kept[i - 1], order[i]) THEN order[i] ELSE kept[i - 1]
    IN  kept

ChosenRow(s, order) == KeptRow(s, order)[Cardinality(StoredRows)]

WithinDays(r) == memories[r].updated + ContextWindow >= writes

InContext(s, order) == {r \in {ChosenRow(s, order)} \ {NobodysRow} : WithinDays(r)}

\* A search by meaning finds every row close enough to what was asked, unless
\* the answer is full of rows that say something as close, the candidates are
\* full of newer ones, or its vector was stored for a text it no longer has: by
\* a search that read the row before it was rewritten, or in MongoDB by a write
\* without an embedding.
SearchesFindAll == missed = {}

\* The context of a session has its own memory or, when it has none, the
\* newest recent one, in whatever order the records are read.
ContextHasNewest ==
    registry.holds = "memory" => \A s \in Rows, order \in ReadOrders :
       IF Stored(s) THEN InContext(s, order) = {r \in {s} : WithinDays(r)}
       ELSE \A r \in Rows : Stored(r) /\ WithinDays(r) =>
               \E c \in InContext(s, order) : memories[c].updated >= memories[r].updated

\* A user's memories reach the user's sessions, by the context and by searches
\* within their limits.
MemoriesReach == SearchesFindAll /\ ContextHasNewest
=============================================================================
