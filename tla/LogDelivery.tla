------------------------------ MODULE LogDelivery ----------------------------
(***************************************************************************)
(* The way of a log record from a chunk of the gateway to the stores: the  *)
(* Fluent Bit output plugin that cuts a chunk into XLOG frames and retries *)
(* the whole chunk (out_xsiam_log), the HTTP handler that decodes a frame, *)
(* routes its rows through the ETL rules and writes them to the data lake  *)
(* and to ArangoDB (ingest.Handler, etl.Pipeline), and the in-memory       *)
(* window of the dedup action (etl.Deduplicator).                          *)
(*                                                                         *)
(* Several chunks are flushed at once, each by a coroutine of its own and  *)
(* a handler of its own; they share the stores and the dedup window.       *)
(*                                                                         *)
(* A record is its identity; one row is one unit of the compressed data.   *)
(* What the transforming actions do to an entry is left out: only the      *)
(* actions that can drop it are kept.  The retry policy is Fluent Bit's.   *)
(***************************************************************************)
EXTENDS Naturals, Sequences, FiniteSets

CONSTANTS
    Flushes,     \* the chunks, each with its flush coroutine
    Chunk,       \* Chunk[f]: the records of chunk f, in order
    Collections, \* ArangoDB collections the rules name
    Tags,        \* values of session_protocol
    AgentOf,     \* AgentOf[r]: the agent_id the record carries
    TagOf,       \* TagOf[r]: the session_protocol the record carries
    Rules,       \* Rules[t][r]: the rules that apply to r in a frame tagged t
    Keys,        \* values of the fields dedup looks at
    NoKey,       \* the empty value of a dedup field
    MaxRows,     \* max_batch_rows
    Rooms,       \* how many rows, compressed, a TLV of 0xFFFF bytes may hold
    RetryLimit,  \* retry_limit of the output instance
    Hazards      \* what may go wrong: subset of {"lake", "db", "net", "crash"}

Records == UNION {{Chunk[f][i] : i \in DOMAIN Chunk[f]} : f \in Flushes}

Modes == {"both", "raw_only", "etl_only"}
Acts == {"pass", "drop_event", "dedup"}

\* Of a compiled rule: raw_write_mode, the action that may drop the entry and
\* the value of its dedup field, and the sinks of its output.
RuleSet ==
    [mode : Modes, act : Acts, key : Keys \cup {NoKey}, ngx : BOOLEAN, cols : SUBSET Collections]

ASSUME DeliveryAssumption ==
    /\ MaxRows \in Nat \ {0}
    /\ Rooms \subseteq Nat
    /\ RetryLimit \in Nat
    /\ NoKey \notin Keys
    /\ \A f \in Flushes : Chunk[f] \in Seq(Records) /\ Chunk[f] # << >>
    /\ TagOf \in [Records -> Tags]
    /\ Rules \in [Tags -> [Records -> Seq(RuleSet)]]

\* A record is in one place of one chunk.
ASSUME DistinctRecords ==
    \A f, g \in Flushes : \A i \in DOMAIN Chunk[f], j \in DOMAIN Chunk[g] :
        Chunk[f][i] = Chunk[g][j] => f = g /\ i = j

VARIABLES
    lakeOn,  \* DATALAKE_ENABLED: the handler has a lakeClient; never changes
    room,    \* what a TLV holds of these rows; never changes
    pc,      \* pc[f]: the flush: "queued", "rows", "post", "wait", "acked", "dropped"
    tries,   \* how often cb_flush has been called with the chunk
    pos,     \* records decoded in this call
    batch,   \* the rows in tsv
    hpc,     \* the handler of the frame f has posted
    results, \* what Pipeline.Process returned for the rows so far
    left,    \* collections of arangoGroups not yet written
    seen,    \* the keys in the dedup window
    lake,    \* entries in the data lake
    docs,    \* docs[r][c]: documents of record r in collection c
    ackTag,  \* history: ackTag[f][i], the tag of the accepted frame with row i
    missed   \* history: records a failed call may have kept out of the lake

plugin == <<pc, tries, pos, batch, ackTag>>
handler == <<hpc, results, left>>
stores == <<lake, docs, missed>>
site == <<lakeOn, room>>
vars == <<site, plugin, handler, seen, stores>>

-----------------------------------------------------------------------------
(* etl.Pipeline.Process: the fold over the rules that apply. *)

\* The dedup keys the first n rules of the chain have marked.
Marks(chain, n) == {chain[j].key : j \in {k \in 1 .. n : chain[k].act = "dedup"}} \ {NoKey}

\* Rule i of the chain drops the entry.
Drops(chain, i, window) ==
    \/ chain[i].act = "drop_event"
    \/ chain[i].act = "dedup" /\ chain[i].key \in window \cup Marks(chain, i - 1)

\* Rule i ends the chain: nothing after it is applied.
Stops(chain, i, window) == chain[i].mode = "raw_only" \/ Drops(chain, i, window)

\* The rules that are applied, the one that ends the chain included.
Applied(chain, window) ==
    {i \in DOMAIN chain : \A j \in 1 .. i - 1 : ~Stops(chain, j, window)}

\* Mutant: the default mode suppresses the raw event as etl_only does.
Process_NoRaw(chain, window) ==
    [raw  |-> chain = << >>,
     ngx  |-> chain # << >> /\ chain[Len(chain)].ngx,
     cols |-> IF chain = << >> THEN {} ELSE chain[Len(chain)].cols]

\* Where the entry goes: raw_<tag> of the lake, the ETL index of the lake,
\* and collections.
Process(chain, window) ==
    LET through == chain # << >> /\ \A i \in DOMAIN chain : ~Stops(chain, i, window)
    IN  [raw  |-> \A i \in Applied(chain, window) :
                     \/ chain[i].mode = "raw_only"
                     \/ chain[i].mode = "both" /\ ~Drops(chain, i, window),
         ngx  |-> through /\ chain[Len(chain)].ngx,
         cols |-> IF through THEN chain[Len(chain)].cols ELSE {}]

\* Mutant: the empty value of a field is a key like any other.
Marked_EmptyKey(chain, window) ==
    {chain[i].key : i \in {j \in Applied(chain, window) :
                              chain[j].act = "dedup" /\ ~Stops(chain, j, window)}}

\* The keys Process adds to the window.  An empty value is none.
Marked(chain, window) ==
    {chain[i].key : i \in {j \in Applied(chain, window) :
                              chain[j].act = "dedup" /\ ~Stops(chain, j, window)}} \ {NoKey}

-----------------------------------------------------------------------------
(* The frame. *)

\* Tag and agent in the header are those of the last row.
FrameTag(rows) == TagOf[rows[Len(rows)]]

\* Mutant: the agent of the frame's first row is kept.
FrameAgent_First(rows) == AgentOf[rows[1]]

FrameAgent(rows) == AgentOf[rows[Len(rows)]]

\* The data TLV: a 16-bit length, and the value behind a 32-bit length when
\* that is too small.
Encode(rows) ==
    [len |-> Len(rows) % (room + 1),
     val |-> IF Len(rows) <= room THEN rows ELSE <<"u32">> \o rows]

\* DecodeBatch takes len units for the value, and what is left for more TLVs;
\* decompress accepts exactly the compressed rows.
Decodes(tlv) == Len(tlv.val) = tlv.len

\* The rules that apply to row i of frame rows.
ChainOf(rows, i) == Rules[FrameTag(rows)][rows[i]]

\* Rows of f's frame that go to raw_<tag>, to the ETL index, to collection c.
\* Without a lakeClient the raw ones are counted, and go nowhere.
RawRows(f) == {i \in DOMAIN results[f] : lakeOn /\ results[f][i].raw}
NgxRows(f) == {i \in DOMAIN results[f] : lakeOn /\ results[f][i].ngx}
Group(f, c) == {i \in DOMAIN results[f] : c \in results[f][i].cols}

-----------------------------------------------------------------------------
Init ==
    /\ lakeOn \in BOOLEAN
    /\ room \in Rooms
    /\ pc = [f \in Flushes |-> "queued"]
    /\ tries = [f \in Flushes |-> 0]
    /\ pos = [f \in Flushes |-> 0]
    /\ batch = [f \in Flushes |-> << >>]
    /\ hpc = [f \in Flushes |-> "idle"]
    /\ results = [f \in Flushes |-> << >>]
    /\ left = [f \in Flushes |-> {}]
    /\ seen = {}
    /\ lake = {}
    /\ docs = [r \in Records |-> [c \in Collections |-> 0]]
    /\ ackTag = [f \in Flushes |-> << >>]
    /\ missed = {}

(* The output plugin. *)

\* Mutant: the attempt is not counted.
CbFlush_NoCount(f) ==
    /\ pc[f] = "queued"
    /\ pc' = [pc EXCEPT ![f] = "rows"]
    /\ pos' = [pos EXCEPT ![f] = 0]
    /\ batch' = [batch EXCEPT ![f] = << >>]
    /\ ackTag' = [ackTag EXCEPT ![f] = << >>]
    /\ UNCHANGED <<site, tries, handler, seen, stores>>

\* Fluent Bit calls cb_flush with the chunk, the first time or again.
CbFlush(f) ==
    /\ pc[f] = "queued"
    /\ pc' = [pc EXCEPT ![f] = "rows"]
    /\ tries' = [tries EXCEPT ![f] = @ + 1]
    /\ pos' = [pos EXCEPT ![f] = 0]
    /\ batch' = [batch EXCEPT ![f] = << >>]
    /\ ackTag' = [ackTag EXCEPT ![f] = << >>]
    /\ UNCHANGED <<site, handler, seen, stores>>

\* The next record becomes a row; a full batch, or the end of the chunk, is
\* to be sent.
AppendRow(f) ==
    /\ pc[f] = "rows"
    /\ pos' = [pos EXCEPT ![f] = @ + 1]
    /\ batch' = [batch EXCEPT ![f] = Append(@, Chunk[f][pos[f] + 1])]
    /\ pc' = IF Len(batch'[f]) >= MaxRows \/ pos'[f] = Len(Chunk[f])
             THEN [pc EXCEPT ![f] = "post"]
             ELSE pc
    /\ UNCHANGED <<site, tries, ackTag, handler, seen, stores>>

\* send_xlog_frame posts the frame, and the service starts a handler.
Post(f) ==
    /\ pc[f] = "post"
    /\ pc' = [pc EXCEPT ![f] = "wait"]
    /\ hpc' = [hpc EXCEPT ![f] = "decode"]
    /\ UNCHANGED <<site, tries, pos, batch, ackTag, results, left, seen, stores>>

\* FLB_RETRY: the chunk is put back, or given up after RetryLimit retries.
Again(f) == IF tries[f] <= RetryLimit THEN "queued" ELSE "dropped"

\* The call returns before anything is posted: FLB_RETRY without memory or a
\* connection, FLB_ERROR, which gives the chunk up, if its data cannot be
\* decoded (at the start) or compressed.
PostFails(f) ==
    /\ "net" \in Hazards
    /\ pc[f] = "post" \/ (pc[f] = "rows" /\ pos[f] = 0)
    /\ \E next \in {Again(f), "dropped"} : pc' = [pc EXCEPT ![f] = next]
    /\ UNCHANGED <<site, tries, pos, batch, ackTag, handler, seen, stores>>

\* Mutant: the row that filled the frame stays in tsv.
Accepted_KeepsLast(f) ==
    /\ pc' = [pc EXCEPT ![f] = IF pos[f] = Len(Chunk[f]) THEN "acked" ELSE "rows"]
    /\ ackTag' = [ackTag EXCEPT ![f] = @ \o [i \in DOMAIN batch[f] |-> FrameTag(batch[f])]]
    /\ batch' = [batch EXCEPT ![f] = <<@[Len(@)]>>]

\* Status 204: the rows are dropped from tsv, and the loop goes on.
Accepted(f) ==
    /\ pc' = [pc EXCEPT ![f] = IF pos[f] = Len(Chunk[f]) THEN "acked" ELSE "rows"]
    /\ ackTag' = [ackTag EXCEPT ![f] = @ \o [i \in DOMAIN batch[f] |-> FrameTag(batch[f])]]
    /\ batch' = [batch EXCEPT ![f] = << >>]

\* Any other status: the call returns, and the whole chunk is flushed again.
Refused(f) ==
    /\ pc' = [pc EXCEPT ![f] = Again(f)]
    /\ UNCHANGED <<ackTag, batch>>

\* The handlers of the flushes in F are gone, with their local variables.
HandlerEnds(F) ==
    /\ hpc' = [f \in Flushes |-> IF f \in F THEN "idle" ELSE hpc[f]]
    /\ results' = [f \in Flushes |-> IF f \in F THEN << >> ELSE results[f]]
    /\ left' = [f \in Flushes |-> IF f \in F THEN {} ELSE left[f]]

\* The response arrives.
Answer(f) ==
    /\ \/ hpc[f] = "204" /\ Accepted(f)
       \/ hpc[f] \in {"400", "500"} /\ Refused(f)
    /\ HandlerEnds({f})
    /\ UNCHANGED <<site, tries, pos, seen, stores>>

\* The connection breaks before the response is read: the request's context
\* is cancelled, and no call of the handler succeeds any more.
ConnectionLost(f) ==
    /\ "net" \in Hazards
    /\ pc[f] = "wait"
    /\ pc' = [pc EXCEPT ![f] = Again(f)]
    /\ HandlerEnds({f})
    /\ UNCHANGED <<site, tries, pos, batch, ackTag, seen, stores>>

-----------------------------------------------------------------------------
(* The handler. *)

\* handleBinary up to process.
HandleBinary(f) ==
    /\ hpc[f] = "decode"
    /\ hpc' = [hpc EXCEPT ![f] = IF Decodes(Encode(batch[f])) THEN "route" ELSE "400"]
    /\ results' = [results EXCEPT ![f] = << >>]
    /\ UNCHANGED <<site, plugin, left, seen, stores>>

\* One row: buildEntry and Pipeline.Process.
Route(f) ==
    LET i == Len(results[f]) + 1
        chain == ChainOf(batch[f], i)
    IN  /\ hpc[f] = "route"
        /\ results' = [results EXCEPT ![f] = Append(@, Process(chain, seen))]
        /\ seen' = seen \cup Marked(chain, seen)
        /\ hpc' = [hpc EXCEPT ![f] = IF i = Len(batch[f]) THEN "raw" ELSE "route"]
        /\ UNCHANGED <<site, plugin, left, stores>>

\* The lake entries of rows of f's frame, under an index: entryToHEC.
Entries(f, rows, index) ==
    {[rec |-> batch[f][i], agent |-> FrameAgent(batch[f]), index |-> index] : i \in rows}

\* Client.Ingest of rows: all of them, or an error that is only logged, after
\* which the lake has all of them or none.
Ingest(f, rows, index) ==
    \/ /\ lake' = lake \cup Entries(f, rows, index)
       /\ UNCHANGED missed
    \/ /\ "lake" \in Hazards /\ rows # {}
       /\ lake' \in {lake, lake \cup Entries(f, rows, index)}
       /\ missed' = missed \cup {batch[f][i] : i \in rows}

\* The raw events.
FlushRaw(f) ==
    /\ hpc[f] = "raw"
    /\ Ingest(f, RawRows(f), FrameTag(batch[f]))
    /\ hpc' = [hpc EXCEPT ![f] = "etl"]
    /\ UNCHANGED <<site, plugin, results, left, seen, docs>>

\* The events of the ETL index.
FlushEtl(f) ==
    /\ hpc[f] = "etl"
    /\ Ingest(f, NgxRows(f), "etl")
    /\ hpc' = [hpc EXCEPT ![f] = "arango"]
    /\ left' = [left EXCEPT ![f] = {c \in Collections : Group(f, c) # {}}]
    /\ UNCHANGED <<site, plugin, results, seen, docs>>

\* One document more of every row in rows of f's frame in c.
Inserted(f, c, rows) ==
    [r \in Records |->
        IF \E i \in rows : batch[f][i] = r
        THEN [docs[r] EXCEPT ![c] = @ + 1]
        ELSE docs[r]]

\* Mutant: a failed insert is logged, as a failed Ingest is.
BulkCreateFails_Logged(f, c) ==
    /\ "db" \in Hazards
    /\ hpc[f] = "arango" /\ c \in left[f]
    /\ left' = [left EXCEPT ![f] = @ \ {c}]
    /\ UNCHANGED <<site, plugin, hpc, results, seen, stores>>

\* LogEntryRepo.BulkCreate for one of the groups, in the order of a Go map.
BulkCreate(f, c) ==
    /\ hpc[f] = "arango" /\ c \in left[f]
    /\ docs' = Inserted(f, c, Group(f, c))
    /\ left' = [left EXCEPT ![f] = @ \ {c}]
    /\ UNCHANGED <<site, plugin, hpc, results, seen, lake, missed>>

\* One of its insert requests fails; the ones before it, and perhaps the one
\* that failed, have been applied.  The other groups are not written.
BulkCreateFails(f, c) ==
    /\ "db" \in Hazards
    /\ hpc[f] = "arango" /\ c \in left[f]
    /\ \E n \in 0 .. Len(batch[f]) : docs' = Inserted(f, c, {i \in Group(f, c) : i <= n})
    /\ hpc' = [hpc EXCEPT ![f] = "500"]
    /\ UNCHANGED <<site, plugin, results, left, seen, lake, missed>>

\* process has returned without an error.
Processed(f) ==
    /\ hpc[f] = "arango" /\ left[f] = {}
    /\ hpc' = [hpc EXCEPT ![f] = "204"]
    /\ UNCHANGED <<site, plugin, results, left, seen, stores>>

-----------------------------------------------------------------------------
\* A key leaves the dedup window.
WindowExpires(k) ==
    /\ k \in seen
    /\ seen' = seen \ {k}
    /\ UNCHANGED <<site, plugin, handler, stores>>

\* The service dies and is restarted: requests fail, the window is lost.
ServiceCrash ==
    /\ "crash" \in Hazards
    /\ pc' = [f \in Flushes |-> IF pc[f] = "wait" THEN Again(f) ELSE pc[f]]
    /\ HandlerEnds(Flushes)
    /\ seen' = {}
    /\ UNCHANGED <<site, tries, pos, batch, ackTag, stores>>

PluginStep(f) == CbFlush(f) \/ AppendRow(f) \/ Post(f) \/ Answer(f)

HandlerStep(f) ==
    \/ HandleBinary(f) \/ Route(f) \/ FlushRaw(f) \/ FlushEtl(f) \/ Processed(f)
    \/ \E c \in Collections : BulkCreate(f, c) \/ BulkCreateFails(f, c)

Next ==
    \/ \E f \in Flushes : PluginStep(f) \/ HandlerStep(f) \/ PostFails(f) \/ ConnectionLost(f)
    \/ \E k \in seen : WindowExpires(k)
    \/ ServiceCrash

Spec == Init /\ [][Next]_vars

\* The coroutine is scheduled, and every call of the handler returns: the HTTP
\* clients of the lake and of ArangoDB answer or fail.
Fairness == \A f \in Flushes : WF_vars(PluginStep(f)) /\ WF_vars(HandlerStep(f))

LiveSpec == Spec /\ Fairness

-----------------------------------------------------------------------------
(* Properties. *)

Outcome == [raw : BOOLEAN, ngx : BOOLEAN, cols : SUBSET Collections]

\* Every variable has its type; no chunk is flushed more than RetryLimit times
\* after the first.
TypeOK ==
    /\ lakeOn \in BOOLEAN
    /\ room \in Rooms
    /\ pc \in [Flushes -> {"queued", "rows", "post", "wait", "acked", "dropped"}]
    /\ tries \in [Flushes -> 0 .. RetryLimit + 1]
    /\ pos \in [Flushes -> Nat]
    /\ batch \in [Flushes -> Seq(Records)]
    /\ results \in [Flushes -> Seq(Outcome)]
    /\ ackTag \in [Flushes -> Seq(Tags)]
    /\ hpc \in [Flushes -> {"idle", "decode", "route", "raw", "etl", "arango", "204", "400", "500"}]
    /\ left \in [Flushes -> SUBSET Collections]
    /\ seen \subseteq Keys
    /\ docs \in [Records -> [Collections -> Nat]]
    /\ missed \subseteq Records

\* The collections a chain of rules sends a record to that it does not drop.
Targets(chain) ==
    IF /\ chain # << >>
       /\ \A i \in DOMAIN chain : chain[i].mode # "raw_only" /\ chain[i].act # "drop_event"
    THEN chain[Len(chain)].cols
    ELSE {}

\* The records that stand for r in the eyes of the dedup action.
Alike(r, s) ==
    \E t, u \in Tags : \E i \in DOMAIN Rules[t][r], j \in DOMAIN Rules[u][s] :
        /\ Rules[t][r][i].act = "dedup" /\ Rules[u][s][j].act = "dedup"
        /\ Rules[t][r][i].key = Rules[u][s][j].key
        /\ Rules[t][r][i].key # NoKey

\* A chunk Fluent Bit is told was delivered (every frame answered with 204) has,
\* of every record, a document in each collection the rules send it to, or one
\* of a record that dedup takes for it, whatever failed and was retried before.
AckedStored ==
    \A f \in Flushes : pc[f] = "acked" =>
        \A i \in DOMAIN Chunk[f] :
            LET r == Chunk[f][i]
            IN  \A c \in Targets(Rules[ackTag[f][i]][r]) :
                    \E s \in Records : (s = r \/ Alike(r, s)) /\ docs[s][c] > 0

\* The record is in a collection, or in the ETL index of the lake.
Derived(r) ==
    \/ \E c \in Collections : docs[r][c] > 0
    \/ \E e \in lake : e.rec = r /\ e.index = "etl"

\* Where the data lake is configured, a record no rule makes etl_only that is
\* stored anywhere after ETL has its raw event in the lake, unless a call to the
\* lake failed for it: process writes the raw events of a frame before anything
\* derived from them.  (Without a lakeClient it writes no raw event at all.)
RawFirst ==
    \A r \in Records :
        /\ lakeOn
        /\ Derived(r)
        /\ \A t \in Tags : \A i \in DOMAIN Rules[t][r] : Rules[t][r][i].mode # "etl_only"
        => \/ r \in missed
           \/ \E e \in lake : e.rec = r /\ e.index \in Tags

\* No collection has more documents of a record than its chunk was flushed:
\* one call of cb_flush sends a record once, in whatever frame.
CopiesBounded ==
    \A f \in Flushes : \A i \in DOMAIN Chunk[f], c \in Collections :
        docs[Chunk[f][i]][c] <= tries[f]

\* An entry of the lake names the agent of its own record or of one that
\* cb_flush put into the same frame after it: the header's agent is overwritten
\* by every row, so an entry may be stored under another agent, but never under
\* one that an earlier frame, chunk or attempt left behind.
AgentWithinFrame ==
    \A e \in lake : \E f \in Flushes : \E n, m \in DOMAIN Chunk[f] :
        /\ Chunk[f][n] = e.rec
        /\ n <= m /\ m < n + MaxRows
        /\ e.agent = AgentOf[Chunk[f][m]]

\* Every chunk is in the end delivered or given up.
ChunkSettles == \A f \in Flushes : <>[](pc[f] \in {"acked", "dropped"})
=============================================================================
