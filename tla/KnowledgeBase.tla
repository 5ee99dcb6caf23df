----------------------------- MODULE KnowledgeBase -----------------------------
(***************************************************************************)
(* A tenant's knowledge: the sources people add, sync again and delete     *)
(* (app/routes/knowledge.py), and the jobs that read them, page by page    *)
(* and slice by slice, into the index (app/services/kb/ingest.py,          *)
(* crawl.py, app/workers/kb_tasks.py).                                     *)
(***************************************************************************)
EXTENDS Integers, FiniteSets

CONSTANTS
  KbSources, \* sources
  Pages,     \* pages of a source, in the order they are crawled
  Readers,   \* workers that run ingestion jobs
  Clerks,    \* requests and scheduler ticks that may be in progress together
  KbCases    \* what may happen: see KbCaseTypes

ASSUME KbPagesAssumption == Pages \subseteq Nat /\ IsFiniteSet(Pages)
ASSUME KbSourcesAssumption == KbSources # {}
ASSUME KbReadersAssumption == Readers # {} /\ IsFiniteSet(Readers)

(* The sources' kinds; the chunks the plan allows (one for each page); what*)
(* people do, and as bounds how often; and also as bounds: changes of the  *)
(* sites, failing embeddings or inserts, deaths; whether a crawl may use   *)
(* up its time, or a slice be slower than _LOCK_TTL.                       *)
KbCaseTypes ==
  [kind : [KbSources -> {"crawl", "url", "file", "unused"}], plan : Nat,
   acts : Nat, deletes : BOOLEAN, refreshes : Nat, changes : Nat, faults : Nat,
   deaths : Nat, budget : BOOLEAN, slow : BOOLEAN]

ASSUME KbCasesAssumption == KbCases \subseteq KbCaseTypes

VARIABLES
  source,   \* db.kb_sources: status, run, pages left to crawl, next_sync_at
  doc,      \* db.kb_documents: the version embedded and last_seen_run
  chunks,   \* db.kb_chunks: the versions of each page that may be retrieved
  site,     \* external: each page's version now, 0 if it is not there
  ingests,  \* jobs waiting for each source
  locked,   \* Redis: kb:ingest:*
  auto_refresh, \* of the knowledge base
  rd,       \* the readers: next step, source as read, run, pages to do
  clerk,    \* requests and ticks: next step and source
  runs,     \* runs so far
  got,      \* history: the pages' versions as the source's last run read them
  torn,     \* history: sources with a document whose chunks were not replaced,
            \*   or half deleted
  stranded, \* history: sources whose job or request died or met a lock
  mixed,    \* history: sources reset or deleted while a job was reading them,
            \*   or deleted before their texts were stored
  kcase     \* what may happen, and what is left of its bounds

kbVars == <<source, doc, chunks, site, ingests, locked, auto_refresh, rd, clerk, runs, got,
            torn, stranded, mixed, kcase>>

Nothing == [p \in Pages |-> 0]
NoSource == [status |-> "none", run |-> 0, crawl |-> Pages, next |-> "no"]
NoDoc  == [has |-> FALSE, hash |-> 0, run |-> 0]
NoRead == [step |-> "idle", s |-> CHOOSE s \in KbSources : TRUE, src |-> NoSource, run |-> 0,
           todo |-> {}, page |-> 0, ver |-> 0, fetched |-> FALSE, end |-> "ready"]
NoCall == [step |-> "idle", s |-> CHOOSE s \in KbSources : TRUE]

KbInit ==
  /\ kcase \in KbCases
  /\ source = [s \in KbSources |-> NoSource] /\ doc = [s \in KbSources |-> [p \in Pages |-> NoDoc]]
  /\ chunks = [s \in KbSources |-> [p \in Pages |-> {}]]
  /\ site = [s \in KbSources |-> [p \in Pages |-> 1]]
  /\ ingests = [s \in KbSources |-> 0] /\ locked = {} /\ auto_refresh = TRUE
  /\ rd = [w \in Readers |-> NoRead] /\ clerk = [c \in Clerks |-> NoCall]
  /\ runs = 0 /\ got = [s \in KbSources |-> Nothing]
  /\ torn = {} /\ stranded = {} /\ mixed = {}

Cost(what) == kcase[what] > 0 /\ kcase' = [kcase EXCEPT ![what] = @ - 1]
Kind(s)      == kcase.kind[s]
Refetchable(s) == Kind(s) \in {"crawl", "url"}
Syncing      == {"queued", "processing"}
Exists(s)    == source[s].status \notin {"none", "gone"}
Reading(s)   == \E w \in Readers : rd[w].step # "idle" /\ rd[w].s = s
Storing(s)   == \E c \in Clerks : clerk[c].step = "texts" /\ clerk[c].s = s
Deleting(s)  == \E c \in Clerks : clerk[c].step \in {"chunks", "docs", "source"} /\ clerk[c].s = s

-----------------------------------------------------------------------------
(* Requests and the scheduler *)

readSide == <<locked, rd, runs, got, torn>>
Calls(c, step, s) == clerk[c] = NoCall /\ clerk' = [clerk EXCEPT ![c] = [step |-> step, s |-> s]]
CallAt(c, step)   == clerk[c].step = step
CallTo(c, step)   == clerk' = [clerk EXCEPT ![c].step = step]
CallEnds(c)       == clerk' = [clerk EXCEPT ![c] = NoCall]

(* _create_source: the source, its texts, and its job. *)
_create_source(c, s) ==
  /\ source[s].status = "none" /\ Kind(s) # "unused" /\ Calls(c, "texts", s)
  /\ source' = [source EXCEPT ![s].status = "queued"]
  /\ UNCHANGED <<doc, chunks, site, ingests, auto_refresh, readSide, stranded, mixed, kcase>>

StoreTexts(c) ==
  /\ CallAt(c, "texts") /\ CallTo(c, "enqueue")
  /\ doc' = IF Refetchable(clerk[c].s) THEN doc
            ELSE [doc EXCEPT ![clerk[c].s] = [p \in Pages |-> [NoDoc EXCEPT !.has = TRUE]]]
  /\ UNCHANGED <<source, chunks, site, ingests, auto_refresh, readSide, stranded, mixed, kcase>>

enqueue_ingest(c) ==
  /\ CallAt(c, "enqueue") /\ CallEnds(c) /\ ingests' = [ingests EXCEPT ![clerk[c].s] = @ + 1]
  /\ UNCHANGED <<source, doc, chunks, site, auto_refresh, readSide, stranded, mixed, kcase>>

(* 409 while it is queued or being read ... *)
resync_source(c, s) ==
  /\ Exists(s) /\ source[s].status \notin Syncing /\ Cost("acts") /\ Calls(c, "reset", s)
  /\ UNCHANGED <<source, doc, chunks, site, ingests, auto_refresh, readSide, stranded, mixed>>

(* ... but the write asks no more. *)
ResetSource(c) ==
  LET s == clerk[c].s IN
  /\ CallAt(c, "reset") /\ CallTo(c, "enqueue")
  /\ source' = IF Exists(s) THEN [source EXCEPT ![s] = [NoSource EXCEPT !.status = "queued", !.next = source[s].next]]
            ELSE source
  /\ mixed' = IF source[s].status \in Syncing THEN mixed \cup {s} ELSE mixed
  /\ UNCHANGED <<doc, chunks, site, ingests, auto_refresh, readSide, stranded, kcase>>

delete_source(c, s) ==
  /\ Exists(s) /\ kcase.deletes /\ Calls(c, "chunks", s)
  /\ mixed' = IF Reading(s) \/ Storing(s) THEN mixed \cup {s} ELSE mixed
  /\ UNCHANGED <<source, doc, chunks, site, ingests, auto_refresh, readSide, stranded, kcase>>

DeleteStep(c) ==
  LET s == clerk[c].s IN
  /\ \/ /\ CallAt(c, "chunks") /\ CallTo(c, "docs")
        /\ chunks' = [chunks EXCEPT ![s] = [p \in Pages |-> {}]] /\ UNCHANGED <<source, doc>>
     \/ /\ CallAt(c, "docs") /\ CallTo(c, "source")
        /\ doc' = [doc EXCEPT ![s] = [p \in Pages |-> NoDoc]] /\ UNCHANGED <<source, chunks>>
     \/ /\ CallAt(c, "source") /\ CallEnds(c)
        /\ source' = [source EXCEPT ![s] = [NoSource EXCEPT !.status = "gone"]] /\ UNCHANGED <<doc, chunks>>
  /\ UNCHANGED <<site, ingests, auto_refresh, readSide, stranded, mixed, kcase>>

(* Listed as due, then taken if it still is not queued nor being read. *)
refresh_due_kb_sources(c, s) ==
  /\ Refetchable(s) /\ Exists(s) /\ source[s].status \notin Syncing /\ source[s].next = "due"
  /\ Cost("refreshes") /\ Calls(c, "enqueue", s) /\ source' = [source EXCEPT ![s].status = "queued"]
  /\ UNCHANGED <<doc, chunks, site, ingests, auto_refresh, readSide, stranded, mixed>>

update_kb ==
  /\ Cost("acts") /\ auto_refresh' = ~auto_refresh
  /\ source' = [s \in KbSources |-> IF Exists(s) /\ Refetchable(s)
       THEN [source[s] EXCEPT !.next = IF auto_refresh' THEN "later" ELSE "no"] ELSE source[s]]
  /\ UNCHANGED <<doc, chunks, site, ingests, clerk, readSide, stranded, mixed>>

ClerkDies(c) ==
  /\ clerk[c] # NoCall /\ Cost("deaths") /\ CallEnds(c)
  /\ stranded' = stranded \cup {clerk[c].s}
  /\ torn' = IF clerk[c].step \in {"docs", "source"} THEN torn \cup {clerk[c].s} ELSE torn
  /\ UNCHANGED <<source, doc, chunks, site, ingests, auto_refresh, locked, rd, runs, got, mixed>>

(* The clock and the sites. *)
DayPasses(s) ==
  /\ source[s].next = "later" /\ source' = [source EXCEPT ![s].next = "due"]
  /\ UNCHANGED <<doc, chunks, site, ingests, auto_refresh, clerk, readSide, stranded, mixed, kcase>>

PageChanges(s, p) ==
  /\ Refetchable(s) /\ Cost("changes")
  /\ \E v \in {0, site[s][p] + 1} : site' = [site EXCEPT ![s][p] = v]
  /\ UNCHANGED <<source, doc, chunks, ingests, auto_refresh, clerk, readSide, stranded, mixed>>

ClerkStep(c) == StoreTexts(c) \/ enqueue_ingest(c) \/ ResetSource(c) \/ DeleteStep(c)

-----------------------------------------------------------------------------
(* ingest_kb_source *)

callSide == <<site, auto_refresh, clerk>>
RdAt(w, step) == rd[w].step = step
RdTo(w, step) == rd' = [rd EXCEPT ![w].step = step]
RdEnds(w)     == rd' = [rd EXCEPT ![w] = NoRead]
Ends(w, status) == rd' = [rd EXCEPT ![w].step = "finish", ![w].end = status]

run_source(w, s) ==
  /\ RdAt(w, "idle") /\ ingests[s] > 0 /\ ingests' = [ingests EXCEPT ![s] = @ - 1]
  /\ rd' = IF Exists(s) THEN [rd EXCEPT ![w] = [NoRead EXCEPT !.step = "lock", !.s = s, !.src = source[s]]]
           ELSE rd
  /\ mixed' = IF Deleting(s) THEN mixed \cup {s} ELSE mixed
  /\ UNCHANGED <<source, doc, chunks, locked, runs, got, torn, callSide, stranded, kcase>>

(* Another job, or a dead one, has the lock: the job is done with. *)
TakeLock(w) ==
  LET s == rd[w].s IN
  /\ RdAt(w, "lock") /\ locked' = locked \cup {s}
  /\ IF s \in locked THEN RdEnds(w) /\ stranded' = stranded \cup {s}
     ELSE RdTo(w, "begin") /\ UNCHANGED stranded
  /\ UNCHANGED <<source, doc, chunks, ingests, runs, got, torn, callSide, mixed, kcase>>

BeginSlice(w) ==
  LET s == rd[w].s  new == rd[w].src.run = 0 IN
  /\ RdAt(w, "begin")
  /\ runs' = IF new THEN runs + 1 ELSE runs
  /\ got' = IF new THEN [got EXCEPT ![s] = Nothing] ELSE got
  /\ rd' = [rd EXCEPT ![w].step = "page", ![w].run = IF new THEN runs' ELSE rd[w].src.run,
       ![w].todo = IF Kind(s) = "url" THEN {p \in Pages : \A q \in Pages : p <= q}
                   ELSE rd[w].src.crawl]
  /\ source' = IF Exists(s) THEN [source EXCEPT ![s].status = "processing", ![s].run = rd'[w].run] ELSE source
  /\ UNCHANGED <<doc, chunks, ingests, locked, torn, callSide, stranded, mixed, kcase>>

AllChunks == UNION {{<<s, p, v>> : v \in chunks[s][p]} : s \in KbSources, p \in Pages}

(* crawl_slice yields one page, ingest_document begins with it.  A page    *)
(* that is not there is an error of a url, and skipped in a crawl.         *)
ReadPage(w) ==
  LET s == rd[w].s
      p == CHOOSE q \in rd[w].todo : \A o \in rd[w].todo : q <= o
      v == site[s][p]
      d == doc[s][p]
      there == IF Refetchable(s) THEN v # 0 ELSE d.has
      room  == Cardinality(AllChunks) + (IF d.hash = 0 THEN 1 ELSE 0) <= kcase.plan
      next == [rd[w] EXCEPT !.todo = @ \ {p}, !.fetched = TRUE]
  IN
  /\ RdAt(w, "page") /\ rd[w].todo # {}
  /\ \/ ~there /\ Kind(s) = "url" /\ Ends(w, "failed") /\ UNCHANGED <<doc, got>>
     \/ ~there /\ Kind(s) # "url" /\ rd' = [rd EXCEPT ![w] = next] /\ UNCHANGED <<doc, got>>
     \/ /\ there /\ d.hash = v
        /\ rd' = [rd EXCEPT ![w] = next] /\ got' = [got EXCEPT ![s][p] = v]
        /\ doc' = [doc EXCEPT ![s][p].run = rd[w].run]
     \/ there /\ d.hash # v /\ ~room /\ Ends(w, "partial") /\ UNCHANGED <<doc, got>>
     \/ /\ there /\ d.hash # v /\ room
        /\ rd' = [rd EXCEPT ![w] = [next EXCEPT !.step = "embed", !.page = p, !.ver = v]]
        /\ got' = [got EXCEPT ![s][p] = v] /\ UNCHANGED doc
  /\ UNCHANGED <<source, chunks, ingests, locked, runs, torn, callSide, stranded, mixed, kcase>>

EmbeddingFails(w) ==
  /\ RdAt(w, "embed") /\ Cost("faults") /\ Ends(w, "failed")
  /\ UNCHANGED <<source, doc, chunks, ingests, locked, runs, got, torn, callSide, stranded, mixed>>

(* The document, with the hash of its text; its old chunks; its new ones. *)
UpsertDocument(w) ==
  LET r == rd[w] IN
  /\ RdAt(w, "embed") /\ RdTo(w, "clear")
  /\ doc' = [doc EXCEPT ![r.s][r.page] = [has |-> TRUE, hash |-> r.ver, run |-> r.run]]
  /\ UNCHANGED <<source, chunks, ingests, locked, runs, got, torn, callSide, stranded, mixed, kcase>>

DeleteChunks(w) ==
  /\ RdAt(w, "clear") /\ RdTo(w, "fill")
  /\ chunks' = [chunks EXCEPT ![rd[w].s][rd[w].page] = {}]
  /\ UNCHANGED <<source, doc, ingests, locked, runs, got, torn, callSide, stranded, mixed, kcase>>

InsertChunks(w) ==
  /\ RdAt(w, "fill") /\ RdTo(w, "page")
  /\ chunks' = [chunks EXCEPT ![rd[w].s][rd[w].page] = @ \cup {rd[w].ver}]
  /\ UNCHANGED <<source, doc, ingests, locked, runs, got, torn, callSide, stranded, mixed, kcase>>

(* The hash says the page is embedded: it will not be done again. *)
InsertFails(w) ==
  /\ rd[w].step \in {"clear", "fill"} /\ Cost("faults") /\ Ends(w, "failed")
  /\ torn' = torn \cup {rd[w].s}
  /\ UNCHANGED <<source, doc, chunks, ingests, locked, runs, got, callSide, stranded, mixed>>

(* A crawl's slice is over before its pages are. *)
StoreCrawlState(w) ==
  LET s == rd[w].s IN
  /\ RdAt(w, "page") /\ Kind(s) = "crawl" /\ rd[w].fetched /\ rd[w].todo # {}
  /\ rd' = [rd EXCEPT ![w].step = "unlock", ![w].end = "processing"]
  /\ source' = IF Exists(s) THEN [source EXCEPT ![s].crawl = rd[w].todo] ELSE source
  /\ UNCHANGED <<doc, chunks, ingests, locked, runs, got, torn, callSide, stranded, mixed, kcase>>

(* All read, or the crawl's time is used up. *)
PagesDone(w) ==
  LET s == rd[w].s IN
  /\ RdAt(w, "page")
  /\ rd[w].todo = {} \/ (kcase.budget /\ Kind(s) = "crawl" /\ rd[w].fetched)
  /\ IF Kind(s) = "crawl" /\ \A p \in Pages : doc[s][p].run # rd[w].run THEN Ends(w, "failed")
     ELSE RdTo(w, IF Refetchable(s) THEN "drop" ELSE "finish")
  /\ UNCHANGED <<source, doc, chunks, ingests, locked, runs, got, torn, callSide, stranded, mixed, kcase>>

(* Mutant: what this slice has not seen. *)
DropUnseenBySlice(w) ==
  LET s == rd[w].s IN
  /\ RdAt(w, "drop") /\ RdTo(w, "drop docs")
  /\ chunks' = [chunks EXCEPT ![s] = [p \in Pages |->
       IF doc[s][p].run # rd[w].run \/ p \notin rd[w].src.crawl THEN {} ELSE @[p]]]
  /\ UNCHANGED <<source, doc, ingests, locked, runs, got, torn, callSide, stranded, mixed, kcase>>

(* _drop_unseen: first the chunks, then the documents. *)
DropChunks(w) ==
  LET s == rd[w].s IN
  /\ RdAt(w, "drop") /\ RdTo(w, "drop docs")
  /\ chunks' = [chunks EXCEPT ![s] = [p \in Pages |->
       IF doc[s][p].has /\ doc[s][p].run # rd[w].run THEN {} ELSE @[p]]]
  /\ UNCHANGED <<source, doc, ingests, locked, runs, got, torn, callSide, stranded, mixed, kcase>>

DropDocuments(w) ==
  LET s == rd[w].s IN
  /\ RdAt(w, "drop docs") /\ RdTo(w, "finish")
  /\ doc' = [doc EXCEPT ![s] = [p \in Pages |-> IF @[p].run # rd[w].run THEN NoDoc ELSE @[p]]]
  /\ UNCHANGED <<source, chunks, ingests, locked, runs, got, torn, callSide, stranded, mixed, kcase>>

_finish(w) ==
  LET s == rd[w].s IN
  /\ RdAt(w, "finish") /\ RdTo(w, "unlock")
  /\ source' = IF Exists(s)
       THEN [source EXCEPT ![s] = [NoSource EXCEPT !.status = rd[w].end,
                                  !.next = IF auto_refresh /\ Refetchable(s) THEN "later" ELSE "no"]]
       ELSE source
  /\ UNCHANGED <<doc, chunks, ingests, locked, runs, got, torn, callSide, stranded, mixed, kcase>>

Unlock(w) ==
  /\ RdAt(w, "unlock") /\ locked' = locked \ {rd[w].s}
  /\ IF rd[w].end = "processing" THEN RdTo(w, "again") ELSE RdEnds(w)
  /\ UNCHANGED <<source, doc, chunks, ingests, runs, got, torn, callSide, stranded, mixed, kcase>>

(* Mutant: the crawl is not taken up again. *)
EndAfterSlice(w) ==
  /\ RdAt(w, "again") /\ RdEnds(w)
  /\ UNCHANGED <<source, doc, chunks, ingests, locked, runs, got, torn, callSide, stranded, mixed, kcase>>

EnqueueNextSlice(w) ==
  /\ RdAt(w, "again") /\ RdEnds(w) /\ ingests' = [ingests EXCEPT ![rd[w].s] = @ + 1]
  /\ UNCHANGED <<source, doc, chunks, locked, runs, got, torn, callSide, stranded, mixed, kcase>>

ReaderDies(w) ==
  /\ ~RdAt(w, "idle") /\ Cost("deaths") /\ RdEnds(w)
  /\ stranded' = stranded \cup {rd[w].s}
  /\ torn' = IF rd[w].step \in {"clear", "fill", "drop docs"} THEN torn \cup {rd[w].s} ELSE torn
  /\ UNCHANGED <<source, doc, chunks, ingests, locked, runs, got, callSide, mixed>>

(* 900 s; the job's own limit is longer. *)
LockEnds(s) ==
  /\ s \in locked /\ (Reading(s) => kcase.slow) /\ locked' = locked \ {s}
  /\ mixed' = IF Reading(s) THEN mixed \cup {s} ELSE mixed
  /\ UNCHANGED <<source, doc, chunks, ingests, rd, runs, got, torn, callSide, stranded, kcase>>

ReaderStep(w) ==
  \/ \E s \in KbSources : run_source(w, s)
  \/ TakeLock(w) \/ BeginSlice(w) \/ ReadPage(w) \/ UpsertDocument(w) \/ DeleteChunks(w)
  \/ InsertChunks(w) \/ StoreCrawlState(w) \/ PagesDone(w) \/ DropChunks(w)
  \/ DropDocuments(w) \/ _finish(w) \/ Unlock(w) \/ EnqueueNextSlice(w)

-----------------------------------------------------------------------------
KbNext ==
  \/ \E c \in Clerks : ClerkStep(c) \/ ClerkDies(c)
  \/ \E c \in Clerks, s \in KbSources :
       _create_source(c, s) \/ resync_source(c, s) \/ delete_source(c, s)
         \/ refresh_due_kb_sources(c, s)
  \/ update_kb
  \/ \E s \in KbSources : DayPasses(s) \/ LockEnds(s) \/ \E p \in Pages : PageChanges(s, p)
  \/ \E w \in Readers : ReaderStep(w) \/ EmbeddingFails(w) \/ InsertFails(w) \/ ReaderDies(w)

(* Requests and jobs run on. *)
KbFairness ==
  WF_kbVars((\E c \in Clerks : ClerkStep(c)) \/ \E w \in Readers : ReaderStep(w))

-----------------------------------------------------------------------------
(* Properties *)

KbTypeOK ==
  /\ \A s \in KbSources : source[s].status \in {"none", "queued", "processing", "ready", "partial",
                                            "failed", "gone"}
                        /\ source[s].crawl \subseteq Pages /\ source[s].run \in 0..runs
                        /\ source[s].next \in {"no", "later", "due"}
  /\ doc \in [KbSources -> [Pages -> [has : BOOLEAN, hash : Nat, run : 0..runs]]]
  /\ \A s \in KbSources, p \in Pages : chunks[s][p] \subseteq Nat
  /\ ingests \in [KbSources -> Nat] /\ locked \subseteq KbSources /\ auto_refresh \in BOOLEAN
  /\ \A w \in Readers : rd[w].s \in KbSources /\ rd[w].todo \subseteq Pages
  /\ torn \cup stranded \cup mixed \subseteq KbSources /\ kcase \in KbCaseTypes

(* When a source is "ready", its chunks are those of the pages that its    *)
(* last run read, in the version it read: none is missing, old or left     *)
(* over, whatever slices, refreshes, failures and deaths lie between.      *)
(* Not if a document's chunks could not be replaced once, a deletion was   *)
(* cut short, or the source was reset while a job was reading it.          *)
ReadyIsIndexed ==
  \A s \in KbSources \ (torn \cup mixed) : source[s].status = "ready" /\ ~Deleting(s) =>
    \A p \in Pages : chunks[s][p] = {got[s][p]} \ {0}

(* What was deleted is not found any more, unless a job was reading it or  *)
(* its texts were still being stored.                                      *)
DeletedIsForgotten ==
  \A s \in KbSources \ mixed : source[s].status = "gone" =>
    \A p \in Pages : chunks[s][p] = {} /\ ~doc[s][p].has

(* Readers that embed at the same time may each exceed the plan by the     *)
(* document they are at, and by no more.                                   *)
KnowledgeWithinPlan ==
  torn = {} /\ mixed = {} => Cardinality(AllChunks) <= kcase.plan + Cardinality(Readers) - 1

(* A source that waits or is being read comes to a result, unless someone  *)
(* died or a job found the lock taken.                                     *)
SyncEnds == []<>(\A s \in KbSources : source[s].status \notin Syncing \/ s \in stranded)
=============================================================================
