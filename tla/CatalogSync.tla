---------------------------- MODULE CatalogSync -----------------------------
(***************************************************************************)
(* The Shopify catalog: queueing an export job, importing its products in  *)
(* batches with one savepoint per product, normalizing each product as it  *)
(* is imported, and hydrating the bytes of a product image.                *)
(*                                                                         *)
(* A process-local asyncio lock and a partial unique index on active jobs  *)
(* keep one import per store.  Importing a product deletes and recreates   *)
(* its image rows, so a hydration that read an image before the import and *)
(* writes its digest after it must find its row gone.  Several backend     *)
(* processes run, and any of them may die at any point.                    *)
(***************************************************************************)
EXTENDS Integers, FiniteSets

CONSTANTS Jobs, Processes, Products,
          Batch,          \* records imported between two commits (50 in the code)
          Contents,       \* what the CDN may serve for an image
          MaxHydrations,  \* bound: hydration calls
          NoJob, NoBytes


VARIABLES job,       \* Jobs -> the committed row of catalog_sync_jobs
          work,      \* Jobs -> the running import and its open transaction
          catalog,   \* Products -> [by: jobs that committed it, image: job that made its image row,
                     \*              digest: source_sha256, eligible: its normalized eligibility]
          ask,       \* Processes -> a request between its read and its insert
          stored,    \* objects: <<product, image row, bytes>>
          hydration  \* the hydrator's call

vars == <<job, work, catalog, ask, stored, hydration>>

NoRow    == [status |-> "NONE", seen |-> 0, done |-> 0, failed |-> 0]
NoWork   == [pc |-> "off", proc |-> "none", left |-> {}, facts |-> << >>, row |-> NoRow]
NoCall   == [pc |-> "off", product |-> "none", image |-> NoJob, bytes |-> NoBytes, calls |-> 0]
Active   == {"QUEUED", "RUNNING"}

\* What Shopify says of one product.
Records == [active : BOOLEAN, inventory : BOOLEAN, image : BOOLEAN]

\* normalize_shopify_product: the eligibility rule among its outputs.
Eligible(record) == record.inventory /\ record.active /\ record.image

\* The exports TLC enumerates: a product on sale and one out of stock.
Exported == {[active |-> TRUE, inventory |-> stock, image |-> TRUE] : stock \in BOOLEAN}

Init ==
  /\ job = [k \in Jobs |-> NoRow]
  /\ work = [k \in Jobs |-> NoWork]
  /\ catalog = [p \in Products |-> [by |-> {}, image |-> NoJob, digest |-> NoBytes, eligible |-> FALSE]]
  /\ ask = [c \in Processes |-> FALSE]
  /\ stored = {}
  /\ hydration = NoCall

TypeOK ==
  /\ \A k \in Jobs : /\ job[k].status \in {"NONE", "QUEUED", "RUNNING", "SUCCEEDED", "FAILED"}
                     /\ work[k].pc \in {"off", "queued", "export", "wait", "stream"}
                     /\ DOMAIN work[k].facts \subseteq Products
  /\ \A p \in Products : /\ catalog[p].by \subseteq Jobs
                         /\ catalog[p].digest \in Contents \cup {NoBytes}
                         /\ catalog[p].eligible \in BOOLEAN
  /\ ask \in [Processes -> BOOLEAN]
  /\ stored \subseteq Products \X Jobs \X Contents

ActiveJobs == {k \in Jobs : job[k].status \in Active}

(***************************************************************************)
(* Queueing.                                                               *)
(***************************************************************************)
\* create_job finds no active row ...
AskForJob(c) ==
  /\ ~ask[c] /\ ActiveJobs = {}
  /\ ask' = [ask EXCEPT ![c] = TRUE]
  /\ UNCHANGED <<job, work, catalog, stored, hydration>>

\* The partial unique index uq_catalog_sync_active, evaluated by the insert.
IndexAdmits == ActiveJobs = {}

\* ... and inserts one, unless the index refuses (SyncAlreadyRunning).
create_job(c, k) ==
  /\ ask[c] /\ job[k] = NoRow
  /\ ask' = [ask EXCEPT ![c] = FALSE]
  /\ IF IndexAdmits
     THEN /\ job' = [job EXCEPT ![k].status = "QUEUED"]
          /\ work' = [work EXCEPT ![k] = [NoWork EXCEPT !.pc = "queued", !.proc = c]]
     ELSE UNCHANGED <<job, work>>
  /\ UNCHANGED <<catalog, stored, hydration>>

(***************************************************************************)
(* The import.                                                             *)
(***************************************************************************)
Save(k, row) == /\ job' = [job EXCEPT ![k] = row]

\* SyncCoordinator: one import at a time in a process.
Claimed(c) == \E k \in Jobs : work[k].proc = c /\ work[k].pc \notin {"off", "queued"}

run(k) ==
  /\ work[k].pc = "queued" /\ ~Claimed(work[k].proc)
  /\ Save(k, [job[k] EXCEPT !.status = "RUNNING"])
  /\ work' = [work EXCEPT ![k].pc = "export", ![k].row = [job[k] EXCEPT !.status = "RUNNING"]]
  /\ UNCHANGED <<catalog, ask, stored, hydration>>

start_catalog_bulk_export(k) ==
  /\ work[k].pc = "export"
  /\ work' = [work EXCEPT ![k].pc = "wait"]
  /\ UNCHANGED <<job, catalog, ask, stored, hydration>>

\* COMPLETED with a result URL; any other end is Fail.
wait_for_operation(k) ==
  /\ work[k].pc = "wait"
  /\ work' = [work EXCEPT ![k].pc = "stream", ![k].left = Products]
  /\ UNCHANGED <<job, catalog, ask, stored, hydration>>

\* What the transaction holds of a product replaces variants, images and
\* intelligence together; a digest on the old image row goes with the row.
Imported(k, p) == [by |-> catalog[p].by \cup {k}, image |-> k, digest |-> NoBytes,
                   eligible |-> work[k].facts[p]]
Committed(k, c) == [p \in Products |-> IF p \in DOMAIN work[k].facts THEN Imported(k, p) ELSE c[p]]

\* After a record the transaction commits when the index is a multiple of Batch.
Step(k, facts, row, p) ==
  LET commit == row.seen % Batch = 0 IN
  /\ work' = [work EXCEPT ![k].left = @ \ {p}, ![k].row = row,
                          ![k].facts = IF commit THEN << >> ELSE facts]
  /\ IF commit
     THEN /\ Save(k, row)
          /\ catalog' = [q \in Products |->
                           IF q \in DOMAIN facts
                           THEN [by |-> catalog[q].by \cup {k}, image |-> k, digest |-> NoBytes,
                                 eligible |-> facts[q]]
                           ELSE catalog[q]]
     ELSE UNCHANGED <<job, catalog>>

upsert_product(k, p, record) ==
  /\ work[k].pc = "stream" /\ p \in work[k].left
  /\ Step(k, [q \in DOMAIN work[k].facts \cup {p} |->
                IF q = p THEN Eligible(record) ELSE work[k].facts[q]],
          [work[k].row EXCEPT !.seen = @ + 1, !.done = @ + 1], p)
  /\ UNCHANGED <<ask, stored, hydration>>

\* A plausible slip: a product that fails takes the whole open transaction
\* with it, not only its savepoint, and the counters go on.
UpsertFailsWhole(k, p) ==
  /\ work[k].pc = "stream" /\ p \in work[k].left
  /\ Step(k, << >>, [work[k].row EXCEPT !.seen = @ + 1, !.failed = @ + 1], p)
  /\ UNCHANGED <<ask, stored, hydration>>

\* The savepoint of the failing product is rolled back, the rest stays.
UpsertFails(k, p) ==
  /\ work[k].pc = "stream" /\ p \in work[k].left
  /\ Step(k, work[k].facts, [work[k].row EXCEPT !.seen = @ + 1, !.failed = @ + 1], p)
  /\ UNCHANGED <<ask, stored, hydration>>

Succeed(k) ==
  /\ work[k].pc = "stream" /\ work[k].left = {}
  /\ Save(k, [work[k].row EXCEPT !.status = "SUCCEEDED"])
  /\ catalog' = Committed(k, catalog)
  /\ work' = [work EXCEPT ![k] = NoWork]
  /\ UNCHANGED <<ask, stored, hydration>>

\* Export refused, polling ended otherwise, stream broken: the open
\* transaction is rolled back and the row as last committed is FAILED.
Fail(k) ==
  /\ work[k].pc \in {"export", "wait", "stream"}
  /\ Save(k, [job[k] EXCEPT !.status = "FAILED"])
  /\ work' = [work EXCEPT ![k] = NoWork]
  /\ UNCHANGED <<catalog, ask, stored, hydration>>

\* A process dies.  Nothing finishes or clears the rows of its jobs.
Die(c) ==
  /\ ask[c] \/ \E k \in Jobs : work[k].proc = c
  /\ ask' = [ask EXCEPT ![c] = FALSE]
  /\ work' = [k \in Jobs |-> IF work[k].proc = c THEN NoWork ELSE work[k]]
  /\ UNCHANGED <<job, catalog, stored, hydration>>

(***************************************************************************)
(* Hydration of one product image.                                         *)
(***************************************************************************)
\* product_source_readiness and the identity checks, then the download.
BeginHydration(p) ==
  /\ hydration.pc = "off" /\ hydration.calls < MaxHydrations /\ catalog[p].image # NoJob /\ catalog[p].digest = NoBytes
  /\ \E bytes \in Contents :
       hydration' = [pc |-> "fetched", product |-> p, image |-> catalog[p].image,
                     bytes |-> bytes, calls |-> hydration.calls + 1]
  /\ UNCHANGED <<job, work, catalog, ask, stored>>

\* write_verified: put, read back and verify under the image's own key.
write_verified ==
  /\ hydration.pc = "fetched"
  /\ stored' = stored \cup {<<hydration.product, hydration.image, hydration.bytes>>}
  /\ hydration' = [hydration EXCEPT !.pc = "written"]
  /\ UNCHANGED <<job, work, catalog, ask>>

\* A plausible slip: the UPDATE names the product, source and media only, which
\* the image row recreated by an import satisfies as well.
RowOfProduct(p, image) == catalog[p].digest = NoBytes

\* The UPDATE names the image row and expects no digest.
RowIs(p, image) == catalog[p].image = image /\ catalog[p].digest = NoBytes

\* An open import that touched the product holds its rows: the UPDATE waits.
hydrate_product_source ==
  LET p == hydration.product IN
  /\ hydration.pc = "written"
  /\ \A k \in Jobs : p \notin DOMAIN work[k].facts
  /\ catalog' = IF RowIs(p, hydration.image)
                THEN [catalog EXCEPT ![p].digest = hydration.bytes]
                ELSE catalog                     \* SOURCE_SHA256_CONCURRENT_UPDATE
  /\ hydration' = [NoCall EXCEPT !.calls = hydration.calls]
  /\ UNCHANGED <<job, work, ask, stored>>

HydrationFails ==
  /\ hydration.pc # "off"
  /\ hydration' = [NoCall EXCEPT !.calls = hydration.calls]
  /\ UNCHANGED <<job, work, catalog, ask, stored>>

Next ==
  \/ \E c \in Processes : AskForJob(c) \/ Die(c) \/ \E k \in Jobs : create_job(c, k)
  \/ \E k \in Jobs : \/ run(k) \/ start_catalog_bulk_export(k) \/ wait_for_operation(k)
                     \/ Succeed(k) \/ Fail(k)
                     \/ \E p \in Products : UpsertFails(k, p)
                     \/ \E p \in Products, record \in Exported : upsert_product(k, p, record)
  \/ \E p \in Products : BeginHydration(p)
  \/ write_verified \/ hydrate_product_source \/ HydrationFails

Spec == Init /\ [][Next]_vars

(***************************************************************************)
(* Properties.                                                             *)
(***************************************************************************)
\* Whatever failed, died or raced: at most one import of the store is active,
\* and the counters a job has committed account for every record it has seen
\* and for exactly the products the catalog committed with it.
SyncAccounted ==
  /\ Cardinality({k \in Jobs : work[k].pc # "off" \/ job[k].status \in Active}) <= 1
  /\ \A k \in Jobs : /\ job[k].seen = job[k].done + job[k].failed
                     /\ job[k].done = Cardinality({p \in Products : k \in catalog[p].by})

\* A digest on an image row names bytes stored under that very row's key, also
\* when an import recreated the row while its hydration was in flight.
DigestOfItsImage ==
  \A p \in Products :
    catalog[p].digest # NoBytes => <<p, catalog[p].image, catalog[p].digest>> \in stored
(***************************************************************************)
(* Why both hold: only an active job is at work, on a catalogue that knows *)
(* what it has committed; its open transaction counts what it adds, and    *)
(* what is left of the export is in neither.                               *)
(***************************************************************************)
Counters == [status : {"NONE", "QUEUED", "RUNNING", "SUCCEEDED", "FAILED"},
             seen : Nat, done : Nat, failed : Nat]

Of(k) == {p \in Products : k \in catalog[p].by}

SyncShapes ==
  /\ job \in [Jobs -> Counters]
  /\ work \in [Jobs -> [pc : {"off", "queued", "export", "wait", "stream"},
                        proc : Processes \cup {"none"}, left : SUBSET Products,
                        facts : UNION {[F -> BOOLEAN] : F \in SUBSET Products}, row : Counters]]
  /\ catalog \in [Products -> [by : SUBSET Jobs, image : Jobs \cup {NoJob},
                               digest : Contents \cup {NoBytes}, eligible : BOOLEAN]]
  /\ hydration \in [pc : {"off", "fetched", "written"}, product : Products \cup {"none"},
                    image : Jobs \cup {NoJob}, bytes : Contents \cup {NoBytes}, calls : Nat]

OneActive ==
  /\ \A j, k \in ActiveJobs : j = k
  /\ \A k \in Jobs : /\ work[k].pc = "queued" => job[k].status = "QUEUED"
                     /\ work[k].pc \in {"export", "wait", "stream"} =>
                          job[k].status = "RUNNING" /\ work[k].row.status = "RUNNING"

Committing ==
  \A k \in Jobs :
    /\ job[k].seen = job[k].done + job[k].failed
    /\ IsFiniteSet(Of(k)) /\ job[k].done = Cardinality(Of(k))
    /\ job[k].status \in {"NONE", "QUEUED"} => job[k].seen = 0

Streaming ==
  \A k \in Jobs :
    LET open == DOMAIN work[k].facts
        row  == work[k].row
    IN  /\ IsFiniteSet(open) /\ (work[k].pc # "stream" => open = {})
        /\ work[k].pc \in {"export", "wait"} => row = job[k] /\ Of(k) = {}
        /\ work[k].pc = "stream" =>
             /\ row.seen = row.done + row.failed
             /\ row.done = job[k].done + Cardinality(open)
             /\ Of(k) \cap open = {} /\ work[k].left \cap (Of(k) \cup open) = {}

\* What a hydration has written is there under the key of the row it read.
Written ==
  /\ hydration.pc # "off" => hydration.product \in Products /\ hydration.bytes \in Contents
  /\ hydration.pc = "fetched" => hydration.image \in Jobs
  /\ hydration.pc = "written" =>
       <<hydration.product, hydration.image, hydration.bytes>> \in stored

CatalogInv == /\ TypeOK /\ SyncShapes /\ OneActive /\ Committing /\ Streaming /\ Written
              /\ DigestOfItsImage
=============================================================================
