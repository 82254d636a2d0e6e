-------------------------- MODULE CreativeRendering --------------------------
(* The creatives of the proposals in review (services/creative_rendering.py)   *)
(* and the digest-addressed media store their PNGs live in (media_storage.py,  *)
(* s3_media_storage.py, read by public_creative_media.py).                     *)
(*                                                                             *)
(* A render batch is one transaction, and so is the batch of an exact product  *)
(* that renders the proposals it makes; but each PNG goes to the store as soon *)
(* as it is rendered, before the rows that say so are committed. Rendering is  *)
(* deterministic: a row's PNG has the same digest, hence the same key, again.  *)
EXTENDS Naturals, FiniteSets

CONSTANTS
  Drafts,        \* proposals; each has one text, template and source image
  Renderers,     \* concurrent requests
  MaxMediaFaults \* bound: failed downloads and store calls, lost objects, dead workers

VARIABLES
  drafts,    \* the proposals made so far
  exact,     \* those made by an exact product's batch, which renders them
  creative,  \* draft -> PinCreative.render_status of the row of its fingerprint
  failrow,   \* drafts with another row, for a failure before there was one
  objects,   \* drafts whose PNG is in the media store
  lost,      \* drafts whose PNG the store has lost
  job,       \* renderer -> its transaction
  faults

renderVars == <<drafts, exact, creative, failrow, objects, lost, job, faults>>

NoRow == <<>>
IdleJob == [pc |-> "idle", todo |-> {}, made |-> {}, rows |-> NoRow, put |-> {}, fails |-> {},
          on |-> {}]

Init ==
  /\ drafts = {} /\ exact = {}
  /\ creative = NoRow /\ failrow = {}
  /\ objects = {} /\ lost = {}
  /\ job = [w \in Renderers |-> IdleJob]
  /\ faults = 0

Fault == faults < MaxMediaFaults /\ faults' = faults + 1

Goes(w, j) == /\ job' = [job EXCEPT ![w] = j]
              /\ UNCHANGED <<drafts, exact, creative, failrow>>

Kept == UNCHANGED <<objects, lost, faults>>

-----------------------------------------------------------------------------
(* A batch without a renderer makes the proposal (module ProposalBatch).       *)
Propose ==
  /\ \E f \in Drafts \ drafts :
       /\ \A w \in Renderers : f \notin job[w].made
       /\ drafts' = drafts \cup {f}
  /\ UNCHANGED <<exact, creative, failrow, objects, lost, job, faults>>

ProposeExact(w) ==
  /\ job[w].pc = "idle"
  /\ \E f \in Drafts \ drafts :
       /\ \A v \in Renderers : f \notin job[v].made
       /\ Goes(w, [IdleJob EXCEPT !.pc = "open", !.todo = {f}, !.made = {f}])
  /\ Kept

(* The drafts in review, or the ones a greedy order by novelty of template,    *)
(* category, angle and product puts first: here one, or all of them.           *)
render_review_batch(w) ==
  /\ job[w].pc = "idle"
  /\ \E chosen \in ({drafts} \cup {{f} : f \in drafts}) \ {{}} :
       Goes(w, [IdleJob EXCEPT !.pc = "open", !.todo = chosen])
  /\ Kept

Status(w, f) == IF f \in DOMAIN job[w].rows THEN job[w].rows[f]
                ELSE IF f \in DOMAIN creative THEN creative[f] ELSE "NONE"

(* The rows a transaction inserts or updates, and those other open ones have   *)
(* inserted: their unique fingerprints are taken.                              *)
Keys(j)   == ((DOMAIN j.rows) \X {"row"}) \cup (j.fails \X {"failure"})
Committed == ((DOMAIN creative) \X {"row"}) \cup (failrow \X {"failure"})
Taken(w)  == (UNION {Keys(job[v]) : v \in Renderers \ {w}}) \ Committed

Without(j, f)        == [j EXCEPT !.todo = @ \ {f}]
Marked(j, f, status) ==
  [Without(j, f) EXCEPT !.rows = [g \in DOMAIN @ \cup {f} |-> IF g = f THEN status ELSE @[g]]]

Rendering(w, f) == job[w].pc = "open" /\ f \in job[w].todo

Readable(w, f) == Status(w, f) = "RENDERED" /\ f \in objects

(* The row is being inserted by another transaction: this insert waits for it, *)
(* and fails the whole batch if it is committed.                               *)
WaitsOn(w, key) ==
  /\ key \in Taken(w)
  /\ Goes(w, [job[w] EXCEPT !.pc = "waiting", !.on = {key}])

InsertWaits(w, f) ==
  /\ Rendering(w, f)
  /\ WaitsOn(w, <<f, "row">>)
  /\ Kept

WaitEnds(w) ==
  /\ job[w].pc = "waiting"
  /\ job[w].on \cap Taken(w) = {}
  /\ Goes(w, IF job[w].on \subseteq Committed THEN IdleJob
             ELSE [job[w] EXCEPT !.pc = "open", !.on = {}])
  /\ Kept

-----------------------------------------------------------------------------
(* A rendered creative whose object can be read back is used again.            *)
ReuseCreative(w, f) ==
  /\ Rendering(w, f)
  /\ Readable(w, f)
  /\ Goes(w, Without(job[w], f))
  /\ Kept

(* The PNG is stored and read back under its row's key, then the row says so; a*)
(* row committed before is repaired in place.                                  *)
_render_one(w, f) ==
  /\ Rendering(w, f) /\ <<f, "row">> \notin Taken(w)
  /\ ~Readable(w, f)
  /\ IF f \in DOMAIN creative
     THEN /\ Goes(w, Marked(job[w], f, "RENDERED"))
          /\ objects' = objects \cup {f} /\ lost' = lost \ {f}
          /\ UNCHANGED faults
     ELSE /\ Goes(w, [Marked(job[w], f, "RENDERED") EXCEPT !.put = @ \cup {f}])
          /\ Kept

(* The failure is recorded on a creative of the draft, if there is one that is *)
(* not rendered, or on a row of its own; an exact product's batch is given up. *)
_failure(j, f, status) ==
  LET rows == (IF status = "NONE" THEN {} ELSE {status})
              \cup (IF f \in failrow \cup j.fails THEN {"failure row"} ELSE {})
      left == IF status = "PENDING" THEN Marked(j, f, "PENDING") ELSE Without(j, f)
  IN  IF j.made # {} THEN {IdleJob}
      ELSE IF rows = {} THEN {[Without(j, f) EXCEPT !.fails = @ \cup {f}]}
      ELSE {IF r \in {"PENDING", "FAILED"} THEN Marked(j, f, "FAILED") ELSE left : r \in rows}

Fails(w, f, status) ==
  /\ Rendering(w, f)
  /\ \E j \in _failure(job[w], f, status) : Goes(w, j)
  /\ Fault
  /\ UNCHANGED <<objects, lost>>

(* The source image cannot be fetched, or is not the one on record.            *)
DownloadFails(w, f) ==
  \/ /\ <<f, "failure">> \notin Taken(w)
     /\ Fails(w, f, Status(w, f))
  \/ /\ Rendering(w, f) /\ Status(w, f) = "NONE"
     /\ WaitsOn(w, <<f, "failure">>)
     /\ Fault /\ UNCHANGED <<objects, lost>>

(* Mutant: a PNG that could not be stored leaves its row rendered.             *)
WriteFailsQuietly(w, f) ==
  /\ Rendering(w, f)
  /\ ~Readable(w, f) /\ <<f, "row">> \notin Taken(w)
  /\ Goes(w, Marked(job[w], f, "RENDERED"))
  /\ Fault
  /\ UNCHANGED <<objects, lost>>

(* The store refuses the object, or does not give back what was put: the row   *)
(* flushed for it is there, pending.                                           *)
WriteFails(w, f) ==
  /\ ~Readable(w, f) /\ <<f, "row">> \notin Taken(w)
  /\ Fails(w, f, IF Status(w, f) = "NONE" THEN "PENDING" ELSE Status(w, f))

(* The store cannot say whether it still has the object: not rendered again.   *)
StorageUnavailable(w, f) ==
  /\ Status(w, f) = "RENDERED"
  /\ Fails(w, f, "RENDERED")

Commit(w) ==
  LET j == job[w]
  IN  /\ j.pc = "open" /\ j.todo = {}
      /\ drafts' = drafts \cup j.made
      /\ exact' = exact \cup j.made
      /\ creative' = [f \in DOMAIN creative \cup DOMAIN j.rows |->
                        IF f \in DOMAIN j.rows THEN j.rows[f] ELSE creative[f]]
      /\ failrow' = failrow \cup j.fails
      /\ objects' = objects \cup j.put
      /\ job' = [job EXCEPT ![w] = IdleJob]
      /\ UNCHANGED <<lost, faults>>

-----------------------------------------------------------------------------
RendererDies(w) ==
  /\ job[w].pc # "idle"
  /\ Goes(w, IdleJob)
  /\ Fault
  /\ UNCHANGED <<objects, lost>>

ObjectLost ==
  /\ \E f \in objects : objects' = objects \ {f} /\ lost' = lost \cup {f}
  /\ Fault
  /\ UNCHANGED <<drafts, exact, creative, failrow, job>>

Next ==
  \/ Propose \/ ObjectLost
  \/ \E w \in Renderers :
       \/ ProposeExact(w) \/ render_review_batch(w)
       \/ \E f \in job[w].todo :
            \/ ReuseCreative(w, f) \/ _render_one(w, f) \/ InsertWaits(w, f)
            \/ DownloadFails(w, f) \/ WriteFails(w, f) \/ StorageUnavailable(w, f)
       \/ WaitEnds(w) \/ Commit(w) \/ RendererDies(w)

Spec == Init /\ [][Next]_renderVars

-----------------------------------------------------------------------------
TypeOK ==
  /\ exact \subseteq drafts /\ drafts \subseteq Drafts
  /\ DOMAIN creative \subseteq drafts /\ failrow \subseteq drafts
  /\ \A f \in DOMAIN creative : creative[f] \in {"PENDING", "RENDERED", "FAILED"}
  /\ lost \cap objects = {}
  /\ \A w \in Renderers : job[w].pc \in {"idle", "open", "waiting"}
  /\ faults \in 0..MaxMediaFaults

(* A creative that is committed as rendered has its PNG in the media store, as *)
(* long as the store itself has not lost it, and a proposal made for an exact  *)
(* product is never there without its rendered creative: through failed writes,*)
(* concurrent batches and renderers that die between the store and the commit  *)
(* (_render_one, _failure, generate_controlled_batch).                         *)
RenderedHasObject ==
  /\ \A f \in DOMAIN creative : creative[f] = "RENDERED" => f \in objects \cup lost
  /\ \A f \in exact : f \in DOMAIN creative /\ creative[f] = "RENDERED"
-----------------------------------------------------------------------------
(* Why it holds. What a transaction has rendered is in the store, or will be   *)
(* when it commits; a row that is not committed is inserted by one transaction *)
(* alone; and nobody but its maker knows a proposal that is not committed.     *)
Statuses == {"PENDING", "RENDERED", "FAILED"}
Keyed    == Drafts \X {"row", "failure"}

RenderShapes ==
  /\ creative \in [DOMAIN creative -> Statuses]
  /\ job \in [Renderers -> [pc : {"idle", "open", "waiting"}, todo : SUBSET Drafts,
                            made : SUBSET Drafts,
                            rows : UNION {[F -> Statuses] : F \in SUBSET Drafts},
                            put : SUBSET Drafts, fails : SUBSET Drafts, on : SUBSET Keyed]]

Stored ==
  /\ objects \cup lost \subseteq DOMAIN creative
  /\ \A w \in Renderers :
       /\ job[w].put \subseteq DOMAIN job[w].rows \ DOMAIN creative
       /\ \A f \in DOMAIN job[w].rows :
            job[w].rows[f] = "RENDERED" => f \in job[w].put \cup objects \cup lost

InsertedOnce ==
  \A v, w \in Renderers : \A f \in DOMAIN job[v].rows \cap DOMAIN job[w].rows :
    f \in DOMAIN creative \/ v = w

Making ==
  /\ \A v, w \in Renderers : v # w => job[v].made \cap job[w].made = {}
  /\ \A w \in Renderers :
       LET j == job[w]
       IN  /\ j.made \subseteq Drafts \ drafts
           /\ j.todo \cup DOMAIN j.rows \subseteq drafts \cup j.made /\ j.fails \subseteq drafts
           /\ j.todo \cap DOMAIN j.rows = {}
           /\ j.made \subseteq j.todo \cup DOMAIN j.rows
           /\ \A f \in DOMAIN j.rows \cap (j.made \cup exact) : j.rows[f] = "RENDERED"

RenderInv == /\ TypeOK /\ RenderShapes /\ Stored /\ InsertedOnce /\ Making
             /\ RenderedHasObject
=============================================================================
