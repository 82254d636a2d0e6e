--------------------------- MODULE SchemaAdoption ---------------------------
(***************************************************************************)
(* Reconciling a database whose tables were created behind Alembic's back. *)
(* The hosting platform publishes the ORM schema into the database before  *)
(* the migrations that own the tables have run, so a revision may find its *)
(* tables absent, exactly canonical, in one of four known non-canonical    *)
(* renderings, or unknown.  migration_adoption.py inspects the catalog     *)
(* without locks, locks the tables, inspects again, and only then drops    *)
(* and rebuilds empty tables or adopts canonical ones; one transaction     *)
(* holds every pending revision.  Three bookkeeping-only runners           *)
(* (0030->0031, 0031->0033 and the signed 0031->0032) move the recorded    *)
(* revision under relation locks.  Applications insert rows, and the       *)
(* platform re-renders tables, at any moment no lock forbids.              *)
(*                                                                         *)
(* A table group is named by the revision that owns it; group 0 is         *)
(* alembic_version.  A catalog fingerprint is abstracted to the rendering  *)
(* it stands for.  The signature checks can only refuse, and a refusal is a*)
(* rollback, which Rollback allows at any time.                            *)
(***************************************************************************)
EXTENDS Integers, FiniteSets

CONSTANTS Sessions,   \* database sessions that run a migration or an adopter
          MaxRows,    \* bound: rows applications insert
          MaxPushes   \* bound: re-renderings by the platform

Owners    == (20..27) \cup (30..35)
Bundle    == 20..27
Preserved == 20..22
Drift     == 23..27
Reshaped  == {22, 26, 27}
Head      == 35

Forms == {"absent", "canonical", "lineage", "guarded", "legacy", "dev", "drift", "rendering"}

VARIABLES version,    \* the revision alembic_version records
          catalog,    \* owner -> rendering of its tables, as committed
          rows,       \* owners whose tables hold a committed row
          paused,     \* the routine control row is PAUSED
          sess,       \* the sessions
          pushes      \* re-renderings so far

vars == <<version, catalog, rows, paused, sess, pushes>>

\* The frozen contract of a group at revision v: 0030 alters the run tables,
\* 0033 strips the guards 0032 put on the admissions.
Form(o, v) == CASE o \in Reshaped /\ v >= 30 -> "lineage"
                [] o = 32 /\ v = 32         -> "guarded"
                [] OTHER                    -> "canonical"

Canonical(v) == [o \in Owners |-> IF o <= v THEN Form(o, v) ELSE "absent"]

Idle == [kind |-> "idle", at |-> 0, from |-> 0, target |-> 0, pc |-> "idle", path |-> "none",
         locked |-> {}, view |-> << >>, dropped |-> {}, owed |-> "none"]

\* The databases the repository records: fresh, the 0020 pair or the whole
\* bundle pre-applied, a partial publish, development drift at 0023, drift
\* after a publish at 0027, the check rendering at 0028, a managed schema ahead
\* of its bookkeeping, and the current head.
At(v, tables, form) == [o \in Owners |-> IF o \in tables THEN form ELSE Canonical(v)[o]]

Deployed ==
  {<<v, At(v, {}, "absent")>> : v \in {19, 23, 28, 31, Head}}
  \cup {<<19, At(19, {20}, f)>> : f \in {"legacy", "canonical"}}
  \cup {<<19, At(19, Bundle, f)>> : f \in {"legacy", "canonical"}}
  \cup {<<19, At(19, {20, 23}, "legacy")>>}
  \cup {<<23, At(23, Drift, "dev")>>, <<27, At(27, Drift, "drift")>>,
        <<28, At(28, {26}, "rendering")>>}
  \cup {<<30, At(30, {31}, "canonical")>>, <<31, At(31, {32, 33}, "canonical")>>}

Init ==
  /\ \E d \in Deployed : version = d[1] /\ catalog = d[2]
  /\ rows = {}
  /\ paused = TRUE
  /\ sess = [s \in Sessions |-> Idle]
  /\ pushes = 0

TypeOK ==
  /\ version \in 19..Head
  /\ catalog \in [Owners -> Forms]
  /\ rows \subseteq Owners
  /\ paused \in BOOLEAN
  /\ \A s \in Sessions : /\ sess[s].locked \subseteq Owners \cup {0}
                         /\ sess[s].dropped \subseteq Owners
                         /\ sess[s].kind \in {"idle", "alembic", "exact", "adopt31", "adopt33"}
  /\ pushes \in 0..MaxPushes

(***************************************************************************)
(* What a session sees: its own uncommitted catalog over the committed one.*)
(***************************************************************************)
View(s, o) == IF o \in DOMAIN sess[s].view THEN sess[s].view[o] ELSE catalog[o]
Empty(s, O) == O \cap (rows \ sess[s].dropped) = {}
Present(s, O) == {o \in O : View(s, o) # "absent"}
All(s, O, form) == \A o \in O : View(s, o) = form
Free(s, o) == \A q \in Sessions \ {s} : o \notin sess[q].locked
\* pg advisory lock 490019: the runner, the exact runner and the 0033 adopter.
AdvisoryFree(s) == \A q \in Sessions \ {s} : sess[q].kind \notin {"alembic", "exact", "adopt33"}

\* verify_frozen_schema_at_head, contract by contract.
BundleHeld(s, v)     == \A o \in Bundle \ Reshaped : o <= v => View(s, o) = "canonical"
LineageHeld(s, v)    == v >= 30 => All(s, Reshaped, "lineage") /\ View(s, 30) = "canonical"
QuotaHeld(s, v)      == v >= 31 => View(s, 31) = "canonical"
AdmissionsHeld(s, v) == v = 32 => View(s, 32) = "guarded"
ReadinessHeld(s, v)  == v >= 33 => All(s, {32, 33}, "canonical")
BatchesHeld(s, v)    == v >= 34 => View(s, 34) = "canonical"
LedgerHeld(s, v)     == v >= 35 => View(s, 35) = "canonical"

AtHead(s, v) == /\ BundleHeld(s, v) /\ LineageHeld(s, v) /\ QuotaHeld(s, v)
                /\ AdmissionsHeld(s, v) /\ ReadinessHeld(s, v)
                /\ BatchesHeld(s, v) /\ LedgerHeld(s, v)

(***************************************************************************)
(* The unlocked diagnosis of revision r: which path its upgrade takes.     *)
(***************************************************************************)
Adoption(s, r) == IF View(s, r) = "absent" THEN "create" ELSE "adopt"

PlansFound(s) ==
  CASE Present(s, Bundle) = {}     -> "create"
    [] Present(s, Bundle) = {20}   -> "pair"
    [] Present(s, Bundle) = Bundle -> "bundle"
    [] OTHER                       -> "refuse"

DevelopmentFound(s) ==
  CASE ~All(s, Preserved, "canonical")                               -> "refuse"
    [] Present(s, Drift) = {23} /\ All(s, {23}, "canonical")         -> "create"
    [] All(s, Drift, "canonical")                                    -> "adopt"
    [] All(s, Drift, "dev")                                          -> "development"
    [] OTHER                                                         -> "refuse"

PublishedFound(s) ==
  CASE ~All(s, Preserved, "canonical") -> "refuse"
    [] All(s, Drift, "canonical")      -> "skip"
    [] All(s, Drift, "drift")          -> "published"
    [] OTHER                           -> "refuse"

RenderingFound(s) ==
  CASE ~All(s, Bundle \ {26}, "canonical") -> "refuse"
    [] View(s, 26) = "canonical"           -> "skip"
    [] View(s, 26) = "rendering"           -> "checks"
    [] OTHER                               -> "refuse"

\* From 0030 on nothing pre-applied is accepted by an executable migration.
Fresh(s, r, path) == IF View(s, r) = "absent" THEN path ELSE "refuse"

Diagnosis(s, r) ==
  CASE r = 20 -> PlansFound(s)
    [] r = 24 -> DevelopmentFound(s)
    [] r = 28 -> PublishedFound(s)
    [] r = 29 -> RenderingFound(s)
    [] r = 30 -> Fresh(s, r, "lineage")
    [] r = 32 -> Fresh(s, r, "guarded")
    [] r = 33 -> Fresh(s, r, "append")
    [] r \in {31, 34, 35} -> Fresh(s, r, "create")
    [] OTHER  -> Adoption(s, r)

\* The relations _lock_owned_tables, ALTER TABLE and 0033's _bind lock.
Locks(path, r) == CASE path = "pair"                      -> {20}
                    [] path \in {"bundle", "development"} -> Bundle
                    [] path = "published"                 -> Drift
                    [] path = "checks"                    -> {26}
                    [] path = "adopt"                     -> {r}
                    [] path = "lineage"                   -> Reshaped
                    [] path = "append"                    -> {0, 32}
                    [] OTHER                              -> {}

\* A plausible slip: emptiness is taken from the inspection before the lock.
ConfirmedByForm(s, path, r) ==
  CASE path = "pair"        -> View(s, 20) \in {"canonical", "legacy"}
    [] path = "bundle"      -> All(s, Bundle, "canonical") \/ All(s, Bundle, "legacy")
    [] path = "development" -> All(s, Preserved, "canonical") /\ All(s, Drift, "dev")
    [] path = "published"   -> All(s, Preserved, "canonical") /\ All(s, Drift, "drift")
    [] path \in {"create", "lineage", "guarded", "append"} -> View(s, r) = "absent"
    [] OTHER                -> TRUE

(***************************************************************************)
(* The second inspection, under the locks.                                 *)
(***************************************************************************)
Confirmed(s, path, r) ==
  CASE path = "pair"        -> View(s, 20) \in {"canonical", "legacy"} /\ Empty(s, {20})
    [] path = "bundle"      -> \/ All(s, Bundle, "canonical") /\ Empty(s, {20})
                               \/ All(s, Bundle, "legacy") /\ Empty(s, Bundle)
    [] path = "development" -> /\ All(s, Preserved, "canonical") /\ All(s, Drift, "dev")
                               /\ Empty(s, Bundle)
    [] path = "published"   -> /\ All(s, Preserved, "canonical") /\ All(s, Drift, "drift")
                               /\ Empty(s, Bundle)
    [] path = "checks"      -> /\ All(s, Bundle \ {26}, "canonical") /\ View(s, 26) = "rendering"
                               /\ Empty(s, {26})
    [] path = "adopt"       -> View(s, r) = "canonical" /\ Empty(s, {r})
    [] path = "append"      -> AtHead(s, 32) /\ Empty(s, {32}) /\ View(s, 33) = "absent"
    [] path \in {"create", "lineage", "guarded"} -> View(s, r) = "absent"
    [] OTHER                -> TRUE

\* The tables the confirmed path drops, and what it leaves in the catalog.
Dropped(s, path) == CASE path = "pair"        -> {o \in {20} : View(s, o) = "legacy"}
                      [] path = "bundle"      -> {o \in Bundle : All(s, Bundle, "legacy")}
                      [] path \in {"development", "published"} -> Drift
                      [] OTHER                -> {}

Made(O, form)  == [o \in O |-> form]
Over(new, old) == [o \in DOMAIN new \cup DOMAIN old |-> IF o \in DOMAIN new THEN new[o] ELSE old[o]]

BundleRebuilt(s) == Over(Made({20}, "canonical"), Made(Dropped(s, "bundle"), "absent"))
DevelopmentRebuilt == [o \in Drift |-> IF o <= 24 THEN "canonical" ELSE "absent"]
AnalyticsRebuilt == Made({23, 24, 25}, "canonical")
RunsRebuilt == Made({26, 27}, "canonical")
PublishedRebuilt == Over(AnalyticsRebuilt, RunsRebuilt)
ChecksRewritten == Made({26}, "canonical")
LineageAltered(s) ==
  Over(Made({30}, "canonical"),
       [o \in Reshaped |-> IF View(s, o) = "canonical" THEN "lineage" ELSE View(s, o)])
AdmissionsGuarded == Made({32}, "guarded")
ReadinessAppended == Made({32, 33}, "canonical")

Rebuilt(s, path, r) ==
  CASE path = "pair"        -> Made({20}, "canonical")
    [] path = "bundle"      -> BundleRebuilt(s)
    [] path = "development" -> DevelopmentRebuilt
    [] path = "published"   -> PublishedRebuilt
    [] path = "checks"      -> ChecksRewritten
    [] path = "lineage"     -> LineageAltered(s)
    [] path = "guarded"     -> AdmissionsGuarded
    [] path = "append"      -> ReadinessAppended
    [] path = "create"      -> Made({r}, "canonical")
    [] OTHER                -> << >>

(***************************************************************************)
(* The Alembic runner: env.py under the advisory lock, every pending       *)
(* revision in one transaction.  The recorded revision is read once.       *)
(***************************************************************************)
Become(s, new) == sess' = [sess EXCEPT ![s] = new]

StartRunner(s, target) ==
  /\ sess[s].pc = "idle" /\ AdvisoryFree(s) /\ target > version
  /\ Become(s, [Idle EXCEPT !.kind = "alembic", !.at = version, !.from = version,
                            !.target = target, !.pc = "inspect"])
  /\ UNCHANGED <<version, catalog, rows, paused, pushes>>

\* The first look at the catalog, before any lock of this revision.
Inspect(s) ==
  LET path == Diagnosis(s, sess[s].at + 1) IN
  /\ sess[s].pc = "inspect" /\ sess[s].at < sess[s].target
  /\ path # "refuse"
  /\ Become(s, [sess[s] EXCEPT !.path = path, !.pc = "lock"])
  /\ UNCHANGED <<version, catalog, rows, paused, pushes>>

\* LOCK TABLE ... IN ACCESS EXCLUSIVE MODE waits for every other holder.
LockTables(s) ==
  LET wanted == Locks(sess[s].path, sess[s].at + 1) IN
  /\ sess[s].pc = "lock" /\ \A o \in wanted : Free(s, o)
  /\ Become(s, [sess[s] EXCEPT !.locked = @ \cup wanted, !.pc = "rebuild"])
  /\ UNCHANGED <<version, catalog, rows, paused, pushes>>

\* Inspect again, drop and recreate or adopt, then record the revision: the
\* UPDATE of alembic_version locks its row until the transaction ends and
\* finds nothing to update if another session has moved the revision.
Rebuild(s) ==
  LET r    == sess[s].at + 1
      path == sess[s].path
      new  == Over(Rebuilt(s, path, r), sess[s].view) IN
  /\ sess[s].pc = "rebuild" /\ Confirmed(s, path, r)
  /\ \A o \in DOMAIN new : o \in DOMAIN sess[s].view \/ Free(s, o)
  /\ Free(s, 0) /\ version = sess[s].from
  /\ Become(s, [sess[s] EXCEPT !.at = r, !.pc = "inspect", !.view = new,
                  !.dropped = @ \cup {o \in Dropped(s, path) : o \notin DOMAIN sess[s].view},
                  !.locked = @ \cup {0} \cup DOMAIN new,
                  !.owed = CASE path = "bundle" /\ Dropped(s, path) # {} -> "bundle"
                             [] path = "development" -> "development"
                             [] r = 27 -> "none"
                             [] OTHER  -> @])
  /\ r = 27 /\ sess[s].owed # "none" =>
       /\ \A o \in Bundle : (IF o \in DOMAIN new THEN new[o] ELSE catalog[o]) = "canonical"
       /\ Empty(s, Bundle \ DOMAIN new)
  /\ UNCHANGED <<version, catalog, rows, paused, pushes>>

\* env.py refuses to commit a bundle that was dropped and not rebuilt to 0027.
Commit(s) ==
  /\ sess[s].pc = "inspect" /\ sess[s].at = sess[s].target
  /\ sess[s].owed # "bundle"
  /\ version' = sess[s].at
  /\ catalog' = [o \in Owners |-> View(s, o)]
  /\ rows' = rows \ sess[s].dropped
  /\ Become(s, Idle)
  /\ UNCHANGED <<paused, pushes>>

\* A refusal, a failed statement or a crash: the transaction never happened.
Undone(s) ==
  /\ Become(s, Idle)
  /\ UNCHANGED <<version, catalog, rows, paused, pushes>>

\* A foreign key, a rule or a child of someone else hangs on tables that are
\* about to be dropped: the whole pre-applied bundle, or a drift's tables.
_external_bundle_dependencies(s) ==
  /\ sess[s].pc = "rebuild" /\ sess[s].path \in {"pair", "bundle"}
  /\ Confirmed(s, sess[s].path, 20) /\ Dropped(s, sess[s].path) # {}
  /\ Undone(s)

_external_dependencies_for_tables(s) ==
  /\ sess[s].pc = "rebuild" /\ sess[s].path \in {"development", "published"}
  /\ Confirmed(s, sess[s].path, sess[s].at + 1)
  /\ Undone(s)

Rollback(s) == sess[s].pc # "idle" /\ Undone(s)

(***************************************************************************)
(* The bookkeeping runners.  All relation locks are taken NOWAIT, before   *)
(* anything is read; only the exact runner executes a migration.           *)
(***************************************************************************)
Examined == Owners \cup {0}

StartBookkeeping(s, kind) ==
  /\ sess[s].pc = "idle"
  /\ kind # "adopt31" => AdvisoryFree(s)
  /\ \A o \in Examined : Free(s, o)
  /\ Become(s, [Idle EXCEPT !.kind = kind, !.from = version, !.pc = "certify", !.locked = Examined])
  /\ UNCHANGED <<version, catalog, rows, paused, pushes>>

\* What each runner certifies under its locks, and where it moves the record.
Advance(s, kind) ==
  CASE kind = "adopt31" /\ version = 30 ->
         [to |-> 31, ok |-> AtHead(s, 30) /\ View(s, 31) = "canonical" /\ Empty(s, {31})]
    [] kind = "adopt33" /\ version = 31 ->
         [to |-> 33, ok |-> /\ AtHead(s, 31) /\ All(s, {32, 33}, "canonical") /\ Empty(s, {32, 33})]
    [] kind = "exact" /\ version = 31 ->
         [to |-> 32, ok |-> AtHead(s, 31) /\ View(s, 32) = "absent"]
    [] OTHER -> [to |-> version, ok |-> FALSE]

\* One UPDATE ... RETURNING, then commit; a caller that cannot tell whether
\* the commit arrived stops, which is a Commit or a Rollback nobody repeats.
Record(s) ==
  LET move == Advance(s, sess[s].kind) IN
  /\ sess[s].pc = "certify" /\ move.ok /\ paused
  /\ version' = move.to
  /\ catalog' = IF sess[s].kind = "exact" THEN [catalog EXCEPT ![32] = "guarded"] ELSE catalog
  /\ Become(s, Idle)
  /\ UNCHANGED <<rows, paused, pushes>>

(***************************************************************************)
(* Everyone else.                                                          *)
(***************************************************************************)
Unlocked(o) == \A s \in Sessions : o \notin sess[s].locked

Insert(o) ==
  /\ catalog[o] # "absent" /\ o \notin rows /\ Unlocked(o) /\ Cardinality(rows) < MaxRows
  /\ rows' = rows \cup {o}
  /\ UNCHANGED <<version, catalog, paused, sess, pushes>>

\* An operator arms or pauses dispatch: the control row is among the locked
\* relations.  (Live publications, runs and permits are a further refusal.)
Operate ==
  /\ \A s \in Sessions : sess[s].pc # "certify"
  /\ paused' = ~paused
  /\ UNCHANGED <<version, catalog, rows, sess, pushes>>

\* A publish re-renders tables it finds, or pre-applies ones that are missing.
Push(O, form) ==
  /\ pushes < MaxPushes
  /\ \A o \in O : Unlocked(o) /\ catalog[o] # form
  /\ catalog' = [o \in Owners |-> IF o \in O THEN form ELSE catalog[o]]
  /\ pushes' = pushes + 1
  /\ UNCHANGED <<version, rows, paused, sess>>

Pushed == {<<{20}, "legacy">>, <<Drift, "dev">>, <<Drift, "drift">>, <<{26}, "rendering">>,
           <<{31}, "canonical">>, <<{32, 33}, "canonical">>}

Next ==
  \/ \E s \in Sessions :
       \/ \E target \in {26, Head} : StartRunner(s, target)
       \/ \E kind \in {"adopt31", "adopt33", "exact"} : StartBookkeeping(s, kind)
       \/ Inspect(s) \/ LockTables(s) \/ Rebuild(s) \/ Commit(s) \/ Record(s) \/ Rollback(s)
       \/ _external_bundle_dependencies(s) \/ _external_dependencies_for_tables(s)
  \/ \E o \in Owners : Insert(o)
  \/ \E p \in Pushed : Push(p[1], p[2])
  \/ Operate

Spec == Init /\ [][Next]_vars

(***************************************************************************)
(* Properties.                                                             *)
(***************************************************************************)
\* No committed row disappears, whatever the platform published and whichever
\* writer slips in between the unlocked inspection and the lock; and a revision
\* is recorded only in a step that leaves the tables it owns in their frozen
\* form, so no session adopts tables another one changed under it.
StepIsSafe ==
  /\ rows \subseteq rows'
  /\ \A o \in Owners : version < o /\ o <= version' => catalog'[o] = Form(o, version')

AdoptionIsSafe == [][StepIsSafe]_vars
(***************************************************************************)
(* Why it holds.  Two sessions never hold one lock, and what a migration   *)
(* has dropped or will record stands under its locks until it ends.        *)
(***************************************************************************)
Routes == {"none", "create", "pair", "bundle", "development", "published", "checks", "adopt",
           "skip", "lineage", "guarded", "append"}

SessionShapes ==
  /\ sess \in [Sessions ->
       [kind : {"idle", "alembic", "exact", "adopt31", "adopt33"}, at : 0..Head, from : 0..Head,
        target : 0..Head, pc : {"idle", "inspect", "lock", "rebuild", "certify"}, path : Routes,
        locked : SUBSET (Owners \cup {0}), view : {sess[s].view : s \in Sessions},
        dropped : SUBSET Owners, owed : {"none", "bundle", "development"}]]
  /\ \A s \in Sessions : sess[s].view \in [DOMAIN sess[s].view -> Forms]

LocksExclude ==
  \A s, q \in Sessions : s # q => sess[s].locked \cap sess[q].locked = {}

UnderLock ==
  \A s \in Sessions :
    /\ DOMAIN sess[s].view \subseteq sess[s].locked \cap Owners
    /\ sess[s].dropped \subseteq sess[s].locked
    /\ sess[s].dropped \cap rows = {}
    /\ sess[s].pc \in {"idle", "certify"} => sess[s].view = << >>
    /\ sess[s].pc = "idle" => sess[s].locked = {}
    /\ sess[s].pc = "certify" => sess[s].locked = Examined

\* The paths a revision can take, and their locks once they are taken.
Paths(r) == CASE r = 20 -> {"create", "pair", "bundle"}
              [] r = 24 -> {"create", "adopt", "development"}
              [] r = 28 -> {"skip", "published"}
              [] r = 29 -> {"skip", "checks"}
              [] r = 30 -> {"lineage"}
              [] r = 32 -> {"guarded"}
              [] r = 33 -> {"append"}
              [] r \in {31, 34, 35} -> {"create"}
              [] OTHER  -> {"create", "adopt"}

Taking ==
  \A s \in Sessions :
    /\ sess[s].pc \in {"lock", "rebuild"} => /\ sess[s].path \in Paths(sess[s].at + 1)
                                             /\ sess[s].at < sess[s].target
    /\ sess[s].pc = "rebuild" => Locks(sess[s].path, sess[s].at + 1) \subseteq sess[s].locked

Migrated ==
  \A s \in Sessions : sess[s].pc \in {"inspect", "lock", "rebuild"} =>
    /\ sess[s].from \in 19..Head /\ sess[s].at \in sess[s].from..sess[s].target
    /\ sess[s].target \in 20..Head /\ sess[s].from < sess[s].target
    /\ sess[s].at > sess[s].from => 0 \in sess[s].locked /\ version = sess[s].from
    /\ \A o \in Owners : sess[s].from < o /\ o <= sess[s].at =>
         o \in sess[s].locked /\ View(s, o) = Form(o, sess[s].at)

SchemaInv == TypeOK /\ SessionShapes /\ LocksExclude /\ UnderLock /\ Taking /\ Migrated
=============================================================================
