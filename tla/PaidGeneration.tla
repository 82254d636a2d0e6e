---------------------------- MODULE PaidGeneration ----------------------------
(* The paid calls to the hosted AI provider and the budget that caps them.     *)
(* Copy is regenerated by ai_regeneration.py (_copy_from_provider), artwork and*)
(* structured content by ai_creative_generation.py (_paid_preflight). Each     *)
(* takes an advisory lock, adds up the spend on record and calls the provider  *)
(* before it commits, so that the record of a call exists only once its        *)
(* transaction has committed. The two take different locks, and count different*)
(* records.                                                                    *)
(*                                                                             *)
(* A request costs one unit, estimated and used. One day is modelled; the month*)
(* is capped the same way.                                                     *)
EXTENDS Naturals

CONSTANTS
  Jobs,     \* requests, each for a draft of its own
  Budget    \* daily_budget_usd, in requests

VARIABLES
  job,      \* job -> [pc, path]
  holder,   \* path -> the job that holds the path's advisory lock
  ledger,   \* units on record: by copy, by creative attempts, by blocked ones
  called,   \* path -> calls made
  lost      \* path -> calls whose record was rolled back

paidVars == <<job, holder, ledger, called, lost>>

Paths == {"copy", "creative"}
Free  == "free"

PGInit ==
  /\ job = [j \in Jobs |-> [pc |-> "new", path |-> "copy"]]
  /\ holder = [p \in Paths |-> Free]
  /\ ledger = [copy |-> 0, attempt |-> 0, blocked |-> 0]
  /\ called = [p \in Paths |-> 0]
  /\ lost = [p \in Paths |-> 0]

Path(j) == job[j].path
Done(j) == job' = [job EXCEPT ![j].pc = "done"]
Unlock(j) == holder' = [holder EXCEPT ![Path(j)] = Free]

(* Copy counts every record of the provider, the blocked requests' estimates   *)
(* among them; creative generation only its own attempts.                      *)
_spend(path) == IF path = "copy" THEN ledger.copy + ledger.attempt + ledger.blocked
                                 ELSE ledger.attempt

(* The mode is hosted_paid, a provider answers to it and its price is known.   *)
RequestGeneration(j, path) ==
  /\ job[j].pc = "new"
  /\ job' = [job EXCEPT ![j] = [pc |-> "ready", path |-> path]]
  /\ UNCHANGED <<holder, ledger, called, lost>>

(* Nothing is called: disabled, unpriced, or above the per-request ceiling. The*)
(* deterministic version costs nothing and has no record that counts.          *)
GenerateUnpaid(j) ==
  /\ job[j].pc = "ready"
  /\ Done(j)
  /\ UNCHANGED <<holder, ledger, called, lost>>

(* Mutant: the budget is read without the lock.                                *)
PreflightUnlocked(j) ==
  /\ job[j].pc = "ready"
  /\ _spend(Path(j)) + 1 <= Budget
  /\ job' = [job EXCEPT ![j].pc = "calling"]
  /\ UNCHANGED <<holder, ledger, called, lost>>

Preflight(j) ==
  /\ job[j].pc = "ready"
  /\ holder[Path(j)] = Free
  /\ _spend(Path(j)) + 1 <= Budget
  /\ holder' = [holder EXCEPT ![Path(j)] = j]
  /\ job' = [job EXCEPT ![j].pc = "calling"]
  /\ UNCHANGED <<ledger, called, lost>>

(* Over budget: the block is recorded with its estimate.                       *)
Block(j) ==
  /\ job[j].pc = "ready"
  /\ holder[Path(j)] = Free
  /\ _spend(Path(j)) + 1 > Budget
  /\ ledger' = IF Path(j) = "copy" THEN [ledger EXCEPT !.copy = @ + 1]
                                   ELSE [ledger EXCEPT !.blocked = @ + 1]
  /\ Done(j)
  /\ UNCHANGED <<holder, called, lost>>

(* The call is made inside the transaction, whatever comes back.               *)
CallProvider(j) ==
  /\ job[j].pc = "calling"
  /\ called' = [called EXCEPT ![Path(j)] = @ + 1]
  /\ job' = [job EXCEPT ![j].pc = "called"]
  /\ UNCHANGED <<holder, ledger, lost>>

(* The version is committed with its record; a provider failure, or an answer  *)
(* that is refused, commits the record alone.                                  *)
Commit(j) ==
  /\ job[j].pc = "called"
  /\ ledger' = IF Path(j) = "copy" THEN [ledger EXCEPT !.copy = @ + 1]
                                   ELSE [ledger EXCEPT !.attempt = @ + 1]
  /\ Unlock(j)
  /\ Done(j)
  /\ UNCHANGED <<called, lost>>

(* An exception nobody records (storing, rendering or checking the answer), or *)
(* the process dies: the transaction rolls back and the call leaves no record. *)
Rollback(j) ==
  /\ job[j].pc \in {"calling", "called"}
  /\ lost' = IF job[j].pc = "called" THEN [lost EXCEPT ![Path(j)] = @ + 1] ELSE lost
  /\ Unlock(j)
  /\ Done(j)
  /\ UNCHANGED <<ledger, called>>

PGNext ==
  \E j \in Jobs :
    \/ \E path \in Paths : RequestGeneration(j, path)
    \/ GenerateUnpaid(j) \/ Preflight(j) \/ Block(j)
    \/ CallProvider(j) \/ Commit(j) \/ Rollback(j)

PGSpec == PGInit /\ [][PGNext]_paidVars

-----------------------------------------------------------------------------
PaidTypeOK ==
  /\ \A j \in Jobs : job[j].pc \in {"new", "ready", "calling", "called", "done"}
  /\ holder \in [Paths -> Jobs \cup {Free}]
  /\ ledger \in [{"copy", "attempt", "blocked"} -> Nat]

(* However requests overlap, each path keeps its own paid calls within the     *)
(* day's budget, apart from those whose record was rolled back.                *)
PathWithinBudget == \A p \in Paths : called[p] - lost[p] <= Budget

-----------------------------------------------------------------------------
(* The inductive invariant of PathWithinBudget. A block of the copy path is    *)
(* recorded like a call, so the record may exceed the budget and the calls not:*)
(* it is the call under way that must still fit.                               *)
Recorded(path) == IF path = "copy" THEN ledger.copy ELSE ledger.attempt

PaidShapes ==
  /\ job \in [Jobs -> [pc : {"new", "ready", "calling", "called", "done"}, path : Paths]]
  /\ holder \in [Paths -> Jobs \cup {Free}]
  /\ ledger \in [copy : Nat, attempt : Nat, blocked : Nat]
  /\ called \in [Paths -> Nat] /\ lost \in [Paths -> Nat]

CallerHolds == \A j \in Jobs : job[j].pc \in {"calling", "called"} =>
  holder[Path(j)] = j /\ Recorded(Path(j)) + 1 <= Budget

CallsRecorded == \A p \in Paths :
  \/ called[p] - lost[p] <= Recorded(p)
  \/ /\ called[p] - lost[p] <= Recorded(p) + 1
     /\ \E j \in Jobs : job[j].pc = "called" /\ Path(j) = p

PaidInv == PaidShapes /\ CallerHolds /\ CallsRecorded /\ PathWithinBudget
=============================================================================
