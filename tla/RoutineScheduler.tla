-------------------------- MODULE RoutineScheduler ---------------------------
(* Who may run the routine worker: the scheduler loop of each process          *)
(* (services/routine_pinterest_scheduler.py), the leader lease on a PostgreSQL *)
(* session advisory lock (routine_scheduler_lease.py), and the one-shot canary *)
(* (routine_scheduler_canary.py) that borrows the lease for a single DRY_RUN   *)
(* tick.  What a tick does once its run row exists is RoutinePublishing.       *)
(*                                                                             *)
(* The lease is held on a connection.  When that breaks, the client finds out  *)
(* at its next statement, and the server lets go of the lock when it reaps the *)
(* session: the two may happen in any order.                                   *)
EXTENDS Naturals

CONSTANTS
  Loops,     \* processes with the scheduler enabled, one loop task each
  Canaries,  \* canary requests; their processes have the scheduler disabled
  None,
  Zombie,    \* a session whose client has lost it and the server has not
  MaxFaults  \* bound: broken connections, exceptions, stops and deaths

Actors == Loops \cup Canaries

ASSUME ActorsAssumption ==
  /\ Loops \cap Canaries = {}
  /\ None \notin Actors /\ Zombie \notin Actors /\ None # Zombie
ASSUME FaultsAssumption == MaxFaults \in Nat

VARIABLES
  pc,       \* where each loop and each request is
  conn,     \* the lease's connection as it really is: "none", "open" or "broken"
  lock,     \* the holder of ROUTINE_SCHEDULER_ADVISORY_LOCK_KEY
  run,      \* the RUNNING RoutinePublishingRun: its owner, and is its heartbeat stale?
  control,  \* RoutinePublishingControl.state, DRY_RUN taken with LIVE
  markers,  \* requests whose scheduler_canary marker is on a run row
  passed,   \* requests that answered PASS
  faults

vars == <<pc, conn, lock, run, control, markers, passed, faults>>

LoopLabels   == {"off", "sleep", "tick", "run", "work", "dead"}
CanaryLabels == {"ask", "held", "ready", "admit", "work", "verify", "done"}

TypeOK ==
  /\ pc \in [Actors -> LoopLabels \cup CanaryLabels]
  /\ conn \in [Actors -> {"none", "open", "broken"}]
  /\ lock \in Actors \cup {None, Zombie}
  /\ run \in [owner : Actors \cup {None}, stale : BOOLEAN]
  /\ control \in {"PAUSED", "LIVE"}
  /\ markers \in SUBSET Canaries
  /\ passed \in SUBSET Canaries
  /\ faults \in 0..MaxFaults

NoRun == [owner |-> None, stale |-> FALSE]

Init ==
  /\ pc = [a \in Actors |-> IF a \in Loops THEN "off" ELSE "ask"]
  /\ conn = [a \in Actors |-> "none"]
  /\ lock = None
  /\ run = NoRun
  /\ control = "PAUSED"
  /\ markers = {}
  /\ passed = {}
  /\ faults = 0

Goto(a, l) == pc' = [pc EXCEPT ![a] = l]
Fault == faults < MaxFaults /\ faults' = faults + 1

-----------------------------------------------------------------------------
(* PostgresSchedulerLeaderLease.                                               *)

(* Mutant: the answer of pg_try_advisory_lock is not looked at.                *)
AcquireUnchecked(a) ==
  /\ conn' = [conn EXCEPT ![a] = "open"]
  /\ lock' = a

acquire(a) ==
  /\ lock = None
  /\ conn' = [conn EXCEPT ![a] = "open"]
  /\ lock' = a

(* The connection is closed, the lock unlocked if the session is still ours.   *)
release(a) ==
  /\ conn' = [conn EXCEPT ![a] = "none"]
  /\ lock' = IF lock = a THEN None ELSE lock

(* finish_run by the owner of the row.                                         *)
FinishRun(a) == run' = IF run.owner = a THEN NoRun ELSE run

-----------------------------------------------------------------------------
(* The scheduler loop.                                                         *)

start_scheduler(l) ==
  /\ pc[l] = "off"
  /\ Goto(l, "sleep")
  /\ UNCHANGED <<conn, lock, run, control, markers, passed, faults>>

(* After the sleep: take the lease unless the loop believes it holds it.       *)
Wake(l) ==
  /\ pc[l] = "sleep"
  /\ \/ conn[l] # "none" /\ UNCHANGED <<conn, lock>>
     \/ conn[l] = "none" /\ acquire(l)
  /\ Goto(l, "tick")
  /\ UNCHANGED <<run, control, markers, passed, faults>>

(* Mutant: a lost lease keeps its connection.                                  *)
TickLostKept(l) ==
  /\ pc[l] = "tick"
  /\ Goto(l, IF conn[l] = "open" THEN "run" ELSE "sleep")
  /\ UNCHANGED <<conn, lock, run, control, markers, passed, faults>>

(* scheduler_tick: a lease that does not validate is dropped, not run under.   *)
Tick(l) ==
  /\ pc[l] = "tick"
  /\ \/ /\ conn[l] = "open"
        /\ Goto(l, "run")
        /\ UNCHANGED conn
     \/ /\ conn[l] = "broken"
        /\ Goto(l, "sleep")
        /\ conn' = [conn EXCEPT ![l] = "none"]
  /\ UNCHANGED <<lock, run, control, markers, passed, faults>>

(* run_once opens its run row, or finds control paused or another run alive.   *)
StartRun(l) ==
  /\ pc[l] = "run"
  /\ \/ /\ control = "LIVE"
        /\ run.owner = None \/ run.stale
        /\ run' = [owner |-> l, stale |-> FALSE]
        /\ Goto(l, "work")
     \/ /\ control = "PAUSED" \/ (run.owner # None /\ ~run.stale)
        /\ Goto(l, "sleep")
        /\ UNCHANGED run
  /\ UNCHANGED <<conn, lock, control, markers, passed, faults>>

EndRun(l) ==
  /\ pc[l] = "work"
  /\ FinishRun(l)
  /\ Goto(l, "sleep")
  /\ UNCHANGED <<conn, lock, control, markers, passed, faults>>

(* Mutant: the loop ends without its finally block.                            *)
TickErrorNoRelease(l) ==
  /\ pc[l] \in {"run", "work"} /\ Fault
  /\ \/ FinishRun(l)
     \/ UNCHANGED run
  /\ Goto(l, "dead")
  /\ UNCHANGED <<conn, lock, control, markers, passed>>

(* An exception of the worker, which finishes its run if the database still    *)
(* lets it, leaves scheduler_tick, and with it the loop: the finally block     *)
(* releases the lease and nothing starts the loop again.                       *)
TickError(l) ==
  /\ pc[l] \in {"run", "work"}
  /\ Fault
  /\ \/ FinishRun(l)
     \/ UNCHANGED run
  /\ release(l)
  /\ Goto(l, "dead")
  /\ UNCHANGED <<control, markers, passed>>

(* The cancellation lands in the sleep or in the worker, which does not catch  *)
(* it: the run row stays RUNNING.  A loop that had ended is merely forgotten.   *)
stop_scheduler(l) ==
  /\ pc[l] \in {"sleep", "work", "dead"}
  /\ Fault
  /\ release(l)
  /\ Goto(l, "off")
  /\ UNCHANGED <<run, control, markers, passed>>

-----------------------------------------------------------------------------
(* run_routine_scheduler_canary.                                               *)

CanaryAcquire(c) ==
  /\ pc[c] = "ask"
  /\ \/ acquire(c) /\ Goto(c, "held")
     \/ lock # None /\ Goto(c, "done") /\ UNCHANGED <<conn, lock>>
  /\ UNCHANGED <<run, control, markers, passed, faults>>

(* Mutant: a marker left by an earlier request does not count.                 *)
CanaryRearmed(c) ==
  /\ pc[c] = "held" /\ control = "PAUSED" /\ run.owner = None
  /\ Goto(c, "ready")
  /\ UNCHANGED <<conn, lock, run, control, markers, passed, faults>>

(* _preflight, in a session of its own: paused, never exercised, nothing live. *)
CanaryPreflight(c) ==
  /\ pc[c] = "held"
  /\ control = "PAUSED"
  /\ markers = {}
  /\ run.owner = None
  /\ Goto(c, "ready")
  /\ UNCHANGED <<conn, lock, run, control, markers, passed, faults>>

(* scheduler_tick and run_once up to the last validate_canary_context before   *)
(* the run row is written.                                                     *)
CanaryTick(c) ==
  /\ pc[c] = "ready"
  /\ conn[c] = "open"
  /\ control = "PAUSED"
  /\ Goto(c, "admit")
  /\ UNCHANGED <<conn, lock, run, control, markers, passed, faults>>

(* start_run with recover_stale off: any RUNNING row refuses the marker.  The  *)
(* lease was validated a statement ago, not in this transaction.               *)
CanaryStart(c) ==
  /\ pc[c] = "admit"
  /\ run.owner = None
  /\ run' = [owner |-> c, stale |-> FALSE]
  /\ markers' = markers \cup {c}
  /\ Goto(c, "work")
  /\ UNCHANGED <<conn, lock, control, passed, faults>>

(* The preview is rolled back; the lease must still validate for finish_run.   *)
CanaryFinish(c) ==
  /\ pc[c] = "work"
  /\ conn[c] = "open"
  /\ FinishRun(c)
  /\ Goto(c, "verify")
  /\ UNCHANGED <<conn, lock, control, markers, passed, faults>>

(* _verify_postconditions, the last validation, and the answer.  The control   *)
(* row is compared whole in the code; here by its state.                       *)
CanaryPass(c) ==
  /\ pc[c] = "verify"
  /\ control = "PAUSED"
  /\ conn[c] = "open"
  /\ passed' = passed \cup {c}
  /\ release(c)
  /\ Goto(c, "done")
  /\ UNCHANGED <<run, control, markers, faults>>

(* Any check may refuse.  A run already started is finished as FAILED, unless  *)
(* the lease no longer validates: then its row stays RUNNING.                  *)
CanaryRefuse(c) ==
  /\ pc[c] \in {"held", "ready", "admit", "work", "verify"}
  /\ IF conn[c] = "open" THEN FinishRun(c) ELSE UNCHANGED run
  /\ release(c)
  /\ Goto(c, "done")
  /\ UNCHANGED <<control, markers, passed, faults>>

-----------------------------------------------------------------------------
(* The environment.                                                            *)

Break(a) ==
  /\ conn[a] = "open"
  /\ Fault
  /\ conn' = [conn EXCEPT ![a] = "broken"]
  /\ lock' = IF lock = a THEN Zombie ELSE lock
  /\ UNCHANGED <<pc, run, control, markers, passed>>

Reap ==
  /\ lock = Zombie
  /\ lock' = None
  /\ UNCHANGED <<pc, conn, run, control, markers, passed, faults>>

Die(a) ==
  /\ pc[a] \notin {"off", "dead", "ask", "done"}
  /\ Fault
  /\ Goto(a, IF a \in Loops THEN "off" ELSE "done")
  /\ conn' = [conn EXCEPT ![a] = "none"]
  /\ lock' = IF lock = a THEN Zombie ELSE lock
  /\ UNCHANGED <<run, control, markers, passed>>

(* The run row of an owner that stopped heartbeating ages past the cut-off.    *)
Age ==
  /\ run.owner # None
  /\ ~run.stale
  /\ pc[run.owner] # "work"
  /\ run' = [run EXCEPT !.stale = TRUE]
  /\ UNCHANGED <<pc, conn, lock, control, markers, passed, faults>>

set_control_state ==
  /\ control' \in {"PAUSED", "LIVE"} \ {control}
  /\ UNCHANGED <<pc, conn, lock, run, markers, passed, faults>>

Next ==
  \/ \E l \in Loops :
       \/ start_scheduler(l) \/ Wake(l) \/ Tick(l) \/ StartRun(l) \/ EndRun(l)
       \/ TickError(l) \/ stop_scheduler(l)
  \/ \E c \in Canaries :
       \/ CanaryAcquire(c) \/ CanaryPreflight(c) \/ CanaryTick(c) \/ CanaryStart(c)
       \/ CanaryFinish(c) \/ CanaryPass(c) \/ CanaryRefuse(c)
  \/ \E a \in Actors : Break(a) \/ Die(a)
  \/ Reap \/ Age \/ set_control_state

(* The event loop keeps running its tasks, an awaited request is answered, and *)
(* the server reaps dead sessions.  Nobody has to restart a process, or to     *)
(* leave control unpaused.  Standing by and a failed connect change nothing, so *)
(* a loop gets the lease if it is free again and again: strong fairness.       *)
Spec ==
  /\ Init /\ [][Next]_vars
  /\ WF_vars(Reap)
  /\ \A l \in Loops : SF_vars(Wake(l)) /\ WF_vars(Tick(l)) /\ WF_vars(StartRun(l) \/ EndRun(l))
  /\ \A c \in Canaries : WF_vars(CanaryFinish(c) \/ CanaryPass(c) \/ CanaryRefuse(c))

-----------------------------------------------------------------------------
(* Properties.                                                                 *)

(* Two actors past validation of the lease overlap only if one of them has     *)
(* lost its connection: PostgreSQL's lock, the answer of pg_try_advisory_lock  *)
(* and validate together elect one leader.                                     *)
LeaderIsAlone ==
  \A a, b \in Actors :
    /\ pc[a] \in {"run", "work", "admit", "verify"} /\ conn[a] = "open"
    /\ pc[b] \in {"run", "work", "admit", "verify"} /\ conn[b] = "open"
    => a = b

(* However a loop or a request ends, by exception, cancellation or refusal, it *)
(* does not leave the lock taken: the finally blocks release it.               *)
NoOrphanLock ==
  \A a \in Actors : lock = a => pc[a] \notin {"off", "dead", "ask", "done"}

(* At most one canary answers PASS, though two may leave their marker when the *)
(* first one's connection breaks between its validation and its commit.        *)
OnePass == \A c, d \in passed : c = d

(* Leadership moves on: for ever again some loop enters the worker, unless all *)
(* loops have stopped or ended.                                                *)
Failover ==
  []<>(\E l \in Loops : pc[l] = "run") \/ <>[](\A l \in Loops : pc[l] \in {"off", "dead"})
=============================================================================
