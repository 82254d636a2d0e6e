---------------------- MODULE RoutineScheduler_proofs ------------------------
(* Proofs about RoutineScheduler, for every set of loops and of canary         *)
(* requests and every number of faults.                                        *)
EXTENDS RoutineScheduler, TLAPS

Labelled ==
  /\ \A l \in Loops : pc[l] \in LoopLabels
  /\ \A c \in Canaries : pc[c] \in CanaryLabels

(* A lease whose connection is really open is the holder of the lock, and an   *)
(* actor that ended or has not begun has no connection.                        *)
LeaseFacts ==
  /\ \A a \in Actors : conn[a] = "open" <=> lock = a
  /\ \A a \in Actors : pc[a] \in {"off", "dead", "ask", "done"} => conn[a] = "none"

(* While a canary past its preflight keeps its connection, nobody has passed:  *)
(* passing takes the lock, and a marker that was there before would have been  *)
(* seen.                                                                       *)
CanaryFacts ==
  /\ passed \subseteq markers
  /\ \A c \in Canaries : pc[c] \in {"work", "verify"} => c \in markers
  /\ \A c \in Canaries :
       pc[c] \in {"ready", "admit", "work", "verify"} /\ conn[c] = "open" => passed = {}

IInv == TypeOK /\ Labelled /\ LeaseFacts /\ CanaryFacts /\ OnePass

LEMMA InitIInv == Init => IInv
<1> SUFFICES ASSUME Init PROVE IInv OBVIOUS
<1> USE ActorsAssumption, FaultsAssumption DEF Init
<1>1. TypeOK BY DEF TypeOK, NoRun, LoopLabels, CanaryLabels, Actors
<1>2. Labelled BY DEF Labelled, LoopLabels, CanaryLabels, Actors
<1>3. LeaseFacts BY DEF LeaseFacts
<1>4. CanaryFacts
  <2>1. \A c \in Canaries : pc[c] = "ask" BY DEF Actors
  <2> QED BY <2>1 DEF CanaryFacts
<1>5. OnePass BY DEF OnePass
<1> QED BY <1>1, <1>2, <1>3, <1>4, <1>5 DEF IInv

LEMMA FreshRun ==
  ASSUME NEW a \in Actors \cup {None}
  PROVE  [owner |-> a, stale |-> FALSE] \in [owner : Actors \cup {None}, stale : BOOLEAN]
  OBVIOUS

(* Every action writes values of the variables' types.                         *)
LEMMA TypeStep == TypeOK /\ [Next]_vars => TypeOK'
<1> SUFFICES ASSUME TypeOK, [Next]_vars PROVE TypeOK' OBVIOUS
<1> USE DEF TypeOK, LoopLabels, CanaryLabels, NoRun, Goto, Fault, FinishRun, acquire, release
<1>0. Loops \subseteq Actors /\ Canaries \subseteq Actors BY DEF Actors
<1>1. CASE \E l \in Loops : start_scheduler(l) BY <1>0, <1>1 DEF start_scheduler
<1>2. CASE \E l \in Loops : Wake(l) BY <1>0, <1>2 DEF Wake
<1>3. CASE \E l \in Loops : Tick(l) BY <1>0, <1>3 DEF Tick
<1>4. CASE \E l \in Loops : StartRun(l)
  <2>1. PICK l \in Loops : StartRun(l) BY <1>4
  <2>2. run' \in [owner : Actors \cup {None}, stale : BOOLEAN]
    <3>1. run' = run \/ run' = [owner |-> l, stale |-> FALSE] BY <2>1 DEF StartRun
    <3>2. [owner |-> l, stale |-> FALSE] \in [owner : Actors \cup {None}, stale : BOOLEAN]
      BY <1>0, FreshRun
    <3> QED BY <3>1, <3>2
  <2>3. pc' \in [Actors -> LoopLabels \cup CanaryLabels] BY <1>0, <2>1 DEF StartRun
  <2>4. conn' \in [Actors -> {"none", "open", "broken"}] /\ lock' \in Actors \cup {None, Zombie}
    BY <1>0, <2>1 DEF StartRun
  <2>5. faults' \in 0..MaxFaults /\ UNCHANGED <<control, markers, passed>>
    BY <2>1 DEF StartRun
  <2> QED BY <2>2, <2>3, <2>4, <2>5
<1>5. CASE \E l \in Loops : EndRun(l) BY <1>0, <1>5 DEF EndRun
<1>6. CASE \E l \in Loops : TickError(l)
  <2>1. PICK l \in Loops : TickError(l) BY <1>6
  <2>2. run' \in [owner : Actors \cup {None}, stale : BOOLEAN]
    <3>1. run' = run \/ run' = [owner |-> None, stale |-> FALSE] BY <2>1 DEF TickError
    <3>2. [owner |-> None, stale |-> FALSE] \in [owner : Actors \cup {None}, stale : BOOLEAN]
      BY <1>0, FreshRun
    <3> QED BY <3>1, <3>2
  <2>3. pc' \in [Actors -> LoopLabels \cup CanaryLabels] BY <1>0, <2>1 DEF TickError
  <2>4. conn' \in [Actors -> {"none", "open", "broken"}] /\ lock' \in Actors \cup {None, Zombie}
    BY <1>0, <2>1 DEF TickError
  <2>5. faults' \in 0..MaxFaults /\ UNCHANGED <<control, markers, passed>>
    BY <2>1, FaultsAssumption DEF TickError
  <2> QED BY <2>2, <2>3, <2>4, <2>5
<1>7. CASE \E l \in Loops : stop_scheduler(l) BY <1>0, <1>7, FaultsAssumption DEF stop_scheduler
<1>8. CASE \E c \in Canaries : CanaryAcquire(c) BY <1>0, <1>8 DEF CanaryAcquire
<1>9. CASE \E c \in Canaries : CanaryPreflight(c) BY <1>0, <1>9 DEF CanaryPreflight
<1>10. CASE \E c \in Canaries : CanaryTick(c) BY <1>0, <1>10 DEF CanaryTick
<1>11. CASE \E c \in Canaries : CanaryStart(c) BY <1>0, <1>11 DEF CanaryStart
<1>12. CASE \E c \in Canaries : CanaryFinish(c) BY <1>0, <1>12 DEF CanaryFinish
<1>13. CASE \E c \in Canaries : CanaryPass(c) BY <1>0, <1>13 DEF CanaryPass
<1>14. CASE \E c \in Canaries : CanaryRefuse(c)
  <2>1. PICK c \in Canaries : CanaryRefuse(c) BY <1>14
  <2>2. run' \in [owner : Actors \cup {None}, stale : BOOLEAN]
    <3>1. run' = run \/ run' = [owner |-> None, stale |-> FALSE] BY <2>1 DEF CanaryRefuse
    <3>2. [owner |-> None, stale |-> FALSE] \in [owner : Actors \cup {None}, stale : BOOLEAN]
      BY <1>0, FreshRun
    <3> QED BY <3>1, <3>2
  <2>3. pc' \in [Actors -> LoopLabels \cup CanaryLabels] BY <1>0, <2>1 DEF CanaryRefuse
  <2>4. conn' \in [Actors -> {"none", "open", "broken"}] /\ lock' \in Actors \cup {None, Zombie}
    BY <1>0, <2>1 DEF CanaryRefuse
  <2>5. faults' \in 0..MaxFaults /\ UNCHANGED <<control, markers, passed>>
    BY <2>1 DEF CanaryRefuse
  <2> QED BY <2>2, <2>3, <2>4, <2>5
<1>15. CASE \E a \in Actors : Break(a) BY <1>15, FaultsAssumption DEF Break
<1>16. CASE \E a \in Actors : Die(a) BY <1>16, FaultsAssumption DEF Die
<1>17. CASE Reap BY <1>17 DEF Reap
<1>18. CASE Age BY <1>18 DEF Age
<1>19. CASE set_control_state BY <1>19 DEF set_control_state
<1>20. CASE UNCHANGED vars BY <1>20 DEF vars
<1> QED BY <1>1, <1>2, <1>3, <1>4, <1>5, <1>6, <1>7, <1>8, <1>9, <1>10, <1>11, <1>12,
           <1>13, <1>14, <1>15, <1>16, <1>17, <1>18, <1>19, <1>20 DEF Next
(* The lease and the canaries, action by action.  Only acquire opens a         *)
(* connection and only with the lock; only the preflight looks at markers.     *)
LEMMA LeaseStep == IInv /\ [Next]_vars => Labelled' /\ LeaseFacts'
<1> SUFFICES ASSUME IInv, [Next]_vars PROVE Labelled' /\ LeaseFacts' OBVIOUS
<1> USE ActorsAssumption DEF IInv, TypeOK, Labelled, LeaseFacts, LoopLabels, CanaryLabels,
      Goto, acquire, release
<1>0. /\ \A l \in Loops : l \in Actors /\ l \notin Canaries
      /\ \A c \in Canaries : c \in Actors /\ c \notin Loops
  BY DEF Actors
<1>1. CASE \E l \in Loops : start_scheduler(l) BY <1>0, <1>1 DEF start_scheduler
<1>2. CASE \E l \in Loops : Wake(l) BY <1>0, <1>2 DEF Wake
<1>3. CASE \E l \in Loops : Tick(l) BY <1>0, <1>3 DEF Tick
<1>4. CASE \E l \in Loops : StartRun(l) BY <1>0, <1>4 DEF StartRun
<1>5. CASE \E l \in Loops : EndRun(l) BY <1>0, <1>5 DEF EndRun
<1>6. CASE \E l \in Loops : TickError(l) BY <1>0, <1>6 DEF TickError
<1>7. CASE \E l \in Loops : stop_scheduler(l) BY <1>0, <1>7 DEF stop_scheduler
<1>8. CASE \E c \in Canaries : CanaryAcquire(c) BY <1>0, <1>8 DEF CanaryAcquire
<1>9. CASE \E c \in Canaries : CanaryPreflight(c) BY <1>0, <1>9 DEF CanaryPreflight
<1>10. CASE \E c \in Canaries : CanaryTick(c) BY <1>0, <1>10 DEF CanaryTick
<1>11. CASE \E c \in Canaries : CanaryStart(c) BY <1>0, <1>11 DEF CanaryStart
<1>12. CASE \E c \in Canaries : CanaryFinish(c) BY <1>0, <1>12 DEF CanaryFinish
<1>13. CASE \E c \in Canaries : CanaryPass(c) BY <1>0, <1>13 DEF CanaryPass
<1>14. CASE \E c \in Canaries : CanaryRefuse(c) BY <1>0, <1>14 DEF CanaryRefuse
<1>15. CASE \E a \in Actors : Break(a) BY <1>0, <1>15 DEF Break
<1>16. CASE \E a \in Actors : Die(a) BY <1>0, <1>16 DEF Die, Actors
<1>17. CASE Reap BY <1>0, <1>17 DEF Reap
<1>18. CASE Age BY <1>0, <1>18 DEF Age
<1>19. CASE set_control_state BY <1>0, <1>19 DEF set_control_state
<1>20. CASE UNCHANGED vars BY <1>20 DEF vars
<1> QED BY <1>1, <1>2, <1>3, <1>4, <1>5, <1>6, <1>7, <1>8, <1>9, <1>10, <1>11, <1>12,
           <1>13, <1>14, <1>15, <1>16, <1>17, <1>18, <1>19, <1>20 DEF Next

LEMMA CanaryStep == IInv /\ [Next]_vars => CanaryFacts' /\ OnePass'
<1> SUFFICES ASSUME IInv, [Next]_vars PROVE CanaryFacts' /\ OnePass' OBVIOUS
<1> USE ActorsAssumption DEF IInv, TypeOK, Labelled, LeaseFacts, CanaryFacts, OnePass,
      LoopLabels, CanaryLabels, Goto, acquire, release
<1>0. /\ \A l \in Loops : l \in Actors /\ l \notin Canaries
      /\ \A c \in Canaries : c \in Actors /\ c \notin Loops
  BY DEF Actors
<1>1. CASE \E l \in Loops : start_scheduler(l) BY <1>0, <1>1 DEF start_scheduler
<1>2. CASE \E l \in Loops : Wake(l) BY <1>0, <1>2 DEF Wake
<1>3. CASE \E l \in Loops : Tick(l) BY <1>0, <1>3 DEF Tick
<1>4. CASE \E l \in Loops : StartRun(l) BY <1>0, <1>4 DEF StartRun
<1>5. CASE \E l \in Loops : EndRun(l) BY <1>0, <1>5 DEF EndRun
<1>6. CASE \E l \in Loops : TickError(l) BY <1>0, <1>6 DEF TickError
<1>7. CASE \E l \in Loops : stop_scheduler(l) BY <1>0, <1>7 DEF stop_scheduler
<1>8. CASE \E c \in Canaries : CanaryAcquire(c) BY <1>0, <1>8 DEF CanaryAcquire
<1>9. CASE \E c \in Canaries : CanaryPreflight(c) BY <1>0, <1>9 DEF CanaryPreflight
<1>10. CASE \E c \in Canaries : CanaryTick(c) BY <1>0, <1>10 DEF CanaryTick
<1>11. CASE \E c \in Canaries : CanaryStart(c) BY <1>0, <1>11 DEF CanaryStart
<1>12. CASE \E c \in Canaries : CanaryFinish(c) BY <1>0, <1>12 DEF CanaryFinish
<1>13. CASE \E c \in Canaries : CanaryPass(c) BY <1>0, <1>13 DEF CanaryPass
<1>14. CASE \E c \in Canaries : CanaryRefuse(c) BY <1>0, <1>14 DEF CanaryRefuse
<1>15. CASE \E a \in Actors : Break(a) BY <1>0, <1>15 DEF Break
<1>16. CASE \E a \in Actors : Die(a) BY <1>0, <1>16 DEF Die
<1>17. CASE Reap BY <1>0, <1>17 DEF Reap
<1>18. CASE Age BY <1>0, <1>18 DEF Age
<1>19. CASE set_control_state BY <1>0, <1>19 DEF set_control_state
<1>20. CASE UNCHANGED vars BY <1>20 DEF vars
<1> QED BY <1>1, <1>2, <1>3, <1>4, <1>5, <1>6, <1>7, <1>8, <1>9, <1>10, <1>11, <1>12,
           <1>13, <1>14, <1>15, <1>16, <1>17, <1>18, <1>19, <1>20 DEF Next

LEMMA Inductive == IInv /\ [Next]_vars => IInv'
  BY TypeStep, LeaseStep, CanaryStep DEF IInv

(* The leader lease, the scheduler loop and the canary keep their types.       *)
THEOREM SchedulerTypes == Spec => []TypeOK
<1>1. IInv => TypeOK BY DEF IInv
<1> QED BY InitIInv, Inductive, <1>1, PTL DEF Spec

(* Two validated actors whose connections are both open are the same actor,    *)
(* because an open lease connection holds the one advisory lock.               *)
THEOREM OneLeader == Spec => []LeaderIsAlone
<1>1. IInv => LeaderIsAlone BY DEF IInv, LeaseFacts, LeaderIsAlone
<1> QED BY InitIInv, Inductive, <1>1, PTL DEF Spec

(* No way out of the loop or of a canary request leaves the lock behind.       *)
THEOREM LockIsReleased == Spec => []NoOrphanLock
<1>1. IInv => NoOrphanLock BY DEF IInv, LeaseFacts, NoOrphanLock
<1> QED BY InitIInv, Inductive, <1>1, PTL DEF Spec

(* However requests, broken connections and deaths interleave, at most one     *)
(* canary answers PASS.                                                        *)
THEOREM OneCanaryPasses == Spec => []OnePass
<1>1. IInv => OnePass BY DEF IInv
<1> QED BY InitIInv, Inductive, <1>1, PTL DEF Spec
=============================================================================
