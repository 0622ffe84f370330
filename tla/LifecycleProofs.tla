-------------------------- MODULE LifecycleProofs --------------------------
(***************************************************************************)
(* The invariants of Lifecycle, for any number of requests and jobs.  The  *)
(* inductive invariant, LifecycleInv, says for every place of main and of  *)
(* the shutdown goroutine what is open, running or in use by then.         *)
(***************************************************************************)
EXTENDS Lifecycle, TLAPS

(* Every step keeps the process well formed.                               *)
LEMMA TypeStep == TypeOK /\ [Next]_vars => TypeOK'
<1> SUFFICES ASSUME TypeOK, [Next]_vars PROVE TypeOK'
  OBVIOUS
<1> USE DEF TypeOK
<1>1. ASSUME NEW ok \in BOOLEAN, NewRoot(ok) PROVE TypeOK'
  BY <1>1 DEF NewRoot, boot
<1>2. ASSUME NEW ok \in BOOLEAN, NewRiver(ok) PROVE TypeOK'
  BY <1>2 DEF NewRiver, boot
<1>3. ASSUME NEW ok \in BOOLEAN, BootstrapStep(ok) PROVE TypeOK'
  BY <1>3 DEF BootstrapStep, CloseAndDie, Following, boot
<1>4. ASSUME NEW ok \in BOOLEAN, NewQueue(ok) PROVE TypeOK'
  BY <1>4 DEF NewQueue, CloseAndDie, boot
<1>5. ASSUME NEW ok \in BOOLEAN, QueueStart(ok) PROVE TypeOK'
  BY <1>5 DEF QueueStart, CloseAndDie, boot
<1>6. ASSUME NEW ok \in BOOLEAN, Build(ok) PROVE TypeOK'
  BY <1>6 DEF Build
<1>7. CASE Listen
  BY <1>7 DEF Listen, boot
<1>8. CASE ServerClosed
  BY <1>8 DEF ServerClosed, boot
<1>9. CASE Return
  BY <1>9 DEF Return, ShutdownComplete, boot
<1>10. CASE ServeFails
  BY <1>10 DEF ServeFails, boot
<1>11. CASE JobStarts
  BY <1>11, JobsAssumption DEF JobStarts
<1>12. CASE JobEnds
  BY <1>12, JobsAssumption DEF JobEnds
<1>13. CASE Signal
  <2>1. CASE shut \in {"none", "spawned"}
    BY <1>13, <2>1 DEF Signal
  <2>2. CASE shut \notin {"none", "spawned"}
    <3>1. signalled' \in BOOLEAN
      BY <1>13, <2>2 DEF Signal
    <3> QED  BY <1>13, <2>2, <3>1 DEF Signal
  <2> QED  BY <2>1, <2>2
<1>14. CASE Notify
  BY <1>14 DEF Notify
<1>15. CASE StopQueue
  BY <1>15 DEF StopQueue, SignalReceived, down
<1>16. CASE QueueStopped
  BY <1>16 DEF QueueStopped, JobsDone, down
<1>17. CASE CloseRoot
  BY <1>17 DEF CloseRoot, down
<1>18. CASE RootClosed
  BY <1>18 DEF RootClosed, RootIdle, down
<1>19. CASE CloseRiver
  BY <1>19 DEF CloseRiver, down
<1>20. CASE Shutdown
  BY <1>20 DEF Shutdown, down
<1>21. CASE Drained
  BY <1>21 DEF Drained, down
<1>22. ASSUME NEW r \in Requests, Accept(r) PROVE TypeOK'
  BY <1>22 DEF Accept
<1>23. ASSUME NEW r \in Requests, Acquire(r) PROVE TypeOK'
  BY <1>23 DEF Acquire
<1>24. ASSUME NEW r \in Requests, Respond(r) PROVE TypeOK'
  BY <1>24 DEF Respond
<1>25. CASE UNCHANGED vars
  BY <1>25 DEF vars
<1> QED
  BY <1>1, <1>2, <1>3, <1>4, <1>5, <1>6, <1>7, <1>8, <1>9, <1>10, <1>11,
     <1>12, <1>13, <1>14, <1>15, <1>16, <1>17, <1>18, <1>19, <1>20, <1>21,
     <1>22, <1>23, <1>24, <1>25 DEF Next, Start, ShutdownStep

(* The process stays well formed; in particular the queue never works more *)
(* jobs than it may, nor fewer than none.                                  *)
THEOREM TypeCorrect == Spec => []TypeOK
<1>1. Init => TypeOK
  <2> SUFFICES ASSUME Init PROVE TypeOK
    OBVIOUS
  <2>1. signalled \in BOOLEAN /\ stopping \in BOOLEAN
    BY DEF Init
  <2>2. jobs \in 0..MaxJobs
    BY JobsAssumption DEF Init
  <2> QED  BY <2>1, <2>2 DEF Init, TypeOK
<1> QED  BY <1>1, TypeStep, PTL DEF Spec

(* Every step keeps the order of start-up and shutdown.                    *)
LEMMA LifecycleStep == TypeOK /\ LifecycleInv /\ [Next]_vars => LifecycleInv'
<1> SUFFICES ASSUME TypeOK, LifecycleInv, [Next]_vars PROVE LifecycleInv'
  OBVIOUS
<1> USE DEF TypeOK, LifecycleInv, StartOrder, ShutdownOrder, OrderlyReturn,
            LeftOpenExplained, LeftOpen, NothingUsedAfterClose, ServesConnected,
            CutOffExplained, CutOff, Booting, Alive
<1>1. ASSUME NEW ok \in BOOLEAN, NewRoot(ok) PROVE LifecycleInv'
  BY <1>1 DEF NewRoot, boot
<1>2. ASSUME NEW ok \in BOOLEAN, NewRiver(ok) PROVE LifecycleInv'
  BY <1>2 DEF NewRiver, boot
<1>3. ASSUME NEW ok \in BOOLEAN, BootstrapStep(ok) PROVE LifecycleInv'
  BY <1>3 DEF BootstrapStep, CloseAndDie, Following, boot
<1>4. ASSUME NEW ok \in BOOLEAN, NewQueue(ok) PROVE LifecycleInv'
  BY <1>4 DEF NewQueue, CloseAndDie, boot
<1>5. ASSUME NEW ok \in BOOLEAN, QueueStart(ok) PROVE LifecycleInv'
  BY <1>5 DEF QueueStart, CloseAndDie, boot
<1>6. ASSUME NEW ok \in BOOLEAN, Build(ok) PROVE LifecycleInv'
  BY <1>6 DEF Build
<1>7. CASE Listen
  BY <1>7 DEF Listen, boot
<1>8. CASE ServerClosed
  BY <1>8 DEF ServerClosed, boot
<1>9. CASE Return
  BY <1>9 DEF Return, ShutdownComplete, boot
<1>10. CASE ServeFails
  BY <1>10 DEF ServeFails, boot
<1>11. CASE JobStarts
  BY <1>11 DEF JobStarts
<1>12. CASE JobEnds
  BY <1>12 DEF JobEnds
<1>13. CASE Signal
  BY <1>13 DEF Signal
<1>14. CASE Notify
  BY <1>14 DEF Notify
<1>15. CASE StopQueue
  BY <1>15 DEF StopQueue, SignalReceived, down
<1>16. CASE QueueStopped
  BY <1>16 DEF QueueStopped, JobsDone, down
<1>17. CASE CloseRoot
  BY <1>17 DEF CloseRoot, down
<1>18. CASE RootClosed
  BY <1>18 DEF RootClosed, RootIdle, down
<1>19. CASE CloseRiver
  BY <1>19 DEF CloseRiver, down
<1>20. CASE Shutdown
  BY <1>20 DEF Shutdown, down
<1>21. CASE Drained
  BY <1>21 DEF Drained, down
<1>22. ASSUME NEW r \in Requests, Accept(r) PROVE LifecycleInv'
  BY <1>22 DEF Accept
<1>23. ASSUME NEW r \in Requests, Acquire(r) PROVE LifecycleInv'
  BY <1>23 DEF Acquire
<1>24. ASSUME NEW r \in Requests, Respond(r) PROVE LifecycleInv'
  BY <1>24 DEF Respond
<1>25. CASE UNCHANGED vars
  BY <1>25 DEF vars
<1> QED
  BY <1>1, <1>2, <1>3, <1>4, <1>5, <1>6, <1>7, <1>8, <1>9, <1>10, <1>11,
     <1>12, <1>13, <1>14, <1>15, <1>16, <1>17, <1>18, <1>19, <1>20, <1>21,
     <1>22, <1>23, <1>24, <1>25 DEF Next, Start, ShutdownStep

(* LifecycleInv holds from the first instruction of main on: at every      *)
(* place of main and of the goroutine it is known what is open and in use. *)
THEOREM LifecycleInductive == Spec => []LifecycleInv
<1>1. Init => LifecycleInv
  BY DEF Init, LifecycleInv, StartOrder, ShutdownOrder, OrderlyReturn,
         LeftOpenExplained, LeftOpen, NothingUsedAfterClose, ServesConnected,
         CutOffExplained, CutOff, Booting, Alive
<1> QED  BY <1>1, LifecycleStep, TypeCorrect, PTL DEF Spec

(* main returns from a signalled shutdown with nothing left running, in    *)
(* use or open (Server.Start waits for the goroutine it started).          *)
THEOREM ReturnIsOrderly == Spec => []OrderlyReturn
<1>1. LifecycleInv => OrderlyReturn
  BY DEF LifecycleInv
<1> QED  BY <1>1, LifecycleInductive, PTL

(* A pool left open or a queue left running at the end of the process is   *)
(* the doing of a signal before signal.Notify, of MustBuildHandler's panic *)
(* or of a failing listener; Bootstrap's failures and a return leave none. *)
THEOREM LeavingsExplained == Spec => []LeftOpenExplained
<1>1. LifecycleInv => LeftOpenExplained
  BY DEF LifecycleInv
<1> QED  BY <1>1, LifecycleInductive, PTL

(* No pool is closed under a job or a request that uses it.                *)
THEOREM PoolsOutliveUse == Spec => []NothingUsedAfterClose
<1>1. LifecycleInv => NothingUsedAfterClose
  BY DEF LifecycleInv
<1> QED  BY <1>1, LifecycleInductive, PTL

(* Requests that no signal precedes find the database open.                *)
THEOREM ConnectedUntilSignal == Spec => []ServesConnected
<1>1. LifecycleInv => ServesConnected
  BY DEF LifecycleInv
<1> QED  BY <1>1, LifecycleInductive, PTL

(* Jobs and requests are lost only to a kill before signal.Notify, to a    *)
(* refused route tree and to a listener that fails, after a signal only    *)
(* what the shutdown goroutine has not waited for yet (Server.Start).      *)
THEOREM LossesExplained == Spec => []CutOffExplained
<1>1. LifecycleInv => CutOffExplained
  BY DEF LifecycleInv
<1> QED  BY <1>1, LifecycleInductive, PTL
=============================================================================
