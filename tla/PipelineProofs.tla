--------------------------- MODULE PipelineProofs ---------------------------
(***************************************************************************)
(* The safety properties of Pipeline for any set of callers and any number *)
(* of stages, and the refinement of PipelineContract.                      *)
(***************************************************************************)
EXTENDS Pipeline, TLAPS

-----------------------------------------------------------------------------
(* The inductive invariant.  Its parts say who owns m_, how done_ relates  *)
(* to the worker's progress, what the worker has in its locals, and what   *)
(* the callers may be doing while the object is being destroyed.           *)

MutexInv ==
    \A t \in Callers : pc[t] = "joining" <=> m = t

(* start() joins only a worker that has published done_. *)
JoinInv ==
    m # "free" => ~running_locked

DoneInv ==
    /\ Executing => ~done
    /\ wpc \in {"notify", "exited"} => done

LoopInv ==
    /\ wpc \in {"stage", "check"} => i < steps
    /\ wpc = "loop" => i <= steps
    /\ InStages => ~aborted /\ wfail = "none"

LateInv ==
    InStages /\ late > 0 => stop_flag /\ wpc # "loop"

AliveInv ==
    ~alive =>
        /\ m = "free"
        /\ \A t \in Callers : pc[t] \in {"idle", "dtor"}
        /\ \A t, u \in Callers : pc[t] = "dtor" /\ pc[u] = "dtor" => t = u

DtorInv ==
    /\ \A t \in Callers : pc[t] = "dtor" => ~alive
    /\ ~alive /\ (\A t \in Callers : pc[t] = "idle") => wpc = "none"

IInv ==
    /\ TypeOK
    /\ MutexInv /\ JoinInv /\ DoneInv /\ LoopInv /\ LateInv
    /\ AliveInv /\ DtorInv
    /\ CleanupExactlyOnce /\ StopHonoured /\ NoLostWakeup
    /\ StoppedOnReturn /\ FailureOfItsRun /\ AbortedIsTrue

(* Every step of the specification preserves the inductive invariant. *)
LEMMA Inductive == IInv /\ [Next]_vars => IInv'
<1> USE PipelineAssumption DEF object, worker, history, Where, WorkerPc, CallerPc,
      Executing, InStages, Joinable, running_locked, Calls, Goto, InCall,
      WaitPredicate, MoreStages, Notified, TypeOK, IInv, MutexInv, JoinInv,
      DoneInv, LoopInv, LateInv, AliveInv, DtorInv, CleanupExactlyOnce,
      StopHonoured, NoLostWakeup, StoppedOnReturn, FailureOfItsRun, AbortedIsTrue
<1> SUFFICES ASSUME IInv, [Next]_vars PROVE IInv'
  OBVIOUS
<1>1. ASSUME NEW t \in Callers, \E n \in 0..MaxSteps : set_steps(t, n) PROVE IInv'
  BY <1>1 DEF set_steps
<1>2. ASSUME NEW t \in Callers, \E given \in BOOLEAN : set_cleanup(t, given) PROVE IInv'
  BY <1>2 DEF set_cleanup
<1>3. ASSUME NEW t \in Callers, start(t) PROVE IInv'
  BY <1>3 DEF start
<1>4. ASSUME NEW t \in Callers, request_stop(t) PROVE IInv'
  BY <1>4 DEF request_stop
<1>5. ASSUME NEW t \in Callers, stop(t) PROVE IInv'
  BY <1>5 DEF stop
<1>6. ASSUME NEW t \in Callers, wait(t) PROVE IInv'
  BY <1>6 DEF wait
<1>7. ASSUME NEW t \in Callers, Destroy(t) PROVE IInv'
  <2>1. TypeOK'
    BY <1>7 DEF Destroy
  <2>2. MutexInv'
    BY <1>7 DEF Destroy
  <2>3. JoinInv'
    BY <1>7 DEF Destroy
  <2>4. DoneInv'
    BY <1>7 DEF Destroy
  <2>5. LoopInv'
    BY <1>7 DEF Destroy
  <2>6. LateInv'
    BY <1>7 DEF Destroy
  <2>7. AliveInv'
    BY <1>7 DEF Destroy
  <2>8. DtorInv'
    BY <1>7 DEF Destroy
  <2>9. CleanupExactlyOnce'
    BY <1>7 DEF Destroy
  <2>10. StopHonoured'
    BY <1>7 DEF Destroy
  <2>11. NoLostWakeup'
    BY <1>7 DEF Destroy
  <2>12. StoppedOnReturn'
    BY <1>7 DEF Destroy
  <2>13. FailureOfItsRun'
    BY <1>7 DEF Destroy
  <2>14. AbortedIsTrue'
    BY <1>7 DEF Destroy
  <2> QED
    BY <2>1, <2>2, <2>3, <2>4, <2>5, <2>6, <2>7, <2>8, <2>9, <2>10, <2>11, <2>12, <2>13, <2>14
<1>8. ASSUME NEW t \in Callers, spawn(t) PROVE IInv'
  <2>1. TypeOK'
    <3>1. alive' \in BOOLEAN /\ cleanup' \in BOOLEAN /\ stop_flag' \in BOOLEAN /\ done' \in BOOLEAN
      BY <1>8 DEF spawn
    <3>2. steps' \in 0..MaxSteps /\ current' \in -1..(MaxSteps - 1) /\ i' \in 0..MaxSteps
      BY <1>8 DEF spawn
    <3>3. m' \in Callers \cup {"free"} /\ failure' \in Where /\ wfail' \in Where
      BY <1>8 DEF spawn
    <3>4. wpc' \in WorkerPc /\ aborted' \in BOOLEAN /\ cleaned' \in Nat /\ late' \in Nat
      BY <1>8 DEF spawn
    <3>5. pc' \in [Callers -> CallerPc] /\ saw' \in [Callers -> Where]
      BY <1>8 DEF spawn
    <3>6. missed' \in [Callers -> BOOLEAN]
      BY <1>8 DEF spawn
    <3> QED
      BY <3>1, <3>2, <3>3, <3>4, <3>5, <3>6
  <2>2. MutexInv'
    BY <1>8 DEF spawn
  <2>3. JoinInv'
    BY <1>8 DEF spawn
  <2>4. DoneInv'
    BY <1>8 DEF spawn
  <2>5. LoopInv'
    BY <1>8 DEF spawn
  <2>6. LateInv'
    BY <1>8 DEF spawn
  <2>7. AliveInv'
    BY <1>8 DEF spawn
  <2>8. DtorInv'
    BY <1>8 DEF spawn
  <2>9. CleanupExactlyOnce'
    BY <1>8 DEF spawn
  <2>10. StopHonoured'
    BY <1>8 DEF spawn
  <2>11. NoLostWakeup'
    BY <1>8 DEF spawn
  <2>12. StoppedOnReturn'
    BY <1>8 DEF spawn
  <2>13. FailureOfItsRun'
    BY <1>8 DEF spawn
  <2>14. AbortedIsTrue'
    BY <1>8 DEF spawn
  <2> QED
    BY <2>1, <2>2, <2>3, <2>4, <2>5, <2>6, <2>7, <2>8, <2>9, <2>10, <2>11, <2>12, <2>13, <2>14
<1>9. ASSUME NEW t \in Callers, TestPredicate(t) PROVE IInv'
  BY <1>9 DEF TestPredicate
<1>10. ASSUME NEW t \in Callers, rethrow_if_failed(t) PROVE IInv'
  BY <1>10 DEF rethrow_if_failed
<1>11. ASSUME NEW t \in Callers, DtorJoin(t) PROVE IInv'
  BY <1>11 DEF DtorJoin
<1>12. ASSUME NEW t \in Callers, SpuriousWakeup(t) PROVE IInv'
  BY <1>12 DEF SpuriousWakeup
<1>13. CASE StageBegin
  BY <1>13 DEF StageBegin
<1>14. CASE LoopEnd
  BY <1>14 DEF LoopEnd
<1>15. CASE StageReturn
  BY <1>15 DEF StageReturn
<1>16. CASE StageThrow
  BY <1>16 DEF StageThrow
<1>17. CASE CheckStop
  <2>1. TypeOK'
    <3>1. i' \in 0..MaxSteps
      BY <1>17 DEF CheckStop
    <3> QED
      BY <1>17, <3>1 DEF CheckStop
  <2>2. MutexInv'
    BY <1>17 DEF CheckStop
  <2>3. JoinInv'
    BY <1>17 DEF CheckStop
  <2>4. DoneInv'
    BY <1>17 DEF CheckStop
  <2>5. LoopInv'
    BY <1>17 DEF CheckStop
  <2>6. LateInv'
    BY <1>17 DEF CheckStop
  <2>7. AliveInv'
    BY <1>17 DEF CheckStop
  <2>8. DtorInv'
    BY <1>17 DEF CheckStop
  <2>9. CleanupExactlyOnce'
    BY <1>17 DEF CheckStop
  <2>10. StopHonoured'
    BY <1>17 DEF CheckStop
  <2>11. NoLostWakeup'
    BY <1>17 DEF CheckStop
  <2>12. StoppedOnReturn'
    BY <1>17 DEF CheckStop
  <2>13. FailureOfItsRun'
    BY <1>17 DEF CheckStop
  <2>14. AbortedIsTrue'
    BY <1>17 DEF CheckStop
  <2> QED
    BY <2>1, <2>2, <2>3, <2>4, <2>5, <2>6, <2>7, <2>8, <2>9, <2>10, <2>11, <2>12, <2>13, <2>14
<1>18. CASE CleanupBegin
  BY <1>18 DEF CleanupBegin
<1>19. CASE CleanupReturn
  BY <1>19 DEF CleanupReturn
<1>20. CASE CleanupThrow
  BY <1>20 DEF CleanupThrow
<1>21. CASE Publish
  BY <1>21 DEF Publish
<1>22. CASE NotifyAll
  <2>1. TypeOK'
    <3>1. alive' \in BOOLEAN /\ cleanup' \in BOOLEAN /\ stop_flag' \in BOOLEAN /\ done' \in BOOLEAN
      BY <1>22 DEF NotifyAll
    <3>2. steps' \in 0..MaxSteps /\ current' \in -1..(MaxSteps - 1) /\ i' \in 0..MaxSteps
      BY <1>22 DEF NotifyAll
    <3>3. m' \in Callers \cup {"free"} /\ failure' \in Where /\ wfail' \in Where
      BY <1>22 DEF NotifyAll
    <3>4. wpc' \in WorkerPc /\ aborted' \in BOOLEAN /\ cleaned' \in Nat /\ late' \in Nat
      BY <1>22 DEF NotifyAll
    <3>5. pc' \in [Callers -> CallerPc] /\ saw' \in [Callers -> Where]
      BY <1>22 DEF NotifyAll
    <3>6. missed' \in [Callers -> BOOLEAN]
      BY <1>22 DEF NotifyAll
    <3> QED
      BY <3>1, <3>2, <3>3, <3>4, <3>5, <3>6
  <2>2. MutexInv'
    BY <1>22 DEF NotifyAll
  <2>3. JoinInv'
    BY <1>22 DEF NotifyAll
  <2>4. DoneInv'
    BY <1>22 DEF NotifyAll
  <2>5. LoopInv'
    BY <1>22 DEF NotifyAll
  <2>6. LateInv'
    BY <1>22 DEF NotifyAll
  <2>7. AliveInv'
    BY <1>22 DEF NotifyAll
  <2>8. DtorInv'
    BY <1>22 DEF NotifyAll
  <2>9. CleanupExactlyOnce'
    BY <1>22 DEF NotifyAll
  <2>10. StopHonoured'
    BY <1>22 DEF NotifyAll
  <2>11. NoLostWakeup'
    BY <1>22 DEF NotifyAll
  <2>12. StoppedOnReturn'
    BY <1>22 DEF NotifyAll
  <2>13. FailureOfItsRun'
    BY <1>22 DEF NotifyAll
  <2>14. AbortedIsTrue'
    BY <1>22 DEF NotifyAll
  <2> QED
    BY <2>1, <2>2, <2>3, <2>4, <2>5, <2>6, <2>7, <2>8, <2>9, <2>10, <2>11, <2>12, <2>13, <2>14
<1>23. CASE SelfRequestStop
  BY <1>23 DEF SelfRequestStop
<1>24. CASE Construct
  <2>1. TypeOK'
    <3>1. alive' \in BOOLEAN /\ cleanup' \in BOOLEAN /\ stop_flag' \in BOOLEAN /\ done' \in BOOLEAN
      BY <1>24 DEF Construct
    <3>2. steps' \in 0..MaxSteps /\ current' \in -1..(MaxSteps - 1) /\ i' \in 0..MaxSteps
      BY <1>24 DEF Construct
    <3>3. m' \in Callers \cup {"free"} /\ failure' \in Where /\ wfail' \in Where
      BY <1>24 DEF Construct
    <3>4. wpc' \in WorkerPc /\ aborted' \in BOOLEAN /\ cleaned' \in Nat /\ late' \in Nat
      BY <1>24 DEF Construct
    <3>5. pc' \in [Callers -> CallerPc] /\ saw' \in [Callers -> Where]
      BY <1>24 DEF Construct
    <3>6. missed' \in [Callers -> BOOLEAN]
      BY <1>24 DEF Construct
    <3> QED
      BY <3>1, <3>2, <3>3, <3>4, <3>5, <3>6
  <2>2. MutexInv'
    BY <1>24 DEF Construct
  <2>3. JoinInv'
    BY <1>24 DEF Construct
  <2>4. DoneInv'
    BY <1>24 DEF Construct
  <2>5. LoopInv'
    BY <1>24 DEF Construct
  <2>6. LateInv'
    BY <1>24 DEF Construct
  <2>7. AliveInv'
    BY <1>24 DEF Construct
  <2>8. DtorInv'
    BY <1>24 DEF Construct
  <2>9. CleanupExactlyOnce'
    BY <1>24 DEF Construct
  <2>10. StopHonoured'
    BY <1>24 DEF Construct
  <2>11. NoLostWakeup'
    BY <1>24 DEF Construct
  <2>12. StoppedOnReturn'
    BY <1>24 DEF Construct
  <2>13. FailureOfItsRun'
    BY <1>24 DEF Construct
  <2>14. AbortedIsTrue'
    BY <1>24 DEF Construct
  <2> QED
    BY <2>1, <2>2, <2>3, <2>4, <2>5, <2>6, <2>7, <2>8, <2>9, <2>10, <2>11, <2>12, <2>13, <2>14
<1>25. CASE UNCHANGED vars
  BY <1>25 DEF vars
<1> QED
  BY <1>1, <1>2, <1>3, <1>4, <1>5, <1>6, <1>7, <1>8, <1>9, <1>10, <1>11, <1>12, <1>13, <1>14, <1>15, <1>16, <1>17, <1>18, <1>19, <1>20, <1>21, <1>22, <1>23, <1>24, <1>25
     DEF Next, CallerCalls, CallerContinues, Worker

(* The invariant holds initially, hence always. *)
LEMMA Invariance == Spec => []IInv
<1>1. Init => IInv
  <2> SUFFICES ASSUME Init PROVE IInv
    OBVIOUS
  <2> USE DEF Init
  <2>1. TypeOK
    <3>1. steps \in 0..MaxSteps /\ i \in 0..MaxSteps /\ current \in -1..(MaxSteps - 1)
      BY PipelineAssumption
    <3>2. /\ pc \in [Callers -> CallerPc] /\ saw \in [Callers -> Where]
          /\ missed \in [Callers -> BOOLEAN]
      BY DEF CallerPc, Where
    <3> QED
      BY <3>1, <3>2 DEF TypeOK, Where, WorkerPc
  <2>2. MutexInv /\ JoinInv /\ AliveInv /\ DtorInv
    BY PipelineAssumption DEF MutexInv, JoinInv, AliveInv, DtorInv
  <2>3. DoneInv /\ LoopInv /\ LateInv
    BY DEF DoneInv, LoopInv, LateInv, Executing, InStages
  <2>4. CleanupExactlyOnce /\ StopHonoured /\ AbortedIsTrue
    BY DEF CleanupExactlyOnce, StopHonoured, AbortedIsTrue, InStages
  <2>5. NoLostWakeup /\ StoppedOnReturn /\ FailureOfItsRun
    BY DEF NoLostWakeup, StoppedOnReturn, FailureOfItsRun
  <2> QED
    BY <2>1, <2>2, <2>3, <2>4, <2>5 DEF IInv
<1> QED
  BY <1>1, Inductive, PTL DEF Spec

(* Type correctness of the pipeline's state. *)
THEOREM TypeCorrect == Spec => []TypeOK
<1>1. IInv => TypeOK
  BY DEF IInv
<1> QED
  BY <1>1, Invariance, PTL

(* A run calls its cleanup exactly once, for any number of stages, callers *)
(* and restarts, whether the stages end, are cancelled or throw.           *)
THEOREM CleanupOnce == Spec => []CleanupExactlyOnce
<1>1. IInv => CleanupExactlyOnce
  BY DEF IInv
<1> QED
  BY <1>1, Invariance, PTL

(* At most one stage begins while a stop request stands. *)
THEOREM StopIsHonoured == Spec => []StopHonoured
<1>1. IInv => StopHonoured
  BY DEF IInv
<1> QED
  BY <1>1, Invariance, PTL

(* Nobody sleeps in wait() with no notify_all() to come. *)
THEOREM WakeupNotLost == Spec => []NoLostWakeup
<1>1. IInv => NoLostWakeup
  BY DEF IInv
<1> QED
  BY <1>1, Invariance, PTL

(* A call that was not overtaken by a restart returns to a stopped         *)
(* pipeline and with the outcome of the run it waited for.                 *)
THEOREM ReturnIsSound == Spec => [](StoppedOnReturn /\ FailureOfItsRun)
<1>1. IInv => StoppedOnReturn /\ FailureOfItsRun
  BY DEF IInv
<1> QED
  BY <1>1, Invariance, PTL

(* The flag given to the cleanup says truly whether the run was cut short. *)
THEOREM AbortedIsSound == Spec => []AbortedIsTrue
<1>1. IInv => AbortedIsTrue
  BY DEF IInv
<1> QED
  BY <1>1, Invariance, PTL

-----------------------------------------------------------------------------
(* Refinement. *)

(* Under the mapping every step is a step of the contract or a stutter. *)
LEMMA StepRefines == IInv /\ [Next]_vars => [Contract!Next]_(Contract!vars)
<1> SUFFICES ASSUME IInv, [Next]_vars PROVE [Contract!Next]_(Contract!vars)
  OBVIOUS
<1> USE PipelineAssumption DEF object, worker, history, Where, WorkerPc, CallerPc,
      Executing, InStages, Joinable, running_locked, Calls, Goto, InCall,
      WaitPredicate, MoreStages, Notified, TypeOK, IInv, MutexInv, JoinInv,
      DoneInv, LoopInv, LateInv, AliveInv, DtorInv, CleanupExactlyOnce,
      StopHonoured, NoLostWakeup, StoppedOnReturn, FailureOfItsRun, AbortedIsTrue
<1> USE DEF ContractPhase, Waiting, Contract!vars, Contract!Quiet, Contract!Next
<1>1. ASSUME NEW t \in Callers, \E n \in 0..MaxSteps : set_steps(t, n)
      PROVE [Contract!Next]_(Contract!vars)
  BY <1>1 DEF set_steps
<1>2. ASSUME NEW t \in Callers, \E given \in BOOLEAN : set_cleanup(t, given)
      PROVE [Contract!Next]_(Contract!vars)
  BY <1>2 DEF set_cleanup
<1>3. ASSUME NEW t \in Callers, start(t)
      PROVE [Contract!Next]_(Contract!vars)
  <2>1. /\ UNCHANGED <<wpc, done, stop_flag, late>>
        /\ pc[t] = "idle" /\ pc' \in {pc, [pc EXCEPT ![t] = "joining"]}
    BY <1>3 DEF start
  <2>2. Waiting' = Waiting
    BY <2>1
  <2>3. ContractPhase' = ContractPhase
    BY <2>1
  <2> QED
    BY <2>1, <2>2, <2>3
<1>4. ASSUME NEW t \in Callers, request_stop(t)
      PROVE [Contract!Next]_(Contract!vars)
  BY <1>4 DEF request_stop, Contract!RequestStop
<1>5. ASSUME NEW t \in Callers, stop(t)
      PROVE [Contract!Next]_(Contract!vars)
  <2>1. t \notin Waiting /\ Waiting' = Waiting \cup {t}
    BY <1>5 DEF stop
  <2>2. ContractPhase' = ContractPhase /\ stop_flag' = TRUE /\ late' = late
    BY <1>5 DEF stop
  <2>3. Contract!Wait(t)
    BY <2>1, <2>2 DEF Contract!Wait
  <2> QED
    BY <2>3
<1>6. ASSUME NEW t \in Callers, wait(t)
      PROVE [Contract!Next]_(Contract!vars)
  BY <1>6 DEF wait, Contract!Wait
<1>7. ASSUME NEW t \in Callers, Destroy(t)
      PROVE [Contract!Next]_(Contract!vars)
  BY <1>7 DEF Destroy, Contract!RequestStop
<1>8. ASSUME NEW t \in Callers, spawn(t)
      PROVE [Contract!Next]_(Contract!vars)
  <2>1. wpc' \in {"loop", "none"} /\ ~done' /\ ~stop_flag' /\ late' = 0 /\ wpc \in {"none", "exited"}
    BY <1>8 DEF spawn
  <2>2. Waiting' = Waiting
    BY <1>8 DEF spawn
  <2>3. ContractPhase \in {"idle", "finished"} /\ ContractPhase' \in {"stages", "idle"}
    BY <1>8, <2>1 DEF spawn
  <2>4. Contract!BeginRun
    BY <1>8, <2>1, <2>2, <2>3 DEF spawn, Contract!BeginRun
  <2> QED
    BY <2>4
<1>9. ASSUME NEW t \in Callers, TestPredicate(t)
      PROVE [Contract!Next]_(Contract!vars)
  <2>1. UNCHANGED <<wpc, done, stop_flag, late>>
    BY <1>9 DEF TestPredicate
  <2>2. ContractPhase' = ContractPhase
    BY <2>1
  <2>3. CASE WaitPredicate
    <3>0. pc[t] \in {"requested", "wait"} /\ pc' = [pc EXCEPT ![t] = "rethrow"] /\ DOMAIN pc = Callers
      BY <1>9, <2>3 DEF TestPredicate
    <3>1. t \in Waiting /\ Waiting' = Waiting \ {t}
      BY <3>0
    <3>2. ContractPhase \in {"idle", "finished"}
      BY <1>9, <2>3 DEF TestPredicate
    <3>3. Contract!Release(t)
      BY <2>1, <2>2, <3>1, <3>2 DEF Contract!Release
    <3> QED
      BY <3>3
  <2>4. CASE ~WaitPredicate
    <3>0. pc[t] \in {"requested", "wait"} /\ pc' = [pc EXCEPT ![t] = "blocked"] /\ DOMAIN pc = Callers
      BY <1>9, <2>4 DEF TestPredicate
    <3>1. Waiting' = Waiting
      BY <3>0
    <3> QED
      BY <2>1, <2>2, <3>1
  <2> QED
    BY <2>3, <2>4
<1>10. ASSUME NEW t \in Callers, rethrow_if_failed(t)
      PROVE [Contract!Next]_(Contract!vars)
  BY <1>10 DEF rethrow_if_failed
<1>11. ASSUME NEW t \in Callers, DtorJoin(t)
      PROVE [Contract!Next]_(Contract!vars)
  BY <1>11 DEF DtorJoin, Contract!Discard
<1>12. ASSUME NEW t \in Callers, SpuriousWakeup(t)
      PROVE [Contract!Next]_(Contract!vars)
  BY <1>12 DEF SpuriousWakeup
<1>13. CASE StageBegin
  BY <1>13 DEF StageBegin, Contract!BeginStage
<1>14. CASE LoopEnd
  BY <1>14 DEF LoopEnd
<1>15. CASE StageReturn
  BY <1>15 DEF StageReturn
<1>16. CASE StageThrow
  BY <1>16 DEF StageThrow
<1>17. CASE CheckStop
  BY <1>17 DEF CheckStop
<1>18. CASE CleanupBegin
  BY <1>18 DEF CleanupBegin, Contract!BeginCleanup
<1>19. CASE CleanupReturn
  BY <1>19 DEF CleanupReturn
<1>20. CASE CleanupThrow
  BY <1>20 DEF CleanupThrow
<1>21. CASE Publish
  BY <1>21 DEF Publish, Contract!EndRun
<1>22. CASE NotifyAll
  BY <1>22 DEF NotifyAll
<1>23. CASE SelfRequestStop
  BY <1>23 DEF SelfRequestStop, Contract!RequestStop
<1>24. CASE Construct
  BY <1>24 DEF Construct, Contract!BeginRun
<1>25. CASE UNCHANGED vars
  BY <1>25 DEF vars
<1> QED
  BY <1>1, <1>2, <1>3, <1>4, <1>5, <1>6, <1>7, <1>8, <1>9, <1>10, <1>11, <1>12, <1>13, <1>14, <1>15, <1>16, <1>17, <1>18, <1>19, <1>20, <1>21, <1>22, <1>23, <1>24, <1>25
     DEF Next, CallerCalls, CallerContinues, Worker

(* Pipeline implements the contract its class comment gives the callers. *)
THEOREM Refinement == Spec => ImplementsContract
<1>1. Init => Contract!Init
  BY DEF Init, Joinable, ContractPhase, Waiting, Contract!Init
<1> QED
  BY <1>1, StepRefines, Invariance, PTL DEF Spec, ImplementsContract, Contract!Spec
=============================================================================
