------------------------------ MODULE Pipeline ------------------------------
(***************************************************************************)
(* threads/cancel/include/stage/pipeline.hpp: a sequence of stages run on  *)
(* a worker thread, started, stopped and awaited by any number of caller   *)
(* threads.  Cancellation is honoured between stages only.                 *)
(*                                                                         *)
(* The mutex m_ is explicit because start() keeps it while it joins the    *)
(* previous worker; every other critical section is one step that needs m_ *)
(* to be free.  The atomics stop_flag_ and current_ are written without it.*)
(***************************************************************************)
EXTENDS Integers

CONSTANTS Callers,   \* the threads that use the pipeline's interface
          MaxSteps   \* the largest vector a caller passes to set_steps()

ASSUME PipelineAssumption ==
    /\ MaxSteps \in Nat
    /\ "free" \notin Callers

VARIABLES
    alive,      \* the object exists and may be called
    steps,      \* steps_.size()
    cleanup,    \* cleanup_ holds a function
    stop_flag,  \* stop_flag_
    current,    \* current_
    m,          \* m_: "free" or the caller that holds it across steps
    done,       \* done_
    failure,    \* failure_: where the published exception was thrown
    wpc,        \* the worker thread; "none" iff worker_ is not joinable
    i,          \* run(): the loop index
    aborted,    \* run(): the local flag handed to cleanup_
    wfail,      \* run(): the local exception
    pc          \* what each caller is doing

(* History variables: they restrict nothing. *)
VARIABLES
    cleaned,    \* calls of cleanup_ in the current run
    late,       \* stages begun in the current run with stop_flag_ set
    saw,        \* failure_ at the moment a caller's wait() was satisfied
    missed      \* the pipeline was restarted during the caller's call

object  == <<alive, steps, cleanup, stop_flag, current, m, done, failure>>
worker  == <<wpc, i, aborted, wfail>>
history == <<cleaned, late, saw, missed>>
vars    == <<object, worker, pc, history>>

Where     == {"none", "stage", "cleanup"}
WorkerPc  == {"none", "loop", "stage", "check", "exit", "cleaning",
              "publish", "notify", "exited"}
CallerPc  == {"idle", "joining", "requested", "wait", "blocked", "rethrow",
              "dtor"}

(* run() is somewhere between its first line and the end of cleanup_. *)
Executing == wpc \in {"loop", "stage", "check", "exit", "cleaning", "publish"}
InStages  == wpc \in {"loop", "stage", "check"}

TypeOK ==
    /\ alive \in BOOLEAN /\ cleanup \in BOOLEAN /\ stop_flag \in BOOLEAN
    /\ steps \in 0..MaxSteps
    /\ current \in -1..(MaxSteps - 1)
    /\ m \in Callers \cup {"free"}
    /\ done \in BOOLEAN
    /\ failure \in Where /\ wfail \in Where
    /\ wpc \in WorkerPc
    /\ i \in 0..MaxSteps
    /\ aborted \in BOOLEAN
    /\ pc \in [Callers -> CallerPc]
    /\ cleaned \in Nat /\ late \in Nat
    /\ saw \in [Callers -> Where]
    /\ missed \in [Callers -> BOOLEAN]

Init ==
    /\ alive = TRUE /\ steps = 0 /\ cleanup = FALSE
    /\ stop_flag = FALSE /\ current = -1
    /\ m = "free" /\ done = FALSE /\ failure = "none"
    /\ wpc = "none" /\ i = 0 /\ aborted = FALSE /\ wfail = "none"
    /\ cleaned = 0 /\ late = 0
    /\ pc = [t \in Callers |-> "idle"]
    /\ saw = [t \in Callers |-> "none"]
    /\ missed = [t \in Callers |-> FALSE]

Joinable == wpc # "none"

running_locked_ByStage == current # -1

running_locked == Joinable /\ ~done

Calls(t) == alive /\ pc[t] = "idle"

Goto(t, l) == pc' = [pc EXCEPT ![t] = l]

-----------------------------------------------------------------------------
(* Configuration.  A call refused with logic_error changes nothing. *)

set_steps(t, n) ==
    /\ Calls(t) /\ m = "free"
    /\ steps' = IF running_locked THEN steps ELSE n
    /\ UNCHANGED <<pc, alive, cleanup, stop_flag, current, m, done, failure,
                   worker, history>>

set_cleanup(t, given) ==
    /\ Calls(t) /\ m = "free"
    /\ cleanup' = IF running_locked THEN cleanup ELSE given
    /\ UNCHANGED <<pc, alive, steps, stop_flag, current, m, done, failure,
                   worker, history>>

-----------------------------------------------------------------------------
(* start(): take m_, refuse a second run, join a finished worker with m_   *)
(* still held, reset the run's state and spawn the new worker.  The thread *)
(* constructor may fail, after the reset, and leaves worker_ not joinable. *)

start(t) ==
    /\ Calls(t) /\ m = "free"
    /\ IF running_locked
       THEN UNCHANGED <<pc, m>>
       ELSE Goto(t, "joining") /\ m' = t
    /\ UNCHANGED <<alive, steps, cleanup, stop_flag, current, done, failure,
                   worker, history>>

InCall(t) == pc[t] \in {"requested", "wait", "blocked", "rethrow"}

spawn(t) ==
    /\ pc[t] = "joining"
    /\ wpc \in {"none", "exited"}        \* worker_.join() returns
    /\ stop_flag' = FALSE /\ failure' = "none" /\ done' = FALSE
    /\ current' = -1
    /\ i' = 0 /\ aborted' = FALSE /\ wfail' = "none"
    /\ wpc' \in {"loop", "none"}         \* "none": the constructor threw
    /\ Goto(t, "idle")
    /\ m' = "free"
    /\ cleaned' = 0 /\ late' = 0
    /\ missed' = [u \in Callers |-> missed[u] \/ InCall(u)]
    /\ UNCHANGED <<alive, steps, cleanup, saw>>

-----------------------------------------------------------------------------
(* request_stop(), stop() and wait().  stop() is request_stop() and then   *)
(* wait(); wait() re-acquires m_ before each test of its predicate, and    *)
(* rethrow_if_failed() takes m_ again after wait() has released it.        *)

request_stop(t) ==
    /\ Calls(t)
    /\ stop_flag' = TRUE
    /\ UNCHANGED <<alive, steps, cleanup, current, m, done, failure, worker,
                   pc, history>>

stop(t) ==
    /\ Calls(t)
    /\ stop_flag' = TRUE
    /\ Goto(t, "requested")
    /\ UNCHANGED <<alive, steps, cleanup, current, m, done, failure, worker,
                   history>>

wait(t) ==
    /\ Calls(t)
    /\ Goto(t, "wait")
    /\ UNCHANGED <<object, worker, history>>

WaitPredicate_ByStage == current = -1 \/ ~Joinable

WaitPredicate == done \/ ~Joinable

TestPredicate(t) ==
    /\ pc[t] \in {"requested", "wait"} /\ m = "free"
    /\ IF WaitPredicate
       THEN /\ Goto(t, "rethrow")
            /\ saw' = [saw EXCEPT ![t] = failure]
       ELSE Goto(t, "blocked") /\ UNCHANGED saw
    /\ UNCHANGED <<object, worker, cleaned, late, missed>>

SpuriousWakeup(t) ==
    /\ pc[t] = "blocked"
    /\ Goto(t, "wait")
    /\ UNCHANGED <<object, worker, history>>

rethrow_if_failed(t) ==
    /\ pc[t] = "rethrow" /\ m = "free"
    /\ Goto(t, "idle")                   \* by the exception failure, if any
    /\ saw' = [saw EXCEPT ![t] = "none"]
    /\ missed' = [missed EXCEPT ![t] = FALSE]
    /\ UNCHANGED <<object, worker, cleaned, late>>

-----------------------------------------------------------------------------
(* run(), on the worker thread. *)

MoreStages_OffByOne == i <= steps

MoreStages == i < steps

StageBegin ==
    /\ wpc = "loop" /\ MoreStages
    /\ current' = i
    /\ wpc' = "stage"
    /\ late' = IF stop_flag THEN late + 1 ELSE late
    /\ UNCHANGED <<alive, steps, cleanup, stop_flag, m, done, failure, i,
                   aborted, wfail, pc, cleaned, saw, missed>>

LoopEnd ==
    /\ wpc = "loop" /\ ~MoreStages
    /\ wpc' = "exit"
    /\ UNCHANGED <<object, i, aborted, wfail, pc, history>>

(* A stage or the cleanup may call request_stop() on its own pipeline. *)
SelfRequestStop ==
    /\ wpc \in {"stage", "cleaning"}
    /\ stop_flag' = TRUE
    /\ UNCHANGED <<alive, steps, cleanup, current, m, done, failure, worker,
                   pc, history>>

StageReturn ==
    /\ wpc = "stage"
    /\ wpc' = "check"
    /\ UNCHANGED <<object, i, aborted, wfail, pc, history>>

StageThrow ==
    /\ wpc = "stage"
    /\ wpc' = "exit" /\ wfail' = "stage" /\ aborted' = TRUE
    /\ UNCHANGED <<object, i, pc, history>>

CheckStop_Ignored ==
    /\ wpc = "check"
    /\ wpc' = "loop" /\ i' = i + 1
    /\ UNCHANGED <<object, aborted, wfail, pc, history>>

CheckStop ==
    /\ wpc = "check"
    /\ IF stop_flag
       THEN wpc' = "exit" /\ aborted' = TRUE /\ UNCHANGED i
       ELSE wpc' = "loop" /\ i' = i + 1 /\ UNCHANGED aborted
    /\ UNCHANGED <<object, wfail, pc, history>>

CleanupBegin ==
    /\ wpc = "exit"
    /\ current' = -1
    /\ IF cleanup
       THEN wpc' = "cleaning" /\ cleaned' = cleaned + 1
       ELSE wpc' = "publish" /\ UNCHANGED cleaned
    /\ UNCHANGED <<alive, steps, cleanup, stop_flag, m, done, failure, i,
                   aborted, wfail, pc, late, saw, missed>>

CleanupReturn ==
    /\ wpc = "cleaning"
    /\ wpc' = "publish"
    /\ UNCHANGED <<object, i, aborted, wfail, pc, history>>

CleanupThrow ==
    /\ wpc = "cleaning"
    /\ wpc' = "publish"
    /\ wfail' = IF wfail = "none" THEN "cleanup" ELSE wfail
    /\ UNCHANGED <<object, i, aborted, pc, history>>

Publish ==
    /\ wpc = "publish" /\ m = "free"
    /\ failure' = wfail /\ done' = TRUE
    /\ wpc' = "notify"
    /\ UNCHANGED <<alive, steps, cleanup, stop_flag, current, m, i, aborted,
                   wfail, pc, history>>

Notified_Nobody == {}

Notified == {t \in Callers : pc[t] = "blocked"}

NotifyAll ==
    /\ wpc = "notify"
    /\ wpc' = "exited" /\ i' = 0 /\ aborted' = FALSE /\ wfail' = "none"
    /\ pc' = [t \in Callers |-> IF t \in Notified THEN "wait" ELSE pc[t]]
    /\ UNCHANGED <<object, history>>

-----------------------------------------------------------------------------
(* ~Pipeline(): C++ allows it only once no other call is in progress.  A   *)
(* later object may be constructed; it starts fresh.                       *)

Destroy(t) ==
    /\ Calls(t) /\ \A u \in Callers : pc[u] = "idle"
    /\ alive' = FALSE /\ stop_flag' = TRUE
    /\ Goto(t, "dtor")
    /\ UNCHANGED <<steps, cleanup, current, m, done, failure, worker, history>>

DtorJoin(t) ==
    /\ pc[t] = "dtor"
    /\ wpc \in {"none", "exited"}
    /\ wpc' = "none"
    /\ Goto(t, "idle")
    /\ UNCHANGED <<object, i, aborted, wfail, history>>

Construct ==
    /\ ~alive /\ \A t \in Callers : pc[t] = "idle"
    /\ alive' = TRUE /\ steps' = 0 /\ cleanup' = FALSE
    /\ stop_flag' = FALSE /\ current' = -1
    /\ m' = "free" /\ done' = FALSE /\ failure' = "none"
    /\ wpc' = "none" /\ i' = 0 /\ aborted' = FALSE /\ wfail' = "none"
    /\ cleaned' = 0 /\ late' = 0
    /\ UNCHANGED <<pc, saw, missed>>

-----------------------------------------------------------------------------
CallerCalls(t) ==
    \/ \E n \in 0..MaxSteps : set_steps(t, n)
    \/ \E given \in BOOLEAN : set_cleanup(t, given)
    \/ start(t) \/ request_stop(t) \/ stop(t) \/ wait(t)
    \/ Destroy(t)

CallerContinues(t) ==
    spawn(t) \/ TestPredicate(t) \/ rethrow_if_failed(t) \/ DtorJoin(t)

Worker ==
    \/ StageBegin \/ LoopEnd \/ StageReturn \/ StageThrow \/ CheckStop
    \/ CleanupBegin \/ CleanupReturn \/ CleanupThrow \/ Publish \/ NotifyAll

Next ==
    \/ \E t \in Callers : CallerCalls(t)
    \/ \E t \in Callers : CallerContinues(t)
    \/ \E t \in Callers : SpuriousWakeup(t)
    \/ Worker
    \/ SelfRequestStop
    \/ Construct

Spec == Init /\ [][Next]_vars

(* Both kinds of threads are scheduled and every stage and cleanup ends;   *)
(* nobody is obliged to make a call, and spurious wakeups need not occur.  *)
Fairness == WF_vars(Worker) /\ \A t \in Callers : WF_vars(CallerContinues(t))

FairSpec == Spec /\ Fairness

(* The same with a mutex that starves nobody: a caller that tries for m_   *)
(* again and again gets it.                                                *)
FairMutexSpec ==
    /\ FairSpec
    /\ \A t \in Callers :
        SF_vars(TestPredicate(t)) /\ SF_vars(rethrow_if_failed(t))

-----------------------------------------------------------------------------
(* Safety. *)

(* "The cleanup stage always runs exactly once" (class comment): run()     *)
(* calls a configured cleanup_ once, after the last stage and before it    *)
(* publishes done_, however the stages ended: normally, by a stop request, *)
(* by an exception, or with the cleanup itself throwing.                   *)
CleanupExactlyOnce ==
    /\ InStages \/ wpc = "exit" => cleaned = 0
    /\ wpc \in {"cleaning", "publish"} => cleaned = IF cleanup THEN 1 ELSE 0
    /\ cleaned <= 1

(* "Once the running stage finishes, all remaining stages are skipped":    *)
(* while stop_flag_ is set at most one more stage begins (one, when the    *)
(* request falls between the check after a stage and the next stage), and  *)
(* no restart can clear the flag under a run that still has stages to do.  *)
StopHonoured == late <= 1

(* A caller asleep in done_cv_.wait() always has a worker ahead of it that *)
(* has yet to call notify_all(), although run() notifies after unlocking   *)
(* m_ and start() replaces the worker.                                     *)
NoLostWakeup ==
    \A t \in Callers : pc[t] = "blocked" => wpc \notin {"none", "exited"}

(* "An RPC caller can rely on the pipeline being fully stopped when it     *)
(* returns": past wait() no stage and no cleanup is running, unless some   *)
(* other caller has restarted the pipeline since the call began.           *)
StoppedOnReturn ==
    \A t \in Callers : pc[t] = "rethrow" /\ ~missed[t] => ~Executing

(* The exception wait() is about to rethrow is the one of the run it       *)
(* waited for, although m_ is released and taken again in between.         *)
FailureOfItsRun ==
    \A t \in Callers : pc[t] = "rethrow" /\ ~missed[t] => failure = saw[t]

(* The flag handed to cleanup_: it is FALSE only after every stage has run *)
(* to its end, and TRUE only after an exception or a stop request.         *)
AbortedIsTrue ==
    wpc \in {"exit", "cleaning"} =>
        /\ ~aborted => i = steps /\ wfail = "none"
        /\ aborted => stop_flag \/ wfail = "stage"

-----------------------------------------------------------------------------
(* The contract's view of the pipeline: a run is in its stages until run() *)
(* leaves the loop, and in its cleanup until done_ is published.           *)
ContractPhase ==
    IF ~Joinable THEN "idle"
    ELSE IF done THEN "finished"
    ELSE IF wpc \in {"cleaning", "publish"} THEN "cleaning"
    ELSE "stages"

Waiting == {t \in Callers : pc[t] \in {"requested", "wait", "blocked"}}

Contract == INSTANCE PipelineContract WITH
    phase <- ContractPhase, stopping <- stop_flag,
    overrun <- late > 0, waiting <- Waiting

(* Pipeline implements PipelineContract: done_, worker_.joinable(), m_ and *)
(* done_cv_ keep runs apart, honour a stop at the next stage boundary, and *)
(* release a waiting caller only between runs.                             *)
ImplementsContract == Contract!Spec

-----------------------------------------------------------------------------
(* Liveness. *)

(* Every stop() and wait() returns unless the pipeline is restarted while  *)
(* the caller is still inside; start() and the destructor return.          *)
CallsReturn ==
    \A t \in Callers :
        /\ InCall(t) ~> (~InCall(t) \/ missed[t])
        /\ pc[t] \in {"joining", "dtor"} ~> pc[t] = "idle"

-----------------------------------------------------------------------------
(* What the comments promise and concurrent callers do not get. *)

(* "Requests cancellation, then blocks until the current stage finishes,   *)
(* remaining stages are skipped" (comment on stop()): a stop() blocked on  *)
(* a run that still has stages to do has stop_flag_ set.                   *)
StopRequestStands ==
    \A t \in Callers : pc[t] = "requested" /\ InStages => stop_flag

(* "Rethrows the exception that aborted the pipeline, if any" (comment on  *)
(* wait()): a wait() that ended on a failed run still finds the failure.   *)
FailureRethrown ==
    \A t \in Callers : pc[t] = "rethrow" /\ saw[t] # "none" => failure # "none"

(* "Blocks until all work and cleanup has finished" (comment on wait()):   *)
(* stop() and wait() return, even if other callers keep restarting runs.   *)
WaitReturns == \A t \in Callers : InCall(t) ~> ~InCall(t)

=============================================================================
