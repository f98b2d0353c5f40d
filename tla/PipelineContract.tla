-------------------------- MODULE PipelineContract --------------------------
(***************************************************************************)
(* What the class comment of stage::Pipeline promises its callers, without *)
(* the mutex, the condition variable or the worker thread: runs follow one *)
(* another, each goes through its stages, then its cleanup, then ends; a   *)
(* stop request lets at most one more stage begin; a waiting caller is     *)
(* released only when no run is in progress.                               *)
(***************************************************************************)
CONSTANT Callers

VARIABLES phase,     \* where the current run stands
          stopping,  \* a stop was requested
          overrun,   \* a stage began although a stop was requested
          waiting    \* the callers blocked in stop() or wait()

vars == <<phase, stopping, overrun, waiting>>

Quiet == phase \in {"idle", "finished"}

Init ==
    /\ phase = "idle" /\ stopping = FALSE
    /\ overrun = FALSE /\ waiting = {}

(* A new run, or (when no thread can be had) no run; a stop requested      *)
(* before it began is forgotten.                                           *)
BeginRun ==
    /\ Quiet
    /\ phase' \in {"stages", "idle"}
    /\ stopping' = FALSE /\ overrun' = FALSE
    /\ UNCHANGED waiting

BeginStage ==
    /\ phase = "stages" /\ ~overrun
    /\ overrun' = stopping
    /\ UNCHANGED <<phase, stopping, waiting>>

RequestStop == stopping' = TRUE /\ UNCHANGED <<phase, overrun, waiting>>

BeginCleanup ==
    /\ phase = "stages" /\ phase' = "cleaning"
    /\ UNCHANGED <<stopping, overrun, waiting>>

EndRun ==
    /\ phase = "cleaning" /\ phase' = "finished"
    /\ UNCHANGED <<stopping, overrun, waiting>>

(* The object is destroyed: its last run is over and nobody waits. *)
Discard ==
    /\ Quiet /\ waiting = {} /\ phase' = "idle"
    /\ UNCHANGED <<stopping, overrun, waiting>>

(* stop() asks and waits, wait() only waits. *)
Wait(t) ==
    /\ t \notin waiting /\ waiting' = waiting \cup {t}
    /\ stopping' \in {stopping, TRUE}
    /\ UNCHANGED <<phase, overrun>>

Release(t) ==
    /\ t \in waiting /\ Quiet /\ waiting' = waiting \ {t}
    /\ UNCHANGED <<phase, stopping, overrun>>

Next ==
    \/ BeginRun \/ BeginStage \/ RequestStop \/ BeginCleanup \/ EndRun
    \/ Discard
    \/ \E t \in Callers : Wait(t) \/ Release(t)

Spec == Init /\ [][Next]_vars
=============================================================================
