----------------------------- MODULE WithTimeout -----------------------------
(***************************************************************************)
(* ConcurrencyRuntime::with_timeout of src/src/concurrency/task.cc on top  *)
(* of the scheduler: the call spawns the function as one task and a        *)
(* watchdog as a second task, which polls `completed`, sleeps, and cancels *)
(* the first task when the time is over.  Other tasks may be around; only  *)
(* the watchdog cancels.                                                   *)
(*                                                                         *)
(* The watchdog sleeps on its worker thread: the worker is taken until it  *)
(* ends.  The store of `completed` and the end of invoke() are one step:   *)
(* the watchdog reads only the former, the worker only the latter.         *)
(***************************************************************************)
EXTENDS TaskScheduler

CONSTANTS Body,      \* the task that runs func (main_task)
          Watchdog   \* the second task

ASSUME PairAssumption ==
    /\ Body \in Tasks /\ Watchdog \in Tasks /\ Body # Watchdog
    /\ Parent[Body] = Main /\ Parent[Watchdog] = Main /\ Watchdog \notin Loopers

VARIABLES completed,   \* shared flag, stored by the body's wrapper
          timed_out,   \* shared flag, stored by the watchdog
          expired,     \* the clock has passed start_time + timeout
          dog          \* where the watchdog's function is

timeoutVars == <<completed, timed_out, expired, dog>>

wtVars == <<vars, timeoutVars>>

WTTypeOK ==
    /\ TypeOK
    /\ completed \in BOOLEAN /\ timed_out \in BOOLEAN /\ expired \in BOOLEAN
    /\ dog \in {"test", "sleep", "cancel", "storing", "done"}

WTInit ==
    /\ Init
    /\ completed = FALSE /\ timed_out = FALSE /\ expired = FALSE
    /\ dog = "test"

\* The watchdog's function is executing.
DogRuns == InBody(Watchdog)

\* while (!completed->load()) sleep_for(1 ms)
DogTest ==
    /\ DogRuns /\ dog = "test"
    /\ dog' = IF completed THEN "done" ELSE "sleep"
    /\ UNCHANGED <<vars, completed, timed_out, expired>>

\* Time passes the deadline; start_time is read when the watchdog starts.
Expire ==
    /\ DogRuns /\ ~expired
    /\ expired' = TRUE
    /\ UNCHANGED <<vars, completed, timed_out, dog>>

\* Mutant: the time is over, and the task is not cancelled.
MutantNoCancel ==
    /\ DogRuns /\ dog = "sleep"
    /\ \/ expired /\ timed_out' = TRUE /\ dog' = "done"
       \/ ~expired /\ dog' = "test" /\ UNCHANGED timed_out
    /\ UNCHANGED <<vars, completed, expired>>

\* Mutant: the flag is not stored.
MutantNoFlag ==
    /\ DogRuns /\ dog = "sleep"
    /\ dog' = IF expired THEN "cancel" ELSE "test"
    /\ UNCHANGED <<vars, completed, timed_out, expired>>

\* Awake again: completed is not read again before the deadline is tested.
DogWake ==
    /\ DogRuns /\ dog = "sleep"
    /\ \/ expired /\ timed_out' = TRUE /\ dog' = "cancel"
       \/ ~expired /\ dog' = "test" /\ UNCHANGED timed_out
    /\ UNCHANGED <<vars, completed, expired>>

\* scheduler_->cancel_task(main_task): on a task that has gone, the erase only
DogCancel ==
    /\ DogRuns /\ dog = "cancel"
    /\ CancelFind(Body)
    /\ dog' = IF cancelling' = Body THEN "storing" ELSE "done"
    /\ UNCHANGED <<completed, timed_out, expired>>

\* Mutant: no break after the cancellation.
MutantNoBreak ==
    /\ dog = "storing"
    /\ CancelStore
    /\ dog' = "test"
    /\ UNCHANGED <<completed, timed_out, expired>>

\* The second store of the cancellation, and break.
DogCancelled ==
    /\ dog = "storing"
    /\ CancelStore
    /\ dog' = "done"
    /\ UNCHANGED <<completed, timed_out, expired>>

\* The body's wrapper stores completed when func() returns and when it throws,
\* and not when invoke() finds the task cancelled before it ran.
Wrapper ==
    completed' = (completed \/ (fiber[Body] # "new" /\ fiber'[Body] = "returned"))

\* Steps of the fibers; the watchdog's function does not yield, and returns
\* when it is through.
PairFiberStep(w) ==
    /\ FiberStep(w)
    /\ current_task[w] = Watchdog /\ fiber[Watchdog] = "body"
         => dog = "done" /\ fiber'[Watchdog] = "returned"
    /\ Wrapper

\* with_timeout() makes the two spawn() calls in this order.
SpawnStep(t) ==
    /\ t = Watchdog => spawning[Body] = "mapped"
    /\ SpawnCount(t) \/ SpawnPush(t) \/ SpawnMap(t)
    /\ UNCHANGED completed

SchedulerStep ==
    /\ \/ \E w \in Workers : PairFiberStep(w) \/ (WorkerStep(w) /\ UNCHANGED completed)
       \/ OwnerStep /\ spawning[Watchdog] = "mapped" /\ UNCHANGED completed
       \/ \E t \in Tasks : SpawnStep(t)
    /\ UNCHANGED <<timed_out, expired, dog>>

WTOver == Over /\ UNCHANGED timeoutVars

WTNext ==
    \/ /\ ~undefined_
       /\ \/ SchedulerStep
          \/ DogTest \/ DogWake \/ DogCancel \/ DogCancelled
          \/ Expire
    \/ WTOver

WTSpec == WTInit /\ [][WTNext]_wtVars

\* As in TaskScheduler; with_timeout() goes on once it is called, the
\* watchdog goes on while it has its worker, and time passes.
WTFairness ==
    /\ \A w \in Workers :
         /\ WF_wtVars(~undefined_ /\ PairFiberStep(w) /\ UNCHANGED <<timed_out, expired, dog>>)
         /\ WF_wtVars(~undefined_ /\ WorkerStep(w) /\ UNCHANGED timeoutVars)
         /\ WF_wtVars(~undefined_ /\ StopSignal(w) /\ UNCHANGED timeoutVars)
         /\ SF_wtVars(~undefined_ /\ StealGlobal(w) /\ UNCHANGED timeoutVars)
    /\ WF_wtVars(~undefined_ /\ (\E t \in Tasks : SpawnStep(t)) /\ UNCHANGED timeoutVars)
    /\ WF_wtVars(~undefined_ /\ (DogTest \/ DogWake \/ DogCancel \/ DogCancelled))
    /\ WF_wtVars(~undefined_ /\ Expire)
    /\ WF_wtVars(~undefined_ /\ WaitAllReturns /\ UNCHANGED timeoutVars)
    /\ WF_wtVars(~undefined_ /\ StopJoins /\ UNCHANGED timeoutVars)

WTFairSpec == WTSpec /\ WTFairness

-----------------------------------------------------------------------------
(* Correctness                                                             *)

\* When join_all() returns, the outcome of the call is known: func returned or
\* threw, or the watchdog cancelled it.  A function that never got to run, or
\* whose suspended fiber was dropped, was timed out.
OutcomeKnown ==
    owner = "drained" /\ spawning[Watchdog] = "mapped" => completed \/ timed_out

\* src/src/concurrency/README.md:214 "Use with_timeout (C++) ... to bound task
\* execution lifetimes": a function that yields again and again is ended by
\* the time-out.
LifetimeBounded ==
    spawning[Watchdog] = "mapped"
        ~> Body \notin InFlight \/ undefined_ \/ owner \in {"stopping", "down"}

\* The watchdog never keeps join_all() waiting: it ends after func, whether func
\* completed, threw, was cancelled before it ran or was dropped.
WatchdogEnds ==
    Body \notin InFlight /\ spawning[Watchdog] = "mapped"
        ~> Watchdog \notin InFlight \/ undefined_ \/ owner \in {"stopping", "down"}
=============================================================================
