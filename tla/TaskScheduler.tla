---------------------------- MODULE TaskScheduler ----------------------------
(***************************************************************************)
(* Task and TaskScheduler of src/src/concurrency/task.{h,cc}: worker       *)
(* threads that run ucontext fibers taken from a global queue, from their  *)
(* own local queue, or from another worker's local queue.                  *)
(*                                                                         *)
(* Atomicity.  A step is a critical section (queue_mutex, global_mutex_),  *)
(* an atomic operation, or a store to state_, which is a plain member that *)
(* the worker, the fiber and a canceller access without a common lock.     *)
(* cancel_task() keeps global_mutex_ over two stores and is two steps.     *)
(*                                                                         *)
(* A fiber that finishes returns to uc_link, the scheduler context of the  *)
(* worker that ran it FIRST.  On another worker that context belongs to a  *)
(* frame another thread is using: the behaviour is undefined from there    *)
(* on, and the model stops (undefined_).                                   *)
(***************************************************************************)
EXTENDS Naturals, Sequences, FiniteSets

CONSTANTS
    Workers,     \* worker threads (num_workers_)
    Tasks,       \* the tasks that may be spawned
    Main,        \* the thread that owns the scheduler
    Parent,      \* who spawns each task: Main or another task
    Loopers,     \* tasks whose function may yield any number of times, also for ever
    MaxYields,   \* bound: yields of a task that is not a looper
    NoTask, NoWorker

ASSUME WorkersAssumption == IsFiniteSet(Workers) /\ Workers # {} /\ NoWorker \notin Workers
ASSUME TasksAssumption == IsFiniteSet(Tasks) /\ NoTask \notin Tasks /\ Main \notin Tasks
ASSUME ParentAssumption == Parent \in [Tasks -> Tasks \cup {Main}] /\ Loopers \subseteq Tasks
ASSUME MaxYieldsAssumption == MaxYields \in Nat

VARIABLES
    global_queue_,     \* sequence of tasks
    local_queue,       \* worker -> sequence of tasks
    current_task,      \* worker -> the task in its loop variable, or NoTask
    wpc,               \* worker -> position in worker_loop
    should_stop,       \* worker -> flag set by stop()
    state_,            \* task -> Task::State
    cancelled_,        \* task -> flag set by cancel()
    fiber,             \* task -> position of its fiber in invoke / yield
    uc_link,           \* task -> worker whose context the fiber returns to
    yields,            \* task -> yields so far
    spawning,          \* task -> position in the spawn() call that makes it
    active_tasks_,     \* the counter wait_all polls
    active_task_map_,  \* ids cancel_task can find
    cancelling,        \* the task cancel_task is storing to, or NoTask:
                       \* global_mutex_ is held meanwhile
    owner,             \* position of the main thread: run, wait_all, stop
    undefined_         \* a fiber returned into a frame it does not own

vars == <<global_queue_, local_queue, current_task, wpc, should_stop, state_,
          cancelled_, fiber, uc_link, yields, spawning, active_tasks_,
          active_task_map_, cancelling, owner, undefined_>>

queueVars == <<global_queue_, local_queue>>
workerVars == <<current_task, wpc, should_stop>>
taskVars == <<state_, cancelled_, fiber, uc_link, yields>>
ownerVars == <<spawning, active_tasks_, active_task_map_, cancelling, owner>>

WorkerPC == {"loop", "pop", "steal", "steal_local", "run", "after", "clear", "stopped"}
FiberPC == {"new", "entered", "body", "yielding", "suspended", "resumed", "returned"}
TaskState == {"CREATED", "RUNNABLE", "RUNNING", "COMPLETED", "CANCELLED"}
SpawnPC == {"none", "counted", "queued", "mapped"}
OwnerPC == {"up", "waiting", "drained", "stopping", "down"}

TypeOK ==
    /\ global_queue_ \in Seq(Tasks)
    /\ local_queue \in [Workers -> Seq(Tasks)]
    /\ current_task \in [Workers -> Tasks \cup {NoTask}]
    /\ wpc \in [Workers -> WorkerPC]
    /\ should_stop \in [Workers -> BOOLEAN]
    /\ state_ \in [Tasks -> TaskState]
    /\ cancelled_ \in [Tasks -> BOOLEAN]
    /\ fiber \in [Tasks -> FiberPC]
    /\ uc_link \in [Tasks -> Workers \cup {NoWorker}]
    /\ yields \in [Tasks -> 0..MaxYields]
    /\ spawning \in [Tasks -> SpawnPC]
    /\ active_tasks_ \in Nat
    /\ active_task_map_ \subseteq Tasks
    /\ cancelling \in Tasks \cup {NoTask}
    /\ owner \in OwnerPC
    /\ undefined_ \in BOOLEAN

\* After start(): the worker threads are in their loops, nothing is spawned.
Init ==
    /\ global_queue_ = <<>>
    /\ local_queue = [w \in Workers |-> <<>>]
    /\ current_task = [w \in Workers |-> NoTask]
    /\ wpc = [w \in Workers |-> "loop"]
    /\ should_stop = [w \in Workers |-> FALSE]
    /\ state_ = [t \in Tasks |-> "CREATED"]
    /\ cancelled_ = [t \in Tasks |-> FALSE]
    /\ fiber = [t \in Tasks |-> "new"]
    /\ uc_link = [t \in Tasks |-> NoWorker]
    /\ yields = [t \in Tasks |-> 0]
    /\ spawning = [t \in Tasks |-> "none"]
    /\ active_tasks_ = 0
    /\ active_task_map_ = {}
    /\ cancelling = NoTask
    /\ owner = "up"
    /\ undefined_ = FALSE

-----------------------------------------------------------------------------
(* Where a task is                                                         *)

InSeq(t, q) == \E i \in DOMAIN q : q[i] = t

InGlobal(t) == InSeq(t, global_queue_)

InLocal(t, w) == InSeq(t, local_queue[w])

\* The task runs on w, or w has just switched back from it.
OnWorker(t, w) == current_task[w] = t /\ wpc[w] \in {"run", "after"}

\* Tasks that are still owed a run, or a decrement of the counter.
InFlight ==
    {t \in Tasks : \/ spawning[t] = "counted"
                   \/ InGlobal(t)
                   \/ \E w \in Workers : InLocal(t, w) \/ OnWorker(t, w)}

\* Some shared_ptr<Task> to t exists, so that the weak_ptr of
\* active_task_map_ can be locked.
Alive(t) ==
    \/ spawning[t] \in {"counted", "queued"}
    \/ InGlobal(t)
    \/ \E w \in Workers : InLocal(t, w) \/ current_task[w] = t

\* The thread that executes p's code is free for p's next step: Main is not in
\* wait_all or stop, a task's fiber is in its function.
InBody(p) ==
    IF p = Main THEN owner = "up"
    ELSE fiber[p] = "body" /\ \E w \in Workers : current_task[w] = p /\ wpc[w] = "run"

\* p is inside a call of spawn().
Spawning(p) == \E t \in Tasks : Parent[t] = p /\ spawning[t] \in {"counted", "queued"}

GlobalMutexFree == cancelling = NoTask

-----------------------------------------------------------------------------
(* spawn() and schedule_task(), executed by the parent                     *)

\* active_tasks_.fetch_add(1)
SpawnCount(t) ==
    /\ spawning[t] = "none" /\ InBody(Parent[t]) /\ ~Spawning(Parent[t])
    /\ spawning' = [spawning EXCEPT ![t] = "counted"]
    /\ active_tasks_' = active_tasks_ + 1
    /\ UNCHANGED <<queueVars, workerVars, taskVars, active_task_map_, cancelling, owner, undefined_>>

\* schedule_task(task): no preferred worker, so always the global queue
SpawnPush(t) ==
    /\ spawning[t] = "counted" /\ GlobalMutexFree
    /\ spawning' = [spawning EXCEPT ![t] = "queued"]
    /\ global_queue_' = Append(global_queue_, t)
    /\ UNCHANGED <<local_queue, workerVars, taskVars, active_tasks_, active_task_map_, cancelling, owner, undefined_>>

\* active_task_map_[id] = task
SpawnMap(t) ==
    /\ spawning[t] = "queued" /\ GlobalMutexFree
    /\ spawning' = [spawning EXCEPT ![t] = "mapped"]
    /\ active_task_map_' = active_task_map_ \cup {t}
    /\ UNCHANGED <<queueVars, workerVars, taskVars, active_tasks_, cancelling, owner, undefined_>>

-----------------------------------------------------------------------------
(* cancel_task(), called from any thread                                   *)

\* Finds the id and locks its weak_ptr; cancelled_.store(true) if the task is
\* still alive, and only the erase if it is not.
CancelFind(t) ==
    /\ t \in active_task_map_ /\ GlobalMutexFree
    /\ IF Alive(t)
         THEN /\ cancelled_' = [cancelled_ EXCEPT ![t] = TRUE]
              /\ cancelling' = t
              /\ UNCHANGED active_task_map_
         ELSE /\ active_task_map_' = active_task_map_ \ {t}
              /\ UNCHANGED <<cancelled_, cancelling>>
    /\ UNCHANGED <<queueVars, workerVars, state_, fiber, uc_link, yields, spawning, active_tasks_, owner, undefined_>>

\* state_ = CANCELLED, the erase, and the end of the critical section.
CancelStore ==
    /\ cancelling # NoTask
    /\ state_' = [state_ EXCEPT ![cancelling] = "CANCELLED"]
    /\ active_task_map_' = active_task_map_ \ {cancelling}
    /\ cancelling' = NoTask
    /\ UNCHANGED <<queueVars, workerVars, cancelled_, fiber, uc_link, yields, spawning, active_tasks_, owner, undefined_>>

-----------------------------------------------------------------------------
(* The fiber: TaskTrampoline, invoke(), yield_current_task() and yield()   *)

\* The fiber of t is at place l and executing on w.
FiberAt(w, t, l) == wpc[w] = "run" /\ current_task[w] = t /\ fiber[t] = l

\* The function has returned (or thrown): invoke() stores the state s and
\* the fiber returns to uc_link.
ReturnToLink(w, t, s) ==
    /\ state_' = [state_ EXCEPT ![t] = s]
    /\ fiber' = [fiber EXCEPT ![t] = "returned"]
    /\ IF uc_link[t] = w
         THEN wpc' = [wpc EXCEPT ![w] = "after"] /\ UNCHANGED undefined_
         ELSE undefined_' = TRUE /\ UNCHANGED wpc
    /\ UNCHANGED <<queueVars, current_task, should_stop, cancelled_, uc_link, yields, ownerVars>>

\* The fiber goes on to l on the same worker.
FiberGoto(t, l) ==
    /\ fiber' = [fiber EXCEPT ![t] = l]
    /\ UNCHANGED <<queueVars, workerVars, cancelled_, uc_link, yields, ownerVars, undefined_>>

\* Mutant: the state is looked at, which the fiber and yield() overwrite.
MutantStateCancelled(t) == state_[t] = "CANCELLED"

\* cancelled_.load(), which invoke() and yield() look at
IsCancelled(t) == cancelled_[t]

\* invoke(): cancelled before it ever ran
Invoke(w, t) ==
    /\ FiberAt(w, t, "new")
    /\ \/ IsCancelled(t) /\ ReturnToLink(w, t, "CANCELLED")
       \/ ~IsCancelled(t) /\ FiberGoto(t, "entered") /\ UNCHANGED state_

\* state_ = RUNNING, and the call of function_()
Begin(w, t) ==
    /\ FiberAt(w, t, "entered")
    /\ state_' = [state_ EXCEPT ![t] = "RUNNING"]
    /\ FiberGoto(t, "body")

\* function_() returns or throws: COMPLETED either way
Finish(w, t) ==
    /\ FiberAt(w, t, "body") /\ ~Spawning(t)
    /\ ReturnToLink(w, t, "COMPLETED")

\* yield(): a cancelled task throws, which ends function_()
YieldCheck(w, t) ==
    /\ FiberAt(w, t, "body") /\ ~Spawning(t)
    /\ t \in Loopers \/ yields[t] < MaxYields
    /\ \/ IsCancelled(t) /\ ReturnToLink(w, t, "COMPLETED")
       \/ ~IsCancelled(t) /\ FiberGoto(t, "yielding") /\ UNCHANGED state_

\* state_ = RUNNABLE; swapcontext(&uctx_, g_sched_ctx)
YieldSwitch(w, t) ==
    /\ FiberAt(w, t, "yielding")
    /\ state_' = [state_ EXCEPT ![t] = "RUNNABLE"]
    /\ fiber' = [fiber EXCEPT ![t] = "suspended"]
    /\ yields' = [yields EXCEPT ![t] = IF t \in Loopers THEN @ ELSE @ + 1]
    /\ wpc' = [wpc EXCEPT ![w] = "after"]
    /\ UNCHANGED <<queueVars, current_task, should_stop, cancelled_, uc_link, ownerVars, undefined_>>

\* yield() continues after the switch back: state_ is left RUNNABLE
YieldResume(w, t) ==
    /\ FiberAt(w, t, "resumed")
    /\ \/ IsCancelled(t) /\ ReturnToLink(w, t, "COMPLETED")
       \/ ~IsCancelled(t) /\ FiberGoto(t, "body") /\ UNCHANGED state_

-----------------------------------------------------------------------------
(* worker_loop() and steal_task_fast()                                     *)

WorkerGoto(w, l) ==
    /\ wpc' = [wpc EXCEPT ![w] = l]
    /\ UNCHANGED <<current_task, should_stop, taskVars, ownerVars, undefined_>>

\* current_task = task; the context is made on the first run, with uc_link
\* pointing at this worker; swapcontext into the fiber.
Dispatch(w, t) ==
    /\ current_task' = [current_task EXCEPT ![w] = t]
    /\ uc_link' = [uc_link EXCEPT ![t] = IF @ = NoWorker THEN w ELSE @]
    /\ fiber' = [fiber EXCEPT ![t] = IF @ = "suspended" THEN "resumed" ELSE @]
    /\ wpc' = [wpc EXCEPT ![w] = "run"]
    /\ UNCHANGED <<should_stop, state_, cancelled_, yields, ownerVars, undefined_>>

\* while (!should_stop.load())
LoopTest(w) ==
    /\ wpc[w] = "loop"
    /\ WorkerGoto(w, IF should_stop[w] THEN "stopped" ELSE "pop")
    /\ UNCHANGED queueVars

\* Mutant: front() without pop().
MutantPopLocalKeeps(w) ==
    /\ wpc[w] = "pop"
    /\ \/ /\ local_queue[w] # <<>>
          /\ Dispatch(w, Head(local_queue[w]))
          /\ UNCHANGED queueVars
       \/ /\ local_queue[w] = <<>>
          /\ WorkerGoto(w, "steal")
          /\ UNCHANGED queueVars

\* wait_for(100 ms) on the local queue, then front and pop.  With nothing
\* queued the wait ends by its timeout or by stop()'s notification.
PopLocal(w) ==
    /\ wpc[w] = "pop"
    /\ \/ /\ local_queue[w] # <<>>
          /\ local_queue' = [local_queue EXCEPT ![w] = Tail(@)]
          /\ Dispatch(w, Head(local_queue[w]))
          /\ UNCHANGED global_queue_
       \/ /\ local_queue[w] = <<>>
          /\ WorkerGoto(w, "steal")
          /\ UNCHANGED queueVars

\* Strategy 1: the global queue, under a try_to_lock.
StealGlobal(w) ==
    /\ wpc[w] = "steal" /\ GlobalMutexFree /\ global_queue_ # <<>>
    /\ global_queue_' = Tail(global_queue_)
    /\ Dispatch(w, Head(global_queue_))
    /\ UNCHANGED local_queue

\* It is empty, or the try_to_lock fails: another thread is in a critical
\* section of global_mutex_.
StealGlobalFails(w) ==
    /\ wpc[w] = "steal"
    /\ WorkerGoto(w, "steal_local")
    /\ UNCHANGED queueVars

\* The workers strategies 2 and 3 look at: never itself unless it is alone.
Victims(w) == IF Cardinality(Workers) > 1 THEN Workers \ {w} ELSE Workers

\* Strategies 2 and 3: the local queue of some other worker, try_to_lock.
StealLocal(w, v) ==
    /\ wpc[w] = "steal_local" /\ v \in Victims(w) /\ local_queue[v] # <<>>
    /\ local_queue' = [local_queue EXCEPT ![v] = Tail(@)]
    /\ Dispatch(w, Head(local_queue[v]))
    /\ UNCHANGED global_queue_

\* Nothing found, or every try_to_lock fails: back to the loop.
StealFails(w) ==
    /\ wpc[w] = "steal_local"
    /\ WorkerGoto(w, "loop")
    /\ UNCHANGED queueVars

\* Mutant: the wrong state is taken for a yield.
MutantYieldedRunning(t) == state_[t] = "RUNNING"

\* get_state() == RUNNABLE: the fiber switched back from yield()
Yielded(t) == state_[t] = "RUNNABLE"

\* local_queue.push(task)
Requeue(w) == local_queue' = [local_queue EXCEPT ![w] = Append(@, current_task[w])]

\* Mutant: every switch back is counted as an end.
MutantCountEveryRun(w) ==
    /\ wpc[w] = "after"
    /\ wpc' = [wpc EXCEPT ![w] = "clear"]
    /\ active_tasks_' = active_tasks_ - 1
    /\ \/ Yielded(current_task[w]) /\ Requeue(w)
       \/ ~Yielded(current_task[w]) /\ UNCHANGED local_queue
    /\ UNCHANGED <<global_queue_, current_task, should_stop, taskVars, spawning, active_task_map_, cancelling, owner, undefined_>>

\* Mutant: a cancelled task is dropped without being counted off.
MutantCancelledNotCounted(w) ==
    /\ wpc[w] = "after"
    /\ wpc' = [wpc EXCEPT ![w] = "clear"]
    /\ \/ Yielded(current_task[w]) /\ Requeue(w) /\ UNCHANGED active_tasks_
       \/ /\ ~Yielded(current_task[w])
          /\ active_tasks_' = active_tasks_ - (IF state_[current_task[w]] = "COMPLETED" THEN 1 ELSE 0)
          /\ UNCHANGED local_queue
    /\ UNCHANGED <<global_queue_, current_task, should_stop, taskVars, spawning, active_task_map_, cancelling, owner, undefined_>>

\* After the switch back: requeue a RUNNABLE task, count off any other.
AfterRun(w) ==
    /\ wpc[w] = "after"
    /\ wpc' = [wpc EXCEPT ![w] = "clear"]
    /\ \/ Yielded(current_task[w]) /\ Requeue(w) /\ UNCHANGED active_tasks_
       \/ /\ ~Yielded(current_task[w])
          /\ active_tasks_' = active_tasks_ - 1
          /\ UNCHANGED local_queue
    /\ UNCHANGED <<global_queue_, current_task, should_stop, taskVars, spawning, active_task_map_, cancelling, owner, undefined_>>

\* current_task = nullptr, and the end of the iteration drops the shared_ptr.
ClearCurrent(w) ==
    /\ wpc[w] = "clear"
    /\ wpc' = [wpc EXCEPT ![w] = "loop"]
    /\ current_task' = [current_task EXCEPT ![w] = NoTask]
    /\ UNCHANGED <<queueVars, should_stop, taskVars, ownerVars, undefined_>>

-----------------------------------------------------------------------------
(* wait_all(), stop() and the ConcurrencyRuntime calls made of them        *)

OwnerGoto(l) ==
    /\ owner' = l
    /\ UNCHANGED <<queueVars, current_task, wpc, taskVars, spawning, active_tasks_, active_task_map_, cancelling, undefined_>>

\* join_all(), or the first half of shutdown(): wait_all() starts polling.
WaitAll ==
    /\ owner = "up" /\ ~Spawning(Main)
    /\ OwnerGoto("waiting")
    /\ UNCHANGED should_stop

\* Mutant: the last task is not waited for.
MutantWaitAllEarly ==
    /\ owner = "waiting" /\ ~(active_tasks_ > 1)
    /\ OwnerGoto("drained")
    /\ UNCHANGED should_stop

\* while (active_tasks_.load() > 0) sleep
WaitAllReturns ==
    /\ owner = "waiting" /\ ~(active_tasks_ > 0)
    /\ OwnerGoto("drained")
    /\ UNCHANGED should_stop

\* join_all() returns to a caller that goes on.
JoinAllReturns ==
    /\ owner = "drained"
    /\ OwnerGoto("up")
    /\ UNCHANGED should_stop

\* stop(): from shutdown() after wait_all(), or directly (the destructor).
Stop ==
    /\ owner \in {"up", "drained"} /\ ~Spawning(Main)
    /\ OwnerGoto("stopping")
    /\ UNCHANGED should_stop

\* Mutant: the loop over workers_ misses one of them.
MutantStopSkipsOne(w) ==
    /\ owner = "stopping" /\ ~should_stop[w] /\ w # CHOOSE v \in Workers : TRUE
    /\ should_stop' = [should_stop EXCEPT ![w] = TRUE]
    /\ OwnerGoto("stopping")

\* should_stop.store(true); queue_cv.notify_all()
StopSignal(w) ==
    /\ owner = "stopping" /\ ~should_stop[w]
    /\ should_stop' = [should_stop EXCEPT ![w] = TRUE]
    /\ OwnerGoto("stopping")

\* Every worker thread is joined.
StopJoins ==
    /\ owner = "stopping"
    /\ \A w \in Workers : wpc[w] = "stopped"
    /\ OwnerGoto("down")
    /\ UNCHANGED should_stop

-----------------------------------------------------------------------------

FiberStep(w) ==
    \E t \in Tasks : \/ Invoke(w, t) \/ Begin(w, t) \/ Finish(w, t)
                     \/ YieldCheck(w, t) \/ YieldSwitch(w, t) \/ YieldResume(w, t)

WorkerStep(w) ==
    \/ LoopTest(w) \/ PopLocal(w)
    \/ StealGlobal(w) \/ StealGlobalFails(w)
    \/ (\E v \in Workers : StealLocal(w, v)) \/ StealFails(w)
    \/ AfterRun(w) \/ ClearCurrent(w)

OwnerStep ==
    \/ WaitAll \/ WaitAllReturns \/ JoinAllReturns
    \/ Stop \/ (\E w \in Workers : StopSignal(w)) \/ StopJoins

ClientStep ==
    \/ \E t \in Tasks : SpawnCount(t) \/ SpawnPush(t) \/ SpawnMap(t) \/ CancelFind(t)
    \/ CancelStore

\* The scheduler is gone, or nothing can be said any more.
Over == (owner = "down" \/ undefined_) /\ UNCHANGED vars

Next ==
    \/ /\ ~undefined_
       /\ \/ \E w \in Workers : FiberStep(w) \/ WorkerStep(w)
          \/ OwnerStep
          \/ ClientStep
    \/ Over

Spec == Init /\ [][Next]_vars

(***************************************************************************)
(* Threads keep running: a worker in its loop or in a fiber, a spawn() or  *)
(* cancel_task() that was started, and the polling of wait_all() and       *)
(* stop().  A worker that tries again and again while the queue has a      *)
(* task succeeds in the end: a try_to_lock fails only while another thread *)
(* is in a critical section of a few instructions.  A function is not      *)
(* assumed to yield, only to go on; nobody has to spawn, cancel or stop.   *)
(***************************************************************************)
Fairness ==
    /\ \A w \in Workers :
         /\ WF_vars(~undefined_ /\ FiberStep(w))
         /\ WF_vars(~undefined_ /\ WorkerStep(w))
         /\ WF_vars(~undefined_ /\ StopSignal(w))
         /\ SF_vars(~undefined_ /\ StealGlobal(w))
    /\ \A t \in Tasks : WF_vars(~undefined_ /\ (SpawnPush(t) \/ SpawnMap(t)))
    /\ WF_vars(~undefined_ /\ CancelStore)
    /\ WF_vars(~undefined_ /\ WaitAllReturns)
    /\ WF_vars(~undefined_ /\ StopJoins)

FairSpec == Spec /\ Fairness

-----------------------------------------------------------------------------
(* Correctness                                                             *)

\* A task is in one place at a time: never twice in the queues, never on two
\* workers, never queued while it runs, whatever yields, steals and cancels
\* do.  (Two places would run one fiber stack on two threads.)
OnePlace ==
    /\ \A i, j \in DOMAIN global_queue_ : global_queue_[i] = global_queue_[j] => i = j
    /\ \A t \in Tasks :
         /\ spawning[t] \in {"none", "counted"} =>
               /\ ~InGlobal(t)
               /\ \A w \in Workers : ~InLocal(t, w) /\ ~OnWorker(t, w)
         /\ InGlobal(t) => \A w \in Workers : ~InLocal(t, w) /\ ~OnWorker(t, w)
         /\ \A w, v \in Workers :
              /\ InLocal(t, w) => ~OnWorker(t, v)
              /\ InLocal(t, w) /\ InLocal(t, v) => w = v
              /\ OnWorker(t, w) /\ OnWorker(t, v) => w = v

\* The counter wait_all() polls is the number of tasks in flight: raised
\* before a task can be seen by a worker, lowered once per task.
CountExact == active_tasks_ = Cardinality(InFlight)

\* wait_all() returns only when nothing is queued, running or being spawned,
\* tasks spawned by tasks included.
JoinedMeansDone == owner = "drained" => InFlight = {}

\* No task is lost: one that was queued and is nowhere any more has returned
\* from its function, or was cancelled.
NoTaskLost ==
    \A t \in Tasks :
        spawning[t] \in {"queued", "mapped"} /\ t \notin InFlight
            => fiber[t] = "returned" \/ cancelled_[t]

\* A task that may yield for ever is in the scheduler, and nobody has cancelled it.
Spinning == \E t \in Loopers \cap InFlight : ~cancelled_[t]

\* wait_all() returns once every function returns or is cancelled, although tasks
\* keep yielding, spawning others and being cancelled.
JoinTerminates == owner = "waiting" ~> owner # "waiting" \/ Spinning \/ undefined_

\* stop() ends: every worker leaves its loop even with tasks left in queues.
StopTerminates == owner = "stopping" ~> owner = "down" \/ undefined_

\* A cancelled task leaves the scheduler, also one that would yield for ever,
\* whichever store of cancel() the fiber and the worker saw first.  (One that is
\* still in the global queue may be kept there by another that yields for ever
\* and is not cancelled.)
CancelTakesEffect ==
    \A t \in Tasks :
        cancelled_[t] ~> \/ t \notin InFlight
                         \/ Spinning
                         \/ owner \in {"stopping", "down"} \/ undefined_
=============================================================================
