--------------------------- MODULE SchedulerProofs ---------------------------
(***************************************************************************)
(* Proofs of the safety invariants of TaskScheduler, for any finite sets   *)
(* of workers and tasks, any parents and any number of yields, and of the  *)
(* outcome of with_timeout() on top of it.                                 *)
(*                                                                         *)
(* The argument is about places.  A task that was spawned is in at most    *)
(* one of: the global queue, one position of one local queue, one worker.  *)
(* Every step moves at most one task from one place to another, so that    *)
(* the set of tasks in flight, which the counter counts, is known.         *)
(***************************************************************************)
EXTENDS WithTimeout, FiniteSetTheorems, SequenceTheorems, TLAPS

\* A worker that runs a task, or has just run one, has it in its loop variable.
HasTask ==
    \A w \in Workers : wpc[w] \in {"run", "after", "clear"} => current_task[w] \in Tasks

\* A task that is about to yield has a yield left.
YieldLeft ==
    \A t \in Tasks : fiber[t] = "yielding" => t \in Loopers \/ yields[t] < MaxYields

Distinct(q) == \A i, j \in DOMAIN q : q[i] = q[j] => i = j

\* No queue holds a task twice: a second copy would be dispatched while the
\* first runs.
QueuesDistinct == Distinct(global_queue_) /\ \A w \in Workers : Distinct(local_queue[w])

\* The second conjunct of OnePlace.
PlaceInv ==
    \A t \in Tasks :
         /\ spawning[t] \in {"none", "counted"} =>
               /\ ~InGlobal(t)
               /\ \A w \in Workers : ~InLocal(t, w) /\ ~OnWorker(t, w)
         /\ InGlobal(t) => \A w \in Workers : ~InLocal(t, w) /\ ~OnWorker(t, w)
         /\ \A w, v \in Workers :
              /\ InLocal(t, w) => ~OnWorker(t, v)
              /\ InLocal(t, w) /\ InLocal(t, v) => w = v
              /\ OnWorker(t, w) /\ OnWorker(t, v) => w = v

\* Whoever stores CANCELLED has stored cancelled_ before.
CancelMarked == cancelling # NoTask => cancelled_[cancelling]

\* What a worker finds after the switch back: the fiber has returned, or it has
\* yielded and is RUNNABLE unless a canceller overwrote that.
SwitchedBack ==
    \A w \in Workers : wpc[w] = "after" =>
        LET t == current_task[w] IN
        \/ fiber[t] = "returned"
        \/ state_[t] = "RUNNABLE"
        \/ cancelled_[t]

IInv ==
    /\ TypeOK /\ HasTask /\ YieldLeft
    /\ QueuesDistinct /\ PlaceInv
    /\ CountExact /\ JoinedMeansDone
    /\ CancelMarked /\ SwitchedBack /\ NoTaskLost

-----------------------------------------------------------------------------
(* Queues                                                                  *)

\* queue.push(t)
LEMMA Pushed ==
    ASSUME NEW q \in Seq(Tasks), NEW t \in Tasks
    PROVE  /\ Append(q, t) \in Seq(Tasks)
           /\ \A u : InSeq(u, Append(q, t)) <=> InSeq(u, q) \/ u = t
           /\ Distinct(q) /\ ~InSeq(t, q) => Distinct(Append(q, t))
  <1>1. /\ Append(q, t) \in Seq(Tasks) /\ Len(Append(q, t)) = Len(q) + 1
        /\ \A i \in 1..Len(q) : Append(q, t)[i] = q[i]
        /\ Append(q, t)[Len(q) + 1] = t
    OBVIOUS
  <1>2. DOMAIN q = 1..Len(q) /\ DOMAIN Append(q, t) = 1..(Len(q) + 1) /\ Len(q) \in Nat
    BY <1>1
  <1>3. ASSUME NEW u PROVE InSeq(u, Append(q, t)) <=> InSeq(u, q) \/ u = t
    BY <1>1, <1>2 DEF InSeq
  <1>4. ASSUME Distinct(q), ~InSeq(t, q) PROVE Distinct(Append(q, t))
    BY <1>1, <1>2, <1>4 DEF InSeq, Distinct
  <1> QED
    BY <1>1, <1>3, <1>4

\* queue.front(), queue.pop()
LEMMA Popped ==
    ASSUME NEW q \in Seq(Tasks), q # <<>>
    PROVE  /\ Head(q) \in Tasks /\ Tail(q) \in Seq(Tasks)
           /\ \A u : InSeq(u, q) <=> InSeq(u, Tail(q)) \/ u = Head(q)
           /\ Distinct(q) => Distinct(Tail(q)) /\ ~InSeq(Head(q), Tail(q))
  <1>1. /\ Tail(q) \in Seq(Tasks) /\ Len(Tail(q)) = Len(q) - 1 /\ Len(q) \in Nat \ {0}
        /\ \A i \in 1..(Len(q) - 1) : Tail(q)[i] = q[i + 1]
        /\ Head(q) = q[1] /\ Head(q) \in Tasks
    OBVIOUS
  <1>2. DOMAIN q = 1..Len(q) /\ DOMAIN Tail(q) = 1..(Len(q) - 1)
    BY <1>1
  <1>3. ASSUME NEW u PROVE InSeq(u, q) <=> InSeq(u, Tail(q)) \/ u = Head(q)
    <2>1. ASSUME NEW i \in DOMAIN q, q[i] = u PROVE InSeq(u, Tail(q)) \/ u = Head(q)
      <3>1. CASE i = 1
        BY <1>1, <2>1, <3>1
      <3>2. CASE i # 1
        <4>1. i - 1 \in DOMAIN Tail(q) /\ Tail(q)[i - 1] = u
          BY <1>1, <1>2, <2>1, <3>2
        <4> QED
          BY <4>1 DEF InSeq
      <3> QED
        BY <3>1, <3>2
    <2>2. ASSUME NEW i \in DOMAIN Tail(q), Tail(q)[i] = u PROVE InSeq(u, q)
      <3>1. i + 1 \in DOMAIN q /\ q[i + 1] = u
        BY <1>1, <1>2, <2>2
      <3> QED
        BY <3>1 DEF InSeq
    <2>3. InSeq(Head(q), q)
      BY <1>1, <1>2 DEF InSeq
    <2> QED
      BY <2>1, <2>2, <2>3 DEF InSeq
  <1>4. ASSUME Distinct(q) PROVE Distinct(Tail(q)) /\ ~InSeq(Head(q), Tail(q))
    BY <1>1, <1>2, <1>4 DEF InSeq, Distinct
  <1> QED
    BY <1>1, <1>3, <1>4

-----------------------------------------------------------------------------
(* The kinds of steps                                                      *)

\* The fiber of t ends on w.
FiberReturns(w, t) ==
    /\ wpc[w] = "run" /\ current_task[w] = t
    /\ \E s \in {"COMPLETED", "CANCELLED"} : ReturnToLink(w, t, s)

\* The fiber of t goes on.
FiberMoves(w, t) ==
    /\ wpc[w] = "run" /\ current_task[w] = t
    /\ \E l \in {"entered", "body", "yielding"} :
          /\ l = "yielding" => t \in Loopers \/ yields[t] < MaxYields
          /\ FiberGoto(t, l)
    /\ state_' = state_ \/ state_' = [state_ EXCEPT ![t] = "RUNNING"]

Looking == {"loop", "pop", "steal", "steal_local"}

\* w goes from one place where it looks for work to another, or stops.
Looks(w) ==
    /\ wpc[w] \in Looking
    /\ \E l \in Looking \cup {"stopped"} : WorkerGoto(w, l)
    /\ UNCHANGED queueVars

\* w takes the first task of the global queue.
TakeGlobal(w) ==
    /\ wpc[w] \in Looking /\ global_queue_ # <<>>
    /\ global_queue_' = Tail(global_queue_)
    /\ Dispatch(w, Head(global_queue_))
    /\ UNCHANGED local_queue

\* w takes the first task of the local queue of v.
TakeLocal(w, v) ==
    /\ wpc[w] \in Looking /\ local_queue[v] # <<>>
    /\ local_queue' = [local_queue EXCEPT ![v] = Tail(@)]
    /\ Dispatch(w, Head(local_queue[v]))
    /\ UNCHANGED global_queue_

RequeueStep(w) == AfterRun(w) /\ Yielded(current_task[w]) /\ Requeue(w) /\ UNCHANGED active_tasks_

CountOffStep(w) ==
    /\ AfterRun(w) /\ ~Yielded(current_task[w])
    /\ active_tasks_' = active_tasks_ - 1 /\ UNCHANGED local_queue

\* The main thread goes on; nothing but its place and the flags changes.
OwnerMoves ==
    /\ \E l \in OwnerPC :
          /\ OwnerGoto(l)
          /\ l = "drained" => ~(active_tasks_ > 0)
    /\ \/ UNCHANGED should_stop
       \/ \E w \in Workers : should_stop' = [should_stop EXCEPT ![w] = TRUE]

Kinds ==
    \/ \E t \in Tasks : SpawnCount(t) \/ SpawnPush(t) \/ SpawnMap(t) \/ CancelFind(t)
    \/ CancelStore
    \/ \E w \in Workers :
          \/ \E t \in Tasks : FiberReturns(w, t) \/ FiberMoves(w, t) \/ YieldSwitch(w, t)
          \/ Looks(w) \/ TakeGlobal(w) \/ \E v \in Workers : TakeLocal(w, v)
          \/ RequeueStep(w) \/ CountOffStep(w) \/ ClearCurrent(w)
    \/ OwnerMoves
    \/ UNCHANGED vars

\* Every step is of one of these kinds.
LEMMA StepKinds == [Next]_vars => Kinds
  <1> SUFFICES ASSUME [Next]_vars PROVE Kinds
    OBVIOUS
  <1>1. ASSUME NEW w \in Workers, FiberStep(w) PROVE Kinds
    <2>1. PICK t \in Tasks : \/ Invoke(w, t) \/ Begin(w, t) \/ Finish(w, t)
                             \/ YieldCheck(w, t) \/ YieldSwitch(w, t) \/ YieldResume(w, t)
      BY <1>1 DEF FiberStep
    <2>2. CASE Invoke(w, t)
      BY <2>2 DEF Invoke, IsCancelled, FiberAt, FiberReturns, FiberMoves, Kinds
    <2>3. CASE Begin(w, t)
      BY <2>3 DEF Begin, FiberAt, FiberMoves, Kinds
    <2>4. CASE Finish(w, t)
      BY <2>4 DEF Finish, FiberAt, FiberReturns, Kinds
    <2>5. CASE YieldCheck(w, t)
      BY <2>5 DEF YieldCheck, IsCancelled, FiberAt, FiberReturns, FiberMoves, Kinds
    <2>6. CASE YieldSwitch(w, t)
      BY <2>6 DEF Kinds
    <2>7. CASE YieldResume(w, t)
      BY <2>7 DEF YieldResume, IsCancelled, FiberAt, FiberReturns, FiberMoves, Kinds
    <2> QED
      BY <2>1, <2>2, <2>3, <2>4, <2>5, <2>6, <2>7
  <1>2. ASSUME NEW w \in Workers, WorkerStep(w) PROVE Kinds
    <2>1. CASE LoopTest(w) \/ StealGlobalFails(w) \/ StealFails(w)
      <3>1. Looks(w)
        BY <2>1 DEF LoopTest, StealGlobalFails, StealFails, Looks, Looking
      <3> QED
        BY <3>1 DEF Kinds
    <2>2. CASE PopLocal(w)
      <3>1. Looks(w) \/ TakeLocal(w, w)
        BY <2>2 DEF PopLocal, Looks, TakeLocal, Looking
      <3> QED
        BY <3>1 DEF Kinds
    <2>3. CASE StealGlobal(w)
      BY <2>3 DEF StealGlobal, TakeGlobal, Looking, Kinds
    <2>4. ASSUME NEW v \in Workers, StealLocal(w, v) PROVE Kinds
      BY <2>4 DEF StealLocal, TakeLocal, Looking, Kinds
    <2>5. CASE AfterRun(w)
      <3>1. RequeueStep(w) \/ CountOffStep(w)
        BY <2>5 DEF AfterRun, RequeueStep, CountOffStep
      <3> QED
        BY <3>1 DEF Kinds
    <2>6. CASE ClearCurrent(w)
      BY <2>6 DEF Kinds
    <2> QED
      BY <1>2, <2>1, <2>2, <2>3, <2>4, <2>5, <2>6 DEF WorkerStep
  <1>3. CASE OwnerStep
    <2>1. OwnerMoves
      BY <1>3 DEF OwnerStep, WaitAll, WaitAllReturns, JoinAllReturns, Stop, StopSignal, StopJoins,
                  OwnerMoves, OwnerPC
    <2> QED
      BY <2>1 DEF Kinds
  <1>4. CASE ClientStep
    BY <1>4 DEF ClientStep, Kinds
  <1> QED
    BY <1>1, <1>2, <1>3, <1>4 DEF Next, Over, Kinds

-----------------------------------------------------------------------------
(* Types                                                                   *)

\* TypeOK, with what it needs to be kept, by groups of variables.
QueueTypes == global_queue_ \in Seq(Tasks) /\ local_queue \in [Workers -> Seq(Tasks)]
WorkerTypes ==
    /\ current_task \in [Workers -> Tasks \cup {NoTask}] /\ HasTask
    /\ wpc \in [Workers -> WorkerPC] /\ should_stop \in [Workers -> BOOLEAN]
TaskTypes ==
    /\ state_ \in [Tasks -> TaskState] /\ cancelled_ \in [Tasks -> BOOLEAN]
    /\ fiber \in [Tasks -> FiberPC] /\ uc_link \in [Tasks -> Workers \cup {NoWorker}]
    /\ yields \in [Tasks -> 0..MaxYields] /\ YieldLeft
OwnerTypes ==
    /\ spawning \in [Tasks -> SpawnPC] /\ active_tasks_ \in Nat
    /\ active_task_map_ \subseteq Tasks /\ cancelling \in Tasks \cup {NoTask}
    /\ owner \in OwnerPC /\ undefined_ \in BOOLEAN

TypeInv == QueueTypes /\ WorkerTypes /\ TaskTypes /\ OwnerTypes

LEMMA TypeInvIs == TypeInv <=> TypeOK /\ HasTask /\ YieldLeft
  BY DEF TypeInv, TypeOK, QueueTypes, WorkerTypes, TaskTypes, OwnerTypes

LEMMA TypeInit == Init => TypeInv
  <1> SUFFICES ASSUME Init PROVE TypeInv
    OBVIOUS
  <1>1. QueueTypes
    BY DEF Init, QueueTypes
  <1>2. WorkerTypes
    BY DEF Init, WorkerTypes, HasTask, WorkerPC
  <1>3. TaskTypes
    <2>1. 0 \in 0..MaxYields
      BY MaxYieldsAssumption
    <2> QED
      BY <2>1 DEF Init, TaskTypes, YieldLeft, TaskState, FiberPC
  <1>4. OwnerTypes
    BY DEF Init, OwnerTypes, SpawnPC, OwnerPC
  <1> QED
    BY <1>1, <1>2, <1>3, <1>4 DEF TypeInv

LEMMA InFlightFinite == IsFiniteSet(InFlight)
  <1>1. InFlight \subseteq Tasks
    BY DEF InFlight
  <1> QED
    BY <1>1, TasksAssumption, FS_Subset

\* The dispatch of a task from a queue.
LEMMA DispatchTypes ==
    ASSUME TypeInv, NEW w \in Workers, NEW t \in Tasks, Dispatch(w, t)
    PROVE  WorkerTypes' /\ TaskTypes' /\ OwnerTypes'
  <1> USE DEF TypeInv
  <1>1. WorkerTypes'
    BY DEF Dispatch, WorkerTypes, HasTask, WorkerPC
  <1>2. TaskTypes'
    BY DEF Dispatch, TaskTypes, YieldLeft, FiberPC
  <1>3. OwnerTypes'
    BY DEF Dispatch, OwnerTypes, ownerVars
  <1> QED
    BY <1>1, <1>2, <1>3

\* Every step keeps the types.  The counter stays a natural number because the
\* task that is counted off is one of those it counts.
LEMMA TypeStep == TypeInv /\ CountExact /\ [Next]_vars => TypeInv'
  <1> SUFFICES ASSUME TypeInv, CountExact, Kinds PROVE TypeInv'
    BY StepKinds
  <1>0. QueueTypes /\ WorkerTypes /\ TaskTypes /\ OwnerTypes
    BY DEF TypeInv
  <1> USE DEF queueVars, workerVars, taskVars, ownerVars
  <1>1. ASSUME NEW t \in Tasks, SpawnCount(t) PROVE TypeInv'
    <2>1. OwnerTypes'
      BY <1>0, <1>1 DEF SpawnCount, OwnerTypes, SpawnPC
    <2> QED
      BY <1>0, <1>1, <2>1 DEF SpawnCount, TypeInv, QueueTypes, WorkerTypes, HasTask, TaskTypes, YieldLeft
  <1>2. ASSUME NEW t \in Tasks, SpawnPush(t) PROVE TypeInv'
    <2>1. OwnerTypes'
      BY <1>0, <1>2 DEF SpawnPush, OwnerTypes, SpawnPC
    <2>2. QueueTypes'
      BY <1>0, <1>2, Pushed DEF SpawnPush, QueueTypes
    <2> QED
      BY <1>0, <1>2, <2>1, <2>2 DEF SpawnPush, TypeInv, WorkerTypes, HasTask, TaskTypes, YieldLeft
  <1>3. ASSUME NEW t \in Tasks, SpawnMap(t) PROVE TypeInv'
    <2>1. OwnerTypes'
      BY <1>0, <1>3 DEF SpawnMap, OwnerTypes, SpawnPC
    <2> QED
      BY <1>0, <1>3, <2>1 DEF SpawnMap, TypeInv, QueueTypes, WorkerTypes, HasTask, TaskTypes, YieldLeft
  <1>4. ASSUME NEW t \in Tasks, CancelFind(t) PROVE TypeInv'
    <2>1. OwnerTypes'
      BY <1>0, <1>4 DEF CancelFind, OwnerTypes
    <2>2. TaskTypes'
      BY <1>0, <1>4 DEF CancelFind, TaskTypes, YieldLeft
    <2> QED
      BY <1>0, <1>4, <2>1, <2>2 DEF CancelFind, TypeInv, QueueTypes, WorkerTypes, HasTask
  <1>5. ASSUME CancelStore PROVE TypeInv'
    <2>1. OwnerTypes'
      BY <1>0, <1>5 DEF CancelStore, OwnerTypes
    <2>2. TaskTypes'
      BY <1>0, <1>5 DEF CancelStore, TaskTypes, YieldLeft, OwnerTypes, TaskState
    <2> QED
      BY <1>0, <1>5, <2>1, <2>2 DEF CancelStore, TypeInv, QueueTypes, WorkerTypes, HasTask
  <1>6. ASSUME NEW w \in Workers, NEW t \in Tasks, FiberReturns(w, t) PROVE TypeInv'
    <2>1. TaskTypes'
      BY <1>0, <1>6 DEF FiberReturns, ReturnToLink, TaskTypes, YieldLeft, TaskState, FiberPC
    <2>2. WorkerTypes'
      BY <1>0, <1>6 DEF FiberReturns, ReturnToLink, WorkerTypes, HasTask, WorkerPC
    <2> QED
      BY <1>0, <1>6, <2>1, <2>2 DEF FiberReturns, ReturnToLink, TypeInv, QueueTypes, OwnerTypes
  <1>7. ASSUME NEW w \in Workers, NEW t \in Tasks, FiberMoves(w, t) PROVE TypeInv'
    <2>1. TaskTypes'
      <3>1. state_' \in [Tasks -> TaskState]
        BY <1>0, <1>7 DEF FiberMoves, TaskTypes, TaskState
      <3>2. PICK l \in {"entered", "body", "yielding"} :
                   /\ l = "yielding" => t \in Loopers \/ yields[t] < MaxYields
                   /\ FiberGoto(t, l)
        BY <1>7 DEF FiberMoves
      <3>3. fiber' \in [Tasks -> FiberPC] /\ UNCHANGED <<cancelled_, uc_link, yields>>
        BY <1>0, <3>2 DEF FiberGoto, TaskTypes, FiberPC
      <3>4. YieldLeft'
        BY <1>0, <3>2 DEF FiberGoto, TaskTypes, YieldLeft
      <3> QED
        BY <1>0, <3>1, <3>3, <3>4 DEF TaskTypes
    <2> QED
      BY <1>0, <1>7, <2>1 DEF FiberMoves, FiberGoto, TypeInv, QueueTypes, WorkerTypes, HasTask, OwnerTypes
  <1>8. ASSUME NEW w \in Workers, NEW t \in Tasks, YieldSwitch(w, t) PROVE TypeInv'
    <2>1. TaskTypes'
      <3>1. yields' \in [Tasks -> 0..MaxYields]
        <4>1. yields[t] \in 0..MaxYields /\ (t \in Loopers \/ yields[t] + 1 \in 0..MaxYields)
          BY <1>0, <1>8, MaxYieldsAssumption DEF YieldSwitch, FiberAt, TaskTypes, YieldLeft
        <4> QED
          BY <1>0, <1>8, <4>1 DEF YieldSwitch, TaskTypes
      <3>2. YieldLeft'
        BY <1>0, <1>8 DEF YieldSwitch, FiberAt, TaskTypes, YieldLeft
      <3> QED
        BY <1>0, <1>8, <3>1, <3>2 DEF YieldSwitch, TaskTypes, TaskState, FiberPC
    <2>2. WorkerTypes'
      BY <1>0, <1>8 DEF YieldSwitch, FiberAt, WorkerTypes, HasTask, WorkerPC
    <2> QED
      BY <1>0, <1>8, <2>1, <2>2 DEF YieldSwitch, TypeInv, QueueTypes, OwnerTypes
  <1>9. ASSUME NEW w \in Workers, Looks(w) PROVE TypeInv'
    <2>1. WorkerTypes'
      BY <1>0, <1>9 DEF Looks, Looking, WorkerGoto, WorkerTypes, HasTask, WorkerPC
    <2> QED
      BY <1>0, <1>9, <2>1 DEF Looks, WorkerGoto, TypeInv, QueueTypes, TaskTypes, YieldLeft, OwnerTypes
  <1>10. ASSUME NEW w \in Workers, TakeGlobal(w) PROVE TypeInv'
    <2>1. Head(global_queue_) \in Tasks /\ QueueTypes'
      BY <1>0, <1>10, Popped DEF TakeGlobal, QueueTypes
    <2> QED
      BY <1>10, <2>1, DispatchTypes DEF TakeGlobal, TypeInv
  <1>11. ASSUME NEW w \in Workers, NEW v \in Workers, TakeLocal(w, v) PROVE TypeInv'
    <2>1. Head(local_queue[v]) \in Tasks /\ QueueTypes'
      BY <1>0, <1>11, Popped DEF TakeLocal, QueueTypes
    <2> QED
      BY <1>11, <2>1, DispatchTypes DEF TakeLocal, TypeInv
  <1>12. ASSUME NEW w \in Workers, AfterRun(w) PROVE TypeInv'
    <2>1. current_task[w] \in Tasks
      BY <1>0, <1>12 DEF AfterRun, WorkerTypes, HasTask
    <2>2. QueueTypes'
      <3>1. Append(local_queue[w], current_task[w]) \in Seq(Tasks)
        BY <1>0, <2>1, Pushed DEF QueueTypes
      <3> QED
        BY <1>0, <1>12, <3>1 DEF AfterRun, Requeue, QueueTypes
    <2>3. WorkerTypes'
      BY <1>0, <1>12 DEF AfterRun, WorkerTypes, HasTask, WorkerPC
    <2>4. active_tasks_ # 0
      <3>1. current_task[w] \in InFlight
        BY <1>12, <2>1 DEF AfterRun, InFlight, OnWorker
      <3> QED
        BY <3>1, InFlightFinite, FS_EmptySet DEF CountExact
    <2>5. OwnerTypes'
      <3>1. active_tasks_' \in Nat
        BY <1>0, <1>12, <2>4 DEF AfterRun, OwnerTypes
      <3> QED
        BY <1>0, <1>12, <3>1 DEF AfterRun, OwnerTypes
    <2> QED
      BY <1>0, <1>12, <2>2, <2>3, <2>5 DEF AfterRun, TypeInv, TaskTypes, YieldLeft
  <1>13. ASSUME NEW w \in Workers, ClearCurrent(w) PROVE TypeInv'
    <2>1. WorkerTypes'
      BY <1>0, <1>13 DEF ClearCurrent, WorkerTypes, HasTask, WorkerPC
    <2> QED
      BY <1>0, <1>13, <2>1 DEF ClearCurrent, TypeInv, QueueTypes, TaskTypes, YieldLeft, OwnerTypes
  <1>14. ASSUME OwnerMoves PROVE TypeInv'
    <2>1. WorkerTypes'
      BY <1>0, <1>14 DEF OwnerMoves, OwnerGoto, WorkerTypes, HasTask
    <2> QED
      BY <1>0, <1>14, <2>1 DEF OwnerMoves, OwnerGoto, TypeInv, QueueTypes, TaskTypes, YieldLeft, OwnerTypes
  <1>15. ASSUME UNCHANGED vars PROVE TypeInv'
    BY <1>0, <1>15 DEF vars, TypeInv, QueueTypes, WorkerTypes, HasTask, TaskTypes, YieldLeft, OwnerTypes
  <1> QED
    BY <1>1, <1>2, <1>3, <1>4, <1>5, <1>6, <1>7, <1>8, <1>9, <1>10, <1>11, <1>12, <1>13, <1>14, <1>15
    DEF Kinds, RequeueStep, CountOffStep

-----------------------------------------------------------------------------
(* Places: what each kind of step does to them                             *)

\* The step moves no task.
Stay ==
    \A u \in Tasks :
        /\ InGlobal(u)' <=> InGlobal(u)
        /\ \A v \in Workers : /\ InLocal(u, v)' <=> InLocal(u, v)
                              /\ OnWorker(u, v)' <=> OnWorker(u, v)

\* Task t enters the global queue.
EntersGlobal(t) ==
    \A u \in Tasks :
        /\ InGlobal(u)' <=> InGlobal(u) \/ u = t
        /\ \A v \in Workers : /\ InLocal(u, v)' <=> InLocal(u, v)
                              /\ OnWorker(u, v)' <=> OnWorker(u, v)

\* Task t goes from the global queue to worker w.
GlobalToWorker(t, w) ==
    \A u \in Tasks :
        /\ InGlobal(u)' <=> InGlobal(u) /\ u # t
        /\ \A v \in Workers : /\ InLocal(u, v)' <=> InLocal(u, v)
                              /\ OnWorker(u, v)' <=> OnWorker(u, v) \/ (u = t /\ v = w)

\* Task t goes from the local queue of x to worker w.
LocalToWorker(t, x, w) ==
    \A u \in Tasks :
        /\ InGlobal(u)' <=> InGlobal(u)
        /\ \A v \in Workers : /\ InLocal(u, v)' <=> InLocal(u, v) /\ ~(u = t /\ v = x)
                              /\ OnWorker(u, v)' <=> OnWorker(u, v) \/ (u = t /\ v = w)

\* Task t goes from worker w to its local queue.
WorkerToLocal(t, w) ==
    \A u \in Tasks :
        /\ InGlobal(u)' <=> InGlobal(u)
        /\ \A v \in Workers : /\ InLocal(u, v)' <=> InLocal(u, v) \/ (u = t /\ v = w)
                              /\ OnWorker(u, v)' <=> OnWorker(u, v) /\ ~(u = t /\ v = w)

\* Task t leaves worker w for good.
LeavesWorker(t, w) ==
    \A u \in Tasks :
        /\ InGlobal(u)' <=> InGlobal(u)
        /\ \A v \in Workers : /\ InLocal(u, v)' <=> InLocal(u, v)
                              /\ OnWorker(u, v)' <=> OnWorker(u, v) /\ ~(u = t /\ v = w)

LEMMA QueuesStay ==
    ASSUME UNCHANGED queueVars
    PROVE  \A u \in Tasks : /\ InGlobal(u)' <=> InGlobal(u)
                            /\ \A v \in Workers : InLocal(u, v)' <=> InLocal(u, v)
  BY DEF queueVars, InGlobal, InLocal, InSeq

LEMMA StaySteps ==
    ASSUME TypeInv,
           \/ \E t \in Tasks : SpawnCount(t) \/ SpawnMap(t) \/ CancelFind(t)
           \/ CancelStore
           \/ \E w \in Workers, t \in Tasks : FiberReturns(w, t) \/ FiberMoves(w, t) \/ YieldSwitch(w, t)
           \/ \E w \in Workers : Looks(w) \/ ClearCurrent(w)
           \/ OwnerMoves
           \/ UNCHANGED vars
    PROVE  Stay /\ UNCHANGED queueVars
  <1> USE DEF queueVars, workerVars
  <1>1. ASSUME UNCHANGED <<queueVars, current_task, wpc>> PROVE Stay
    BY <1>1, QueuesStay DEF Stay, OnWorker
  <1>2. ASSUME NEW t \in Tasks, SpawnCount(t) \/ SpawnMap(t) \/ CancelFind(t)
        PROVE  Stay /\ UNCHANGED queueVars
    BY <1>1, <1>2 DEF SpawnCount, SpawnMap, CancelFind
  <1>3. ASSUME CancelStore PROVE Stay /\ UNCHANGED queueVars
    BY <1>1, <1>3 DEF CancelStore
  <1>4. ASSUME NEW w \in Workers, NEW t \in Tasks, FiberReturns(w, t) PROVE Stay /\ UNCHANGED queueVars
    <2>1. UNCHANGED queueVars
      BY <1>4 DEF FiberReturns, ReturnToLink
    <2>2. \A u \in Tasks, v \in Workers : OnWorker(u, v)' <=> OnWorker(u, v)
      BY <1>4 DEF FiberReturns, ReturnToLink, OnWorker, TypeInv, WorkerTypes
    <2> QED
      BY <2>1, <2>2, QueuesStay DEF Stay
  <1>5. ASSUME NEW w \in Workers, NEW t \in Tasks, FiberMoves(w, t) PROVE Stay /\ UNCHANGED queueVars
    BY <1>1, <1>5 DEF FiberMoves, FiberGoto
  <1>6. ASSUME NEW w \in Workers, NEW t \in Tasks, YieldSwitch(w, t) PROVE Stay /\ UNCHANGED queueVars
    <2>1. UNCHANGED queueVars
      BY <1>6 DEF YieldSwitch
    <2>2. \A u \in Tasks, v \in Workers : OnWorker(u, v)' <=> OnWorker(u, v)
      BY <1>6 DEF YieldSwitch, FiberAt, OnWorker, TypeInv, WorkerTypes
    <2> QED
      BY <2>1, <2>2, QueuesStay DEF Stay
  <1>7. ASSUME NEW w \in Workers, Looks(w) PROVE Stay /\ UNCHANGED queueVars
    <2>1. UNCHANGED queueVars
      BY <1>7 DEF Looks
    <2>2. \A u \in Tasks, v \in Workers : OnWorker(u, v)' <=> OnWorker(u, v)
      BY <1>7 DEF Looks, Looking, WorkerGoto, OnWorker, TypeInv, WorkerTypes
    <2> QED
      BY <2>1, <2>2, QueuesStay DEF Stay
  <1>8. ASSUME NEW w \in Workers, ClearCurrent(w) PROVE Stay /\ UNCHANGED queueVars
    <2>1. UNCHANGED queueVars
      BY <1>8 DEF ClearCurrent
    <2>2. \A u \in Tasks, v \in Workers : OnWorker(u, v)' <=> OnWorker(u, v)
      BY <1>8 DEF ClearCurrent, OnWorker, TypeInv, WorkerTypes
    <2> QED
      BY <2>1, <2>2, QueuesStay DEF Stay
  <1>9. ASSUME OwnerMoves PROVE Stay /\ UNCHANGED queueVars
    BY <1>1, <1>9 DEF OwnerMoves, OwnerGoto
  <1>10. ASSUME UNCHANGED vars PROVE Stay /\ UNCHANGED queueVars
    BY <1>1, <1>10 DEF vars
  <1> QED
    BY <1>2, <1>3, <1>4, <1>5, <1>6, <1>7, <1>8, <1>9, <1>10

LEMMA PushMoves ==
    ASSUME TypeInv, NEW t \in Tasks, SpawnPush(t)
    PROVE  EntersGlobal(t)
  <1>1. \A u \in Tasks : InGlobal(u)' <=> InGlobal(u) \/ u = t
    BY Pushed DEF SpawnPush, TypeInv, QueueTypes, InGlobal
  <1>2. \A u \in Tasks, v \in Workers : /\ InLocal(u, v)' <=> InLocal(u, v)
                                        /\ OnWorker(u, v)' <=> OnWorker(u, v)
    BY DEF SpawnPush, workerVars, InLocal, InSeq, OnWorker
  <1> QED
    BY <1>1, <1>2 DEF EntersGlobal

\* A dispatch puts the task on the worker, which had none.
LEMMA DispatchMoves ==
    ASSUME TypeInv, NEW w \in Workers, NEW t \in Tasks, Dispatch(w, t), wpc[w] \in Looking
    PROVE  \A u \in Tasks, v \in Workers : OnWorker(u, v)' <=> OnWorker(u, v) \/ (u = t /\ v = w)
  BY DEF Dispatch, Looking, OnWorker, TypeInv, WorkerTypes

LEMMA TakeGlobalMoves ==
    ASSUME TypeInv, QueuesDistinct, NEW w \in Workers, TakeGlobal(w)
    PROVE  /\ Head(global_queue_) \in Tasks /\ InGlobal(Head(global_queue_))
           /\ GlobalToWorker(Head(global_queue_), w)
  <1> DEFINE t == Head(global_queue_)
  <1>1. /\ t \in Tasks /\ InGlobal(t)
        /\ \A u : InGlobal(u) <=> InSeq(u, Tail(global_queue_)) \/ u = t
        /\ ~InSeq(t, Tail(global_queue_))
    BY Popped DEF TakeGlobal, TypeInv, QueueTypes, QueuesDistinct, InGlobal
  <1>2. \A u \in Tasks : InGlobal(u)' <=> InGlobal(u) /\ u # t
    BY <1>1 DEF TakeGlobal, InGlobal
  <1>3. \A u \in Tasks, v \in Workers : InLocal(u, v)' <=> InLocal(u, v)
    BY DEF TakeGlobal, InLocal, InSeq
  <1>4. \A u \in Tasks, v \in Workers : OnWorker(u, v)' <=> OnWorker(u, v) \/ (u = t /\ v = w)
    BY <1>1, DispatchMoves DEF TakeGlobal
  <1> QED
    BY <1>1, <1>2, <1>3, <1>4 DEF GlobalToWorker

LEMMA TakeLocalMoves ==
    ASSUME TypeInv, QueuesDistinct, NEW w \in Workers, NEW x \in Workers, TakeLocal(w, x)
    PROVE  /\ Head(local_queue[x]) \in Tasks /\ InLocal(Head(local_queue[x]), x)
           /\ LocalToWorker(Head(local_queue[x]), x, w)
  <1> DEFINE t == Head(local_queue[x])
  <1>1. /\ t \in Tasks /\ InLocal(t, x)
        /\ \A u : InLocal(u, x) <=> InSeq(u, Tail(local_queue[x])) \/ u = t
        /\ ~InSeq(t, Tail(local_queue[x]))
    BY Popped DEF TakeLocal, TypeInv, QueueTypes, QueuesDistinct, InLocal
  <1>2. \A u \in Tasks, v \in Workers : InLocal(u, v)' <=> InLocal(u, v) /\ ~(u = t /\ v = x)
    <2> SUFFICES ASSUME NEW u \in Tasks, NEW v \in Workers
                 PROVE  InLocal(u, v)' <=> InLocal(u, v) /\ ~(u = t /\ v = x)
      OBVIOUS
    <2>1. local_queue'[v] = IF v = x THEN Tail(local_queue[x]) ELSE local_queue[v]
      BY DEF TakeLocal, TypeInv, QueueTypes
    <2> QED
      BY <1>1, <2>1 DEF InLocal
  <1>3. \A u \in Tasks : InGlobal(u)' <=> InGlobal(u)
    BY DEF TakeLocal, InGlobal, InSeq
  <1>4. \A u \in Tasks, v \in Workers : OnWorker(u, v)' <=> OnWorker(u, v) \/ (u = t /\ v = w)
    BY <1>1, DispatchMoves DEF TakeLocal
  <1> QED
    BY <1>1, <1>2, <1>3, <1>4 DEF LocalToWorker

LEMMA AfterRunMoves ==
    ASSUME TypeInv, NEW w \in Workers, AfterRun(w)
    PROVE  /\ current_task[w] \in Tasks /\ OnWorker(current_task[w], w)
           /\ RequeueStep(w) => WorkerToLocal(current_task[w], w)
           /\ CountOffStep(w) => LeavesWorker(current_task[w], w)
  <1> DEFINE t == current_task[w]
  <1>1. t \in Tasks /\ OnWorker(t, w)
    BY DEF AfterRun, TypeInv, WorkerTypes, HasTask, OnWorker
  <1>2. \A u \in Tasks, v \in Workers : OnWorker(u, v)' <=> OnWorker(u, v) /\ ~(u = t /\ v = w)
    BY DEF AfterRun, OnWorker, TypeInv, WorkerTypes
  <1>3. \A u \in Tasks : InGlobal(u)' <=> InGlobal(u)
    BY DEF AfterRun, InGlobal, InSeq
  <1>4. ASSUME RequeueStep(w)
        PROVE  \A u \in Tasks, v \in Workers : InLocal(u, v)' <=> InLocal(u, v) \/ (u = t /\ v = w)
    <2> SUFFICES ASSUME NEW u \in Tasks, NEW v \in Workers
                 PROVE  InLocal(u, v)' <=> InLocal(u, v) \/ (u = t /\ v = w)
      OBVIOUS
    <2>1. local_queue'[v] = IF v = w THEN Append(local_queue[w], t) ELSE local_queue[v]
      BY <1>4 DEF RequeueStep, Requeue, TypeInv, QueueTypes
    <2>2. local_queue[w] \in Seq(Tasks)
      BY DEF TypeInv, QueueTypes
    <2>3. InSeq(u, Append(local_queue[w], t)) <=> InSeq(u, local_queue[w]) \/ u = t
      BY <1>1, <2>2, Pushed
    <2> QED
      BY <2>1, <2>3 DEF InLocal
  <1>5. ASSUME CountOffStep(w) PROVE \A u \in Tasks, v \in Workers : InLocal(u, v)' <=> InLocal(u, v)
    BY <1>5 DEF CountOffStep, InLocal, InSeq
  <1> QED
    BY <1>1, <1>2, <1>3, <1>4, <1>5 DEF WorkerToLocal, LeavesWorker

-----------------------------------------------------------------------------
(* One place                                                               *)

LEMMA DistinctStep == TypeInv /\ QueuesDistinct /\ PlaceInv /\ [Next]_vars => QueuesDistinct'
  <1> SUFFICES ASSUME TypeInv, QueuesDistinct, PlaceInv, Kinds PROVE QueuesDistinct'
    BY StepKinds
  <1>0. global_queue_ \in Seq(Tasks) /\ local_queue \in [Workers -> Seq(Tasks)]
    BY DEF TypeInv, QueueTypes
  <1>1. ASSUME NEW t \in Tasks, SpawnPush(t) PROVE QueuesDistinct'
    <2>1. ~InSeq(t, global_queue_)
      BY <1>1 DEF SpawnPush, PlaceInv, InGlobal
    <2> QED
      BY <1>0, <1>1, <2>1, Pushed DEF SpawnPush, QueuesDistinct, Distinct
  <1>2. ASSUME NEW w \in Workers, TakeGlobal(w) PROVE QueuesDistinct'
    <2>1. Distinct(Tail(global_queue_))
      BY <1>0, <1>2, Popped DEF TakeGlobal, QueuesDistinct
    <2> QED
      BY <1>2, <2>1 DEF TakeGlobal, QueuesDistinct, Distinct
  <1>3. ASSUME NEW w \in Workers, NEW x \in Workers, TakeLocal(w, x) PROVE QueuesDistinct'
    <2>1. Distinct(Tail(local_queue[x]))
      BY <1>0, <1>3, Popped DEF TakeLocal, QueuesDistinct
    <2>2. \A v \in Workers : local_queue'[v] = IF v = x THEN Tail(local_queue[x]) ELSE local_queue[v]
      BY <1>0, <1>3 DEF TakeLocal
    <2>3. UNCHANGED global_queue_
      BY <1>3 DEF TakeLocal
    <2> QED
      BY <2>1, <2>2, <2>3 DEF QueuesDistinct, Distinct
  <1>4. ASSUME NEW w \in Workers, RequeueStep(w) PROVE QueuesDistinct'
    <2> DEFINE t == current_task[w]
    <2>1. t \in Tasks /\ OnWorker(t, w)
      BY <1>4, AfterRunMoves DEF RequeueStep
    <2>2. ~InSeq(t, local_queue[w])
      BY <2>1 DEF PlaceInv, InLocal
    <2>3. Distinct(Append(local_queue[w], t))
      BY <1>0, <2>1, <2>2, Pushed DEF QueuesDistinct
    <2>4. \A v \in Workers : local_queue'[v] = IF v = w THEN Append(local_queue[w], t) ELSE local_queue[v]
      BY <1>0, <1>4 DEF RequeueStep, Requeue
    <2>5. UNCHANGED global_queue_
      BY <1>4 DEF RequeueStep, AfterRun
    <2> QED
      BY <2>3, <2>4, <2>5 DEF QueuesDistinct, Distinct
  <1>5. ASSUME NEW w \in Workers, CountOffStep(w) PROVE QueuesDistinct'
    BY <1>5 DEF CountOffStep, AfterRun, QueuesDistinct, Distinct
  <1>6. ASSUME UNCHANGED queueVars PROVE QueuesDistinct'
    BY <1>6 DEF queueVars, QueuesDistinct, Distinct
  <1> QED
    BY <1>1, <1>2, <1>3, <1>4, <1>5, <1>6, StaySteps DEF Kinds

\* What a step does to the spawn() calls in progress.
LEMMA SpawningSteps ==
    ASSUME TypeInv, Kinds
    PROVE  \/ UNCHANGED spawning
           \/ \E t \in Tasks : \/ SpawnCount(t) \/ SpawnPush(t) \/ SpawnMap(t)
  BY DEF Kinds, CancelFind, CancelStore, FiberReturns, ReturnToLink, FiberMoves, FiberGoto, YieldSwitch,
         Looks, WorkerGoto, TakeGlobal, TakeLocal, Dispatch, RequeueStep, CountOffStep, AfterRun,
         ClearCurrent, OwnerMoves, OwnerGoto, ownerVars, vars

\* Every step leaves each task in one place at most.
LEMMA PlaceStep == TypeInv /\ QueuesDistinct /\ PlaceInv /\ [Next]_vars => PlaceInv'
  <1> SUFFICES ASSUME TypeInv, QueuesDistinct, PlaceInv, Kinds PROVE PlaceInv'
    BY StepKinds
  <1>0. spawning \in [Tasks -> SpawnPC]
    BY DEF TypeInv, OwnerTypes
  <1>1. ASSUME Stay, \A u \in Tasks : spawning'[u] \in {"none", "counted"} => spawning[u] \in {"none", "counted"}
        PROVE  PlaceInv'
    BY <1>1 DEF Stay, PlaceInv
  <1>2. ASSUME Stay, UNCHANGED spawning PROVE PlaceInv'
    BY <1>1, <1>2
  <1>3. ASSUME NEW t \in Tasks, SpawnCount(t) \/ SpawnMap(t) PROVE PlaceInv'
    <2>1. \A u \in Tasks : spawning'[u] \in {"none", "counted"} => spawning[u] \in {"none", "counted"}
      BY <1>0, <1>3 DEF SpawnCount, SpawnMap
    <2> QED
      BY <1>1, <1>3, <2>1, StaySteps
  <1>4. ASSUME NEW t \in Tasks, SpawnPush(t) PROVE PlaceInv'
    <2>1. /\ spawning[t] = "counted" /\ spawning'[t] = "queued"
          /\ \A u \in Tasks : u # t => spawning'[u] = spawning[u]
      BY <1>0, <1>4 DEF SpawnPush
    <2>2. EntersGlobal(t)
      BY <1>4, PushMoves
    <2> QED
      BY <2>1, <2>2 DEF EntersGlobal, PlaceInv
  <1>5. ASSUME NEW w \in Workers, TakeGlobal(w) PROVE PlaceInv'
    <2>1. UNCHANGED spawning
      BY <1>5 DEF TakeGlobal, Dispatch, ownerVars
    <2>2. PICK t \in Tasks : InGlobal(t) /\ GlobalToWorker(t, w)
      BY <1>5, TakeGlobalMoves
    <2> QED
      BY <2>1, <2>2 DEF GlobalToWorker, PlaceInv
  <1>6. ASSUME NEW w \in Workers, NEW x \in Workers, TakeLocal(w, x) PROVE PlaceInv'
    <2>1. UNCHANGED spawning
      BY <1>6 DEF TakeLocal, Dispatch, ownerVars
    <2>2. PICK t \in Tasks : InLocal(t, x) /\ LocalToWorker(t, x, w)
      BY <1>6, TakeLocalMoves
    <2> QED
      BY <2>1, <2>2 DEF LocalToWorker, PlaceInv
  <1>7. ASSUME NEW w \in Workers, RequeueStep(w) PROVE PlaceInv'
    <2>1. UNCHANGED spawning
      BY <1>7 DEF RequeueStep, AfterRun
    <2>2. PICK t \in Tasks : OnWorker(t, w) /\ WorkerToLocal(t, w)
      BY <1>7, AfterRunMoves DEF RequeueStep
    <2> QED
      BY <2>1, <2>2 DEF WorkerToLocal, PlaceInv
  <1>8. ASSUME NEW w \in Workers, CountOffStep(w) PROVE PlaceInv'
    <2>1. UNCHANGED spawning
      BY <1>8 DEF CountOffStep, AfterRun
    <2>2. PICK t \in Tasks : OnWorker(t, w) /\ LeavesWorker(t, w)
      BY <1>8, AfterRunMoves DEF CountOffStep
    <2> QED
      BY <2>1, <2>2 DEF LeavesWorker, PlaceInv
  <1> QED
    BY <1>2, <1>3, <1>4, <1>5, <1>6, <1>7, <1>8, StaySteps, SpawningSteps DEF Kinds

LEMMA PlaceInit == Init => QueuesDistinct /\ PlaceInv
  BY DEF Init, QueuesDistinct, Distinct, PlaceInv, InGlobal, InLocal, InSeq, OnWorker

-----------------------------------------------------------------------------
(* The counter                                                             *)

\* A step counts a task in when its spawn() begins, counts the task of a worker
\* off, or leaves both the counter and the tasks in flight as they are.
LEMMA FlightSteps ==
    ASSUME TypeInv, QueuesDistinct, PlaceInv, Kinds
    PROVE  \/ \E t \in Tasks : /\ SpawnCount(t)
                               /\ t \notin InFlight /\ InFlight' = InFlight \cup {t}
                               /\ active_tasks_' = active_tasks_ + 1
           \/ \E w \in Workers : /\ CountOffStep(w) /\ current_task[w] \in InFlight
                                 /\ InFlight' = InFlight \ {current_task[w]}
                                 /\ active_tasks_' = active_tasks_ - 1
           \/ InFlight' = InFlight /\ UNCHANGED active_tasks_
  <1> DEFINE Counted == InFlight' = InFlight /\ UNCHANGED active_tasks_
  <1>0. spawning \in [Tasks -> SpawnPC]
    BY DEF TypeInv, OwnerTypes
  <1>1. ASSUME NEW t \in Tasks, SpawnCount(t)
        PROVE  /\ t \notin InFlight /\ InFlight' = InFlight \cup {t}
               /\ active_tasks_' = active_tasks_ + 1
    <2>1. Stay /\ spawning[t] = "none" /\ \A u \in Tasks : spawning'[u] = IF u = t THEN "counted" ELSE spawning[u]
      BY <1>0, <1>1, StaySteps DEF SpawnCount
    <2>2. t \notin InFlight
      BY <2>1 DEF PlaceInv, InFlight
    <2>3. InFlight' = InFlight \cup {t}
      BY <2>1 DEF Stay, InFlight
    <2> QED
      BY <1>1, <2>2, <2>3 DEF SpawnCount
  <1>2. ASSUME NEW t \in Tasks, SpawnPush(t) PROVE Counted
    <2>1. /\ spawning[t] = "counted" /\ spawning'[t] = "queued"
          /\ \A u \in Tasks : u # t => spawning'[u] = spawning[u]
      BY <1>0, <1>2 DEF SpawnPush
    <2>2. EntersGlobal(t)
      BY <1>2, PushMoves
    <2>3. InFlight' = InFlight
      BY <2>1, <2>2 DEF EntersGlobal, InFlight
    <2> QED
      BY <1>2, <2>3 DEF SpawnPush
  <1>3. ASSUME NEW t \in Tasks, SpawnMap(t) PROVE Counted
    <2>1. Stay /\ \A u \in Tasks : spawning'[u] = "counted" <=> spawning[u] = "counted"
      BY <1>0, <1>3, StaySteps DEF SpawnMap
    <2>2. InFlight' = InFlight
      BY <2>1 DEF Stay, InFlight
    <2> QED
      BY <1>3, <2>2 DEF SpawnMap
  <1>4. ASSUME Stay, UNCHANGED <<spawning, active_tasks_>> PROVE Counted
    BY <1>4 DEF Stay, InFlight
  <1>5. ASSUME NEW w \in Workers, TakeGlobal(w) PROVE Counted
    <2>1. UNCHANGED <<spawning, active_tasks_>>
      BY <1>5 DEF TakeGlobal, Dispatch, ownerVars
    <2>2. PICK t \in Tasks : InGlobal(t) /\ GlobalToWorker(t, w)
      BY <1>5, TakeGlobalMoves
    <2> QED
      BY <2>1, <2>2 DEF GlobalToWorker, InFlight
  <1>6. ASSUME NEW w \in Workers, NEW x \in Workers, TakeLocal(w, x) PROVE Counted
    <2>1. UNCHANGED <<spawning, active_tasks_>>
      BY <1>6 DEF TakeLocal, Dispatch, ownerVars
    <2>2. PICK t \in Tasks : InLocal(t, x) /\ LocalToWorker(t, x, w)
      BY <1>6, TakeLocalMoves
    <2> QED
      BY <2>1, <2>2 DEF LocalToWorker, InFlight
  <1>7. ASSUME NEW w \in Workers, RequeueStep(w) PROVE Counted
    <2>1. UNCHANGED <<spawning, active_tasks_>>
      BY <1>7 DEF RequeueStep, AfterRun
    <2>2. PICK t \in Tasks : OnWorker(t, w) /\ WorkerToLocal(t, w)
      BY <1>7, AfterRunMoves DEF RequeueStep
    <2> QED
      BY <2>1, <2>2 DEF WorkerToLocal, InFlight
  <1>8. ASSUME NEW w \in Workers, CountOffStep(w)
        PROVE  /\ current_task[w] \in InFlight /\ InFlight' = InFlight \ {current_task[w]}
               /\ active_tasks_' = active_tasks_ - 1
    <2> DEFINE t == current_task[w]
    <2>1. UNCHANGED spawning /\ active_tasks_' = active_tasks_ - 1
      BY <1>8 DEF CountOffStep, AfterRun
    <2>2. t \in Tasks /\ OnWorker(t, w) /\ LeavesWorker(t, w)
      BY <1>8, AfterRunMoves DEF CountOffStep
    <2>3. /\ spawning[t] # "counted" /\ ~InGlobal(t)
          /\ \A v \in Workers : ~InLocal(t, v) /\ (OnWorker(t, v) => v = w)
      BY <2>2 DEF PlaceInv
    <2>4. t \in InFlight
      BY <2>2 DEF InFlight
    <2>5. InFlight' = InFlight \ {t}
      BY <2>1, <2>2, <2>3 DEF LeavesWorker, InFlight
    <2> QED
      BY <2>1, <2>4, <2>5
  <1>9. ASSUME NEW t \in Tasks, CancelFind(t) PROVE Counted
    BY <1>4, <1>9, StaySteps DEF CancelFind
  <1>10. ASSUME CancelStore PROVE Counted
    BY <1>4, <1>10, StaySteps DEF CancelStore
  <1>11. ASSUME NEW w \in Workers, NEW t \in Tasks,
                FiberReturns(w, t) \/ FiberMoves(w, t) \/ YieldSwitch(w, t)
         PROVE  Counted
    <2>1. UNCHANGED <<spawning, active_tasks_>>
      BY <1>11 DEF FiberReturns, ReturnToLink, FiberMoves, FiberGoto, YieldSwitch, ownerVars
    <2> QED
      BY <1>4, <1>11, <2>1, StaySteps
  <1>12. ASSUME NEW w \in Workers, Looks(w) \/ ClearCurrent(w) PROVE Counted
    <2>1. UNCHANGED <<spawning, active_tasks_>>
      BY <1>12 DEF Looks, WorkerGoto, ClearCurrent, ownerVars
    <2> QED
      BY <1>4, <1>12, <2>1, StaySteps
  <1>13. ASSUME OwnerMoves PROVE Counted
    BY <1>4, <1>13, StaySteps DEF OwnerMoves, OwnerGoto
  <1>14. ASSUME UNCHANGED vars PROVE Counted
    BY <1>4, <1>14, StaySteps DEF vars
  <1> QED
    BY <1>1, <1>2, <1>3, <1>5, <1>6, <1>7, <1>8, <1>9, <1>10, <1>11, <1>12, <1>13, <1>14 DEF Kinds

LEMMA CountInit == Init => CountExact /\ JoinedMeansDone
  <1> SUFFICES ASSUME Init PROVE CountExact /\ JoinedMeansDone
    OBVIOUS
  <1>1. InFlight = {}
    BY DEF Init, InFlight, InGlobal, InLocal, InSeq, OnWorker
  <1> QED
    BY <1>1, FS_EmptySet DEF Init, CountExact, JoinedMeansDone

LEMMA CountStep ==
    TypeInv /\ QueuesDistinct /\ PlaceInv /\ CountExact /\ [Next]_vars => CountExact'
  <1> SUFFICES ASSUME TypeInv, QueuesDistinct, PlaceInv, CountExact, Kinds PROVE CountExact'
    BY StepKinds
  <1>0. active_tasks_ = Cardinality(InFlight) /\ IsFiniteSet(InFlight)
    BY InFlightFinite DEF CountExact
  <1>1. ASSUME NEW t \in Tasks, t \notin InFlight, InFlight' = InFlight \cup {t},
               active_tasks_' = active_tasks_ + 1
        PROVE  CountExact'
    BY <1>0, <1>1, FS_AddElement DEF CountExact
  <1>2. ASSUME NEW t, t \in InFlight, InFlight' = InFlight \ {t}, active_tasks_' = active_tasks_ - 1
        PROVE  CountExact'
    BY <1>0, <1>2, FS_RemoveElement DEF CountExact
  <1>3. ASSUME InFlight' = InFlight, UNCHANGED active_tasks_ PROVE CountExact'
    BY <1>0, <1>3 DEF CountExact
  <1> QED
    BY <1>1, <1>2, <1>3, FlightSteps

\* Once nothing is in flight nothing comes back: a spawn() is called by the main
\* thread, which is in wait_all(), or by a task that runs.
LEMMA JoinedStep ==
    TypeInv /\ QueuesDistinct /\ PlaceInv /\ CountExact /\ JoinedMeansDone /\ [Next]_vars
        => JoinedMeansDone'
  <1> SUFFICES ASSUME TypeInv, QueuesDistinct, PlaceInv, CountExact, JoinedMeansDone, Kinds,
                      owner' = "drained"
               PROVE  InFlight' = {}
    BY StepKinds DEF JoinedMeansDone
  <1>1. CASE owner = "drained"
    <2>1. InFlight = {}
      BY <1>1 DEF JoinedMeansDone
    <2>2. ASSUME NEW t \in Tasks, SpawnCount(t) PROVE FALSE
      <3>1. InBody(Parent[t]) /\ Parent[t] \in Tasks \cup {Main}
        BY <2>2, ParentAssumption DEF SpawnCount
      <3>2. Parent[t] \in Tasks /\ \E w \in Workers : OnWorker(Parent[t], w)
        BY <1>1, <3>1 DEF InBody, OnWorker
      <3> QED
        BY <2>1, <3>2 DEF InFlight
    <2> QED
      BY <2>1, <2>2, FlightSteps
  <1>2. CASE owner # "drained"
    <2>1. OwnerMoves /\ ~(active_tasks_ > 0)
      BY <1>2 DEF Kinds, SpawnCount, SpawnPush, SpawnMap, CancelFind, CancelStore, FiberReturns,
         ReturnToLink, FiberMoves, FiberGoto, YieldSwitch, Looks, WorkerGoto, TakeGlobal, TakeLocal,
         Dispatch, RequeueStep, CountOffStep, AfterRun, ClearCurrent, OwnerMoves, OwnerGoto, ownerVars, vars
    <2>2. active_tasks_ = 0
      BY <2>1 DEF TypeInv, OwnerTypes
    <2>3. InFlight = {}
      BY <2>2, InFlightFinite, FS_EmptySet DEF CountExact
    <2>4. Stay /\ UNCHANGED spawning
      BY <2>1, StaySteps DEF OwnerMoves, OwnerGoto
    <2> QED
      BY <2>3, <2>4 DEF Stay, InFlight
  <1> QED
    BY <1>1, <1>2

-----------------------------------------------------------------------------
(* No task is lost                                                         *)

LEMMA CancelMarkedStep == TypeInv /\ CancelMarked /\ [Next]_vars => CancelMarked'
  <1> SUFFICES ASSUME TypeInv, CancelMarked, Kinds PROVE CancelMarked'
    BY StepKinds
  <1> USE DEF CancelMarked, taskVars, ownerVars
  <1>1. ASSUME NEW t \in Tasks, CancelFind(t) PROVE CancelMarked'
    BY <1>1, TasksAssumption DEF CancelFind, TypeInv, TaskTypes, OwnerTypes
  <1>2. ASSUME CancelStore PROVE CancelMarked'
    BY <1>2 DEF CancelStore
  <1>3. ASSUME UNCHANGED <<cancelled_, cancelling>> PROVE CancelMarked'
    BY <1>3
  <1> QED
    BY <1>1, <1>2, <1>3
    DEF Kinds, SpawnCount, SpawnPush, SpawnMap, FiberReturns, ReturnToLink, FiberMoves, FiberGoto,
        YieldSwitch, Looks, WorkerGoto, TakeGlobal, TakeLocal, Dispatch, RequeueStep, CountOffStep,
        AfterRun, ClearCurrent, OwnerMoves, OwnerGoto, vars

\* Who may change the fiber or the state of a task: the worker that runs it, the
\* one that takes it from a queue, and a canceller, whose mark is there before.
LEMMA TaskFrame ==
    ASSUME TypeInv, QueuesDistinct, CancelMarked, Kinds, NEW u \in Tasks
    PROVE  /\ cancelled_[u] => cancelled_'[u]
           /\ \/ fiber'[u] = fiber[u] /\ (state_'[u] = state_[u] \/ cancelled_[u])
              \/ \E v \in Workers : wpc[v] = "run" /\ current_task[v] = u
              \/ InGlobal(u)
              \/ \E v \in Workers : InLocal(u, v)
  <1> DEFINE Frame == /\ cancelled_[u] => cancelled_'[u]
                      /\ \/ fiber'[u] = fiber[u] /\ (state_'[u] = state_[u] \/ cancelled_[u])
                         \/ \E v \in Workers : wpc[v] = "run" /\ current_task[v] = u
                         \/ InGlobal(u)
                         \/ \E v \in Workers : InLocal(u, v)
  <1>0. TaskTypes
    BY DEF TypeInv
  <1>1. ASSUME UNCHANGED <<state_, cancelled_, fiber>> PROVE Frame
    BY <1>1
  <1>2. ASSUME NEW t \in Tasks, CancelFind(t) PROVE Frame
    BY <1>0, <1>2 DEF CancelFind, TaskTypes
  <1>3. ASSUME CancelStore PROVE Frame
    <2>1. cancelling \in Tasks /\ cancelled_[cancelling]
      BY <1>3 DEF CancelStore, CancelMarked, TypeInv, OwnerTypes
    <2> QED
      BY <1>0, <1>3, <2>1 DEF CancelStore, TaskTypes
  <1>4. ASSUME NEW w \in Workers, NEW t \in Tasks,
               FiberReturns(w, t) \/ FiberMoves(w, t) \/ YieldSwitch(w, t)
        PROVE  Frame
    <2>1. wpc[w] = "run" /\ current_task[w] = t /\ UNCHANGED cancelled_
      BY <1>4 DEF FiberReturns, ReturnToLink, FiberMoves, FiberGoto, YieldSwitch, FiberAt
    <2>2. CASE u # t
      <3>1. fiber'[u] = fiber[u]
        BY <1>0, <1>4, <2>2 DEF FiberReturns, ReturnToLink, FiberMoves, FiberGoto, YieldSwitch, TaskTypes
      <3>2. state_'[u] = state_[u]
        BY <1>0, <1>4, <2>2 DEF FiberReturns, ReturnToLink, FiberMoves, FiberGoto, YieldSwitch, TaskTypes
      <3> QED
        BY <2>1, <3>1, <3>2
    <2> QED
      BY <2>1, <2>2
  <1>5. ASSUME NEW w \in Workers, NEW t \in Tasks, Dispatch(w, t),
               InGlobal(t) \/ \E x \in Workers : InLocal(t, x)
        PROVE  Frame
    <2>1. u # t => fiber'[u] = fiber[u]
      BY <1>0, <1>5 DEF Dispatch, TaskTypes
    <2> QED
      BY <1>5, <2>1 DEF Dispatch
  <1>6. ASSUME NEW w \in Workers, TakeGlobal(w) PROVE Frame
    BY <1>5, <1>6, TakeGlobalMoves DEF TakeGlobal
  <1>7. ASSUME NEW w \in Workers, NEW x \in Workers, TakeLocal(w, x) PROVE Frame
    BY <1>5, <1>7, TakeLocalMoves DEF TakeLocal
  <1> QED
    BY <1>1, <1>2, <1>3, <1>4, <1>6, <1>7
    DEF Kinds, SpawnCount, SpawnPush, SpawnMap, Looks, WorkerGoto, RequeueStep, CountOffStep,
        AfterRun, ClearCurrent, OwnerMoves, OwnerGoto, taskVars, vars

\* A worker comes to "after" by a return or a yield of the fiber it runs, and
\* keeps its task until it leaves.
LEMMA WorkerFrame ==
    ASSUME TypeInv, Kinds, NEW w \in Workers, wpc'[w] = "after"
    PROVE  /\ current_task'[w] = current_task[w]
           /\ \/ wpc[w] = "after"
              \/ wpc[w] = "run" /\ \E t \in Tasks : FiberReturns(w, t) \/ YieldSwitch(w, t)
  <1> DEFINE Frame == /\ current_task'[w] = current_task[w]
                      /\ \/ wpc[w] = "after"
                         \/ wpc[w] = "run" /\ \E t \in Tasks : FiberReturns(w, t) \/ YieldSwitch(w, t)
  <1>0. WorkerTypes
    BY DEF TypeInv
  <1> USE DEF workerVars
  <1>1. ASSUME UNCHANGED <<wpc, current_task>> PROVE Frame
    BY <1>1
  <1>2. ASSUME NEW v \in Workers, NEW t \in Tasks, FiberReturns(v, t) PROVE Frame
    BY <1>0, <1>2 DEF FiberReturns, ReturnToLink, WorkerTypes
  <1>3. ASSUME NEW v \in Workers, NEW t \in Tasks, YieldSwitch(v, t) PROVE Frame
    BY <1>0, <1>3 DEF YieldSwitch, FiberAt, WorkerTypes
  <1>4. ASSUME NEW v \in Workers, Looks(v) PROVE Frame
    BY <1>0, <1>4 DEF Looks, Looking, WorkerGoto, WorkerTypes
  <1>5. ASSUME NEW v \in Workers, NEW t, Dispatch(v, t) PROVE Frame
    BY <1>0, <1>5 DEF Dispatch, WorkerTypes
  <1>6. ASSUME NEW v \in Workers, AfterRun(v) PROVE Frame
    BY <1>0, <1>6 DEF AfterRun, WorkerTypes
  <1>7. ASSUME NEW v \in Workers, ClearCurrent(v) PROVE Frame
    BY <1>0, <1>7 DEF ClearCurrent, WorkerTypes
  <1> QED
    BY <1>1, <1>2, <1>3, <1>4, <1>5, <1>6, <1>7
    DEF Kinds, SpawnCount, SpawnPush, SpawnMap, CancelFind, CancelStore, FiberMoves, FiberGoto,
        TakeGlobal, TakeLocal, RequeueStep, CountOffStep, OwnerMoves, OwnerGoto, vars

\* The task a worker has just switched back from is on that worker only: nobody
\* but a canceller touches it before the worker looks at its state.
LEMMA SwitchedBackStep ==
    TypeInv /\ QueuesDistinct /\ PlaceInv /\ CancelMarked /\ SwitchedBack /\ [Next]_vars
        => SwitchedBack'
  <1> SUFFICES ASSUME TypeInv, QueuesDistinct, PlaceInv, CancelMarked, SwitchedBack, Kinds,
                      NEW w \in Workers, wpc'[w] = "after"
               PROVE  \/ fiber'[current_task'[w]] = "returned"
                      \/ state_'[current_task'[w]] = "RUNNABLE"
                      \/ cancelled_'[current_task'[w]]
    BY StepKinds DEF SwitchedBack
  <1> DEFINE u == current_task[w]
  <1>1. current_task'[w] = u
    BY WorkerFrame
  <1>2. CASE wpc[w] = "after"
    <2>1. u \in Tasks /\ OnWorker(u, w)
      BY <1>2 DEF TypeInv, WorkerTypes, HasTask, OnWorker
    <2>2. /\ ~InGlobal(u) /\ \A v \in Workers : ~InLocal(u, v)
          /\ \A v \in Workers : wpc[v] = "run" /\ current_task[v] = u => FALSE
      BY <1>2, <2>1 DEF PlaceInv, OnWorker
    <2>3. /\ cancelled_[u] => cancelled_'[u]
          /\ fiber'[u] = fiber[u] /\ (state_'[u] = state_[u] \/ cancelled_[u])
      BY <2>1, <2>2, TaskFrame
    <2>4. fiber[u] = "returned" \/ state_[u] = "RUNNABLE" \/ cancelled_[u]
      BY <1>2 DEF SwitchedBack
    <2> QED
      BY <1>1, <2>3, <2>4
  <1>3. CASE wpc[w] = "run" /\ \E t \in Tasks : FiberReturns(w, t) \/ YieldSwitch(w, t)
    <2>1. PICK t \in Tasks : FiberReturns(w, t) \/ YieldSwitch(w, t)
      BY <1>3
    <2>2. u = t /\ TaskTypes
      BY <2>1 DEF FiberReturns, YieldSwitch, FiberAt, TypeInv
    <2>3. fiber'[t] = "returned" \/ state_'[t] = "RUNNABLE"
      BY <2>1, <2>2 DEF FiberReturns, ReturnToLink, YieldSwitch, TaskTypes
    <2> QED
      BY <1>1, <2>2, <2>3
  <1> QED
    BY <1>2, <1>3, WorkerFrame

\* A task leaves for good only when its worker finds it neither RUNNABLE nor
\* marked, that is, returned.
LEMMA LostStep ==
    TypeInv /\ QueuesDistinct /\ PlaceInv /\ CancelMarked /\ SwitchedBack /\ NoTaskLost /\ [Next]_vars
        => NoTaskLost'
  <1> SUFFICES ASSUME TypeInv, QueuesDistinct, PlaceInv, CancelMarked, SwitchedBack, NoTaskLost, Kinds,
                      NEW t \in Tasks, spawning'[t] \in {"queued", "mapped"}, t \notin InFlight'
               PROVE  fiber'[t] = "returned" \/ cancelled_'[t]
    BY StepKinds DEF NoTaskLost
  <1>1. CASE t \in InFlight
    <2>1. PICK w \in Workers : CountOffStep(w) /\ current_task[w] = t
      BY <1>1, FlightSteps
    <2>2. wpc[w] = "after" /\ state_[t] # "RUNNABLE" /\ UNCHANGED <<fiber, cancelled_>>
      BY <2>1 DEF CountOffStep, AfterRun, Yielded, taskVars
    <2> QED
      BY <2>1, <2>2 DEF SwitchedBack
  <1>2. CASE t \notin InFlight
    <2>1. spawning[t] \in {"queued", "mapped"}
      <3>1. spawning[t] # "counted"
        BY <1>2 DEF InFlight
      <3> QED
        BY <3>1, SpawningSteps DEF SpawnCount, SpawnPush, SpawnMap, TypeInv, OwnerTypes
    <2>2. /\ ~InGlobal(t) /\ \A v \in Workers : ~InLocal(t, v)
          /\ \A v \in Workers : wpc[v] = "run" /\ current_task[v] = t => FALSE
      BY <1>2 DEF InFlight, OnWorker
    <2>3. fiber'[t] = fiber[t] /\ (cancelled_[t] => cancelled_'[t])
      BY <2>2, TaskFrame
    <2> QED
      BY <1>2, <2>1, <2>3 DEF NoTaskLost
  <1> QED
    BY <1>1, <1>2

-----------------------------------------------------------------------------

LEMMA Inductive == Spec => []IInv
  <1>1. Init => IInv
    <2>1. Init => CancelMarked /\ SwitchedBack /\ NoTaskLost
      BY DEF Init, CancelMarked, SwitchedBack, NoTaskLost
    <2> QED
      BY <2>1, TypeInit, TypeInvIs, PlaceInit, CountInit DEF IInv
  <1>2. IInv /\ [Next]_vars => IInv'
    <2> SUFFICES ASSUME IInv, [Next]_vars PROVE IInv'
      OBVIOUS
    <2>1. /\ TypeInv /\ QueuesDistinct /\ PlaceInv /\ CountExact /\ JoinedMeansDone
          /\ CancelMarked /\ SwitchedBack /\ NoTaskLost
      BY TypeInvIs DEF IInv
    <2>2. TypeInv'
      BY <2>1, TypeStep
    <2>3. TypeOK' /\ HasTask' /\ YieldLeft'
      BY <2>2 DEF TypeInv, TypeOK, QueueTypes, WorkerTypes, TaskTypes, OwnerTypes
    <2> QED
      BY <2>1, <2>3, DistinctStep, PlaceStep, CountStep, JoinedStep, CancelMarkedStep,
         SwitchedBackStep, LostStep DEF IInv
  <1> QED
    BY <1>1, <1>2, PTL DEF Spec

\* Every step of workers, fibers, spawners, cancellers and the main thread keeps
\* the types of the scheduler's state; active_tasks_ never wraps below zero.
THEOREM SchedulerTypeCorrect == Spec => []TypeOK
  BY Inductive, PTL DEF IInv

\* No task is ever in two places, so that no fiber stack runs on two threads,
\* for any number of workers that steal from each other.
THEOREM SchedulerOnePlace == Spec => []OnePlace
  <1>1. IInv => OnePlace
    BY DEF IInv, QueuesDistinct, Distinct, PlaceInv, OnePlace
  <1> QED
    BY <1>1, Inductive, PTL

\* active_tasks_ is the number of tasks in flight, at every step.
THEOREM SchedulerCountExact == Spec => []CountExact
  BY Inductive, PTL DEF IInv

\* wait_all() returns only when nothing is in flight.
THEOREM SchedulerJoinedMeansDone == Spec => []JoinedMeansDone
  BY Inductive, PTL DEF IInv

\* A task that has left the scheduler has returned or was cancelled, whichever of
\* the unsynchronised stores to state_ came last.
THEOREM SchedulerNoTaskLost == Spec => []NoTaskLost
  BY Inductive, PTL DEF IInv

-----------------------------------------------------------------------------
(* Contexts                                                                *)

\* The fiber of t is where the queues and workers take it to be: one that waits
\* in the global queue was never entered, one in a local queue was left by a
\* yield, one on a worker that runs it is inside, and one that a worker has left
\* was left by a yield or has returned for good and is not RUNNABLE.
Fits(t) ==
    /\ spawning[t] \in {"none", "counted"} \/ InGlobal(t) => fiber[t] = "new"
    /\ \A w \in Workers :
         /\ InLocal(t, w) => fiber[t] = "suspended"
         /\ current_task[w] = t /\ wpc[w] = "run" => fiber[t] \notin {"suspended", "returned"}
         /\ current_task[w] = t /\ wpc[w] = "after" =>
              fiber[t] = "suspended" \/ (fiber[t] = "returned" /\ state_[t] # "RUNNABLE")

FibersFit == ~undefined_ => \A t \in Tasks : Fits(t)

\* A step that leaves a task, its places and its fiber alone.
LEMMA FitsStays ==
    ASSUME NEW u \in Tasks, Fits(u), fiber'[u] = fiber[u],
           state_'[u] = state_[u] \/ state_'[u] = "CANCELLED",
           spawning'[u] \in {"none", "counted"} => spawning[u] \in {"none", "counted"},
           InGlobal(u)' => InGlobal(u),
           \A v \in Workers : InLocal(u, v)' => InLocal(u, v),
           \A v \in Workers : \/ current_task'[v] = current_task[v] /\ wpc'[v] = wpc[v]
                              \/ ~(current_task'[v] = u /\ wpc'[v] \in {"run", "after"})
    PROVE  Fits(u)'
  BY DEF Fits

\* A task on a worker is nowhere else.
LEMMA OnlyThere ==
    ASSUME PlaceInv, NEW u \in Tasks, NEW w \in Workers, OnWorker(u, w)
    PROVE  /\ spawning[u] \notin {"none", "counted"} /\ ~InGlobal(u)
           /\ \A v \in Workers : ~InLocal(u, v) /\ (v # w => ~OnWorker(u, v))
  BY DEF PlaceInv

\* A fiber returns, goes on or yields on its worker.
LEMMA FiberFits ==
    ASSUME TypeInv, PlaceInv, Kinds, NEW w \in Workers, NEW t \in Tasks, ~undefined_',
           FiberReturns(w, t) \/ FiberMoves(w, t) \/ YieldSwitch(w, t),
           NEW u \in Tasks, Fits(u)
    PROVE  Fits(u)'
  <1>0. TaskTypes /\ WorkerTypes
    BY DEF TypeInv
  <1>1. Stay /\ wpc[w] = "run" /\ current_task[w] = t
    BY StaySteps DEF FiberReturns, FiberMoves, YieldSwitch, FiberAt
  <1>2. UNCHANGED <<spawning, current_task>>
    BY DEF FiberReturns, ReturnToLink, FiberMoves, FiberGoto, YieldSwitch, ownerVars, workerVars
  <1>3. \A v \in Workers : v # w => wpc'[v] = wpc[v]
    BY <1>0 DEF FiberReturns, ReturnToLink, FiberMoves, FiberGoto, YieldSwitch, workerVars, WorkerTypes
  <1>4. CASE u # t
    <2>1. fiber'[u] = fiber[u]
      BY <1>0, <1>4 DEF FiberReturns, ReturnToLink, FiberMoves, FiberGoto, YieldSwitch, TaskTypes
    <2>2. state_'[u] = state_[u]
      BY <1>0, <1>4 DEF FiberReturns, ReturnToLink, FiberMoves, FiberGoto, YieldSwitch, TaskTypes
    <2>3. \A v \in Workers : \/ current_task'[v] = current_task[v] /\ wpc'[v] = wpc[v]
                             \/ ~(current_task'[v] = u /\ wpc'[v] \in {"run", "after"})
      BY <1>1, <1>2, <1>3, <1>4
    <2> QED
      BY <1>1, <1>2, <2>1, <2>2, <2>3, FitsStays DEF Stay
  <1>5. CASE u = t
    <2>1. OnWorker(u, w)
      BY <1>1, <1>5 DEF OnWorker
    <2>2. /\ spawning'[u] \notin {"none", "counted"} /\ ~InGlobal(u)'
          /\ \A v \in Workers : ~InLocal(u, v)'
      BY <1>1, <1>2, <2>1, OnlyThere DEF Stay
    <2>3. \A v \in Workers : v # w => ~(current_task'[v] = u /\ wpc'[v] \in {"run", "after"})
      BY <1>2, <1>3, <2>1, OnlyThere DEF OnWorker
    <2>4. CASE FiberReturns(w, t)
      <3>1. fiber'[u] = "returned" /\ state_'[u] # "RUNNABLE" /\ wpc'[w] = "after"
        BY <1>0, <1>5, <2>4 DEF FiberReturns, ReturnToLink, TaskTypes, WorkerTypes, TypeInv, OwnerTypes
      <3> QED
        BY <2>2, <2>3, <3>1 DEF Fits
    <2>5. CASE FiberMoves(w, t)
      <3>1. fiber'[u] \in {"entered", "body", "yielding"} /\ wpc'[w] = "run"
        BY <1>0, <1>1, <1>5, <2>5 DEF FiberMoves, FiberGoto, workerVars, TaskTypes
      <3> QED
        BY <2>2, <2>3, <3>1 DEF Fits
    <2>6. CASE YieldSwitch(w, t)
      <3>1. fiber'[u] = "suspended" /\ wpc'[w] = "after"
        BY <1>0, <1>5, <2>6 DEF YieldSwitch, TaskTypes, WorkerTypes
      <3> QED
        BY <2>2, <2>3, <3>1 DEF Fits
    <2> QED
      BY <2>4, <2>5, <2>6
  <1> QED
    BY <1>4, <1>5

\* A worker takes a task from a queue: a new one, or one that has yielded.
LEMMA DispatchFits ==
    ASSUME TypeInv, NEW w \in Workers, NEW t \in Tasks, Dispatch(w, t), wpc[w] \in Looking,
           fiber[t] \in {"new", "suspended"},
           NEW u \in Tasks, Fits(u),
           InGlobal(u)' => InGlobal(u) /\ u # t,
           \A v \in Workers : InLocal(u, v)' => InLocal(u, v) /\ u # t,
           spawning[t] \notin {"none", "counted"},
           \A v \in Workers : ~OnWorker(t, v)
    PROVE  Fits(u)'
  <1>0. TaskTypes /\ WorkerTypes
    BY DEF TypeInv
  <1>1. /\ UNCHANGED <<spawning, state_>>
        /\ \A v \in Workers : v # w => current_task'[v] = current_task[v] /\ wpc'[v] = wpc[v]
        /\ current_task'[w] = t /\ wpc'[w] = "run"
    BY <1>0 DEF Dispatch, WorkerTypes, ownerVars
  <1>2. CASE u # t
    <2>1. fiber'[u] = fiber[u]
      BY <1>0, <1>2 DEF Dispatch, TaskTypes
    <2> QED
      BY <1>1, <1>2, <2>1, FitsStays
  <1>3. CASE u = t
    <2>1. fiber'[u] \in {"new", "resumed"}
      BY <1>0, <1>3 DEF Dispatch, TaskTypes
    <2>2. \A v \in Workers : v # w => ~(current_task'[v] = u /\ wpc'[v] \in {"run", "after"})
      BY <1>1, <1>3 DEF OnWorker
    <2> QED
      BY <1>1, <1>3, <2>1, <2>2 DEF Fits
  <1> QED
    BY <1>2, <1>3

LEMMA FitStep ==
    TypeInv /\ QueuesDistinct /\ PlaceInv /\ FibersFit /\ [Next]_vars => FibersFit'
  <1> SUFFICES ASSUME TypeInv, QueuesDistinct, PlaceInv, FibersFit, Kinds, ~undefined_', NEW u \in Tasks
               PROVE  Fits(u)'
    BY StepKinds DEF FibersFit
  <1>0. TaskTypes /\ WorkerTypes /\ OwnerTypes
    BY DEF TypeInv
  <1>f. ~undefined_
    BY DEF Kinds, SpawnCount, SpawnPush, SpawnMap, CancelFind, CancelStore, FiberReturns, ReturnToLink,
           FiberMoves, FiberGoto, YieldSwitch, Looks, WorkerGoto, TakeGlobal, TakeLocal, Dispatch,
           RequeueStep, CountOffStep, AfterRun, ClearCurrent, OwnerMoves, OwnerGoto, vars
  <1>u. \A t \in Tasks : Fits(t)
    BY <1>f DEF FibersFit
  <1>1. ASSUME Stay, UNCHANGED <<fiber, current_task, wpc>>,
               state_'[u] = state_[u] \/ state_'[u] = "CANCELLED",
               spawning'[u] \in {"none", "counted"} => spawning[u] \in {"none", "counted"}
        PROVE  Fits(u)'
    BY <1>1, <1>u, FitsStays DEF Stay
  <1>2. ASSUME NEW t \in Tasks, SpawnCount(t) \/ SpawnMap(t) PROVE Fits(u)'
    <2>1. spawning'[u] \in {"none", "counted"} => spawning[u] \in {"none", "counted"}
      BY <1>0, <1>2 DEF SpawnCount, SpawnMap, OwnerTypes
    <2>2. UNCHANGED <<fiber, current_task, wpc, state_>>
      BY <1>2 DEF SpawnCount, SpawnMap, workerVars, taskVars
    <2> QED
      BY <1>1, <1>2, <2>1, <2>2, StaySteps
  <1>3. ASSUME NEW t \in Tasks, SpawnPush(t) PROVE Fits(u)'
    <2>1. UNCHANGED <<fiber, current_task, wpc, state_>>
      BY <1>3 DEF SpawnPush, workerVars, taskVars
    <2>2. EntersGlobal(t) /\ fiber[t] = "new"
      BY <1>3, <1>u, PushMoves DEF SpawnPush, Fits
    <2>3. spawning'[u] \in {"none", "counted"} => spawning[u] \in {"none", "counted"}
      BY <1>0, <1>3 DEF SpawnPush, OwnerTypes
    <2> QED
      BY <1>u, <2>1, <2>2, <2>3 DEF Fits, EntersGlobal
  <1>4. ASSUME NEW t \in Tasks, CancelFind(t) PROVE Fits(u)'
    <2>1. UNCHANGED <<fiber, current_task, wpc, state_, spawning>>
      BY <1>4 DEF CancelFind, workerVars
    <2> QED
      BY <1>1, <1>4, <2>1, StaySteps
  <1>5. ASSUME CancelStore PROVE Fits(u)'
    <2>1. UNCHANGED <<fiber, current_task, wpc, spawning>> /\ (state_'[u] = state_[u] \/ state_'[u] = "CANCELLED")
      BY <1>0, <1>5 DEF CancelStore, workerVars, TaskTypes
    <2> QED
      BY <1>1, <1>5, <2>1, StaySteps
  <1>6. ASSUME NEW w \in Workers, NEW t \in Tasks,
               FiberReturns(w, t) \/ FiberMoves(w, t) \/ YieldSwitch(w, t)
        PROVE  Fits(u)'
    BY <1>6, <1>u, FiberFits
  <1>7. ASSUME NEW w \in Workers, Looks(w) \/ ClearCurrent(w) PROVE Fits(u)'
    <2>1. /\ UNCHANGED <<fiber, state_, spawning>>
          /\ \A v \in Workers : \/ current_task'[v] = current_task[v] /\ wpc'[v] = wpc[v]
                                \/ wpc'[v] \notin {"run", "after"}
      BY <1>0, <1>7 DEF Looks, Looking, WorkerGoto, ClearCurrent, taskVars, ownerVars, WorkerTypes
    <2> QED
      BY <1>7, <1>u, <2>1, StaySteps, FitsStays DEF Stay
  <1>8. ASSUME NEW w \in Workers, TakeGlobal(w) PROVE Fits(u)'
    <2> DEFINE t == Head(global_queue_)
    <2>1. t \in Tasks /\ InGlobal(t) /\ GlobalToWorker(t, w)
      BY <1>8, TakeGlobalMoves
    <2>2. /\ fiber[t] = "new" /\ spawning[t] \notin {"none", "counted"}
          /\ \A v \in Workers : ~OnWorker(t, v) /\ ~InLocal(t, v)
      BY <1>u, <2>1 DEF Fits, PlaceInv
    <2>3. Dispatch(w, t) /\ wpc[w] \in Looking
      BY <1>8 DEF TakeGlobal
    <2> HIDE DEF t
    <2> QED
      BY <1>u, <2>1, <2>2, <2>3, DispatchFits DEF GlobalToWorker
  <1>9. ASSUME NEW w \in Workers, NEW x \in Workers, TakeLocal(w, x) PROVE Fits(u)'
    <2> DEFINE t == Head(local_queue[x])
    <2>1. t \in Tasks /\ InLocal(t, x) /\ LocalToWorker(t, x, w)
      BY <1>9, TakeLocalMoves
    <2>2. /\ fiber[t] = "suspended" /\ spawning[t] \notin {"none", "counted"} /\ ~InGlobal(t)
          /\ \A v \in Workers : ~OnWorker(t, v) /\ (v # x => ~InLocal(t, v))
      BY <1>u, <2>1 DEF Fits, PlaceInv
    <2>3. Dispatch(w, t) /\ wpc[w] \in Looking
      BY <1>9 DEF TakeLocal
    <2> HIDE DEF t
    <2> QED
      BY <1>u, <2>1, <2>2, <2>3, DispatchFits DEF LocalToWorker
  <1>10. ASSUME NEW w \in Workers, RequeueStep(w) \/ CountOffStep(w) PROVE Fits(u)'
    <2> DEFINE t == current_task[w]
    <2>1. AfterRun(w) /\ t \in Tasks /\ OnWorker(t, w) /\ wpc[w] = "after"
      BY <1>10, AfterRunMoves DEF RequeueStep, CountOffStep, AfterRun
    <2>2. /\ UNCHANGED <<fiber, state_, spawning, current_task>> /\ wpc'[w] = "clear"
          /\ \A v \in Workers : v # w => wpc'[v] = wpc[v]
      BY <1>0, <2>1 DEF AfterRun, taskVars, WorkerTypes
    <2>3. InGlobal(u)' => InGlobal(u)
      BY <1>10, <2>1, AfterRunMoves DEF WorkerToLocal, LeavesWorker
    <2>4. CASE ~(RequeueStep(w) /\ u = t)
      <3>1. \A v \in Workers : InLocal(u, v)' => InLocal(u, v)
        BY <1>10, <2>1, <2>4, AfterRunMoves DEF WorkerToLocal, LeavesWorker
      <3> QED
        BY <1>u, <2>2, <2>3, <3>1, FitsStays
    <2>5. CASE RequeueStep(w) /\ u = t
      <3>1. fiber[u] = "suspended"
        BY <1>u, <2>1, <2>5 DEF RequeueStep, Yielded, Fits
      <3>2. spawning[u] \notin {"none", "counted"} /\ ~InGlobal(u) /\ \A v \in Workers : v # w => ~OnWorker(u, v)
        BY <2>1, <2>5, OnlyThere
      <3> QED
        BY <2>2, <2>3, <3>1, <3>2 DEF Fits, OnWorker
    <2> QED
      BY <2>4, <2>5
  <1>11. ASSUME OwnerMoves \/ UNCHANGED vars PROVE Fits(u)'
    <2>1. UNCHANGED <<fiber, state_, spawning, current_task, wpc>>
      BY <1>11 DEF OwnerMoves, OwnerGoto, taskVars, workerVars, ownerVars, vars
    <2> QED
      BY <1>1, <1>11, <2>1, StaySteps
  <1> QED
    BY <1>2, <1>3, <1>4, <1>5, <1>6, <1>7, <1>8, <1>9, <1>10, <1>11 DEF Kinds

\* swapcontext() of worker_loop() enters a fiber that was never entered, or one
\* that a yield has left: never a stack that is in use, and never one whose
\* function has returned, although a canceller may store to state_, on which
\* the worker decides, at any time.
THEOREM SchedulerFibersFit == Spec => []FibersFit
  <1>1. Init => FibersFit
    BY DEF Init, FibersFit, Fits, InGlobal, InLocal, InSeq
  <1>2. IInv /\ FibersFit /\ [Next]_vars => FibersFit'
    <2>1. IInv => TypeInv /\ QueuesDistinct /\ PlaceInv
      BY TypeInvIs DEF IInv
    <2> QED
      BY <2>1, FitStep
  <1> QED
    BY <1>1, <1>2, Inductive, PTL DEF Spec

\* What a fiber returns to is set when it is first entered.
LinkSet == \A w \in Workers : wpc[w] = "run" => uc_link[current_task[w]] \in Workers

LEMMA LinkStep == TypeInv /\ LinkSet /\ [Next]_vars => LinkSet'
  <1> SUFFICES ASSUME TypeInv, LinkSet, Kinds PROVE LinkSet'
    BY StepKinds
  <1>0. TaskTypes /\ WorkerTypes /\ HasTask
    BY DEF TypeInv, WorkerTypes
  <1>1. ASSUME UNCHANGED <<uc_link, current_task>>, \A v \in Workers : wpc'[v] = "run" => wpc[v] = "run"
        PROVE  LinkSet'
    BY <1>1 DEF LinkSet
  <1>2. ASSUME UNCHANGED <<uc_link, current_task, wpc>> PROVE LinkSet'
    BY <1>2 DEF LinkSet
  <1>3. ASSUME NEW w \in Workers, NEW t \in Tasks, Dispatch(w, t) PROVE LinkSet'
    <2>1. /\ \A v \in Workers : v # w => current_task'[v] = current_task[v] /\ wpc'[v] = wpc[v]
          /\ current_task'[w] = t
      BY <1>0, <1>3 DEF Dispatch, WorkerTypes
    <2>2. uc_link'[t] \in Workers /\ \A u \in Tasks : uc_link[u] \in Workers => uc_link'[u] \in Workers
      BY <1>0, <1>3 DEF Dispatch, TaskTypes
    <2>3. \A v \in Workers : wpc[v] = "run" => current_task[v] \in Tasks
      BY <1>0 DEF HasTask
    <2> QED
      BY <2>1, <2>2, <2>3 DEF LinkSet
  <1>4. ASSUME NEW w \in Workers, TakeGlobal(w) PROVE LinkSet'
    <2>1. Head(global_queue_) \in Tasks
      BY <1>4, Popped DEF TakeGlobal, TypeInv, QueueTypes
    <2> QED
      BY <1>3, <1>4, <2>1 DEF TakeGlobal
  <1>5. ASSUME NEW w \in Workers, NEW x \in Workers, TakeLocal(w, x) PROVE LinkSet'
    <2>1. Head(local_queue[x]) \in Tasks
      BY <1>5, Popped DEF TakeLocal, TypeInv, QueueTypes
    <2> QED
      BY <1>3, <1>5, <2>1 DEF TakeLocal
  <1>6. ASSUME NEW w \in Workers, NEW t \in Tasks, FiberReturns(w, t) \/ YieldSwitch(w, t) PROVE LinkSet'
    <2>1. UNCHANGED <<uc_link, current_task>>
      BY <1>6 DEF FiberReturns, ReturnToLink, YieldSwitch
    <2>2. \A v \in Workers : wpc'[v] = "run" => wpc[v] = "run"
      BY <1>0, <1>6 DEF FiberReturns, ReturnToLink, YieldSwitch, FiberAt, WorkerTypes
    <2> QED
      BY <1>1, <2>1, <2>2
  <1>7. ASSUME NEW w \in Workers, Looks(w) \/ AfterRun(w) PROVE LinkSet'
    <2>1. UNCHANGED <<uc_link, current_task>>
      BY <1>7 DEF Looks, WorkerGoto, AfterRun, taskVars
    <2>2. \A v \in Workers : wpc'[v] = "run" => wpc[v] = "run"
      BY <1>0, <1>7 DEF Looks, Looking, WorkerGoto, AfterRun, WorkerTypes
    <2> QED
      BY <1>1, <2>1, <2>2
  <1>8. ASSUME NEW w \in Workers, ClearCurrent(w) PROVE LinkSet'
    BY <1>0, <1>8 DEF ClearCurrent, LinkSet, WorkerTypes, taskVars
  <1> QED
    BY <1>2, <1>4, <1>5, <1>6, <1>7, <1>8
    DEF Kinds, SpawnCount, SpawnPush, SpawnMap, CancelFind, CancelStore, FiberMoves, FiberGoto,
        RequeueStep, CountOffStep, OwnerMoves, OwnerGoto, workerVars, taskVars, vars

\* The return into a foreign context that SchedulerForeignReturn finds takes a
\* second worker: with one, whatever yields, spawns and is cancelled, a fiber
\* returns to the loop of the worker it runs on.
THEOREM SchedulerOneWorkerReturns ==
  ASSUME \A w, v \in Workers : w = v
  PROVE  Spec => []~undefined_
  <1>1. Init => LinkSet /\ ~undefined_
    BY DEF Init, LinkSet
  <1>2. IInv /\ LinkSet /\ ~undefined_ /\ [Next]_vars => LinkSet' /\ ~undefined_'
    <2> SUFFICES ASSUME IInv, LinkSet, ~undefined_, [Next]_vars PROVE LinkSet' /\ ~undefined_'
      OBVIOUS
    <2>1. TypeInv /\ Kinds
      BY TypeInvIs, StepKinds DEF IInv
    <2>2. LinkSet'
      BY <2>1, LinkStep
    <2>3. ASSUME NEW w \in Workers, NEW t \in Tasks, FiberReturns(w, t) PROVE ~undefined_'
      <3>1. uc_link[t] = w
        BY <2>3 DEF FiberReturns, LinkSet
      <3> QED
        BY <2>3, <3>1 DEF FiberReturns, ReturnToLink
    <2> QED
      BY <2>1, <2>2, <2>3
      DEF Kinds, SpawnCount, SpawnPush, SpawnMap, CancelFind, CancelStore, FiberMoves, FiberGoto,
          YieldSwitch, Looks, WorkerGoto, TakeGlobal, TakeLocal, Dispatch, RequeueStep, CountOffStep,
          AfterRun, ClearCurrent, OwnerMoves, OwnerGoto, vars
  <1> QED
    BY <1>1, <1>2, Inductive, PTL DEF Spec

-----------------------------------------------------------------------------
(* with_timeout()                                                          *)

\* Every step of with_timeout(), of its watchdog and of the tasks around them is a
\* step of the scheduler or none: the composition implements TaskScheduler.
THEOREM TimeoutImplementsScheduler == WTSpec => Spec
  <1>1. WTInit => Init
    BY DEF WTInit
  <1>2. [WTNext]_wtVars => [Next]_vars
    <2> SUFFICES ASSUME [WTNext]_wtVars PROVE [Next]_vars
      OBVIOUS
    <2>1. CASE ~undefined_ /\ SchedulerStep
      BY <2>1 DEF SchedulerStep, PairFiberStep, SpawnStep, ClientStep, Next
    <2>2. CASE DogTest \/ DogWake \/ Expire
      BY <2>2 DEF DogTest, DogWake, Expire
    <2>3. CASE ~undefined_ /\ (DogCancel \/ DogCancelled)
      BY <2>3, PairAssumption DEF DogCancel, DogCancelled, ClientStep, Next
    <2>4. CASE WTOver
      BY <2>4 DEF WTOver, Over
    <2>5. CASE UNCHANGED wtVars
      BY <2>5 DEF wtVars
    <2> QED
      BY <2>1, <2>2, <2>3, <2>4, <2>5 DEF WTNext
  <1> QED
    BY <1>1, <1>2, PTL DEF WTSpec, Spec

\* The watchdog is spawned after the body.
BodyFirst == spawning[Watchdog] # "none" => spawning[Body] = "mapped"

\* Only the watchdog cancels, after it has stored timed_out.
CancelIsTimeout ==
    /\ dog \in {"cancel", "storing"} => timed_out
    /\ cancelled_[Body] => timed_out

\* A body that has returned ran, and then stored completed, or was cancelled.
ReturnIsKnown == fiber[Body] = "returned" => completed \/ cancelled_[Body]

OutcomeInv == BodyFirst /\ CancelIsTimeout /\ ReturnIsKnown

\* A fiber that has not run yet returns only because it is cancelled.
LEMMA FiberStepReturns ==
    ASSUME TypeInv, NEW w \in Workers, FiberStep(w), fiber'[Body] = "returned"
    PROVE  fiber[Body] # "new" \/ cancelled_[Body]
  <1>1. Body \in Tasks /\ fiber \in [Tasks -> FiberPC]
    BY PairAssumption DEF TypeInv, TaskTypes
  <1>2. PICK t \in Tasks : \/ Invoke(w, t) \/ Begin(w, t) \/ Finish(w, t)
                           \/ YieldCheck(w, t) \/ YieldSwitch(w, t) \/ YieldResume(w, t)
    BY DEF FiberStep
  <1>3. CASE t # Body
    BY <1>1, <1>2, <1>3 DEF Invoke, Begin, Finish, YieldCheck, YieldSwitch, YieldResume, ReturnToLink, FiberGoto
  <1>4. CASE t = Body
    BY <1>1, <1>2, <1>4 DEF Invoke, Begin, Finish, YieldCheck, YieldSwitch, YieldResume, IsCancelled, FiberAt, FiberGoto
  <1> QED
    BY <1>3, <1>4

LEMMA OutcomeStep == TypeInv /\ OutcomeInv /\ [WTNext]_wtVars => OutcomeInv'
  <1> SUFFICES ASSUME TypeInv, OutcomeInv, [WTNext]_wtVars PROVE OutcomeInv'
    OBVIOUS
  <1>0. /\ Body \in Tasks /\ Watchdog \in Tasks /\ Body # Watchdog
        /\ fiber \in [Tasks -> FiberPC] /\ cancelled_ \in [Tasks -> BOOLEAN]
        /\ spawning \in [Tasks -> SpawnPC]
    BY PairAssumption DEF TypeInv, TaskTypes, OwnerTypes
  <1> USE DEF OutcomeInv, BodyFirst, CancelIsTimeout, ReturnIsKnown, taskVars, ownerVars
  <1>1. ASSUME NEW w \in Workers, PairFiberStep(w), UNCHANGED <<timed_out, expired, dog>>
        PROVE  OutcomeInv'
    <2>1. UNCHANGED <<spawning, cancelled_>>
      BY <1>1 DEF PairFiberStep, FiberStep, Invoke, Begin, Finish, YieldCheck, YieldSwitch, YieldResume,
                  ReturnToLink, FiberGoto
    <2>2. ReturnIsKnown'
      BY <1>1, <2>1, FiberStepReturns DEF PairFiberStep, Wrapper
    <2> QED
      BY <1>1, <2>1, <2>2
  <1>2. ASSUME NEW w \in Workers, WorkerStep(w), UNCHANGED timeoutVars PROVE OutcomeInv'
    <2>1. UNCHANGED <<spawning, cancelled_>>
      BY <1>2 DEF WorkerStep, LoopTest, PopLocal, StealGlobal, StealGlobalFails, StealLocal, StealFails,
                  AfterRun, ClearCurrent, WorkerGoto, Dispatch
    <2>2. fiber'[Body] = "returned" => fiber[Body] = "returned"
      BY <1>0, <1>2 DEF WorkerStep, LoopTest, PopLocal, StealGlobal, StealGlobalFails, StealLocal, StealFails,
                        AfterRun, ClearCurrent, WorkerGoto, Dispatch
    <2> QED
      BY <1>2, <2>1, <2>2 DEF timeoutVars
  <1>3. ASSUME OwnerStep, UNCHANGED timeoutVars PROVE OutcomeInv'
    <2>1. UNCHANGED <<spawning, cancelled_, fiber>>
      BY <1>3 DEF OwnerStep, WaitAll, WaitAllReturns, JoinAllReturns, Stop, StopSignal, StopJoins, OwnerGoto
    <2> QED
      BY <1>3, <2>1 DEF timeoutVars
  <1>4. ASSUME NEW t \in Tasks, SpawnStep(t), UNCHANGED <<timed_out, expired, dog>> PROVE OutcomeInv'
    <2>1. UNCHANGED <<cancelled_, fiber, completed>>
      BY <1>4 DEF SpawnStep, SpawnCount, SpawnPush, SpawnMap
    <2>2. BodyFirst'
      BY <1>0, <1>4 DEF SpawnStep, SpawnCount, SpawnPush, SpawnMap
    <2> QED
      BY <1>4, <2>1, <2>2
  <1>5. ASSUME DogTest \/ DogWake \/ Expire PROVE OutcomeInv'
    <2>1. UNCHANGED <<spawning, cancelled_, fiber, completed>>
      BY <1>5 DEF DogTest, DogWake, Expire, vars
    <2>2. (dog' \in {"cancel", "storing"} => timed_out') /\ (timed_out => timed_out')
      BY <1>5 DEF DogTest, DogWake, Expire
    <2> QED
      BY <2>1, <2>2
  <1>6. ASSUME DogCancel \/ DogCancelled PROVE OutcomeInv'
    <2>1. timed_out /\ timed_out' /\ UNCHANGED <<spawning, fiber, completed>>
      BY <1>6 DEF DogCancel, DogCancelled, CancelFind, CancelStore
    <2>2. cancelled_[Body] => cancelled_'[Body]
      BY <1>0, <1>6 DEF DogCancel, DogCancelled, CancelFind, CancelStore
    <2> QED
      BY <2>1, <2>2
  <1>7. ASSUME UNCHANGED wtVars PROVE OutcomeInv'
    BY <1>7 DEF wtVars, vars, timeoutVars
  <1> QED
    BY <1>1, <1>2, <1>3, <1>4, <1>5, <1>6, <1>7
    DEF WTNext, SchedulerStep, WTOver, Over, wtVars, timeoutVars

\* When join_all() has returned, the call of with_timeout() has an outcome: the
\* function stored completed, or the watchdog stored timed_out, for any number of
\* workers, tasks beside the two, and yields.
THEOREM TimeoutOutcomeKnown == WTSpec => []OutcomeKnown
  <1>1. WTInit => OutcomeInv
    BY PairAssumption DEF WTInit, Init, OutcomeInv, BodyFirst, CancelIsTimeout, ReturnIsKnown
  <1>2. IInv => TypeInv
    BY TypeInvIs DEF IInv
  <1>3. IInv /\ OutcomeInv => OutcomeKnown
    <2> SUFFICES ASSUME IInv, OutcomeInv, owner = "drained", spawning[Watchdog] = "mapped"
                 PROVE  completed \/ timed_out
      BY DEF OutcomeKnown
    <2>1. Body \in Tasks /\ spawning[Body] = "mapped" /\ Body \notin InFlight
      BY PairAssumption DEF IInv, OutcomeInv, BodyFirst, JoinedMeansDone
    <2>2. fiber[Body] = "returned" \/ cancelled_[Body]
      BY <2>1 DEF IInv, NoTaskLost
    <2> QED
      BY <2>2 DEF OutcomeInv, CancelIsTimeout, ReturnIsKnown
  <1>4. WTSpec => []IInv
    BY TimeoutImplementsScheduler, Inductive, PTL
  <1>5. WTSpec => []OutcomeInv
    BY <1>1, <1>2, <1>4, OutcomeStep, PTL DEF WTSpec
  <1> QED
    BY <1>3, <1>4, <1>5, PTL

=============================================================================
