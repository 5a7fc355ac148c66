--------------------------- MODULE ChannelRegistry ---------------------------
(***************************************************************************)
(* Named channels: KodeRuntime::createChannel, sendToChannel and           *)
(* receiveFromChannel (src/src/core/runtime.cc) with the statements that   *)
(* ExecuteStatement() routes to them, and the functions of the same        *)
(* purpose in JSConcurrency (src/src/concurrency/task.cc).                 *)
(*                                                                         *)
(* The callers are tasks of the scheduler, each of which executes a        *)
(* sequence of statements (src/src/concurrency/README.md:172; it is what   *)
(* channels_mutex_ is for, though no code of the repository executes       *)
(* statements on tasks yet).  A task keeps its worker thread while it      *)
(* waits in a channel.  A channel object is its buffer: FifoChannel, which       *)
(* Channel is proved to implement, with a bound.  An action is a critical  *)
(* section of channels_mutex_ or an operation of the channel; the mutex is *)
(* not held between the two.                                               *)
(***************************************************************************)
EXTENDS Naturals, Sequences, FiniteSets

CONSTANTS Tasks,        \* tasks that use the channels
          Workers,      \* worker threads
          Names,        \* names of channels
          First,        \* the name whose channel exists before the tasks start
          Capacity,     \* name -> the capacity it is created with
          Scripts,      \* programs: task -> sequence of statements
          MaxObjects,   \* bound on the channel objects that are made
          Nobody        \* a worker without a task

\* A statement: what to do and the name it is about ("other" stands for the
\* statements that do not touch a channel).
Do == {"CH_CREATE", "CH_SEND", "CH_RECV", "js_create", "js_send", "js_receive", "other"}

ASSUME RegistryAssumption ==
    /\ IsFiniteSet(Tasks) /\ IsFiniteSet(Names) /\ Nobody \notin Tasks
    /\ First \in Names /\ Capacity \in [Names -> Nat]
    /\ Scripts \subseteq [Tasks -> Seq([do : Do, name : Names])]
    /\ MaxObjects \in Nat \ {0}

\* Channel objects are numbered as they are made; 0 is the null pointer.
Null == 0
Objects == 1 .. MaxObjects

VARIABLES
    script,          \* the program
    global_queue_,   \* tasks not yet taken by a worker
    current_task,    \* worker -> its task
    at,              \* task -> statements it has executed
    doing,           \* task -> "idle", or the channel operation it is in
    held,            \* task -> the object its local shared_ptr points to
    returned,        \* tasks whose function has returned
    channels_,       \* name -> the object registered under it
    made,            \* number of objects made
    capacity,        \* object -> its capacity
    buffer,          \* object -> its messages
    refs,            \* object -> reference count of its shared_ptr
    jsChannels,      \* function of JSConcurrency -> the names in its own map
    replaced         \* a name was created a second time (history)

registryVars == <<channels_, made, capacity, refs, jsChannels, replaced>>
taskVars == <<script, global_queue_, current_task, returned>>
vars == <<taskVars, registryVars, at, doing, held, buffer>>

Maps == {"create_channel", "send_to_channel", "receive_from_channel"}

TypeOK ==
    /\ script \in Scripts
    /\ global_queue_ \in Seq(Tasks)
    /\ current_task \in [Workers -> Tasks \cup {Nobody}]
    /\ at \in [Tasks -> Nat]
    /\ doing \in [Tasks -> {"idle", "send", "receive"}]
    /\ held \in [Tasks -> Objects \cup {Null}]
    /\ returned \subseteq Tasks
    /\ channels_ \in [Names -> Objects \cup {Null}]
    /\ made \in 0 .. MaxObjects
    /\ capacity \in [Objects -> Nat]
    /\ buffer \in [Objects -> Seq(Tasks \X Nat)]
    /\ refs \in [Objects -> Nat]
    /\ jsChannels \in [Maps -> SUBSET Names]
    /\ replaced \in BOOLEAN

\* The main thread has created one channel and spawned the tasks, in any order.
Init ==
    /\ script \in Scripts
    /\ global_queue_ \in {q \in [1 .. Cardinality(Tasks) -> Tasks] :
                            \A i, j \in DOMAIN q : q[i] = q[j] => i = j}
    /\ current_task = [w \in Workers |-> Nobody]
    /\ at = [t \in Tasks |-> 0]
    /\ doing = [t \in Tasks |-> "idle"]
    /\ held = [t \in Tasks |-> Null]
    /\ returned = {}
    /\ channels_ = [n \in Names |-> IF n = First THEN 1 ELSE Null]
    /\ made = 1
    /\ capacity = [c \in Objects |-> IF c = 1 THEN Capacity[First] ELSE 0]
    /\ buffer = [c \in Objects |-> <<>>]
    /\ refs = [c \in Objects |-> IF c = 1 THEN 1 ELSE 0]
    /\ jsChannels = [m \in Maps |-> {}]
    /\ replaced = FALSE

-----------------------------------------------------------------------------
(* The worker threads                                                      *)

\* worker_loop(): a free worker takes the first task of the global queue.
Take(w) ==
    /\ current_task[w] = Nobody /\ global_queue_ # <<>>
    /\ current_task' = [current_task EXCEPT ![w] = Head(global_queue_)]
    /\ global_queue_' = Tail(global_queue_)
    /\ UNCHANGED <<script, returned, registryVars, at, doing, held, buffer>>

\* The function of the task returns, and the worker is free again.
Return(w) ==
    LET t == current_task[w] IN
    /\ t # Nobody /\ doing[t] = "idle" /\ at[t] = Len(script[t])
    /\ returned' = returned \cup {t}
    /\ current_task' = [current_task EXCEPT ![w] = Nobody]
    /\ UNCHANGED <<script, global_queue_, registryVars, at, doing, held, buffer>>

Ready(t) == doing[t] = "idle" /\ at[t] < Len(script[t])

\* The statement t is about to execute.
Stmt(t) == script[t][at[t] + 1]

Executed(t) == at' = [at EXCEPT ![t] = @ + 1]

-----------------------------------------------------------------------------
(* KodeRuntime                                                             *)

\* Reference counts when a shared_ptr to the object `new` is made and one to
\* `old` goes away.
Count(new, old) ==
    [c \in Objects |-> (refs[c] + (IF c = new THEN 1 ELSE 0)) - (IF c = old THEN 1 ELSE 0)]

\* createChannel(): channels_[name] = make_shared<Channel>(capacity); the object
\* that was registered under the name loses that reference.
CreateChannel(t) ==
    LET n == Stmt(t).name IN
    /\ Ready(t) /\ Stmt(t).do = "CH_CREATE" /\ made < MaxObjects
    /\ made' = made + 1
    /\ channels_' = [channels_ EXCEPT ![n] = made']
    /\ capacity' = [capacity EXCEPT ![made'] = Capacity[n]]
    /\ refs' = Count(made', channels_[n])
    /\ replaced' = (replaced \/ channels_[n] # Null)
    /\ Executed(t)
    /\ UNCHANGED <<taskVars, jsChannels, doing, held, buffer>>

\* The operation a statement leads to.
Operation(s) == IF s.do = "CH_SEND" THEN "send" ELSE "receive"

\* Mutant: channels_mutex_ is held until the channel operation is done, as in
\* JSConcurrency.
MutantLockHeld(t) ==
    LET c == channels_[Stmt(t).name] IN
    /\ Ready(t) /\ Stmt(t).do \in {"CH_SEND", "CH_RECV"} /\ c # Null
    /\ \A u \in Tasks : doing[u] = "idle"
    /\ held' = [held EXCEPT ![t] = c]
    /\ refs' = Count(c, Null)
    /\ doing' = [doing EXCEPT ![t] = Operation(Stmt(t))]
    /\ UNCHANGED <<taskVars, channels_, made, capacity, jsChannels, replaced, at, buffer>>

\* Mutant: a plain pointer is taken from the map.
MutantRawPointer(t) ==
    LET c == channels_[Stmt(t).name] IN
    /\ Ready(t) /\ Stmt(t).do \in {"CH_SEND", "CH_RECV"} /\ c # Null
    /\ held' = [held EXCEPT ![t] = c]
    /\ doing' = [doing EXCEPT ![t] = Operation(Stmt(t))]
    /\ UNCHANGED <<taskVars, registryVars, at, buffer>>

\* sendToChannel(), receiveFromChannel(): the lookup under channels_mutex_, which
\* copies the shared_ptr; the mutex is released before the channel is used.
Lookup(t) ==
    LET c == channels_[Stmt(t).name] IN
    /\ Ready(t) /\ Stmt(t).do \in {"CH_SEND", "CH_RECV"} /\ c # Null
    /\ held' = [held EXCEPT ![t] = c]
    /\ refs' = Count(c, Null)
    /\ doing' = [doing EXCEPT ![t] = Operation(Stmt(t))]
    /\ UNCHANGED <<taskVars, channels_, made, capacity, jsChannels, replaced, at, buffer>>

\* "Error: Channel not found": nothing is sent, nothing is received.
LookupFails(t) ==
    /\ Ready(t) /\ Stmt(t).do \in {"CH_SEND", "CH_RECV"} /\ channels_[Stmt(t).name] = Null
    /\ Executed(t)
    /\ UNCHANGED <<taskVars, registryVars, doing, held, buffer>>

\* The channel operation is done and the local shared_ptr goes away.
Release(t) ==
    /\ held' = [held EXCEPT ![t] = Null]
    /\ refs' = Count(Null, held[t])
    /\ doing' = [doing EXCEPT ![t] = "idle"]
    /\ Executed(t)
    /\ UNCHANGED <<taskVars, channels_, made, capacity, jsChannels, replaced>>

\* ch->send(value), when the object has room
Send(t) ==
    LET c == held[t] IN
    /\ doing[t] = "send"
    /\ capacity[c] > 0 => Len(buffer[c]) < capacity[c]
    /\ buffer' = [buffer EXCEPT ![c] = Append(@, <<t, at[t]>>)]
    /\ Release(t)

\* ch->receive(value), when the object has a message
Receive(t) ==
    LET c == held[t] IN
    /\ doing[t] = "receive"
    /\ buffer[c] # <<>>
    /\ buffer' = [buffer EXCEPT ![c] = Tail(@)]
    /\ Release(t)

-----------------------------------------------------------------------------
(* JSConcurrency, and statements about other things                        *)

\* create_channel(): into the static map of this function
JsCreate(t) ==
    /\ Ready(t) /\ Stmt(t).do = "js_create"
    /\ jsChannels' = [jsChannels EXCEPT !["create_channel"] = @ \cup {Stmt(t).name}]
    /\ Executed(t)
    /\ UNCHANGED <<taskVars, channels_, made, capacity, refs, replaced, doing, held, buffer>>

\* send_to_channel(), receive_from_channel(): each looks into a static map of its
\* own, into which nothing is ever put: "not found".
JsCall(t) ==
    /\ Ready(t)
    /\ \/ Stmt(t).do = "js_send" /\ Stmt(t).name \notin jsChannels["send_to_channel"]
       \/ Stmt(t).do = "js_receive" /\ Stmt(t).name \notin jsChannels["receive_from_channel"]
    /\ Executed(t)
    /\ UNCHANGED <<taskVars, registryVars, doing, held, buffer>>

\* Console, timer, file and declaration statements, a CH_ statement without a
\* name: no channel is touched.  (Nor is one by the statements that spawn, yield
\* or set a time limit, which are TaskScheduler's and WithTimeout's.)
Other(t) ==
    /\ Ready(t) /\ Stmt(t).do = "other"
    /\ Executed(t)
    /\ UNCHANGED <<taskVars, registryVars, doing, held, buffer>>

ExecuteStatement(t) ==
    \/ CreateChannel(t)
    \/ Lookup(t) \/ LookupFails(t) \/ Send(t) \/ Receive(t)
    \/ JsCreate(t) \/ JsCall(t) \/ Other(t)

Work(w) == current_task[w] # Nobody /\ ExecuteStatement(current_task[w])

\* All tasks have returned.
AllReturned == returned = Tasks /\ UNCHANGED vars

Next == (\E w \in Workers : Take(w) \/ Work(w) \/ Return(w)) \/ AllReturned

Spec == Init /\ [][Next]_vars

\* Worker threads go on unless they wait in a channel.
FairSpec ==
    Spec /\ \A w \in Workers : WF_vars(Take(w)) /\ WF_vars(Work(w)) /\ WF_vars(Return(w))

-----------------------------------------------------------------------------
(* Correctness                                                             *)

\* The object a task works on exists until the task is done with it, whatever is
\* registered under its name by then: the copied shared_ptr keeps it alive, and
\* only what nobody can reach any more is destroyed.
HeldIsAlive ==
    /\ \A t \in Tasks : held[t] # Null => refs[held[t]] > 0
    /\ \A n \in Names : channels_[n] # Null => refs[channels_[n]] > 0
    /\ \A c \in Objects : refs[c] > 0 =>
           \/ \E t \in Tasks : held[t] = c
           \/ \E n \in Names : channels_[n] = c

\* With a worker for every task, tasks that agree on the number of messages all
\* return as long as no name is created a second time: a task that waits in a
\* channel keeps no other out of the registry.
EveryTaskReturns == <>replaced \/ <>(returned = Tasks)
=============================================================================
