-------------------------- MODULE HostObjectsProofs --------------------------
(***************************************************************************)
(* Proofs of the safety invariants of the two services a script gets from  *)
(* the host and whose callbacks run on one thread: KodeScope, for any      *)
(* finite sets of scopes, tasks and controllers and any owner of each      *)
(* task, and HttpServer, for any connections and any number of chunks to   *)
(* the end of the headers.                                                 *)
(***************************************************************************)
EXTENDS KodeScope, HttpServer, FiniteSetTheorems, SequenceTheorems, TLAPS

-----------------------------------------------------------------------------
(* KodeScope                                                               *)

\* The calls that activeScopes and activeTasks count.
OpenScopes == {s \in Scopes : scope[s] \in {"called", "body", "settled"}}
OpenTasks == {t \in Tasks : task[t] \in {"queued", "running", "settled", "caught"}}

\* The failure is in state.failed from the catch on, one reaction before the
\* caller can see it.
FailureCaught ==
    \A t \in Tasks : task[t] \in {"caught", "done"} /\ ~ok[t] => failed[Owner[t]]

\* The two halves of TypeOK.
ScopeTypes ==
    /\ scope \in [Scopes -> ScopePC] /\ failed \in [Scopes -> BOOLEAN]
    /\ task \in [Tasks -> TaskPC] /\ ok \in [Tasks -> BOOLEAN]
    /\ activeScopes \in Nat /\ activeTasks \in Nat
SignalTypes ==
    /\ signal \in [Controllers -> {"none", "live", "aborted"}]
    /\ onabort \in [Controllers -> BOOLEAN]
    /\ running \in Seq(Controllers)
    /\ calls \in [Controllers -> Nat]

IInv == TypeOK /\ CountsExact /\ FailureCaught /\ OnabortOnce

-----------------------------------------------------------------------------
(* Types                                                                   *)

LEMMA TypeInit == Init => TypeOK
  BY DEF Init, TypeOK, ScopePC, TaskPC

\* Nothing changes the state of the signals: its types stay.
LEMMA SignalsUnchanged == TypeOK /\ UNCHANGED signalVars => SignalTypes'
  BY DEF TypeOK, SignalTypes, signalVars

\* A reaction or a call keeps the types; that a counter does not fall below
\* zero is where the exact counts are needed.
LEMMA TypeStep == TypeOK /\ CountsExact /\ [Next]_vars => TypeOK'
  <1> SUFFICES ASSUME TypeOK, CountsExact, [Next]_vars PROVE ScopeTypes' /\ SignalTypes'
    BY DEF TypeOK, ScopeTypes, SignalTypes
  <1>0. /\ IsFiniteSet(OpenScopes) /\ IsFiniteSet(OpenTasks)
        /\ activeScopes = Cardinality(OpenScopes) /\ activeTasks = Cardinality(OpenTasks)
    <2>1. OpenScopes \subseteq Scopes /\ OpenTasks \subseteq Tasks
      BY DEF OpenScopes, OpenTasks
    <2> QED
      BY <2>1, ScopesAssumption, FS_Subset DEF CountsExact, OpenScopes, OpenTasks
  <1>a. ScopeTypes /\ SignalTypes
    BY DEF TypeOK, ScopeTypes, SignalTypes
  <1>1. ASSUME NEW s \in Scopes, ScopeCall(s) PROVE ScopeTypes'
    BY <1>1, <1>a DEF ScopeCall, ScopeTypes, ScopePC
  <1>2. ASSUME NEW s \in Scopes, ScopeBody(s) \/ ScopeSettles(s) PROVE ScopeTypes'
    BY <1>2, <1>a DEF ScopeBody, ScopeSettles, ScopeTypes, ScopePC
  <1>3. ASSUME NEW s \in Scopes, ScopeFinally(s) PROVE ScopeTypes'
    <2>1. s \in OpenScopes
      BY <1>3 DEF ScopeFinally, OpenScopes
    <2>2. activeScopes # 0
      BY <1>0, <2>1, FS_EmptySet
    <2> QED
      BY <1>3, <1>a, <2>2 DEF ScopeFinally, ScopeTypes, ScopePC
  <1>4. ASSUME NEW t \in Tasks, Async(t) PROVE ScopeTypes'
    <2>1. CASE failed[Owner[t]]
      BY <1>4, <1>a, <2>1 DEF Async, ScopeTypes, TaskPC
    <2>2. CASE ~failed[Owner[t]]
      BY <1>4, <1>a, <2>2 DEF Async, ScopeTypes, TaskPC
    <2> QED
      BY <2>1, <2>2
  <1>5. ASSUME NEW t \in Tasks, TaskRun(t) \/ TaskSettles(t) PROVE ScopeTypes'
    BY <1>5, <1>a DEF TaskRun, TaskSettles, ScopeTypes, TaskPC
  <1>6. ASSUME NEW t \in Tasks, TaskCatch(t) PROVE ScopeTypes'
    <2>1. failed' \in [Scopes -> BOOLEAN]
      BY <1>6, <1>a, OwnerAssumption DEF TaskCatch, ScopeTypes
    <2> QED
      BY <1>6, <1>a, <2>1 DEF TaskCatch, ScopeTypes, TaskPC
  <1>7. ASSUME NEW t \in Tasks, TaskFinally(t) PROVE ScopeTypes'
    <2>1. t \in OpenTasks
      BY <1>7 DEF TaskFinally, OpenTasks
    <2>2. activeTasks # 0
      BY <1>0, <2>1, FS_EmptySet
    <2> QED
      BY <1>7, <1>a, <2>2 DEF TaskFinally, ScopeTypes, TaskPC
  <1>8. ASSUME UNCHANGED scopeVars PROVE ScopeTypes'
    BY <1>8, <1>a DEF scopeVars, ScopeTypes
  <1>9. ASSUME NEW c \in Controllers, NEW zero \in BOOLEAN, Timeout(c, zero) PROVE SignalTypes'
    BY <1>9, <1>a DEF Timeout, SignalTypes
  <1>10. ASSUME NEW c \in Controllers, SetOnAbort(c) PROVE SignalTypes'
    BY <1>10, <1>a DEF SetOnAbort, SignalTypes
  <1>11. ASSUME NEW c \in Controllers, Abort(c) PROVE SignalTypes'
    <2>1. CASE onabort[c]
      BY <1>11, <1>a, <2>1 DEF Abort, SignalTypes
    <2>2. CASE ~onabort[c]
      BY <1>11, <1>a, <2>2 DEF Abort, SignalTypes
    <2> QED
      BY <2>1, <2>2
  <1>12. ASSUME HandlerReturns PROVE SignalTypes'
    BY <1>12, <1>a DEF HandlerReturns, SignalTypes
  <1> QED
    BY <1>1, <1>2, <1>3, <1>4, <1>5, <1>6, <1>7, <1>8, <1>9, <1>10, <1>11, <1>12, SignalsUnchanged
    DEF Next, ScopeStep, TaskStep, SignalStep, vars

-----------------------------------------------------------------------------
(* The counters                                                            *)

LEMMA CountsInit == Init => CountsExact
  <1> SUFFICES ASSUME Init PROVE CountsExact
    OBVIOUS
  <1>1. {s \in Scopes : scope[s] \in {"called", "body", "settled"}} = {}
    BY DEF Init
  <1>2. {t \in Tasks : task[t] \in {"queued", "running", "settled", "caught"}} = {}
    BY DEF Init
  <1> QED
    BY <1>1, <1>2, FS_EmptySet DEF Init, CountsExact

\* Every way through the chain of promises of a scope or a task counts it in
\* once and out once.
LEMMA CountsStep == TypeOK /\ CountsExact /\ [Next]_vars => CountsExact'
  <1> SUFFICES ASSUME TypeOK, CountsExact, [Next]_vars PROVE CountsExact'
    OBVIOUS
  <1> USE DEF TypeOK, ScopePC, TaskPC, scopeVars
  <1>0. /\ IsFiniteSet(OpenScopes) /\ IsFiniteSet(OpenTasks)
        /\ activeScopes = Cardinality(OpenScopes) /\ activeTasks = Cardinality(OpenTasks)
    <2>1. OpenScopes \subseteq Scopes /\ OpenTasks \subseteq Tasks
      BY DEF OpenScopes, OpenTasks
    <2> QED
      BY <2>1, ScopesAssumption, FS_Subset DEF CountsExact, OpenScopes, OpenTasks
  <1> SUFFICES activeScopes' = Cardinality(OpenScopes') /\ activeTasks' = Cardinality(OpenTasks')
    BY DEF CountsExact, OpenScopes, OpenTasks
  <1>1. ASSUME NEW s \in Scopes, ScopeCall(s)
        PROVE  activeScopes' = Cardinality(OpenScopes') /\ activeTasks' = Cardinality(OpenTasks')
    <2>1. s \notin OpenScopes /\ OpenScopes' = OpenScopes \cup {s} /\ OpenTasks' = OpenTasks
      BY <1>1 DEF ScopeCall, OpenScopes, OpenTasks
    <2> QED
      BY <1>0, <1>1, <2>1, FS_AddElement DEF ScopeCall
  <1>2. ASSUME NEW s \in Scopes, ScopeBody(s) \/ ScopeSettles(s)
        PROVE  activeScopes' = Cardinality(OpenScopes') /\ activeTasks' = Cardinality(OpenTasks')
    <2>1. OpenScopes' = OpenScopes /\ OpenTasks' = OpenTasks
      BY <1>2 DEF ScopeBody, ScopeSettles, OpenScopes, OpenTasks
    <2> QED
      BY <1>0, <1>2, <2>1 DEF ScopeBody, ScopeSettles
  <1>3. ASSUME NEW s \in Scopes, ScopeFinally(s)
        PROVE  activeScopes' = Cardinality(OpenScopes') /\ activeTasks' = Cardinality(OpenTasks')
    <2>1. s \in OpenScopes /\ OpenScopes' = OpenScopes \ {s} /\ OpenTasks' = OpenTasks
      BY <1>3 DEF ScopeFinally, OpenScopes, OpenTasks
    <2> QED
      BY <1>0, <1>3, <2>1, FS_RemoveElement DEF ScopeFinally
  <1>4. ASSUME NEW t \in Tasks, Async(t)
        PROVE  activeScopes' = Cardinality(OpenScopes') /\ activeTasks' = Cardinality(OpenTasks')
    <2>1. t \notin OpenTasks /\ OpenScopes' = OpenScopes
      BY <1>4 DEF Async, OpenScopes, OpenTasks
    <2>2. CASE failed[Owner[t]]
      <3>1. OpenTasks' = OpenTasks
        BY <1>4, <2>2 DEF Async, OpenTasks
      <3> QED
        BY <1>0, <1>4, <2>1, <2>2, <3>1 DEF Async
    <2>3. CASE ~failed[Owner[t]]
      <3>1. OpenTasks' = OpenTasks \cup {t}
        BY <1>4, <2>3 DEF Async, OpenTasks
      <3> QED
        BY <1>0, <1>4, <2>1, <2>3, <3>1, FS_AddElement DEF Async
    <2> QED
      BY <2>2, <2>3
  <1>5. ASSUME NEW t \in Tasks, TaskRun(t) \/ TaskSettles(t) \/ TaskCatch(t)
        PROVE  activeScopes' = Cardinality(OpenScopes') /\ activeTasks' = Cardinality(OpenTasks')
    <2>1. OpenScopes' = OpenScopes /\ OpenTasks' = OpenTasks
      BY <1>5 DEF TaskRun, TaskSettles, TaskCatch, OpenScopes, OpenTasks
    <2> QED
      BY <1>0, <1>5, <2>1 DEF TaskRun, TaskSettles, TaskCatch
  <1>6. ASSUME NEW t \in Tasks, TaskFinally(t)
        PROVE  activeScopes' = Cardinality(OpenScopes') /\ activeTasks' = Cardinality(OpenTasks')
    <2>1. t \in OpenTasks /\ OpenScopes' = OpenScopes /\ OpenTasks' = OpenTasks \ {t}
      BY <1>6 DEF TaskFinally, OpenScopes, OpenTasks
    <2> QED
      BY <1>0, <1>6, <2>1, FS_RemoveElement DEF TaskFinally
  <1>7. ASSUME UNCHANGED scopeVars
        PROVE  activeScopes' = Cardinality(OpenScopes') /\ activeTasks' = Cardinality(OpenTasks')
    BY <1>0, <1>7 DEF OpenScopes, OpenTasks
  <1> QED
    BY <1>1, <1>2, <1>3, <1>4, <1>5, <1>6, <1>7 DEF Next, ScopeStep, TaskStep, vars

-----------------------------------------------------------------------------
(* Failures and aborts                                                     *)

\* Between the settling of a task and the settling of what its caller holds
\* lies the reaction that records the failure, and nothing takes it back.
LEMMA FailureStep == TypeOK /\ FailureCaught /\ [Next]_vars => FailureCaught'
  <1> SUFFICES ASSUME TypeOK, FailureCaught, [Next]_vars,
                      NEW u \in Tasks, task'[u] \in {"caught", "done"}, ~ok'[u]
               PROVE  failed'[Owner[u]]
    BY DEF FailureCaught
  <1> USE OwnerAssumption DEF TypeOK, FailureCaught, scopeVars
  <1>1. ASSUME NEW s \in Scopes, ScopeCall(s) \/ ScopeBody(s) \/ ScopeSettles(s) \/ ScopeFinally(s)
        PROVE  failed'[Owner[u]]
    BY <1>1 DEF ScopeCall, ScopeBody, ScopeSettles, ScopeFinally
  <1>2. ASSUME NEW t \in Tasks, Async(t) PROVE failed'[Owner[u]]
    BY <1>2 DEF Async
  <1>3. ASSUME NEW t \in Tasks, TaskRun(t) \/ TaskSettles(t) \/ TaskFinally(t) PROVE failed'[Owner[u]]
    BY <1>3 DEF TaskRun, TaskSettles, TaskFinally
  <1>4. ASSUME NEW t \in Tasks, TaskCatch(t) PROVE failed'[Owner[u]]
    BY <1>4 DEF TaskCatch
  <1>5. CASE UNCHANGED scopeVars
    BY <1>5
  <1> QED
    BY <1>1, <1>2, <1>3, <1>4, <1>5 DEF Next, ScopeStep, TaskStep, vars

\* abort() marks the signal before it calls the handler: whoever aborts it again,
\* the handler included, finds it marked.
LEMMA OnabortStep == TypeOK /\ OnabortOnce /\ [Next]_vars => OnabortOnce'
  <1> SUFFICES ASSUME TypeOK, OnabortOnce, [Next]_vars PROVE OnabortOnce'
    OBVIOUS
  <1> USE DEF TypeOK, OnabortOnce, signalVars
  <1>1. ASSUME NEW c \in Controllers, NEW zero \in BOOLEAN, Timeout(c, zero) PROVE OnabortOnce'
    BY <1>1 DEF Timeout
  <1>2. ASSUME NEW c \in Controllers, SetOnAbort(c) PROVE OnabortOnce'
    BY <1>2 DEF SetOnAbort
  <1>3. ASSUME NEW c \in Controllers, Abort(c) PROVE OnabortOnce'
    BY <1>3 DEF Abort
  <1>4. CASE HandlerReturns
    BY <1>4 DEF HandlerReturns
  <1>5. CASE UNCHANGED signalVars
    BY <1>5
  <1> QED
    BY <1>1, <1>2, <1>3, <1>4, <1>5 DEF Next, SignalStep, ScopeStep, TaskStep, vars

-----------------------------------------------------------------------------

LEMMA Inductive == Spec => []IInv
  <1>1. Init => IInv
    <2>1. Init => FailureCaught /\ OnabortOnce
      BY DEF Init, FailureCaught, OnabortOnce
    <2> QED
      BY <2>1, TypeInit, CountsInit DEF IInv
  <1>2. IInv /\ [Next]_vars => IInv'
    BY TypeStep, CountsStep, FailureStep, OnabortStep DEF IInv
  <1> QED
    BY <1>1, <1>2, PTL DEF Spec

\* The state of scopes, tasks and signals keeps its types: in particular the
\* counters activeScopes and activeTasks of kode_host.cc never fall below zero.
THEOREM ScopeTypeCorrect == Spec => []TypeOK
  BY Inductive, PTL DEF IInv

\* Kode.activeOperations() is exact at every moment, whatever settles, fails, is
\* refused or is called on a scope that is done.
THEOREM ScopeCounts == Spec => []CountsExact
  BY Inductive, PTL DEF IInv

\* Whoever has seen a task fail finds its scope failed: the catch reaction lies
\* before the finally reaction that settles the caller's promise.
THEOREM ScopeFailures == Spec => []FailureSeenIsRecorded
  <1>1. IInv => FailureSeenIsRecorded
    BY DEF IInv, FailureCaught, FailureSeenIsRecorded
  <1> QED
    BY <1>1, Inductive, PTL

\* The onabort handler of a signal is called at most once, and only when the
\* signal is aborted, however handlers cancel each other.
THEOREM ScopeAborts == Spec => []OnabortOnce
  BY Inductive, PTL DEF IInv

-----------------------------------------------------------------------------
(* HttpServer                                                              *)

\* The responded flag accounts for the response, whether it is in flight,
\* written, or was cancelled by a close.
HttpRespondedCounts ==
    \A c \in Conns :
        /\ pending[c] + written[c] <= 1
        /\ ~responded[c] => pending[c] = 0 /\ written[c] = 0

\* stop() finds a listener that listens.
HttpRunningListens == running_ => listener = "listening"

\* What the destructor found done stays done.
HttpIdleStays == destroyed = "idle" => Idle

HttpIInv ==
    /\ HttpTypeOK /\ HttpRespondedCounts /\ HttpRunningListens
    /\ HttpIdleStays /\ DestroyedIdleUntouched /\ OnlyHangupAborts

-----------------------------------------------------------------------------
(* Types                                                                   *)

LEMMA HttpTypeInit == HttpInit => HttpTypeOK
  <1>1. 0 \in 0..MaxChunks /\ 0 \in Nat
    BY ChunksAssumption
  <1> QED
    BY <1>1 DEF HttpInit, HttpTypeOK

\* Every callback keeps the types; the guard of the write callbacks keeps the
\* number of writes in flight from falling below zero.
LEMMA HttpTypeStep == HttpTypeOK /\ [HttpNext]_httpVars => HttpTypeOK'
  <1> SUFFICES ASSUME HttpTypeOK, [HttpNext]_httpVars PROVE HttpTypeOK'
    OBVIOUS
  <1> USE DEF HttpTypeOK, serverVars, requestVars
  <1>1. CASE Start
    BY <1>1 DEF Start
  <1>2. CASE Stop
    BY <1>2 DEF Stop, StopRunning, CloseListener
  <1>3. CASE Destroy \/ ListenerClosed
    BY <1>3 DEF Destroy, StopRunning, CloseListener, ListenerClosed
  <1>4. ASSUME NEW c \in Conns, OnNewConnection(c) PROVE HttpTypeOK'
    BY <1>4 DEF OnNewConnection
  <1>5. ASSUME NEW c \in Conns, ReadData(c) PROVE HttpTypeOK'
    <2>1. buffer' \in [Conns -> 0..MaxChunks]
      BY <1>5, ChunksAssumption DEF ReadData
    <2>2. CASE HandleRequest(c)
      BY <1>5, <2>1, <2>2 DEF ReadData, HandleRequest, Answers
    <2>3. CASE UNCHANGED <<responded, answer, pending>>
      BY <1>5, <2>1, <2>3 DEF ReadData
    <2> QED
      BY <1>5, <2>2, <2>3 DEF ReadData
  <1>6. ASSUME NEW c \in Conns, ReadEnd(c) PROVE HttpTypeOK'
    BY <1>6 DEF ReadEnd, CloseClient
  <1>7. ASSUME NEW c \in Conns, AfterWrite(c) PROVE HttpTypeOK'
    BY <1>7 DEF AfterWrite, CloseClient
  <1>8. ASSUME NEW c \in Conns, CancelWrite(c) PROVE HttpTypeOK'
    BY <1>8 DEF CancelWrite, CloseClient
  <1>9. ASSUME NEW c \in Conns, OnClientClosed(c) PROVE HttpTypeOK'
    BY <1>9 DEF OnClientClosed
  <1>10. CASE UNCHANGED httpVars
    BY <1>10 DEF httpVars
  <1> QED
    BY <1>1, <1>2, <1>3, <1>4, <1>5, <1>6, <1>7, <1>8, <1>9, <1>10 DEF HttpNext, ConnStep

-----------------------------------------------------------------------------
(* Responses                                                               *)

\* The flag is set in the callback that starts the write and is never reset, so
\* no later chunk starts another.
LEMMA HttpRespondedStep ==
    HttpTypeOK /\ HttpRespondedCounts /\ [HttpNext]_httpVars
    => HttpRespondedCounts'
  <1> SUFFICES ASSUME HttpTypeOK, HttpRespondedCounts,
                      [HttpNext]_httpVars PROVE HttpRespondedCounts'
    OBVIOUS
  <1> USE DEF HttpTypeOK, HttpRespondedCounts, serverVars, requestVars
  <1>1. CASE UNCHANGED <<responded, pending, written>>
    BY <1>1
  <1>2. ASSUME NEW c \in Conns, ReadData(c) PROVE HttpRespondedCounts'
    <2>1. CASE ~responded[c] /\ HandleRequest(c)
      BY <1>2, <2>1 DEF ReadData, HandleRequest
    <2>2. CASE UNCHANGED <<responded, answer, pending>>
      BY <1>2, <2>2 DEF ReadData
    <2> QED
      BY <1>2, <2>1, <2>2 DEF ReadData
  <1>3. ASSUME NEW c \in Conns, AfterWrite(c) PROVE HttpRespondedCounts'
    BY <1>3 DEF AfterWrite
  <1>4. ASSUME NEW c \in Conns, CancelWrite(c) PROVE HttpRespondedCounts'
    BY <1>4 DEF CancelWrite
  <1> QED
    BY <1>1, <1>2, <1>3, <1>4
    DEF HttpNext, ConnStep, Start, Stop, Destroy, ListenerClosed,
        OnNewConnection, ReadEnd, OnClientClosed, httpVars

LEMMA HttpListensStep == HttpRunningListens /\ [HttpNext]_httpVars => HttpRunningListens'
  <1> SUFFICES ASSUME HttpRunningListens, [HttpNext]_httpVars PROVE HttpRunningListens'
    OBVIOUS
  <1> USE DEF HttpRunningListens, serverVars
  <1>1. CASE Start
    BY <1>1 DEF Start
  <1>2. CASE Stop \/ Destroy
    BY <1>2 DEF Stop, Destroy, StopRunning
  <1>3. CASE ListenerClosed
    BY <1>3 DEF ListenerClosed
  <1>4. CASE UNCHANGED serverVars
    BY <1>4
  <1> QED
    BY <1>1, <1>2, <1>3, <1>4
    DEF HttpNext, ConnStep, OnNewConnection, ReadData, ReadEnd,
        AfterWrite, CancelWrite, OnClientClosed, httpVars

-----------------------------------------------------------------------------
(* The destroyed server                                                    *)

\* A closed listener makes no new connection, and no callback takes the mark off
\* a connection that was answered.
LEMMA HttpIdleStep ==
    HttpTypeOK /\ HttpRunningListens /\ HttpIdleStays /\ [HttpNext]_httpVars => HttpIdleStays'
  <1> SUFFICES ASSUME HttpTypeOK, HttpRunningListens, HttpIdleStays, [HttpNext]_httpVars,
                      destroyed' = "idle"
               PROVE  Idle'
    BY DEF HttpIdleStays
  <1> USE DEF HttpTypeOK, Idle, serverVars, requestVars
  <1>1. CASE Destroy
    BY <1>1 DEF Destroy, HttpRunningListens
  <1>2. CASE ~Destroy
    <2>1. destroyed = "idle"
      BY <1>2 DEF HttpNext, ConnStep, Start, Stop, ListenerClosed, OnNewConnection, ReadData, ReadEnd,
                  AfterWrite, CancelWrite, OnClientClosed, httpVars
    <2>2. Idle
      BY <2>1 DEF HttpIdleStays
    <2>3. CASE UNCHANGED <<listener, conn, responded>>
      BY <2>2, <2>3
    <2>4. ASSUME NEW c \in Conns, ReadData(c) PROVE Idle'
      BY <2>1, <2>2, <2>4 DEF ReadData
    <2>5. ASSUME NEW c \in Conns, ReadEnd(c) \/ AfterWrite(c) \/ CancelWrite(c) PROVE Idle'
      BY <2>2, <2>5 DEF ReadEnd, AfterWrite, CancelWrite, CloseClient
    <2>6. ASSUME NEW c \in Conns, OnClientClosed(c) PROVE Idle'
      BY <2>2, <2>6 DEF OnClientClosed
    <2> QED
      BY <1>2, <2>1, <2>2, <2>3, <2>4, <2>5, <2>6
      DEF HttpNext, ConnStep, Start, Stop, ListenerClosed, OnNewConnection, httpVars
  <1> QED
    BY <1>1, <1>2

\* Only the end of a close of the listener and the end of a request's headers
\* reach into the server, and an idle one meets neither.
LEMMA HttpUntouchedStep ==
    HttpTypeOK /\ HttpIdleStays /\ DestroyedIdleUntouched /\ [HttpNext]_httpVars
        => DestroyedIdleUntouched'
  <1> SUFFICES ASSUME HttpTypeOK, HttpIdleStays, DestroyedIdleUntouched, [HttpNext]_httpVars,
                      aborted' = "dangling"
               PROVE  destroyed' = "busy"
    BY DEF DestroyedIdleUntouched
  <1> USE DEF HttpTypeOK, HttpIdleStays, Idle, serverVars
  <1>1. CASE UNCHANGED <<destroyed, aborted>>
    BY <1>1 DEF DestroyedIdleUntouched
  <1>2. CASE aborted = "no" /\ ListenerClosed
    BY <1>2 DEF ListenerClosed
  <1>3. ASSUME NEW c \in Conns, ReadData(c), aborted = "no" PROVE destroyed' = "busy"
    <2>1. conn[c] = "open" /\ ~responded[c] /\ destroyed # "no" /\ UNCHANGED destroyed
      BY <1>3 DEF ReadData
    <2> QED
      BY <2>1
  <1>4. CASE aborted = "no" /\ (Stop \/ Destroy)
    BY <1>4 DEF Stop, Destroy, StopRunning, CloseListener
  <1>5. ASSUME NEW c \in Conns, aborted = "no", ReadEnd(c) \/ AfterWrite(c) \/ CancelWrite(c)
        PROVE  FALSE
    BY <1>5 DEF ReadEnd, AfterWrite, CancelWrite, CloseClient
  <1> QED
    BY <1>1, <1>2, <1>3, <1>4, <1>5
    DEF HttpNext, ConnStep, Start, OnNewConnection, OnClientClosed, httpVars

-----------------------------------------------------------------------------
(* Closing twice                                                           *)

\* The one call of uv_close() that can meet a closing handle is that of the write
\* callback of a response that the close has cancelled.
LEMMA HttpAbortStep ==
    HttpTypeOK /\ HttpRespondedCounts /\ HttpRunningListens /\ OnlyHangupAborts /\ [HttpNext]_httpVars
        => OnlyHangupAborts'
  <1> SUFFICES ASSUME HttpTypeOK, HttpRespondedCounts, HttpRunningListens,
                      OnlyHangupAborts, [HttpNext]_httpVars
               PROVE  OnlyHangupAborts'
    OBVIOUS
  <1>1. CASE UNCHANGED httpVars
    BY <1>1 DEF OnlyHangupAborts, httpVars
  <1>2. CASE aborted = "no" /\ aborted' = "no"
    BY <1>2 DEF OnlyHangupAborts
  <1>3. CASE aborted = "no" /\ (Stop \/ Destroy)
    BY <1>3 DEF Stop, Destroy, StopRunning, CloseListener, HttpRunningListens, OnlyHangupAborts
  <1>4. ASSUME NEW c \in Conns, ReadEnd(c) \/ AfterWrite(c) PROVE UNCHANGED aborted
    BY <1>4 DEF ReadEnd, AfterWrite, CloseClient
  <1>5. ASSUME NEW c \in Conns, CancelWrite(c) PROVE OnlyHangupAborts'
    <2>1. aborted' = "client" /\ UNCHANGED <<conn, responded, written>>
      BY <1>5 DEF CancelWrite, CloseClient, requestVars
    <2>2. conn[c] = "closing" /\ pending[c] > 0
      BY <1>5 DEF CancelWrite
    <2>3. responded[c] /\ written[c] = 0
      <3>1. pending[c] \in Nat /\ written[c] \in Nat /\ pending[c] + written[c] <= 1 /\ pending[c] # 0
        BY <2>2 DEF HttpTypeOK, HttpRespondedCounts
      <3>2. responded[c]
        BY <3>1 DEF HttpRespondedCounts
      <3> QED
        BY <2>2, <3>1, <3>2
    <2> QED
      BY <2>1, <2>2, <2>3 DEF OnlyHangupAborts
  <1>6. CASE aborted' = "dangling"
    BY <1>6 DEF OnlyHangupAborts
  <1>7. ASSUME NEW c \in Conns, ReadData(c) PROVE UNCHANGED aborted \/ aborted' = "dangling"
    BY <1>7 DEF ReadData
  <1>8. CASE ListenerClosed
    BY <1>2, <1>6, <1>8 DEF ListenerClosed, HttpNext, HttpTypeOK, OnlyHangupAborts, requestVars
  <1> QED
    BY <1>1, <1>2, <1>3, <1>4, <1>5, <1>6, <1>7, <1>8
    DEF HttpNext, ConnStep, Start, OnNewConnection, OnClientClosed

-----------------------------------------------------------------------------

LEMMA HttpInductive == HttpSpec => []HttpIInv
  <1>1. HttpInit => HttpIInv
    <2>1. HttpInit => /\ HttpRespondedCounts /\ HttpRunningListens
                       /\ HttpIdleStays /\ DestroyedIdleUntouched /\ OnlyHangupAborts
      BY DEF HttpInit, HttpRespondedCounts, HttpRunningListens, HttpIdleStays,
             DestroyedIdleUntouched, OnlyHangupAborts
    <2> QED
      BY <2>1, HttpTypeInit DEF HttpIInv
  <1>2. HttpIInv /\ [HttpNext]_httpVars => HttpIInv'
    BY HttpTypeStep, HttpRespondedStep, HttpListensStep, HttpIdleStep, HttpUntouchedStep, HttpAbortStep
    DEF HttpIInv
  <1> QED
    BY <1>1, <1>2, PTL DEF HttpSpec

\* Every callback of http_server.cc keeps the types of the server's state.
THEOREM HttpTypeCorrect == HttpSpec => []HttpTypeOK
  BY HttpInductive, PTL DEF HttpIInv

\* However the chunks of a request and of what follows it arrive, a connection
\* gets at most one response.
THEOREM HttpOneResponse == HttpSpec => []OneResponse
  <1>1. HttpIInv => OneResponse
    BY DEF HttpIInv, HttpTypeOK, HttpRespondedCounts, OneResponse
  <1> QED
    BY <1>1, HttpInductive, PTL

\* No callback reaches into a server that was destroyed with its listener closed
\* and its open connections answered.
THEOREM HttpDestroyedUntouched == HttpSpec => []DestroyedIdleUntouched
  BY HttpInductive, PTL DEF HttpIInv

\* Only a client that hangs up before its response was written makes uv_close()
\* meet a handle that is closing; the listener is never closed twice.
THEOREM HttpOnlyHangupAborts == HttpSpec => []OnlyHangupAborts
  BY HttpInductive, PTL DEF HttpIInv
=============================================================================
