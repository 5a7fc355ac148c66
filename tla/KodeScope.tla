------------------------------ MODULE KodeScope ------------------------------
(***************************************************************************)
(* Kode.scope(fn), scope.async(fn) and Kode.timeout(ms): the JavaScript    *)
(* that InstallKodeRuntimeBootstrap of src/src/v8/kode_host.cc installs.   *)
(*                                                                         *)
(* Each call is a chain of promise reactions (then, catch, finally).  An   *)
(* action is one reaction, or the settling of a promise of the user's      *)
(* function; between them the reactions of other scopes and tasks run, in  *)
(* any order.  The functions are arbitrary: they settle either way, at any *)
(* time, and a scope object may be used by anyone who got hold of it, also *)
(* after its function has settled.  The onabort handler of a signal is     *)
(* called synchronously, in the middle of whatever aborted it: it may      *)
(* start scopes and tasks, cancel any controller, its own included, and    *)
(* replace handlers; reactions wait until it has returned.                 *)
(***************************************************************************)
EXTENDS Naturals, Sequences, FiniteSets

CONSTANTS Scopes,   \* calls of Kode.scope
          Tasks,    \* calls of scope.async
          Owner,    \* task -> the scope it is called on
          Controllers \* calls of Kode.timeout

ASSUME ScopesAssumption == IsFiniteSet(Scopes) /\ IsFiniteSet(Tasks) /\ IsFiniteSet(Controllers)
ASSUME OwnerAssumption == Owner \in [Tasks -> Scopes]

VARIABLES
    scope,          \* scope -> how far its chain of promises is
    failed,         \* scope -> state.failed
    task,           \* task -> how far its chain of promises is
    ok,             \* task -> its function returned and did not throw
    activeScopes,
    activeTasks,
    signal,         \* controller -> its signal: none, live, aborted
    onabort,        \* controller -> signal.onabort is a function
    running,        \* the onabort handlers on the call stack, innermost first
    calls           \* history: controller -> how often its handler was called

scopeVars == <<scope, failed, task, ok, activeScopes, activeTasks>>
signalVars == <<signal, onabort, running, calls>>
vars == <<scopeVars, signalVars>>

ScopePC == {"none", "called", "body", "settled", "done"}
TaskPC == {"none", "refused", "queued", "running", "settled", "caught", "done"}

TypeOK ==
    /\ scope \in [Scopes -> ScopePC]
    /\ failed \in [Scopes -> BOOLEAN]
    /\ task \in [Tasks -> TaskPC]
    /\ ok \in [Tasks -> BOOLEAN]
    /\ activeScopes \in Nat
    /\ activeTasks \in Nat
    /\ signal \in [Controllers -> {"none", "live", "aborted"}]
    /\ onabort \in [Controllers -> BOOLEAN]
    /\ running \in Seq(Controllers)
    /\ calls \in [Controllers -> Nat]

Init ==
    /\ scope = [s \in Scopes |-> "none"]
    /\ failed = [s \in Scopes |-> FALSE]
    /\ task = [t \in Tasks |-> "none"]
    /\ ok = [t \in Tasks |-> TRUE]
    /\ activeScopes = 0
    /\ activeTasks = 0
    /\ signal = [c \in Controllers |-> "none"]
    /\ onabort = [c \in Controllers |-> FALSE]
    /\ running = <<>>
    /\ calls = [c \in Controllers |-> 0]

-----------------------------------------------------------------------------
(* Kode.scope(fn)                                                          *)

\* activeScopes++; Promise.resolve().then(() => fn(scope))
ScopeCall(s) ==
    /\ scope[s] = "none"
    /\ scope' = [scope EXCEPT ![s] = "called"]
    /\ activeScopes' = activeScopes + 1
    /\ UNCHANGED <<failed, task, ok, activeTasks>>

\* fn(scope) is called.
ScopeBody(s) ==
    /\ scope[s] = "called"
    /\ scope' = [scope EXCEPT ![s] = "body"]
    /\ UNCHANGED <<failed, task, ok, activeScopes, activeTasks>>

\* The promise of fn settles: fn need not have waited for its tasks.
ScopeSettles(s) ==
    /\ scope[s] = "body"
    /\ scope' = [scope EXCEPT ![s] = "settled"]
    /\ UNCHANGED <<failed, task, ok, activeScopes, activeTasks>>

\* finally: activeScopes--, and the promise of the scope settles
ScopeFinally(s) ==
    /\ scope[s] = "settled"
    /\ scope' = [scope EXCEPT ![s] = "done"]
    /\ activeScopes' = activeScopes - 1
    /\ UNCHANGED <<failed, task, ok, activeTasks>>

-----------------------------------------------------------------------------
(* scope.async(taskFn)                                                     *)

\* A failed scope answers with a rejected promise, before anything is counted;
\* otherwise activeTasks++ and Promise.resolve().then(taskFn).
Async(t) ==
    /\ task[t] = "none" /\ scope[Owner[t]] \in {"body", "settled", "done"}
    /\ IF failed[Owner[t]]
         THEN task' = [task EXCEPT ![t] = "refused"] /\ UNCHANGED activeTasks
         ELSE task' = [task EXCEPT ![t] = "queued"] /\ activeTasks' = activeTasks + 1
    /\ UNCHANGED <<scope, failed, ok, activeScopes>>

TaskRun(t) ==
    /\ task[t] = "queued"
    /\ task' = [task EXCEPT ![t] = "running"]
    /\ UNCHANGED <<scope, failed, ok, activeScopes, activeTasks>>

\* taskFn returns or throws, or its promise settles.
TaskSettles(t) ==
    /\ task[t] = "running"
    /\ task' = [task EXCEPT ![t] = "settled"]
    /\ \E b \in BOOLEAN : ok' = [ok EXCEPT ![t] = b]
    /\ UNCHANGED <<scope, failed, activeScopes, activeTasks>>

\* Mutant: the failure is recorded only while the scope's function runs.
MutantCatchInBody(t) ==
    /\ task[t] = "settled"
    /\ task' = [task EXCEPT ![t] = "caught"]
    /\ failed' = [failed EXCEPT ![Owner[t]] = @ \/ (~ok[t] /\ scope[Owner[t]] = "body")]
    /\ UNCHANGED <<scope, ok, activeScopes, activeTasks>>

\* catch: state.failed = true, and the error goes on; a value passes by
TaskCatch(t) ==
    /\ task[t] = "settled"
    /\ task' = [task EXCEPT ![t] = "caught"]
    /\ failed' = [failed EXCEPT ![Owner[t]] = @ \/ ~ok[t]]
    /\ UNCHANGED <<scope, ok, activeScopes, activeTasks>>

\* Mutant: then() in place of finally().
MutantThenForFinally(t) ==
    /\ task[t] = "caught"
    /\ task' = [task EXCEPT ![t] = "done"]
    /\ activeTasks' = IF ok[t] THEN activeTasks - 1 ELSE activeTasks
    /\ UNCHANGED <<scope, failed, ok, activeScopes>>

\* finally: activeTasks--, and the promise the caller has settles
TaskFinally(t) ==
    /\ task[t] = "caught"
    /\ task' = [task EXCEPT ![t] = "done"]
    /\ activeTasks' = activeTasks - 1
    /\ UNCHANGED <<scope, failed, ok, activeScopes>>

-----------------------------------------------------------------------------
(* Kode.timeout(ms)                                                        *)

\* ms is 0 or not: only 0 ever aborts by itself, before anyone could have set
\* a handler; no timer is started for any other ms.
Timeout(c, zero) ==
    /\ signal[c] = "none"
    /\ signal' = [signal EXCEPT ![c] = IF zero THEN "aborted" ELSE "live"]
    /\ UNCHANGED <<onabort, running, calls>>

SetOnAbort(c) ==
    /\ signal[c] # "none"
    /\ \E set \in BOOLEAN : onabort' = [onabort EXCEPT ![c] = set]
    /\ UNCHANGED <<signal, running, calls>>

\* Mutant: the handler is called first, and the signal is marked afterwards.
MutantAbortLate(c) ==
    /\ signal[c] = "live"
    /\ signal' = IF onabort[c] THEN signal ELSE [signal EXCEPT ![c] = "aborted"]
    /\ running' = IF onabort[c] THEN <<c>> \o running ELSE running
    /\ calls' = IF onabort[c] THEN [calls EXCEPT ![c] = @ + 1] ELSE calls
    /\ UNCHANGED onabort

\* abort(): the signal is marked, then its handler, if any, is called.
Abort(c) ==
    /\ signal[c] = "live"
    /\ signal' = [signal EXCEPT ![c] = "aborted"]
    /\ running' = IF onabort[c] THEN <<c>> \o running ELSE running
    /\ calls' = IF onabort[c] THEN [calls EXCEPT ![c] = @ + 1] ELSE calls
    /\ UNCHANGED onabort

\* The innermost handler returns, or throws out of cancel().
HandlerReturns ==
    /\ running # <<>>
    /\ running' = Tail(running)
    /\ UNCHANGED <<signal, onabort, calls>>

SignalStep ==
    \/ \E c \in Controllers :
          (\E zero \in BOOLEAN : Timeout(c, zero)) \/ SetOnAbort(c) \/ Abort(c)
    \/ HandlerReturns

\* Reactions of the microtask queue: no handler is on the stack.
ScopeStep(s) ==
    /\ running = <<>>
    /\ ScopeBody(s) \/ ScopeSettles(s) \/ ScopeFinally(s)
    /\ UNCHANGED signalVars

TaskStep(t) ==
    /\ running = <<>>
    /\ TaskRun(t) \/ TaskSettles(t) \/ TaskCatch(t) \/ TaskFinally(t)
    /\ UNCHANGED signalVars

Next ==
    \/ \E s \in Scopes : ScopeStep(s) \/ (ScopeCall(s) /\ UNCHANGED signalVars)
    \/ \E t \in Tasks : TaskStep(t) \/ (Async(t) /\ UNCHANGED signalVars)
    \/ SignalStep /\ UNCHANGED scopeVars

Spec == Init /\ [][Next]_vars

\* Reactions run, and the user's functions and handlers return; nobody has to
\* call.
Fairness ==
    /\ WF_vars(HandlerReturns /\ UNCHANGED scopeVars)
    /\ \A s \in Scopes : WF_vars(ScopeStep(s))
    /\ \A t \in Tasks : WF_vars(TaskStep(t))

FairSpec == Spec /\ Fairness

-----------------------------------------------------------------------------
(* Correctness                                                             *)

\* Kode.activeOperations() is exact at every moment between two reactions:
\* failures, refused calls and calls on a scope that is done are counted in
\* and out once.
CountsExact ==
    /\ activeScopes = Cardinality({s \in Scopes : scope[s] \in {"called", "body", "settled"}})
    /\ activeTasks = Cardinality({t \in Tasks : task[t] \in {"queued", "running", "settled", "caught"}})

\* tests/structured_scope_failure.js: who has seen a task of the scope fail, by
\* awaiting it, finds the scope failed; the call of scope.async that follows is
\* refused.
FailureSeenIsRecorded ==
    \A t \in Tasks : task[t] = "done" /\ ~ok[t] => failed[Owner[t]]

\* tests/structured_scope_diagnostics.js: when all functions have settled, the
\* counters go back to zero and stay there.
CountersDrain == <>[](activeScopes = 0 /\ activeTasks = 0)

\* tests/kode_timeout_basic.js: the handler of a signal hears of the abort once,
\* also when it cancels its own controller, or another one whose handler
\* cancels this one, and never unless the signal is aborted.
OnabortOnce ==
    \A c \in Controllers : calls[c] = 0 \/ (calls[c] = 1 /\ signal[c] = "aborted")
=============================================================================
