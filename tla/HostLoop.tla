------------------------------- MODULE HostLoop -------------------------------
(***************************************************************************)
(* One invocation of kode: main() picks a mode by its arguments;           *)
(* KodeRuntime runs a script in V8, or the scripts of the demo;            *)
(* ResolveTopLevelPromise() turns the libuv loop while the script's        *)
(* promise is pending, RunEventLoop() drains the loop, Shutdown() disposes *)
(* of the isolate.  (src/src/main.cc, core/runtime.cc, v8/engine.cc)       *)
(*                                                                         *)
(* The asynchronous operations are Kode.sleep (a libuv timer,              *)
(* v8/kode_host.cc), the promise calls of kode:fs and the old callback     *)
(* call fs.readFile (v8/builtins/fs.cc over filesystem/modern_fs.cc, whose *)
(* work runs on the thread pool).                                          *)
(*                                                                         *)
(* V8 runs microtasks only at explicit checkpoints (MicrotasksPolicy       *)
(* kExplicit).  An operation stands for one promise with one reaction; the *)
(* reaction is a microtask in `jobs` from the time the promise is settled  *)
(* until a checkpoint runs it.  The program is arbitrary: whenever its     *)
(* JavaScript runs it may start an operation, cancel the signal it gave to *)
(* the operations in Signalled, or settle the promise of the script.       *)
(***************************************************************************)
EXTENDS Naturals, Sequences, FiniteSets

CONSTANTS Sleeps,     \* calls of Kode.sleep
          Works,      \* calls of fs.read, readText, write and info
          Legacy,     \* calls of fs.readFile with a callback
          Signalled   \* the operations that are given the signal

ASSUME OpsAssumption ==
    /\ Sleeps \cap Works = {} /\ Legacy \cap (Sleeps \cup Works) = {}
    /\ Signalled \subseteq Sleeps \cup Works

Ops == Sleeps \cup Works \cup Legacy

\* Command lines: only the first argument, and whether -e has another one,
\* decide what main() does.
Invocations == {<<>>, <<"--help">>, <<"--version">>, <<"-e">>, <<"-e", "code">>,
                <<"script">>, <<"-other">>}

\* The calls of ExecuteString() that the demo makes.
DemoScripts == 6

VARIABLES
    mode,        \* what main() has been asked for
    v8,          \* V8 is there, initialised, and not disabled by KODE_USE_V8=0
    readable,    \* ExecuteFile() can open the script
    left,        \* scripts of the demo still to be run
    phase,       \* where main() is
    checkpoint,  \* a microtask checkpoint is in progress
    turn,        \* inside the uv_run(UV_RUN_ONCE) of ResolveTopLevelPromise
    op,          \* operation -> state of its handle or request
    promise,     \* operation -> state of its promise
    jobs,        \* operations whose reaction is queued
    aborted,     \* signal.aborted
    top,         \* the script's result: no promise, or the state of one
    threw,       \* the script itself threw
    success      \* the exit status of main()

invocation == <<mode, v8, readable>>
state == <<left, phase, checkpoint, turn, op, promise, jobs, aborted, top, threw, success>>
vars == <<invocation, state>>

TypeOK ==
    /\ mode \in {"demo", "help", "version", "code", "file", "unknown"}
    /\ v8 \in BOOLEAN /\ readable \in BOOLEAN
    /\ left \in 0 .. DemoScripts
    /\ phase \in {"start", "script", "toplevel", "drain", "down"}
    /\ checkpoint \in BOOLEAN /\ turn \in BOOLEAN
    /\ op \in [Ops -> {"none", "active", "worked", "closing", "closed"}]
    /\ promise \in [Ops -> {"none", "pending", "fulfilled", "rejected"}]
    /\ jobs \subseteq Ops
    /\ aborted \in BOOLEAN
    /\ top \in {"none", "pending", "fulfilled", "rejected"}
    /\ threw \in BOOLEAN /\ success \in BOOLEAN

\* The loop over the arguments breaks at the first one, whatever it is.
Mode(args) ==
    IF args = <<>> THEN "demo" ELSE
    CASE args[1] = "--help" -> "help"
      [] args[1] = "--version" -> "version"
      [] args[1] = "-e" /\ Len(args) > 1 -> "code"
      [] args[1] = "script" -> "file"
      [] OTHER -> "unknown"

\* The arguments are read and Initialize() is through: it returns what
\* ConcurrencyRuntime::initialize() returns, which is always true.
Init ==
    /\ \E args \in Invocations : mode = Mode(args)
    /\ v8 \in BOOLEAN
    /\ readable \in BOOLEAN /\ (mode # "file" => readable)
    /\ left = 0
    /\ phase = "start"
    /\ checkpoint = FALSE /\ turn = FALSE
    /\ op = [o \in Ops |-> "none"]
    /\ promise = [o \in Ops |-> "none"]
    /\ jobs = {}
    /\ aborted = FALSE
    /\ top = "none"
    /\ threw = FALSE /\ success = TRUE

\* uv_loop_alive(): active or closing handles, or requests
Alive == \E o \in Ops : op[o] \in {"active", "worked", "closing"}

-----------------------------------------------------------------------------
(* What JavaScript may do while it runs                                    *)

\* A signalled operation whose signal is aborted is rejected at once.
Refused(o, ab) == o \in Signalled /\ ab

\* Timers are started and requests queued for the calls in S.
Start(h, S) == [o \in Ops |-> IF o \in S THEN "active" ELSE h[o]]

\* The promise a call gives back.
NewPromise(refused) == IF refused THEN "rejected" ELSE "pending"

\* A piece of JavaScript, from the state the callback that called it has made:
\* h is the handles, r the promise states, q the queued jobs.  It may cancel the signal, then start at most one operation.
JavaScript(h, r, q) ==
    \E ab \in {aborted, TRUE}, S \in SUBSET {o \in Ops : h[o] = "none" /\ r[o] = "none"} :
        LET refused == {o \in S : Refused(o, ab)} IN
        /\ Cardinality(S) <= 1
        /\ aborted' = ab
        /\ op' = Start(h, S \ refused)
        /\ promise' = [o \in Ops |-> IF o \in S THEN NewPromise(o \in refused) ELSE r[o]]
        /\ jobs' = q \cup refused

\* The promise of the script may be settled by what runs.
SettleTop == top' = top \/ (top = "pending" /\ top' \in {"fulfilled", "rejected"})

-----------------------------------------------------------------------------
(* main() and ExecuteString()                                              *)

\* Where main() goes when a call of ExecuteString() has ended with `done`: the
\* demo does not look at it and makes its next call.
Executed(done) ==
    /\ success' = (IF mode = "demo" THEN success ELSE done)
    /\ left' = IF left > 0 THEN left - 1 ELSE 0
    /\ phase' = IF left > 0 THEN "script" ELSE "drain"

\* Help and version print; an unknown option, a file that cannot be opened, and
\* any script without V8 fail; the other modes call runScript().
Dispatch ==
    /\ phase = "start"
    /\ LET runs == \/ mode \in {"demo", "code"} /\ v8
                   \/ mode = "file" /\ readable /\ v8
       IN  /\ phase' = IF runs THEN "script" ELSE "drain"
           /\ left' = IF runs /\ mode = "demo" THEN DemoScripts - 1 ELSE 0
           /\ success' = (runs \/ mode \in {"demo", "help", "version"})
    /\ UNCHANGED <<checkpoint, turn, op, promise, jobs, aborted, top, threw>>

-----------------------------------------------------------------------------
(* runScript()                                                             *)

\* (The scripts of the demo start nothing.)
ScriptStep ==
    /\ phase = "script" /\ mode # "demo"
    /\ JavaScript(op, promise, jobs)
    /\ UNCHANGED <<left, phase, checkpoint, turn, top, threw, success>>

\* The script returns: a checkpoint, then ResolveTopLevelPromise().
ScriptReturns ==
    /\ phase = "script"
    /\ top' \in {"none", "pending", "fulfilled", "rejected"}
    /\ mode = "demo" => top' = "none"
    /\ phase' = "toplevel"
    /\ checkpoint' = TRUE
    /\ UNCHANGED <<left, turn, op, promise, jobs, aborted, threw, success>>

\* The script throws, or does not compile: an error is returned without a
\* checkpoint.
ScriptThrows ==
    /\ phase = "script"
    /\ threw' = TRUE
    /\ Executed(FALSE)
    /\ UNCHANGED <<checkpoint, turn, op, promise, jobs, aborted, top>>

-----------------------------------------------------------------------------
(* PerformMicrotaskCheckpoint()                                            *)

RunJob(o) ==
    /\ checkpoint /\ o \in jobs
    /\ JavaScript(op, promise, jobs \ {o})
    /\ SettleTop
    /\ UNCHANGED <<left, phase, checkpoint, turn, threw, success>>

EndCheckpoint ==
    /\ checkpoint /\ jobs = {}
    /\ checkpoint' = FALSE
    /\ UNCHANGED <<left, phase, turn, op, promise, jobs, aborted, top, threw, success>>

-----------------------------------------------------------------------------
(* The loop: ResolveTopLevelPromise() and RunEventLoop()                   *)

\* uv_run is on the stack and no JavaScript is.
InLoop ==
    /\ ~checkpoint
    /\ \/ phase = "drain"
       \/ phase = "toplevel" /\ (turn \/ (top = "pending" /\ Alive))

\* The loop has done something: a turn of UV_RUN_ONCE is under way.
Turned == turn' = (phase = "toplevel")

\* Resolve() or Reject() of o's promise to r queues its reaction.
Settle(o, r) ==
    /\ promise' = [promise EXCEPT ![o] = r]
    /\ jobs' = jobs \cup {o}

\* SleepTimerCallback(): resolve, checkpoint, stop and close the timer.
SleepTimer(o) ==
    /\ InLoop /\ o \in Sleeps /\ op[o] = "active"
    /\ Settle(o, "fulfilled")
    /\ op' = [op EXCEPT ![o] = "closing"]
    /\ checkpoint' = TRUE
    /\ Turned
    /\ UNCHANGED <<left, phase, aborted, top, threw, success>>

\* The close callback deletes the SleepReq.
SleepClosed(o) ==
    /\ InLoop /\ o \in Sleeps /\ op[o] = "closing"
    /\ op' = [op EXCEPT ![o] = "closed"]
    /\ Turned
    /\ UNCHANGED <<left, phase, checkpoint, promise, jobs, aborted, top, threw, success>>

\* workCallback(), on a thread of the pool, whatever the main thread does
PoolWork(o) ==
    /\ o \in Works \cup Legacy /\ op[o] = "active"
    /\ op' = [op EXCEPT ![o] = "worked"]
    /\ UNCHANGED <<left, phase, checkpoint, turn, promise, jobs, aborted, top, threw, success>>

\* Mutant: no checkpoint after the promise is settled.
MutantNoCheckpoint(o) ==
    /\ InLoop /\ o \in Works /\ op[o] = "worked"
    /\ \E r \in {"fulfilled", "rejected"} : Settle(o, r)
    /\ op' = [op EXCEPT ![o] = "closed"]
    /\ Turned
    /\ UNCHANGED <<left, phase, checkpoint, aborted, top, threw, success>>

\* afterWorkCallback() and the lambda of the fs call: settle by the result,
\* checkpoint, delete.
AfterWork(o) ==
    /\ InLoop /\ o \in Works /\ op[o] = "worked"
    /\ \E r \in {"fulfilled", "rejected"} : Settle(o, r)
    /\ op' = [op EXCEPT ![o] = "closed"]
    /\ checkpoint' = TRUE
    /\ Turned
    /\ UNCHANGED <<left, phase, aborted, top, threw, success>>

\* afterWorkCallback() of fs.readFile: the callback is called, and may settle a
\* promise of its own; there is no checkpoint.
AfterLegacy(o) ==
    /\ InLoop /\ o \in Legacy /\ op[o] = "worked"
    /\ \E r \in {"pending", "fulfilled"} :
         JavaScript([op EXCEPT ![o] = "closed"], [promise EXCEPT ![o] = r],
                    IF r = "fulfilled" THEN jobs \cup {o} ELSE jobs)
    /\ SettleTop
    /\ Turned
    /\ UNCHANGED <<left, phase, checkpoint, threw, success>>

\* uv_run(UV_RUN_ONCE) returns: a checkpoint.
EndTurn ==
    /\ phase = "toplevel" /\ turn /\ ~checkpoint
    /\ turn' = FALSE
    /\ checkpoint' = TRUE
    /\ UNCHANGED <<left, phase, op, promise, jobs, aborted, top, threw, success>>

\* ExecuteString(): no error came back from runScript()
NoError == top # "rejected"

\* Mutant: the script's promise is looked at once and not waited for.
MutantNoWait ==
    /\ phase = "toplevel" /\ ~checkpoint /\ ~turn
    /\ Executed(NoError)
    /\ UNCHANGED <<checkpoint, turn, op, promise, jobs, aborted, top, threw>>

\* Mutant: the script's promise is waited for, alive or not.
MutantWaitForever ==
    /\ phase = "toplevel" /\ ~checkpoint /\ ~turn
    /\ top # "pending"
    /\ Executed(NoError)
    /\ UNCHANGED <<checkpoint, turn, op, promise, jobs, aborted, top, threw>>

\* ResolveTopLevelPromise() returns, and runScript() and ExecuteString().
TopLevelDone ==
    /\ phase = "toplevel" /\ ~checkpoint /\ ~turn
    /\ ~(top = "pending" /\ Alive)
    /\ Executed(NoError)
    /\ UNCHANGED <<checkpoint, turn, op, promise, jobs, aborted, top, threw>>

\* Mutant: after a failure main() does not drain the loop.
MutantFailSkipsDrain ==
    /\ phase = "drain" /\ ~checkpoint
    /\ success => ~Alive
    /\ phase' = "down"
    /\ UNCHANGED <<left, checkpoint, turn, op, promise, jobs, aborted, top, threw, success>>

\* uv_run(UV_RUN_DEFAULT) returns when the loop is not alive; Shutdown().
Shutdown ==
    /\ phase = "drain" /\ ~checkpoint
    /\ ~Alive
    /\ phase' = "down"
    /\ UNCHANGED <<left, checkpoint, turn, op, promise, jobs, aborted, top, threw, success>>

Exited == phase = "down" /\ UNCHANGED vars

-----------------------------------------------------------------------------

LoopStep(o) == SleepTimer(o) \/ SleepClosed(o) \/ AfterWork(o) \/ AfterLegacy(o)

MainStep ==
    \/ Dispatch \/ ScriptReturns \/ ScriptThrows
    \/ EndCheckpoint \/ EndTurn \/ TopLevelDone \/ Shutdown

Next ==
    \/ /\ \/ ScriptStep \/ MainStep
          \/ \E o \in Ops : RunJob(o) \/ LoopStep(o) \/ PoolWork(o)
       /\ UNCHANGED invocation
    \/ Exited

Spec == Init /\ [][Next]_vars

\* The script ends, V8 and the main thread go on, timers expire, the pool works,
\* and the loop delivers every event in the end.
Fairness ==
    /\ WF_state(Dispatch) /\ WF_state(ScriptReturns)
    /\ WF_state(EndCheckpoint) /\ WF_state(EndTurn) /\ WF_state(TopLevelDone) /\ WF_state(Shutdown)
    /\ \A o \in Ops : WF_state(RunJob(o)) /\ SF_state(LoopStep(o)) /\ WF_state(PoolWork(o))

FairSpec == Spec /\ Fairness

-----------------------------------------------------------------------------
(* Correctness                                                             *)

\* docs/superpowers/specs/2026-05-10-better-node-runtime-design.md:85 "Native
\* callbacks must not run into a destroyed scope or isolate": when Shutdown()
\* has disposed of the isolate, no timer, request or pool work is left, and no
\* promise of an operation pending, also after a script that failed: none was
\* forgotten between the two loops of runScript() and main().
NothingAfterDispose ==
    phase = "down" => ~Alive /\ \A o \in Sleeps \cup Works : promise[o] # "pending"

\* main() reports a failure exactly if the option is unknown, the script could
\* not be run, it threw or its promise was rejected, however late the rejection
\* came; the demo reports none, though four of its scripts throw.
OutcomeReported ==
    phase = "down" =>
        (success <=> \/ mode \in {"demo", "help", "version"}
                     \/ /\ mode = "code" \/ (mode = "file" /\ readable)
                        /\ v8 /\ ~threw /\ top # "rejected")

\* src/src/main.cc:112 draining the loop "keeps host promises reliable": when
\* the process ends, the reaction to what a timer or the thread pool settled has
\* run, in whichever of the two loops that was and whatever the script did.  A
\* call that is refused at once (op "none") has its reaction run too, with two
\* exceptions that the code makes: a script that throws is not followed by a
\* checkpoint (v8/engine.cc:212-217), and neither is a callback of the old
\* fs.readFile; what they settled may then stay unrun.
ReactionsRun ==
    phase = "down" =>
        /\ \A o \in jobs \ Legacy : op[o] = "none"
        /\ ~threw /\ (\A o \in Legacy : op[o] = "none") => jobs = {}

\* The process ends, in every mode.
Terminates == <>(phase = "down")
=============================================================================
