---------------------------- MODULE HostLoopProofs ----------------------------
(***************************************************************************)
(* Proofs about one invocation of kode: however the program starts its     *)
(* operations and whenever their events come, nothing is left behind when  *)
(* the isolate is disposed of, the exit status is that of the script, and  *)
(* the reactions have run.                                                 *)
(*                                                                         *)
(* The three invariants speak of the end (phase "down").  Each is carried  *)
(* there by a condition on every state before it: a pending promise has    *)
(* its handle or request (PendingHasHandle); outside a checkpoint no       *)
(* reaction waits (ReactionsDue); and once main() drains the loop, the     *)
(* status is final, as a promise of the script that is then still pending  *)
(* has nothing left that could settle it (PendingIsIdle).  A script that   *)
(* threw may leave reactions of refused calls behind, but none of what the *)
(* loop settled (Served).                                                  *)
(***************************************************************************)
EXTENDS HostLoop, TLAPS

OpStates == {"none", "active", "worked", "closing", "closed"}
PromiseStates == {"none", "pending", "fulfilled", "rejected"}

\* The parts of TypeOK: what main() decides by, where it is, and the operations.
MainType ==
    /\ mode \in {"demo", "help", "version", "code", "file", "unknown"}
    /\ v8 \in BOOLEAN /\ readable \in BOOLEAN
    /\ left \in 0 .. DemoScripts
    /\ phase \in {"start", "script", "toplevel", "drain", "down"}
    /\ checkpoint \in BOOLEAN /\ turn \in BOOLEAN
    /\ top \in {"none", "pending", "fulfilled", "rejected"}
    /\ threw \in BOOLEAN /\ success \in BOOLEAN

OpsType ==
    /\ op \in [Ops -> OpStates]
    /\ promise \in [Ops -> PromiseStates]
    /\ jobs \subseteq Ops
    /\ aborted \in BOOLEAN

LEMMA TypeParts == TypeOK <=> MainType /\ OpsType
  BY DEF TypeOK, MainType, OpsType, OpStates, PromiseStates

\* A step changes the operations in one of two ways only: it runs JavaScript,
\* from states h, r, q of the handles, promises and jobs, which starts what was
\* not there; or it moves one operation on.  What the invariants need of the
\* first:
LEMMA JavaScriptEffect ==
  ASSUME NEW STATE h, NEW STATE r, NEW STATE q,
         h \in [Ops -> OpStates], r \in [Ops -> PromiseStates], q \subseteq Ops,
         aborted \in BOOLEAN, JavaScript(h, r, q)
  PROVE  /\ op' \in [Ops -> OpStates] /\ promise' \in [Ops -> PromiseStates]
         /\ jobs' \subseteq Ops /\ aborted' \in BOOLEAN
         /\ \A o \in Ops : h[o] # "none" => op'[o] = h[o]
         /\ \A o \in Ops : op'[o] = h[o] \/ op'[o] = "active"
         /\ \A o \in Ops : promise'[o] = "pending" =>
                op'[o] = "active" \/ (promise'[o] = r[o] /\ op'[o] = h[o])
  <1>1. PICK ab \in {aborted, TRUE}, S \in SUBSET {o \in Ops : h[o] = "none" /\ r[o] = "none"} :
          /\ aborted' = ab
          /\ op' = Start(h, S \ {o \in S : Refused(o, ab)})
          /\ promise' = [o \in Ops |-> IF o \in S THEN NewPromise(o \in {oo \in S : Refused(oo, ab)}) ELSE r[o]]
          /\ jobs' = q \cup {o \in S : Refused(o, ab)}
    BY DEF JavaScript
  <1> DEFINE refused == {o \in S : Refused(o, ab)}
  <1>2. refused \subseteq S /\ S \subseteq Ops /\ \A o \in S : h[o] = "none"
    OBVIOUS
  <1> HIDE DEF refused
  <1>3. op' = [o \in Ops |-> IF o \in S \ refused THEN "active" ELSE h[o]]
    BY <1>1 DEF Start, refused
  <1>4. promise' = [o \in Ops |-> IF o \in S THEN (IF o \in refused THEN "rejected" ELSE "pending") ELSE r[o]]
    BY <1>1 DEF NewPromise, refused
  <1>5. jobs' = q \cup refused
    BY <1>1 DEF refused
  <1>6. op' \in [Ops -> OpStates]
    BY <1>3 DEF OpStates
  <1>7. promise' \in [Ops -> PromiseStates]
    BY <1>4 DEF PromiseStates
  <1>8. jobs' \subseteq Ops /\ aborted' \in BOOLEAN
    BY <1>1, <1>2, <1>5
  <1>9. \A o \in Ops : h[o] # "none" => op'[o] = h[o]
    BY <1>2, <1>3
  <1>10. \A o \in Ops : op'[o] = h[o] \/ op'[o] = "active"
    BY <1>3
  <1>11. \A o \in Ops : promise'[o] = "pending" =>
                op'[o] = "active" \/ (promise'[o] = r[o] /\ op'[o] = h[o])
    <2> SUFFICES ASSUME NEW o \in Ops, promise'[o] = "pending"
                 PROVE  op'[o] = "active" \/ (promise'[o] = r[o] /\ op'[o] = h[o])
      OBVIOUS
    <2>1. CASE o \in S
      <3>1. o \notin refused
        BY <2>1, <1>4
      <3> QED BY <3>1, <2>1, <1>3
    <2>2. CASE o \notin S
      BY <2>2, <1>3, <1>4
    <2> QED BY <2>1, <2>2
  <1> QED BY <1>6, <1>7, <1>8, <1>9, <1>10, <1>11

-----------------------------------------------------------------------------
(* The inductive invariant                                                 *)

\* Main() has its checkpoints and its turns where it runs the loop.
CheckpointInLoop ==
    /\ checkpoint => phase \in {"toplevel", "drain"}
    /\ turn => phase = "toplevel"

\* A promise of Kode.sleep or of kode:fs that is pending has a timer that has
\* not expired or a request that has not come back.
PendingHasHandle ==
    \A o \in Sleeps \cup Works : promise[o] = "pending" => op[o] \in {"active", "worked"}

\* When the isolate is gone, so are the handles and requests.
GoneIsIdle == phase = "down" => ~Alive /\ ~checkpoint

\* No call of the old fs.readFile has been made.
NoLegacy == \A o \in Legacy : op[o] = "none"

\* A reaction waits only while the script runs or a checkpoint is in progress.
ReactionsDue ==
    phase # "script" /\ ~checkpoint /\ ~threw /\ NoLegacy => jobs = {}

\* Which scripts run, and what is known of them while they do.
ScriptRuns ==
    /\ phase \in {"script", "toplevel"} =>
           v8 /\ (mode \in {"demo", "code"} \/ (mode = "file" /\ readable)) /\ success
    /\ phase \in {"start", "script"} => top = "none"
    /\ phase \in {"start", "script", "toplevel"} /\ mode # "demo" => ~threw
    /\ mode = "demo" => top = "none" /\ success
    /\ left > 0 => mode = "demo"

\* A script's promise that is pending when main() drains the loop stays so.
PendingIsIdle ==
    phase = "drain" /\ top = "pending" => ~Alive /\ ~checkpoint

\* The status is final from the time on when main() drains the loop.
StatusFinal ==
    phase \in {"drain", "down"} =>
        (success <=> \/ mode \in {"demo", "help", "version"}
                     \/ /\ mode = "code" \/ (mode = "file" /\ readable)
                        /\ v8 /\ ~threw /\ top # "rejected")

IInv ==
    /\ TypeOK /\ CheckpointInLoop /\ PendingHasHandle /\ GoneIsIdle
    /\ ReactionsDue /\ ScriptRuns /\ PendingIsIdle /\ StatusFinal

-----------------------------------------------------------------------------
(* The operations                                                          *)

\* What every step keeps of the operations.
OpsKept == OpsType' /\ PendingHasHandle' /\ (NoLegacy' => NoLegacy)

\* The handles, promises and jobs stay as they are.
LEMMA OpsUnchanged ==
  ASSUME OpsType, PendingHasHandle, UNCHANGED <<op, promise, jobs, aborted>>
  PROVE  OpsKept
  BY DEF OpsType, PendingHasHandle, NoLegacy, OpsKept

\* JavaScript runs from where the operations are, or from where the callback of
\* an old fs.readFile has brought them.
LEMMA OpsJavaScript ==
  ASSUME NEW STATE h, NEW STATE r, NEW STATE q,
         h \in [Ops -> OpStates], r \in [Ops -> PromiseStates], q \subseteq Ops,
         aborted \in BOOLEAN, JavaScript(h, r, q),
         \A o \in Sleeps \cup Works : r[o] = "pending" => h[o] \in {"active", "worked"},
         (\A o \in Legacy : h[o] = "none") => NoLegacy
  PROVE  OpsKept
  <1>1. OpsType'
    BY JavaScriptEffect DEF OpsType
  <1>2. PendingHasHandle'
    <2> SUFFICES ASSUME NEW o \in Sleeps \cup Works, promise'[o] = "pending"
                 PROVE  op'[o] \in {"active", "worked"}
      BY DEF PendingHasHandle
    <2>1. o \in Ops
      BY DEF Ops
    <2> QED BY <2>1, JavaScriptEffect
  <1>3. NoLegacy' => NoLegacy
    <2> SUFFICES ASSUME NoLegacy' PROVE \A o \in Legacy : h[o] = "none"
      OBVIOUS
    <2> TAKE o \in Legacy
    <2>1. o \in Ops
      BY DEF Ops
    <2> QED BY <2>1, JavaScriptEffect DEF NoLegacy
  <1> QED BY <1>1, <1>2, <1>3 DEF OpsKept

LEMMA OpsScriptStep ==
  ASSUME OpsType, PendingHasHandle, JavaScript(op, promise, jobs)
  PROVE  OpsKept
  <1>1. /\ op \in [Ops -> OpStates] /\ promise \in [Ops -> PromiseStates] /\ jobs \subseteq Ops
        /\ aborted \in BOOLEAN
    BY DEF OpsType
  <1>2. \A o \in Sleeps \cup Works : promise[o] = "pending" => op[o] \in {"active", "worked"}
    BY DEF PendingHasHandle
  <1>3. (\A o \in Legacy : op[o] = "none") => NoLegacy
    BY DEF NoLegacy
  <1> QED BY <1>1, <1>2, <1>3, OpsJavaScript

LEMMA OpsRunJob ==
  ASSUME OpsType, PendingHasHandle, NEW oo \in Ops, JavaScript(op, promise, jobs \ {oo})
  PROVE  OpsKept
  <1>1. /\ op \in [Ops -> OpStates] /\ promise \in [Ops -> PromiseStates] /\ jobs \ {oo} \subseteq Ops
        /\ aborted \in BOOLEAN
    BY DEF OpsType
  <1>2. \A o \in Sleeps \cup Works : promise[o] = "pending" => op[o] \in {"active", "worked"}
    BY DEF PendingHasHandle
  <1>3. (\A o \in Legacy : op[o] = "none") => NoLegacy
    BY DEF NoLegacy
  <1> QED BY <1>1, <1>2, <1>3, OpsJavaScript

LEMMA OpsSleepTimer ==
  ASSUME OpsType, PendingHasHandle, NEW o \in Ops, SleepTimer(o)
  PROVE  OpsKept
  <1>1. /\ o \in Sleeps
        /\ op' = [op EXCEPT ![o] = "closing"]
        /\ promise' = [promise EXCEPT ![o] = "fulfilled"]
        /\ jobs' = jobs \cup {o} /\ aborted' = aborted
    BY DEF SleepTimer, Settle
  <1>2. OpsType'
    BY <1>1 DEF OpsType, OpStates, PromiseStates
  <1>3. PendingHasHandle'
    BY <1>1 DEF OpsType, PendingHasHandle, Ops
  <1>4. NoLegacy' => NoLegacy
    BY <1>1, OpsAssumption DEF OpsType, NoLegacy, Ops
  <1> QED BY <1>2, <1>3, <1>4 DEF OpsKept

LEMMA OpsSleepClosed ==
  ASSUME OpsType, PendingHasHandle, NEW o \in Ops, SleepClosed(o)
  PROVE  OpsKept
  <1>1. /\ o \in Sleeps /\ op[o] = "closing"
        /\ op' = [op EXCEPT ![o] = "closed"]
        /\ promise' = promise /\ jobs' = jobs /\ aborted' = aborted
    BY DEF SleepClosed
  <1>2. OpsType'
    BY <1>1 DEF OpsType, OpStates, PromiseStates
  <1>3. PendingHasHandle'
    BY <1>1 DEF OpsType, PendingHasHandle, Ops
  <1>4. NoLegacy' => NoLegacy
    BY <1>1, OpsAssumption DEF OpsType, NoLegacy, Ops
  <1> QED BY <1>2, <1>3, <1>4 DEF OpsKept

LEMMA OpsPoolWork ==
  ASSUME OpsType, PendingHasHandle, NEW o \in Ops, PoolWork(o)
  PROVE  OpsKept
  <1>1. /\ op[o] = "active"
        /\ op' = [op EXCEPT ![o] = "worked"]
        /\ promise' = promise /\ jobs' = jobs /\ aborted' = aborted
    BY DEF PoolWork
  <1>2. OpsType'
    BY <1>1 DEF OpsType, OpStates, PromiseStates
  <1>3. PendingHasHandle'
    BY <1>1 DEF OpsType, PendingHasHandle, Ops
  <1>4. NoLegacy' => NoLegacy
    BY <1>1 DEF OpsType, NoLegacy, Ops
  <1> QED BY <1>2, <1>3, <1>4 DEF OpsKept

LEMMA OpsAfterWork ==
  ASSUME OpsType, PendingHasHandle, NEW o \in Ops, AfterWork(o)
  PROVE  OpsKept
  <1>1. PICK r \in {"fulfilled", "rejected"} :
        /\ o \in Works /\ op[o] = "worked"
        /\ op' = [op EXCEPT ![o] = "closed"]
        /\ promise' = [promise EXCEPT ![o] = r]
        /\ jobs' = jobs \cup {o} /\ aborted' = aborted
    BY DEF AfterWork, Settle
  <1>2. OpsType'
    BY <1>1 DEF OpsType, OpStates, PromiseStates
  <1>3. PendingHasHandle'
    BY <1>1 DEF OpsType, PendingHasHandle, Ops
  <1>4. NoLegacy' => NoLegacy
    BY <1>1, OpsAssumption DEF OpsType, NoLegacy, Ops
  <1> QED BY <1>2, <1>3, <1>4 DEF OpsKept

LEMMA OpsAfterLegacy ==
  ASSUME OpsType, PendingHasHandle, NEW o \in Ops, AfterLegacy(o)
  PROVE  OpsKept /\ ~NoLegacy'
  <1>1. PICK r \in {"pending", "fulfilled"} :
         JavaScript([op EXCEPT ![o] = "closed"], [promise EXCEPT ![o] = r],
                    IF r = "fulfilled" THEN jobs \cup {o} ELSE jobs)
    BY DEF AfterLegacy
  <1>2. o \in Legacy
    BY DEF AfterLegacy
  <1> DEFINE h == [op EXCEPT ![o] = "closed"]
             p == [promise EXCEPT ![o] = r]
             q == IF r = "fulfilled" THEN jobs \cup {o} ELSE jobs
  <1>3. /\ h \in [Ops -> OpStates] /\ p \in [Ops -> PromiseStates] /\ q \subseteq Ops
        /\ aborted \in BOOLEAN
    BY DEF OpsType, OpStates, PromiseStates
  <1>4. \A u \in Sleeps \cup Works : p[u] = "pending" => h[u] \in {"active", "worked"}
    BY <1>2, OpsAssumption DEF OpsType, PendingHasHandle, Ops
  <1>5. h[o] = "closed"
    BY DEF OpsType
  <1>6. JavaScript(h, p, q)
    BY <1>1
  <1> HIDE DEF h, p, q
  <1>7. (\A u \in Legacy : h[u] = "none") => NoLegacy
    BY <1>2, <1>5
  <1>8. OpsKept
    BY <1>3, <1>4, <1>6, <1>7, OpsJavaScript
  <1>9. op'[o] = "closed"
    BY <1>3, <1>5, <1>6, JavaScriptEffect
  <1> QED BY <1>2, <1>8, <1>9 DEF NoLegacy

-----------------------------------------------------------------------------
(* main(), the checkpoints and the loop                                    *)

Control ==
    /\ MainType /\ CheckpointInLoop /\ GoneIsIdle
    /\ ReactionsDue /\ ScriptRuns /\ PendingIsIdle /\ StatusFinal

LEMMA IInvParts == IInv <=> OpsType /\ PendingHasHandle /\ Control
  BY TypeParts DEF IInv, Control

LEMMA IInvNext == OpsType' /\ PendingHasHandle' /\ Control' => IInv'
  BY DEF IInv, Control, TypeOK, MainType, OpsType, OpStates, PromiseStates

\* The operations stay as they are, and with them whether the loop is alive.
LEMMA AliveUnchanged == UNCHANGED op => Alive' = Alive /\ NoLegacy' = NoLegacy
  BY DEF Alive, NoLegacy

LEMMA ControlDispatch ==
  ASSUME Control, Dispatch, UNCHANGED invocation PROVE Control'
  <1>1. Alive' = Alive /\ NoLegacy' = NoLegacy
    BY AliveUnchanged DEF Dispatch
  <1>2. MainType'
    BY DEF Control, MainType, Dispatch, invocation, DemoScripts
  <1>3. CheckpointInLoop'
    BY DEF Control, MainType, CheckpointInLoop, Dispatch
  <1>4. GoneIsIdle'
    BY DEF Dispatch, GoneIsIdle
  <1>5. ReactionsDue'
    BY <1>1 DEF Control, ReactionsDue, Dispatch
  <1>6. ScriptRuns'
    BY DEF Control, MainType, ScriptRuns, Dispatch, invocation, DemoScripts
  <1>7. PendingIsIdle'
    BY DEF Control, ScriptRuns, PendingIsIdle, Dispatch
  <1>8. StatusFinal'
    BY DEF Control, MainType, ScriptRuns, StatusFinal, Dispatch, invocation
  <1> QED BY <1>2, <1>3, <1>4, <1>5, <1>6, <1>7, <1>8 DEF Control

LEMMA ControlScriptStep ==
  ASSUME Control, ScriptStep, UNCHANGED invocation PROVE Control'
  <1>1. /\ phase = "script"
        /\ UNCHANGED <<mode, v8, readable, left, phase, checkpoint, turn, top, threw, success>>
    BY DEF ScriptStep, invocation
  <1>2. MainType'
    BY <1>1 DEF Control, MainType
  <1>3. CheckpointInLoop' /\ GoneIsIdle' /\ ReactionsDue' /\ PendingIsIdle' /\ StatusFinal'
    BY <1>1 DEF Control, CheckpointInLoop, GoneIsIdle, ReactionsDue, PendingIsIdle, StatusFinal
  <1>4. ScriptRuns'
    BY <1>1 DEF Control, ScriptRuns
  <1> QED BY <1>2, <1>3, <1>4 DEF Control

LEMMA ControlScriptReturns ==
  ASSUME Control, ScriptReturns, UNCHANGED invocation PROVE Control'
  <1>1. /\ phase = "script" /\ phase' = "toplevel" /\ checkpoint' = TRUE
        /\ top' \in {"none", "pending", "fulfilled", "rejected"}
        /\ mode = "demo" => top' = "none"
        /\ UNCHANGED <<mode, v8, readable, left, turn, threw, success>>
    BY DEF ScriptReturns, invocation
  <1>2. MainType'
    BY <1>1 DEF Control, MainType
  <1>3. CheckpointInLoop' /\ GoneIsIdle' /\ ReactionsDue' /\ PendingIsIdle' /\ StatusFinal'
    BY <1>1 DEF Control, CheckpointInLoop, GoneIsIdle, ReactionsDue, PendingIsIdle, StatusFinal
  <1>4. ScriptRuns'
    BY <1>1 DEF Control, ScriptRuns
  <1> QED BY <1>2, <1>3, <1>4 DEF Control

\* The two ends of a call of ExecuteString().
LEMMA ControlScriptThrows ==
  ASSUME Control, ScriptThrows, UNCHANGED invocation PROVE Control'
  <1>1. /\ phase = "script" /\ threw' = TRUE
        /\ success' = (IF mode = "demo" THEN success ELSE FALSE)
        /\ left' = IF left > 0 THEN left - 1 ELSE 0
        /\ phase' = IF left > 0 THEN "script" ELSE "drain"
        /\ UNCHANGED <<mode, v8, readable, checkpoint, turn, top>>
    BY DEF ScriptThrows, Executed, invocation
  <1>2. MainType'
    <2>1. left' \in 0 .. DemoScripts
      BY <1>1 DEF Control, MainType, DemoScripts
    <2>2. success' \in BOOLEAN
      BY <1>1 DEF Control, MainType
    <2>3. phase' \in {"start", "script", "toplevel", "drain", "down"}
      BY <1>1
    <2> QED BY <1>1, <2>1, <2>2, <2>3 DEF Control, MainType
  <1>3. CheckpointInLoop' /\ GoneIsIdle' /\ ReactionsDue'
    BY <1>1 DEF Control, MainType, CheckpointInLoop, GoneIsIdle, ReactionsDue
  <1>4. PendingIsIdle'
    BY <1>1 DEF Control, PendingIsIdle, ScriptRuns
  <1>5. ScriptRuns'
    BY <1>1 DEF Control, MainType, ScriptRuns, DemoScripts
  <1>6. StatusFinal'
    BY <1>1 DEF Control, MainType, StatusFinal, ScriptRuns
  <1> QED BY <1>2, <1>3, <1>4, <1>5, <1>6 DEF Control

LEMMA ControlTopLevelDone ==
  ASSUME Control, TopLevelDone, UNCHANGED invocation PROVE Control'
  <1>1. /\ phase = "toplevel" /\ ~checkpoint /\ ~turn
        /\ ~(top = "pending" /\ Alive)
        /\ success' = (IF mode = "demo" THEN success ELSE top # "rejected")
        /\ left' = IF left > 0 THEN left - 1 ELSE 0
        /\ phase' = IF left > 0 THEN "script" ELSE "drain"
        /\ UNCHANGED <<mode, v8, readable, checkpoint, turn, op, jobs, top, threw>>
    BY DEF TopLevelDone, Executed, NoError, invocation
  <1>2. Alive' = Alive /\ NoLegacy' = NoLegacy
    BY <1>1, AliveUnchanged
  <1>3. MainType'
    <2>1. left' \in 0 .. DemoScripts
      BY <1>1 DEF Control, MainType, DemoScripts
    <2>2. success' \in BOOLEAN
      BY <1>1 DEF Control, MainType
    <2>3. phase' \in {"start", "script", "toplevel", "drain", "down"}
      BY <1>1
    <2> QED BY <1>1, <2>1, <2>2, <2>3 DEF Control, MainType
  <1>4. CheckpointInLoop' /\ GoneIsIdle'
    BY <1>1 DEF Control, MainType, CheckpointInLoop, GoneIsIdle
  <1>5. ReactionsDue'
    BY <1>1, <1>2 DEF Control, ReactionsDue
  <1>6. PendingIsIdle'
    BY <1>1, <1>2 DEF Control, PendingIsIdle
  <1>7. ScriptRuns'
    BY <1>1 DEF Control, MainType, ScriptRuns, DemoScripts
  <1>8. StatusFinal'
    BY <1>1 DEF Control, MainType, StatusFinal, ScriptRuns
  <1> QED BY <1>3, <1>4, <1>5, <1>6, <1>7, <1>8 DEF Control

\* JavaScript in a checkpoint settles the script's promise only while somebody
\* waits for it.
LEMMA ControlRunJob ==
  ASSUME Control, NEW o \in Ops, RunJob(o), UNCHANGED invocation PROVE Control'
  <1>1. /\ checkpoint
        /\ top' = top \/ (top = "pending" /\ top' \in {"fulfilled", "rejected"})
        /\ UNCHANGED <<mode, v8, readable, left, phase, checkpoint, turn, threw, success>>
    BY DEF RunJob, SettleTop, invocation
  <1>2. phase \in {"toplevel", "drain"}
    BY <1>1 DEF Control, CheckpointInLoop
  <1>3. phase = "drain" => top # "pending"
    BY <1>1 DEF Control, PendingIsIdle
  <1>4. MainType'
    BY <1>1 DEF Control, MainType
  <1>5. CheckpointInLoop' /\ GoneIsIdle' /\ ReactionsDue'
    BY <1>1, <1>2 DEF Control, CheckpointInLoop, GoneIsIdle, ReactionsDue
  <1>6. PendingIsIdle'
    BY <1>1, <1>3 DEF PendingIsIdle
  <1>7. ScriptRuns'
    BY <1>1, <1>2 DEF Control, ScriptRuns
  <1>8. StatusFinal'
    BY <1>1, <1>2, <1>3 DEF Control, StatusFinal
  <1> QED BY <1>4, <1>5, <1>6, <1>7, <1>8 DEF Control

LEMMA ControlEndCheckpoint ==
  ASSUME Control, EndCheckpoint, UNCHANGED invocation PROVE Control'
  <1>1. /\ checkpoint /\ jobs = {} /\ checkpoint' = FALSE
        /\ UNCHANGED <<mode, v8, readable, left, phase, turn, op, jobs, top, threw, success>>
    BY DEF EndCheckpoint, invocation
  <1>2. MainType'
    <2>1. MainType /\ checkpoint' \in BOOLEAN
      BY <1>1 DEF Control
    <2> QED BY <1>1, <2>1 DEF MainType
  <1>3. CheckpointInLoop' /\ ReactionsDue' /\ StatusFinal' /\ ScriptRuns'
    BY <1>1 DEF Control, CheckpointInLoop, ReactionsDue, StatusFinal, ScriptRuns
  <1>4. GoneIsIdle'
    BY <1>1 DEF Control, GoneIsIdle, CheckpointInLoop
  <1>5. PendingIsIdle'
    BY <1>1 DEF Control, PendingIsIdle
  <1> QED BY <1>2, <1>3, <1>4, <1>5 DEF Control

LEMMA ControlEndTurn ==
  ASSUME Control, EndTurn, UNCHANGED invocation PROVE Control'
  <1>1. /\ phase = "toplevel" /\ turn' = FALSE /\ checkpoint' = TRUE
        /\ UNCHANGED <<mode, v8, readable, left, phase, op, jobs, top, threw, success>>
    BY DEF EndTurn, invocation
  <1>2. MainType'
    BY <1>1 DEF Control, MainType
  <1>3. /\ CheckpointInLoop' /\ GoneIsIdle' /\ ReactionsDue'
        /\ PendingIsIdle' /\ StatusFinal' /\ ScriptRuns'
    BY <1>1 DEF Control, CheckpointInLoop, GoneIsIdle, ReactionsDue, PendingIsIdle,
                StatusFinal, ScriptRuns
  <1> QED BY <1>2, <1>3 DEF Control

LEMMA ControlShutdown ==
  ASSUME Control, Shutdown, UNCHANGED invocation PROVE Control'
  <1>1. /\ phase = "drain" /\ ~checkpoint /\ ~Alive /\ phase' = "down"
        /\ UNCHANGED <<mode, v8, readable, left, checkpoint, turn, op, jobs, top, threw, success>>
    BY DEF Shutdown, invocation
  <1>2. Alive' = Alive /\ NoLegacy' = NoLegacy
    BY <1>1, AliveUnchanged
  <1>3. MainType'
    BY <1>1 DEF Control, MainType
  <1>4. CheckpointInLoop' /\ PendingIsIdle' /\ StatusFinal' /\ ScriptRuns'
    BY <1>1 DEF Control, CheckpointInLoop, PendingIsIdle, StatusFinal, ScriptRuns
  <1>5. GoneIsIdle'
    BY <1>1, <1>2 DEF GoneIsIdle
  <1>6. ReactionsDue'
    BY <1>1, <1>2 DEF Control, ReactionsDue
  <1> QED BY <1>3, <1>4, <1>5, <1>6 DEF Control

\* An event of the loop: it is about a handle or request that is there, and is
\* followed by a checkpoint if it queues a reaction, the old fs.readFile excepted.
LEMMA ControlEvent ==
  ASSUME Control, InLoop, Alive, NoLegacy' => NoLegacy, Turned,
         checkpoint' = TRUE \/ (UNCHANGED checkpoint /\ (UNCHANGED jobs \/ ~NoLegacy')),
         SettleTop,
         UNCHANGED <<mode, v8, readable, left, phase, threw, success>>
  PROVE  Control'
  <1>1. phase \in {"toplevel", "drain"} /\ ~checkpoint
    BY DEF InLoop
  <1>2. phase = "drain" => top # "pending"
    BY DEF Control, PendingIsIdle
  <1>3. top' = top \/ (top = "pending" /\ top' \in {"fulfilled", "rejected"})
    BY DEF SettleTop
  <1>4. phase' = phase
    OBVIOUS
  <1>5. MainType'
    <2>1. checkpoint' \in BOOLEAN /\ turn' \in BOOLEAN
      BY DEF Turned, Control, MainType
    <2>2. top' \in {"none", "pending", "fulfilled", "rejected"}
      BY <1>3 DEF Control, MainType
    <2> QED BY <2>1, <2>2 DEF Control, MainType
  <1>6. CheckpointInLoop'
    BY <1>1 DEF Turned, CheckpointInLoop
  <1>7. GoneIsIdle'
    BY <1>1, <1>4 DEF GoneIsIdle
  <1>8. ReactionsDue'
    BY <1>1 DEF Control, ReactionsDue
  <1>9. PendingIsIdle'
    BY <1>2, <1>3 DEF PendingIsIdle
  <1>10. ScriptRuns'
    BY <1>1, <1>3 DEF Control, ScriptRuns
  <1>11. StatusFinal'
    BY <1>1, <1>2, <1>3 DEF Control, StatusFinal
  <1> QED BY <1>5, <1>6, <1>7, <1>8, <1>9, <1>10, <1>11 DEF Control

LEMMA ControlLoopStep ==
  ASSUME Control, OpsType, PendingHasHandle, NEW o \in Ops, LoopStep(o), UNCHANGED invocation
  PROVE  Control'
  <1>1. CASE SleepTimer(o)
    <2>1. Alive
      BY <1>1 DEF SleepTimer, Alive
    <2>2. NoLegacy' => NoLegacy
      BY <1>1, OpsSleepTimer DEF OpsKept
    <2>3. /\ InLoop /\ Turned /\ SettleTop /\ checkpoint' = TRUE
          /\ UNCHANGED <<mode, v8, readable, left, phase, threw, success>>
      BY <1>1 DEF SleepTimer, SettleTop, invocation
    <2> QED BY <2>1, <2>2, <2>3, ControlEvent
  <1>2. CASE SleepClosed(o)
    <2>1. Alive
      BY <1>2 DEF SleepClosed, Alive
    <2>2. NoLegacy' => NoLegacy
      BY <1>2, OpsSleepClosed DEF OpsKept
    <2>3. /\ InLoop /\ Turned /\ SettleTop /\ UNCHANGED checkpoint /\ UNCHANGED jobs
          /\ UNCHANGED <<mode, v8, readable, left, phase, threw, success>>
      BY <1>2 DEF SleepClosed, SettleTop, invocation
    <2> QED BY <2>1, <2>2, <2>3, ControlEvent
  <1>3. CASE AfterWork(o)
    <2>1. Alive
      BY <1>3 DEF AfterWork, Alive
    <2>2. NoLegacy' => NoLegacy
      BY <1>3, OpsAfterWork DEF OpsKept
    <2>3. /\ InLoop /\ Turned /\ SettleTop /\ checkpoint' = TRUE
          /\ UNCHANGED <<mode, v8, readable, left, phase, threw, success>>
      BY <1>3 DEF AfterWork, SettleTop, invocation
    <2> QED BY <2>1, <2>2, <2>3, ControlEvent
  <1>4. CASE AfterLegacy(o)
    <2>1. Alive
      BY <1>4 DEF AfterLegacy, Alive
    <2>2. ~NoLegacy'
      BY <1>4, OpsAfterLegacy
    <2>3. /\ InLoop /\ Turned /\ SettleTop /\ UNCHANGED checkpoint
          /\ UNCHANGED <<mode, v8, readable, left, phase, threw, success>>
      BY <1>4 DEF AfterLegacy, invocation
    <2> QED BY <2>1, <2>2, <2>3, ControlEvent
  <1> QED BY <1>1, <1>2, <1>3, <1>4 DEF LoopStep

\* A thread of the pool works whatever main() does, but not when it is gone.
LEMMA ControlPoolWork ==
  ASSUME Control, OpsType, PendingHasHandle, NEW o \in Ops, PoolWork(o), UNCHANGED invocation
  PROVE  Control'
  <1>1. /\ Alive
        /\ UNCHANGED <<mode, v8, readable, left, phase, checkpoint, turn, jobs, top, threw, success>>
    BY DEF PoolWork, Alive, invocation
  <1>2. NoLegacy' => NoLegacy
    BY OpsPoolWork DEF OpsKept
  <1>3. MainType'
    BY <1>1 DEF Control, MainType
  <1>4. CheckpointInLoop' /\ StatusFinal' /\ ScriptRuns'
    BY <1>1 DEF Control, CheckpointInLoop, StatusFinal, ScriptRuns
  <1>5. ReactionsDue'
    BY <1>1, <1>2 DEF Control, ReactionsDue
  <1>6. GoneIsIdle' /\ PendingIsIdle'
    BY <1>1 DEF Control, GoneIsIdle, PendingIsIdle
  <1> QED BY <1>3, <1>4, <1>5, <1>6 DEF Control

-----------------------------------------------------------------------------
(* The theorems                                                            *)

LEMMA HostInit == Init => IInv
  <1> SUFFICES ASSUME Init PROVE IInv
    OBVIOUS
  <1>1. MainType
    <2>1. PICK args \in Invocations : mode = Mode(args)
      BY DEF Init
    <2>2. mode \in {"demo", "help", "version", "code", "file", "unknown"}
      BY <2>1 DEF Invocations, Mode
    <2>3. left \in 0 .. DemoScripts
      BY DEF Init, DemoScripts
    <2>4. v8 \in BOOLEAN /\ readable \in BOOLEAN /\ checkpoint \in BOOLEAN /\ turn \in BOOLEAN
      BY DEF Init
    <2>5. threw \in BOOLEAN /\ success \in BOOLEAN
      BY DEF Init
    <2>6. phase = "start" /\ top = "none"
      BY DEF Init
    <2> QED BY <2>2, <2>3, <2>4, <2>5, <2>6 DEF MainType
  <1>2. OpsType
    BY DEF Init, OpsType, OpStates, PromiseStates
  <1>3. PendingHasHandle
    BY DEF Init, PendingHasHandle, Ops
  <1>4. Control
    BY <1>1 DEF Init, Control, CheckpointInLoop, GoneIsIdle, ReactionsDue, ScriptRuns,
                PendingIsIdle, StatusFinal
  <1> QED BY <1>2, <1>3, <1>4, IInvParts

LEMMA HostStutter ==
  ASSUME IInv, UNCHANGED vars
  PROVE  IInv'
  <1>1. OpsType /\ PendingHasHandle /\ Control
    BY IInvParts
  <1>2. /\ UNCHANGED <<mode, v8, readable, left, phase, checkpoint, turn, top, threw, success>>
        /\ UNCHANGED <<op, promise, jobs, aborted>>
    BY DEF vars, state, invocation
  <1>3. OpsType' /\ PendingHasHandle'
    BY <1>1, <1>2, OpsUnchanged DEF OpsKept
  <1>4. Alive' = Alive /\ NoLegacy' = NoLegacy
    BY <1>2, AliveUnchanged
  <1>5. MainType' /\ CheckpointInLoop'
    BY <1>1, <1>2 DEF Control, MainType, CheckpointInLoop
  <1>6. GoneIsIdle' /\ ReactionsDue' /\ PendingIsIdle'
    BY <1>1, <1>2, <1>4 DEF Control, GoneIsIdle, ReactionsDue, PendingIsIdle
  <1>7. ScriptRuns' /\ StatusFinal'
    BY <1>1, <1>2 DEF Control, ScriptRuns, StatusFinal
  <1> QED BY <1>3, <1>5, <1>6, <1>7, IInvNext DEF Control

LEMMA HostStep ==
  ASSUME IInv, Next, UNCHANGED invocation
  PROVE  IInv'
  <1>1. OpsType /\ PendingHasHandle /\ Control
    BY IInvParts
  <1>2. ASSUME UNCHANGED <<op, promise, jobs, aborted>>, Control' PROVE IInv'
    BY <1>1, <1>2, OpsUnchanged, IInvNext DEF OpsKept
  <1>3. ASSUME OpsKept, Control' PROVE IInv'
    BY <1>3, IInvNext DEF OpsKept
  <1>4. CASE ScriptStep
    <2>1. OpsKept
      BY <1>1, <1>4, OpsScriptStep DEF ScriptStep
    <2> QED BY <1>1, <1>3, <1>4, <2>1, ControlScriptStep
  <1>5. CASE Dispatch
    BY <1>1, <1>2, <1>5, ControlDispatch DEF Dispatch
  <1>6. CASE ScriptReturns
    BY <1>1, <1>2, <1>6, ControlScriptReturns DEF ScriptReturns
  <1>7. CASE ScriptThrows
    BY <1>1, <1>2, <1>7, ControlScriptThrows DEF ScriptThrows
  <1>8. CASE EndCheckpoint
    BY <1>1, <1>2, <1>8, ControlEndCheckpoint DEF EndCheckpoint
  <1>9. CASE EndTurn
    BY <1>1, <1>2, <1>9, ControlEndTurn DEF EndTurn
  <1>10. CASE TopLevelDone
    BY <1>1, <1>2, <1>10, ControlTopLevelDone DEF TopLevelDone
  <1>11. CASE Shutdown
    BY <1>1, <1>2, <1>11, ControlShutdown DEF Shutdown
  <1>12. ASSUME NEW o \in Ops, RunJob(o) PROVE IInv'
    <2>1. OpsKept
      BY <1>1, <1>12, OpsRunJob DEF RunJob
    <2> QED BY <1>1, <1>3, <1>12, <2>1, ControlRunJob
  <1>13. ASSUME NEW o \in Ops, LoopStep(o) PROVE IInv'
    <2>1. OpsKept
      BY <1>1, <1>13, OpsSleepTimer, OpsSleepClosed, OpsAfterWork, OpsAfterLegacy DEF LoopStep
    <2> QED BY <1>1, <1>3, <1>13, <2>1, ControlLoopStep
  <1>14. ASSUME NEW o \in Ops, PoolWork(o) PROVE IInv'
    <2>1. OpsKept
      BY <1>1, <1>14, OpsPoolWork
    <2> QED BY <1>1, <1>3, <1>14, <2>1, ControlPoolWork
  <1>15. CASE Exited
    BY <1>15, HostStutter DEF Exited
  <1> QED BY <1>4, <1>5, <1>6, <1>7, <1>8, <1>9, <1>10, <1>11, <1>12, <1>13, <1>14, <1>15
          DEF Next, MainStep

LEMMA HostInvariant == Spec => []IInv
  <1>1. Init => IInv
    BY HostInit
  <1>2. IInv /\ [Next]_vars => IInv'
    <2> SUFFICES ASSUME IInv, [Next]_vars PROVE IInv'
      OBVIOUS
    <2>1. CASE Next
      <3>1. UNCHANGED invocation
        BY <2>1 DEF Next, Exited, vars
      <3> QED BY <2>1, <3>1, HostStep
    <2>2. CASE UNCHANGED vars
      BY <2>2, HostStutter
    <2> QED BY <2>1, <2>2
  <1> QED BY <1>1, <1>2, PTL DEF Spec

\* The state of one invocation keeps its types, for any sets of operations.
THEOREM HostTypeCorrect == Spec => []TypeOK
  <1>1. IInv => TypeOK
    BY DEF IInv
  <1> QED BY <1>1, HostInvariant, PTL

\* Shutdown() disposes of the isolate only when no timer, request or pool work is
\* left and no promise of Kode.sleep or kode:fs is pending, also after a script
\* that failed and whatever the program starts and cancels in its reactions.
THEOREM HostNothingAfterDispose == Spec => []NothingAfterDispose
  <1>1. IInv => NothingAfterDispose
    <2> SUFFICES ASSUME IInv, phase = "down"
                 PROVE  ~Alive /\ \A o \in Sleeps \cup Works : promise[o] # "pending"
      BY DEF NothingAfterDispose
    <2>1. ~Alive
      BY DEF IInv, GoneIsIdle
    <2>2. ASSUME NEW o \in Sleeps \cup Works PROVE promise[o] # "pending"
      BY <2>1, <2>2 DEF IInv, PendingHasHandle, Alive, Ops
    <2> QED BY <2>1, <2>2
  <1> QED BY <1>1, HostInvariant, PTL

\* The exit status is the script's outcome: a rejection of its promise is seen
\* however late it comes, since main() goes on to drain the loop only when
\* nothing is left that could still reject it.
THEOREM HostOutcomeReported == Spec => []OutcomeReported
  <1>1. IInv => OutcomeReported
    BY DEF IInv, StatusFinal, OutcomeReported
  <1> QED BY <1>1, HostInvariant, PTL

-----------------------------------------------------------------------------
(* Reactions after a script that threw                                     *)

\* A queued reaction belongs to a call that has been made; and outside a
\* checkpoint only reactions to calls refused at once, and to callbacks of the
\* old fs.readFile, are queued.
Served ==
    /\ \A o \in jobs : promise[o] # "none"
    /\ ~checkpoint => \A o \in jobs \ Legacy : op[o] = "none"

\* What JavaScript starts was not there before, so it disturbs no queued reaction
\* and adds only those of refused calls.
LEMMA JavaScriptServed ==
  ASSUME NEW STATE h, NEW STATE r, NEW STATE q, q \subseteq Ops,
         JavaScript(h, r, q), \A o \in q : r[o] # "none"
  PROVE  /\ \A o \in jobs' : promise'[o] # "none"
         /\ (\A o \in q \ Legacy : h[o] = "none") => \A o \in jobs' \ Legacy : op'[o] = "none"
  <1>1. PICK ab \in {aborted, TRUE}, S \in SUBSET {o \in Ops : h[o] = "none" /\ r[o] = "none"} :
          /\ op' = Start(h, S \ {o \in S : Refused(o, ab)})
          /\ promise' = [o \in Ops |-> IF o \in S THEN NewPromise(o \in {oo \in S : Refused(oo, ab)}) ELSE r[o]]
          /\ jobs' = q \cup {o \in S : Refused(o, ab)}
    BY DEF JavaScript
  <1> DEFINE refused == {o \in S : Refused(o, ab)}
  <1>2. /\ refused \subseteq S /\ S \subseteq Ops
        /\ \A o \in S : h[o] = "none" /\ r[o] = "none"
    OBVIOUS
  <1> HIDE DEF refused
  <1>3. op' = [o \in Ops |-> IF o \in S \ refused THEN "active" ELSE h[o]]
    BY <1>1 DEF Start, refused
  <1>4. promise' = [o \in Ops |-> IF o \in S THEN (IF o \in refused THEN "rejected" ELSE "pending") ELSE r[o]]
    BY <1>1 DEF NewPromise, refused
  <1>5. jobs' = q \cup refused /\ jobs' \subseteq Ops
    BY <1>1, <1>2 DEF refused
  <1>6. \A o \in q : o \notin S
    BY <1>2
  <1>7. \A o \in jobs' : promise'[o] # "none"
    BY <1>2, <1>4, <1>5, <1>6
  <1>8. \A o \in jobs' : op'[o] = h[o]
    BY <1>3, <1>5, <1>6
  <1>9. \A o \in jobs' \ Legacy : o \in q \ Legacy \/ h[o] = "none"
    BY <1>2, <1>5
  <1> QED
    BY <1>7, <1>8, <1>9

LEMMA ServedStep ==
  ASSUME IInv, Served, [Next]_vars
  PROVE  Served'
  <1> USE DEF Served
  <1>1. /\ op \in [Ops -> OpStates] /\ promise \in [Ops -> PromiseStates] /\ jobs \subseteq Ops
        /\ checkpoint => phase \in {"toplevel", "drain"}
    BY IInvParts DEF OpsType, Control, CheckpointInLoop
  <1>2. CASE UNCHANGED <<op, promise, jobs>> /\ (UNCHANGED checkpoint \/ checkpoint' = TRUE)
    BY <1>2
  <1>3. CASE EndCheckpoint
    BY <1>3 DEF EndCheckpoint
  <1>4. CASE ScriptStep
    <2>1. JavaScript(op, promise, jobs) /\ ~checkpoint
      BY <1>1, <1>4 DEF ScriptStep
    <2> QED
      BY <1>1, <2>1, JavaScriptServed
  <1>5. ASSUME NEW o \in Ops, RunJob(o) PROVE Served'
    <2>1. JavaScript(op, promise, jobs \ {o}) /\ checkpoint /\ checkpoint' = checkpoint
      BY <1>5 DEF RunJob
    <2>2. jobs \ {o} \subseteq Ops /\ \A u \in jobs \ {o} : promise[u] # "none"
      BY <1>1
    <2>3. \A u \in jobs' : promise'[u] # "none"
      BY <2>1, <2>2, JavaScriptServed
    <2> QED
      BY <2>1, <2>3
  <1>6. ASSUME NEW o \in Ops, SleepTimer(o) \/ AfterWork(o) PROVE Served'
    <2>1. PICK r \in {"fulfilled", "rejected"} : promise' = [promise EXCEPT ![o] = r]
      BY <1>6 DEF SleepTimer, AfterWork, Settle
    <2>2. jobs' = jobs \cup {o} /\ checkpoint' = TRUE
      BY <1>6 DEF SleepTimer, AfterWork, Settle
    <2> QED
      BY <1>1, <2>1, <2>2
  <1>7. ASSUME NEW o \in Ops, SleepClosed(o) \/ PoolWork(o) PROVE Served'
    <2>1. /\ op[o] \in {"closing", "active"} /\ UNCHANGED <<checkpoint, promise, jobs>>
          /\ \A u \in Ops : u # o => op'[u] = op[u]
      BY <1>1, <1>7 DEF SleepClosed, PoolWork
    <2> QED
      BY <1>1, <2>1
  <1>8. ASSUME NEW o \in Ops, AfterLegacy(o) PROVE Served'
    <2>1. PICK r \in {"pending", "fulfilled"} :
           JavaScript([op EXCEPT ![o] = "closed"], [promise EXCEPT ![o] = r],
                      IF r = "fulfilled" THEN jobs \cup {o} ELSE jobs)
      BY <1>8 DEF AfterLegacy
    <2>2. o \in Legacy /\ ~checkpoint /\ checkpoint' = checkpoint
      BY <1>8 DEF AfterLegacy, InLoop
    <2> DEFINE h == [op EXCEPT ![o] = "closed"]
               p == [promise EXCEPT ![o] = r]
               q == IF r = "fulfilled" THEN jobs \cup {o} ELSE jobs
    <2>3. q \subseteq Ops /\ \A u \in q : p[u] # "none"
      BY <1>1
    <2>4. \A u \in q \ Legacy : h[u] = "none"
      BY <1>1, <2>2
    <2>5. JavaScript(h, p, q)
      BY <2>1
    <2> HIDE DEF h, p, q
    <2> QED
      BY <2>2, <2>3, <2>4, <2>5, JavaScriptServed
  <1> QED
    BY <1>2, <1>3, <1>4, <1>5, <1>6, <1>7, <1>8
    DEF Next, MainStep, LoopStep, Dispatch, ScriptReturns, ScriptThrows, EndTurn,
        TopLevelDone, Shutdown, Exited, vars, state

\* At the exit the reaction to everything that a timer or the thread pool settled
\* has run, in whichever of the two loops it was settled and whether or not the
\* script threw; where it did not, and the old fs.readFile was not called, every
\* reaction has (PerformMicrotaskCheckpoint() after each callback, engine.cc).
THEOREM HostReactionsRun == Spec => []ReactionsRun
  <1>1. Init => Served
    BY DEF Init, Served
  <1>2. IInv /\ Served => ReactionsRun
    BY DEF IInv, GoneIsIdle, ReactionsDue, ReactionsRun, NoLegacy, Served
  <1> QED BY <1>1, <1>2, HostInvariant, ServedStep, PTL DEF Spec

===============================================================================
