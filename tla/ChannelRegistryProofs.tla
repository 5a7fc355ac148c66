------------------------- MODULE ChannelRegistryProofs -------------------------
(***************************************************************************)
(* Proofs about the registry of named channels: the reference count of a   *)
(* channel object is the number of pointers to it, so that an object in    *)
(* use is never destroyed and one that nobody can reach is.                *)
(*                                                                         *)
(* HeldIsAlive is not inductive: it does not say how many tasks share an   *)
(* object when one of them lets go of it.  CountsMatch does: the count is  *)
(* the number of local pointers plus the number of names.  It needs that a *)
(* task holds a pointer exactly while it is in a channel operation         *)
(* (HeldWhileDoing), and that the objects not yet made are not referred to *)
(* (OnlyMade).                                                             *)
(***************************************************************************)
EXTENDS ChannelRegistry, FiniteSetTheorems, TLAPS

-----------------------------------------------------------------------------
(* How the number of pointers changes when one pointer is redirected       *)

\* The pointers in S that lead to c, where f says where each one leads.
Pointing(S, f, c) == {s \in S : f[s] = c}

LEMMA PointingFinite ==
  ASSUME NEW S, IsFiniteSet(S), NEW f, NEW c
  PROVE  IsFiniteSet(Pointing(S, f, c)) /\ Cardinality(Pointing(S, f, c)) \in Nat
  <1>1. Pointing(S, f, c) \subseteq S
    BY DEF Pointing
  <1>2. IsFiniteSet(Pointing(S, f, c))
    BY <1>1, FS_Subset
  <1> QED BY <1>2, FS_CardinalityType

\* g is f with the pointer s redirected to d.
Redirected(S, f, g, s, d) == s \in S /\ g[s] = d /\ \A x \in S : x # s => g[x] = f[x]

\* A pointer that led elsewhere is set to c: one more.
LEMMA PointingMore ==
  ASSUME NEW S, IsFiniteSet(S), NEW f, NEW g, NEW s, NEW c, Redirected(S, f, g, s, c), f[s] # c
  PROVE  Cardinality(Pointing(S, g, c)) = Cardinality(Pointing(S, f, c)) + 1
  <1>1. Pointing(S, g, c) = Pointing(S, f, c) \cup {s} /\ s \notin Pointing(S, f, c)
    BY DEF Pointing, Redirected
  <1>2. IsFiniteSet(Pointing(S, f, c))
    BY PointingFinite
  <1> QED BY <1>1, <1>2, FS_AddElement

\* A pointer that led to c is set to something else: one less.
LEMMA PointingLess ==
  ASSUME NEW S, IsFiniteSet(S), NEW f, NEW g, NEW s, NEW c, NEW d, Redirected(S, f, g, s, d),
         f[s] = c, d # c
  PROVE  Cardinality(Pointing(S, g, c)) = Cardinality(Pointing(S, f, c)) - 1
  <1>1. Pointing(S, g, c) = Pointing(S, f, c) \ {s} /\ s \in Pointing(S, f, c)
    BY DEF Pointing, Redirected
  <1>2. IsFiniteSet(Pointing(S, f, c))
    BY PointingFinite
  <1> QED BY <1>1, <1>2, FS_RemoveElement

\* Neither the old nor the new target is c: the same pointers.
LEMMA PointingSame ==
  ASSUME NEW S, NEW f, NEW g, NEW s, NEW c, NEW d, Redirected(S, f, g, s, d), f[s] # c, d # c
  PROVE  Pointing(S, g, c) = Pointing(S, f, c)
  BY DEF Pointing, Redirected

\* Somebody points to c exactly if the number is not zero.
LEMMA PointingAny ==
  ASSUME NEW S, IsFiniteSet(S), NEW f, NEW c
  PROVE  Cardinality(Pointing(S, f, c)) > 0 <=> \E s \in S : f[s] = c
  <1>1. IsFiniteSet(Pointing(S, f, c)) /\ Cardinality(Pointing(S, f, c)) \in Nat
    BY PointingFinite
  <1>2. Cardinality(Pointing(S, f, c)) = 0 <=> Pointing(S, f, c) = {}
    BY <1>1, FS_EmptySet
  <1>3. Pointing(S, f, c) = {} <=> ~ \E s \in S : f[s] = c
    BY DEF Pointing
  <1> QED BY <1>1, <1>2, <1>3

-----------------------------------------------------------------------------
(* The inductive invariant                                                 *)

\* The reference count is the number of pointers: those of the tasks and those
\* of the registry.
CountsMatch ==
    \A c \in Objects :
        refs[c] = Cardinality(Pointing(Tasks, held, c)) + Cardinality(Pointing(Names, channels_, c))

\* A task has a local pointer exactly while it is in a channel operation.
HeldWhileDoing == \A t \in Tasks : doing[t] = "idle" <=> held[t] = Null

\* Pointers lead to objects that have been made.
OnlyMade ==
    /\ \A t \in Tasks : held[t] <= made
    /\ \A n \in Names : channels_[n] <= made

\* TypeOK in two parts: the tasks and what they execute, the channels.
TasksType ==
    /\ script \in Scripts
    /\ global_queue_ \in Seq(Tasks)
    /\ current_task \in [Workers -> Tasks \cup {Nobody}]
    /\ at \in [Tasks -> Nat]
    /\ doing \in [Tasks -> {"idle", "send", "receive"}]
    /\ returned \subseteq Tasks
    /\ jsChannels \in [Maps -> SUBSET Names]
    /\ replaced \in BOOLEAN

ChannelsType ==
    /\ held \in [Tasks -> Objects \cup {Null}]
    /\ channels_ \in [Names -> Objects \cup {Null}]
    /\ made \in 0 .. MaxObjects
    /\ capacity \in [Objects -> Nat]
    /\ buffer \in [Objects -> Seq(Tasks \X Nat)]
    /\ refs \in [Objects -> Nat]

IInv == TypeOK /\ CountsMatch /\ HeldWhileDoing /\ OnlyMade

Registry == ChannelsType /\ CountsMatch /\ HeldWhileDoing /\ OnlyMade

LEMMA IInvParts == IInv <=> TasksType /\ Registry
  BY DEF IInv, Registry, TypeOK, TasksType, ChannelsType

LEMMA IInvNext == TasksType' /\ Registry' => IInv'
  BY DEF IInv, Registry, TypeOK, TasksType, ChannelsType

\* What a task is about to execute is a statement of its script.
LEMMA StmtType ==
  ASSUME TasksType, NEW t \in Tasks, Ready(t)
  PROVE  Stmt(t) \in [do : Do, name : Names] /\ Stmt(t).name \in Names
  <1> DEFINE R == [do : Do, name : Names]
  <1>1. script \in [Tasks -> Seq(R)]
    BY RegistryAssumption, Zenon DEF TasksType
  <1> HIDE DEF R
  <1>2. script[t] \in Seq(R)
    BY <1>1
  <1>3. at[t] \in Nat /\ at[t] < Len(script[t])
    BY DEF TasksType, Ready
  <1>4. Stmt(t) \in R
    BY <1>2, <1>3 DEF Stmt
  <1> QED BY <1>4 DEF R

-----------------------------------------------------------------------------
(* The tasks                                                               *)

LEMMA TasksStutter ==
  ASSUME TasksType, UNCHANGED <<taskVars, at, doing, jsChannels, replaced>>
  PROVE  TasksType'
  BY DEF TasksType, taskVars

LEMMA TasksTake ==
  ASSUME TasksType, NEW w \in Workers, Take(w)
  PROVE  TasksType'
  <1>1. global_queue_ \in Seq(Tasks) /\ global_queue_ # <<>>
    BY DEF TasksType, Take
  <1>2. Head(global_queue_) \in Tasks /\ Tail(global_queue_) \in Seq(Tasks)
    BY <1>1
  <1>3. current_task' \in [Workers -> Tasks \cup {Nobody}]
    BY <1>2 DEF TasksType, Take
  <1>4. global_queue_' \in Seq(Tasks)
    BY <1>2 DEF Take
  <1> QED BY <1>3, <1>4 DEF TasksType, Take, registryVars

LEMMA TasksReturn ==
  ASSUME TasksType, NEW w \in Workers, Return(w)
  PROVE  TasksType'
  <1>1. current_task[w] \in Tasks
    BY DEF TasksType, Return
  <1>2. returned' \subseteq Tasks /\ current_task' \in [Workers -> Tasks \cup {Nobody}]
    BY <1>1 DEF TasksType, Return
  <1> QED BY <1>2 DEF TasksType, Return, registryVars

\* A statement leaves the task where it is in its script, or one further.
LEMMA TasksExecute ==
  ASSUME TasksType, NEW t \in Tasks, ExecuteStatement(t)
  PROVE  TasksType'
  <1>1. Executed(t) => at' \in [Tasks -> Nat]
    BY DEF TasksType, Executed
  <1>2. CASE CreateChannel(t)
    <2>1. replaced' \in BOOLEAN
      BY <1>2 DEF TasksType, CreateChannel
    <2> QED BY <1>1, <1>2, <2>1 DEF TasksType, CreateChannel, taskVars
  <1>3. CASE Lookup(t)
    <2>1. doing' \in [Tasks -> {"idle", "send", "receive"}]
      BY <1>3 DEF TasksType, Lookup, Operation
    <2> QED BY <1>3, <2>1 DEF TasksType, Lookup, taskVars
  <1>4. CASE LookupFails(t) \/ JsCall(t) \/ Other(t)
    BY <1>1, <1>4 DEF TasksType, LookupFails, JsCall, Other, taskVars, registryVars
  <1>5. CASE Send(t) \/ Receive(t)
    <2>1. Release(t)
      BY <1>5 DEF Send, Receive
    <2>2. doing' \in [Tasks -> {"idle", "send", "receive"}]
      BY <2>1 DEF TasksType, Release
    <2> QED BY <1>1, <2>1, <2>2 DEF TasksType, Release, taskVars
  <1>6. CASE JsCreate(t)
    <2>1. Stmt(t).name \in Names
      BY <1>6, StmtType DEF JsCreate
    <2>2. jsChannels' \in [Maps -> SUBSET Names]
      BY <1>6, <2>1 DEF TasksType, JsCreate, Maps
    <2> QED BY <1>1, <1>6, <2>2 DEF TasksType, JsCreate, taskVars
  <1> QED BY <1>2, <1>3, <1>4, <1>5, <1>6 DEF ExecuteStatement

-----------------------------------------------------------------------------
(* The registry                                                            *)

\* What Count(new, old) is for each object.
LEMMA CountAt ==
  ASSUME ChannelsType, NEW STATE new, NEW STATE old, NEW c \in Objects
  PROVE  /\ c = new /\ c # old => Count(new, old)[c] = refs[c] + 1
         /\ c # new /\ c = old => Count(new, old)[c] = refs[c] - 1
         /\ c # new /\ c # old => Count(new, old)[c] = refs[c]
  <1>1. refs[c] \in Nat
    BY DEF ChannelsType
  <1>2. Count(new, old)[c] = (refs[c] + (IF c = new THEN 1 ELSE 0)) - (IF c = old THEN 1 ELSE 0)
    BY DEF Count
  <1> QED BY <1>1, <1>2

\* A count that is a number of pointers is a natural number.
LEMMA RefsType ==
  ASSUME NEW STATE new, NEW STATE old, refs' = Count(new, old), CountsMatch'
  PROVE  refs' \in [Objects -> Nat]
  <1>1. refs' = [c \in Objects |-> refs'[c]]
    BY DEF Count
  <1>2. ASSUME NEW c \in Objects PROVE refs'[c] \in Nat
    <2>1. refs'[c] = Cardinality(Pointing(Tasks, held', c)) + Cardinality(Pointing(Names, channels_', c))
      BY DEF CountsMatch, Pointing
    <2>2. Cardinality(Pointing(Tasks, held', c)) \in Nat
      BY RegistryAssumption, PointingFinite
    <2>3. Cardinality(Pointing(Names, channels_', c)) \in Nat
      BY RegistryAssumption, PointingFinite
    <2> QED BY <2>1, <2>2, <2>3
  <1> QED BY <1>1, <1>2

LEMMA NullIsNoObject == Null \notin Objects /\ Objects \subseteq Nat
  BY RegistryAssumption DEF Null, Objects

LEMMA RegistryStutter ==
  ASSUME Registry, UNCHANGED <<channels_, made, capacity, refs, held, doing, buffer>>
  PROVE  Registry'
  BY DEF Registry, ChannelsType, CountsMatch, HeldWhileDoing, OnlyMade, Pointing

LEMMA RegistryCreate ==
  ASSUME TasksType, Registry, NEW t \in Tasks, CreateChannel(t)
  PROVE  Registry'
  <1> DEFINE n == Stmt(t).name
             m == made + 1
             old == channels_[n]
  <1>1. n \in Names
    BY StmtType DEF CreateChannel
  <1>2. /\ made < MaxObjects /\ made' = m
        /\ channels_' = [channels_ EXCEPT ![n] = m]
        /\ capacity' = [capacity EXCEPT ![m] = Capacity[n]]
        /\ refs' = Count(m, old)
        /\ UNCHANGED <<doing, held, buffer>>
    BY DEF CreateChannel
  <1>3. made \in Nat /\ m \in Objects /\ m \in 0 .. MaxObjects
    BY <1>2, RegistryAssumption DEF Registry, ChannelsType, Objects
  <1>4. channels_ \in [Names -> Objects \cup {Null}] /\ old \in Objects \cup {Null}
    BY <1>1 DEF Registry, ChannelsType
  <1>5. old # m
    BY <1>1, <1>3 DEF Registry, OnlyMade
  <1>6. Capacity[n] \in Nat
    BY <1>1, RegistryAssumption
  <1>6a. IsFiniteSet(Names)
    BY RegistryAssumption
  <1>6b. Redirected(Names, channels_, channels_', n, m)
    BY <1>1, <1>2, <1>4 DEF Redirected
  <1> HIDE DEF n, m, old
  <1>7. CountsMatch'
    <2> SUFFICES ASSUME NEW c \in Objects
                 PROVE  refs'[c] = Cardinality(Pointing(Tasks, held, c))
                                   + Cardinality(Pointing(Names, channels_', c))
      BY <1>2 DEF CountsMatch, Pointing
    <2>1. refs[c] = Cardinality(Pointing(Tasks, held, c)) + Cardinality(Pointing(Names, channels_, c))
      BY DEF Registry, CountsMatch
    <2>2. Cardinality(Pointing(Tasks, held, c)) \in Nat /\ Cardinality(Pointing(Names, channels_, c)) \in Nat
      BY RegistryAssumption, PointingFinite
    <2>3. CASE c = m
      <3>1. channels_[n] # m
        BY <1>5 DEF old
      <3>2. Cardinality(Pointing(Names, channels_', c)) = Cardinality(Pointing(Names, channels_, c)) + 1
        BY <1>6a, <1>6b, <2>3, <3>1, PointingMore
      <3>3. refs'[c] = refs[c] + 1
        BY <1>2, <1>5, <2>3, CountAt DEF Registry
      <3> QED BY <2>1, <2>2, <3>2, <3>3
    <2>4. CASE c = old
      <3>1. channels_[n] = c
        BY <2>4 DEF old
      <3>2. Cardinality(Pointing(Names, channels_', c)) = Cardinality(Pointing(Names, channels_, c)) - 1
        BY <1>6a, <1>6b, <1>5, <2>4, <3>1, PointingLess
      <3>3. refs'[c] = refs[c] - 1
        BY <1>2, <1>5, <2>4, CountAt DEF Registry
      <3> QED BY <2>1, <2>2, <3>2, <3>3
    <2>5. CASE c # m /\ c # old
      <3>1. channels_[n] # c
        BY <2>5 DEF old
      <3>2. Pointing(Names, channels_', c) = Pointing(Names, channels_, c)
        BY <1>6b, <2>5, <3>1, PointingSame
      <3>3. refs'[c] = refs[c]
        BY <1>2, <2>5, CountAt DEF Registry
      <3> QED BY <2>1, <3>2, <3>3
    <2> QED BY <2>3, <2>4, <2>5
  <1>8. refs' \in [Objects -> Nat]
    BY <1>2, <1>7, RefsType
  <1>9. ChannelsType'
    <2>1. channels_' \in [Names -> Objects \cup {Null}]
      BY <1>1, <1>2, <1>3, <1>4
    <2>2. capacity' \in [Objects -> Nat]
      BY <1>2, <1>3, <1>6 DEF Registry, ChannelsType
    <2> QED BY <1>2, <1>3, <1>8, <2>1, <2>2 DEF Registry, ChannelsType
  <1>10. HeldWhileDoing'
    BY <1>2 DEF Registry, HeldWhileDoing
  <1>11. OnlyMade'
    <2>1. m = made + 1
      BY DEF m
    <2>2. ASSUME NEW u \in Tasks PROVE held'[u] <= made'
      <3>1. held[u] \in Nat /\ held[u] <= made
        BY DEF Registry, ChannelsType, OnlyMade, Null, Objects
      <3> QED BY <1>2, <1>3, <2>1, <3>1
    <2>3. ASSUME NEW k \in Names PROVE channels_'[k] <= made'
      <3>1. channels_[k] \in Nat /\ channels_[k] <= made
        BY DEF Registry, ChannelsType, OnlyMade, Null, Objects
      <3>2. channels_'[k] = m \/ channels_'[k] = channels_[k]
        BY <1>1, <1>2, <1>4
      <3> QED BY <1>2, <1>3, <2>1, <3>1, <3>2
    <2> QED BY <2>2, <2>3 DEF OnlyMade
  <1> QED BY <1>7, <1>9, <1>10, <1>11 DEF Registry

LEMMA RegistryLookup ==
  ASSUME TasksType, Registry, NEW t \in Tasks, Lookup(t)
  PROVE  Registry'
  <1> DEFINE n == Stmt(t).name
             new == channels_[n]
  <1>1. n \in Names
    BY StmtType DEF Lookup
  <1>2. /\ doing[t] = "idle" /\ new # Null
        /\ held' = [held EXCEPT ![t] = new]
        /\ refs' = Count(new, Null)
        /\ doing' = [doing EXCEPT ![t] = Operation(Stmt(t))]
        /\ UNCHANGED <<channels_, made, capacity, buffer>>
    BY DEF Lookup, Ready
  <1>3. held \in [Tasks -> Objects \cup {Null}] /\ new \in Objects /\ new <= made
    BY <1>1, <1>2 DEF Registry, ChannelsType, OnlyMade
  <1>4. held[t] = Null
    BY <1>2 DEF Registry, HeldWhileDoing
  <1>4a. IsFiniteSet(Tasks)
    BY RegistryAssumption
  <1>4b. Redirected(Tasks, held, held', t, new)
    BY <1>2, <1>3 DEF Redirected
  <1> HIDE DEF n, new
  <1>5. CountsMatch'
    <2> SUFFICES ASSUME NEW c \in Objects
                 PROVE  refs'[c] = Cardinality(Pointing(Tasks, held', c))
                                   + Cardinality(Pointing(Names, channels_, c))
      BY <1>2 DEF CountsMatch, Pointing
    <2>1. refs[c] = Cardinality(Pointing(Tasks, held, c)) + Cardinality(Pointing(Names, channels_, c))
      BY DEF Registry, CountsMatch
    <2>2. Cardinality(Pointing(Tasks, held, c)) \in Nat /\ Cardinality(Pointing(Names, channels_, c)) \in Nat
      BY RegistryAssumption, PointingFinite
    <2>3. held[t] # c /\ c # Null
      BY <1>4, NullIsNoObject
    <2>4. CASE c = new
      <3>1. Cardinality(Pointing(Tasks, held', c)) = Cardinality(Pointing(Tasks, held, c)) + 1
        BY <1>4a, <1>4b, <2>3, <2>4, PointingMore
      <3>2. refs'[c] = refs[c] + 1
        BY <1>2, <2>3, <2>4, CountAt DEF Registry
      <3> QED BY <2>1, <2>2, <3>1, <3>2
    <2>5. CASE c # new
      <3>1. Pointing(Tasks, held', c) = Pointing(Tasks, held, c)
        BY <1>4b, <2>3, <2>5, PointingSame
      <3>2. refs'[c] = refs[c]
        BY <1>2, <2>3, <2>5, CountAt DEF Registry
      <3> QED BY <2>1, <3>1, <3>2
    <2> QED BY <2>4, <2>5
  <1>6. refs' \in [Objects -> Nat]
    BY <1>2, <1>5, RefsType
  <1>7. ChannelsType'
    <2>1. held' \in [Tasks -> Objects \cup {Null}]
      BY <1>2, <1>3
    <2> QED BY <1>2, <1>6, <2>1 DEF Registry, ChannelsType
  <1>8. HeldWhileDoing'
    <2>1. Operation(Stmt(t)) # "idle"
      BY DEF Operation
    <2> QED BY <1>2, <1>3, <2>1 DEF Registry, HeldWhileDoing, TasksType
  <1>9. OnlyMade'
    BY <1>2, <1>3 DEF Registry, OnlyMade
  <1> QED BY <1>5, <1>7, <1>8, <1>9 DEF Registry

LEMMA RegistryRelease ==
  ASSUME TasksType, Registry, NEW t \in Tasks, Release(t), doing[t] # "idle",
         buffer' \in [Objects -> Seq(Tasks \X Nat)]
  PROVE  Registry'
  <1>1. /\ held' = [held EXCEPT ![t] = Null]
        /\ refs' = Count(Null, held[t])
        /\ doing' = [doing EXCEPT ![t] = "idle"]
        /\ UNCHANGED <<channels_, made, capacity>>
    BY DEF Release
  <1>2. held \in [Tasks -> Objects \cup {Null}] /\ held[t] \in Objects /\ made \in Nat
    BY DEF Registry, ChannelsType, HeldWhileDoing
  <1>2a. IsFiniteSet(Tasks)
    BY RegistryAssumption
  <1>2b. Redirected(Tasks, held, held', t, Null)
    BY <1>1, <1>2 DEF Redirected
  <1>3. CountsMatch'
    <2> SUFFICES ASSUME NEW c \in Objects
                 PROVE  refs'[c] = Cardinality(Pointing(Tasks, held', c))
                                   + Cardinality(Pointing(Names, channels_, c))
      BY <1>1 DEF CountsMatch, Pointing
    <2>1. refs[c] = Cardinality(Pointing(Tasks, held, c)) + Cardinality(Pointing(Names, channels_, c))
      BY DEF Registry, CountsMatch
    <2>2. Cardinality(Pointing(Tasks, held, c)) \in Nat /\ Cardinality(Pointing(Names, channels_, c)) \in Nat
      BY RegistryAssumption, PointingFinite
    <2>3. c # Null
      BY NullIsNoObject
    <2>4. CASE c = held[t]
      <3>1. Cardinality(Pointing(Tasks, held', c)) = Cardinality(Pointing(Tasks, held, c)) - 1
        BY <1>2a, <1>2b, <2>3, <2>4, PointingLess
      <3>2. refs'[c] = refs[c] - 1
        BY <1>1, <2>3, <2>4, CountAt DEF Registry
      <3> QED BY <2>1, <2>2, <3>1, <3>2
    <2>5. CASE c # held[t]
      <3>1. Pointing(Tasks, held', c) = Pointing(Tasks, held, c)
        BY <1>2b, <2>3, <2>5, PointingSame
      <3>2. refs'[c] = refs[c]
        BY <1>1, <2>3, <2>5, CountAt DEF Registry
      <3> QED BY <2>1, <3>1, <3>2
    <2> QED BY <2>4, <2>5
  <1>4. refs' \in [Objects -> Nat]
    BY <1>1, <1>3, RefsType
  <1>5. ChannelsType'
    <2>1. held' \in [Tasks -> Objects \cup {Null}]
      BY <1>1, <1>2
    <2> QED BY <1>1, <1>4, <2>1 DEF Registry, ChannelsType
  <1>6. HeldWhileDoing'
    BY <1>1, <1>2 DEF Registry, HeldWhileDoing, TasksType
  <1>7. OnlyMade'
    BY <1>1, <1>2 DEF Registry, OnlyMade, Null
  <1> QED BY <1>3, <1>5, <1>6, <1>7 DEF Registry

LEMMA RegistrySend ==
  ASSUME TasksType, Registry, NEW t \in Tasks, Send(t)
  PROVE  Registry'
  <1>1. held[t] \in Objects
    BY DEF Send, Registry, ChannelsType, HeldWhileDoing
  <1>2. <<t, at[t]>> \in Tasks \X Nat
    BY DEF TasksType
  <1>3. Append(buffer[held[t]], <<t, at[t]>>) \in Seq(Tasks \X Nat)
    BY <1>1, <1>2 DEF Registry, ChannelsType
  <1>4. buffer' \in [Objects -> Seq(Tasks \X Nat)]
    BY <1>1, <1>3 DEF Send, Registry, ChannelsType
  <1> QED BY <1>4, RegistryRelease DEF Send

LEMMA RegistryReceive ==
  ASSUME TasksType, Registry, NEW t \in Tasks, Receive(t)
  PROVE  Registry'
  <1>1. held[t] \in Objects
    BY DEF Receive, Registry, ChannelsType, HeldWhileDoing
  <1>2. Tail(buffer[held[t]]) \in Seq(Tasks \X Nat)
    BY <1>1 DEF Receive, Registry, ChannelsType
  <1>3. buffer' \in [Objects -> Seq(Tasks \X Nat)]
    BY <1>1, <1>2 DEF Receive, Registry, ChannelsType
  <1> QED BY <1>3, RegistryRelease DEF Receive

LEMMA RegistryExecute ==
  ASSUME TasksType, Registry, NEW t \in Tasks, ExecuteStatement(t)
  PROVE  Registry'
  <1>1. CASE CreateChannel(t)
    BY <1>1, RegistryCreate
  <1>2. CASE Lookup(t)
    BY <1>2, RegistryLookup
  <1>3. CASE Send(t) \/ Receive(t)
    BY <1>3, RegistrySend, RegistryReceive
  <1>4. CASE LookupFails(t) \/ JsCreate(t) \/ JsCall(t) \/ Other(t)
    BY <1>4, RegistryStutter DEF LookupFails, JsCreate, JsCall, Other, registryVars
  <1> QED BY <1>1, <1>2, <1>3, <1>4 DEF ExecuteStatement

-----------------------------------------------------------------------------
(* The theorems                                                            *)

\* No channel exists but the first, to which one name leads.
LEMMA RegistryInit == Init => IInv
  <1> SUFFICES ASSUME Init PROVE IInv
    OBVIOUS
  <1>1. TasksType
    <2>1. global_queue_ \in Seq(Tasks)
      <3>1. Cardinality(Tasks) \in Nat
        BY RegistryAssumption, FS_CardinalityType
      <3>2. global_queue_ \in [1 .. Cardinality(Tasks) -> Tasks]
        BY DEF Init
      <3> QED BY <3>1, <3>2
    <2>2. script \in Scripts /\ replaced \in BOOLEAN /\ returned \subseteq Tasks
      BY DEF Init
    <2>3. /\ current_task \in [Workers -> Tasks \cup {Nobody}]
          /\ at \in [Tasks -> Nat]
          /\ doing \in [Tasks -> {"idle", "send", "receive"}]
          /\ jsChannels \in [Maps -> SUBSET Names]
      BY DEF Init
    <2> QED BY <2>1, <2>2, <2>3 DEF TasksType
  <1>2. 1 \in Objects /\ Null \notin Objects
    BY RegistryAssumption DEF Objects, Null
  <1>3. ChannelsType
    <2>1. made \in 0 .. MaxObjects
      BY RegistryAssumption DEF Init
    <2>2. capacity \in [Objects -> Nat]
      BY RegistryAssumption DEF Init
    <2>3. buffer \in [Objects -> Seq(Tasks \X Nat)]
      BY DEF Init
    <2>4. refs \in [Objects -> Nat]
      BY DEF Init
    <2>5. held \in [Tasks -> Objects \cup {Null}] /\ channels_ \in [Names -> Objects \cup {Null}]
      BY <1>2 DEF Init
    <2> QED BY <2>1, <2>2, <2>3, <2>4, <2>5 DEF ChannelsType
  <1>4. CountsMatch
    <2> SUFFICES ASSUME NEW c \in Objects
                 PROVE  refs[c] = Cardinality(Pointing(Tasks, held, c))
                                  + Cardinality(Pointing(Names, channels_, c))
      BY DEF CountsMatch
    <2>1. Pointing(Tasks, held, c) = {}
      BY <1>2 DEF Init, Pointing
    <2>2. CASE c = 1
      <3>1. Pointing(Names, channels_, c) = {First}
        BY <1>2, <2>2, RegistryAssumption DEF Init, Pointing
      <3>2. refs[c] = 1
        BY <1>2, <2>2 DEF Init
      <3>3. Cardinality({First}) = 1
        BY FS_Singleton
      <3> QED BY <2>1, <3>1, <3>2, <3>3, FS_EmptySet
    <2>3. CASE c # 1
      <3>1. Pointing(Names, channels_, c) = {}
        BY <1>2, <2>3 DEF Init, Pointing
      <3>2. refs[c] = 0
        BY <1>2, <2>3 DEF Init
      <3> QED BY <2>1, <3>1, <3>2, FS_EmptySet
    <2> QED BY <2>2, <2>3
  <1>5. HeldWhileDoing
    BY DEF Init, HeldWhileDoing
  <1>6. OnlyMade
    BY DEF Init, OnlyMade, Null
  <1> QED BY <1>1, <1>3, <1>4, <1>5, <1>6, IInvParts DEF Registry

LEMMA RegistryStep ==
  ASSUME IInv, [Next]_vars
  PROVE  IInv'
  <1>1. TasksType /\ Registry
    BY IInvParts
  <1>2. ASSUME NEW w \in Workers, Take(w) PROVE IInv'
    BY <1>1, <1>2, TasksTake, RegistryStutter, IInvNext DEF Take, registryVars
  <1>3. ASSUME NEW w \in Workers, Return(w) PROVE IInv'
    BY <1>1, <1>3, TasksReturn, RegistryStutter, IInvNext DEF Return, registryVars
  <1>4. ASSUME NEW w \in Workers, Work(w) PROVE IInv'
    <2>1. current_task[w] \in Tasks /\ ExecuteStatement(current_task[w])
      BY <1>1, <1>4 DEF TasksType, Work
    <2> QED BY <1>1, <2>1, TasksExecute, RegistryExecute, IInvNext
  <1>5. CASE UNCHANGED vars
    BY <1>1, <1>5, TasksStutter, RegistryStutter, IInvNext DEF vars, registryVars
  <1> QED BY <1>2, <1>3, <1>4, <1>5 DEF Next, AllReturned

LEMMA RegistryInvariant == Spec => []IInv
  BY RegistryInit, RegistryStep, PTL DEF Spec

LEMMA CountsKeepAlive == IInv => HeldIsAlive
  <1> SUFFICES ASSUME IInv PROVE HeldIsAlive
    OBVIOUS
  <1>1. ASSUME NEW c \in Objects
        PROVE  refs[c] > 0 <=> \/ \E t \in Tasks : held[t] = c
                               \/ \E n \in Names : channels_[n] = c
    <2>1. refs[c] = Cardinality(Pointing(Tasks, held, c)) + Cardinality(Pointing(Names, channels_, c))
      BY DEF IInv, CountsMatch
    <2>2. /\ Cardinality(Pointing(Tasks, held, c)) \in Nat
          /\ Cardinality(Pointing(Names, channels_, c)) \in Nat
      BY RegistryAssumption, PointingFinite
    <2>3. Cardinality(Pointing(Tasks, held, c)) > 0 <=> \E t \in Tasks : held[t] = c
      BY RegistryAssumption, PointingAny
    <2>4. Cardinality(Pointing(Names, channels_, c)) > 0 <=> \E n \in Names : channels_[n] = c
      BY RegistryAssumption, PointingAny
    <2> QED BY <2>1, <2>2, <2>3, <2>4
  <1>2. ASSUME NEW t \in Tasks, held[t] # Null PROVE refs[held[t]] > 0
    <2>1. held[t] \in Objects
      BY <1>2 DEF IInv, TypeOK
    <2> QED BY <1>1, <2>1
  <1>3. ASSUME NEW n \in Names, channels_[n] # Null PROVE refs[channels_[n]] > 0
    <2>1. channels_[n] \in Objects
      BY <1>3 DEF IInv, TypeOK
    <2> QED BY <1>1, <2>1
  <1> QED BY <1>1, <1>2, <1>3 DEF HeldIsAlive

\* The registry, the tasks and the channel objects keep their types, for any
\* tasks, names, scripts and number of worker threads.
THEOREM RegistryTypeCorrect == Spec => []TypeOK
  <1>1. IInv => TypeOK
    BY DEF IInv
  <1> QED BY <1>1, RegistryInvariant, PTL

\* sendToChannel() and receiveFromChannel() use the channel after they have
\* released channels_mutex_: the object is there as long as they use it, although
\* createChannel() may have replaced it in the map by then, and it is destroyed
\* when neither a task nor the map refers to it.
THEOREM RegistryHeldIsAlive == Spec => []HeldIsAlive
  BY CountsKeepAlive, RegistryInvariant, PTL

\* An object whose last reference has gone is not referred to again: between the
\* lookup under channels_mutex_ and the use of the channel outside of it, nobody
\* takes a pointer to an object that has been destroyed.
DestroyedForGood ==
    [][\A c \in Objects : c <= made /\ refs[c] = 0 => refs'[c] = 0]_vars

\* What createChannel() registers is new, and what a task looks up is registered.
THEOREM RegistryDestroyedForGood == Spec => DestroyedForGood
  <1>1. IInv /\ IInv' /\ [Next]_vars => [\A c \in Objects : c <= made /\ refs[c] = 0 => refs'[c] = 0]_vars
    <2> SUFFICES ASSUME IInv, IInv', Next, NEW c \in Objects, c <= made, refs[c] = 0
                 PROVE  refs'[c] = 0
      OBVIOUS
    <2>1. HeldIsAlive /\ ChannelsType /\ made \in Nat /\ refs'[c] \in Nat
      <3>1. HeldIsAlive
        BY CountsKeepAlive
      <3>2. ChannelsType
        BY IInvParts DEF Registry
      <3>3. refs' \in [Objects -> Nat]
        BY DEF IInv, TypeOK
      <3>4. made \in Nat
        BY <3>2 DEF ChannelsType
      <3> QED BY <3>1, <3>2, <3>3, <3>4
    <2>2. c # Null /\ c \in Nat
      BY NullIsNoObject
    <2>3. ASSUME NEW w \in Workers, Take(w) \/ Return(w) PROVE refs'[c] = 0
      BY <2>3 DEF Take, Return, registryVars
    <2>4. ASSUME NEW t \in Tasks, CreateChannel(t) PROVE refs'[c] = 0
      <3>1. refs' = Count(made + 1, channels_[Stmt(t).name])
        BY <2>4 DEF CreateChannel
      <3>2. c # made + 1
        BY <2>1, <2>2
      <3>3. refs'[c] = refs[c] - 1 \/ refs'[c] = refs[c]
        BY <2>1, <3>1, <3>2, CountAt
      <3> QED BY <2>1, <3>3
    <2>5. ASSUME NEW t \in Tasks, Lookup(t) PROVE refs'[c] = 0
      <3> DEFINE n == Stmt(t).name
      <3>1. n \in Names
        BY <2>5, IInvParts, StmtType DEF Lookup
      <3>2. channels_[n] # Null /\ refs' = Count(channels_[n], Null)
        BY <2>5 DEF Lookup
      <3> HIDE DEF n
      <3>3. channels_[n] # c
        BY <2>1, <3>1, <3>2 DEF HeldIsAlive
      <3> QED BY <2>1, <2>2, <3>2, <3>3, CountAt
    <2>6. ASSUME NEW t \in Tasks, Release(t) PROVE refs'[c] = 0
      <3>1. refs' = Count(Null, held[t])
        BY <2>6 DEF Release
      <3>2. refs'[c] = refs[c] - 1 \/ refs'[c] = refs[c]
        BY <2>1, <2>2, <3>1, CountAt
      <3> QED BY <2>1, <3>2
    <2>7. ASSUME NEW t \in Tasks, ExecuteStatement(t) PROVE refs'[c] = 0
      <3>1. CASE LookupFails(t) \/ JsCreate(t) \/ JsCall(t) \/ Other(t)
        BY <3>1 DEF LookupFails, JsCreate, JsCall, Other, registryVars
      <3>2. CASE Send(t) \/ Receive(t)
        BY <3>2, <2>6 DEF Send, Receive
      <3> QED BY <2>4, <2>5, <2>7, <3>1, <3>2 DEF ExecuteStatement
    <2>8. ASSUME NEW w \in Workers, Work(w) PROVE refs'[c] = 0
      <3>1. current_task[w] \in Tasks /\ ExecuteStatement(current_task[w])
        BY <2>8 DEF IInv, TypeOK, Work
      <3> QED BY <3>1, <2>7
    <2>9. CASE AllReturned
      BY <2>9 DEF AllReturned, vars, registryVars
    <2> QED BY <2>3, <2>8, <2>9 DEF Next
  <1> QED BY <1>1, RegistryInvariant, PTL DEF Spec, DestroyedForGood

===============================================================================
