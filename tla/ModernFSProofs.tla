---------------------------- MODULE ModernFSProofs ----------------------------
(***************************************************************************)
(* Proofs of the safety invariants of ModernFS, for any requests, any tree *)
(* of directories and any size of the pool.                                *)
(*                                                                         *)
(* Three arguments.  Directories: what exists is closed under parents, so  *)
(* the innermost level that exists vouches for all above it.  Writes: a    *)
(* write that is not dirty is alone on its path from the truncation to the *)
(* close, so the file grows by its chunks only.  Reads: while no write is  *)
(* on and none truncates, the text does not change under a read.           *)
(***************************************************************************)
EXTENDS ModernFS, SequenceTheorems, TLAPS

-----------------------------------------------------------------------------
(* The inductive invariant                                                 *)

\* The stages before the file is open.
Early == {"none", "queued", "ensure", "mkdir", "open"}

\* Only the kinds of requests get to a stage that pass it in workCallback().
StagesInv ==
    \A r \in Requests :
        /\ stage[r] \in {"ensure", "mkdir"} => r \in Creates
        /\ stage[r] \in {"open", "copy"} => r \notin Infos
        /\ stage[r] \in Early => at[r] = 0 /\ text[r] = <<>>
        /\ ok[r] => Finished(r)

\* The queue holds each request at most once, and only queued ones.
QueueInv ==
    /\ \A i \in 1 .. Len(queue) : stage[queue[i]] = "queued"
    /\ \A i, j \in 1 .. Len(queue) : queue[i] = queue[j] => i = j

\* The directories that exist form a tree, and no file is in the place of one.
DirsInv ==
    /\ dirs \cap files = {}
    /\ \A p \in Paths : \A i \in 1 .. Len(Chain[p]) :
           Chain[p][i] \in dirs => \A j \in 1 .. i : Chain[p][j] \in dirs

\* create_directories() has made or found the levels it has got to.
LevelInv ==
    \A w \in Requests :
        stage[w] = "mkdir" =>
            /\ level[w] < Len(Chain[PathOf[w]])
            /\ \A i \in 1 .. level[w] : Chain[PathOf[w]][i] \in dirs

\* The write that truncated a path last is past its opening.
LastInv ==
    \A p \in Paths :
        last[p] \in Writes =>
            /\ PathOf[last[p]] = p /\ p \in files
            /\ stage[last[p]] \notin Early

\* The first n chunks of the text of w.
Prefix(w, n) == [i \in 1 .. n |-> w]
TextLen(w) == IF w = Old THEN 2 ELSE Length[w]

\* A write that met no other is alone on its path while it is on, and the file
\* holds what it has written so far, or all of it after the close.
WriteInv ==
    \A p \in files :
        last[p] \notin dirty =>
            /\ Writing(p) \subseteq {last[p]}
            /\ Writing(p) = {} => content[p] = TextOf(last[p])
            /\ Writing(p) # {} =>
                   /\ at[last[p]] <= Length[last[p]]
                   /\ content[p] = Prefix(last[p], at[last[p]])
            /\ last[p] \in Writes /\ Finished(last[p]) =>
                   ok[last[p]] /\ info[last[p]] = [kind |-> "file", size |-> Length[last[p]]]

\* What a read was able to open is still there.
OpenedInv ==
    \A r \in Reads : stage[r] \in {"copy", "info"} \/ ok[r] => PathOf[r] \in files \cup dirs

\* A read without rivals has so far a prefix of the text it found, all of it at
\* the end if its stream did not fail, and its file is still as that write left it.
ReadInv ==
    \A r \in Reads :
        rivals[r] = {} /\ source[r] # Hole /\ PathOf[r] \in files =>
            /\ stage[r] \in {"copy", "info"} =>
                   /\ source[r] = last[PathOf[r]] /\ source[r] \notin dirty
                   /\ Writing(PathOf[r]) = {}
            /\ stage[r] \in {"copy", "info"} \/ ok[r] =>
                   /\ at[r] <= TextLen(source[r])
                   /\ text[r] = Prefix(source[r], at[r])
            /\ (stage[r] = "info" \/ ok[r]) /\ r \notin failed => at[r] = TextLen(source[r])
            /\ ok[r] => info[r] = [kind |-> "file", size |-> TextLen(source[r])]

IInv ==
    /\ TypeOK /\ StagesInv /\ QueueInv
    /\ DirsInv /\ LevelInv /\ ParentsCreated
    /\ LastInv /\ WriteInv
    /\ OpenedInv /\ ReadInv

-----------------------------------------------------------------------------
(* Types                                                                   *)

\* Updating a function at one argument keeps its type.
LEMMA ExceptType ==
  ASSUME NEW A, NEW S, NEW f \in [A -> S], NEW a \in A, NEW v \in S
  PROVE  [f EXCEPT ![a] = v] \in [A -> S]
  OBVIOUS

LEMMA TypeInit == Init => TypeOK
  <1> SUFFICES ASSUME Init PROVE TypeOK
    OBVIOUS
  <1> USE DEF Init
  <1>1. dirs \subseteq Dirs /\ files \subseteq Paths
    BY PathsAssumption
  <1>2. content \in [Paths -> Seq(Chunks)]
    <2>1. <<Old, Old>> \in Seq(Chunks) /\ <<>> \in Seq(Chunks)
      BY DEF Chunks
    <2> QED
      BY <2>1
  <1>3. queue \in Seq(Requests) /\ stage \in [Requests -> Stage]
    BY DEF Stage
  <1>4. level \in [Requests -> Nat] /\ at \in [Requests -> Nat] /\ text \in [Requests -> Seq(Chunks)]
    OBVIOUS
  <1>5. info \in [Requests -> [kind : {"none", "file", "directory"}, size : Nat]]
    BY DEF NoInfo
  <1>6. ok \in [Requests -> BOOLEAN] /\ last \in [Paths -> Writes \cup {Old}] /\ dirty \subseteq Writes
    OBVIOUS
  <1>7. source \in [Reads -> Chunks] /\ rivals \in [Reads -> SUBSET Writes] /\ failed \subseteq Reads
    BY DEF Chunks
  <1> QED
    BY <1>1, <1>2, <1>3, <1>4, <1>5, <1>6, <1>7 DEF TypeOK

\* What a write at a position leaves behind is a text.
LEMMA PutType ==
  ASSUME NEW c \in Seq(Chunks), NEW i \in Nat \ {0}, NEW w \in Writes
  PROVE  Put(c, i, w) \in Seq(Chunks)
  <1> DEFINE n == IF Len(c) < i THEN i ELSE Len(c)
  <1>1. n \in Nat
    OBVIOUS
  <1>2. \A j \in 1 .. n : (IF j = i THEN w ELSE IF j <= Len(c) THEN c[j] ELSE Hole) \in Chunks
    BY DEF Chunks
  <1>3. Put(c, i, w) = [j \in 1 .. n |-> IF j = i THEN w ELSE IF j <= Len(c) THEN c[j] ELSE Hole]
    BY DEF Put
  <1> HIDE DEF n
  <1> QED
    BY <1>1, <1>2, <1>3

LEMMA FileInfoType ==
  ASSUME TypeOK, NEW p \in Paths
  PROVE  FileInfo(p) \in [kind : {"none", "file", "directory"}, size : Nat]
  <1>1. Len(content[p]) \in Nat
    BY DEF TypeOK
  <1> QED
    BY <1>1 DEF FileInfo, NoInfo

\* That mkdir is called for a level of the chain is the one fact a type needs.
LEMMA TypeStep == TypeOK /\ LevelInv /\ [Next]_vars => TypeOK'
  <1> SUFFICES ASSUME TypeOK, LevelInv, [Next]_vars PROVE TypeOK'
    OBVIOUS
  <1> USE DEF TypeOK, results, history
  <1> USE PathsAssumption, RequestsAssumption
  <1>1. ASSUME NEW r \in Requests, Submit(r) PROVE TypeOK'
    BY <1>1 DEF Submit, To, Stage
  <1>2. ASSUME NEW r \in Requests, Begin(r) PROVE TypeOK'
    <2>1. queue' \in Seq(Requests)
      BY <1>2 DEF Begin
    <2>2. stage' \in [Requests -> Stage]
      BY <1>2 DEF Begin, To, Stage, Running
    <2> QED
      BY <1>2, <2>1, <2>2 DEF Begin
  <1>3. ASSUME NEW r \in Requests, AfterWork(r) PROVE TypeOK'
    BY <1>3 DEF AfterWork, To, Stage
  <1>4. ASSUME NEW r \in Requests, FindMissing(r) PROVE TypeOK'
    <2>1. PICK k \in 0 .. Len(Chain[PathOf[r]]) :
            /\ level' = [level EXCEPT ![r] = k]
            /\ To(r, IF k < Len(Chain[PathOf[r]]) /\ (k > 0 => Chain[PathOf[r]][k] \in dirs)
                       THEN "mkdir" ELSE "open")
      BY <1>4 DEF FindMissing
    <2>2. k \in Nat
      OBVIOUS
    <2>3. level' \in [Requests -> Nat]
      BY <2>1, <2>2
    <2>4. stage' \in [Requests -> Stage]
      BY <2>1 DEF To, Stage, Running
    <2> QED
      BY <1>4, <2>3, <2>4 DEF FindMissing
  <1>5. ASSUME NEW r \in Requests, Mkdir(r) PROVE TypeOK'
    <2> DEFINE c == Chain[PathOf[r]]
    <2>1. level[r] + 1 \in Nat
      OBVIOUS
    <2>2. [level EXCEPT ![r] = level[r] + 1] \in [Requests -> Nat]
      BY <2>1, ExceptType
    <2>3. level' = level \/ level' = [level EXCEPT ![r] = level[r] + 1]
      BY <1>5 DEF Mkdir, MkdirUnless
    <2>4. level' \in [Requests -> Nat]
      BY <2>2, <2>3
    <2>5. To(r, "open") \/ To(r, "mkdir")
      BY <1>5 DEF Mkdir, MkdirUnless
    <2>6. stage' \in [Requests -> Stage]
      BY <2>5 DEF To, Stage, Running
    <2>7. c \in Seq(Dirs) /\ level[r] + 1 \in 1 .. Len(c)
      BY <1>5 DEF Mkdir, MkdirUnless, LevelInv
    <2>8. c[level[r] + 1] \in Dirs
      BY <2>7
    <2>9. dirs' \subseteq Dirs
      BY <1>5, <2>8 DEF Mkdir, MkdirUnless
    <2> QED
      BY <1>5, <2>4, <2>6, <2>9 DEF Mkdir, MkdirUnless
  <1>6. ASSUME NEW r \in Requests, OpenRead(r) PROVE TypeOK'
    <2>1. stage' \in [Requests -> Stage]
      BY <1>6 DEF OpenRead, To, Stage, Running
    <2>2. source' \in [Reads -> Chunks]
      BY <1>6 DEF OpenRead, Chunks
    <2> QED
      BY <1>6, <2>1, <2>2 DEF OpenRead
  <1>7. ASSUME NEW r \in Requests, ReadChunk(r) PROVE TypeOK'
    <2> DEFINE c == content[PathOf[r]]
    <2>1. stage' \in [Requests -> Stage]
      BY <1>7 DEF ReadChunk, To, Stage, Running
    <2>2. c \in Seq(Chunks) /\ at[r] \in Nat /\ text[r] \in Seq(Chunks)
      OBVIOUS
    <2>3. CASE at[r] < Len(c)
      <3>1. at[r] + 1 \in 1 .. Len(c) /\ at[r] + 1 \in Nat
        BY <2>2, <2>3
      <3>2. Append(text[r], c[at[r] + 1]) \in Seq(Chunks)
        BY <2>2, <3>1
      <3>3. text' = [text EXCEPT ![r] = Append(text[r], c[at[r] + 1])]
        BY <1>7, <2>3 DEF ReadChunk
      <3>4. at' = [at EXCEPT ![r] = at[r] + 1]
        BY <1>7, <2>3 DEF ReadChunk
      <3>5. text' \in [Requests -> Seq(Chunks)]
        BY <3>2, <3>3, ExceptType
      <3>6. at' \in [Requests -> Nat]
        BY <3>1, <3>4, ExceptType
      <3> QED
        BY <1>7, <2>1, <3>5, <3>6 DEF ReadChunk
    <2>4. CASE ~(at[r] < Len(c))
      BY <1>7, <2>1, <2>4 DEF ReadChunk
    <2> QED
      BY <2>3, <2>4
  <1>8. ASSUME NEW r \in Requests, OpenWrite(r) PROVE TypeOK'
    <2>1. stage' \in [Requests -> Stage]
      BY <1>8 DEF OpenWrite, To, Stage, Running
    <2>2. content' \in [Paths -> Seq(Chunks)] /\ files' \subseteq Paths
      <3>1. <<>> \in Seq(Chunks) /\ PathOf[r] \in Paths
        OBVIOUS
      <3>2. [content EXCEPT ![PathOf[r]] = <<>>] \in [Paths -> Seq(Chunks)]
        BY <3>1, ExceptType
      <3>3. content' = content \/ content' = [content EXCEPT ![PathOf[r]] = <<>>]
        BY <1>8 DEF OpenWrite
      <3>4. files' = files \/ files' = files \cup {PathOf[r]}
        BY <1>8 DEF OpenWrite
      <3> QED
        BY <3>1, <3>2, <3>3, <3>4
    <2>3. CASE Truncating(r, PathOf[r])
      <3>1. last' \in [Paths -> Writes \cup {Old}] /\ dirty' \subseteq Writes
        BY <1>8, <2>3 DEF Truncating, OpenWrite, Writing
      <3>2. rivals' \in [Reads -> SUBSET Writes]
        BY <1>8, <2>3 DEF Truncating, OpenWrite
      <3> QED
        BY <1>8, <2>1, <2>2, <2>3, <3>1, <3>2 DEF OpenWrite, Truncating
    <2> QED
      BY <1>8, <2>1, <2>2, <2>3 DEF OpenWrite
  <1>9. ASSUME NEW r \in Requests, WriteChunk(r) PROVE TypeOK'
    <2>1. stage' \in [Requests -> Stage]
      BY <1>9 DEF WriteChunk, To, Stage, Running
    <2>2. /\ at[r] + 1 \in Nat \ {0} /\ r \in Writes
          /\ PathOf[r] \in Paths /\ content[PathOf[r]] \in Seq(Chunks)
      BY <1>9 DEF WriteChunk
    <2>3. Put(content[PathOf[r]], at[r] + 1, r) \in Seq(Chunks)
      BY <2>2, PutType
    <2>4. [content EXCEPT ![PathOf[r]] = Put(content[PathOf[r]], at[r] + 1, r)]
            \in [Paths -> Seq(Chunks)]
      BY <2>2, <2>3, ExceptType
    <2>5. [at EXCEPT ![r] = at[r] + 1] \in [Requests -> Nat]
      BY <2>2, ExceptType
    <2> QED
      BY <1>9, <2>1, <2>4, <2>5 DEF WriteChunk
  <1>10. ASSUME NEW r \in Requests, WriteFails(r) PROVE TypeOK'
    BY <1>10 DEF WriteFails, To, Stage
  <1>11. ASSUME NEW r \in Requests, CreateInfo(r) PROVE TypeOK'
    <2>1. info' \in [Requests -> [kind : {"none", "file", "directory"}, size : Nat]]
      BY <1>11, FileInfoType DEF CreateInfo
    <2>2. stage' \in [Requests -> Stage] /\ ok' \in [Requests -> BOOLEAN]
      BY <1>11 DEF CreateInfo, To, Stage
    <2> QED
      BY <1>11, <2>1, <2>2 DEF CreateInfo
  <1>12. ASSUME NEW r \in Requests, ReadFails(r) PROVE TypeOK'
    BY <1>12 DEF ReadFails, To, Stage, Running
  <1>13. CASE UNCHANGED vars
    BY <1>13 DEF vars
  <1> QED
    BY <1>1, <1>2, <1>3, <1>4, <1>5, <1>6, <1>7, <1>8, <1>9, <1>10, <1>11, <1>12, <1>13
    DEF Next, WorkCallback

-----------------------------------------------------------------------------
(* Stages and the queue                                                    *)

\* A step moves one request to a new stage, or none, and the main thread is the
\* only one to touch the queue.
StepOf(r) ==
    \/ Submit(r) \/ Begin(r) \/ AfterWork(r) \/ FindMissing(r) \/ Mkdir(r)
    \/ OpenRead(r) \/ ReadChunk(r) \/ ReadFails(r) \/ OpenWrite(r) \/ WriteChunk(r) \/ WriteFails(r)
    \/ CreateInfo(r)

LEMMA NextIsStep == Next <=> \E r \in Requests : StepOf(r)
  BY DEF Next, WorkCallback, StepOf

\* A step of r leaves the other requests alone.
LEMMA OthersKept ==
  ASSUME TypeOK, NEW r \in Requests, StepOf(r), NEW x \in Requests, x # r
  PROVE  /\ stage'[x] = stage[x] /\ level'[x] = level[x] /\ at'[x] = at[x]
         /\ text'[x] = text[x] /\ info'[x] = info[x] /\ ok'[x] = ok[x]
  <1> USE DEF TypeOK, results, history
  <1>1. CASE Submit(r)
    BY <1>1 DEF Submit, To
  <1>2. CASE Begin(r)
    BY <1>2 DEF Begin, To
  <1>3. CASE AfterWork(r)
    BY <1>3 DEF AfterWork, To
  <1>4. CASE FindMissing(r)
    BY <1>4 DEF FindMissing, To
  <1>5. CASE Mkdir(r)
    BY <1>5 DEF Mkdir, MkdirUnless, To
  <1>6. CASE OpenRead(r)
    BY <1>6 DEF OpenRead, To
  <1>7. CASE ReadChunk(r)
    BY <1>7 DEF ReadChunk, To
  <1>8. CASE OpenWrite(r)
    BY <1>8 DEF OpenWrite, To
  <1>9. CASE WriteChunk(r)
    BY <1>9 DEF WriteChunk, To
  <1>10. CASE WriteFails(r)
    BY <1>10 DEF WriteFails, To
  <1>11. CASE CreateInfo(r)
    BY <1>11 DEF CreateInfo, To
  <1>12. CASE ReadFails(r)
    BY <1>12 DEF ReadFails, To
  <1> QED
    BY <1>1, <1>2, <1>3, <1>4, <1>5, <1>6, <1>7, <1>8, <1>9, <1>10, <1>11, <1>12 DEF StepOf

\* A request that a thread takes was queued, and so is no longer in the queue
\* when it starts.
LEMMA BeginQueued ==
  ASSUME TypeOK, QueueInv, NEW r \in Requests, Begin(r)
  PROVE  stage[r] = "queued"
  BY DEF TypeOK, QueueInv, Begin

LEMMA StagesStep ==
  ASSUME TypeOK, StagesInv, QueueInv, NEW r \in Requests, StepOf(r)
  PROVE  StagesInv'
  <1> DEFINE Good(x) ==
        /\ stage'[x] \in {"ensure", "mkdir"} => x \in Creates
        /\ stage'[x] \in {"open", "copy"} => x \notin Infos
        /\ stage'[x] \in Early => at'[x] = 0 /\ text'[x] = <<>>
        /\ ok'[x] => stage'[x] \in {"worked", "delivered"}
  <1>1. ASSUME NEW x \in Requests, x # r PROVE Good(x)
    BY <1>1, OthersKept DEF StagesInv, Finished
  <1>2. Good(r)
    <2> USE DEF TypeOK, results, history, StagesInv, Finished, Early
    <2> USE RequestsAssumption
    <2>1. CASE Submit(r)
      BY <2>1 DEF Submit, To
    <2>2. CASE Begin(r)
      BY <2>2, BeginQueued DEF Begin, To, Requests
    <2>3. CASE AfterWork(r)
      BY <2>3 DEF AfterWork, To
    <2>4. CASE FindMissing(r)
      <3>1. To(r, "open") \/ To(r, "mkdir")
        BY <2>4 DEF FindMissing
      <3> QED
        BY <2>4, <3>1 DEF FindMissing, To
    <2>5. CASE Mkdir(r)
      <3>1. To(r, "open") \/ To(r, "mkdir")
        BY <2>5 DEF Mkdir, MkdirUnless
      <3> QED
        BY <2>5, <3>1 DEF Mkdir, MkdirUnless, To
    <2>6. CASE OpenRead(r)
      BY <2>6 DEF OpenRead, To
    <2>7. CASE ReadChunk(r)
      BY <2>7 DEF ReadChunk, To
    <2>8. CASE OpenWrite(r)
      BY <2>8 DEF OpenWrite, To
    <2>9. CASE WriteChunk(r)
      BY <2>9 DEF WriteChunk, To
    <2>10. CASE WriteFails(r)
      BY <2>10 DEF WriteFails, To
    <2>11. CASE CreateInfo(r)
      BY <2>11 DEF CreateInfo, To
    <2>12. CASE ReadFails(r)
      BY <2>12 DEF ReadFails, To
    <2> QED
      BY <2>1, <2>2, <2>3, <2>4, <2>5, <2>6, <2>7, <2>8, <2>9, <2>10, <2>11, <2>12 DEF StepOf
  <1> QED
    BY <1>1, <1>2 DEF StagesInv, Finished

LEMMA AppendFacts ==
  ASSUME NEW S, NEW q \in Seq(S), NEW x \in S
  PROVE  /\ Len(Append(q, x)) = Len(q) + 1 /\ Append(q, x)[Len(q) + 1] = x
         /\ \A i \in 1 .. Len(q) : Append(q, x)[i] = q[i] /\ q[i] \in S
  OBVIOUS

LEMMA TailFacts ==
  ASSUME NEW S, NEW q \in Seq(S), q # <<>>
  PROVE  /\ Len(q) \in Nat \ {0} /\ Len(Tail(q)) = Len(q) - 1 /\ Head(q) = q[1]
         /\ \A i \in 1 .. Len(Tail(q)) : Tail(q)[i] = q[i + 1] /\ i + 1 \in 1 .. Len(q)
         /\ \A i \in 1 .. Len(q) : q[i] \in S
  BY HeadTailProperties

LEMMA QueueStep ==
  ASSUME TypeOK, QueueInv, NEW r \in Requests, StepOf(r)
  PROVE  QueueInv'
  <1>1. queue \in Seq(Requests) /\ Len(queue) \in Nat
    BY DEF TypeOK
  <1>2. \A x \in Requests : x # r => stage'[x] = stage[x]
    BY OthersKept
  <1>3. CASE Submit(r)
    <2>1. queue' = Append(queue, r) /\ stage'[r] = "queued" /\ stage[r] = "none"
      BY <1>3 DEF Submit, To, TypeOK
    <2>2. \A i \in 1 .. Len(queue') : i \in 1 .. Len(queue) \/ i = Len(queue) + 1
      BY <1>1, <2>1, AppendFacts
    <2> QED
      BY <1>1, <1>2, <2>1, <2>2, AppendFacts DEF QueueInv
  <1>4. CASE Begin(r)
    <2>1. queue # <<>> /\ r = Head(queue) /\ queue' = Tail(queue)
      BY <1>4 DEF Begin
    <2>2. /\ Len(queue) \in Nat \ {0} /\ Len(queue') = Len(queue) - 1 /\ r = queue[1]
          /\ \A i \in 1 .. Len(queue') : queue'[i] = queue[i + 1] /\ i + 1 \in 1 .. Len(queue)
          /\ \A i \in 1 .. Len(queue) : queue[i] \in Requests
      BY <1>1, <2>1, TailFacts
    <2>3. \A i \in 1 .. Len(queue') : queue'[i] # r
      BY <2>2 DEF QueueInv
    <2> QED
      BY <1>2, <2>2, <2>3 DEF QueueInv
  <1>5. CASE queue' = queue /\ stage[r] # "queued"
    <2>1. \A i \in 1 .. Len(queue) : queue[i] \in Requests /\ queue[i] # r
      BY <1>1, <1>5 DEF QueueInv
    <2> QED
      BY <1>2, <1>5, <2>1 DEF QueueInv
  <1> QED
    BY <1>3, <1>4, <1>5
    DEF StepOf, AfterWork, FindMissing, Mkdir, MkdirUnless, OpenRead, ReadChunk, ReadFails, OpenWrite,
        WriteChunk, WriteFails, CreateInfo

-----------------------------------------------------------------------------
(* Directories                                                             *)

\* Nothing is removed, only mkdir makes directories and only the open of a
\* write makes files.
LEMMA OnlyGrows ==
  ASSUME NEW r \in Requests, StepOf(r)
  PROVE  /\ dirs \subseteq dirs' /\ files \subseteq files'
         /\ dirs' # dirs => Mkdir(r)
         /\ files' # files => OpenWrite(r)
  BY DEF StepOf, Submit, Begin, AfterWork, FindMissing, Mkdir, MkdirUnless, OpenRead, ReadChunk, ReadFails,
         OpenWrite, WriteChunk, WriteFails, CreateInfo

\* The level that Mkdir(r) makes is one of the chain of its path.
LEMMA MkdirLevel ==
  ASSUME TypeOK, LevelInv, NEW r \in Requests, Mkdir(r)
  PROVE  /\ PathOf[r] \in Paths
         /\ level[r] \in Nat /\ level[r] + 1 \in 1 .. Len(Chain[PathOf[r]])
         /\ \A i \in 1 .. level[r] : Chain[PathOf[r]][i] \in dirs
  <1>1. PathOf[r] \in Paths /\ level[r] \in Nat
    BY PathsAssumption DEF TypeOK
  <1>2. Len(Chain[PathOf[r]]) \in Nat
    BY <1>1, PathsAssumption
  <1> QED
    BY <1>1, <1>2 DEF Mkdir, MkdirUnless, LevelInv

\* A file does not replace a directory nor a directory a file, and a directory
\* is made where its parent is.
LEMMA DirsStep ==
  ASSUME TypeOK, LevelInv, DirsInv, NEW r \in Requests, StepOf(r)
  PROVE  DirsInv'
  <1>1. ASSUME Mkdir(r) PROVE DirsInv'
    <2> DEFINE c == Chain[PathOf[r]]
               d == c[level[r] + 1]
    <2>1. files' = files /\ (dirs' = dirs \/ (dirs' = dirs \cup {d} /\ d \notin files))
      BY <1>1 DEF Mkdir, MkdirUnless
    <2>2. /\ PathOf[r] \in Paths
          /\ level[r] \in Nat /\ level[r] + 1 \in 1 .. Len(c)
          /\ \A i \in 1 .. level[r] : c[i] \in dirs
      BY <1>1, MkdirLevel
    <2>3. DOMAIN c = 1 .. Len(c)
      BY <2>2, PathsAssumption
    <2>4. \A i \in 1 .. level[r] + 1 : c[i] \in dirs \/ c[i] = d
      BY <2>2
    <2> HIDE DEF d
    <2>5. ASSUME NEW p \in Paths, NEW i \in 1 .. Len(Chain[p]), Chain[p][i] \in dirs', NEW j \in 1 .. i
          PROVE  Chain[p][j] \in dirs'
      <3>1. CASE Chain[p][i] \in dirs
        BY <2>1, <3>1 DEF DirsInv
      <3>2. CASE Chain[p][i] = d /\ dirs' = dirs \cup {d}
        <4>1. i \in DOMAIN Chain[p]
          BY PathsAssumption
        <4>2. Chain[p][i] = c[level[r] + 1]
          BY <3>2 DEF d
        <4>3. i = level[r] + 1 /\ \A k \in 1 .. i : Chain[p][k] = c[k]
          BY <2>2, <2>3, <4>1, <4>2, TreeAssumption
        <4> QED
          BY <2>4, <3>2, <4>3
      <3> QED
        BY <2>1, <2>5, <3>1, <3>2
    <2> QED
      BY <2>1, <2>5 DEF DirsInv
  <1>2. ASSUME OpenWrite(r) PROVE DirsInv'
    BY <1>2 DEF OpenWrite, CanCreate, DirsInv
  <1>3. CASE UNCHANGED <<dirs, files>>
    BY <1>3 DEF DirsInv
  <1> QED
    BY <1>1, <1>2, <1>3, OnlyGrows

LEMMA LevelStep ==
  ASSUME TypeOK, LevelInv, QueueInv, DirsInv, NEW r \in Requests, StepOf(r)
  PROVE  LevelInv'
  <1> DEFINE c == Chain[PathOf[r]]
  <1>1. dirs \subseteq dirs'
    BY OnlyGrows
  <1>2. ASSUME NEW x \in Requests, x # r, stage'[x] = "mkdir"
        PROVE  /\ level'[x] < Len(Chain[PathOf[x]])
               /\ \A i \in 1 .. level'[x] : Chain[PathOf[x]][i] \in dirs'
    BY <1>1, <1>2, OthersKept DEF LevelInv
  <1>3. ASSUME stage'[r] = "mkdir"
        PROVE  level'[r] < Len(c) /\ \A i \in 1 .. level'[r] : c[i] \in dirs'
    <2>1. CASE FindMissing(r)
      <3>1. PICK k \in 0 .. Len(c) :
              /\ k > 0 => c[k] \in dirs \cup files
              /\ level' = [level EXCEPT ![r] = k]
              /\ To(r, IF k < Len(c) /\ (k > 0 => c[k] \in dirs) THEN "mkdir" ELSE "open")
        BY <2>1 DEF FindMissing
      <3>2. level'[r] = k /\ k < Len(c) /\ (k > 0 => c[k] \in dirs)
        BY <1>3, <3>1 DEF To, TypeOK
      <3>3. PathOf[r] \in Paths /\ Len(c) \in Nat
        BY PathsAssumption
      <3>4. \A i \in 1 .. k : c[i] \in dirs
        BY <3>2, <3>3 DEF DirsInv
      <3> QED
        BY <1>1, <3>2, <3>4
    <2>2. CASE Mkdir(r)
      <3>1. /\ level[r] \in Nat /\ level[r] + 1 \in 1 .. Len(c)
            /\ \A i \in 1 .. level[r] : c[i] \in dirs
        BY <2>2, MkdirLevel
      <3>2. level'[r] = level[r] + 1 /\ level[r] + 1 < Len(c) /\ dirs' = dirs \cup {c[level[r] + 1]}
        BY <1>3, <2>2 DEF Mkdir, MkdirUnless, To, TypeOK
      <3> QED
        BY <3>1, <3>2
    <2>3. ~(Submit(r) \/ Begin(r) \/ AfterWork(r) \/ OpenRead(r) \/ ReadChunk(r) \/ ReadFails(r)
              \/ OpenWrite(r) \/ WriteChunk(r) \/ WriteFails(r) \/ CreateInfo(r))
      BY <1>3 DEF Submit, Begin, AfterWork, OpenRead, ReadChunk, ReadFails, OpenWrite, WriteChunk, WriteFails,
                  CreateInfo, To, TypeOK
    <2> QED
      BY <2>1, <2>2, <2>3 DEF StepOf
  <1> QED
    BY <1>2, <1>3 DEF LevelInv

\* A write goes to its open with every level in place, unless one was refused.
LEMMA ParentsStep ==
  ASSUME TypeOK, StagesInv, QueueInv, LevelInv, DirsInv, ParentsCreated,
         NEW r \in Requests, StepOf(r)
  PROVE  ParentsCreated'
  <1> SUFFICES ASSUME NEW w \in Creates, stage'[w] \in {"open", "copy", "info"},
                      Range(Chain[PathOf[w]]) \cap (Denied \cup files') = {},
                      NEW d \in Range(Chain[PathOf[w]])
               PROVE  d \in dirs'
    BY DEF ParentsCreated
  <1> DEFINE c == Chain[PathOf[w]]
  <1>1. w \in Requests /\ PathOf[w] \in Paths
    BY RequestsAssumption, PathsAssumption DEF Requests
  <1>2. c \in Seq(Dirs) /\ Len(c) \in Nat /\ DOMAIN c = 1 .. Len(c)
    BY <1>1, PathsAssumption
  <1>3. \A i \in 1 .. Len(c) : c[i] \in Range(c)
    BY <1>2 DEF Range
  <1>4. dirs \subseteq dirs' /\ files \subseteq files'
    BY OnlyGrows
  <1>5. CASE stage[w] \in {"open", "copy", "info"}
    BY <1>4, <1>5 DEF ParentsCreated
  <1>6. CASE w = r /\ FindMissing(w)
    <2>1. PICK k \in 0 .. Len(c) :
            /\ k > 0 => c[k] \in dirs \cup files
            /\ To(w, IF k < Len(c) /\ (k > 0 => c[k] \in dirs) THEN "mkdir" ELSE "open")
      BY <1>6 DEF FindMissing
    <2>2. ~(k < Len(c) /\ (k > 0 => c[k] \in dirs))
      BY <1>1, <2>1 DEF To, TypeOK
    <2>3. k > 0 => c[k] \in dirs
      BY <1>2, <1>3, <1>4, <2>1
    <2>4. k = Len(c)
      BY <1>2, <2>2, <2>3
    <2>5. \A i \in 1 .. Len(c) : c[i] \in dirs
      BY <1>1, <1>2, <2>3, <2>4 DEF DirsInv
    <2> QED
      BY <1>2, <1>4, <2>5 DEF Range
  <1>7. CASE w = r /\ Mkdir(w)
    <2>1. /\ level[w] \in Nat /\ level[w] + 1 \in 1 .. Len(c)
          /\ \A i \in 1 .. level[w] : c[i] \in dirs
      BY <1>7, MkdirLevel
    <2>2. c[level[w] + 1] \notin Denied \cup files
      BY <1>3, <1>4, <2>1
    <2>3. level[w] + 1 = Len(c) /\ dirs' = dirs \cup {c[level[w] + 1]}
      BY <1>1, <1>2, <1>7, <2>1, <2>2 DEF Mkdir, MkdirUnless, To, TypeOK
    <2>4. \A i \in 1 .. Len(c) : c[i] \in dirs'
      BY <2>1, <2>3
    <2> QED
      BY <1>2, <2>4 DEF Range
  <1>8. stage[w] \in {"open", "copy", "info"} \/ (w = r /\ (FindMissing(w) \/ Mkdir(w)))
    <2>1. w # r => stage'[w] = stage[w]
      BY <1>1, OthersKept
    <2>2. w \notin Infos
      BY RequestsAssumption
    <2>3. ASSUME w = r, ~FindMissing(w), ~Mkdir(w) PROVE stage[w] \in {"open", "copy", "info"}
      BY <1>1, <2>2, <2>3
      DEF StepOf, Submit, Begin, AfterWork, OpenRead, ReadChunk, ReadFails, OpenWrite, WriteChunk, WriteFails,
          CreateInfo, To, TypeOK
    <2> QED
      BY <2>1, <2>3
  <1> QED
    BY <1>5, <1>6, <1>7, <1>8

-----------------------------------------------------------------------------
(* Texts                                                                   *)

LEMMA TextFacts ==
  ASSUME NEW w, NEW n \in Nat
  PROVE  /\ Prefix(w, n) \in Seq({w}) /\ Len(Prefix(w, n)) = n
         /\ \A i \in 1 .. n : Prefix(w, n)[i] = w
         /\ Prefix(w, 0) = <<>>
  BY DEF Prefix

LEMMA TextIsPrefix ==
  ASSUME NEW w
  PROVE  TextOf(w) = Prefix(w, TextLen(w))
  BY DEF Prefix, TextOf, TextLen

LEMMA PrefixOfPrefix ==
  ASSUME NEW w, NEW k \in Nat, NEW n \in Nat, k <= n
  PROVE  IsPrefix(Prefix(w, k), Prefix(w, n))
  <1> DEFINE s == Prefix(w, k)
             t == Prefix(w, n)
  <1>1. Len(s) = k /\ \A i \in 1 .. k : s[i] = w
    BY TextFacts
  <1>2. Len(t) = n /\ \A i \in 1 .. n : t[i] = w
    BY TextFacts
  <1> HIDE DEF s, t
  <1>3. /\ SubSeq(s, 1, k) \in Seq({w}) /\ Len(SubSeq(s, 1, k)) = k
        /\ \A i \in 1 .. k : SubSeq(s, 1, k)[i] = w
    BY <1>1, SubSeqProperties
  <1>4. /\ SubSeq(t, 1, k) \in Seq({w}) /\ Len(SubSeq(t, 1, k)) = k
        /\ \A i \in 1 .. k : SubSeq(t, 1, k)[i] = w
    BY <1>2, SubSeqProperties
  <1>5. SubSeq(s, 1, k) = SubSeq(t, 1, k)
    BY <1>3, <1>4, SeqEqual
  <1>6. IsPrefix(s, t)
    BY <1>1, <1>2, <1>5 DEF IsPrefix
  <1> QED
    BY <1>6 DEF s, t

\* A chunk at the position after a prefix makes the next prefix.
LEMMA PutNext ==
  ASSUME NEW w, NEW n \in Nat
  PROVE  Put(Prefix(w, n), n + 1, w) = Prefix(w, n + 1)
  <1>1. Len(Prefix(w, n)) = n /\ \A i \in 1 .. n : Prefix(w, n)[i] = w
    BY TextFacts
  <1>2. Put(Prefix(w, n), n + 1, w)
          = [j \in 1 .. n + 1 |-> IF j = n + 1 THEN w ELSE IF j <= n THEN Prefix(w, n)[j] ELSE Hole]
    BY <1>1 DEF Put
  <1>3. \A j \in 1 .. n + 1 :
          (IF j = n + 1 THEN w ELSE IF j <= n THEN Prefix(w, n)[j] ELSE Hole) = w
    BY <1>1
  <1> QED
    BY <1>2, <1>3 DEF Prefix

LEMMA AppendNext ==
  ASSUME NEW w, NEW n \in Nat
  PROVE  Append(Prefix(w, n), w) = Prefix(w, n + 1)
  <1> DEFINE s == Prefix(w, n)
             t == Prefix(w, n + 1)
  <1>1. s \in Seq({w}) /\ Len(s) = n /\ \A i \in 1 .. n : s[i] = w
    BY TextFacts
  <1>2. n + 1 \in Nat
    OBVIOUS
  <1>3. t \in Seq({w}) /\ Len(t) = n + 1 /\ \A i \in 1 .. n + 1 : t[i] = w
    BY <1>2, TextFacts
  <1> HIDE DEF s, t
  <1>4. Append(s, w) \in Seq({w}) /\ Len(Append(s, w)) = n + 1
    BY <1>1
  <1>5. \A i \in 1 .. n + 1 : Append(s, w)[i] = w
    BY <1>1
  <1>6. Append(s, w) = t
    BY <1>3, <1>4, <1>5, SeqEqual
  <1> QED
    BY <1>6 DEF s, t

-----------------------------------------------------------------------------
(* Writes                                                                  *)

\* A request never goes back behind its open.
LEMMA NoWayBack ==
  ASSUME TypeOK, QueueInv, NEW r \in Requests, StepOf(r), NEW x \in Requests, stage[x] \notin Early
  PROVE  stage'[x] \notin Early
  <1>1. CASE x # r
    BY <1>1, OthersKept
  <1>2. CASE x = r
    <2>1. ~Begin(r)
      BY <1>2, BeginQueued DEF Early
    <2>2. ~(Submit(r) \/ FindMissing(r) \/ Mkdir(r) \/ OpenRead(r) \/ OpenWrite(r))
      BY <1>2 DEF Submit, FindMissing, Mkdir, MkdirUnless, OpenRead, OpenWrite, Early
    <2> QED
      BY <1>2, <2>1, <2>2
      DEF StepOf, AfterWork, ReadChunk, ReadFails, WriteChunk, WriteFails, CreateInfo, To, TypeOK, Early
  <1> QED
    BY <1>1, <1>2

\* OpenWrite(w) that succeeds.
Opens(w) == OpenWrite(w) /\ CanCreate(PathOf[w])

LEMMA OpensEffect ==
  ASSUME TypeOK, NEW w \in Requests, Opens(w)
  PROVE  /\ w \in Writes /\ PathOf[w] \in Paths /\ stage[w] = "open" /\ stage'[w] = "copy"
         /\ files' = files \cup {PathOf[w]} /\ PathOf[w] \notin dirs
         /\ content' = [content EXCEPT ![PathOf[w]] = <<>>]
         /\ Truncating(w, PathOf[w])
         /\ UNCHANGED <<dirs, at, text, info, ok>>
  BY PathsAssumption DEF Opens, OpenWrite, CanCreate, To, TypeOK, results

\* Only the open of a write changes which write was last, and only writes that
\* are on change a file or become dirty.
LEMMA OnlyWritesWrite ==
  ASSUME NEW r \in Requests, StepOf(r)
  PROVE  /\ ~Opens(r) => UNCHANGED <<files, last, rivals>>
         /\ ~Opens(r) /\ ~WriteFails(r) => dirty' = dirty
         /\ ~Opens(r) /\ ~WriteChunk(r) => content' = content
         /\ ~OpenRead(r) => source' = source
         /\ ~ReadFails(r) => failed' = failed
  BY DEF StepOf, Submit, Begin, AfterWork, FindMissing, Mkdir, MkdirUnless, OpenRead, ReadChunk, ReadFails,
         Opens, OpenWrite, Truncating, WriteChunk, WriteFails, CreateInfo, history

LEMMA LastStep ==
  ASSUME TypeOK, QueueInv, LastInv, NEW r \in Requests, StepOf(r)
  PROVE  LastInv'
  <1> SUFFICES ASSUME NEW p \in Paths, last'[p] \in Writes
               PROVE  PathOf[last'[p]] = p /\ p \in files' /\ stage'[last'[p]] \notin Early
    BY DEF LastInv
  <1>1. CASE Opens(r) /\ p = PathOf[r]
    <2>1. last'[p] = r /\ stage'[r] = "copy" /\ p \in files'
      BY <1>1, OpensEffect DEF Truncating, TypeOK
    <2> QED
      BY <1>1, <2>1 DEF Early
  <1>2. CASE ~(Opens(r) /\ p = PathOf[r])
    <2>1. last'[p] = last[p]
      BY <1>2, OnlyWritesWrite, OpensEffect DEF Truncating, TypeOK
    <2>2. files \subseteq files'
      BY OnlyGrows
    <2>3. stage'[last[p]] \notin Early
      BY <2>1, NoWayBack DEF LastInv, Requests
    <2> QED
      BY <2>1, <2>2, <2>3 DEF LastInv
  <1> QED
    BY <1>1, <1>2

\* The writes that are on after a step.
LEMMA WritingNext ==
  ASSUME TypeOK, QueueInv, StagesInv, NEW r \in Requests, StepOf(r), NEW p \in Paths
  PROVE  /\ ~(Opens(r) /\ p = PathOf[r]) => Writing(p)' \subseteq Writing(p)
         /\ Opens(r) /\ p = PathOf[r] => Writing(p)' = Writing(p) \cup {r}
         /\ Writing(p) \ {r} \subseteq Writing(p)'
  <1>1. \A x \in Writes : x # r => stage'[x] = stage[x]
    BY OthersKept DEF Requests
  <1>2. r \in Writes /\ stage'[r] = "copy" => stage[r] = "copy" \/ Opens(r)
    BY RequestsAssumption
    DEF StepOf, Submit, Begin, AfterWork, FindMissing, Mkdir, MkdirUnless, OpenRead, ReadChunk, ReadFails,
        Opens, OpenWrite, WriteChunk, WriteFails, CreateInfo, To, TypeOK
  <1>3. Opens(r) => r \in Writes /\ stage'[r] = "copy"
    BY OpensEffect
  <1> QED
    BY <1>1, <1>2, <1>3 DEF Writing

\* The last write of p is as far as before: its position, and what it reported.
LEMMA UntouchedFile ==
  ASSUME TypeOK, StagesInv, QueueInv, LastInv, WriteInv, NEW r \in Requests, StepOf(r),
         NEW p \in files, last'[p] = last[p], last[p] \notin dirty, content'[p] = content[p],
         Writing(p)' = Writing(p), last[p] # r \/ AfterWork(r)
  PROVE  /\ Writing(p)' \subseteq {last'[p]}
         /\ Writing(p)' = {} => content'[p] = TextOf(last'[p])
         /\ Writing(p)' # {} =>
                /\ at'[last'[p]] <= Length[last'[p]]
                /\ content'[p] = Prefix(last'[p], at'[last'[p]])
         /\ last'[p] \in Writes /\ stage'[last'[p]] \in {"worked", "delivered"} =>
                ok'[last'[p]] /\ info'[last'[p]] = [kind |-> "file", size |-> Length[last'[p]]]
  <1>1. ASSUME last[p] \in Writes
        PROVE  /\ at'[last[p]] = at[last[p]] /\ ok'[last[p]] = ok[last[p]]
               /\ info'[last[p]] = info[last[p]]
               /\ stage'[last[p]] \in {"worked", "delivered"} => Finished(last[p])
    <2>1. CASE last[p] # r
      BY <1>1, <2>1, OthersKept DEF Requests, Finished
    <2>2. CASE AfterWork(r) /\ last[p] = r
      BY <2>2 DEF AfterWork, results, Finished
    <2> QED
      BY <2>1, <2>2
  <1>2. Writing(p) \subseteq {last[p]} /\ (Writing(p) # {} => last[p] \in Writes)
    BY DEF WriteInv, Writing
  <1> QED
    BY <1>1, <1>2 DEF WriteInv

LEMMA WriteStep ==
  ASSUME TypeOK, StagesInv, QueueInv, DirsInv, LastInv, WriteInv, NEW r \in Requests, StepOf(r)
  PROVE  WriteInv'
  <1> SUFFICES ASSUME NEW p \in files', last'[p] \notin dirty'
               PROVE  /\ Writing(p)' \subseteq {last'[p]}
                      /\ Writing(p)' = {} => content'[p] = TextOf(last'[p])
                      /\ Writing(p)' # {} =>
                             /\ at'[last'[p]] <= Length[last'[p]]
                             /\ content'[p] = Prefix(last'[p], at'[last'[p]])
                      /\ last'[p] \in Writes /\ stage'[last'[p]] \in {"worked", "delivered"} =>
                             /\ ok'[last'[p]]
                             /\ info'[last'[p]] = [kind |-> "file", size |-> Length[last'[p]]]
    BY DEF WriteInv, Finished
  <1>1. p \in Paths
    <2>1. CASE Opens(r)
      <3>1. files' = files \cup {PathOf[r]} /\ PathOf[r] \in Paths
        BY <2>1, OpensEffect
      <3> QED
        BY <3>1 DEF TypeOK
    <2>2. CASE ~Opens(r)
      BY <2>2, OnlyWritesWrite DEF TypeOK
    <2> QED
      BY <2>1, <2>2
  \* p is truncated: r is clean only if no other write is on.
  <1>2. CASE Opens(r) /\ p = PathOf[r]
    <2>1. /\ r \in Writes /\ stage[r] = "open" /\ stage'[r] = "copy" /\ UNCHANGED at
          /\ content'[p] = <<>> /\ Truncating(r, p)
      BY <1>1, <1>2, OpensEffect DEF TypeOK
    <2>2. last'[p] = r /\ Writing(p) = {}
      BY <1>1, <2>1 DEF Truncating, TypeOK
    <2>3. Writing(p)' = {r}
      BY <1>1, <1>2, <2>2, WritingNext
    <2>4. at'[r] = 0 /\ 0 <= Length[r]
      BY <2>1, PathsAssumption DEF StagesInv, Early
    <2>5. content'[p] = Prefix(r, 0)
      BY <2>1, TextFacts
    <2> QED
      BY <2>1, <2>2, <2>3, <2>4, <2>5
  <1>3. CASE ~(Opens(r) /\ p = PathOf[r])
    <2>1. p \in files /\ last'[p] = last[p] /\ last[p] \notin dirty
      <3>1. CASE ~Opens(r)
        BY <1>1, <3>1, OnlyWritesWrite DEF WriteFails
      <3>2. CASE Opens(r)
        <4>1. /\ p # PathOf[r] /\ files' = files \cup {PathOf[r]}
              /\ Truncating(r, PathOf[r]) /\ last \in [Paths -> Writes \cup {Old}]
          BY <1>3, <3>2, OpensEffect DEF TypeOK
        <4>2. last'[p] = last[p] /\ dirty \subseteq dirty'
          BY <1>1, <4>1 DEF Truncating
        <4> QED
          BY <4>1, <4>2
      <3> QED
        BY <3>1, <3>2
    <2>2. Writing(p) \subseteq {last[p]}
      BY <2>1 DEF WriteInv
    <2>3. last[p] \in Writes => PathOf[last[p]] = p /\ stage[last[p]] \notin Early
      BY <1>1 DEF LastInv
    <2>4. Writing(p)' \subseteq Writing(p) /\ Writing(p) \ {r} \subseteq Writing(p)'
      BY <1>1, <1>3, WritingNext
    \* r is a clean write of p that is on: it is alone there.
    <2>5. CASE WriteChunk(r) /\ last[p] = r
      <3>1. r \in Writes /\ stage[r] = "copy" /\ PathOf[r] = p /\ r \in Writing(p)
        BY <2>3, <2>5 DEF WriteChunk, Writing
      <3>2. /\ at[r] \in Nat /\ Length[r] \in Nat /\ at[r] <= Length[r]
            /\ content[p] = Prefix(r, at[r])
        <4>1. at[r] \in Nat /\ Length[r] \in Nat
          BY <3>1, PathsAssumption DEF TypeOK
        <4>2. Writing(p) # {}
          BY <3>1
        <4> QED
          BY <2>1, <2>5, <4>1, <4>2 DEF WriteInv
      <3>3. CASE at[r] < Length[r]
        <4>1. /\ content' = [content EXCEPT ![p] = Put(content[p], at[r] + 1, r)]
              /\ at' = [at EXCEPT ![r] = at[r] + 1] /\ stage' = stage
          BY <2>5, <3>1, <3>3 DEF WriteChunk
        <4>2. content'[p] = Prefix(r, at[r] + 1) /\ at'[r] = at[r] + 1
          BY <1>1, <3>2, <4>1, PutNext DEF TypeOK
        <4>3. Writing(p)' = Writing(p)
          BY <4>1 DEF Writing
        <4> QED
          BY <2>1, <2>2, <2>5, <3>1, <3>2, <3>3, <4>1, <4>2, <4>3
      <3>4. CASE ~(at[r] < Length[r])
        <4>1. content' = content /\ stage'[r] = "info"
          BY <2>5, <3>1, <3>4 DEF WriteChunk, To, TypeOK
        <4>2. Writing(p)' = {}
          BY <2>2, <2>4, <2>5, <4>1 DEF Writing
        <4>3. at[r] = Length[r] /\ TextLen(r) = Length[r]
          BY <3>1, <3>2, <3>4, RequestsAssumption DEF TextLen, Requests
        <4>4. content'[p] = TextOf(r)
          BY <3>2, <4>1, <4>3, TextIsPrefix
        <4> QED
          BY <2>1, <2>5, <4>1, <4>2, <4>4
      <3> QED
        BY <3>3, <3>4
    \* The info is taken of the text that r wrote.
    <2>6. CASE CreateInfo(r) /\ last[p] = r
      <3>0. p \in files /\ p \notin dirs
        BY <2>1 DEF DirsInv
      <3>1. CASE r \in Writes
        <4>1. stage[r] = "info" /\ stage'[r] = "worked" /\ PathOf[r] = p /\ UNCHANGED content
          BY <2>3, <2>6, <3>1 DEF CreateInfo, To, TypeOK
        <4>2. Writing(p) = {} /\ Writing(p)' = {}
          BY <2>2, <2>4, <2>6, <4>1 DEF Writing
        <4>3. content[p] = TextOf(r)
          BY <2>1, <2>6, <4>2 DEF WriteInv
        <4>4. Length[r] \in Nat /\ TextLen(r) = Length[r] /\ r \notin Infos
          BY <3>1, RequestsAssumption, PathsAssumption DEF TextLen, Requests
        <4>5. Len(content[p]) = Length[r]
          <5>1. content[p] = Prefix(r, Length[r])
            BY <4>3, <4>4, TextIsPrefix
          <5>2. ASSUME NEW n \in Nat PROVE Len(Prefix(r, n)) = n
            BY TextFacts
          <5> QED
            BY <4>4, <5>1, <5>2
        <4>6. FileInfo(p) = [kind |-> "file", size |-> Length[r]]
          BY <3>0, <4>5 DEF FileInfo
        <4>7. info'[r] = FileInfo(p) /\ ok'[r]
          BY <2>6, <4>1, <4>4 DEF CreateInfo, TypeOK
        <4> QED
          BY <2>1, <2>6, <4>1, <4>2, <4>3, <4>6, <4>7
      <3> QED
        BY <1>1, <2>6, <3>1, RequestsAssumption DEF TypeOK
    \* Other steps do not touch p, its last write or what that has reported.
    <2>7. CASE ~(WriteChunk(r) /\ last[p] = r) /\ ~(CreateInfo(r) /\ last[p] = r)
      <3>1. r \in Writing(p) => r = last[p]
        BY <2>2
      <3>2. last[p] = r => AfterWork(r)
        <4> SUFFICES ASSUME last[p] = r PROVE AfterWork(r)
          OBVIOUS
        <4>1. r \in Writes /\ stage[r] \notin Early
          BY <1>1, <2>3, RequestsAssumption DEF TypeOK
        <4>2. ~WriteFails(r)
          BY <2>1 DEF WriteFails
        <4>3. ~(Submit(r) \/ Begin(r) \/ FindMissing(r) \/ Mkdir(r) \/ OpenRead(r) \/ OpenWrite(r))
          BY <4>1, BeginQueued
          DEF Submit, FindMissing, Mkdir, MkdirUnless, OpenRead, OpenWrite, Early
        <4>4. ~ReadChunk(r) /\ ~ReadFails(r)
          BY <4>1, RequestsAssumption DEF ReadChunk, ReadFails
        <4> QED
          BY <2>7, <4>2, <4>3, <4>4 DEF StepOf
      <3>3. r \notin Writing(p)
        BY <3>1, <3>2 DEF Writing, AfterWork
      <3>4. Writing(p)' = Writing(p)
        BY <2>4, <3>3
      <3>5. content'[p] = content[p]
        <4>1. CASE Opens(r)
          <5>1. p # PathOf[r] /\ content' = [content EXCEPT ![PathOf[r]] = <<>>]
            BY <1>3, <4>1, OpensEffect
          <5> QED
            BY <1>1, <5>1 DEF TypeOK
        <4>2. CASE WriteChunk(r)
          <5>1. PathOf[r] # p
            BY <3>3, <4>2 DEF WriteChunk, Writing
          <5> QED
            BY <1>1, <4>2, <5>1 DEF WriteChunk, TypeOK
        <4> QED
          BY <4>1, <4>2, OnlyWritesWrite
      <3> QED
        BY <2>1, <3>2, <3>4, <3>5, UntouchedFile
    <2> QED
      BY <2>5, <2>6, <2>7
  <1> QED
    BY <1>2, <1>3

-----------------------------------------------------------------------------
(* Reads                                                                   *)

LEMMA OpenedStep ==
  ASSUME TypeOK, StagesInv, QueueInv, OpenedInv, NEW x \in Requests, StepOf(x)
  PROVE  OpenedInv'
  <1> SUFFICES ASSUME NEW r \in Reads, stage'[r] \in {"copy", "info"} \/ ok'[r]
               PROVE  PathOf[r] \in files' \cup dirs'
    BY DEF OpenedInv
  <1>1. r \in Requests /\ r \notin Writes /\ r \notin Infos /\ r \notin Creates
    BY RequestsAssumption DEF Requests
  <1>2. dirs \subseteq dirs' /\ files \subseteq files'
    BY OnlyGrows
  <1>3. CASE stage[r] \in {"copy", "info"} \/ ok[r]
    BY <1>2, <1>3 DEF OpenedInv
  <1>4. CASE x = r /\ OpenRead(r)
    <2>1. stage'[r] = (IF PathOf[r] \in files \cup dirs THEN "copy" ELSE "worked") /\ ok' = ok
      BY <1>1, <1>4 DEF OpenRead, To, TypeOK, results
    <2>2. ~ok[r]
      BY <1>1, <1>4 DEF OpenRead, StagesInv, Finished
    <2> QED
      BY <1>2, <2>1, <2>2
  <1>5. stage[r] \in {"copy", "info"} \/ ok[r] \/ (x = r /\ OpenRead(r))
    <2>1. x # r => stage'[r] = stage[r] /\ ok'[r] = ok[r]
      BY <1>1, OthersKept
    <2>2. ASSUME x = r, ~OpenRead(r), stage[r] \notin {"copy", "info"}, ~ok[r] PROVE FALSE
      <3>1. ~(OpenWrite(r) \/ WriteChunk(r) \/ WriteFails(r) \/ ReadChunk(r)
               \/ ReadFails(r) \/ CreateInfo(r))
        BY <1>1, <2>2 DEF OpenWrite, WriteChunk, WriteFails, ReadChunk, ReadFails, CreateInfo
      <3>2. ok' = ok
        BY <2>2, <3>1 DEF StepOf, Submit, Begin, AfterWork, FindMissing, Mkdir, MkdirUnless, results
      <3>3. stage'[r] \notin {"copy", "info"}
        BY <1>1, <2>2, <3>1
        DEF StepOf, Submit, Begin, AfterWork, FindMissing, Mkdir, MkdirUnless, To, TypeOK
      <3> QED
        BY <2>2, <3>2, <3>3
    <2> QED
      BY <2>1, <2>2
  <1> QED
    BY <1>3, <1>4, <1>5

\* A file that no write is on and whose last write is clean stays so until the
\* next write truncates it.
LEMMA StableFile ==
  ASSUME TypeOK, StagesInv, QueueInv, LastInv, NEW x \in Requests, StepOf(x),
         NEW p \in Paths, Writing(p) = {}, last[p] \notin dirty, ~(Opens(x) /\ PathOf[x] = p)
  PROVE  /\ Writing(p)' = {} /\ last'[p] = last[p] /\ last'[p] \notin dirty'
         /\ content'[p] = content[p]
  <1>1. Writing(p)' = {}
    BY WritingNext
  <1>2. last[p] \in Writes => PathOf[last[p]] = p /\ stage[last[p]] # "copy" /\ stage[last[p]] # "open"
    BY DEF LastInv, Writing, Early
  <1>3. CASE Opens(x)
    <2>1. /\ x \in Writes /\ PathOf[x] # p /\ stage[x] = "open" /\ Truncating(x, PathOf[x])
          /\ content' = [content EXCEPT ![PathOf[x]] = <<>>]
      BY <1>3, OpensEffect
    <2>2. content'[p] = content[p] /\ last'[p] = last[p]
      BY <2>1 DEF Truncating, TypeOK
    <2>3. last[p] # x /\ last[p] \notin Writing(PathOf[x])
      BY <1>2, <2>1 DEF Writing
    <2>4. last[p] \notin dirty'
      BY <2>1, <2>3 DEF Truncating
    <2> QED
      BY <1>1, <2>2, <2>4
  <1>4. CASE ~Opens(x)
    <2>1. last' = last
      BY <1>4, OnlyWritesWrite
    <2>2. last[p] \notin dirty'
      BY <1>2, <1>4, OnlyWritesWrite DEF WriteFails
    <2>3. content'[p] = content[p]
      <3>1. CASE WriteChunk(x)
        <4>1. PathOf[x] # p
          BY <3>1 DEF WriteChunk, Writing
        <4> QED
          BY <3>1, <4>1 DEF WriteChunk, TypeOK
      <3> QED
        BY <1>4, <3>1, OnlyWritesWrite
    <2> QED
      BY <1>1, <2>1, <2>2, <2>3
  <1> QED
    BY <1>3, <1>4

\* What a step does to the history of a read: a write that truncates its path
\* while it is on is a rival, and the source is fixed when it opens.
LEMMA HistoryStep ==
  ASSUME TypeOK, NEW x \in Requests, StepOf(x), NEW r \in Reads
  PROVE  /\ rivals[r] \subseteq rivals'[r]
         /\ Opens(x) /\ PathOf[x] = PathOf[r] /\ stage[r] \in {"copy", "info"} => rivals'[r] # {}
         /\ x # r \/ ~OpenRead(x) => source'[r] = source[r]
         /\ x # r \/ ~ReadFails(x) => (r \in failed' <=> r \in failed)
  <1>1. CASE Opens(x)
    <2>1. Truncating(x, PathOf[x])
      BY <1>1, OpensEffect
    <2> QED
      BY <1>1, <2>1 DEF Truncating, Opens, OpenWrite, OpenRead, ReadFails
  <1>2. CASE ~Opens(x)
    <2>1. CASE OpenRead(x) \/ ReadFails(x)
      BY <1>2, <2>1, OnlyWritesWrite DEF OpenRead, ReadFails, TypeOK
    <2> QED
      BY <1>2, <2>1, OnlyWritesWrite
  <1> QED
    BY <1>1, <1>2

LEMMA ReadStep ==
  ASSUME TypeOK, StagesInv, QueueInv, DirsInv, LastInv, WriteInv, OpenedInv, ReadInv,
         NEW x \in Requests, StepOf(x)
  PROVE  ReadInv'
  <1> SUFFICES ASSUME NEW r \in Reads, rivals'[r] = {}, source'[r] # Hole, PathOf[r] \in files'
               PROVE  /\ stage'[r] \in {"copy", "info"} =>
                             /\ source'[r] = last'[PathOf[r]] /\ source'[r] \notin dirty'
                             /\ Writing(PathOf[r])' = {}
                      /\ stage'[r] \in {"copy", "info"} \/ ok'[r] =>
                             /\ at'[r] <= TextLen(source'[r])
                             /\ text'[r] = Prefix(source'[r], at'[r])
                      /\ (stage'[r] = "info" \/ ok'[r]) /\ r \notin failed' =>
                             at'[r] = TextLen(source'[r])
                      /\ ok'[r] => info'[r] = [kind |-> "file", size |-> TextLen(source'[r])]
    BY DEF ReadInv
  <1> DEFINE p == PathOf[r]
  <1>1. r \in Requests /\ r \notin Writes /\ r \notin Infos /\ r \notin Creates
    BY RequestsAssumption DEF Requests
  <1>2. p \in Paths
    BY <1>1, PathsAssumption
  <1>3. rivals[r] = {}
    BY HistoryStep
  \* A read that is on, or that has ended well, had found its file.
  <1>4. ASSUME stage[r] \in {"copy", "info"} \/ ok[r] PROVE p \in files
    <2>1. CASE Opens(x) /\ PathOf[x] = p
      BY <1>4, <2>1, OpensEffect DEF OpenedInv
    <2>2. CASE Opens(x) /\ PathOf[x] # p
      BY <2>2, OpensEffect
    <2>3. CASE ~Opens(x)
      BY <2>3, OnlyWritesWrite
    <2> QED
      BY <2>1, <2>2, <2>3
  \* While it is on, its file does not change under it.
  <1>5. ASSUME stage[r] \in {"copy", "info"}, source[r] # Hole
        PROVE  /\ source[r] = last[p] /\ source[r] \notin dirty /\ Writing(p) = {}
               /\ source[r] = last'[p] /\ source[r] \notin dirty' /\ Writing(p)' = {}
               /\ p \in files /\ p \notin dirs /\ content[p] = TextOf(source[r])
    <2>1. p \in files /\ p \notin dirs
      BY <1>4, <1>5 DEF DirsInv
    <2>2. source[r] = last[p] /\ source[r] \notin dirty /\ Writing(p) = {}
      BY <1>3, <1>5, <2>1 DEF ReadInv
    <2>3. ~(Opens(x) /\ PathOf[x] = p)
      BY <1>5, HistoryStep
    <2>4. Writing(p)' = {} /\ last'[p] = last[p] /\ last'[p] \notin dirty'
      BY <1>2, <2>2, <2>3, StableFile
    <2>5. content[p] = TextOf(last[p])
      BY <2>1, <2>2 DEF WriteInv
    <2> QED
      BY <2>1, <2>2, <2>4, <2>5
  <1>6. CASE x = r
    <2> USE <1>6
    <2>1. ~(FindMissing(r) \/ Mkdir(r) \/ OpenWrite(r) \/ WriteChunk(r) \/ WriteFails(r))
      BY <1>1 DEF FindMissing, Mkdir, MkdirUnless, OpenWrite, WriteChunk, WriteFails, StagesInv
    <2>2. CASE Submit(r) \/ Begin(r)
      <3>1. ~ok[r] /\ ok' = ok
        BY <1>1, <2>2, BeginQueued DEF Submit, Begin, StagesInv, Finished, results
      <3>2. stage'[r] \in {"queued", "open"}
        BY <1>1, <2>2 DEF Submit, Begin, To, TypeOK
      <3> QED
        BY <3>1, <3>2
    <2>3. CASE AfterWork(r)
      <3>1. /\ stage[r] = "worked" /\ stage'[r] = "delivered" /\ source' = source
            /\ UNCHANGED <<at, text, info, ok, failed>>
        BY <1>1, <2>3 DEF AfterWork, To, TypeOK, results, history
      <3> QED
        BY <1>3, <1>4, <3>1 DEF ReadInv
    <2>4. CASE OpenRead(r)
      <3>1. /\ stage[r] = "open" /\ stage'[r] \in {"copy", "worked"}
            /\ source'[r] = (IF Writing(p) = {} /\ last[p] \notin dirty THEN last[p] ELSE Hole)
            /\ UNCHANGED <<at, text, info, ok, last, dirty>>
        BY <1>1, <2>4 DEF OpenRead, To, TypeOK, results
      <3>2. Writing(p) = {} /\ last[p] \notin dirty /\ source'[r] = last[p]
        BY <3>1
      <3>3. ~Opens(r)
        BY <1>1 DEF Opens, OpenWrite
      <3>4. Writing(p)' = {} /\ last'[p] = last[p] /\ last'[p] \notin dirty'
        BY <1>1, <1>2, <3>2, <3>3, StableFile
      <3>5. at'[r] = 0 /\ text'[r] = <<>> /\ ~ok'[r]
        BY <1>1, <3>1 DEF StagesInv, Early, Finished
      <3>6. TextLen(last[p]) \in Nat
        BY <1>2, PathsAssumption DEF TextLen, TypeOK
      <3>7. Prefix(last[p], 0) = <<>>
        BY TextFacts
      <3> QED
        BY <3>1, <3>2, <3>4, <3>5, <3>6, <3>7
    <2>5. CASE ReadChunk(r)
      <3>1. /\ stage[r] = "copy" /\ source'[r] = source[r] /\ source[r] # Hole /\ ~ok[r] /\ ok' = ok
            /\ at[r] \in Nat /\ source[r] \in Writes \cup {Old}
        <4>1. stage[r] = "copy" /\ ok' = ok /\ source' = source
          BY <2>5 DEF ReadChunk, history
        <4>2. ~ok[r] /\ at[r] \in Nat
          BY <1>1, <4>1 DEF StagesInv, Finished, TypeOK
        <4>3. source[r] = last[p]
          BY <1>5, <4>1
        <4> QED
          BY <1>2, <4>1, <4>2, <4>3 DEF TypeOK
      <3> DEFINE n == TextLen(source[r])
      <3>2. n \in Nat
        BY <3>1, PathsAssumption DEF TextLen
      <3>3. content[p] = Prefix(source[r], n)
        BY <1>5, <3>1, TextIsPrefix
      <3>4. Len(content[p]) = n /\ \A i \in 1 .. n : content[p][i] = source[r]
        <4> HIDE DEF n
        <4>1. ASSUME NEW v, NEW k \in Nat
              PROVE  Len(Prefix(v, k)) = k /\ \A i \in 1 .. k : Prefix(v, k)[i] = v
          BY TextFacts
        <4>2. /\ Len(Prefix(source[r], n)) = n
              /\ \A i \in 1 .. n : Prefix(source[r], n)[i] = source[r]
          BY <3>2, <4>1
        <4> QED
          BY <3>3, <4>2
      <3>5. at[r] <= n /\ text[r] = Prefix(source[r], at[r])
        BY <1>3, <1>5, <3>1 DEF ReadInv
      <3> HIDE DEF n
      <3>6. CASE at[r] < n
        <4>1. /\ text' = [text EXCEPT ![r] = Append(text[r], content[p][at[r] + 1])]
              /\ at' = [at EXCEPT ![r] = at[r] + 1] /\ stage' = stage
          BY <2>5, <3>4, <3>6 DEF ReadChunk
        <4>2. at[r] + 1 \in 1 .. n
          BY <3>1, <3>2, <3>6
        <4>3. Append(text[r], content[p][at[r] + 1]) = Prefix(source[r], at[r] + 1)
          BY <3>1, <3>4, <3>5, <4>2, AppendNext
        <4>4. text'[r] = Prefix(source[r], at[r] + 1) /\ at'[r] = at[r] + 1
          BY <1>1, <4>1, <4>3 DEF TypeOK
        <4> QED
          BY <1>5, <3>1, <3>2, <4>1, <4>2, <4>4 DEF n
      <3>7. CASE ~(at[r] < n)
        <4>1. stage'[r] = "info" /\ text' = text /\ at' = at
          BY <1>1, <2>5, <3>4, <3>7 DEF ReadChunk, To, TypeOK
        <4>2. at[r] = n
          BY <3>1, <3>2, <3>5, <3>7
        <4> QED
          BY <1>5, <3>1, <3>2, <3>5, <4>1, <4>2 DEF n
      <3> QED
        BY <3>6, <3>7
    <2>6. CASE CreateInfo(r)
      <3>1. /\ stage[r] = "info" /\ stage'[r] = "worked" /\ UNCHANGED <<at, text, source, failed>>
            /\ info'[r] = FileInfo(p)
        BY <1>1, <2>6 DEF CreateInfo, To, TypeOK, history
      <3>2. content[p] = TextOf(source[r]) /\ p \in files /\ p \notin dirs
        BY <1>5, <3>1
      <3>3. /\ at[r] <= TextLen(source[r]) /\ text[r] = Prefix(source[r], at[r])
            /\ r \notin failed => at[r] = TextLen(source[r])
        BY <1>3, <3>1, <3>2 DEF ReadInv
      <3>4. source[r] \in Writes \cup {Old}
        BY <1>2, <1>5, <3>1 DEF TypeOK
      <3>5. TextLen(source[r]) \in Nat
        BY <3>4, PathsAssumption DEF TextLen
      <3>6. Len(content[p]) = TextLen(source[r])
        BY <3>2, <3>5, TextFacts, TextIsPrefix
      <3>7. info'[r] = [kind |-> "file", size |-> TextLen(source[r])]
        BY <3>1, <3>2, <3>6 DEF FileInfo
      <3> QED
        BY <3>1, <3>3, <3>7
    <2>7. CASE ReadFails(r)
      <3>1. /\ stage[r] = "copy" /\ stage'[r] = "info" /\ r \in failed'
            /\ UNCHANGED <<at, text, source, info, ok>>
        BY <1>1, <2>7 DEF ReadFails, To, TypeOK, results
      <3>2. ~ok[r]
        BY <1>1, <3>1 DEF StagesInv, Finished
      <3>3. at[r] <= TextLen(source[r]) /\ text[r] = Prefix(source[r], at[r])
        BY <1>3, <1>5, <3>1 DEF ReadInv
      <3> QED
        BY <1>5, <3>1, <3>2, <3>3
    <2> QED
      BY <2>1, <2>2, <2>3, <2>4, <2>5, <2>6, <2>7 DEF StepOf
  <1>7. CASE x # r
    <2>1. /\ stage'[r] = stage[r] /\ at'[r] = at[r] /\ text'[r] = text[r]
          /\ info'[r] = info[r] /\ ok'[r] = ok[r]
      BY <1>1, <1>7, OthersKept
    <2>2. source'[r] = source[r] /\ (r \in failed' <=> r \in failed)
      BY <1>7, HistoryStep
    <2> QED
      BY <1>3, <1>4, <1>5, <2>1, <2>2 DEF ReadInv
  <1> QED
    BY <1>6, <1>7

-----------------------------------------------------------------------------
(* The inductive invariant holds                                           *)

LEMMA InitIInv == Init => IInv
  <1> SUFFICES ASSUME Init PROVE IInv
    OBVIOUS
  <1>1. TypeOK
    BY TypeInit
  <1>2. StagesInv /\ QueueInv /\ LevelInv /\ ParentsCreated /\ OpenedInv
    BY RequestsAssumption
    DEF Init, StagesInv, QueueInv, LevelInv, ParentsCreated, OpenedInv, Finished, Requests
  <1>3. DirsInv
    <2>1. \A q \in Paths : DOMAIN Chain[q] = 1 .. Len(Chain[q])
      BY PathsAssumption
    <2> QED
      BY <2>1, PathsAssumption, TreeAssumption DEF Init, DirsInv
  <1>4. LastInv
    BY RequestsAssumption DEF Init, LastInv, Requests
  <1>5. WriteInv
    <2>1. \A q \in files : last[q] = Old /\ content[q] = <<Old, Old>>
      BY PathsAssumption DEF Init
    <2>2. \A q \in files : Writing(q) = {}
      BY DEF Init, Writing, Requests
    <2>3. <<Old, Old>> = TextOf(Old)
      BY DEF TextOf
    <2>4. Old \notin Writes
      BY RequestsAssumption DEF Requests
    <2> QED
      BY <2>1, <2>2, <2>3, <2>4 DEF WriteInv
  <1>6. ReadInv
    BY DEF Init, ReadInv, Requests
  <1> QED
    BY <1>1, <1>2, <1>3, <1>4, <1>5, <1>6 DEF IInv

LEMMA StepIInv == IInv /\ [Next]_vars => IInv'
  <1> SUFFICES ASSUME IInv, [Next]_vars PROVE IInv'
    OBVIOUS
  <1> USE DEF IInv
  <1>1. CASE UNCHANGED vars
    <2> USE <1>1 DEF vars
    <2>1. TypeOK'
      BY DEF TypeOK
    <2>2. StagesInv' /\ QueueInv'
      BY DEF StagesInv, QueueInv, Finished
    <2>3. DirsInv' /\ LevelInv' /\ ParentsCreated'
      BY DEF DirsInv, LevelInv, ParentsCreated
    <2>4. \A p : Writing(p)' = Writing(p)
      BY DEF Writing
    <2>5. LastInv' /\ WriteInv'
      BY <2>4 DEF LastInv, WriteInv, Finished
    <2>6. OpenedInv' /\ ReadInv'
      BY <2>4 DEF OpenedInv, ReadInv
    <2> QED
      BY <2>1, <2>2, <2>3, <2>5, <2>6
  <1>2. ASSUME NEW r \in Requests, StepOf(r) PROVE IInv'
    <2>1. TypeOK'
      BY <1>2, TypeStep, NextIsStep
    <2>2. StagesInv' /\ QueueInv'
      BY <1>2, StagesStep, QueueStep
    <2>3. DirsInv' /\ LevelInv' /\ ParentsCreated'
      BY <1>2, DirsStep, LevelStep, ParentsStep
    <2>4. LastInv' /\ WriteInv'
      BY <1>2, LastStep, WriteStep
    <2>5. OpenedInv' /\ ReadInv'
      BY <1>2, OpenedStep, ReadStep
    <2> QED
      BY <2>1, <2>2, <2>3, <2>4, <2>5
  <1> QED
    BY <1>1, <1>2, NextIsStep

-----------------------------------------------------------------------------
(* Theorems                                                                *)

LEMMA Inductive == Spec => []IInv
  BY InitIInv, StepIInv, PTL DEF Spec

\* Types, in particular: mkdir is only ever called for a level of the request's
\* own chain (ensureDirectoryExists(), modern_fs.cc:267).
THEOREM FsTypeCorrect == Spec => []TypeOK
  <1>1. IInv => TypeOK
    BY DEF IInv
  <1> QED
    BY <1>1, Inductive, PTL

\* A write with createParents finds its parents when it opens the file, whatever
\* other writes do to the same levels meanwhile (modern_fs.cc:129-134).
THEOREM FsParentsCreated == Spec => []ParentsCreated
  <1>1. IInv => ParentsCreated
    BY DEF IInv
  <1> QED
    BY <1>1, Inductive, PTL

\* The last of the writes that do not overlap leaves exactly its text, and has
\* reported it (Operation::Write of workCallback(), modern_fs.cc:128-153).
THEOREM FsLastWriteWins == Spec => []LastWriteWins
  <1>1. IInv => LastWriteWins
    BY DEF IInv, WriteInv, LastWriteWins
  <1> QED
    BY <1>1, Inductive, PTL

\* A read that no truncation overlaps returns the text it found, or the part of
\* it before the stream failed, and the info of the whole (Operation::Read of
\* workCallback(), modern_fs.cc:110-128).
THEOREM FsReadIsConsistent == Spec => []ReadIsConsistent
  <1>1. IInv => ReadIsConsistent
    <2> SUFFICES ASSUME IInv, NEW r \in Reads, ok[r], rivals[r] = {}, source[r] # Hole,
                        PathOf[r] \in files
                 PROVE  /\ IsPrefix(text[r], TextOf(source[r]))
                        /\ r \notin failed => text[r] = TextOf(source[r])
                        /\ info[r] = [kind |-> "file", size |-> Len(TextOf(source[r]))]
      BY DEF ReadIsConsistent
    <2> DEFINE n == TextLen(source[r])
    <2>1. /\ at[r] <= n /\ text[r] = Prefix(source[r], at[r])
          /\ r \notin failed => at[r] = n
          /\ info[r] = [kind |-> "file", size |-> n]
      BY DEF IInv, ReadInv
    <2>2. at[r] \in Nat /\ n \in Nat
      <3>1. r \in Requests /\ source[r] \in Writes \cup {Old}
        BY DEF IInv, TypeOK, Chunks, Requests
      <3> QED
        BY <3>1, PathsAssumption DEF IInv, TypeOK, TextLen
    <2>3. TextOf(source[r]) = Prefix(source[r], n)
      BY TextIsPrefix
    <2> HIDE DEF n
    <2>4. Len(Prefix(source[r], n)) = n
      BY <2>2, TextFacts
    <2>5. IsPrefix(Prefix(source[r], at[r]), Prefix(source[r], n))
      BY <2>1, <2>2, PrefixOfPrefix
    <2> QED
      BY <2>1, <2>3, <2>4, <2>5
  <1> QED
    BY <1>1, Inductive, PTL

=============================================================================
