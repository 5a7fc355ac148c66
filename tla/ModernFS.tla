------------------------------- MODULE ModernFS -------------------------------
(***************************************************************************)
(* The work of ModernFS (src/src/filesystem/modern_fs.cc): readFile,       *)
(* writeFile and getFileInfo queue a request, a thread of libuv's pool     *)
(* carries it out in workCallback(), and afterWorkCallback() hands the     *)
(* result to the callback on the main thread.                              *)
(*                                                                         *)
(* The threads share the file system and no lock: an action is one call of *)
(* the operating system, and the calls of different requests interleave.   *)
(* A text is a sequence of chunks (what one call reads or writes), and a   *)
(* chunk is the request that wrote it.  The loop turns in HostLoop.        *)
(***************************************************************************)
EXTENDS Naturals, Sequences, FiniteSets, SequencesExt

CONSTANTS Reads, Writes, Infos,   \* the requests
          Creates,                \* writes with createParents
          Paths,                  \* what requests name
          PathOf,                 \* request -> path
          Length,                 \* write -> number of chunks of its content
          Chain,                  \* path -> its parent directories, outermost first
          Denied,                 \* directories that cannot be created
          InitialDirs, InitialFiles,
          PoolSize,               \* threads of the pool
          Old, Hole               \* chunk of an initial file, chunk nobody wrote

Requests == Reads \cup Writes \cup Infos
Dirs == UNION {Range(Chain[p]) : p \in Paths}
Chunks == Writes \cup {Old, Hole}

ASSUME RequestsAssumption ==
    /\ IsFiniteSet(Requests) /\ Creates \subseteq Writes
    /\ Reads \cap Writes = {} /\ Infos \cap (Reads \cup Writes) = {}
    /\ Old \notin Requests /\ Hole \notin Requests /\ Old # Hole
ASSUME PathsAssumption ==
    /\ PathOf \in [Requests -> Paths]
    /\ Length \in [Writes -> Nat]
    /\ \A p \in Paths : Chain[p] \in Seq(Dirs)
    /\ Denied \subseteq Dirs \ InitialDirs
    /\ InitialDirs \subseteq Dirs /\ InitialFiles \subseteq Paths \ InitialDirs
\* Directories form a tree: those above a directory are the same for all paths
\* below it, and exist where it exists.
ASSUME TreeAssumption ==
    \A p \in Paths : \A i \in DOMAIN Chain[p] :
        /\ \A q \in Paths : \A j \in DOMAIN Chain[q] :
               Chain[p][i] = Chain[q][j] => i = j /\ \A k \in 1 .. i : Chain[p][k] = Chain[q][k]
        /\ Chain[p][i] \in InitialDirs => \A k \in 1 .. i : Chain[p][k] \in InitialDirs
ASSUME PoolAssumption == PoolSize \in Nat \ {0}

VARIABLES
    dirs,      \* the directories that exist
    files,     \* the regular files that exist
    content,   \* path -> the chunks of the file
    queue,     \* requests that wait for a thread, in order
    stage,     \* request -> how far workCallback() is
    level,     \* request -> levels of its chain create_directories() has got to
    at,        \* request -> position in the file
    text,      \* request -> readResult.content
    info,      \* request -> the FileInfo of the result
    ok,        \* request -> success, or no error for an info
    last,      \* path -> the write that truncated it last, or Old (history)
    dirty,     \* writes that met another write of their path, or failed (history)
    source,    \* read -> the write whose text it found, if no write was on (history)
    rivals,    \* read -> writes that truncated its path meanwhile (history)
    failed     \* reads whose stream failed (history)

vars == <<dirs, files, content, queue, stage, level, at, text, info, ok,
          last, dirty, source, rivals, failed>>

results == <<text, info, ok>>
history == <<last, dirty, source, rivals, failed>>

Running == {"ensure", "mkdir", "open", "copy", "info"}
Stage == {"none", "queued", "worked", "delivered"} \cup Running
NoInfo == [kind |-> "none", size |-> 0]

TypeOK ==
    /\ dirs \subseteq Dirs /\ files \subseteq Paths
    /\ content \in [Paths -> Seq(Chunks)]
    /\ queue \in Seq(Requests)
    /\ stage \in [Requests -> Stage]
    /\ level \in [Requests -> Nat]
    /\ at \in [Requests -> Nat]
    /\ text \in [Requests -> Seq(Chunks)]
    /\ info \in [Requests -> [kind : {"none", "file", "directory"}, size : Nat]]
    /\ ok \in [Requests -> BOOLEAN]
    /\ last \in [Paths -> Writes \cup {Old}]
    /\ dirty \subseteq Writes
    /\ source \in [Reads -> Chunks]
    /\ rivals \in [Reads -> SUBSET Writes]
    /\ failed \subseteq Reads

\* An initial file has two chunks.
Init ==
    /\ dirs = InitialDirs /\ files = InitialFiles
    /\ content = [p \in Paths |-> IF p \in InitialFiles THEN <<Old, Old>> ELSE <<>>]
    /\ queue = <<>>
    /\ stage = [r \in Requests |-> "none"]
    /\ level = [r \in Requests |-> 0]
    /\ at = [r \in Requests |-> 0]
    /\ text = [r \in Requests |-> <<>>]
    /\ info = [r \in Requests |-> NoInfo]
    /\ ok = [r \in Requests |-> FALSE]
    /\ last = [p \in Paths |-> Old]
    /\ dirty = {}
    /\ source = [r \in Reads |-> Hole]
    /\ rivals = [r \in Reads |-> {}]
    /\ failed = {}

\* The text a write is given; an initial file counts as written before.
TextOf(w) == [i \in 1 .. (IF w = Old THEN 2 ELSE Length[w]) |-> w]

To(r, s) == stage' = [stage EXCEPT ![r] = s]

\* Writes of p that have truncated it and have not closed it.
Writing(p) == {w \in Writes : PathOf[w] = p /\ stage[w] = "copy"}

-----------------------------------------------------------------------------
(* The main thread and the pool                                            *)

\* readFile(), writeFile(), getFileInfo(), exists(): uv_queue_work()
Submit(r) ==
    /\ stage[r] = "none"
    /\ To(r, "queued")
    /\ queue' = Append(queue, r)
    /\ UNCHANGED <<dirs, files, content, level, at, results, history>>

\* A thread takes the first request and calls workCallback().
Begin(r) ==
    /\ queue # <<>> /\ r = Head(queue)
    /\ Cardinality({x \in Requests : stage[x] \in Running}) < PoolSize
    /\ queue' = Tail(queue)
    /\ To(r, IF r \in Infos THEN "info" ELSE IF r \in Creates THEN "ensure" ELSE "open")
    /\ UNCHANGED <<dirs, files, content, level, at, results, history>>

\* afterWorkCallback(): the callback gets the result, the request is deleted.
AfterWork(r) ==
    /\ stage[r] = "worked"
    /\ To(r, "delivered")
    /\ UNCHANGED <<dirs, files, content, queue, level, at, results, history>>

-----------------------------------------------------------------------------
(* ensureDirectoryExists()                                                 *)

\* exists(dirPath) tells that there is nothing to do.  Otherwise
\* create_directories() walks up to the innermost level that exists, k, and
\* gives up if that is a file.
FindMissing(w) ==
    LET c == Chain[PathOf[w]] IN
    /\ stage[w] = "ensure"
    /\ \E k \in 0 .. Len(c) :
        /\ k > 0 => c[k] \in dirs \cup files
        /\ \A i \in k + 1 .. Len(c) : c[i] \notin dirs \cup files
        /\ level' = [level EXCEPT ![w] = k]
        /\ To(w, IF k < Len(c) /\ (k > 0 => c[k] \in dirs) THEN "mkdir" ELSE "open")
    /\ UNCHANGED <<dirs, files, content, queue, at, results, history>>

\* mkdir of the level after the k-th fails if it is one of Refused; errors are
\* ignored, and the levels below are not tried.
MkdirUnless(w, Refused) ==
    LET c == Chain[PathOf[w]]
        k == level[w] + 1
    IN
    /\ stage[w] = "mkdir"
    /\ IF c[k] \in Refused
         THEN To(w, "open") /\ UNCHANGED <<dirs, level>>
         ELSE /\ dirs' = dirs \cup {c[k]}
              /\ level' = [level EXCEPT ![w] = k]
              /\ To(w, IF k < Len(c) THEN "mkdir" ELSE "open")
    /\ UNCHANGED <<files, content, queue, at, results, history>>

\* Mutant: a level that another thread has made meanwhile is an error.
MutantMkdirExclusive(w) == MkdirUnless(w, Denied \cup files \cup dirs)

\* That another thread has made the directory meanwhile is no error.
Mkdir(w) == MkdirUnless(w, Denied \cup files)

-----------------------------------------------------------------------------
(* Operation::Read                                                         *)

\* std::ifstream file(path); a directory can be opened, and reads as empty.
OpenRead(r) ==
    LET p == PathOf[r] IN
    /\ r \in Reads /\ stage[r] = "open"
    /\ To(r, IF p \in files \cup dirs THEN "copy" ELSE "worked")
    /\ source' = [source EXCEPT ![r] =
                    IF Writing(p) = {} /\ last[p] \notin dirty THEN last[p] ELSE Hole]
    /\ UNCHANGED <<dirs, files, content, queue, level, at, results, last, dirty, rivals, failed>>

\* Mutant: one buffer is read, and not the whole file.
MutantReadOneBuffer(r) ==
    LET c == content[PathOf[r]] IN
    /\ r \in Reads /\ stage[r] = "copy"
    /\ text' = [text EXCEPT ![r] = IF c = <<>> THEN <<>> ELSE <<c[1]>>]
    /\ To(r, "info")
    /\ UNCHANGED <<dirs, files, content, queue, level, at, info, ok, history>>

\* buffer << file.rdbuf(): chunk after chunk, up to where the file ends now
ReadChunk(r) ==
    LET c == content[PathOf[r]] IN
    /\ r \in Reads /\ stage[r] = "copy"
    /\ IF at[r] < Len(c)
         THEN /\ text' = [text EXCEPT ![r] = Append(@, c[at[r] + 1])]
              /\ at' = [at EXCEPT ![r] = @ + 1]
              /\ UNCHANGED stage
         ELSE To(r, "info") /\ UNCHANGED <<text, at>>
    /\ UNCHANGED <<dirs, files, content, queue, level, info, ok, history>>

\* The stream fails: its state is not looked at, and what has been read so far
\* is the content of a result that reports success.
ReadFails(r) ==
    /\ r \in Reads /\ stage[r] = "copy"
    /\ To(r, "info")
    /\ failed' = failed \cup {r}
    /\ UNCHANGED <<dirs, files, content, queue, level, at, results, last, dirty, source, rivals>>

-----------------------------------------------------------------------------
(* Operation::Write                                                        *)

\* std::ofstream file(path) can be opened: its directory exists, it is none.
CanCreate(p) == Range(Chain[p]) \subseteq dirs /\ p \notin dirs

\* A write truncates p: it and the writes it meets are dirty, reads of p that
\* are on have a rival.
Truncating(w, p) ==
    /\ last' = [last EXCEPT ![p] = w]
    /\ dirty' = IF Writing(p) = {} THEN dirty ELSE dirty \cup Writing(p) \cup {w}
    /\ rivals' = [r \in Reads |-> IF PathOf[r] = p /\ stage[r] \in {"copy", "info"}
                                    THEN rivals[r] \cup {w} ELSE rivals[r]]
    /\ UNCHANGED <<source, failed>>

\* Mutant: the file is opened without being truncated.
MutantNoTruncate(w) ==
    LET p == PathOf[w] IN
    /\ w \in Writes /\ stage[w] = "open"
    /\ IF CanCreate(p)
         THEN To(w, "copy") /\ files' = files \cup {p} /\ Truncating(w, p) /\ UNCHANGED content
         ELSE To(w, "worked") /\ UNCHANGED <<files, content, history>>
    /\ UNCHANGED <<dirs, queue, level, at, results>>

\* std::ofstream file(path): the file is created or truncated, or an error
OpenWrite(w) ==
    LET p == PathOf[w] IN
    /\ w \in Writes /\ stage[w] = "open"
    /\ IF CanCreate(p)
         THEN /\ To(w, "copy")
              /\ files' = files \cup {p}
              /\ content' = [content EXCEPT ![p] = <<>>]
              /\ Truncating(w, p)
         ELSE To(w, "worked") /\ UNCHANGED <<files, content, history>>
    /\ UNCHANGED <<dirs, queue, level, at, results>>

\* Writing at a position: a file that was truncated meanwhile gets a hole.
Put(c, i, w) ==
    [j \in 1 .. (IF Len(c) < i THEN i ELSE Len(c)) |->
        IF j = i THEN w ELSE IF j <= Len(c) THEN c[j] ELSE Hole]

\* file << content and close(), each chunk at the position of this stream
WriteChunk(w) ==
    /\ w \in Writes /\ stage[w] = "copy"
    /\ IF at[w] < Length[w]
         THEN /\ content' = [content EXCEPT ![PathOf[w]] = Put(@, at[w] + 1, w)]
              /\ at' = [at EXCEPT ![w] = @ + 1]
              /\ UNCHANGED stage
         ELSE To(w, "info") /\ UNCHANGED <<content, at>>
    /\ UNCHANGED <<dirs, files, queue, level, results, history>>

\* The stream is not good() after close(): what was written stays.
WriteFails(w) ==
    /\ w \in Writes /\ stage[w] = "copy"
    /\ To(w, "worked")
    /\ dirty' = dirty \cup {w}
    /\ UNCHANGED <<dirs, files, content, queue, level, at, results, last, source, rivals, failed>>

-----------------------------------------------------------------------------

\* createFileInfo(): nothing is ever removed, so that exists() and file_size()
\* are as good as one call.
FileInfo(p) ==
    IF p \in dirs THEN [kind |-> "directory", size |-> 0]
    ELSE IF p \in files THEN [kind |-> "file", size |-> Len(content[p])]
    ELSE NoInfo

\* The result is complete; an info of nothing is "File not found".
CreateInfo(r) ==
    /\ stage[r] = "info"
    /\ info' = [info EXCEPT ![r] = FileInfo(PathOf[r])]
    /\ ok' = [ok EXCEPT ![r] = r \in Infos => FileInfo(PathOf[r]) # NoInfo]
    /\ To(r, "worked")
    /\ UNCHANGED <<dirs, files, content, queue, level, at, text, history>>

WorkCallback(r) ==
    \/ FindMissing(r) \/ Mkdir(r)
    \/ OpenRead(r) \/ ReadChunk(r) \/ ReadFails(r)
    \/ OpenWrite(r) \/ WriteChunk(r) \/ WriteFails(r)
    \/ CreateInfo(r)

Next == \E r \in Requests : Submit(r) \/ Begin(r) \/ WorkCallback(r) \/ AfterWork(r)

Spec == Init /\ [][Next]_vars

-----------------------------------------------------------------------------
(* Correctness                                                             *)

Finished(r) == stage[r] \in {"worked", "delivered"}

\* Later writes replace earlier ones as a whole: where no write is on and the
\* last one met no other, the file is exactly its text, whatever was there
\* before, and a success was reported with the size of that text unless a later
\* write truncated the file again.
LastWriteWins ==
    \A p \in files :
        Writing(p) = {} /\ last[p] \notin dirty =>
            /\ content[p] = TextOf(last[p])
            /\ last[p] \in Writes /\ Finished(last[p]) =>
                   ok[last[p]] /\ info[last[p]] = [kind |-> "file", size |-> Length[last[p]]]

\* A read during which nobody truncated its file returns the text of the last
\* write before it, together with the info of that very text; content and info
\* are taken by separate calls, without a lock against the writers.  A stream
\* that failed is reported as a success (modern_fs.cc:120-126): the content is
\* then cut short but is still of that one text, and the size is that of all of
\* it, so that a short read is one whose content is shorter than its size.
ReadIsConsistent ==
    \A r \in Reads :
        Finished(r) /\ ok[r] /\ rivals[r] = {} /\ source[r] # Hole /\ PathOf[r] \in files =>
            /\ IsPrefix(text[r], TextOf(source[r]))
            /\ r \notin failed => text[r] = TextOf(source[r])
            /\ info[r] = [kind |-> "file", size |-> Len(TextOf(source[r]))]

\* "Write file with automatic directory creation" (modern_fs.h:71): a write that
\* is to create its parents finds them when it opens the file, also if other
\* writes create the same levels at the same time.
ParentsCreated ==
    \A w \in Creates :
        LET levels == Range(Chain[PathOf[w]]) IN
        stage[w] \in {"open", "copy", "info"} /\ levels \cap (Denied \cup files) = {} =>
            levels \subseteq dirs
=============================================================================
