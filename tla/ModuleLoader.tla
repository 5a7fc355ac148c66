----------------------------- MODULE ModuleLoader -----------------------------
(***************************************************************************)
(* The CommonJS loader of src/src/v8/module_loader.cc: require(), the      *)
(* module cache, and the stack of directories that relative specifiers     *)
(* are resolved against.                                                   *)
(*                                                                         *)
(* JavaScript runs on one thread.  What makes the order hard is the stack: *)
(* a module body requires others before it has finished, they require it   *)
(* back, bodies throw and callers catch, and a function of a module runs   *)
(* again later, called from another module or from the event loop.         *)
(*                                                                         *)
(* The program is arbitrary: any frame may require, call, throw, catch or  *)
(* return at any time.  `frames` is V8's call stack, as far as its code    *)
(* belongs to modules; a frame of kind "load" is a call of a module's      *)
(* wrapper by LoadLocalModule, one of kind "call" any other function.      *)
(***************************************************************************)
EXTENDS Paths

CONSTANTS
    Dirs,          \* directories of entry scripts: sequences of names
    Disk,          \* the files: triples <<directory, stem, extension>>
    Specs,         \* local specifiers: [to, stem, ext], where `to` leads to a directory
    Broken,        \* the files that do not compile
    Entry,         \* stands for the script of runScript(), which is no module
    None,          \* no directory
    MaxRequires,   \* bound: calls of require()
    MaxDepth       \* bound: depth of the call stack

Normal(names) == LexicalPath([abs |-> TRUE, names |-> names]).names

\* The directories a specifier may be resolved against: those of entry scripts
\* and of files.
Bases == Dirs \cup {f[1] : f \in Disk}

\* Disk is named by normal paths, and a local specifier starts with "." or "..".
ASSUME DiskAssumption ==
    /\ Dirs \subseteq Seq(STRING)
    /\ Disk \subseteq Seq(STRING) \X STRING \X STRING
    /\ \A f \in Disk : Normal(f[1]) = f[1]
    /\ Entry \notin Disk
ASSUME SpecsAssumption ==
    \A s \in Specs : s.to \in Seq(STRING) /\ s.to # <<>> /\ s.to[1] \in {".", ".."}
ASSUME BoundsAssumption == MaxRequires \in Nat /\ MaxDepth \in Nat \ {0}

VARIABLES
    g_module_cache,      \* path -> number of its module object
    g_module_dir_stack,
    g_entry_dir,
    frames,              \* call stack: [code, kind, module]
    throwing,            \* an exception is on its way up
    made,                \* module objects made so far
    requires,            \* calls of require() so far
    loaded,              \* module objects whose body has run to its end
    returned,            \* history: <<file, module object>> that require() returned
    resolution           \* history: <<frame, own dir, base_dir>> of the last resolution

vars == <<g_module_cache, g_module_dir_stack, g_entry_dir, frames, throwing,
          made, requires, loaded, returned, resolution>>

\* A path: the names of its directory, the stem and the extension of its file.
IsPath(f) == f[1] \in Seq(STRING) /\ f[2] \in STRING /\ f[3] \in STRING

TypeOK ==
    /\ \A f \in DOMAIN g_module_cache : IsPath(f) /\ g_module_cache[f] \in 1..MaxRequires
    /\ g_module_dir_stack \in Seq(Seq(STRING))
    /\ g_entry_dir \in Dirs \cup {None}
    /\ \A i \in DOMAIN frames :
           /\ frames[i].code = Entry \/ IsPath(frames[i].code)
           /\ frames[i].kind \in {"load", "call"} /\ frames[i].module \in 0..MaxRequires
    /\ Len(frames) <= MaxDepth
    /\ throwing \in BOOLEAN
    /\ made \in 0..MaxRequires /\ requires \in 0..MaxRequires
    /\ loaded \subseteq 1..MaxRequires
    /\ \A r \in returned : IsPath(r[1]) /\ r[2] \in 1..MaxRequires

Init ==
    /\ g_module_cache = <<>>
    /\ g_module_dir_stack = <<>>
    /\ g_entry_dir = None
    /\ frames = <<>>
    /\ throwing = FALSE
    /\ made = 0 /\ requires = 0
    /\ loaded = {}
    /\ returned = {}
    /\ resolution = <<>>

-----------------------------------------------------------------------------

Top == Last(frames)

\* The directory of a frame's own file; the entry script's is the entry
\* directory.
OwnDir(fr) == IF fr.code = Entry THEN g_entry_dir ELSE fr.code[1]

\* Mutant: the outermost module being loaded.
MutantBaseDirFirst ==
    IF g_module_dir_stack # <<>> THEN g_module_dir_stack[1] ELSE g_entry_dir

\* The innermost module being loaded, else the entry script's directory.
BaseDir ==
    IF g_module_dir_stack # <<>> THEN Last(g_module_dir_stack) ELSE g_entry_dir

\* FileExists(): is_regular_file(), which follows "." and ".." itself
FileExists(f) == <<Normal(f[1]), f[2], f[3]>> \in Disk

\* Mutant: the path is used as it was put together.
MutantNotNormal(f) == f

\* NormalizePath()
NormalizePath(f) == <<Normal(f[1]), f[2], f[3]>>

\* ResolveLocalModulePath(): the literal path if it is a file; without an
\* extension, the path with .js, whether or not that is a file.
ResolveLocalModulePath(base, spec) ==
    LET literal == NormalizePath(<<base \o spec.to, spec.stem, spec.ext>>)
    IN  IF ~FileExists(literal) /\ spec.ext = "" THEN <<literal[1], spec.stem, "js">> ELSE literal

Running == frames # <<>> /\ ~throwing

\* The bookkeeping every call of require() with a local specifier starts with.
Resolving ==
    /\ Running /\ requires < MaxRequires
    /\ requires' = requires + 1
    /\ resolution' = <<Top, OwnDir(Top), BaseDir>>
    /\ UNCHANGED g_entry_dir

\* Found in the cache, finished or not: the exports the module has now, or what
\* a getter of that name throws.
RequireCached(spec) ==
    /\ Resolving
    /\ LET f == ResolveLocalModulePath(BaseDir, spec) IN
         /\ f \in DOMAIN g_module_cache
         /\ \/ returned' = returned \cup {<<f, g_module_cache[f]>>} /\ UNCHANGED throwing
            \/ throwing' = TRUE /\ UNCHANGED returned
    /\ UNCHANGED <<g_module_cache, g_module_dir_stack, frames, made, loaded>>

\* EMODULE_NOT_FOUND
RequireMissing(spec) ==
    /\ Resolving
    /\ LET f == ResolveLocalModulePath(BaseDir, spec) IN
         f \notin DOMAIN g_module_cache /\ ~FileExists(f)
    /\ throwing' = TRUE
    /\ UNCHANGED <<g_module_cache, g_module_dir_stack, frames, made, loaded, returned>>

\* The module is cached, does not compile or finds that a script has replaced
\* the global require, and is erased again before anything of it runs.
RequireBroken(spec) ==
    /\ Resolving
    /\ LET f == ResolveLocalModulePath(BaseDir, spec) IN
         FileExists(f) /\ f \notin DOMAIN g_module_cache
    /\ made' = made + 1
    /\ throwing' = TRUE
    /\ UNCHANGED <<g_module_cache, g_module_dir_stack, frames, loaded, returned>>

\* The module is cached, its directory is pushed and its wrapper is called.
RequireLoad(spec) ==
    /\ Resolving /\ Len(frames) < MaxDepth
    /\ LET f == ResolveLocalModulePath(BaseDir, spec) IN
         /\ FileExists(f) /\ f \notin DOMAIN g_module_cache /\ f \notin Broken
         /\ g_module_cache' = [g \in DOMAIN g_module_cache \cup {f} |->
                                 IF g = f THEN made + 1 ELSE g_module_cache[g]]
         /\ frames' = Append(frames, [code |-> f, kind |-> "load", module |-> made + 1])
         /\ g_module_dir_stack' = Append(g_module_dir_stack, f[1])
    /\ made' = made + 1
    /\ UNCHANGED <<throwing, loaded, returned>>

\* No string, or a specifier that is neither local nor built in: an error.  (A
\* built-in module is made afresh by every call and touches nothing here.)
RequireUnsupported ==
    /\ Running /\ requires < MaxRequires
    /\ requires' = requires + 1
    /\ throwing' = TRUE
    /\ UNCHANGED <<g_module_cache, g_module_dir_stack, g_entry_dir, frames, made, loaded, returned, resolution>>

\* The wrapper returns: the directory is popped, require() returns the exports.
LoadReturns ==
    /\ Running /\ Top.kind = "load"
    /\ g_module_dir_stack' = Front(g_module_dir_stack)
    /\ loaded' = loaded \cup {Top.module}
    /\ returned' = returned \cup {<<Top.code, Top.module>>}
    /\ frames' = Front(frames)
    /\ UNCHANGED <<g_module_cache, g_entry_dir, throwing, made, requires, resolution>>

\* Mutant: a failed module stays in the cache.
MutantFailKeepsCache ==
    /\ throwing /\ frames # <<>> /\ Top.kind = "load"
    /\ g_module_dir_stack' = Front(g_module_dir_stack)
    /\ frames' = Front(frames)
    /\ UNCHANGED <<g_module_cache, g_entry_dir, throwing, made, requires, loaded, returned, resolution>>

\* Mutant: the early return of the error path forgets the directory.
MutantFailKeepsDir ==
    /\ throwing /\ frames # <<>> /\ Top.kind = "load"
    /\ g_module_cache' = Restrict(g_module_cache, DOMAIN g_module_cache \ {Top.code})
    /\ frames' = Front(frames)
    /\ UNCHANGED <<g_module_dir_stack, g_entry_dir, throwing, made, requires, loaded, returned, resolution>>

\* The wrapper throws: popped and erased, and require() throws in the caller.
LoadThrows ==
    /\ throwing /\ frames # <<>> /\ Top.kind = "load"
    /\ g_module_dir_stack' = Front(g_module_dir_stack)
    /\ g_module_cache' = Restrict(g_module_cache, DOMAIN g_module_cache \ {Top.code})
    /\ frames' = Front(frames)
    /\ UNCHANGED <<g_entry_dir, throwing, made, requires, loaded, returned, resolution>>

\* The wrapper returns and module.exports is a getter that throws.
ExportsThrow ==
    /\ Running /\ Top.kind = "load"
    /\ g_module_dir_stack' = Front(g_module_dir_stack)
    /\ g_module_cache' = Restrict(g_module_cache, DOMAIN g_module_cache \ {Top.code})
    /\ frames' = Front(frames)
    /\ throwing' = TRUE
    /\ UNCHANGED <<g_entry_dir, made, requires, loaded, returned, resolution>>

-----------------------------------------------------------------------------
(* The rest of the program, V8 and the event loop                          *)

\* runScript(): the entry directory is set and the script called.  Without a
\* script on the stack; the cache stays.
RunScript(d) ==
    /\ frames = <<>> /\ ~throwing
    /\ g_entry_dir' = d
    /\ frames' = <<[code |-> Entry, kind |-> "call", module |-> 0]>>
    /\ UNCHANGED <<g_module_cache, g_module_dir_stack, throwing, made, requires, loaded, returned, resolution>>

\* A function of a module is called: by code on the stack, or by the event loop.
CallFunction(f, m) ==
    /\ ~throwing /\ Len(frames) < MaxDepth
    /\ frames' = Append(frames, [code |-> f, kind |-> "call", module |-> m])
    /\ UNCHANGED <<g_module_cache, g_module_dir_stack, g_entry_dir, throwing, made, requires, loaded, returned, resolution>>

FunctionReturns ==
    /\ Running /\ Top.kind = "call"
    /\ frames' = Front(frames)
    /\ UNCHANGED <<g_module_cache, g_module_dir_stack, g_entry_dir, throwing, made, requires, loaded, returned, resolution>>

FunctionThrows ==
    /\ throwing /\ frames # <<>> /\ Top.kind = "call"
    /\ frames' = Front(frames)
    /\ UNCHANGED <<g_module_cache, g_module_dir_stack, g_entry_dir, throwing, made, requires, loaded, returned, resolution>>

\* A frame throws of its own; a frame catches; an exception nobody caught is
\* reported (FormatTryCatch) and gone.
Throw == Running /\ throwing' = TRUE

Catch == throwing /\ throwing' = FALSE

Exception ==
    /\ Throw \/ Catch
    /\ UNCHANGED <<g_module_cache, g_module_dir_stack, g_entry_dir, frames, made, requires, loaded, returned, resolution>>

\* shutdown(): ClearModuleCache()
ClearModuleCache ==
    /\ frames = <<>> /\ ~throwing
    /\ g_module_cache' = <<>>
    /\ g_module_dir_stack' = <<>>
    /\ g_entry_dir' = None
    /\ returned' = {}
    /\ resolution' = <<>>
    /\ UNCHANGED <<frames, throwing, made, requires, loaded>>

Next ==
    \/ \E s \in Specs : \/ RequireCached(s) \/ RequireMissing(s)
                        \/ RequireBroken(s) \/ RequireLoad(s)
    \/ RequireUnsupported
    \/ LoadReturns \/ LoadThrows \/ ExportsThrow
    \/ \E d \in Dirs : RunScript(d)
    \/ \E r \in returned : CallFunction(r[1], r[2])
    \/ FunctionReturns \/ FunctionThrows
    \/ Exception
    \/ ClearModuleCache

Spec == Init /\ [][Next]_vars

-----------------------------------------------------------------------------
(* Correctness                                                             *)

\* The frames that are loads in progress, and how many there are up to the i-th.
Loads == {i \in DOMAIN frames : frames[i].kind = "load"}
Depth(i) == Cardinality({j \in Loads : j <= i})

\* The directory stack is that of the loads in progress, after any sequence of
\* throws and catches: a failed load does not leave its directory behind, which
\* would redirect every later require().
DirStackMatches ==
    /\ Len(g_module_dir_stack) = Depth(Len(frames))
    /\ \A i \in Loads : g_module_dir_stack[Depth(i)] = frames[i].code[1]

\* The cache is in step with the loads: a module whose body is running is in the
\* cache as the very object that is running, so that a cycle of requires ends
\* and the failure path erases its own entry; and what is cached has finished
\* or is being loaded further down the stack, so that a module that failed is
\* not served.
CacheMatches ==
    /\ \A i \in Loads :
           frames[i].code \in DOMAIN g_module_cache /\ g_module_cache[frames[i].code] = frames[i].module
    /\ \A f \in DOMAIN g_module_cache :
           g_module_cache[f] \in loaded \/ \E i \in Loads : frames[i].module = g_module_cache[f]

\* docs/superpowers/specs/2026-05-10-local-commonjs-modules-design.md:95
\* "Requiring the same module twice returns the same exports object": a file's
\* body is run to its end once, so that two callers who got a finished module
\* of one file got one object, whatever failed and was caught in between and
\* along whichever names they found the file.
LoadedOnce ==
    \A r, q \in returned :
        /\ Normal(r[1][1]) = Normal(q[1][1]) /\ r[1][2] = q[1][2] /\ r[1][3] = q[1][3]
        /\ {r[2], q[2]} \subseteq loaded
        => r[2] = q[2]

\* The same design, line 41, "Paths resolve relative to the requiring module's
\* directory": what the script or the body of a module requires is looked for in
\* its own directory, after any failed or finished load before.  (A function of
\* a module that is called later resolves from wherever the loader is then.)
ResolvesFromOwnDir ==
    resolution # <<>> /\ (resolution[1].kind = "load" \/ resolution[1].code = Entry) =>
        resolution[2] = resolution[3]
=============================================================================
