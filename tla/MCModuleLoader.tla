---------------------------- MODULE MCModuleLoader ----------------------------
(***************************************************************************)
(* ModuleLoader on a small tree:  a.js and b.js in the root, b.js in lib,  *)
(* where the b.js of lib and that of the root differ.                      *)
(***************************************************************************)
EXTENDS ModuleLoader

Root == <<"r">>
Lib == <<"r", "lib">>

MCDirs == {Root, Lib}

MCDisk == {<<Root, "a", "js">>, <<Root, "b", "js">>, <<Lib, "b", "js">>}

\* A file that does not compile.
MCBroken == {<<Root, "b", "js">>}

\* "./a", "./b.js", "./lib/b.js", "../a.js", "./lib/../a.js"
MCSpecs ==
    {[to |-> <<".">>, stem |-> "a", ext |-> ""], [to |-> <<".">>, stem |-> "b", ext |-> "js"],
     [to |-> <<".", "lib">>, stem |-> "b", ext |-> "js"], [to |-> <<"..">>, stem |-> "a", ext |-> "js"],
     [to |-> <<".", "lib", "..">>, stem |-> "a", ext |-> "js"]}

-----------------------------------------------------------------------------
(* Laws of Paths, on all paths of up to four names                         *)

SmallPaths == [abs : BOOLEAN, names : BoundedSeq({".", "..", "x", "y"}, 4)]

\* Normal paths are those without "." in which ".." stands only where a relative
\* path begins, and normalising leaves exactly these alone.
ASSUME NormalLaw ==
    \A p \in SmallPaths :
        LET n == LexicalPath(p).names IN
        /\ \A i \in DOMAIN n : n[i] # "." /\ (n[i] = ".." => ~p.abs /\ \A j \in 1 .. i : n[j] = "..")
        /\ LexicalPath(LexicalPath(p)) = LexicalPath(p)

\* dirname and basename take a path apart that join puts together again.
ASSUME JoinLaw ==
    \A p \in SmallPaths : p.names # <<>> =>
        PathJoin(PathDirname(p), <<PathBasename(p)>>) = LexicalPath(p)

\* From an absolute directory resolve() and join() agree on relative parts, and
\* a part may be resolved in the result of the parts before it.
ASSUME ResolveLaw ==
    \A p, q \in {r \in SmallPaths : Len(r.names) <= 3} : p.abs =>
        /\ ~q.abs => PathResolve(p, <<q>>) = PathJoin(p, <<q>>)
        /\ PathResolve(p, <<q, q>>) = PathResolve(PathResolve(p, <<q>>), <<q>>)
=============================================================================
