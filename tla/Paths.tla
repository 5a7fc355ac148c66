-------------------------------- MODULE Paths --------------------------------
(***************************************************************************)
(* Path names as src/src/v8/v8_helpers.cc and the kode:path built-ins of   *)
(* src/src/v8/builtins/path.cc treat them.                                 *)
(*                                                                         *)
(* A path is whether it starts at the root and the names between its       *)
(* separators, "." and ".." among them; repeated and trailing separators   *)
(* leave no name.  [abs |-> FALSE, names |-> <<>>] is what is written ".". *)
(***************************************************************************)
EXTENDS Naturals, Sequences, SequencesExt

\* What lexically_normal() makes of one more name: "." is dropped, ".." takes
\* back the name before it, stays at the root, and is kept where there is
\* nothing to take back.
Descend(p, name) ==
    CASE name = "." -> p
      [] name = ".." /\ p.names # <<>> /\ Last(p.names) # ".." -> [p EXCEPT !.names = Front(@)]
      [] name = ".." /\ p.names = <<>> /\ p.abs -> p
      [] OTHER -> [p EXCEPT !.names = Append(@, name)]

\* Name by name from the root or the current directory: where one is after each
Walk(p) ==
    LET at[i \in 0 .. Len(p.names)] ==
            IF i = 0 THEN [p EXCEPT !.names = <<>>] ELSE Descend(at[i - 1], p.names[i])
    IN  at

\* LexicalPath(): lexically_normal() without a trailing separator
LexicalPath(p) == Walk(p)[Len(p.names)]

\* path / part: an absolute part stands alone.
Slash(p, part) == IF part.abs THEN part ELSE [p EXCEPT !.names = @ \o part.names]

\* path.join(): leading separators of all parts but the first are dropped.
PathJoin(first, parts) ==
    LexicalPath(FoldLeft(LAMBDA p, part : Slash(p, [part EXCEPT !.abs = FALSE]), first, parts))

\* path.resolve(), in a current directory
PathResolve(cwd, parts) == LexicalPath(FoldLeft(Slash, cwd, parts))

\* path.dirname(): the root is its own directory.
PathDirname(p) == IF p.names = <<>> THEN p ELSE [p EXCEPT !.names = Front(@)]

\* path.basename(), as a path; the root's is the root
PathBasename(p) == IF p.names = <<>> THEN p ELSE [abs |-> FALSE, names |-> <<Last(p.names)>>]
=============================================================================
