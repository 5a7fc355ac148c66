-------------------------- MODULE ModuleLoaderProofs --------------------------
(***************************************************************************)
(* Proofs about the CommonJS loader: through any nesting of requires,      *)
(* calls, throws and catches, of any depth, the directory stack and the    *)
(* cache are those of the loads in progress, a body resolves in its own    *)
(* directory, and a file is loaded once.                                   *)
(*                                                                         *)
(* The argument follows V8's call stack.  A load that begins or ends       *)
(* changes the frames, the directory stack and the cache together; that    *)
(* the failure path of LoadLocalModule() erases its own entry and no other *)
(* rests on three further facts: the loads in progress have different      *)
(* module objects, none of them finished, and the cache gives no object to *)
(* two files (FramesInv, CacheInjective).  LoadedOnce needs that a finished*)
(* module that somebody was given stays in the cache (ReturnedInv).  That  *)
(* a file found on disk has one name rests on NormalizePath() being        *)
(* idempotent, which is proved for paths of any length.                    *)
(***************************************************************************)
EXTENDS ModuleLoader, FiniteSetTheorems, SequenceTheorems,
        NaturalsInduction, WellFoundedInduction, TLAPS

-----------------------------------------------------------------------------
(* Paths: lexically_normal() of v8_helpers.cc, name by name.  Induction is *)
(* over sets of numbers.                                                   *)

Path == [abs : BOOLEAN, names : Seq(STRING)]

\* A set of numbers has a least one.
LEMMA NatMin ==
  ASSUME NEW T, T \subseteq Nat, T # {}
  PROVE  \E m \in T : \A n \in T : m <= n
  <1>1. PICK x \in T : \A y \in T : ~ (<<y, x>> \in OpToRel(<, Nat))
    BY WFMin, NatLessThanWellFounded
  <1>2. ASSUME NEW y \in T PROVE x <= y
    <2>1. ~ (<<y, x>> \in {ss \in Nat \X Nat : ss[1] < ss[2]})
      BY <1>1 DEF OpToRel
    <2> QED
      BY <2>1
  <1> QED
    BY <1>1, <1>2

\* A set that has 0 and, with a number, its successor has all of them.
LEMMA SetInduction ==
  ASSUME NEW T, 0 \in T, \A n \in Nat : n \in T => n + 1 \in T
  PROVE  \A n \in Nat : n \in T
  <1> DEFINE B == {n \in Nat : n \notin T}
  <1> SUFFICES ASSUME B # {} PROVE FALSE
    OBVIOUS
  <1>1. B \subseteq Nat
    OBVIOUS
  <1> HIDE DEF B
  <1>2. PICK m \in B : \A n \in B : m <= n
    BY <1>1, NatMin
  <1> USE DEF B
  <1>3. m \in Nat /\ m > 0
    OBVIOUS
  <1>4. m - 1 \in Nat /\ m - 1 \notin B
    BY <1>2, <1>3
  <1>5. m - 1 \in T
    BY <1>4
  <1>6. (m - 1) + 1 \in T
    BY <1>4, <1>5
  <1> QED
    BY <1>6, <1>3

\* A path in normal form has no "." and has ".." only where a relative path begins.
IsNormal(p) ==
  \A i \in DOMAIN p.names :
      p.names[i] # "." /\ (p.names[i] = ".." => ~p.abs /\ \A j \in 1 .. i : p.names[j] = "..")

\* Other names of the same path.
LEMMA OtherNames ==
  ASSUME NEW a, NEW s, NEW t
  PROVE  [[abs |-> a, names |-> s] EXCEPT !.names = t] = [abs |-> a, names |-> t]
  OBVIOUS

\* One more name of the beginning of a path.
LEMMA BeginningGrows ==
  ASSUME NEW s \in Seq(STRING), NEW i \in 0 .. Len(s) - 1
  PROVE  Append(SubSeq(s, 1, i), s[i + 1]) = SubSeq(s, 1, i + 1)
  <1> DEFINE u == SubSeq(s, 1, i)
             v == SubSeq(s, 1, i + 1)
             w == Append(u, s[i + 1])
  <1>1. u \in Seq(STRING) /\ Len(u) = i /\ \A k \in 1 .. i : u[k] = s[k]
    OBVIOUS
  <1>2. v \in Seq(STRING) /\ Len(v) = i + 1 /\ \A k \in 1 .. i + 1 : v[k] = s[k]
    OBVIOUS
  <1>3. s[i + 1] \in STRING /\ i \in Nat
    OBVIOUS
  <1> HIDE DEF u, v
  <1>4. w \in Seq(STRING) /\ Len(w) = i + 1 /\ (\A k \in 1 .. i : w[k] = u[k]) /\ w[i + 1] = s[i + 1]
    BY <1>1, <1>3, AppendProperties
  <1> HIDE DEF w
  <1>5. ASSUME NEW k \in 1 .. i + 1 PROVE w[k] = v[k]
    <2>1. CASE k = i + 1
      BY <1>2, <1>4, <2>1
    <2>2. CASE k # i + 1
      <3>1. k \in 1 .. i
        BY <1>3, <2>2
      <3> QED
        BY <1>1, <1>2, <1>4, <3>1
    <2> QED
      BY <2>1, <2>2
  <1>6. w = v
    BY <1>2, <1>4, <1>5, SeqEqual
  <1> QED
    BY <1>6 DEF u, v, w

\* The walk is what its recursive definition says: a function that satisfies it
\* exists, since one for a shorter walk can be made longer.
LEMMA WalkDef ==
  ASSUME NEW p \in Path
  PROVE  Walk(p) = [i \in 0 .. Len(p.names) |->
                     IF i = 0 THEN [p EXCEPT !.names = <<>>] ELSE Descend(Walk(p)[i - 1], p.names[i])]
  <1> DEFINE start == [p EXCEPT !.names = <<>>]
             name == p.names
             Is(g, m) == g = [i \in 0 .. m |-> IF i = 0 THEN start ELSE Descend(g[i - 1], name[i])]
             T == {m \in Nat : \E g : Is(g, m)}
  <1>0. Len(name) \in Nat
    BY DEF Path
  <1> HIDE DEF start, name
  <1>1. 0 \in T
    <2> DEFINE g == [i \in 0 .. 0 |-> start]
    <2>1. Is(g, 0)
      OBVIOUS
    <2> QED
      BY <2>1
  <1>2. ASSUME NEW m \in Nat, m \in T PROVE m + 1 \in T
    <2>1. PICK g : Is(g, m)
      BY <1>2
    <2> DEFINE h == [i \in 0 .. m + 1 |-> IF i = m + 1 THEN Descend(g[m], name[m + 1]) ELSE g[i]]
    <2>2. ASSUME NEW i \in 0 .. m + 1
          PROVE  h[i] = IF i = 0 THEN start ELSE Descend(h[i - 1], name[i])
      <3>1. CASE i = m + 1
        <4>1. h[i] = Descend(g[m], name[m + 1]) /\ i # 0 /\ i - 1 = m
          BY <3>1
        <4>2. m \in 0 .. m + 1 /\ m # m + 1
          OBVIOUS
        <4>3. h[m] = g[m]
          BY <4>2
        <4> HIDE DEF h
        <4> QED
          BY <3>1, <4>1, <4>3
      <3>2. CASE i # m + 1
        <4>1. h[i] = g[i] /\ i \in 0 .. m
          BY <3>2
        <4>2. g[i] = IF i = 0 THEN start ELSE Descend(g[i - 1], name[i])
          BY <2>1, <4>1
        <4>3. ASSUME i # 0 PROVE h[i - 1] = g[i - 1]
          <5>1. i - 1 \in 0 .. m + 1 /\ i - 1 # m + 1
            BY <4>3
          <5> QED
            BY <5>1
        <4> HIDE DEF h
        <4> QED
          BY <4>1, <4>2, <4>3
      <3> QED
        BY <3>1, <3>2
    <2>3. h = [i \in 0 .. m + 1 |-> h[i]]
      OBVIOUS
    <2> HIDE DEF h
    <2>4. Is(h, m + 1)
      BY <2>2, <2>3, Zenon
    <2>5. m + 1 \in Nat
      OBVIOUS
    <2> HIDE DEF Is
    <2> QED
      BY <2>4, <2>5, Zenon
  <1> HIDE DEF T
  <1>3. Len(name) \in T
    BY <1>0, <1>1, <1>2, SetInduction
  <1> USE DEF T
  <1>4. \E g : Is(g, Len(name))
    BY <1>3
  <1> QED
    BY <1>4, Zenon DEF Walk, start, name

\* Each name leads from a path in normal form to one in normal form.
LEMMA DescendNormal ==
  ASSUME NEW p \in Path, IsNormal(p), NEW name \in STRING
  PROVE  /\ Descend(p, name) \in Path /\ Descend(p, name).abs = p.abs
         /\ IsNormal(Descend(p, name))
  <1> DEFINE n == Len(p.names)
  <1>0. /\ p.names \in Seq(STRING) /\ n \in Nat /\ DOMAIN p.names = 1 .. n /\ p.abs \in BOOLEAN
        /\ p = [abs |-> p.abs, names |-> p.names]
    BY DEF Path
  <1>1. CASE name = "."
    BY <1>1 DEF Descend
  <1>2. CASE name = ".." /\ p.names # <<>> /\ Last(p.names) # ".."
    <2> DEFINE q == [p EXCEPT !.names = Front(@)]
    <2>1. Descend(p, name) = q
      BY <1>2 DEF Descend
    <2>2. n # 0
      BY <1>0, <1>2
    <2>3. /\ Front(p.names) \in Seq(STRING) /\ DOMAIN Front(p.names) = 1 .. n - 1
          /\ \A i \in 1 .. n - 1 : Front(p.names)[i] = p.names[i]
      BY <1>0, <2>2 DEF Front
    <2>4. q = [abs |-> p.abs, names |-> Front(p.names)]
      BY <1>0, OtherNames
    <2>5. q \in Path /\ q.abs = p.abs /\ q.names = Front(p.names)
      BY <2>3, <2>4, <1>0 DEF Path
    <2> HIDE DEF q
    <2>6. IsNormal(q)
      BY <1>0, <2>3, <2>5 DEF IsNormal
    <2> QED
      BY <2>1, <2>5, <2>6
  <1>3. CASE name = ".." /\ p.names = <<>> /\ p.abs
    BY <1>3 DEF Descend
  <1>4. CASE /\ name # "."
             /\ ~(name = ".." /\ p.names # <<>> /\ Last(p.names) # "..")
             /\ ~(name = ".." /\ p.names = <<>> /\ p.abs)
    <2> DEFINE q == [p EXCEPT !.names = Append(@, name)]
    <2>1. Descend(p, name) = q
      BY <1>4 DEF Descend
    <2>3. /\ Append(p.names, name) \in Seq(STRING) /\ DOMAIN Append(p.names, name) = 1 .. n + 1
          /\ \A i \in 1 .. n : Append(p.names, name)[i] = p.names[i]
          /\ Append(p.names, name)[n + 1] = name
      BY <1>0
    <2>4. q = [abs |-> p.abs, names |-> Append(p.names, name)]
      BY <1>0, OtherNames
    <2>5. q \in Path /\ q.abs = p.abs /\ q.names = Append(p.names, name)
      BY <2>3, <2>4, <1>0 DEF Path
    <2> HIDE DEF q
    <2>6. ASSUME NEW i \in 1 .. n + 1
          PROVE  q.names[i] # "." /\ (q.names[i] = ".." => ~q.abs /\ \A j \in 1 .. i : q.names[j] = "..")
      <3>1. CASE i # n + 1
        <4>1. i \in 1 .. n /\ \A j \in 1 .. i : j \in 1 .. n
          BY <3>1
        <4>2. q.names[i] = p.names[i] /\ \A j \in 1 .. i : q.names[j] = p.names[j]
          BY <2>3, <2>5, <4>1
        <4>3. p.names[i] # "." /\ (p.names[i] = ".." => ~p.abs /\ \A j \in 1 .. i : p.names[j] = "..")
          BY <1>0, <4>1 DEF IsNormal
        <4> QED
          BY <2>5, <4>2, <4>3
      <3>2. CASE i = n + 1
        <4>1. q.names[i] = name /\ name # "."
          BY <1>4, <2>3, <2>5, <3>2
        <4>2. ASSUME name = "..", p.names = <<>> PROVE ~p.abs /\ n = 0
          BY <1>4, <4>2
        <4>3. ASSUME name = "..", p.names # <<>>
              PROVE ~p.abs /\ \A j \in 1 .. n : p.names[j] = ".."
          <5>1. n \in 1 .. n /\ Last(p.names) = p.names[n] /\ p.names[n] = ".."
            BY <1>0, <1>4, <4>3 DEF Last
          <5> QED
            BY <1>0, <5>1 DEF IsNormal
        <4>4. ASSUME name = ".." PROVE ~p.abs /\ \A j \in 1 .. n : p.names[j] = ".."
          BY <1>0, <4>2, <4>3, <4>4
        <4>5. \A j \in 1 .. i : j \in 1 .. n \/ j = n + 1
          BY <1>0, <3>2
        <4> QED
          BY <2>3, <2>5, <4>1, <4>4, <4>5
      <3> QED
        BY <3>1, <3>2
    <2>7. IsNormal(q)
      BY <2>3, <2>5, <2>6 DEF IsNormal
    <2> QED
      BY <2>1, <2>5, <2>7
  <1> QED
    BY <1>1, <1>2, <1>3, <1>4

\* Every stage of the walk is a path in normal form.
LEMMA WalkNormal ==
  ASSUME NEW p \in Path
  PROVE  /\ Walk(p)[0] = [abs |-> p.abs, names |-> <<>>]
         /\ \A i \in 0 .. Len(p.names) - 1 : Walk(p)[i + 1] = Descend(Walk(p)[i], p.names[i + 1])
         /\ \A i \in 0 .. Len(p.names) :
               Walk(p)[i] \in Path /\ Walk(p)[i].abs = p.abs /\ IsNormal(Walk(p)[i])
  <1> DEFINE w == Walk(p)
             start == [abs |-> p.abs, names |-> <<>>]
             Good(q) == q \in Path /\ q.abs = p.abs /\ IsNormal(q)
             T == {i \in Nat : i <= Len(p.names) => Good(w[i])}
  <1>0. p.names \in Seq(STRING) /\ Len(p.names) \in Nat /\ p.abs \in BOOLEAN
        /\ [p EXCEPT !.names = <<>>] = start
    BY DEF Path
  <1>1. w = [i \in 0 .. Len(p.names) |-> IF i = 0 THEN start ELSE Descend(w[i - 1], p.names[i])]
    BY <1>0, WalkDef
  <1> HIDE DEF w
  <1>2. w[0] = start
    BY <1>0, <1>1
  <1>3. ASSUME NEW i \in 0 .. Len(p.names) - 1 PROVE w[i + 1] = Descend(w[i], p.names[i + 1])
    <2>1. i + 1 \in 0 .. Len(p.names) /\ i + 1 # 0 /\ (i + 1) - 1 = i
      BY <1>0
    <2>2. w[i + 1] = Descend(w[(i + 1) - 1], p.names[i + 1])
      BY <1>1, <2>1
    <2> QED
      BY <2>1, <2>2
  <1>4. Good(start)
    BY <1>0 DEF Path, IsNormal
  <1>5. 0 \in T
    BY <1>2, <1>4
  <1>6. ASSUME NEW i \in Nat, i \in T PROVE i + 1 \in T
    <2>1. CASE i + 1 <= Len(p.names)
      <3>1. Good(w[i]) /\ i \in 0 .. Len(p.names) - 1 /\ i + 1 \in 1 .. Len(p.names)
        BY <1>0, <1>6, <2>1
      <3>2. p.names[i + 1] \in STRING
        BY <1>0, <3>1, ElementOfSeq
      <3>3. Good(Descend(w[i], p.names[i + 1]))
        BY <3>1, <3>2, DescendNormal
      <3> QED
        BY <1>3, <3>1, <3>3
    <2>2. CASE ~(i + 1 <= Len(p.names))
      BY <2>2
    <2> QED
      BY <2>1, <2>2
  <1> HIDE DEF T
  <1>7. \A i \in Nat : i \in T
    BY <1>5, <1>6, SetInduction
  <1>8. \A i \in 0 .. Len(p.names) : Good(w[i])
    BY <1>0, <1>7 DEF T
  <1> QED
    BY <1>2, <1>3, <1>8 DEF w

\* Of a path in normal form, name after name is added.
LEMMA WalkAdds ==
  ASSUME NEW p \in Path, IsNormal(p)
  PROVE  \A i \in 0 .. Len(p.names) : Walk(p)[i] = [abs |-> p.abs, names |-> SubSeq(p.names, 1, i)]
  <1> DEFINE w == Walk(p)
             n == Len(p.names)
             At(i) == [abs |-> p.abs, names |-> SubSeq(p.names, 1, i)]
             T == {i \in Nat : i <= n => w[i] = At(i)}
  <1>0. p.names \in Seq(STRING) /\ n \in Nat /\ p.abs \in BOOLEAN /\ DOMAIN p.names = 1 .. n
    BY DEF Path
  <1>1. /\ w[0] = [abs |-> p.abs, names |-> <<>>]
        /\ \A i \in 0 .. n - 1 : w[i + 1] = Descend(w[i], p.names[i + 1])
    BY WalkNormal
  <1> HIDE DEF w, n
  <1>2. SubSeq(p.names, 1, 0) = <<>>
    BY <1>0
  <1>3. ASSUME NEW i \in 0 .. n - 1 PROVE Descend(At(i), p.names[i + 1]) = At(i + 1)
    <2> DEFINE s == SubSeq(p.names, 1, i)
               name == p.names[i + 1]
    <2>1. /\ i \in Nat /\ i + 1 \in 1 .. n /\ s \in Seq(STRING) /\ Len(s) = i
          /\ \A j \in 1 .. i : s[j] = p.names[j]
      BY <1>0 DEF n
    <2>2. name # "." /\ (name = ".." => ~p.abs /\ \A j \in 1 .. i + 1 : p.names[j] = "..")
      BY <1>0, <2>1 DEF IsNormal
    <2>3. SubSeq(p.names, 1, i + 1) = Append(s, name)
      BY <1>0, BeginningGrows DEF n
    <2>4. [At(i) EXCEPT !.names = Append(@, name)] = At(i + 1)
      BY <2>3, OtherNames
    <2>5. ~(name = ".." /\ s # <<>> /\ Last(s) # "..")
      <3>1. ASSUME name = "..", s # <<>> PROVE Last(s) = ".."
        <4>1. i # 0
          BY <2>1, <3>1
        <4>2. i \in 1 .. i /\ i \in 1 .. i + 1 /\ Last(s) = s[i]
          BY <2>1, <4>1 DEF Last
        <4> HIDE DEF s, name
        <4> QED
          BY <2>1, <2>2, <3>1, <4>2
      <3> QED
        BY <3>1
    <2>6. ~(name = ".." /\ s = <<>> /\ p.abs)
      BY <2>2
    <2>7. At(i).names = s /\ At(i).abs = p.abs
      OBVIOUS
    <2> HIDE DEF s, name, At
    <2> QED
      BY <2>2, <2>4, <2>5, <2>6, <2>7 DEF Descend, name
  <1>4. 0 \in T
    BY <1>1, <1>2
  <1>5. ASSUME NEW i \in Nat, i \in T PROVE i + 1 \in T
    <2>1. CASE i + 1 <= n
      <3>1. i \in 0 .. n - 1 /\ w[i] = At(i)
        BY <1>0, <1>5, <2>1
      <3>2. w[i + 1] = At(i + 1)
        BY <1>1, <1>3, <3>1
      <3> HIDE DEF At
      <3> QED
        BY <3>2
    <2>2. CASE ~(i + 1 <= n)
      BY <2>2
    <2> QED
      BY <2>1, <2>2
  <1> HIDE DEF T
  <1>6. \A i \in Nat : i \in T
    BY <1>4, <1>5, SetInduction
  <1>7. \A i \in 0 .. n : w[i] = At(i)
    BY <1>0, <1>6 DEF T
  <1> QED
    BY <1>7 DEF w, n

\* What LexicalPath() makes of a path, of any length, is in normal form; a path
\* in normal form is left alone, so that doing it again changes nothing.
THEOREM PathNormal ==
  ASSUME NEW p \in Path
  PROVE  /\ LexicalPath(p) \in Path /\ LexicalPath(p).abs = p.abs
         /\ IsNormal(LexicalPath(p))
         /\ IsNormal(p) => LexicalPath(p) = p
         /\ LexicalPath(LexicalPath(p)) = LexicalPath(p)
  <1>0. ASSUME NEW q \in Path PROVE Len(q.names) \in 0 .. Len(q.names) /\ q = [abs |-> q.abs, names |-> q.names]
    BY DEF Path
  <1>1. ASSUME NEW q \in Path
        PROVE  LexicalPath(q) \in Path /\ LexicalPath(q).abs = q.abs /\ IsNormal(LexicalPath(q))
    BY <1>0, WalkNormal DEF LexicalPath
  <1>2. ASSUME NEW q \in Path, IsNormal(q) PROVE LexicalPath(q) = q
    <2>1. LexicalPath(q) = [abs |-> q.abs, names |-> SubSeq(q.names, 1, Len(q.names))]
      BY <1>0, <1>2, WalkAdds DEF LexicalPath
    <2>2. SubSeq(q.names, 1, Len(q.names)) = q.names
      <3>1. q.names \in Seq(STRING)
        BY DEF Path
      <3> QED
        BY <3>1
    <2> QED
      BY <1>0, <2>1, <2>2
  <1> QED
    BY <1>1, <1>2

\* The path that goes on from p by the names q.
GoOn(p, q) == [abs |-> p.abs, names |-> p.names \o q]

LEMMA GoOnNames ==
  ASSUME NEW p \in Path, NEW q \in Seq(STRING)
  PROVE  /\ GoOn(p, q) \in Path /\ GoOn(p, q).abs = p.abs
         /\ Len(GoOn(p, q).names) = Len(p.names) + Len(q)
         /\ \A i \in 1 .. Len(p.names) : GoOn(p, q).names[i] = p.names[i]
         /\ \A i \in 1 .. Len(q) : GoOn(p, q).names[Len(p.names) + i] = q[i]
  <1>1. p.names \in Seq(STRING) /\ p.abs \in BOOLEAN
    BY DEF Path
  <1>2. /\ p.names \o q \in Seq(STRING) /\ Len(p.names \o q) = Len(p.names) + Len(q)
        /\ \A i \in 1 .. Len(p.names) : (p.names \o q)[i] = p.names[i]
        /\ \A i \in 1 .. Len(q) : (p.names \o q)[Len(p.names) + i] = q[i]
    BY <1>1, ConcatProperties
  <1>3. GoOn(p, q).abs = p.abs /\ GoOn(p, q).names = p.names \o q
    BY DEF GoOn
  <1>4. GoOn(p, q) \in Path
    BY <1>1, <1>2 DEF GoOn, Path
  <1> QED
    BY <1>2, <1>3, <1>4

\* The walk along the first names does not depend on those that follow.
LEMMA WalkBeginning ==
  ASSUME NEW p \in Path, NEW q \in Seq(STRING)
  PROVE  Walk(GoOn(p, q))[Len(p.names)] = LexicalPath(p)
  <1> DEFINE r == GoOn(p, q)
             n == Len(p.names)
             T == {i \in Nat : i <= n => Walk(r)[i] = Walk(p)[i]}
  <1>0. n \in Nat /\ Len(q) \in Nat
    BY DEF Path
  <1>1. /\ r \in Path /\ r.abs = p.abs /\ Len(r.names) = n + Len(q)
        /\ \A i \in 1 .. n : r.names[i] = p.names[i]
    BY GoOnNames
  <1> HIDE DEF r, n
  <1>2. Walk(r)[0] = Walk(p)[0]
    BY <1>1, WalkNormal
  <1>3. ASSUME NEW i \in Nat, i \in T PROVE i + 1 \in T
    <2>1. CASE i + 1 <= n
      <3>1. i \in 0 .. n - 1 /\ i \in 0 .. Len(r.names) - 1 /\ i + 1 \in 1 .. n
        BY <1>0, <1>1, <2>1
      <3>2. Walk(r)[i] = Walk(p)[i]
        BY <1>0, <1>3, <2>1
      <3>3. Walk(r)[i + 1] = Descend(Walk(r)[i], r.names[i + 1])
        BY <1>1, <3>1, WalkNormal
      <3>4. Walk(p)[i + 1] = Descend(Walk(p)[i], p.names[i + 1])
        BY <3>1, WalkNormal DEF n
      <3>5. Walk(r)[i + 1] = Walk(p)[i + 1]
        BY <1>1, <3>1, <3>2, <3>3, <3>4
      <3> QED
        BY <3>5
    <2>2. CASE ~(i + 1 <= n)
      BY <2>2
    <2> QED
      BY <2>1, <2>2
  <1>4. 0 \in T
    BY <1>2
  <1> HIDE DEF T
  <1>5. n \in T
    BY <1>0, <1>3, <1>4, SetInduction
  <1> QED
    BY <1>0, <1>5 DEF T, n, r, LexicalPath

\* To normalise a path before one goes on from it changes nothing: a directory
\* of the loader stands for every way it may be written.
THEOREM PathStepwise ==
  ASSUME NEW p \in Path, NEW q \in Seq(STRING)
  PROVE  LexicalPath(GoOn(LexicalPath(p), q)) = LexicalPath(GoOn(p, q))
  <1> DEFINE c == LexicalPath(p)
             r == GoOn(p, q)
             s == GoOn(c, q)
             n == Len(p.names)
             k == Len(c.names)
             T == {i \in Nat : i <= Len(q) => Walk(r)[n + i] = Walk(s)[k + i]}
  <1>0. c \in Path /\ LexicalPath(c) = c
    BY PathNormal
  <1>1. n \in Nat /\ k \in Nat /\ Len(q) \in Nat
    BY <1>0 DEF Path
  <1> HIDE DEF c
  <1>2. /\ r \in Path /\ Len(r.names) = n + Len(q) /\ \A i \in 1 .. Len(q) : r.names[n + i] = q[i]
        /\ Walk(r)[n] = c
    BY GoOnNames, WalkBeginning DEF c
  <1>3. /\ s \in Path /\ Len(s.names) = k + Len(q) /\ \A i \in 1 .. Len(q) : s.names[k + i] = q[i]
        /\ Walk(s)[k] = c
    BY <1>0, GoOnNames, WalkBeginning
  <1> HIDE DEF r, s, n, k
  <1>4. 0 \in T
    BY <1>1, <1>2, <1>3
  <1>5. ASSUME NEW i \in Nat, i \in T PROVE i + 1 \in T
    <2>1. CASE i + 1 <= Len(q)
      <3>1. /\ n + i \in 0 .. Len(r.names) - 1 /\ k + i \in 0 .. Len(s.names) - 1
            /\ i + 1 \in 1 .. Len(q) /\ (n + i) + 1 = n + (i + 1) /\ (k + i) + 1 = k + (i + 1)
        BY <1>1, <1>2, <1>3, <2>1
      <3>2. Walk(r)[n + i] = Walk(s)[k + i]
        BY <1>1, <1>5, <2>1
      <3>3. Walk(r)[(n + i) + 1] = Descend(Walk(r)[n + i], r.names[(n + i) + 1])
        BY <1>2, <3>1, WalkNormal
      <3>4. Walk(s)[(k + i) + 1] = Descend(Walk(s)[k + i], s.names[(k + i) + 1])
        BY <1>3, <3>1, WalkNormal
      <3>5. r.names[n + (i + 1)] = q[i + 1] /\ s.names[k + (i + 1)] = q[i + 1]
        BY <1>2, <1>3, <3>1
      <3>6. Walk(r)[n + (i + 1)] = Walk(s)[k + (i + 1)]
        BY <3>1, <3>2, <3>3, <3>4, <3>5
      <3> QED
        BY <3>6
    <2>2. CASE ~(i + 1 <= Len(q))
      BY <2>2
    <2> QED
      BY <2>1, <2>2
  <1> HIDE DEF T
  <1>6. Len(q) \in T
    BY <1>1, <1>4, <1>5, SetInduction
  <1>7. Walk(r)[Len(r.names)] = Walk(s)[Len(s.names)]
    BY <1>1, <1>2, <1>3, <1>6 DEF T
  <1> QED
    BY <1>7 DEF LexicalPath, r, s, c

-----------------------------------------------------------------------------
(* Counting the loads below a frame                                        *)

\* The elements of L up to i; with Loads for L their number is Depth(i).
Upto(L, i) == {j \in L : j <= i}

LEMMA UptoFinite ==
  ASSUME NEW n \in Nat, NEW L \in SUBSET (1 .. n), NEW i \in Nat
  PROVE  IsFiniteSet(Upto(L, i)) /\ Cardinality(Upto(L, i)) \in Nat
  <1>1. IsFiniteSet(1 .. n)
    BY FS_Interval
  <1>2. Upto(L, i) \subseteq 1 .. n
    BY DEF Upto
  <1>3. IsFiniteSet(Upto(L, i))
    BY <1>1, <1>2, FS_Subset
  <1> QED BY <1>3, FS_CardinalityType

\* There are fewer below an element of L than up to it.
LEMMA UptoGrows ==
  ASSUME NEW n \in Nat, NEW L \in SUBSET (1 .. n), NEW i \in Nat, NEW k \in L, i < k
  PROVE  Cardinality(Upto(L, i)) + 1 <= Cardinality(Upto(L, k))
  <1>0. k \in Nat /\ \A j \in L : j \in Nat /\ 1 <= j /\ j <= n
    OBVIOUS
  <1>1. Upto(L, i) \cup {k} \subseteq Upto(L, k) /\ k \notin Upto(L, i)
    <2>1. \A j \in L : j <= i => j <= k
      BY <1>0
    <2>2. k <= k /\ ~(k <= i)
      BY <1>0
    <2> QED BY <2>1, <2>2, Zenon DEF Upto
  <1>2. /\ IsFiniteSet(Upto(L, i)) /\ Cardinality(Upto(L, i)) \in Nat
        /\ IsFiniteSet(Upto(L, k)) /\ Cardinality(Upto(L, k)) \in Nat
    BY <1>0, UptoFinite
  <1>3. Cardinality(Upto(L, i) \cup {k}) = Cardinality(Upto(L, i)) + 1
    BY <1>1, <1>2, FS_AddElement
  <1>4. Cardinality(Upto(L, i) \cup {k}) <= Cardinality(Upto(L, k))
    BY <1>1, <1>2, FS_Subset
  <1> QED BY <1>3, <1>4

\* An element of L is counted, and no count exceeds that of the whole.
LEMMA UptoBounds ==
  ASSUME NEW n \in Nat, NEW L \in SUBSET (1 .. n), NEW i \in L
  PROVE  /\ Cardinality(Upto(L, i)) \in 1 .. Cardinality(Upto(L, n))
         /\ Cardinality(Upto(L, n)) \in Nat
  <1>0. i \in Nat /\ i <= n /\ 0 < i /\ \A j \in L : j \in Nat /\ 1 <= j /\ j <= n
    OBVIOUS
  <1>1. /\ IsFiniteSet(Upto(L, i)) /\ Cardinality(Upto(L, i)) \in Nat
        /\ IsFiniteSet(Upto(L, n)) /\ Cardinality(Upto(L, n)) \in Nat
    BY <1>0, UptoFinite
  <1>2. Upto(L, i) \subseteq Upto(L, n)
    BY <1>0, Zenon DEF Upto
  <1>3. Cardinality(Upto(L, i)) <= Cardinality(Upto(L, n))
    BY <1>1, <1>2, FS_Subset
  <1>4. Upto(L, i) # {}
    BY <1>0 DEF Upto
  <1>5. Cardinality(Upto(L, i)) # 0
    BY <1>1, <1>4, FS_EmptySet
  <1> QED BY <1>1, <1>3, <1>5

\* One more element at the end.
LEMMA UptoPush ==
  ASSUME NEW n \in Nat, NEW L \in SUBSET (1 .. n)
  PROVE  /\ \A i \in 1 .. n : Upto(L \cup {n + 1}, i) = Upto(L, i)
         /\ Cardinality(Upto(L \cup {n + 1}, n + 1)) = Cardinality(Upto(L, n)) + 1
         /\ Upto(L, n + 1) = Upto(L, n)
  <1>0. \A j \in L : j \in Nat /\ 1 <= j /\ j <= n /\ j <= n + 1 /\ j # n + 1
    OBVIOUS
  <1>1. ASSUME NEW i \in 1 .. n PROVE Upto(L \cup {n + 1}, i) = Upto(L, i)
    <2>1. ~(n + 1 <= i)
      OBVIOUS
    <2> QED BY <2>1, Zenon DEF Upto
  <1>2. Upto(L \cup {n + 1}, n + 1) = Upto(L, n) \cup {n + 1} /\ n + 1 \notin Upto(L, n)
    <2>1. n + 1 <= n + 1
      OBVIOUS
    <2> QED BY <1>0, <2>1, Zenon DEF Upto
  <1>3. IsFiniteSet(Upto(L, n))
    BY UptoFinite
  <1>4. Cardinality(Upto(L, n) \cup {n + 1}) = Cardinality(Upto(L, n)) + 1
    BY <1>2, <1>3, FS_AddElement
  <1>5. Upto(L, n + 1) = Upto(L, n)
    BY <1>0, Zenon DEF Upto
  <1> QED BY <1>1, <1>2, <1>4, <1>5

\* The last element goes.
LEMMA UptoPop ==
  ASSUME NEW n \in Nat \ {0}, NEW L \in SUBSET (1 .. n)
  PROVE  /\ \A i \in 1 .. (n - 1) : Upto(L \ {n}, i) = Upto(L, i)
         /\ n \in L => Cardinality(Upto(L \ {n}, n - 1)) = Cardinality(Upto(L, n)) - 1
         /\ n \notin L => Upto(L, n - 1) = Upto(L, n)
  <1>0. n - 1 \in Nat /\ \A j \in L : j \in Nat /\ 1 <= j /\ j <= n /\ (j <= n - 1 <=> j # n)
    OBVIOUS
  <1>1. ASSUME NEW i \in 1 .. (n - 1) PROVE Upto(L \ {n}, i) = Upto(L, i)
    <2>1. ~(n <= i)
      OBVIOUS
    <2> QED BY <2>1, Zenon DEF Upto
  <1>2. ASSUME n \in L PROVE Cardinality(Upto(L \ {n}, n - 1)) = Cardinality(Upto(L, n)) - 1
    <2>1. Upto(L \ {n}, n - 1) = Upto(L, n) \ {n} /\ n \in Upto(L, n)
      BY <1>0, <1>2, Zenon DEF Upto
    <2>2. IsFiniteSet(Upto(L, n))
      BY UptoFinite
    <2> QED BY <2>1, <2>2, FS_RemoveElement
  <1>3. n \notin L => Upto(L, n - 1) = Upto(L, n)
    BY <1>0, Zenon DEF Upto
  <1> QED BY <1>1, <1>2, <1>3

-----------------------------------------------------------------------------
(* The inductive invariant                                                 *)

Frame == [code : Disk \cup {Entry}, kind : {"load", "call"}, module : 0 .. MaxRequires]
FileDirs == {f[1] : f \in Disk}

\* The types, with the files known to be files of the disk: what is cached,
\* loaded or returned has been found by FileExists() under its normal path.
CacheType ==
    /\ DOMAIN g_module_cache \subseteq Disk
    /\ g_module_cache \in [DOMAIN g_module_cache -> 1 .. made]

StackType ==
    /\ g_module_dir_stack \in Seq(FileDirs)
    /\ frames \in Seq(Frame) /\ Len(frames) <= MaxDepth
    /\ g_entry_dir \in Dirs \cup {None}
    /\ frames # <<>> \/ returned # {} => g_entry_dir \in Dirs

CountersType ==
    /\ throwing \in BOOLEAN
    /\ requires \in 0 .. MaxRequires /\ made \in 0 .. requires
    /\ loaded \subseteq 1 .. made
    /\ returned \subseteq Disk \X (1 .. made)

\* The loads in progress are of files, with different objects, none of them
\* finished; the script is at the bottom of the stack.
FramesInv ==
    /\ \A i \in Loads : frames[i].code \in Disk /\ frames[i].module \in (1 .. made) \ loaded
    /\ \A i, j \in Loads : frames[i].module = frames[j].module => i = j
    /\ \A i \in DOMAIN frames : frames[i].code = Entry => i = 1 /\ frames[i].kind = "call"

\* No object is cached for two files.
CacheInjective ==
    \A f, g \in DOMAIN g_module_cache : g_module_cache[f] = g_module_cache[g] => f = g

\* A finished module that require() returned is still what it returns; one that is
\* being loaded was returned for the file that is being loaded.
ReturnedInv ==
    /\ \A r \in returned : r[2] \in loaded =>
           r[1] \in DOMAIN g_module_cache /\ g_module_cache[r[1]] = r[2]
    /\ \A r \in returned, i \in Loads : r[2] = frames[i].module => r[1] = frames[i].code

IInv ==
    /\ CacheType /\ StackType /\ CountersType
    /\ FramesInv /\ CacheInjective /\ CacheMatches /\ DirStackMatches
    /\ ReturnedInv /\ ResolvesFromOwnDir

-----------------------------------------------------------------------------
(* The call stack grows and shrinks                                        *)

LEMMA LoadsRange ==
  ASSUME frames \in Seq(Frame)
  PROVE  Len(frames) \in Nat /\ DOMAIN frames = 1 .. Len(frames) /\ Loads \in SUBSET (1 .. Len(frames))
  BY DEF Loads

LEMMA DepthIsUpto == \A i : Depth(i) = Cardinality(Upto(Loads, i))
  BY DEF Depth, Upto

LEMMA DepthIsUptoNext == \A i : Depth(i)' = Cardinality(Upto(Loads', i))
  BY DEF Depth, Upto

\* The effect on the frames and on which of them are loads.
LEMMA PushFrames ==
  ASSUME frames \in Seq(Frame), NEW STATE fr, fr \in Frame, frames' = Append(frames, fr)
  PROVE  /\ frames' \in Seq(Frame)
         /\ Len(frames') = Len(frames) + 1
         /\ DOMAIN frames' = 1 .. (Len(frames) + 1)
         /\ frames'[Len(frames) + 1] = fr
         /\ \A i \in 1 .. Len(frames) : frames'[i] = frames[i]
         /\ fr.kind = "load" => Loads' = Loads \cup {Len(frames) + 1}
         /\ fr.kind # "load" => Loads' = Loads
  <1> DEFINE n == Len(frames)
  <1>1. n \in Nat /\ DOMAIN frames = 1 .. n
    BY LoadsRange
  <1>2. /\ frames' \in Seq(Frame) /\ Len(frames') = n + 1
        /\ DOMAIN frames' = 1 .. (n + 1)
        /\ frames'[n + 1] = fr
        /\ \A i \in 1 .. n : frames'[i] = frames[i]
    OBVIOUS
  <1>3. Loads' = {i \in DOMAIN frames' : frames'[i].kind = "load"}
    BY DEF Loads
  <1>4. 1 .. (n + 1) = (1 .. n) \cup {n + 1}
    BY <1>1
  <1>5. Loads = {i \in 1 .. n : frames[i].kind = "load"}
    BY <1>1 DEF Loads
  <1> HIDE DEF n
  <1>6. fr.kind = "load" => Loads' = Loads \cup {n + 1}
    BY <1>2, <1>3, <1>4, <1>5
  <1>7. fr.kind # "load" => Loads' = Loads
    BY <1>2, <1>3, <1>4, <1>5
  <1> QED BY <1>2, <1>6, <1>7 DEF n

LEMMA FrontFacts ==
  ASSUME NEW S, NEW s \in Seq(S), Len(s) # 0
  PROVE  /\ Front(s) \in Seq(S) /\ Len(Front(s)) = Len(s) - 1
         /\ \A i \in 1 .. (Len(s) - 1) : Front(s)[i] = s[i]
  <1> DEFINE k == Len(s) - 1
  <1>1. k \in Nat /\ k <= Len(s) /\ Front(s) = SubSeq(s, 1, k)
    BY DEF Front
  <1> HIDE DEF k
  <1>2. SubSeq(s, 1, k) \in Seq(S) /\ Len(SubSeq(s, 1, k)) = k
    BY <1>1
  <1>3. \A i \in 1 .. k : SubSeq(s, 1, k)[i] = s[i]
    BY <1>1
  <1> QED BY <1>1, <1>2, <1>3 DEF k

LEMMA PopFrames ==
  ASSUME frames \in Seq(Frame), frames # <<>>, frames' = Front(frames)
  PROVE  /\ Len(frames) \in Nat \ {0}
         /\ frames' \in Seq(Frame)
         /\ Len(frames') = Len(frames) - 1
         /\ DOMAIN frames' = 1 .. (Len(frames) - 1)
         /\ \A i \in 1 .. (Len(frames) - 1) : frames'[i] = frames[i]
         /\ Loads' = Loads \ {Len(frames)}
         /\ Top = frames[Len(frames)]
         /\ Len(frames) \in Loads <=> Top.kind = "load"
  <1> DEFINE n == Len(frames)
  <1>1. n \in Nat \ {0} /\ DOMAIN frames = 1 .. n
    OBVIOUS
  <1>2. /\ frames' \in Seq(Frame) /\ Len(frames') = n - 1
        /\ DOMAIN frames' = 1 .. (n - 1)
        /\ \A i \in 1 .. (n - 1) : frames'[i] = frames[i]
    <2>1. /\ frames' \in Seq(Frame) /\ Len(frames') = n - 1
          /\ \A i \in 1 .. (n - 1) : frames'[i] = frames[i]
      BY <1>1, FrontFacts
    <2> QED BY <2>1
  <1>3. Loads' = {i \in DOMAIN frames' : frames'[i].kind = "load"}
    BY DEF Loads
  <1>4. 1 .. (n - 1) = (1 .. n) \ {n}
    BY <1>1
  <1>5. Loads = {i \in 1 .. n : frames[i].kind = "load"}
    BY <1>1 DEF Loads
  <1>6. Top = frames[n]
    BY DEF Top, Last
  <1> HIDE DEF n
  <1>7. Loads' = Loads \ {n}
    BY <1>2, <1>3, <1>4, <1>5
  <1>8. n \in Loads <=> Top.kind = "load"
    BY <1>1, <1>5, <1>6
  <1> QED BY <1>1, <1>2, <1>6, <1>7, <1>8 DEF n

\* A load begins: its directory goes onto the stack.
LEMMA DirsPushLoad ==
  ASSUME frames \in Seq(Frame), g_module_dir_stack \in Seq(FileDirs), DirStackMatches,
         NEW STATE fr, fr \in Frame, fr.kind = "load", fr.code[1] \in FileDirs,
         frames' = Append(frames, fr),
         g_module_dir_stack' = Append(g_module_dir_stack, fr.code[1])
  PROVE  DirStackMatches' /\ g_module_dir_stack' \in Seq(FileDirs)
  <1> DEFINE n == Len(frames)
             m == Len(g_module_dir_stack)
  <1>1. n \in Nat /\ Loads \in SUBSET (1 .. n)
    BY LoadsRange
  <1>2. m \in Nat /\ m = Cardinality(Upto(Loads, n))
    BY DepthIsUpto DEF DirStackMatches
  <1>3. /\ Len(frames') = n + 1 /\ Loads' = Loads \cup {n + 1}
        /\ frames'[n + 1] = fr /\ \A i \in 1 .. n : frames'[i] = frames[i]
    BY PushFrames
  <1>4. /\ \A i \in 1 .. n : Upto(Loads', i) = Upto(Loads, i)
        /\ Cardinality(Upto(Loads', n + 1)) = Cardinality(Upto(Loads, n)) + 1
    BY <1>1, <1>3, UptoPush
  <1>5. /\ g_module_dir_stack' \in Seq(FileDirs) /\ Len(g_module_dir_stack') = m + 1
        /\ g_module_dir_stack'[m + 1] = fr.code[1]
        /\ \A i \in 1 .. m : g_module_dir_stack'[i] = g_module_dir_stack[i]
    OBVIOUS
  <1> HIDE DEF n, m
  <1>6. Len(g_module_dir_stack') = Cardinality(Upto(Loads', Len(frames')))
    BY <1>2, <1>3, <1>4, <1>5
  <1>7. ASSUME NEW i \in Loads'
        PROVE  g_module_dir_stack'[Cardinality(Upto(Loads', i))] = frames'[i].code[1]
    <2>1. CASE i = n + 1
      BY <1>2, <1>3, <1>4, <1>5, <2>1
    <2>2. CASE i \in Loads
      <3>1. i \in 1 .. n
        BY <1>1, <2>2
      <3>2. Cardinality(Upto(Loads, i)) \in 1 .. m
        BY <1>1, <1>2, <2>2, UptoBounds
      <3>3. g_module_dir_stack[Cardinality(Upto(Loads, i))] = frames[i].code[1]
        BY <2>2, DepthIsUpto DEF DirStackMatches
      <3> QED BY <1>3, <1>4, <1>5, <3>1, <3>2, <3>3
    <2> QED BY <1>3, <2>1, <2>2
  <1> QED BY <1>5, <1>6, <1>7, DepthIsUptoNext DEF DirStackMatches

\* A load ends, one way or the other: its directory comes off the stack.
LEMMA DirsPopLoad ==
  ASSUME frames \in Seq(Frame), frames # <<>>, g_module_dir_stack \in Seq(FileDirs), DirStackMatches,
         Top.kind = "load", frames' = Front(frames),
         g_module_dir_stack' = Front(g_module_dir_stack)
  PROVE  DirStackMatches' /\ g_module_dir_stack' \in Seq(FileDirs)
  <1> DEFINE n == Len(frames)
             m == Len(g_module_dir_stack)
  <1>1. n \in Nat \ {0} /\ Loads \in SUBSET (1 .. n) /\ n \in Loads
    BY LoadsRange, PopFrames
  <1>2. m \in Nat /\ m = Cardinality(Upto(Loads, n))
    BY DepthIsUpto DEF DirStackMatches
  <1>3. /\ Len(frames') = n - 1 /\ Loads' = Loads \ {n}
        /\ \A i \in 1 .. (n - 1) : frames'[i] = frames[i]
    BY PopFrames
  <1>4. /\ \A i \in 1 .. (n - 1) : Upto(Loads', i) = Upto(Loads, i)
        /\ Cardinality(Upto(Loads', n - 1)) = Cardinality(Upto(Loads, n)) - 1
    BY <1>1, <1>3, UptoPop
  <1>5. m \in Nat \ {0}
    <2> HIDE DEF n, m
    <2>1. Cardinality(Upto(Loads, n)) \in 1 .. Cardinality(Upto(Loads, n))
      BY <1>1, UptoBounds
    <2> QED BY <1>2, <2>1
  <1>6. /\ g_module_dir_stack' \in Seq(FileDirs) /\ Len(g_module_dir_stack') = m - 1
        /\ \A i \in 1 .. (m - 1) : g_module_dir_stack'[i] = g_module_dir_stack[i]
    BY <1>5, FrontFacts
  <1> HIDE DEF n, m
  <1>7. Len(g_module_dir_stack') = Cardinality(Upto(Loads', Len(frames')))
    BY <1>2, <1>3, <1>4, <1>6
  <1>8. ASSUME NEW i \in Loads'
        PROVE  g_module_dir_stack'[Cardinality(Upto(Loads', i))] = frames'[i].code[1]
    <2>1. i \in Loads /\ i \in 1 .. (n - 1) /\ i \in Nat /\ i < n
      BY <1>1, <1>3
    <2>2. Cardinality(Upto(Loads, i)) \in 1 .. m
      BY <1>1, <1>2, <2>1, UptoBounds
    <2>3. Cardinality(Upto(Loads, i)) + 1 <= m
      BY <1>1, <1>2, <2>1, UptoGrows
    <2>4. Cardinality(Upto(Loads, i)) \in 1 .. (m - 1)
      BY <1>2, <2>2, <2>3
    <2>5. g_module_dir_stack[Cardinality(Upto(Loads, i))] = frames[i].code[1]
      BY <2>1, DepthIsUpto DEF DirStackMatches
    <2> QED BY <1>3, <1>4, <1>6, <2>1, <2>4, <2>5
  <1> QED BY <1>6, <1>7, <1>8, DepthIsUptoNext DEF DirStackMatches

\* Any other function is called, or the script.
LEMMA DirsPushCall ==
  ASSUME frames \in Seq(Frame), DirStackMatches,
         NEW STATE fr, fr \in Frame, fr.kind # "load",
         frames' = Append(frames, fr), UNCHANGED g_module_dir_stack
  PROVE  DirStackMatches'
  <1> DEFINE n == Len(frames)
  <1>1. n \in Nat /\ Loads \in SUBSET (1 .. n)
    BY LoadsRange
  <1>2. /\ Len(frames') = n + 1 /\ Loads' = Loads
        /\ \A i \in 1 .. n : frames'[i] = frames[i]
    BY PushFrames
  <1>3. Upto(Loads, n + 1) = Upto(Loads, n)
    BY <1>1, UptoPush
  <1>4. Len(g_module_dir_stack') = Cardinality(Upto(Loads', Len(frames')))
    BY <1>2, <1>3, DepthIsUpto DEF DirStackMatches
  <1>5. ASSUME NEW i \in Loads'
        PROVE  g_module_dir_stack'[Cardinality(Upto(Loads', i))] = frames'[i].code[1]
    BY <1>1, <1>2, DepthIsUpto DEF DirStackMatches
  <1> QED BY <1>4, <1>5, DepthIsUptoNext DEF DirStackMatches

LEMMA DirsPopCall ==
  ASSUME frames \in Seq(Frame), frames # <<>>, DirStackMatches, Top.kind # "load",
         frames' = Front(frames), UNCHANGED g_module_dir_stack
  PROVE  DirStackMatches' /\ Loads' = Loads
  <1> DEFINE n == Len(frames)
  <1>1. n \in Nat \ {0} /\ Loads \in SUBSET (1 .. n) /\ n \notin Loads
    BY LoadsRange, PopFrames
  <1>2. /\ Len(frames') = n - 1 /\ Loads' = Loads
        /\ \A i \in 1 .. (n - 1) : frames'[i] = frames[i]
    BY <1>1, PopFrames
  <1>3. Upto(Loads, n - 1) = Upto(Loads, n)
    BY <1>1, UptoPop
  <1>4. Len(g_module_dir_stack') = Cardinality(Upto(Loads', Len(frames')))
    BY <1>2, <1>3, DepthIsUpto DEF DirStackMatches
  <1>5. ASSUME NEW i \in Loads'
        PROVE  g_module_dir_stack'[Cardinality(Upto(Loads', i))] = frames'[i].code[1]
    <2>1. i \in 1 .. (n - 1)
      BY <1>1, <1>2
    <2> QED BY <1>2, <2>1, DepthIsUpto DEF DirStackMatches
  <1> QED BY <1>2, <1>4, <1>5, DepthIsUptoNext DEF DirStackMatches

-----------------------------------------------------------------------------
(* Resolution                                                              *)

\* NormalizePath() leaves alone what it has made.
LEMMA NormalIdempotent ==
  ASSUME NEW names \in Seq(STRING)
  PROVE  Normal(Normal(names)) = Normal(names)
  <1> DEFINE p == [abs |-> TRUE, names |-> names]
             n == LexicalPath(p)
  <1>1. p \in Path /\ p.abs = TRUE
    BY DEF Path
  <1> HIDE DEF p
  <1>2. n \in Path /\ n.abs = TRUE /\ LexicalPath(n) = n
    BY <1>1, PathNormal
  <1> HIDE DEF n
  <1>3. n = [abs |-> TRUE, names |-> n.names]
    BY <1>2 DEF Path
  <1>4. Normal(names) = n.names /\ Normal(n.names) = LexicalPath(n).names
    BY <1>3 DEF Normal, n, p
  <1> QED BY <1>2, <1>4

LEMMA BaseDirIsBase ==
  ASSUME StackType, frames # <<>>
  PROVE  BaseDir \in Bases
  <1>1. CASE g_module_dir_stack # <<>>
    <2>1. Last(g_module_dir_stack) \in FileDirs
      BY <1>1 DEF StackType, Last
    <2> QED BY <1>1, <2>1 DEF BaseDir, Bases, FileDirs
  <1>2. CASE g_module_dir_stack = <<>>
    BY <1>2 DEF BaseDir, Bases, StackType
  <1> QED BY <1>1, <1>2

\* What is found is a file of the disk, under its own name.
LEMMA FoundOnDisk ==
  ASSUME StackType, frames # <<>>, NEW s \in Specs,
         FileExists(ResolveLocalModulePath(BaseDir, s))
  PROVE  ResolveLocalModulePath(BaseDir, s) \in Disk
  <1> DEFINE N == Normal(BaseDir \o s.to)
             f == ResolveLocalModulePath(BaseDir, s)
  <1>1. Normal(N) = N
    <2>1. BaseDir \in Seq(STRING) /\ s.to \in Seq(STRING)
      BY BaseDirIsBase, DiskAssumption, SpecsAssumption DEF Bases
    <2>2. BaseDir \o s.to \in Seq(STRING)
      BY <2>1
    <2> QED
      BY <2>2, NormalIdempotent
  <1>2. f = <<N, s.stem, s.ext>> \/ f = <<N, s.stem, "js">>
    BY DEF ResolveLocalModulePath, NormalizePath
  <1>3. <<Normal(f[1]), f[2], f[3]>> \in Disk
    BY DEF FileExists
  <1> HIDE DEF N, f
  <1>4. f \in Disk
    BY <1>1, <1>2, <1>3
  <1> QED BY <1>4 DEF f

\* The script and the body of a module resolve in their own directories.
LEMMA BaseIsOwn ==
  ASSUME StackType, FramesInv, DirStackMatches, Running,
         Top.kind = "load" \/ Top.code = Entry
  PROVE  OwnDir(Top) = BaseDir
  <1> DEFINE n == Len(frames)
  <1>1. /\ frames \in Seq(Frame) /\ g_module_dir_stack \in Seq(FileDirs)
        /\ n \in Nat \ {0} /\ DOMAIN frames = 1 .. n /\ Top = frames[n]
    BY DEF StackType, Running, Top, Last
  <1>2. Loads \in SUBSET (1 .. n)
    BY <1>1, LoadsRange
  <1>3. Len(g_module_dir_stack) = Cardinality(Upto(Loads, n))
    BY DepthIsUpto DEF DirStackMatches
  <1> HIDE DEF n
  <1>4. CASE Top.kind = "load"
    <2>1. n \in Loads
      BY <1>1, <1>4 DEF Loads
    <2>2. Top.code \in Disk /\ Top.code # Entry
      BY <1>1, <2>1, DiskAssumption DEF FramesInv
    <2>3. g_module_dir_stack[Cardinality(Upto(Loads, n))] = Top.code[1]
      BY <1>1, <2>1, DepthIsUpto DEF DirStackMatches
    <2>4. Cardinality(Upto(Loads, n)) \in 1 .. Cardinality(Upto(Loads, n))
      BY <1>1, <1>2, <2>1, UptoBounds
    <2>5. g_module_dir_stack # <<>>
      BY <1>1, <1>3, <2>4
    <2>6. BaseDir = Top.code[1]
      BY <1>3, <2>3, <2>5 DEF BaseDir, Last
    <2> QED BY <2>2, <2>6 DEF OwnDir
  <1>5. CASE Top.code = Entry
    <2>1. n = 1 /\ Top.kind = "call"
      BY <1>1, <1>5 DEF FramesInv
    <2>2. Loads = {}
      <3>1. ASSUME NEW i \in Loads PROVE FALSE
        <4>1. i = 1 /\ frames[i].kind = "load"
          BY <1>2, <2>1 DEF Loads
        <4> QED BY <1>1, <2>1, <4>1
      <3> QED BY <3>1
    <2>3. Upto(Loads, n) = {}
      BY <2>2 DEF Upto
    <2>4. Len(g_module_dir_stack) = 0
      BY <1>3, <2>3, FS_EmptySet
    <2>5. g_module_dir_stack = <<>>
      BY <1>1, <2>4
    <2> QED BY <1>5, <2>5 DEF OwnDir, BaseDir
  <1> QED BY <1>4, <1>5

LEMMA ResolvingOwn ==
  ASSUME StackType, FramesInv, DirStackMatches, Resolving
  PROVE  ResolvesFromOwnDir'
  <1>1. Running /\ resolution' = <<Top, OwnDir(Top), BaseDir>>
    BY DEF Resolving
  <1>2. Top.kind = "load" \/ Top.code = Entry => OwnDir(Top) = BaseDir
    BY <1>1, BaseIsOwn
  <1>3. /\ resolution'[1] = Top /\ resolution'[2] = OwnDir(Top) /\ resolution'[3] = BaseDir
    BY <1>1
  <1> QED BY <1>2, <1>3 DEF ResolvesFromOwnDir

-----------------------------------------------------------------------------
(* The steps                                                               *)

\* A step that leaves the frames, the stack and the cache alone: a require that
\* runs nothing, a throw, a catch.
LEMMA StepKeeps ==
  ASSUME IInv, UNCHANGED <<g_module_cache, g_module_dir_stack, frames, loaded, g_entry_dir>>,
         throwing' \in BOOLEAN,
         requires' \in 0 .. MaxRequires, made' \in 0 .. requires', made' \in {made, made + 1},
         \A r \in returned' : r \in returned \/ \E f \in DOMAIN g_module_cache : r = <<f, g_module_cache[f]>>,
         returned' # {} => frames # <<>> \/ returned # {},
         ResolvesFromOwnDir'
  PROVE  IInv'
  <1>1. Loads' = Loads /\ Loads \subseteq DOMAIN frames
    BY DEF Loads
  <1>2. made \in Nat /\ 1 .. made \subseteq 1 .. made'
    BY DEF IInv, CountersType
  <1>3. CacheType'
    BY <1>2 DEF IInv, CacheType
  <1>4. StackType'
    BY DEF IInv, StackType
  <1>5. returned' \subseteq Disk \X (1 .. made')
    <2> SUFFICES ASSUME NEW r \in returned' PROVE r \in Disk \X (1 .. made')
      OBVIOUS
    <2>1. CASE r \in returned
      BY <1>2, <2>1 DEF IInv, CountersType
    <2>2. CASE \E f \in DOMAIN g_module_cache : r = <<f, g_module_cache[f]>>
      BY <1>2, <2>2 DEF IInv, CacheType
    <2> QED BY <2>1, <2>2
  <1>6. CountersType'
    BY <1>2, <1>5 DEF IInv, CountersType
  <1>7. FramesInv'
    <2>1. \A i \in Loads : frames[i].code \in Disk /\ frames[i].module \in (1 .. made') \ loaded
      BY <1>2 DEF IInv, FramesInv
    <2> QED BY <1>1, <2>1 DEF IInv, FramesInv
  <1>8. CacheInjective' /\ CacheMatches'
    BY <1>1 DEF IInv, CacheInjective, CacheMatches
  <1>9. DirStackMatches'
    BY <1>1 DEF IInv, DirStackMatches, Depth
  <1>10. ReturnedInv'
    <2>1. ASSUME NEW r \in returned', r[2] \in loaded
          PROVE  r[1] \in DOMAIN g_module_cache /\ g_module_cache[r[1]] = r[2]
      BY <2>1 DEF IInv, ReturnedInv
    <2>2. ASSUME NEW r \in returned', NEW i \in Loads, r[2] = frames[i].module
          PROVE  r[1] = frames[i].code
      <3>1. CASE r \in returned
        BY <2>2, <3>1 DEF IInv, ReturnedInv
      <3>2. ASSUME NEW f \in DOMAIN g_module_cache, r = <<f, g_module_cache[f]>>
            PROVE  r[1] = frames[i].code
        BY <2>2, <3>2 DEF IInv, CacheMatches, CacheInjective
      <3> QED BY <3>1, <3>2
    <2> QED BY <1>1, <2>1, <2>2 DEF ReturnedInv
  <1> QED BY <1>3, <1>4, <1>6, <1>7, <1>8, <1>9, <1>10 DEF IInv

\* A load begins.
LEMMA StepRequireLoad ==
  ASSUME IInv, NEW s \in Specs, RequireLoad(s)
  PROVE  IInv'
  <1> DEFINE f == ResolveLocalModulePath(BaseDir, s)
             fr == [code |-> f, kind |-> "load", module |-> made + 1]
             n == Len(frames)
  <1>1. /\ Running /\ requires < MaxRequires /\ requires' = requires + 1 /\ UNCHANGED g_entry_dir
        /\ Len(frames) < MaxDepth
        /\ FileExists(f) /\ f \notin DOMAIN g_module_cache
        /\ g_module_cache' = [g \in DOMAIN g_module_cache \cup {f} |->
                                 IF g = f THEN made + 1 ELSE g_module_cache[g]]
        /\ frames' = Append(frames, fr)
        /\ g_module_dir_stack' = Append(g_module_dir_stack, f[1])
        /\ made' = made + 1
        /\ UNCHANGED <<throwing, loaded, returned>>
    BY DEF RequireLoad, Resolving
  <1>2. /\ CacheType /\ StackType /\ CountersType /\ FramesInv /\ CacheInjective /\ CacheMatches
        /\ DirStackMatches /\ ReturnedInv
    BY DEF IInv
  <1>3. f \in Disk /\ f[1] \in FileDirs
    <2>1. f \in Disk
      BY <1>1, <1>2, FoundOnDisk DEF Running
    <2> QED BY <2>1 DEF FileDirs
  <1>4. made \in Nat /\ made <= requires /\ requires \in Nat /\ MaxRequires \in Nat /\ made + 1 \in 0 .. MaxRequires
    BY <1>1, <1>2, BoundsAssumption DEF CountersType
  <1>5. fr \in Frame /\ fr.kind = "load" /\ fr.code = f /\ fr.module = made + 1
    BY <1>3, <1>4 DEF Frame
  <1>6. ResolvesFromOwnDir'
    BY <1>2, ResolvingOwn DEF RequireLoad
  <1>7. frames \in Seq(Frame) /\ g_module_dir_stack \in Seq(FileDirs)
    BY <1>2 DEF StackType
  <1> HIDE DEF f, fr
  <1>8. n \in Nat /\ Loads \in SUBSET (1 .. n) /\ DOMAIN frames = 1 .. n
    BY <1>7, LoadsRange
  <1>9. /\ frames' \in Seq(Frame) /\ Len(frames') = n + 1 /\ DOMAIN frames' = 1 .. (n + 1)
        /\ frames'[n + 1] = fr /\ \A i \in 1 .. n : frames'[i] = frames[i]
        /\ Loads' = Loads \cup {n + 1}
    BY <1>1, <1>5, <1>7, PushFrames
  <1>10. DirStackMatches' /\ g_module_dir_stack' \in Seq(FileDirs)
    BY <1>1, <1>2, <1>3, <1>5, <1>7, DirsPushLoad
  <1> HIDE DEF n
  <1>11. \A i \in Loads : i \in 1 .. n /\ frames'[i] = frames[i]
    BY <1>8, <1>9
  <1>12. 1 .. made' = (1 .. made) \cup {made + 1} /\ made + 1 \notin 1 .. made
    BY <1>1, <1>4
  <1>13. CacheType'
    <2>1. DOMAIN g_module_cache' = DOMAIN g_module_cache \cup {f}
      BY <1>1
    <2>2. g_module_cache' \in [DOMAIN g_module_cache' -> 1 .. made']
      BY <1>1, <1>2, <1>12, <2>1 DEF CacheType
    <2> QED BY <1>2, <1>3, <2>1, <2>2 DEF CacheType
  <1>14. StackType'
    <2>1. Len(frames') <= MaxDepth
      BY <1>1, <1>8, <1>9, BoundsAssumption DEF n
    <2>2. g_entry_dir' \in Dirs
      BY <1>1, <1>2 DEF StackType, Running
    <2> QED BY <1>9, <1>10, <2>1, <2>2 DEF StackType
  <1>15. CountersType'
    <2>1. requires' \in 0 .. MaxRequires /\ made' \in 0 .. requires'
      BY <1>1, <1>4
    <2> QED BY <1>1, <1>2, <1>12, <2>1 DEF CountersType
  <1>16. FramesInv'
    <2>1. ASSUME NEW i \in Loads'
          PROVE  frames'[i].code \in Disk /\ frames'[i].module \in (1 .. made') \ loaded'
      <3>1. CASE i = n + 1
        BY <1>1, <1>2, <1>3, <1>5, <1>9, <1>12, <3>1 DEF CountersType
      <3>2. CASE i \in Loads
        BY <1>1, <1>2, <1>11, <1>12, <3>2 DEF FramesInv
      <3> QED BY <1>9, <3>1, <3>2
    <2>2. ASSUME NEW i \in Loads', NEW j \in Loads', frames'[i].module = frames'[j].module
          PROVE  i = j
      <3>1. \A k \in Loads : frames'[k].module # made + 1
        BY <1>2, <1>11, <1>12 DEF FramesInv
      <3>2. frames'[n + 1].module = made + 1
        BY <1>5, <1>9
      <3>3. \A k, l \in Loads : frames'[k].module = frames'[l].module => k = l
        BY <1>2, <1>11 DEF FramesInv
      <3> QED BY <1>9, <2>2, <3>1, <3>2, <3>3
    <2>3. ASSUME NEW i \in DOMAIN frames', frames'[i].code = Entry
          PROVE  i = 1 /\ frames'[i].kind = "call"
      <3>1. i # n + 1
        BY <1>3, <1>5, <1>9, <2>3, DiskAssumption
      <3>2. i \in 1 .. n
        BY <1>8, <1>9, <3>1
      <3> QED BY <1>2, <1>8, <1>9, <2>3, <3>2 DEF FramesInv
    <2> QED BY <2>1, <2>2, <2>3 DEF FramesInv
  <1>17. CacheInjective'
    <2>1. \A g \in DOMAIN g_module_cache : g_module_cache[g] # made + 1
      BY <1>2, <1>12 DEF CacheType
    <2> QED BY <1>1, <1>2, <2>1 DEF CacheInjective
  <1>18. CacheMatches'
    <2>1. g_module_cache'[f] = made + 1
          /\ \A g \in DOMAIN g_module_cache : g \in DOMAIN g_module_cache' /\ g_module_cache'[g] = g_module_cache[g]
      BY <1>1
    <2>2. ASSUME NEW i \in Loads'
          PROVE  /\ frames'[i].code \in DOMAIN g_module_cache'
                 /\ g_module_cache'[frames'[i].code] = frames'[i].module
      <3>1. CASE i = n + 1
        BY <1>1, <1>5, <1>9, <2>1, <3>1
      <3>2. CASE i \in Loads
        BY <1>2, <1>11, <2>1, <3>2 DEF CacheMatches
      <3> QED BY <1>9, <3>1, <3>2
    <2>3. ASSUME NEW g \in DOMAIN g_module_cache'
          PROVE  g_module_cache'[g] \in loaded' \/ \E i \in Loads' : frames'[i].module = g_module_cache'[g]
      <3>1. CASE g = f
        BY <1>5, <1>9, <2>1, <3>1
      <3>2. CASE g # f
        <4>1. g \in DOMAIN g_module_cache
          BY <1>1, <3>2
        <4>2. g_module_cache[g] \in loaded \/ \E i \in Loads : frames[i].module = g_module_cache[g]
          BY <1>2, <4>1 DEF CacheMatches
        <4> QED BY <1>1, <1>9, <1>11, <2>1, <4>1, <4>2
      <3> QED BY <3>1, <3>2
    <2> QED BY <2>2, <2>3 DEF CacheMatches
  <1>19. ReturnedInv'
    <2>1. ASSUME NEW r \in returned', r[2] \in loaded'
          PROVE  r[1] \in DOMAIN g_module_cache' /\ g_module_cache'[r[1]] = r[2]
      <3>1. r[1] \in DOMAIN g_module_cache /\ g_module_cache[r[1]] = r[2]
        BY <1>1, <1>2, <2>1 DEF ReturnedInv
      <3> QED BY <1>1, <3>1
    <2>2. ASSUME NEW r \in returned', NEW i \in Loads', r[2] = frames'[i].module
          PROVE  r[1] = frames'[i].code
      <3>1. r \in returned /\ r[2] # made + 1
        BY <1>1, <1>2, <1>12 DEF CountersType
      <3>2. i \in Loads
        BY <1>5, <1>9, <2>2, <3>1
      <3> QED BY <1>2, <1>11, <2>2, <3>1, <3>2 DEF ReturnedInv
    <2> QED BY <2>1, <2>2 DEF ReturnedInv
  <1> QED BY <1>6, <1>10, <1>13, <1>14, <1>15, <1>16, <1>17, <1>18, <1>19 DEF IInv

\* What is common to the two ends of a load: the frame and its directory go.
LEMMA PopLoad ==
  ASSUME IInv, frames # <<>>, Top.kind = "load", frames' = Front(frames),
         g_module_dir_stack' = Front(g_module_dir_stack), UNCHANGED <<g_entry_dir>>
  PROVE  /\ StackType' /\ DirStackMatches'
         /\ Len(frames) \in Loads /\ Top = frames[Len(frames)]
         /\ Loads' = Loads \ {Len(frames)}
         /\ \A i \in Loads' : frames'[i] = frames[i]
         /\ \A i \in DOMAIN frames' : i \in DOMAIN frames /\ frames'[i] = frames[i]
  <1> DEFINE n == Len(frames)
  <1>1. /\ frames \in Seq(Frame) /\ g_module_dir_stack \in Seq(FileDirs) /\ DirStackMatches
        /\ n <= MaxDepth /\ g_entry_dir \in Dirs
    BY DEF IInv, StackType
  <1>2. /\ n \in Nat \ {0} /\ frames' \in Seq(Frame) /\ Len(frames') = n - 1
        /\ DOMAIN frames' = 1 .. (n - 1) /\ \A i \in 1 .. (n - 1) : frames'[i] = frames[i]
        /\ Loads' = Loads \ {n} /\ Top = frames[n] /\ n \in Loads
    BY <1>1, PopFrames
  <1>3. DOMAIN frames = 1 .. n /\ Loads \in SUBSET (1 .. n)
    BY <1>1, LoadsRange
  <1>4. DirStackMatches' /\ g_module_dir_stack' \in Seq(FileDirs)
    BY <1>1, DirsPopLoad
  <1> HIDE DEF n
  <1>5. Len(frames') <= MaxDepth
    BY <1>1, <1>2, BoundsAssumption
  <1>6. StackType'
    BY <1>1, <1>2, <1>4, <1>5 DEF StackType
  <1>7. \A i \in Loads' : i \in 1 .. (n - 1)
    BY <1>2, <1>3
  <1>8. \A i \in DOMAIN frames' : i \in DOMAIN frames
    BY <1>2, <1>3
  <1> QED BY <1>2, <1>4, <1>6, <1>7, <1>8 DEF n

\* A load ends well.
LEMMA StepLoadReturns ==
  ASSUME IInv, LoadReturns
  PROVE  IInv'
  <1> DEFINE n == Len(frames)
  <1>1. /\ frames # <<>> /\ Top.kind = "load" /\ frames' = Front(frames)
        /\ g_module_dir_stack' = Front(g_module_dir_stack)
        /\ loaded' = loaded \cup {Top.module}
        /\ returned' = returned \cup {<<Top.code, Top.module>>}
        /\ UNCHANGED <<g_module_cache, g_entry_dir, throwing, made, requires, resolution>>
    BY DEF LoadReturns, Running
  <1>2. /\ CacheType /\ CountersType /\ FramesInv /\ CacheInjective /\ CacheMatches
        /\ ReturnedInv /\ ResolvesFromOwnDir
    BY DEF IInv
  <1>3. /\ StackType' /\ DirStackMatches' /\ n \in Loads /\ Top = frames[n]
        /\ Loads' = Loads \ {n} /\ \A i \in Loads' : frames'[i] = frames[i]
        /\ \A i \in DOMAIN frames' : i \in DOMAIN frames /\ frames'[i] = frames[i]
    BY <1>1, PopLoad
  <1> HIDE DEF n
  <1>4. Top.code \in Disk /\ Top.module \in (1 .. made) \ loaded
    BY <1>2, <1>3 DEF FramesInv
  <1>5. Top.code \in DOMAIN g_module_cache /\ g_module_cache[Top.code] = Top.module
    BY <1>2, <1>3 DEF CacheMatches
  <1>6. \A i \in Loads' : i \in Loads /\ frames[i].module # Top.module
    BY <1>2, <1>3 DEF FramesInv
  <1>7. CacheType' /\ CacheInjective'
    BY <1>1, <1>2 DEF CacheType, CacheInjective
  <1>8. CountersType'
    <2>1. <<Top.code, Top.module>> \in Disk \X (1 .. made)
      BY <1>4
    <2> QED BY <1>1, <1>2, <1>4, <2>1 DEF CountersType
  <1>9. FramesInv'
    <2>1. \A i \in Loads' : frames'[i].code \in Disk /\ frames'[i].module \in (1 .. made') \ loaded'
      BY <1>1, <1>2, <1>3, <1>6 DEF FramesInv
    <2>2. \A i, j \in Loads' : frames'[i].module = frames'[j].module => i = j
      BY <1>2, <1>3, <1>6 DEF FramesInv
    <2>3. \A i \in DOMAIN frames' : frames'[i].code = Entry => i = 1 /\ frames'[i].kind = "call"
      BY <1>2, <1>3 DEF FramesInv
    <2> QED BY <2>1, <2>2, <2>3 DEF FramesInv
  <1>10. CacheMatches'
    <2>1. \A i \in Loads' : /\ frames'[i].code \in DOMAIN g_module_cache'
                            /\ g_module_cache'[frames'[i].code] = frames'[i].module
      BY <1>1, <1>2, <1>3, <1>6 DEF CacheMatches
    <2>2. ASSUME NEW f \in DOMAIN g_module_cache'
          PROVE  g_module_cache'[f] \in loaded' \/ \E i \in Loads' : frames'[i].module = g_module_cache'[f]
      <3>1. g_module_cache[f] \in loaded \/ \E i \in Loads : frames[i].module = g_module_cache[f]
        BY <1>1, <1>2 DEF CacheMatches
      <3> QED BY <1>1, <1>3, <3>1
    <2> QED BY <2>1, <2>2 DEF CacheMatches
  <1>11. ReturnedInv'
    <2>1. ASSUME NEW r \in returned', r[2] \in loaded'
          PROVE  r[1] \in DOMAIN g_module_cache' /\ g_module_cache'[r[1]] = r[2]
      <3>1. CASE r = <<Top.code, Top.module>>
        BY <1>1, <1>5, <3>1
      <3>2. CASE r \in returned /\ r[2] = Top.module
        <4>1. r[1] = Top.code
          BY <1>2, <1>3, <3>2 DEF ReturnedInv
        <4> QED BY <1>1, <1>5, <3>2, <4>1
      <3>3. CASE r \in returned /\ r[2] \in loaded
        BY <1>1, <1>2, <3>3 DEF ReturnedInv
      <3> QED BY <1>1, <2>1, <3>1, <3>2, <3>3
    <2>2. ASSUME NEW r \in returned', NEW i \in Loads', r[2] = frames'[i].module
          PROVE  r[1] = frames'[i].code
      <3>1. r # <<Top.code, Top.module>>
        BY <1>3, <1>6, <2>2
      <3>2. r \in returned
        BY <1>1, <3>1
      <3> QED BY <1>2, <1>3, <1>6, <2>2, <3>2 DEF ReturnedInv
    <2> QED BY <2>1, <2>2 DEF ReturnedInv
  <1>12. ResolvesFromOwnDir'
    BY <1>1, <1>2 DEF ResolvesFromOwnDir
  <1> QED BY <1>3, <1>7, <1>8, <1>9, <1>10, <1>11, <1>12 DEF IInv

\* A load fails: its entry is erased, and no other.
LEMMA StepLoadFails ==
  ASSUME IInv, LoadThrows \/ ExportsThrow
  PROVE  IInv'
  <1> DEFINE n == Len(frames)
  <1>1. /\ frames # <<>> /\ Top.kind = "load" /\ frames' = Front(frames)
        /\ g_module_dir_stack' = Front(g_module_dir_stack)
        /\ g_module_cache' = Restrict(g_module_cache, DOMAIN g_module_cache \ {Top.code})
        /\ UNCHANGED <<g_entry_dir, made, requires, loaded, returned, resolution>>
    BY DEF LoadThrows, ExportsThrow, Running
  <1>2. /\ CacheType /\ CountersType /\ FramesInv /\ CacheInjective /\ CacheMatches
        /\ ReturnedInv /\ ResolvesFromOwnDir
    BY DEF IInv
  <1>3. /\ StackType' /\ DirStackMatches' /\ n \in Loads /\ Top = frames[n]
        /\ Loads' = Loads \ {n} /\ \A i \in Loads' : frames'[i] = frames[i]
        /\ \A i \in DOMAIN frames' : i \in DOMAIN frames /\ frames'[i] = frames[i]
    BY <1>1, PopLoad
  <1>4. throwing' \in BOOLEAN
    BY <1>2 DEF LoadThrows, ExportsThrow, CountersType
  <1> HIDE DEF n
  <1>5. Top.module \in (1 .. made) \ loaded
    BY <1>2, <1>3 DEF FramesInv
  <1>6. Top.code \in DOMAIN g_module_cache /\ g_module_cache[Top.code] = Top.module
    BY <1>2, <1>3 DEF CacheMatches
  <1>7. \A i \in Loads' : i \in Loads /\ frames[i].module # Top.module
    BY <1>2, <1>3 DEF FramesInv
  <1>8. /\ DOMAIN g_module_cache' = DOMAIN g_module_cache \ {Top.code}
        /\ \A f \in DOMAIN g_module_cache' : g_module_cache'[f] = g_module_cache[f]
    BY <1>1 DEF Restrict
  <1>9. CacheType'
    <2>1. g_module_cache' \in [DOMAIN g_module_cache' -> 1 .. made']
      BY <1>1, <1>2, <1>8 DEF CacheType, Restrict
    <2> QED BY <1>2, <1>8, <2>1 DEF CacheType
  <1>10. CacheInjective'
    BY <1>2, <1>8 DEF CacheInjective
  <1>11. CountersType'
    BY <1>1, <1>2, <1>4 DEF CountersType
  <1>12. FramesInv'
    <2>1. \A i \in Loads' : frames'[i].code \in Disk /\ frames'[i].module \in (1 .. made') \ loaded'
      BY <1>1, <1>2, <1>3, <1>7 DEF FramesInv
    <2>2. \A i, j \in Loads' : frames'[i].module = frames'[j].module => i = j
      BY <1>2, <1>3, <1>7 DEF FramesInv
    <2>3. \A i \in DOMAIN frames' : frames'[i].code = Entry => i = 1 /\ frames'[i].kind = "call"
      BY <1>2, <1>3 DEF FramesInv
    <2> QED BY <2>1, <2>2, <2>3 DEF FramesInv
  <1>13. CacheMatches'
    <2>1. ASSUME NEW i \in Loads'
          PROVE  /\ frames'[i].code \in DOMAIN g_module_cache'
                 /\ g_module_cache'[frames'[i].code] = frames'[i].module
      <3>1. frames[i].code \in DOMAIN g_module_cache /\ g_module_cache[frames[i].code] = frames[i].module
        BY <1>2, <1>7 DEF CacheMatches
      <3>2. frames[i].code # Top.code
        BY <1>6, <1>7, <3>1
      <3> QED BY <1>3, <1>8, <3>1, <3>2
    <2>2. ASSUME NEW f \in DOMAIN g_module_cache'
          PROVE  g_module_cache'[f] \in loaded' \/ \E i \in Loads' : frames'[i].module = g_module_cache'[f]
      <3>1. f \in DOMAIN g_module_cache /\ f # Top.code /\ g_module_cache'[f] = g_module_cache[f]
        BY <1>8
      <3>2. g_module_cache[f] # Top.module
        BY <1>2, <1>6, <3>1 DEF CacheInjective
      <3>3. g_module_cache[f] \in loaded \/ \E i \in Loads : frames[i].module = g_module_cache[f]
        BY <1>2, <3>1 DEF CacheMatches
      <3> QED BY <1>1, <1>3, <3>1, <3>2, <3>3
    <2> QED BY <2>1, <2>2 DEF CacheMatches
  <1>14. ReturnedInv'
    <2>1. ASSUME NEW r \in returned', r[2] \in loaded'
          PROVE  r[1] \in DOMAIN g_module_cache' /\ g_module_cache'[r[1]] = r[2]
      <3>1. r[1] \in DOMAIN g_module_cache /\ g_module_cache[r[1]] = r[2]
        BY <1>1, <1>2, <2>1 DEF ReturnedInv
      <3>2. r[1] # Top.code
        BY <1>1, <1>5, <1>6, <2>1, <3>1
      <3> QED BY <1>8, <3>1, <3>2
    <2>2. ASSUME NEW r \in returned', NEW i \in Loads', r[2] = frames'[i].module
          PROVE  r[1] = frames'[i].code
      BY <1>1, <1>2, <1>3, <1>7, <2>2 DEF ReturnedInv
    <2> QED BY <2>1, <2>2 DEF ReturnedInv
  <1>15. ResolvesFromOwnDir'
    BY <1>1, <1>2 DEF ResolvesFromOwnDir
  <1> QED BY <1>3, <1>9, <1>10, <1>11, <1>12, <1>13, <1>14, <1>15 DEF IInv

\* The script or a function of a module is called.
LEMMA StepPushCall ==
  ASSUME IInv, NEW STATE fr, fr \in Frame, fr.kind = "call", fr.code = Entry => frames = <<>>,
         Len(frames) < MaxDepth, frames' = Append(frames, fr), g_entry_dir' \in Dirs,
         UNCHANGED <<g_module_cache, g_module_dir_stack, throwing, made, requires, loaded,
                     returned, resolution>>
  PROVE  IInv'
  <1> DEFINE n == Len(frames)
  <1>1. /\ CacheType /\ CountersType /\ FramesInv /\ CacheInjective /\ CacheMatches
        /\ DirStackMatches /\ ReturnedInv /\ ResolvesFromOwnDir
        /\ frames \in Seq(Frame) /\ g_module_dir_stack \in Seq(FileDirs)
    BY DEF IInv, StackType
  <1>2. n \in Nat /\ Loads \in SUBSET (1 .. n) /\ DOMAIN frames = 1 .. n
    BY <1>1, LoadsRange
  <1>3. /\ frames' \in Seq(Frame) /\ Len(frames') = n + 1 /\ DOMAIN frames' = 1 .. (n + 1)
        /\ frames'[n + 1] = fr /\ \A i \in 1 .. n : frames'[i] = frames[i]
        /\ Loads' = Loads
    BY <1>1, PushFrames
  <1>4. DirStackMatches'
    BY <1>1, DirsPushCall
  <1>5. frames = <<>> => n = 0
    OBVIOUS
  <1>6. Len(frames') <= MaxDepth
    BY <1>2, <1>3, BoundsAssumption
  <1> HIDE DEF n
  <1>7. \A i \in Loads : i \in 1 .. n /\ frames'[i] = frames[i]
    BY <1>2, <1>3
  <1>8. StackType'
    BY <1>1, <1>3, <1>6 DEF StackType
  <1>9. CacheType' /\ CacheInjective' /\ CountersType' /\ ResolvesFromOwnDir'
    BY <1>1 DEF CacheType, CacheInjective, CountersType, ResolvesFromOwnDir
  <1>10. FramesInv'
    <2>1. \A i \in Loads' : frames'[i].code \in Disk /\ frames'[i].module \in (1 .. made') \ loaded'
      BY <1>1, <1>3, <1>7 DEF FramesInv
    <2>2. ASSUME NEW i \in Loads, NEW j \in Loads, frames'[i].module = frames'[j].module PROVE i = j
      BY <1>1, <1>7, <2>2 DEF FramesInv
    <2>3. ASSUME NEW i \in DOMAIN frames', frames'[i].code = Entry
          PROVE  i = 1 /\ frames'[i].kind = "call"
      <3>1. CASE i = n + 1
        BY <1>3, <1>5, <2>3, <3>1
      <3>2. CASE i # n + 1
        <4>1. i \in 1 .. n
          BY <1>2, <1>3, <3>2
        <4> QED BY <1>1, <1>2, <1>3, <2>3, <4>1 DEF FramesInv
      <3> QED BY <3>1, <3>2
    <2> QED BY <1>3, <2>1, <2>2, <2>3 DEF FramesInv
  <1>11. CacheMatches'
    <2>1. ASSUME NEW i \in Loads PROVE frames'[i] = frames[i]
      BY <1>7
    <2>2. CacheMatches /\ Loads' = Loads /\ g_module_cache' = g_module_cache /\ loaded' = loaded
      BY <1>1, <1>3
    <2>3. \A i \in Loads' : /\ frames'[i].code \in DOMAIN g_module_cache'
                            /\ g_module_cache'[frames'[i].code] = frames'[i].module
      BY <2>1, <2>2 DEF CacheMatches
    <2>4. ASSUME NEW f \in DOMAIN g_module_cache'
          PROVE  g_module_cache'[f] \in loaded' \/ \E i \in Loads' : frames'[i].module = g_module_cache'[f]
      BY <2>1, <2>2 DEF CacheMatches
    <2> QED BY <2>3, <2>4 DEF CacheMatches
  <1>12. ReturnedInv'
    <2>1. ASSUME NEW i \in Loads PROVE frames'[i] = frames[i]
      BY <1>7
    <2>2. /\ ReturnedInv /\ Loads' = Loads
          /\ UNCHANGED <<g_module_cache, loaded, returned>>
      BY <1>1, <1>3
    <2>3. \A r \in returned', i \in Loads' : r[2] = frames'[i].module => r[1] = frames'[i].code
      BY <2>1, <2>2 DEF ReturnedInv
    <2> QED BY <2>2, <2>3 DEF ReturnedInv
  <1> QED BY <1>4, <1>8, <1>9, <1>10, <1>11, <1>12 DEF IInv

LEMMA StepRunScript ==
  ASSUME IInv, NEW d \in Dirs, RunScript(d)
  PROVE  IInv'
  <1> DEFINE fr == [code |-> Entry, kind |-> "call", module |-> 0]
  <1>1. fr \in Frame /\ fr.kind = "call"
    BY BoundsAssumption DEF Frame
  <1>2. frames = <<>> /\ frames' = Append(frames, fr) /\ g_entry_dir' \in Dirs
    BY DEF RunScript
  <1>3. Len(frames) < MaxDepth
    BY <1>2, BoundsAssumption
  <1>4. UNCHANGED <<g_module_cache, g_module_dir_stack, throwing, made, requires, loaded, returned, resolution>>
    BY DEF RunScript
  <1> HIDE DEF fr
  <1> QED BY <1>1, <1>2, <1>3, <1>4, StepPushCall

LEMMA StepCallFunction ==
  ASSUME IInv, NEW r \in returned, CallFunction(r[1], r[2])
  PROVE  IInv'
  <1> DEFINE fr == [code |-> r[1], kind |-> "call", module |-> r[2]]
  <1>1. r \in Disk \X (1 .. made) /\ made \in 0 .. requires /\ requires \in 0 .. MaxRequires
    BY DEF IInv, CountersType
  <1>2. r[1] \in Disk /\ r[1] # Entry
    BY <1>1, DiskAssumption
  <1>3. r[2] \in 0 .. MaxRequires
    BY <1>1, BoundsAssumption
  <1>4. fr \in Frame /\ fr.kind = "call" /\ fr.code # Entry
    BY <1>2, <1>3 DEF Frame
  <1>5. g_entry_dir' \in Dirs
    BY DEF CallFunction, IInv, StackType
  <1>6. /\ Len(frames) < MaxDepth /\ frames' = Append(frames, fr)
        /\ UNCHANGED <<g_module_cache, g_module_dir_stack, throwing, made, requires, loaded, returned, resolution>>
    BY DEF CallFunction
  <1> HIDE DEF fr
  <1> QED BY <1>4, <1>5, <1>6, StepPushCall

\* It returns, or an exception passes through it.
LEMMA StepPopCall ==
  ASSUME IInv, FunctionReturns \/ FunctionThrows
  PROVE  IInv'
  <1> DEFINE n == Len(frames)
  <1>1. /\ frames # <<>> /\ Top.kind # "load" /\ frames' = Front(frames)
        /\ UNCHANGED <<g_module_cache, g_module_dir_stack, g_entry_dir, throwing, made, requires,
                       loaded, returned, resolution>>
    BY DEF FunctionReturns, FunctionThrows, Running
  <1>2. /\ CacheType /\ CountersType /\ FramesInv /\ CacheInjective /\ CacheMatches
        /\ DirStackMatches /\ ReturnedInv /\ ResolvesFromOwnDir
        /\ frames \in Seq(Frame) /\ g_module_dir_stack \in Seq(FileDirs)
        /\ n <= MaxDepth /\ g_entry_dir \in Dirs
    BY <1>1 DEF IInv, StackType
  <1>3. /\ n \in Nat \ {0} /\ frames' \in Seq(Frame) /\ Len(frames') = n - 1
        /\ DOMAIN frames' = 1 .. (n - 1) /\ \A i \in 1 .. (n - 1) : frames'[i] = frames[i]
        /\ Loads' = Loads \ {n} /\ Top = frames[n] /\ n \notin Loads
    BY <1>1, <1>2, PopFrames
  <1>4. DOMAIN frames = 1 .. n /\ Loads \in SUBSET (1 .. n)
    BY <1>2, LoadsRange
  <1>5. DirStackMatches' /\ Loads' = Loads
    BY <1>1, <1>2, DirsPopCall
  <1>6. Len(frames') <= MaxDepth
    BY <1>2, <1>3, BoundsAssumption
  <1> HIDE DEF n
  <1>7. \A i \in Loads : i \in 1 .. (n - 1) /\ frames'[i] = frames[i]
    BY <1>3, <1>4
  <1>8. StackType'
    BY <1>1, <1>2, <1>3, <1>6 DEF StackType
  <1>9. CacheType' /\ CacheInjective' /\ CountersType' /\ ResolvesFromOwnDir'
    BY <1>1, <1>2 DEF CacheType, CacheInjective, CountersType, ResolvesFromOwnDir
  <1>10. FramesInv'
    <2>1. \A i \in Loads' : frames'[i].code \in Disk /\ frames'[i].module \in (1 .. made') \ loaded'
      BY <1>1, <1>2, <1>5, <1>7 DEF FramesInv
    <2>2. \A i, j \in Loads' : frames'[i].module = frames'[j].module => i = j
      BY <1>2, <1>5, <1>7 DEF FramesInv
    <2>3. \A i \in DOMAIN frames' : i \in DOMAIN frames /\ frames'[i] = frames[i]
      BY <1>3, <1>4
    <2>4. \A i \in DOMAIN frames' : frames'[i].code = Entry => i = 1 /\ frames'[i].kind = "call"
      BY <1>2, <2>3 DEF FramesInv
    <2> QED BY <2>1, <2>2, <2>4 DEF FramesInv
  <1>11. CacheMatches' /\ ReturnedInv'
    BY <1>1, <1>2, <1>5, <1>7 DEF CacheMatches, ReturnedInv
  <1> QED BY <1>5, <1>8, <1>9, <1>10, <1>11 DEF IInv

\* Without a frame nothing is being loaded, and the stack is empty.
LEMMA EmptyStack ==
  ASSUME frames = <<>>
  PROVE  Loads = {} /\ Depth(Len(frames)) = 0
  <1>1. Loads = {}
    BY DEF Loads
  <1>2. {j \in Loads : j <= Len(frames)} = {}
    BY <1>1
  <1> QED BY <1>1, <1>2, FS_EmptySet DEF Depth

LEMMA EmptyStackNext ==
  ASSUME frames' = <<>>
  PROVE  Loads' = {} /\ Depth(Len(frames))' = 0
  <1>1. Loads' = {}
    BY DEF Loads
  <1>2. {j \in Loads' : j <= Len(frames')} = {}
    BY <1>1
  <1> QED BY <1>1, <1>2, FS_EmptySet DEF Depth

LEMMA StepClear ==
  ASSUME IInv, ClearModuleCache
  PROVE  IInv'
  <1>1. /\ frames' = <<>> /\ g_module_cache' = <<>> /\ g_module_dir_stack' = <<>>
        /\ g_entry_dir' = None /\ returned' = {} /\ resolution' = <<>>
        /\ UNCHANGED <<throwing, made, requires, loaded>>
    BY DEF ClearModuleCache
  <1>2. Loads' = {} /\ Depth(Len(frames))' = 0 /\ DOMAIN frames' = {}
    BY <1>1, EmptyStackNext
  <1>3. CacheType' /\ CacheInjective' /\ CacheMatches'
    BY <1>1, <1>2 DEF CacheType, CacheInjective, CacheMatches
  <1>4. StackType'
    BY <1>1, BoundsAssumption DEF StackType
  <1>5. CountersType'
    BY <1>1 DEF IInv, CountersType
  <1>6. FramesInv' /\ ReturnedInv'
    BY <1>1, <1>2 DEF FramesInv, ReturnedInv
  <1>7. DirStackMatches'
    BY <1>1, <1>2 DEF DirStackMatches
  <1>8. ResolvesFromOwnDir'
    BY <1>1 DEF ResolvesFromOwnDir
  <1> QED BY <1>3, <1>4, <1>5, <1>6, <1>7, <1>8 DEF IInv

-----------------------------------------------------------------------------
(* The theorems                                                            *)

LEMMA LoaderInit == Init => IInv
  <1> SUFFICES ASSUME Init PROVE IInv
    OBVIOUS
  <1>1. Loads = {} /\ Depth(Len(frames)) = 0 /\ DOMAIN frames = {}
    BY EmptyStack DEF Init
  <1>2. CacheType /\ CacheInjective /\ CacheMatches
    BY <1>1 DEF Init, CacheType, CacheInjective, CacheMatches
  <1>3. StackType
    BY BoundsAssumption DEF Init, StackType
  <1>4. CountersType
    <2>1. requires \in 0 .. MaxRequires /\ made \in 0 .. requires
      BY BoundsAssumption DEF Init
    <2> QED BY <2>1 DEF Init, CountersType
  <1>5. FramesInv /\ ReturnedInv
    BY <1>1 DEF Init, FramesInv, ReturnedInv
  <1>6. DirStackMatches
    BY <1>1 DEF Init, DirStackMatches
  <1>7. ResolvesFromOwnDir
    BY DEF Init, ResolvesFromOwnDir
  <1> QED BY <1>2, <1>3, <1>4, <1>5, <1>6, <1>7 DEF IInv

\* The steps that leave the frames alone.
LEMMA StepQuiet ==
  ASSUME IInv,
         \/ \E s \in Specs : RequireCached(s) \/ RequireMissing(s) \/ RequireBroken(s)
         \/ RequireUnsupported \/ Exception \/ UNCHANGED vars
  PROVE  IInv'
  <1>1. /\ throwing \in BOOLEAN /\ requires \in Nat /\ requires <= MaxRequires /\ MaxRequires \in Nat
        /\ made \in Nat /\ made <= requires
    BY BoundsAssumption DEF IInv, CountersType
  <1>2. UNCHANGED <<g_module_cache, g_module_dir_stack, frames, loaded, g_entry_dir>>
    BY DEF RequireCached, RequireMissing, RequireBroken, RequireUnsupported, Exception, Resolving, vars
  <1>3. throwing' \in BOOLEAN
    BY <1>1 DEF RequireCached, RequireMissing, RequireBroken, RequireUnsupported, Exception, Throw,
                Catch, vars
  <1>4. /\ (requires' = requires + 1 /\ requires < MaxRequires) \/ (requires' = requires /\ made' = made)
        /\ made' \in {made, made + 1}
    BY DEF RequireCached, RequireMissing, RequireBroken, RequireUnsupported, Exception, Resolving, vars
  <1>5. requires' \in 0 .. MaxRequires /\ made' \in 0 .. requires'
    BY <1>1, <1>4
  <1>6. \A r \in returned' : r \in returned \/ \E f \in DOMAIN g_module_cache : r = <<f, g_module_cache[f]>>
    BY DEF RequireCached, RequireMissing, RequireBroken, RequireUnsupported, Exception, vars
  <1>7. returned' # {} => frames # <<>> \/ returned # {}
    BY DEF RequireCached, RequireMissing, RequireBroken, RequireUnsupported, Exception, Resolving,
           Running, vars
  <1>8. ResolvesFromOwnDir'
    <2>1. CASE \E s \in Specs : RequireCached(s) \/ RequireMissing(s) \/ RequireBroken(s)
      <3>1. Resolving
        BY <2>1 DEF RequireCached, RequireMissing, RequireBroken
      <3> QED BY <3>1, ResolvingOwn DEF IInv
    <2>2. CASE RequireUnsupported \/ Exception \/ UNCHANGED vars
      <3>1. resolution' = resolution
        BY <2>2 DEF RequireUnsupported, Exception, vars
      <3> QED BY <3>1 DEF IInv, ResolvesFromOwnDir
    <2> QED BY <2>1, <2>2
  <1> QED BY <1>2, <1>3, <1>4, <1>5, <1>6, <1>7, <1>8, StepKeeps

LEMMA LoaderInvariant == Spec => []IInv
  <1>1. IInv /\ [Next]_vars => IInv'
    <2> SUFFICES ASSUME IInv, [Next]_vars PROVE IInv'
      OBVIOUS
    <2>1. CASE \/ \E s \in Specs : RequireCached(s) \/ RequireMissing(s) \/ RequireBroken(s)
               \/ RequireUnsupported \/ Exception \/ UNCHANGED vars
      BY <2>1, StepQuiet
    <2>2. CASE \E s \in Specs : RequireLoad(s)
      BY <2>2, StepRequireLoad
    <2>3. CASE LoadReturns \/ LoadThrows \/ ExportsThrow
      BY <2>3, StepLoadReturns, StepLoadFails
    <2>4. CASE (\E d \in Dirs : RunScript(d)) \/ \E r \in returned : CallFunction(r[1], r[2])
      BY <2>4, StepRunScript, StepCallFunction
    <2>5. CASE FunctionReturns \/ FunctionThrows
      BY <2>5, StepPopCall
    <2>6. CASE ClearModuleCache
      BY <2>6, StepClear
    <2> QED BY <2>1, <2>2, <2>3, <2>4, <2>5, <2>6 DEF Next
  <1> QED BY <1>1, LoaderInit, PTL DEF Spec

\* The state of the loader keeps its types, for any tree of files, any
\* specifiers and stacks of any depth.
THEOREM LoaderTypeCorrect == Spec => []TypeOK
  <1>1. IInv => TypeOK
    <2> SUFFICES ASSUME IInv PROVE TypeOK
      OBVIOUS
    <2>1. \A f \in Disk : IsPath(f)
      BY DiskAssumption DEF IsPath
    <2>2. made \in Nat /\ made <= MaxRequires /\ 1 .. made \subseteq 1 .. MaxRequires
      BY BoundsAssumption DEF IInv, CountersType
    <2>3. \A f \in DOMAIN g_module_cache : IsPath(f) /\ g_module_cache[f] \in 1 .. MaxRequires
      BY <2>1, <2>2 DEF IInv, CacheType
    <2>4. g_module_dir_stack \in Seq(Seq(STRING))
      <3>1. FileDirs \subseteq Seq(STRING)
        BY DiskAssumption DEF FileDirs
      <3>2. g_module_dir_stack \in Seq(FileDirs)
        BY DEF IInv, StackType
      <3> DEFINE T == Seq(STRING)
      <3> HIDE DEF T
      <3>3. FileDirs \subseteq T
        BY <3>1 DEF T
      <3>4. g_module_dir_stack \in Seq(T)
        BY <3>2, <3>3
      <3> QED BY <3>4 DEF T
    <2>5. ASSUME NEW i \in DOMAIN frames
          PROVE  /\ frames[i].code = Entry \/ IsPath(frames[i].code)
                 /\ frames[i].kind \in {"load", "call"} /\ frames[i].module \in 0 .. MaxRequires
      <3>1. frames[i] \in Frame
        BY DEF IInv, StackType
      <3> QED BY <2>1, <3>1 DEF Frame
    <2>6. \A r \in returned : IsPath(r[1]) /\ r[2] \in 1 .. MaxRequires
      BY <2>1, <2>2 DEF IInv, CountersType
    <2>7. made \in 0 .. MaxRequires /\ loaded \subseteq 1 .. MaxRequires
      BY <2>2, BoundsAssumption DEF IInv, CountersType
    <2> QED BY <2>3, <2>4, <2>5, <2>6, <2>7 DEF TypeOK, IInv, StackType, CountersType
  <1> QED BY <1>1, LoaderInvariant, PTL

\* g_module_dir_stack is that of the loads in progress after any sequence of
\* requires, calls, throws and catches: no early return leaves a directory behind.
THEOREM LoaderDirStackMatches == Spec => []DirStackMatches
  <1>1. IInv => DirStackMatches
    BY DEF IInv
  <1> QED BY <1>1, LoaderInvariant, PTL

\* A module that is being loaded is in the cache as the object that is running,
\* and what is in the cache has finished or is being loaded: a failed module is
\* not served, and its failure erases no other.
THEOREM LoaderCacheMatches == Spec => []CacheMatches
  <1>1. IInv => CacheMatches
    BY DEF IInv
  <1> QED BY <1>1, LoaderInvariant, PTL

\* The script and the body of every module resolve specifiers in their own
\* directories.
THEOREM LoaderResolvesFromOwnDir == Spec => []ResolvesFromOwnDir
  <1>1. IInv => ResolvesFromOwnDir
    BY DEF IInv
  <1> QED BY <1>1, LoaderInvariant, PTL

\* Two callers who were given a finished module of one file were given one object,
\* along whichever names they found it and whatever failed in between.
THEOREM LoaderLoadedOnce == Spec => []LoadedOnce
  <1>1. IInv => LoadedOnce
    <2> SUFFICES ASSUME IInv, NEW r \in returned, NEW q \in returned,
                        Normal(r[1][1]) = Normal(q[1][1]), r[1][2] = q[1][2], r[1][3] = q[1][3],
                        r[2] \in loaded, q[2] \in loaded
                 PROVE  r[2] = q[2]
      BY DEF LoadedOnce
    <2>1. r[1] \in Disk /\ q[1] \in Disk
      BY DEF IInv, CountersType
    <2>2. r[1][1] = q[1][1]
      BY <2>1, DiskAssumption
    <2>3. r[1] = <<r[1][1], r[1][2], r[1][3]>> /\ q[1] = <<q[1][1], q[1][2], q[1][3]>>
      BY <2>1, DiskAssumption
    <2>4. r[1] = q[1]
      BY <2>2, <2>3
    <2> QED BY <2>4 DEF IInv, ReturnedInv
  <1> QED BY <1>1, LoaderInvariant, PTL

\* What a step may never do: until ClearModuleCache() a finished module stays in
\* the cache as the same object.  The erase of a failure path, of a module in a
\* cycle with it or of one further down the stack, never hits it.
FinishedStaysCached ==
    [][\A f \in DOMAIN g_module_cache : g_module_cache[f] \in loaded =>
          \/ ClearModuleCache
          \/ f \in DOMAIN g_module_cache' /\ g_module_cache'[f] = g_module_cache[f]]_vars

\* LoadLocalModule() erases the entry of the load that failed, whose object has
\* not finished, and adds an entry only where there is none.
THEOREM LoaderFinishedStays == Spec => FinishedStaysCached
  <1> DEFINE Stays == \A f \in DOMAIN g_module_cache : g_module_cache[f] \in loaded =>
                         \/ ClearModuleCache
                         \/ f \in DOMAIN g_module_cache' /\ g_module_cache'[f] = g_module_cache[f]
  <1>1. IInv /\ [Next]_vars => [Stays]_vars
    <2> SUFFICES ASSUME IInv, Next, ~ClearModuleCache,
                        NEW f \in DOMAIN g_module_cache, g_module_cache[f] \in loaded
                 PROVE  f \in DOMAIN g_module_cache' /\ g_module_cache'[f] = g_module_cache[f]
      OBVIOUS
    <2>1. CASE UNCHANGED g_module_cache
      BY <2>1
    <2>2. ASSUME NEW s \in Specs, RequireLoad(s)
          PROVE  f \in DOMAIN g_module_cache' /\ g_module_cache'[f] = g_module_cache[f]
      <3> DEFINE h == ResolveLocalModulePath(BaseDir, s)
      <3>1. /\ h \notin DOMAIN g_module_cache
            /\ g_module_cache' = [g \in DOMAIN g_module_cache \cup {h} |->
                                    IF g = h THEN made + 1 ELSE g_module_cache[g]]
        BY <2>2 DEF RequireLoad
      <3> HIDE DEF h
      <3> QED BY <3>1
    <2>3. CASE LoadThrows \/ ExportsThrow
      <3>1. /\ frames # <<>> /\ Top.kind = "load"
            /\ g_module_cache' = Restrict(g_module_cache, DOMAIN g_module_cache \ {Top.code})
        BY <2>3 DEF LoadThrows, ExportsThrow, Running
      <3>2. frames \in Seq(Frame) /\ FramesInv /\ CacheMatches
        BY DEF IInv, StackType
      <3>3. Len(frames) \in Loads /\ Top = frames[Len(frames)]
        BY <3>1, <3>2, LoadsRange DEF Top, Last, Loads
      <3>4. Top.module \notin loaded /\ g_module_cache[Top.code] = Top.module
        BY <3>2, <3>3 DEF FramesInv, CacheMatches
      <3>5. f # Top.code
        BY <3>4
      <3> QED BY <3>1, <3>5 DEF Restrict
    <2> QED
      BY <2>1, <2>2, <2>3 DEF Next, RequireCached, RequireMissing, RequireBroken, RequireUnsupported,
         LoadReturns, RunScript, CallFunction, FunctionReturns, FunctionThrows, Exception
  <1> QED BY <1>1, LoaderInvariant, PTL DEF Spec, FinishedStaysCached

===============================================================================
