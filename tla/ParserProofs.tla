----------------------------- MODULE ParserProofs -----------------------------
(***************************************************************************)
(* Proofs about Parser, for programs of any length with lines of any       *)
(* length.                                                                 *)
(***************************************************************************)
EXTENDS Parser, FiniteSetTheorems, SequenceTheorems, WellFoundedInduction, TLAPS

-----------------------------------------------------------------------------
(* Induction over the natural numbers, by sets                             *)

\* A set of natural numbers that is not empty has a least element.
LEMMA NatMin ==
    ASSUME NEW T, T \subseteq Nat, T # {}
    PROVE  \E m \in T : \A n \in T : m <= n
<1>1. PICK x \in T : \A y \in T : ~ (<<y, x>> \in OpToRel(<, Nat))
  BY WFMin, NatLessThanWellFounded
<1>2. ASSUME NEW y \in T PROVE x <= y
  <2>1. ~ (<<y, x>> \in {ss \in Nat \X Nat : ss[1] < ss[2]})
    BY <1>1 DEF OpToRel
  <2> QED
    BY <2>1
<1> QED
  BY <1>1, <1>2

\* A set that has 0 and, with a number, its successor has all of them.
LEMMA SetInduction ==
    ASSUME NEW T, 0 \in T, \A n \in Nat : n \in T => n + 1 \in T
    PROVE  \A n \in Nat : n \in T
<1> DEFINE B == {n \in Nat : n \notin T}
<1> SUFFICES ASSUME B # {} PROVE FALSE
  OBVIOUS
<1>1. B \subseteq Nat
  OBVIOUS
<1> HIDE DEF B
<1>2. PICK m \in B : \A n \in B : m <= n
  BY <1>1, NatMin
<1> USE DEF B
<1>3. m \in Nat /\ m > 0
  OBVIOUS
<1>4. m - 1 \in Nat /\ m - 1 \notin B
  BY <1>2, <1>3
<1>5. m - 1 \in T
  BY <1>4
<1>6. (m - 1) + 1 \in T
  BY <1>4, <1>5
<1> QED
  BY <1>6, <1>3

\* A set of natural numbers with a bound has a greatest element.
LEMMA NatMax ==
    ASSUME NEW T, T \subseteq Nat, T # {}, NEW b \in Nat, \A n \in T : n <= b
    PROVE  \E m \in T : \A n \in T : n <= m
<1> DEFINE D == {d \in Nat : b - d \in T}
<1>1. D # {}
  <2>1. PICK n \in T : TRUE
    OBVIOUS
  <2>2. b - n \in Nat /\ b - (b - n) = n
    OBVIOUS
  <2> QED
    BY <2>2
<1>2. D \subseteq Nat
  OBVIOUS
<1> HIDE DEF D
<1>3. PICK d \in D : \A e \in D : d <= e
  BY <1>1, <1>2, NatMin
<1> USE DEF D
<1>4. ASSUME NEW n \in T PROVE n <= b - d
  <2>1. b - n \in Nat /\ b - (b - n) = n /\ n \in Nat
    OBVIOUS
  <2>2. b - n \in D
    BY <2>1
  <2>3. d <= b - n
    BY <2>2, <1>3
  <2> QED
    BY <2>1, <2>3
<1> QED
  BY <1>4

-----------------------------------------------------------------------------
(* The helpers on text                                                     *)

\* find_first_of() and find_last_of() return the ends of the places.
LEMMA Ends ==
    ASSUME NEW A, NEW s \in Seq(A), NEW tokens, Has(s, tokens)
    PROVE  /\ FirstOf(s, tokens) \in DOMAIN s /\ LastOf(s, tokens) \in DOMAIN s
           /\ FirstOf(s, tokens) <= LastOf(s, tokens)
<1> DEFINE I == {i \in DOMAIN s : s[i] \in tokens}
<1>1. I # {} /\ I \subseteq Nat /\ \A i \in I : i <= Len(s) /\ i \in DOMAIN s
  BY DEF Has
<1>2. Len(s) \in Nat
  OBVIOUS
<1>a. FirstOf(s, tokens) = Min(I) /\ LastOf(s, tokens) = Max(I)
  BY DEF FirstOf, LastOf
<1> HIDE DEF I
<1>3. \E x \in I : \A y \in I : x <= y
  BY <1>1, NatMin
<1>4. \E x \in I : \A y \in I : y <= x
  BY <1>1, <1>2, NatMax
<1>5. \E x \in I : \A y \in I : x >= y
  BY <1>1, <1>4
<1>6. Min(I) \in I /\ \A y \in I : Min(I) <= y
  BY <1>3, Zenon DEF Min
<1>7. Max(I) \in I
  BY <1>5, Zenon DEF Max
<1> QED
  BY <1>1, <1>6, <1>7, <1>a

\* A part of a text is a text.
LEMMA Part ==
    ASSUME NEW A, NEW s \in Seq(A), NEW m \in Nat \ {0}, NEW n \in Int, n <= Len(s)
    PROVE  SubSeq(s, m, n) \in Seq(A)
<1>1. \A i \in m .. n : s[i] \in A
  OBVIOUS
<1> QED
  BY <1>1, SubSeqProperties

LEMMA RemoveCommentsType ==
    ASSUME NEW s \in Seq(Token)
    PROVE  RemoveComments(s) \in Seq(Token)
<1>1. CASE Has(s, {"//"})
  <2>1. FirstOf(s, {"//"}) \in DOMAIN s
    BY <1>1, Ends
  <2>2. 1 \in Nat \ {0} /\ FirstOf(s, {"//"}) - 1 \in Int /\ FirstOf(s, {"//"}) - 1 <= Len(s)
    BY <2>1
  <2>3. SubSeq(s, 1, FirstOf(s, {"//"}) - 1) \in Seq(Token)
    BY <2>2, Part
  <2> QED
    BY <1>1, <2>3 DEF RemoveComments
<1>2. CASE ~Has(s, {"//"})
  BY <1>2 DEF RemoveComments
<1> QED
  BY <1>1, <1>2

\* Trimming leaves nothing only of a text of spaces.
LEMMA TrimWhitespaceType ==
    ASSUME NEW s \in Seq(Token)
    PROVE  /\ TrimWhitespace(s) \in Seq(Token)
           /\ TrimWhitespace(s) = <<>> => ~Has(s, Token \ {"space"})
<1> DEFINE B == Token \ {"space"}
           f == FirstOf(s, B)
           l == LastOf(s, B)
<1>1. CASE Has(s, B)
  <2>1. f \in DOMAIN s /\ l \in DOMAIN s /\ f <= l
    BY <1>1, Ends
  <2>2. TrimWhitespace(s) = SubSeq(s, f, l)
    BY <1>1 DEF TrimWhitespace
  <2> HIDE DEF f, l, B
  <2>3. f \in Nat \ {0} /\ f \in Int /\ l \in Int /\ l <= Len(s)
    BY <2>1
  <2>4. SubSeq(s, f, l) \in Seq(Token)
    BY <2>3, Part
  <2>5. \A i \in f .. l : s[i] \in Token
    BY <2>3
  <2>6. Len(SubSeq(s, f, l)) = l - f + 1
    BY <2>1, <2>3, <2>5, SubSeqProperties
  <2>7. SubSeq(s, f, l) # <<>>
    BY <2>6, <2>3, <2>1
  <2> QED
    BY <2>2, <2>4, <2>7
<1>2. CASE ~Has(s, B)
  <2>1. TrimWhitespace(s) = <<>>
    BY <1>2 DEF TrimWhitespace
  <2>2. <<>> \in Seq(Token)
    BY EmptySeq
  <2> QED
    BY <1>2, <2>1, <2>2
<1> QED
  BY <1>1, <1>2

LEMMA BetweenType ==
    ASSUME NEW s \in Seq(Token)
    PROVE  Between(s) \in Seq(Token)
<1>1. CASE Has(s, {"("}) /\ Has(s, {")"})
  <2>1. FirstOf(s, {"("}) \in DOMAIN s /\ LastOf(s, {")"}) \in DOMAIN s
    BY <1>1, Ends
  <2>2. /\ FirstOf(s, {"("}) + 1 \in Nat \ {0}
        /\ LastOf(s, {")"}) - 1 \in Int /\ LastOf(s, {")"}) - 1 <= Len(s)
    BY <2>1
  <2>3. SubSeq(s, FirstOf(s, {"("}) + 1, LastOf(s, {")"}) - 1) \in Seq(Token)
    BY <2>2, Part
  <2> QED
    BY <1>1, <2>3 DEF Between
<1>2. CASE ~(Has(s, {"("}) /\ Has(s, {")"}))
  BY <1>2 DEF Between
<1> QED
  BY <1>1, <1>2

-----------------------------------------------------------------------------
(* Counting tokens                                                         *)

LEMMA NumberType ==
    ASSUME NEW s, NEW x \in Nat, NEW tokens
    PROVE  /\ IsFiniteSet({j \in 1 .. x : s[j] \in tokens})
           /\ Number(s, x, tokens) \in Nat
<1>1. IsFiniteSet(1 .. x)
  BY FS_Interval
<1>2. {j \in 1 .. x : s[j] \in tokens} \in SUBSET (1 .. x)
  OBVIOUS
<1>3. IsFiniteSet({j \in 1 .. x : s[j] \in tokens})
  BY <1>1, <1>2, FS_Subset
<1> QED
  BY <1>3, FS_CardinalityType DEF Number

LEMMA NumberZero ==
    ASSUME NEW s, NEW tokens
    PROVE  Number(s, 0, tokens) = 0
<1>1. {j \in 1 .. 0 : s[j] \in tokens} = {}
  OBVIOUS
<1> QED
  BY <1>1, FS_EmptySet DEF Number

LEMMA NumberNext ==
    ASSUME NEW s, NEW x \in Nat, NEW tokens
    PROVE  Number(s, x + 1, tokens) =
             IF s[x + 1] \in tokens THEN Number(s, x, tokens) + 1 ELSE Number(s, x, tokens)
<1> DEFINE J(y) == {j \in 1 .. y : s[j] \in tokens}
<1>1. IsFiniteSet(J(x)) /\ x + 1 \notin J(x)
  BY NumberType
<1>2. CASE s[x + 1] \in tokens
  <2>1. J(x + 1) = J(x) \cup {x + 1}
    BY <1>2
  <2> HIDE DEF J
  <2>2. Cardinality(J(x + 1)) = Cardinality(J(x)) + 1
    BY <1>1, <2>1, FS_AddElement
  <2> QED
    BY <1>2, <2>2 DEF Number, J
<1>3. CASE s[x + 1] \notin tokens
  <2>1. J(x + 1) = J(x)
    BY <1>3
  <2> QED
    BY <1>3, <2>1 DEF Number
<1> QED
  BY <1>2, <1>3

\* More tokens do not make fewer of them.
LEMMA NumberGrows ==
    ASSUME NEW s, NEW x \in Nat, NEW y \in Nat, x <= y, NEW tokens
    PROVE  Number(s, x, tokens) <= Number(s, y, tokens)
<1> DEFINE J(z) == {j \in 1 .. z : s[j] \in tokens}
<1>1. J(x) \in SUBSET J(y) /\ IsFiniteSet(J(y))
  BY NumberType
<1> HIDE DEF J
<1>2. Cardinality(J(x)) <= Cardinality(J(y))
  BY <1>1, FS_Subset
<1> QED
  BY <1>2 DEF Number, J

\* A text without these tokens has none of them.
LEMMA NumberNone ==
    ASSUME NEW A, NEW s \in Seq(A), NEW x \in 0 .. Len(s), NEW tokens, ~Has(s, tokens)
    PROVE  Number(s, x, tokens) = 0
<1>1. {j \in 1 .. x : s[j] \in tokens} = {}
  BY DEF Has
<1> QED
  BY <1>1, FS_EmptySet DEF Number

\* What one more token does to the depth.
LEMMA NetNext ==
    ASSUME NEW s, NEW x \in Nat
    PROVE  /\ Net(s, x) \in Int
           /\ Net(s, 0) = 0
           /\ Net(s, x + 1) = IF s[x + 1] = "open" THEN Net(s, x) + 1
                              ELSE IF s[x + 1] = "close" THEN Net(s, x) - 1 ELSE Net(s, x)
<1> DEFINE o(y) == Number(s, y, {"open"})
           c(y) == Number(s, y, {"close"})
<1>1. o(x) \in Nat /\ c(x) \in Nat
  BY NumberType
<1>2. o(0) = 0 /\ c(0) = 0
  BY NumberZero
<1>3. o(x + 1) = IF s[x + 1] = "open" THEN o(x) + 1 ELSE o(x)
  BY NumberNext
<1>4. c(x + 1) = IF s[x + 1] = "close" THEN c(x) + 1 ELSE c(x)
  BY NumberNext
<1>5. Net(s, x) = o(x) - c(x) /\ Net(s, 0) = o(0) - c(0) /\ Net(s, x + 1) = o(x + 1) - c(x + 1)
  BY DEF Net
<1> HIDE DEF o, c
<1>6. Net(s, x) \in Int
  BY <1>1, <1>5
<1>7. Net(s, 0) = 0
  BY <1>2, <1>5
<1>8. CASE s[x + 1] = "open"
  <2>1. s[x + 1] # "close"
    BY <1>8
  <2>2. o(x + 1) = o(x) + 1 /\ c(x + 1) = c(x)
    BY <1>3, <1>4, <1>8, <2>1
  <2>3. Net(s, x + 1) = Net(s, x) + 1
    BY <1>1, <1>5, <2>2
  <2> QED
    BY <1>6, <1>7, <1>8, <2>3
<1>9. CASE s[x + 1] = "close"
  <2>1. s[x + 1] # "open"
    BY <1>9
  <2>2. o(x + 1) = o(x) /\ c(x + 1) = c(x) + 1
    BY <1>3, <1>4, <1>9, <2>1
  <2>3. Net(s, x + 1) = Net(s, x) - 1
    BY <1>1, <1>5, <2>2
  <2> QED
    BY <1>6, <1>7, <1>9, <2>1, <2>3
<1>10. CASE s[x + 1] # "open" /\ s[x + 1] # "close"
  BY <1>1, <1>3, <1>4, <1>5, <1>6, <1>7, <1>10
<1> QED
  BY <1>8, <1>9, <1>10

\* The depth after n lines is defined by the depth before the last of them.
LEMMA DepthAfterDef ==
    ASSUME NEW p, Len(p) \in Nat
    PROVE  DepthAfter(p) = [n \in 0 .. Len(p) |-> IF n = 0 THEN 0
                              ELSE DepthAfter(p)[n - 1] + Net(Text(p, n), Len(Text(p, n)))]
<1> DEFINE N(n) == Net(Text(p, n), Len(Text(p, n)))
           Is(g, m) == g = [n \in 0 .. m |-> IF n = 0 THEN 0 ELSE g[n - 1] + N(n)]
           T == {m \in Nat : \E g : Is(g, m)}
<1> HIDE DEF N
<1>1. 0 \in T
  <2> DEFINE g == [n \in 0 .. 0 |-> 0]
  <2>1. Is(g, 0)
    OBVIOUS
  <2> QED
    BY <2>1
<1>2. ASSUME NEW m \in Nat, m \in T PROVE m + 1 \in T
  <2>1. PICK g : Is(g, m)
    BY <1>2
  <2> DEFINE h == [n \in 0 .. m + 1 |-> IF n = m + 1 THEN g[m] + N(m + 1) ELSE g[n]]
  <2>2. ASSUME NEW n \in 0 .. m + 1
        PROVE  h[n] = IF n = 0 THEN 0 ELSE h[n - 1] + N(n)
    <3>1. CASE n = m + 1
      <4>1. h[n] = g[m] + N(m + 1) /\ n # 0 /\ n - 1 = m
        BY <3>1
      <4>2. m \in 0 .. m + 1 /\ m # m + 1
        OBVIOUS
      <4>3. h[m] = g[m]
        BY <4>2
      <4> HIDE DEF h
      <4> QED
        BY <3>1, <4>1, <4>3
    <3>2. CASE n # m + 1
      <4>1. h[n] = g[n] /\ n \in 0 .. m
        BY <3>2
      <4>2. g[n] = IF n = 0 THEN 0 ELSE g[n - 1] + N(n)
        BY <2>1, <4>1
      <4>3. ASSUME n # 0 PROVE h[n - 1] = g[n - 1]
        <5>1. n - 1 \in 0 .. m + 1 /\ n - 1 # m + 1
          BY <4>3
        <5> QED
          BY <5>1
      <4> HIDE DEF h
      <4> QED
        BY <4>1, <4>2, <4>3
    <3> QED
      BY <3>1, <3>2
  <2>3. h = [n \in 0 .. m + 1 |-> h[n]]
    OBVIOUS
  <2> HIDE DEF h
  <2>4. Is(h, m + 1)
    BY <2>2, <2>3, Zenon
  <2>5. m + 1 \in Nat
    OBVIOUS
  <2> HIDE DEF Is
  <2> QED
    BY <2>4, <2>5, Zenon
<1> HIDE DEF T
<1>3. Len(p) \in T
  BY <1>1, <1>2, SetInduction
<1> USE DEF T
<1>4. \E g : Is(g, Len(p))
  BY <1>3
<1> QED
  BY <1>4, Zenon DEF DepthAfter, N

\* The depths are integers, and a line adds its net braces.
LEMMA DepthAfterType ==
    ASSUME NEW p, Len(p) \in Nat, \A n \in 1 .. Len(p) : Len(Text(p, n)) \in Nat
    PROVE  /\ DepthAfter(p)[0] = 0
           /\ \A n \in 0 .. Len(p) : DepthAfter(p)[n] \in Int
           /\ \A n \in 0 .. Len(p) - 1 :
                DepthAfter(p)[n + 1] = DepthAfter(p)[n] + Net(Text(p, n + 1), Len(Text(p, n + 1)))
<1> DEFINE d == DepthAfter(p)
           N(n) == Net(Text(p, n), Len(Text(p, n)))
           T == {n \in Nat : n <= Len(p) => d[n] \in Int}
<1>1. d = [n \in 0 .. Len(p) |-> IF n = 0 THEN 0 ELSE d[n - 1] + N(n)]
  BY DepthAfterDef
<1>2. ASSUME NEW n \in 1 .. Len(p) PROVE N(n) \in Int
  BY NetNext
<1> HIDE DEF d, N
<1>3. d[0] = 0
  BY <1>1
<1>4. ASSUME NEW n \in 0 .. Len(p) - 1 PROVE d[n + 1] = d[n] + N(n + 1)
  <2>1. n + 1 \in 0 .. Len(p) /\ n + 1 # 0 /\ (n + 1) - 1 = n
    OBVIOUS
  <2>2. d[n + 1] = d[(n + 1) - 1] + N(n + 1)
    BY <1>1, <2>1
  <2> QED
    BY <2>1, <2>2
<1>5. 0 \in T
  BY <1>3
<1>6. ASSUME NEW n \in Nat, n \in T PROVE n + 1 \in T
  <2>1. CASE n + 1 <= Len(p)
    <3>1. d[n] \in Int /\ n \in 0 .. Len(p) - 1 /\ n + 1 \in 1 .. Len(p)
      BY <1>6, <2>1
    <3>2. d[n + 1] = d[n] + N(n + 1) /\ N(n + 1) \in Int
      BY <1>2, <1>4, <3>1
    <3> QED
      BY <3>1, <3>2
  <2>2. CASE ~(n + 1 <= Len(p))
    BY <2>2
  <2> QED
    BY <2>1, <2>2
<1> HIDE DEF T
<1>7. \A n \in Nat : n \in T
  BY <1>5, <1>6, SetInduction
<1>8. \A n \in 0 .. Len(p) : d[n] \in Int
  BY <1>7 DEF T
<1> QED
  BY <1>3, <1>4, <1>8 DEF d, N

-----------------------------------------------------------------------------
(* Blocks and callbacks                                                    *)

Lines == [kind : Types \cup {"UNKNOWN"}, text : Seq(Token)]

LEMMA TextType ==
    ASSUME NEW p \in Seq(Lines), NEW n \in 1 .. Len(p)
    PROVE  Text(p, n) \in Seq(Token) /\ Len(Text(p, n)) \in Nat
<1>1. p[n].text \in Seq(Token)
  <2>1. p[n] \in Lines
    BY ElementOfSeq
  <2> QED
    BY <2>1 DEF Lines
<1>2. Text(p, n) \in Seq(Token)
  BY <1>1, RemoveCommentsType DEF Text
<1> QED
  BY <1>2

\* The depth token by token: from the depth before the line to the one after it.
LEMMA DepthNext ==
    ASSUME NEW p \in Seq(Lines), NEW n \in 1 .. Len(p)
    PROVE  /\ DepthAfter(p)[0] = 0
           /\ DepthAfter(p)[n - 1] \in Int
           /\ Depth(p, n, 0) = DepthAfter(p)[n - 1]
           /\ Depth(p, n, Len(Text(p, n))) = DepthAfter(p)[n]
           /\ \A x \in Nat : Depth(p, n, x) \in Int
           /\ \A x \in Nat : /\ Text(p, n)[x + 1] = "open" => Depth(p, n, x + 1) = Depth(p, n, x) + 1
                             /\ Text(p, n)[x + 1] # "open" => Depth(p, n, x + 1) <= Depth(p, n, x)
<1> DEFINE d == DepthAfter(p)
           N(x) == Net(Text(p, n), x)
<1>1. Len(p) \in Nat /\ \A m \in 1 .. Len(p) : Len(Text(p, m)) \in Nat
  BY TextType
<1>2. /\ d[0] = 0
      /\ \A m \in 0 .. Len(p) : d[m] \in Int
      /\ \A m \in 0 .. Len(p) - 1 : d[m + 1] = d[m] + Net(Text(p, m + 1), Len(Text(p, m + 1)))
  BY <1>1, DepthAfterType
<1>3. n - 1 \in 0 .. Len(p) /\ n - 1 \in 0 .. Len(p) - 1 /\ (n - 1) + 1 = n
  OBVIOUS
<1>4. d[n - 1] \in Int /\ d[n] = d[n - 1] + N(Len(Text(p, n)))
  BY <1>2, <1>3
<1>5. ASSUME NEW x \in Nat
      PROVE  /\ N(x) \in Int /\ N(0) = 0
             /\ Text(p, n)[x + 1] = "open" => N(x + 1) = N(x) + 1
             /\ Text(p, n)[x + 1] # "open" => N(x + 1) = N(x) \/ N(x + 1) = N(x) - 1
  <2>1. /\ N(x) \in Int /\ N(0) = 0
        /\ N(x + 1) = IF Text(p, n)[x + 1] = "open" THEN N(x) + 1
                      ELSE IF Text(p, n)[x + 1] = "close" THEN N(x) - 1 ELSE N(x)
    BY NetNext
  <2> HIDE DEF N
  <2> QED
    BY <2>1, Zenon
<1>6. \A x : Depth(p, n, x) = d[n - 1] + N(x)
  BY DEF Depth
<1>7. Len(Text(p, n)) \in Nat
  BY <1>1
<1> HIDE DEF d, N
<1>8. Depth(p, n, 0) = d[n - 1]
  <2>1. N(0) = 0 /\ Depth(p, n, 0) = d[n - 1] + N(0)
    BY <1>5, <1>6
  <2> QED
    BY <1>4, <2>1
<1>9. Depth(p, n, Len(Text(p, n))) = d[n]
  BY <1>4, <1>6
<1>10. ASSUME NEW x \in Nat
       PROVE  /\ Depth(p, n, x) \in Int
              /\ Text(p, n)[x + 1] = "open" => Depth(p, n, x + 1) = Depth(p, n, x) + 1
              /\ Text(p, n)[x + 1] # "open" => Depth(p, n, x + 1) <= Depth(p, n, x)
  <2>1. N(x) \in Int
    BY <1>5
  <2>2. Depth(p, n, x) = d[n - 1] + N(x) /\ Depth(p, n, x + 1) = d[n - 1] + N(x + 1)
    BY <1>6
  <2>3. CASE Text(p, n)[x + 1] = "open"
    <3>1. N(x + 1) = N(x) + 1
      BY <1>5, <2>3
    <3>2. Depth(p, n, x) \in Int /\ Depth(p, n, x + 1) = Depth(p, n, x) + 1
      BY <1>4, <2>1, <2>2, <3>1
    <3> QED
      BY <2>3, <3>2
  <2>4. CASE Text(p, n)[x + 1] # "open"
    <3>1. N(x + 1) = N(x) \/ N(x + 1) = N(x) - 1
      BY <1>5, <2>4
    <3>2. Depth(p, n, x) \in Int /\ Depth(p, n, x + 1) <= Depth(p, n, x)
      BY <1>4, <2>1, <2>2, <3>1
    <3> QED
      BY <2>4, <3>2
  <2> QED
    BY <2>3, <2>4
<1> QED
  BY <1>2, <1>4, <1>8, <1>9, <1>10 DEF d

\* In a well formed program an open block is at least one deep, and the depth
\* after the lines is at least its depth.
LEMMA OpenDepth ==
    ASSUME NEW p \in Seq(Lines), WellFormed(p), NEW n \in 1 .. Len(p), NEW k \in 1 .. n,
           NEW x \in DOMAIN Text(p, k), Open(p, k, x, n)
    PROVE  /\ Depth(p, k, x) \in Int /\ Depth(p, k, x) >= 1
           /\ DepthAfter(p)[n] >= Depth(p, k, x)
<1>1. k \in 1 .. Len(p) /\ x \in Nat /\ x - 1 \in Nat /\ (x - 1) + 1 = x
  BY TextType
<1>2. Text(p, k) \in Seq(Token) /\ Len(Text(p, k)) \in Nat /\ x \in 1 .. Len(Text(p, k))
  BY <1>1, TextType
<1>3. Depth(p, k, x - 1) >= 0
  <2>1. x - 1 \in 0 .. Len(Text(p, k)) /\ k \in DOMAIN p
    BY <1>1, <1>2
  <2> QED
    BY <2>1 DEF WellFormed
<1>4. Depth(p, k, x) = Depth(p, k, x - 1) + 1 /\ Depth(p, k, x - 1) \in Int
  <2>1. Text(p, k)[(x - 1) + 1] = "open"
    BY <1>1 DEF Open
  <2>2. Depth(p, k, (x - 1) + 1) = Depth(p, k, x - 1) + 1 /\ Depth(p, k, x - 1) \in Int
    BY <1>1, <2>1, DepthNext
  <2> QED
    BY <1>1, <2>2
<1>5. DepthAfter(p)[n] = Depth(p, n, Len(Text(p, n))) /\ Len(Text(p, n)) \in Nat
  BY DepthNext, TextType
<1>6. CASE k = n
  <2>1. Len(Text(p, k)) \in x .. Len(Text(p, k))
    BY <1>2
  <2>2. Depth(p, k, Len(Text(p, k))) >= Depth(p, k, x)
    BY <2>1 DEF Open
  <2> QED
    BY <1>3, <1>4, <1>5, <1>6, <2>2
<1>7. CASE k # n
  <2>1. n \in k + 1 .. n /\ Len(Text(p, n)) \in 0 .. Len(Text(p, n))
    BY <1>5, <1>7
  <2>2. Depth(p, n, Len(Text(p, n))) >= Depth(p, k, x)
    BY <2>1 DEF Open
  <2> QED
    BY <1>3, <1>4, <1>5, <2>2
<1> QED
  BY <1>6, <1>7

\* At depth zero no block is open.
LEMMA NoneAtZero ==
    ASSUME NEW p \in Seq(Lines), WellFormed(p), NEW n \in 0 .. Len(p), DepthAfter(p)[n] = 0
    PROVE  ~InCallback(p, n)
<1> SUFFICES ASSUME InCallback(p, n) PROVE FALSE
  OBVIOUS
<1>1. PICK k \in 1 .. n : \E x \in DOMAIN Text(p, k) : Open(p, k, x, n)
  BY DEF InCallback
<1>2. PICK x \in DOMAIN Text(p, k) : Open(p, k, x, n)
  BY <1>1
<1>3. n \in 1 .. Len(p)
  OBVIOUS
<1>4. Depth(p, k, x) \in Int /\ Depth(p, k, x) >= 1 /\ DepthAfter(p)[n] >= Depth(p, k, x)
  BY <1>2, <1>3, OpenDepth
<1> QED
  BY <1>4

\* An outermost block, opened on a line with an arrow, is open: what the flag
\* stands for.
Outermost(p, k, x, n) == x \in DOMAIN Text(p, k) /\ Open(p, k, x, n) /\ Depth(p, k, x) = 1
InOutermost(p, n) == \E k \in 1 .. n : Arrow(p, k) /\ \E x \in DOMAIN Text(p, k) : Outermost(p, k, x, n)

LEMMA OutermostInCallback ==
    ASSUME NEW p, NEW n, InOutermost(p, n)
    PROVE  InCallback(p, n)
  BY DEF InOutermost, Outermost, InCallback

\* A line with an arrow that leaves the depth above zero has opened one: the
\* brace after which the depth has not been zero again.
LEMMA ArrowOpens ==
    ASSUME NEW p \in Seq(Lines), WellFormed(p), NEW n \in 1 .. Len(p), Arrow(p, n),
           DepthAfter(p)[n] > 0
    PROVE  InOutermost(p, n)
<1> DEFINE L == Len(Text(p, n))
           D(x) == Depth(p, n, x)
           T == {x \in 0 .. L : \A y \in x .. L : D(y) >= 1}
<1>1. /\ D(0) = 0
      /\ \A x \in Nat : D(x) \in Int
      /\ \A x \in 0 .. L : D(x) >= 0
      /\ D(L) >= 1
  <2>1. n \in DOMAIN p
    OBVIOUS
  <2>2. D(0) = 0 /\ \A x \in 0 .. L : D(x) >= 0
    BY <2>1, DepthNext DEF WellFormed
  <2>3. D(L) = DepthAfter(p)[n] /\ \A x \in Nat : D(x) \in Int
    BY DepthNext
  <2>4. L \in Nat
    BY TextType
  <2>5. D(L) \in Int
    BY <2>3, <2>4
  <2> HIDE DEF D, L
  <2>6. D(L) >= 1
    BY <2>3, <2>5
  <2> QED
    BY <2>2, <2>3, <2>6
<1>2. L \in Nat /\ Text(p, n) \in Seq(Token)
  BY TextType
<1>3. \A x \in Nat : Text(p, n)[x + 1] = "open" => D(x + 1) = D(x) + 1
  BY DepthNext
<1>4. \A x \in Nat : Text(p, n)[x + 1] # "open" => D(x + 1) <= D(x)
  BY DepthNext
<1>5. DOMAIN Text(p, n) = 1 .. L
  BY <1>2
<1> HIDE DEF D, L
<1>6. L \in T
  BY <1>1, <1>2
<1>7. T \subseteq Nat /\ T # {}
  BY <1>6
<1> HIDE DEF T
<1>8. PICK x \in T : \A y \in T : x <= y
  BY <1>7, NatMin
<1> USE DEF T
<1>9. x \in 1 .. L
  <2>1. 0 \notin T
    BY <1>1, <1>2
  <2> QED
    BY <1>8, <2>1
<1>10. x - 1 \in Nat /\ x - 1 \in 0 .. L /\ (x - 1) + 1 = x
  BY <1>9, <1>2
<1>11. D(x - 1) = 0
  <2>1. x - 1 \notin T
    <3>1. ~(x <= x - 1)
      BY <1>10
    <3> QED
      BY <1>8, <3>1
  <2>2. PICK y \in x - 1 .. L : ~(D(y) >= 1)
    BY <2>1, <1>10
  <2>3. y = x - 1
    <3>1. \A z \in x .. L : D(z) >= 1
      BY <1>8
    <3>2. y \notin x .. L
      BY <2>2, <3>1
    <3> QED
      BY <3>2, <1>9, <1>2
  <2>4. D(x - 1) \in Int /\ D(x - 1) >= 0
    BY <1>1, <1>10
  <2> QED
    BY <2>2, <2>3, <2>4
<1>12. D(x) >= 1 /\ D(x) \in Int
  BY <1>1, <1>8, <1>9, <1>2
<1>13. Text(p, n)[x] = "open"
  <2> SUFFICES ASSUME Text(p, n)[x] # "open" PROVE FALSE
    OBVIOUS
  <2>1. D((x - 1) + 1) <= D(x - 1)
    BY <1>4, <1>10
  <2>2. D(x) <= D(x - 1)
    BY <2>1, <1>10
  <2>3. D(x) <= 0
    BY <2>2, <1>11
  <2> HIDE DEF T
  <2>4. \A e \in Int : e <= 0 => ~(e >= 1)
    OBVIOUS
  <2> QED
    BY <2>3, <2>4, <1>12, Zenon
<1>14. D(x) = 1
  <2>1. D((x - 1) + 1) = D(x - 1) + 1
    BY <1>3, <1>10, <1>13
  <2> QED
    BY <2>1, <1>10, <1>11
<1>15. \A y \in x .. L : D(y) >= D(x)
  BY <1>8, <1>14
<1>16. Open(p, n, x, n)
  <2>1. \A y \in x .. Len(Text(p, n)) : Depth(p, n, y) >= Depth(p, n, x)
    BY <1>15 DEF D, L
  <2>2. n + 1 .. n = {}
    OBVIOUS
  <2> QED
    BY <1>13, <2>1, <2>2 DEF Open
<1>17. Outermost(p, n, x, n)
  BY <1>5, <1>9, <1>14, <1>16 DEF Outermost, D
<1>18. n \in 1 .. n /\ x \in DOMAIN Text(p, n)
  BY <1>5, <1>9
<1> QED
  BY <1>17, <1>18 DEF InOutermost

\* Without an arrow, an outermost callback goes on as long as the depth after
\* the line is above zero.
LEMMA OutermostGoesOn ==
    ASSUME NEW p \in Seq(Lines), WellFormed(p), NEW n \in 1 .. Len(p), ~Arrow(p, n),
           InOutermost(p, n - 1), DepthAfter(p)[n] > 0
    PROVE  InOutermost(p, n)
<1> DEFINE s == Text(p, n)
           L == Len(s)
           D(x) == Depth(p, n, x)
<1>1. L \in Nat /\ s \in Seq(Token)
  BY TextType
<1>2. D(L) = DepthAfter(p)[n] /\ D(L) \in Int /\ DepthAfter(p)[n - 1] \in Int
  BY <1>1, DepthNext
<1>3. \A y \in 0 .. L : D(y) >= 1
  <2>1. CASE Has(s, {"open"})
    <3>1. InCallback(p, n)
      <4>1. n \in DOMAIN p /\ InCallback(p, n - 1)
        BY OutermostInCallback
      <4> QED
        BY <4>1, <2>1 DEF WellFormed
    <3>2. PICK k \in 1 .. n : Arrow(p, k) /\ \E x \in DOMAIN Text(p, k) : Open(p, k, x, n)
      BY <3>1 DEF InCallback
    <3>3. PICK x \in DOMAIN Text(p, k) : Open(p, k, x, n)
      BY <3>2
    <3>4. Depth(p, k, x) \in Int /\ Depth(p, k, x) >= 1
      BY <3>3, OpenDepth
    <3>5. k # n
      BY <3>2
    <3>6. n \in k + 1 .. n
      BY <3>5
    <3>7. ASSUME NEW y \in 0 .. L PROVE D(y) >= Depth(p, k, x) /\ D(y) \in Int
      <4>1. D(y) >= Depth(p, k, x)
        BY <3>3, <3>6 DEF Open
      <4>2. y \in Nat
        BY <1>1
      <4> QED
        BY <4>1, <4>2, DepthNext
    <3> HIDE DEF D, L
    <3> QED
      BY <3>4, <3>7
  <2>2. CASE ~Has(s, {"open"})
    <3>1. ASSUME NEW y \in 0 .. L PROVE D(y) >= 1
      <4>1. y \in Nat /\ y <= L
        BY <1>1
      <4>2. Number(s, y, {"open"}) = 0 /\ Number(s, L, {"open"}) = 0
        <5>1. L \in 0 .. Len(s) /\ y \in 0 .. Len(s)
          BY <1>1
        <5> HIDE DEF L
        <5> QED
          BY <1>1, <2>2, <5>1, NumberNone
      <4>3. /\ Number(s, y, {"close"}) <= Number(s, L, {"close"})
            /\ Number(s, y, {"close"}) \in Nat /\ Number(s, L, {"close"}) \in Nat
        <5> HIDE DEF L
        <5> QED
          BY <1>1, <4>1, NumberGrows, NumberType
      <4>4. /\ D(y) = DepthAfter(p)[n - 1] + (Number(s, y, {"open"}) - Number(s, y, {"close"}))
            /\ D(L) = DepthAfter(p)[n - 1] + (Number(s, L, {"open"}) - Number(s, L, {"close"}))
        BY DEF Depth, Net
      <4> DEFINE d == DepthAfter(p)[n - 1]
                 a == Number(s, y, {"close"})
                 b == Number(s, L, {"close"})
      <4>5. D(y) = d + (0 - a) /\ D(L) = d + (0 - b)
        BY <4>2, <4>4
      <4>6. d \in Int /\ a \in Nat /\ b \in Nat /\ a <= b /\ D(L) > 0
        BY <1>2, <4>3
      <4> HIDE DEF D, L, s, d, a, b
      <4> QED
        BY <4>5, <4>6
    <3> QED
      BY <3>1
  <2> QED
    BY <2>1, <2>2
<1>4. PICK k \in 1 .. n - 1 : Arrow(p, k) /\ \E x \in DOMAIN Text(p, k) : Outermost(p, k, x, n - 1)
  BY DEF InOutermost
<1>5. PICK x \in DOMAIN Text(p, k) : Outermost(p, k, x, n - 1)
  BY <1>4
<1>6. Open(p, k, x, n - 1) /\ Depth(p, k, x) = 1
  BY <1>5 DEF Outermost
<1>7. ASSUME NEW m \in k + 1 .. n PROVE \A y \in 0 .. Len(Text(p, m)) : Depth(p, m, y) >= Depth(p, k, x)
  <2>1. CASE m = n
    BY <1>3, <1>6, <2>1
  <2>2. CASE m # n
    <3>1. m \in k + 1 .. n - 1
      BY <2>2
    <3> QED
      BY <3>1, <1>6 DEF Open
  <2> QED
    BY <2>1, <2>2
<1>8. Open(p, k, x, n)
  BY <1>6, <1>7 DEF Open
<1>9. Outermost(p, k, x, n) /\ k \in 1 .. n
  BY <1>5, <1>6, <1>8 DEF Outermost
<1> QED
  BY <1>4, <1>5, <1>9 DEF InOutermost

\* Without an arrow, no callback begins.
LEMMA NoneBegins ==
    ASSUME NEW p \in Seq(Lines), NEW n \in 1 .. Len(p), ~Arrow(p, n), InCallback(p, n)
    PROVE  InCallback(p, n - 1)
<1>1. PICK k \in 1 .. n : Arrow(p, k) /\ \E x \in DOMAIN Text(p, k) : Open(p, k, x, n)
  BY DEF InCallback
<1>2. PICK x \in DOMAIN Text(p, k) : Open(p, k, x, n)
  BY <1>1
<1>3. k # n
  BY <1>1
<1>4. k \in 1 .. n - 1
  BY <1>3
<1>5. \A m \in k + 1 .. n - 1 : m \in k + 1 .. n
  OBVIOUS
<1>6. Open(p, k, x, n - 1)
  BY <1>2, <1>5 DEF Open
<1> QED
  BY <1>1, <1>4, <1>6 DEF InCallback

\* A blank line has no token that matters.
LEMMA Blank ==
    ASSUME NEW s \in Seq(Token), TrimWhitespace(s) = <<>>
    PROVE  Net(s, Len(s)) = 0 /\ ~Has(s, {"=>"})
<1>1. ~Has(s, Token \ {"space"})
  BY TrimWhitespaceType
<1>2. \A c \in {"open", "close", "=>"} : c \in Token \ {"space"}
  BY DEF Token
<1>3. ASSUME NEW c \in {"open", "close", "=>"} PROVE ~Has(s, {c})
  BY <1>1, <1>2 DEF Has
<1>4. ~Has(s, {"open"}) /\ ~Has(s, {"close"}) /\ ~Has(s, {"=>"})
  BY <1>3
<1>5. Len(s) \in 0 .. Len(s)
  OBVIOUS
<1>6. Number(s, Len(s), {"open"}) = 0 /\ Number(s, Len(s), {"close"}) = 0
  BY <1>4, <1>5, NumberNone
<1>7. Net(s, Len(s)) = 0 - 0
  BY <1>6 DEF Net
<1>8. Net(s, Len(s)) = 0
  BY <1>7
<1> QED
  BY <1>4, <1>8, Zenon

-----------------------------------------------------------------------------
(* The loop of ExtractFunctionArguments()                                  *)

ScanState == [args : Seq(Seq(Token)), cur : Seq(Token), quote : Quotes \cup {"none"},
              escape : BOOLEAN, depth : Nat]

Plainly(st) == ~st.escape /\ st.quote = "none"
Splits(st, c) == Plainly(st) /\ c = "comma" /\ st.depth = 0

\* A character that splits.
LEMMA ScanSplits ==
    ASSUME NEW st \in ScanState, NEW c \in Token, Splits(st, c)
    PROVE  /\ Scan(st, c) \in ScanState
           /\ Scan(st, c).args = Append(st.args, TrimWhitespace(st.cur)) /\ Scan(st, c).cur = <<>>
           /\ Scan(st, c).quote = st.quote /\ Scan(st, c).escape = st.escape
           /\ Scan(st, c).depth = st.depth
<1>1. Scan(st, c) = [st EXCEPT !.args = Append(st.args, TrimWhitespace(st.cur)), !.cur = <<>>]
  BY DEF Scan, Splits, Plainly, Cut
<1>2. st.args \in Seq(Seq(Token)) /\ st.cur \in Seq(Token)
  BY DEF ScanState
<1>3. TrimWhitespace(st.cur) \in Seq(Token)
  BY <1>2, TrimWhitespaceType
<1>4. Append(st.args, TrimWhitespace(st.cur)) \in Seq(Seq(Token)) /\ <<>> \in Seq(Token)
  BY <1>2, <1>3, AppendProperties, EmptySeq
<1> QED
  BY <1>1, <1>4 DEF ScanState

\* A character that does not.
LEMMA ScanGoesOn ==
    ASSUME NEW st \in ScanState, NEW c \in Token, ~Splits(st, c)
    PROVE  /\ Scan(st, c) \in ScanState
           /\ Scan(st, c).args = st.args /\ Scan(st, c).cur = Append(st.cur, c)
           /\ Scan(st, c).escape = (~st.escape /\ c = "bs")
           /\ Scan(st, c).quote = IF st.escape THEN st.quote ELSE QuoteAfter(st.quote, c)
           /\ Scan(st, c).depth = IF Plainly(st) /\ c = "(" THEN st.depth + 1
                                  ELSE IF Plainly(st) /\ c = ")" /\ st.depth > 0 THEN st.depth - 1
                                  ELSE st.depth
<1> DEFINE cur == Append(st.cur, c)
           esc == ~st.escape /\ c = "bs"
           quo == IF st.escape THEN st.quote ELSE QuoteAfter(st.quote, c)
           dep == IF Plainly(st) /\ c = "(" THEN st.depth + 1
                  ELSE IF Plainly(st) /\ c = ")" /\ st.depth > 0 THEN st.depth - 1
                  ELSE st.depth
<1>1. Scan(st, c) = [st EXCEPT !.cur = cur, !.escape = esc, !.quote = quo, !.depth = dep]
  BY DEF Scan, Splits, Plainly
<1>2. cur \in Seq(Token)
  BY AppendProperties DEF ScanState
<1>3. esc \in BOOLEAN
  OBVIOUS
<1>4. quo \in Quotes \cup {"none"}
  BY DEF ScanState, QuoteAfter
<1>5. dep \in Nat
  <2>1. st.depth \in Nat
    BY DEF ScanState
  <2> QED
    BY <2>1
<1> HIDE DEF cur, esc, quo, dep
<1>6. /\ Scan(st, c) \in ScanState
      /\ Scan(st, c).args = st.args /\ Scan(st, c).cur = cur /\ Scan(st, c).escape = esc
      /\ Scan(st, c).quote = quo /\ Scan(st, c).depth = dep
  BY <1>1, <1>2, <1>3, <1>4, <1>5 DEF ScanState
<1> QED
  BY <1>6 DEF cur, esc, quo, dep

\* The state after a character is defined by the one before it.
LEMMA LoopDef ==
    ASSUME NEW text \in Seq(Token)
    PROVE  Loop(text) = [i \in 0 .. Len(text) |->
                           IF i = 0 THEN Start ELSE Scan(Loop(text)[i - 1], text[i])]
<1> DEFINE Is(g, m) == g = [i \in 0 .. m |-> IF i = 0 THEN Start ELSE Scan(g[i - 1], text[i])]
           T == {m \in Nat : \E g : Is(g, m)}
<1>1. 0 \in T
  <2> DEFINE g == [i \in 0 .. 0 |-> Start]
  <2>1. Is(g, 0)
    OBVIOUS
  <2> QED
    BY <2>1
<1>2. ASSUME NEW m \in Nat, m \in T PROVE m + 1 \in T
  <2>1. PICK g : Is(g, m)
    BY <1>2
  <2> DEFINE h == [i \in 0 .. m + 1 |-> IF i = m + 1 THEN Scan(g[m], text[m + 1]) ELSE g[i]]
  <2>2. ASSUME NEW i \in 0 .. m + 1
        PROVE  h[i] = IF i = 0 THEN Start ELSE Scan(h[i - 1], text[i])
    <3>1. CASE i = m + 1
      <4>1. h[i] = Scan(g[m], text[m + 1]) /\ i # 0 /\ i - 1 = m
        BY <3>1
      <4>2. m \in 0 .. m + 1 /\ m # m + 1
        OBVIOUS
      <4>3. h[m] = g[m]
        BY <4>2
      <4> HIDE DEF h
      <4> QED
        BY <3>1, <4>1, <4>3
    <3>2. CASE i # m + 1
      <4>1. h[i] = g[i] /\ i \in 0 .. m
        BY <3>2
      <4>2. g[i] = IF i = 0 THEN Start ELSE Scan(g[i - 1], text[i])
        BY <2>1, <4>1
      <4>3. ASSUME i # 0 PROVE h[i - 1] = g[i - 1]
        <5>1. i - 1 \in 0 .. m + 1 /\ i - 1 # m + 1
          BY <4>3
        <5> QED
          BY <5>1
      <4> HIDE DEF h
      <4> QED
        BY <4>1, <4>2, <4>3
    <3> QED
      BY <3>1, <3>2
  <2>3. h = [i \in 0 .. m + 1 |-> h[i]]
    OBVIOUS
  <2> HIDE DEF h
  <2>4. Is(h, m + 1)
    BY <2>2, <2>3, Zenon
  <2>5. m + 1 \in Nat
    OBVIOUS
  <2> HIDE DEF Is
  <2> QED
    BY <2>4, <2>5, Zenon
<1> HIDE DEF T
<1>3. Len(text) \in T
  BY <1>1, <1>2, SetInduction
<1> USE DEF T
<1>4. \E g : Is(g, Len(text))
  BY <1>3
<1> QED
  BY <1>4, Zenon DEF Loop

\* The first state, and each from the one before; all are states of the loop.
LEMMA LoopNext ==
    ASSUME NEW text \in Seq(Token)
    PROVE  /\ Loop(text)[0] = Start
           /\ \A i \in 0 .. Len(text) - 1 : Loop(text)[i + 1] = Scan(Loop(text)[i], text[i + 1])
           /\ \A i \in 0 .. Len(text) : Loop(text)[i] \in ScanState
<1> DEFINE st == Loop(text)
           T == {i \in Nat : i <= Len(text) => st[i] \in ScanState}
<1>1. st = [i \in 0 .. Len(text) |-> IF i = 0 THEN Start ELSE Scan(st[i - 1], text[i])]
  BY LoopDef
<1> HIDE DEF st
<1>2. st[0] = Start
  BY <1>1
<1>3. ASSUME NEW i \in 0 .. Len(text) - 1 PROVE st[i + 1] = Scan(st[i], text[i + 1])
  <2>1. i + 1 \in 0 .. Len(text) /\ i + 1 # 0 /\ (i + 1) - 1 = i
    OBVIOUS
  <2>2. st[i + 1] = Scan(st[(i + 1) - 1], text[i + 1])
    BY <1>1, <2>1
  <2> QED
    BY <2>1, <2>2
<1>4. Start \in ScanState
  <2>1. <<>> \in Seq(Seq(Token)) /\ <<>> \in Seq(Token)
    BY EmptySeq
  <2> QED
    BY <2>1 DEF Start, ScanState
<1>5. 0 \in T
  BY <1>2, <1>4
<1>6. ASSUME NEW i \in Nat, i \in T PROVE i + 1 \in T
  <2>1. CASE i + 1 <= Len(text)
    <3>1. st[i] \in ScanState /\ i \in 0 .. Len(text) - 1 /\ i + 1 \in 1 .. Len(text)
      BY <1>6, <2>1
    <3>2. text[i + 1] \in Token
      BY <3>1, ElementOfSeq
    <3>3. Scan(st[i], text[i + 1]) \in ScanState
      BY <3>1, <3>2, ScanSplits, ScanGoesOn
    <3> QED
      BY <1>3, <3>1, <3>3
  <2>2. CASE ~(i + 1 <= Len(text))
    BY <2>2
  <2> QED
    BY <2>1, <2>2
<1> HIDE DEF T
<1>7. \A i \in Nat : i \in T
  BY <1>5, <1>6, SetInduction
<1>8. \A i \in 0 .. Len(text) : st[i] \in ScanState
  BY <1>7 DEF T
<1> QED
  BY <1>2, <1>3, <1>8 DEF st

-----------------------------------------------------------------------------
(* Types                                                                   *)

Statement == [type : Types, args : Seq(Seq(Token)), line : Nat]

LEMMA ExtractFunctionArgumentsType ==
    ASSUME NEW s \in Seq(Token)
    PROVE  ExtractFunctionArguments(s) \in Seq(Seq(Token))
<1> DEFINE text == Between(s)
           st == Loop(text)[Len(text)]
<1>1. text \in Seq(Token)
  BY BetweenType
<1>2. Len(text) \in 0 .. Len(text)
  BY <1>1
<1> HIDE DEF text
<1>3. st \in ScanState
  BY <1>1, <1>2, LoopNext
<1> HIDE DEF st
<1>4. st.args \in Seq(Seq(Token)) /\ st.cur \in Seq(Token)
  BY <1>3 DEF ScanState
<1>5. TrimWhitespace(st.cur) \in Seq(Token)
  BY <1>4, TrimWhitespaceType
<1>6. Append(st.args, TrimWhitespace(st.cur)) \in Seq(Seq(Token)) /\ <<>> \in Seq(Seq(Token))
  BY <1>4, <1>5, AppendProperties, EmptySeq
<1>7. ExtractFunctionArguments(s) = IF text = <<>> THEN <<>> ELSE Append(st.args, TrimWhitespace(st.cur))
  BY DEF ExtractFunctionArguments, text, st
<1> QED
  BY <1>6, <1>7

LEMMA ExtractStringLiteralType ==
    ASSUME NEW s \in Seq(Token)
    PROVE  ExtractStringLiteral(s) \in Seq(Token)
<1> DEFINE t == TrimWhitespace(s)
<1>1. t \in Seq(Token)
  BY TrimWhitespaceType
<1>2. ExtractStringLiteral(s) = t \/ (Len(t) >= 2 /\ ExtractStringLiteral(s) = SubSeq(t, 2, Len(t) - 1))
  BY DEF ExtractStringLiteral
<1> HIDE DEF t
<1>3. 2 \in Nat \ {0} /\ Len(t) - 1 \in Int /\ Len(t) - 1 <= Len(t)
  BY <1>1
<1>4. SubSeq(t, 2, Len(t) - 1) \in Seq(Token)
  BY <1>1, <1>3, Part
<1> QED
  BY <1>1, <1>2, <1>4

LEMMA UsedType ==
    ASSUME NEW kind \in Types
    PROVE  Used[kind] \in Nat
  BY DEF Types, Used

LEMMA ParseLineType ==
    ASSUME NEW kind \in Types, NEW s \in Seq(Token), pos \in Nat
    PROVE  ParseLine(kind, s) \in Statement /\ ParseLine(kind, s).line = pos + 1
<1> DEFINE args == IF kind = "CONSOLE_LOG" THEN <<Between(s)>> ELSE ExtractFunctionArguments(s)
           n == IF Len(args) < Used[kind] THEN Len(args) ELSE Used[kind]
           used == IF Len(args) < Needed(kind) THEN <<>> ELSE SubSeq(args, 1, n)
           lits == [i \in DOMAIN used |-> ExtractStringLiteral(used[i])]
<1>1. args \in Seq(Seq(Token))
  <2>1. Between(s) \in Seq(Token) /\ ExtractFunctionArguments(s) \in Seq(Seq(Token))
    BY BetweenType, ExtractFunctionArgumentsType
  <2>2. <<Between(s)>> \in Seq(Seq(Token))
    BY <2>1
  <2> QED
    BY <2>1, <2>2
<1> HIDE DEF args
<1>2. n \in Int /\ n <= Len(args)
  BY <1>1, UsedType
<1> HIDE DEF n
<1>3. used \in Seq(Seq(Token))
  <2>1. 1 \in Nat \ {0}
    OBVIOUS
  <2>2. SubSeq(args, 1, n) \in Seq(Seq(Token)) /\ <<>> \in Seq(Seq(Token))
    BY <1>1, <1>2, <2>1, Part, EmptySeq
  <2> QED
    BY <2>2
<1> HIDE DEF used
<1>4. lits \in Seq(Seq(Token))
  <2>1. DOMAIN used = 1 .. Len(used) /\ Len(used) \in Nat
    BY <1>3
  <2>2. ASSUME NEW i \in 1 .. Len(used) PROVE ExtractStringLiteral(used[i]) \in Seq(Token)
    <3>1. used[i] \in Seq(Token)
      BY <1>3, ElementOfSeq
    <3> QED
      BY <3>1, ExtractStringLiteralType
  <2>3. lits \in [1 .. Len(used) -> Seq(Token)]
    BY <2>1, <2>2
  <2> HIDE DEF lits
  <2> QED
    BY <2>1, <2>3, SeqDef
<1>5. ParseLine(kind, s) = [type |-> kind, args |-> lits, line |-> pos + 1]
  BY DEF ParseLine, lits, used, n, args
<1> HIDE DEF lits
<1> QED
  BY <1>4, <1>5 DEF Statement

LEMMA TypeInit == Init => TypeOK
<1> SUFFICES ASSUME Init PROVE TypeOK
  OBVIOUS
<1>1. code \in Seq(Lines)
  BY ProgramsAssumption DEF Init, Lines
<1>2. 0 \in 0 .. Len(code)
  BY <1>1
<1>3. <<>> \in Seq(Statement)
  BY EmptySeq
<1>4. code \in Programs /\ pos \in 0 .. Len(code) /\ insideCallback \in BOOLEAN
  BY <1>2 DEF Init
<1>5. braceDepth \in Int
  BY DEF Init
<1>6. statements \in Seq(Statement)
  BY <1>3 DEF Init
<1> QED
  BY <1>4, <1>5, <1>6, Zenon DEF TypeOK, Statement

\* What an iteration knows of the line it reads.
LEMMA LineRead ==
    ASSUME TypeOK, pos < Len(code)
    PROVE  /\ code \in Seq(Lines) /\ pos \in Nat
           /\ pos + 1 \in 1 .. Len(code) /\ pos \in 0 .. Len(code) - 1
           /\ code[pos + 1].kind \in Types \cup {"UNKNOWN"}
           /\ Text(code, pos + 1) \in Seq(Token) /\ Len(Text(code, pos + 1)) \in Nat
<1>1. code \in Seq(Lines)
  BY ProgramsAssumption DEF TypeOK, Lines
<1>2. pos \in Nat /\ pos + 1 \in 1 .. Len(code) /\ pos \in 0 .. Len(code) - 1
  BY <1>1 DEF TypeOK
<1>3. code[pos + 1] \in Lines
  BY <1>1, <1>2, ElementOfSeq
<1> QED
  BY <1>1, <1>2, <1>3, TextType DEF Lines

LEMMA TypeStep == TypeOK /\ [Next]_vars => TypeOK'
<1> SUFFICES ASSUME TypeOK, [Next]_vars PROVE TypeOK'
  OBVIOUS
<1>1. CASE ParseNext
  <2> DEFINE kind == code[pos + 1].kind
             s == Text(code, pos + 1)
  <2>1. pos < Len(code) /\ pos' = pos + 1 /\ code' = code
    BY <1>1 DEF ParseNext
  <2>2. /\ code \in Seq(Lines) /\ pos \in Nat /\ pos + 1 \in 1 .. Len(code)
        /\ kind \in Types \cup {"UNKNOWN"} /\ s \in Seq(Token) /\ Len(s) \in Nat
    BY <2>1, LineRead
  <2>3. insideCallback' \in BOOLEAN
    BY <1>1 DEF ParseNext, TypeOK
  <2>4. braceDepth' \in Int
    <3>1. Net(s, Len(s)) \in Int
      BY <2>2, NetNext
    <3>2. braceDepth' = braceDepth \/ braceDepth' = braceDepth + Net(s, Len(s))
      BY <1>1 DEF ParseNext, Text
    <3>3. braceDepth \in Int
      BY DEF TypeOK
    <3> HIDE DEF s
    <3> QED
      BY <3>1, <3>2, <3>3
  <2>5. statements' \in Seq(Statement)
    <3>1. \/ statements' = statements
          \/ kind # "UNKNOWN" /\ statements' = Append(statements, ParseLine(kind, s))
      BY <1>1 DEF ParseNext, Text
    <3>2. statements \in Seq(Statement)
      BY DEF TypeOK, Statement
    <3>3. CASE statements' = statements
      BY <3>2, <3>3
    <3>4. CASE kind # "UNKNOWN" /\ statements' = Append(statements, ParseLine(kind, s))
      <4>1. kind \in Types
        BY <2>2, <3>4
      <4>2. ParseLine(kind, s) \in Statement
        BY <2>2, <4>1, ParseLineType
      <4>3. Append(statements, ParseLine(kind, s)) \in Seq(Statement)
        BY <3>2, <4>2, AppendProperties
      <4> QED
        BY <3>4, <4>3
    <3> QED
      BY <3>1, <3>3, <3>4
  <2>6. pos' \in 0 .. Len(code)
    BY <2>1, <2>2
  <2> QED
    BY <2>1, <2>3, <2>4, <2>5, <2>6 DEF TypeOK, Statement
<1>2. CASE UNCHANGED vars
  BY <1>2 DEF TypeOK, vars
<1> QED
  BY <1>1, <1>2 DEF Next, Parsed

-----------------------------------------------------------------------------
(* The two scalars and the blocks they stand for                           *)

\* The depth is that of the lines read.
DepthCounted == braceDepth = DepthAfter(code)[pos]

\* The flag stands for an open outermost callback.  (That some callback is open
\* is not enough: a line could close it and leave another one open.)
FlagStands ==
    WellFormed(code) =>
        IF insideCallback THEN InOutermost(code, pos) ELSE ~InCallback(code, pos)

IInv == TypeOK /\ DepthCounted /\ FlagStands /\ ParsesOutsideCallbacks

LEMMA InvInit == Init => IInv
<1> SUFFICES ASSUME Init PROVE IInv
  OBVIOUS
<1>1. TypeOK
  BY TypeInit
<1>2. code \in Seq(Lines)
  BY ProgramsAssumption DEF Init, Lines
<1>3. Len(code) \in Nat /\ \A n \in 1 .. Len(code) : Len(Text(code, n)) \in Nat
  BY <1>2, TextType
<1>4. DepthAfter(code)[0] = 0
  BY <1>3, DepthAfterType
<1>5. DepthCounted
  BY <1>4 DEF Init, DepthCounted
<1>6. 1 .. 0 = {}
  OBVIOUS
<1>7. FlagStands
  BY <1>6 DEF Init, FlagStands, InCallback
<1>8. ParsesOutsideCallbacks
  <2>1. DOMAIN statements = {}
    BY DEF Init
  <2>2. Outside(code, pos) = {}
    BY <1>6 DEF Init, Outside
  <2> QED
    BY <2>1, <2>2 DEF ParsesOutsideCallbacks
<1> QED
  BY <1>1, <1>5, <1>7, <1>8 DEF IInv

\* An iteration, with the empty line among the others: it has no braces and no
\* arrow, so that only a flag at depth zero would tell it apart.
LEMMA Iteration ==
    ASSUME TypeOK, DepthCounted, ParseNext
    PROVE  /\ braceDepth' = DepthAfter(code)[pos + 1]
           /\ DepthAfter(code)[pos + 1] \in Int
           /\ \/ insideCallback' = ((insideCallback \/ Arrow(code, pos + 1)) /\ braceDepth' > 0)
              \/ ~Arrow(code, pos + 1) /\ insideCallback' = insideCallback /\ braceDepth' = braceDepth
           /\ IF \/ insideCallback \/ Has(Text(code, pos + 1), {"=>", "err"})
                 \/ code[pos + 1].kind = "UNKNOWN"
                THEN statements' = statements
                ELSE statements' = Append(statements, ParseLine(code[pos + 1].kind, Text(code, pos + 1)))
<1> DEFINE kind == code[pos + 1].kind
           s == Text(code, pos + 1)
           empty == kind = "UNKNOWN" /\ TrimWhitespace(s) = <<>>
           inside == insideCallback \/ Arrow(code, pos + 1)
           depth == braceDepth + Net(s, Len(s))
<1>1. pos < Len(code)
  BY DEF ParseNext
<1>2. /\ code \in Seq(Lines) /\ pos \in 0 .. Len(code) - 1 /\ pos + 1 \in 1 .. Len(code)
      /\ s \in Seq(Token) /\ Len(s) \in Nat
  BY <1>1, LineRead
<1>3. /\ braceDepth' = IF empty THEN braceDepth ELSE depth
      /\ insideCallback' = IF empty THEN insideCallback ELSE inside /\ depth > 0
      /\ statements' = IF empty \/ inside \/ Has(s, {"err"}) \/ kind = "UNKNOWN"
                         THEN statements ELSE Append(statements, ParseLine(kind, s))
  BY DEF ParseNext, Text, Arrow, CallbackGoesOn
<1>4. braceDepth \in Int /\ Net(s, Len(s)) \in Int
  BY <1>2, NetNext DEF TypeOK
<1>5. DepthAfter(code)[pos + 1] = depth
  <2>1. Len(code) \in Nat /\ \A n \in 1 .. Len(code) : Len(Text(code, n)) \in Nat
    BY <1>2, TextType
  <2>2. DepthAfter(code)[pos + 1] = DepthAfter(code)[pos] + Net(Text(code, pos + 1), Len(Text(code, pos + 1)))
    BY <1>2, <2>1, DepthAfterType
  <2> QED
    BY <2>2 DEF DepthCounted
<1>6. empty => Net(s, Len(s)) = 0 /\ ~Arrow(code, pos + 1)
  BY <1>2, Blank DEF Arrow
<1>7. empty => depth = braceDepth
  <2> HIDE DEF s
  <2> QED
    BY <1>4, <1>6
<1>8. depth \in Int
  <2> HIDE DEF s
  <2> QED
    BY <1>4
<1>9. Has(s, {"=>", "err"}) <=> Arrow(code, pos + 1) \/ Has(s, {"err"})
  BY DEF Has, Arrow
<1>10. empty => kind = "UNKNOWN"
  OBVIOUS
<1> HIDE DEF empty, depth, s, kind
<1>11. braceDepth' = depth
  BY <1>3, <1>7
<1>12. \/ insideCallback' = (inside /\ braceDepth' > 0)
       \/ ~Arrow(code, pos + 1) /\ insideCallback' = insideCallback /\ braceDepth' = braceDepth
  BY <1>3, <1>6, <1>7, <1>11, Zenon
<1>13. IF insideCallback \/ Has(s, {"=>", "err"}) \/ kind = "UNKNOWN"
         THEN statements' = statements
         ELSE statements' = Append(statements, ParseLine(kind, s))
  BY <1>3, <1>9, <1>10, Zenon
<1> QED
  BY <1>5, <1>8, <1>11, <1>12, <1>13, Zenon DEF s, kind

\* The four cases of a line: it begins a callback, goes on with one, ends one,
\* or is outside.
LEMMA FlagStep ==
    ASSUME TypeOK, DepthCounted, FlagStands, ParseNext
    PROVE  FlagStands'
<1> DEFINE n == pos + 1
<1>1. pos < Len(code) /\ pos' = n /\ code' = code
  BY DEF ParseNext
<1>2. code \in Seq(Lines) /\ n \in 1 .. Len(code) /\ n - 1 = pos /\ pos \in 0 .. Len(code)
  BY <1>1, LineRead
<1>3. /\ braceDepth' = DepthAfter(code)[n] /\ DepthAfter(code)[n] \in Int
      /\ \/ insideCallback' = ((insideCallback \/ Arrow(code, n)) /\ braceDepth' > 0)
         \/ ~Arrow(code, n) /\ insideCallback' = insideCallback /\ braceDepth' = braceDepth
  BY Iteration
<1> HIDE DEF n
<1> SUFFICES ASSUME WellFormed(code)
             PROVE  IF insideCallback' THEN InOutermost(code, n) ELSE ~InCallback(code, n)
  BY <1>1 DEF FlagStands
<1>4. IF insideCallback THEN InOutermost(code, n - 1) ELSE ~InCallback(code, n - 1)
  BY <1>2 DEF FlagStands
<1>5. DepthAfter(code)[n] >= 0
  <2>1. Len(Text(code, n)) \in 0 .. Len(Text(code, n)) /\ n \in DOMAIN code
    BY <1>2, TextType
  <2>2. Depth(code, n, Len(Text(code, n))) >= 0
    BY <2>1 DEF WellFormed
  <2> QED
    BY <1>2, <2>2, DepthNext
<1>6. insideCallback => braceDepth > 0
  <2> SUFFICES ASSUME insideCallback PROVE braceDepth > 0
    OBVIOUS
  <2>1. PICK k \in 1 .. pos : \E x \in DOMAIN Text(code, k) : Outermost(code, k, x, pos)
    BY <1>2, <1>4 DEF InOutermost
  <2>2. PICK x \in DOMAIN Text(code, k) : Open(code, k, x, pos) /\ Depth(code, k, x) = 1
    BY <2>1 DEF Outermost
  <2>3. pos \in 1 .. Len(code)
    BY <1>2
  <2>4. DepthAfter(code)[pos] >= 1
    BY <1>2, <2>2, <2>3, OpenDepth
  <2>5. braceDepth \in Int /\ braceDepth >= 1
    BY <2>4 DEF DepthCounted, TypeOK
  <2> QED
    BY <2>5
<1>7. CASE insideCallback'
  <2>1. DepthAfter(code)[n] > 0 /\ (insideCallback \/ Arrow(code, n))
    BY <1>3, <1>6, <1>7
  <2>2. CASE Arrow(code, n)
    BY <1>2, <1>7, <2>1, <2>2, ArrowOpens
  <2>3. CASE ~Arrow(code, n)
    BY <1>2, <1>4, <1>7, <2>1, <2>3, OutermostGoesOn
  <2> QED
    BY <2>2, <2>3
<1>8. CASE ~insideCallback'
  <2>1. CASE DepthAfter(code)[n] = 0
    BY <1>2, <1>8, <2>1, NoneAtZero
  <2>2. CASE DepthAfter(code)[n] # 0
    <3>1. braceDepth' > 0
      BY <1>3, <1>5, <2>2
    <3>2. ~insideCallback /\ ~Arrow(code, n)
      <4>1. CASE insideCallback' = ((insideCallback \/ Arrow(code, n)) /\ braceDepth' > 0)
        <5>1. ~((insideCallback \/ Arrow(code, n)) /\ braceDepth' > 0)
          BY <1>8, <4>1, Zenon
        <5> QED
          BY <3>1, <5>1, Zenon
      <4>2. CASE ~Arrow(code, n) /\ insideCallback' = insideCallback
        BY <1>8, <4>2, Zenon
      <4> QED
        BY <1>3, <4>1, <4>2, Zenon
    <3>3. ~InCallback(code, n)
      BY <1>2, <1>4, <3>2, NoneBegins
    <3> QED
      BY <1>8, <3>3
  <2> QED
    BY <2>1, <2>2
<1> QED
  BY <1>7, <1>8

\* A line is taken if and only if it is outside.
LEMMA TakenStep ==
    ASSUME TypeOK, DepthCounted, FlagStands, ParsesOutsideCallbacks, ParseNext
    PROVE  ParsesOutsideCallbacks'
<1> DEFINE n == pos + 1
           kind == code[n].kind
           s == Text(code, n)
           skip == insideCallback \/ Has(s, {"=>", "err"}) \/ kind = "UNKNOWN"
           out == ~InCallback(code, n - 1) /\ ~Has(s, {"=>", "err"}) /\ kind # "UNKNOWN"
           S == {statements[k].line : k \in DOMAIN statements}
<1>1. pos < Len(code) /\ pos' = n /\ code' = code
  BY DEF ParseNext
<1>2. /\ pos \in Nat /\ n \in 1 .. Len(code) /\ n - 1 = pos /\ s \in Seq(Token)
      /\ kind \in Types \cup {"UNKNOWN"}
  BY <1>1, LineRead
<1>3. IF skip THEN statements' = statements
              ELSE statements' = Append(statements, ParseLine(kind, s))
  BY Iteration
<1>4. statements \in Seq(Statement)
  BY DEF TypeOK, Statement
<1> SUFFICES ASSUME WellFormed(code)
             PROVE  /\ {statements'[k].line : k \in DOMAIN statements'} = Outside(code, n)
                    /\ \A j, k \in DOMAIN statements' : j < k => statements'[j].line < statements'[k].line
  BY <1>1 DEF ParsesOutsideCallbacks
<1>5. /\ S = Outside(code, pos)
      /\ \A j, k \in DOMAIN statements : j < k => statements[j].line < statements[k].line
  BY DEF ParsesOutsideCallbacks
<1>6. skip <=> ~out
  <2>1. insideCallback <=> InCallback(code, n - 1)
    <3>1. CASE insideCallback
      BY <1>2, <3>1, OutermostInCallback DEF FlagStands
    <3>2. CASE ~insideCallback
      BY <1>2, <3>2 DEF FlagStands
    <3> QED
      BY <3>1, <3>2
  <2> QED
    BY <2>1
<1>7. Outside(code, n) = IF out THEN Outside(code, pos) \cup {n} ELSE Outside(code, pos)
  <2>1. 1 .. n = (1 .. pos) \cup {n} /\ n \notin 1 .. pos
    BY <1>2
  <2>2. Outside(code, n) = {i \in 1 .. n : i \in Outside(code, pos) \/ (i = n /\ out)}
    <3> HIDE DEF n
    <3> QED
      BY <2>1, Zenon DEF Outside, out, s, kind
  <2> HIDE DEF out
  <2>3. Outside(code, pos) \subseteq 1 .. pos
    BY DEF Outside
  <2> HIDE DEF n
  <2> QED
    BY <2>1, <2>2, <2>3
<1> HIDE DEF out, S
<1>8. CASE skip
  <2>1. statements' = statements
    BY <1>3, <1>8
  <2>2. Outside(code, n) = Outside(code, pos)
    BY <1>6, <1>7, <1>8
  <2> QED
    BY <1>5, <2>1, <2>2 DEF S
<1>9. CASE ~skip
  <2> DEFINE r == ParseLine(kind, s)
             new == Append(statements, r)
             m == Len(statements)
  <2>1. kind \in Types /\ statements' = new
    BY <1>2, <1>3, <1>9
  <2>2. r \in Statement /\ r.line = n
    BY <1>2, <2>1, ParseLineType
  <2>3. Outside(code, n) = Outside(code, pos) \cup {n}
    BY <1>6, <1>7, <1>9
  <2> HIDE DEF r, skip
  <2>4. /\ new \in Seq(Statement) /\ Len(new) = m + 1 /\ m \in Nat
        /\ \A i \in 1 .. m : new[i] = statements[i]
        /\ new[m + 1] = r
    BY <1>4, <2>2, AppendProperties
  <2>5. DOMAIN new = 1 .. m + 1 /\ DOMAIN statements = 1 .. m
    BY <1>4, <2>4
  <2> HIDE DEF new, m
  <2>6. {new[k].line : k \in DOMAIN new} = S \cup {n}
    <3>1. DOMAIN new = DOMAIN statements \cup {m + 1}
      BY <2>4, <2>5
    <3>2. \A k \in DOMAIN statements : new[k].line = statements[k].line
      BY <2>4, <2>5
    <3>3. new[m + 1].line = n
      BY <2>2, <2>4
    <3> HIDE DEF n
    <3> QED
      BY <3>1, <3>2, <3>3, Zenon DEF S
  <2>7. ASSUME NEW j \in DOMAIN new, NEW k \in DOMAIN new, j < k
        PROVE  new[j].line < new[k].line
    <3>1. j \in 1 .. m
      BY <2>4, <2>5, <2>7
    <3>2. new[j] = statements[j] /\ statements[j].line \in S
      BY <2>4, <2>5, <3>1 DEF S
    <3>3. CASE k = m + 1
      <4>1. statements[j].line \in 1 .. pos
        BY <1>5, <3>2 DEF Outside
      <4>2. new[k].line = n
        BY <2>2, <2>4, <3>3
      <4> QED
        BY <1>2, <3>2, <4>1, <4>2
    <3>4. CASE k # m + 1
      <4>1. k \in 1 .. m
        BY <2>4, <2>5, <3>4
      <4>2. new[k] = statements[k]
        BY <2>4, <4>1
      <4> QED
        BY <1>5, <2>5, <2>7, <3>1, <3>2, <4>1, <4>2
    <3> QED
      BY <3>3, <3>4
  <2> HIDE DEF n
  <2> QED
    BY <1>5, <2>1, <2>3, <2>6, <2>7
<1> QED
  BY <1>8, <1>9

LEMMA InvStep == IInv /\ [Next]_vars => IInv'
<1> SUFFICES ASSUME IInv, [Next]_vars PROVE IInv'
  OBVIOUS
<1> USE DEF IInv
<1>1. TypeOK'
  BY TypeStep
<1>2. CASE ParseNext
  <2>1. pos' = pos + 1 /\ code' = code
    BY <1>2 DEF ParseNext
  <2>2. DepthCounted'
    BY <1>2, <2>1, Iteration DEF DepthCounted
  <2> QED
    BY <1>1, <1>2, <2>2, FlagStep, TakenStep
<1>3. CASE UNCHANGED vars
  BY <1>1, <1>3 DEF vars, DepthCounted, FlagStands, ParsesOutsideCallbacks
<1> QED
  BY <1>2, <1>3 DEF Next, Parsed

LEMMA Inductive == Spec => []IInv
  BY InvInit, InvStep, PTL DEF Spec

\* Every state of Parse() has the types of its variables; a statement's arguments
\* are texts, whatever the line.
THEOREM ParserTypeCorrect == Spec => []TypeOK
  BY Inductive, PTL DEF IInv

\* A depth and a flag are enough to keep track of callbacks: of a well formed
\* program of any length, Parse() takes exactly the statements outside of
\* callbacks, in their order.
THEOREM ParserOutsideCallbacks == Spec => []ParsesOutsideCallbacks
  BY Inductive, PTL DEF IInv

-----------------------------------------------------------------------------
(* Quotes and parentheses in a text                                        *)

LEMMA Parity ==
    ASSUME NEW m \in Nat
    PROVE  (m + 1) % 2 = 0 <=> m % 2 # 0
  OBVIOUS

\* Places of a set, up to one: one more place adds one or none.
LEMMA PlacesNext ==
    ASSUME NEW n \in Nat, NEW C, C \subseteq 1 .. n, NEW i \in Nat
    PROVE  /\ IsFiniteSet({c \in C : c <= i})
           /\ Cardinality({c \in C : c <= i}) \in Nat
           /\ Cardinality({c \in C : c <= 0}) = 0
           /\ i + 1 \in C => Cardinality({c \in C : c <= i + 1}) = Cardinality({c \in C : c <= i}) + 1
           /\ i + 1 \notin C => Cardinality({c \in C : c <= i + 1}) = Cardinality({c \in C : c <= i})
<1> DEFINE P(j) == {c \in C : c <= j}
<1>0. \A c \in C : ~(c <= 0) /\ (c <= i + 1 <=> c <= i \/ c = i + 1)
  <2>1. ASSUME NEW c \in C PROVE ~(c <= 0) /\ (c <= i + 1 <=> c <= i \/ c = i + 1)
    <3>1. c \in 1 .. n
      OBVIOUS
    <3> QED
      BY <3>1
  <2> QED
    BY <2>1
<1>1. IsFiniteSet(P(i))
  <2>1. P(i) \in SUBSET (1 .. n)
    BY Zenon
  <2>2. IsFiniteSet(1 .. n)
    BY FS_Interval
  <2> HIDE DEF P
  <2> QED
    BY <2>1, <2>2, FS_Subset
<1>2. P(0) = {}
  BY <1>0, Zenon
<1>3. i + 1 \in C => P(i + 1) = P(i) \cup {i + 1}
  BY <1>0, Zenon
<1>4. i + 1 \notin C => P(i + 1) = P(i)
  BY <1>0, Zenon
<1>5. i + 1 \notin P(i)
  <2>1. ~(i + 1 <= i)
    OBVIOUS
  <2> QED
    BY <2>1, Zenon
<1> HIDE DEF P
<1>6. Cardinality(P(i)) \in Nat /\ Cardinality(P(0)) = 0
  BY <1>1, <1>2, FS_CardinalityType, FS_EmptySet
<1>7. i + 1 \in C => Cardinality(P(i + 1)) = Cardinality(P(i)) + 1
  BY <1>1, <1>3, <1>5, FS_AddElement
<1>8. i + 1 \notin C => Cardinality(P(i + 1)) = Cardinality(P(i))
  BY <1>4
<1> QED
  BY <1>1, <1>6, <1>7, <1>8 DEF P

\* The nesting, character by character.
LEMMA NestingNext ==
    ASSUME NEW s \in Seq(Token), NEW i \in 0 .. Len(s) - 1
    PROVE  /\ Nesting(s, 0) = 0 /\ Nesting(s, i) \in Int
           /\ i + 1 \in Unquoted(s) /\ s[i + 1] = "(" => Nesting(s, i + 1) = Nesting(s, i) + 1
           /\ i + 1 \in Unquoted(s) /\ s[i + 1] = ")" => Nesting(s, i + 1) = Nesting(s, i) - 1
           /\ i + 1 \notin Unquoted(s) \/ s[i + 1] \notin {"(", ")"} => Nesting(s, i + 1) = Nesting(s, i)
<1> DEFINE O == {j \in Unquoted(s) : s[j] = "("}
           C == {j \in Unquoted(s) : s[j] = ")"}
           o(k) == Cardinality({c \in O : c <= k})
           e(k) == Cardinality({c \in C : c <= k})
<1>1. O \subseteq 1 .. Len(s) /\ C \subseteq 1 .. Len(s) /\ Len(s) \in Nat /\ i \in Nat
  BY DEF Unquoted
<1>2. \A k : Nesting(s, k) = o(k) - e(k)
  <2> TAKE k
  <2>1. /\ {j \in Unquoted(s) : j <= k /\ s[j] = "("} = {c \in O : c <= k}
        /\ {j \in Unquoted(s) : j <= k /\ s[j] = ")"} = {c \in C : c <= k}
    OBVIOUS
  <2> QED
    BY <2>1 DEF Nesting
<1>3. /\ i + 1 \in O <=> i + 1 \in Unquoted(s) /\ s[i + 1] = "("
      /\ i + 1 \in C <=> i + 1 \in Unquoted(s) /\ s[i + 1] = ")"
  OBVIOUS
<1> HIDE DEF O, C
<1>4. /\ o(i) \in Nat /\ o(0) = 0
      /\ i + 1 \in O => o(i + 1) = o(i) + 1
      /\ i + 1 \notin O => o(i + 1) = o(i)
  BY <1>1, PlacesNext
<1>5. /\ e(i) \in Nat /\ e(0) = 0
      /\ i + 1 \in C => e(i + 1) = e(i) + 1
      /\ i + 1 \notin C => e(i + 1) = e(i)
  BY <1>1, PlacesNext
<1> HIDE DEF o, e
<1>6. Nesting(s, 0) = 0 /\ Nesting(s, i) \in Int
  BY <1>2, <1>4, <1>5
<1>7. ASSUME i + 1 \in O, i + 1 \notin C PROVE Nesting(s, i + 1) = Nesting(s, i) + 1
  BY <1>2, <1>4, <1>5, <1>7
<1>8. ASSUME i + 1 \notin O, i + 1 \in C PROVE Nesting(s, i + 1) = Nesting(s, i) - 1
  BY <1>2, <1>4, <1>5, <1>8
<1>9. ASSUME i + 1 \notin O, i + 1 \notin C PROVE Nesting(s, i + 1) = Nesting(s, i)
  BY <1>2, <1>4, <1>5, <1>9
<1>10. "(" # ")"
  OBVIOUS
<1> QED
  BY <1>3, <1>6, <1>7, <1>8, <1>9, <1>10, Zenon

\* What the loop keeps of the text so far: no escape, the parity of the quotes,
\* and the nesting.
Tracks(s, i) ==
    /\ ~Loop(s)[i].escape
    /\ Loop(s)[i].quote = IF Number(s, i, {"sq"}) % 2 = 0 THEN "none" ELSE "sq"
    /\ Loop(s)[i].depth = Nesting(s, i)

\* A character is in a quotation if the quotes up to it say so; only a quote
\* itself changes that.
LEMMA PlainPlace ==
    ASSUME NEW s \in Seq(Token), NEW i \in 0 .. Len(s) - 1, Tracks(s, i), s[i + 1] # "sq"
    PROVE  /\ i + 1 \in Unquoted(s) <=> Plainly(Loop(s)[i])
           /\ Number(s, i + 1, {"sq"}) = Number(s, i, {"sq"})
<1>1. i \in Nat /\ i + 1 \in DOMAIN s
  OBVIOUS
<1>2. Number(s, i + 1, {"sq"}) = Number(s, i, {"sq"})
  BY <1>1, NumberNext
<1>3. i + 1 \in Unquoted(s) <=> Number(s, i, {"sq"}) % 2 = 0
  BY <1>1, <1>2 DEF Unquoted
<1>4. Plainly(Loop(s)[i]) <=> Number(s, i, {"sq"}) % 2 = 0
  BY Zenon DEF Plainly, Tracks
<1> QED
  BY <1>2, <1>3, <1>4

\* The loop splits exactly at the cuts.
LEMMA SplitsAtCuts ==
    ASSUME NEW s \in Seq(Token), NEW i \in 0 .. Len(s) - 1, Tracks(s, i)
    PROVE  Splits(Loop(s)[i], s[i + 1]) <=> i + 1 \in Cuts(s)
<1>1. CASE s[i + 1] = "comma"
  <2>1. s[i + 1] # "sq" /\ s[i + 1] \notin {"(", ")"}
    BY <1>1
  <2>2. i + 1 \in Unquoted(s) <=> Plainly(Loop(s)[i])
    BY <2>1, PlainPlace
  <2>3. Nesting(s, i + 1) = Nesting(s, i)
    BY <2>1, NestingNext
  <2>4. Loop(s)[i].depth = Nesting(s, i)
    BY DEF Tracks
  <2> QED
    BY <1>1, <2>2, <2>3, <2>4, Zenon DEF Splits, Cuts
<1>2. CASE s[i + 1] # "comma"
  BY <1>2 DEF Splits, Cuts
<1> QED
  BY <1>1, <1>2

LEMMA TracksStep ==
    ASSUME NEW s \in Seq(Token), Plain(s), NEW i \in 0 .. Len(s) - 1, Tracks(s, i)
    PROVE  Tracks(s, i + 1)
<1> DEFINE st == Loop(s)[i]
           c == s[i + 1]
           q == Number(s, i, {"sq"})
<1>1. i \in Nat /\ i + 1 \in 1 .. Len(s) /\ i \in 0 .. Len(s)
  OBVIOUS
<1>2. c \in Token /\ c # "bs" /\ c # "dq" /\ c # "bq"
  <2>1. c \in Token
    BY <1>1, ElementOfSeq
  <2>2. i + 1 \in DOMAIN s
    BY <1>1
  <2>3. c \notin (Quotes \ {"sq"}) \cup {"bs"}
    BY <2>2 DEF Plain, Has
  <2> QED
    BY <2>1, <2>3 DEF Quotes
<1>3. st \in ScanState /\ Loop(s)[i + 1] = Scan(st, c)
  BY <1>1, LoopNext
<1>4. /\ ~st.escape /\ st.quote = (IF q % 2 = 0 THEN "none" ELSE "sq")
      /\ st.depth = Nesting(s, i)
  BY DEF Tracks
<1>5. q \in Nat /\ Number(s, i + 1, {"sq"}) = IF c = "sq" THEN q + 1 ELSE q
  BY <1>1, NumberType, NumberNext
<1>6. Nesting(s, i) \in Int /\ Nesting(s, i + 1) >= 0
  <2>1. i + 1 \in DOMAIN s
    BY <1>1
  <2> QED
    BY <2>1, NestingNext DEF Plain
<1>n. /\ i + 1 \in Unquoted(s) /\ c = "(" => Nesting(s, i + 1) = Nesting(s, i) + 1
      /\ i + 1 \in Unquoted(s) /\ c = ")" => Nesting(s, i + 1) = Nesting(s, i) - 1
      /\ i + 1 \notin Unquoted(s) \/ c \notin {"(", ")"} => Nesting(s, i + 1) = Nesting(s, i)
  BY NestingNext
<1>p. c # "sq" => (i + 1 \in Unquoted(s) <=> Plainly(st))
  BY PlainPlace
<1> HIDE DEF st, c, q
<1>7. CASE Splits(st, c)
  <2>1. c = "comma" /\ c # "sq" /\ c \notin {"(", ")"}
    BY <1>7 DEF Splits
  <2>2. /\ Loop(s)[i + 1].escape = st.escape /\ Loop(s)[i + 1].quote = st.quote
        /\ Loop(s)[i + 1].depth = st.depth
    BY <1>2, <1>3, <1>7, ScanSplits
  <2>3. Nesting(s, i + 1) = Nesting(s, i) /\ Number(s, i + 1, {"sq"}) = q
    BY <1>5, <1>n, <2>1
  <2> QED
    BY <1>4, <2>2, <2>3, Zenon DEF Tracks
<1>8. CASE ~Splits(st, c)
  <2>1. /\ Loop(s)[i + 1].escape = (~st.escape /\ c = "bs")
        /\ Loop(s)[i + 1].quote = IF st.escape THEN st.quote ELSE QuoteAfter(st.quote, c)
        /\ Loop(s)[i + 1].depth = IF Plainly(st) /\ c = "(" THEN st.depth + 1
                                  ELSE IF Plainly(st) /\ c = ")" /\ st.depth > 0 THEN st.depth - 1
                                  ELSE st.depth
    BY <1>2, <1>3, <1>8, ScanGoesOn
  <2>2. ~Loop(s)[i + 1].escape
    BY <1>2, <2>1, Zenon
  <2>3. Loop(s)[i + 1].quote = IF Number(s, i + 1, {"sq"}) % 2 = 0 THEN "none" ELSE "sq"
    <3>1. Loop(s)[i + 1].quote = QuoteAfter(st.quote, c)
      BY <1>4, <2>1, Zenon
    <3>2. CASE c = "sq"
      <4>1. Number(s, i + 1, {"sq"}) % 2 = 0 <=> q % 2 # 0
        BY <1>5, <3>2, Parity
      <4>2. "sq" \in Quotes /\ "sq" # "none"
        BY DEF Quotes
      <4> QED
        BY <1>4, <3>1, <3>2, <4>1, <4>2, Zenon DEF QuoteAfter
    <3>3. CASE c # "sq"
      <4>1. Number(s, i + 1, {"sq"}) = q /\ c \notin Quotes
        BY <1>2, <1>5, <3>3 DEF Quotes
      <4> QED
        BY <1>4, <3>1, <3>3, <4>1, Zenon DEF QuoteAfter
    <3> QED
      BY <3>2, <3>3
  <2>4. Loop(s)[i + 1].depth = Nesting(s, i + 1)
    <3>1. CASE c = "(" /\ Plainly(st)
      <4>1. c # "sq"
        BY <3>1
      <4> QED
        BY <1>4, <1>n, <1>p, <2>1, <3>1, <4>1, Zenon
    <3>2. CASE c = ")" /\ Plainly(st)
      <4>1. c # "sq" /\ c # "("
        BY <3>2
      <4>2. Nesting(s, i + 1) = Nesting(s, i) - 1
        BY <1>n, <1>p, <3>2, <4>1, Zenon
      <4>3. st.depth > 0
        BY <1>4, <1>6, <4>2
      <4> QED
        BY <1>4, <2>1, <3>2, <4>1, <4>2, <4>3, Zenon
    <3>3. CASE ~(c \in {"(", ")"} /\ Plainly(st))
      <4>1. Loop(s)[i + 1].depth = st.depth
        BY <2>1, <3>3, Zenon
      <4>2. c \in {"(", ")"} => c # "sq"
        OBVIOUS
      <4>3. i + 1 \notin Unquoted(s) \/ c \notin {"(", ")"}
        BY <1>p, <3>3, <4>2, Zenon
      <4> QED
        BY <1>4, <1>n, <4>1, <4>3, Zenon
    <3> QED
      BY <3>1, <3>2, <3>3, Zenon
  <2> QED
    BY <2>2, <2>3, <2>4, Zenon DEF Tracks
<1> QED
  BY <1>7, <1>8

\* The loop tracks a plain text to its end.
LEMMA Tracking ==
    ASSUME NEW s \in Seq(Token), Plain(s), NEW i \in 0 .. Len(s)
    PROVE  Tracks(s, i)
<1> DEFINE T == {j \in Nat : j <= Len(s) => Tracks(s, j)}
<1>1. 0 \in T
  <2>1. Loop(s)[0] = Start
    BY LoopNext
  <2>2. Number(s, 0, {"sq"}) = 0
    BY NumberZero
  <2>3. Number(s, 0, {"sq"}) % 2 = 0
    BY <2>2
  <2>4. Nesting(s, 0) = 0
    <3>1. {j \in Unquoted(s) : j <= 0 /\ s[j] = "("} = {} /\ {j \in Unquoted(s) : j <= 0 /\ s[j] = ")"} = {}
      <4>1. \A j \in Unquoted(s) : ~(j <= 0)
        BY DEF Unquoted
      <4> QED
        BY <4>1, Zenon
    <3>2. Nesting(s, 0) = Cardinality({}) - Cardinality({})
      BY <3>1, Zenon DEF Nesting
    <3>3. Cardinality({}) = 0
      BY FS_EmptySet
    <3> QED
      BY <3>2, <3>3
  <2>5. Tracks(s, 0)
    BY <2>1, <2>3, <2>4 DEF Tracks, Start
  <2> QED
    BY <2>5
<1>2. ASSUME NEW j \in Nat, j \in T PROVE j + 1 \in T
  <2>1. CASE j + 1 <= Len(s)
    <3>1. j \in 0 .. Len(s) - 1 /\ Tracks(s, j)
      BY <1>2, <2>1
    <3>2. Tracks(s, j + 1)
      BY <3>1, TracksStep
    <3> QED
      BY <3>2
  <2>2. CASE ~(j + 1 <= Len(s))
    BY <2>2
  <2> QED
    BY <2>1, <2>2
<1> HIDE DEF T
<1>3. i \in Nat /\ i <= Len(s)
  OBVIOUS
<1>4. i \in T
  BY <1>1, <1>2, <1>3, SetInduction
<1> QED
  BY <1>3, <1>4 DEF T

-----------------------------------------------------------------------------
(* The arguments and the pieces of the text                                *)

\* The number of the piece that begins after place a.
Rank(C, a) == Cardinality({c \in C : c <= a})

\* No cut lies between two places.
Adjacent(C, a, b) == a < b /\ \A c \in C : c <= a \/ b <= c

\* After i characters: an argument for every piece that has ended, and the piece
\* since the last cut.
Collected(s, C, i, args, cur) ==
    /\ args \in Seq(Seq(Token)) /\ Len(args) = Rank(C, i)
    /\ \A a \in C \cup {0}, b \in C :
         b <= i /\ Adjacent(C, a, b) => args[Rank(C, a) + 1] = TrimWhitespace(SubSeq(s, a + 1, b - 1))
    /\ \E a \in C \cup {0} : /\ a <= i /\ \A c \in C : c <= i => c <= a
                             /\ cur = SubSeq(s, a + 1, i)

\* With the piece that ends after i characters, too.
Completed(s, C, i, args) ==
    /\ args \in Seq(Seq(Token)) /\ Len(args) = Rank(C, i) + 1
    /\ \A a \in C \cup {0}, b \in C \cup {i + 1} :
         b <= i + 1 /\ Adjacent(C, a, b) => args[Rank(C, a) + 1] = TrimWhitespace(SubSeq(s, a + 1, b - 1))

\* A cut, or the end, adds the piece before it: it gets the number after all
\* others, which keep theirs.
LEMMA PieceAdded ==
    ASSUME NEW s \in Seq(Token), NEW C, C \subseteq 1 .. Len(s), NEW i \in 0 .. Len(s),
           NEW args, NEW cur \in Seq(Token), Collected(s, C, i, args, cur),
           NEW new, new = Append(args, TrimWhitespace(cur))
    PROVE  Completed(s, C, i, new)
<1>0. Len(s) \in Nat /\ i \in Nat /\ \A c \in C : c \in Nat /\ c >= 1
  OBVIOUS
<1>1. args \in Seq(Seq(Token)) /\ Len(args) = Rank(C, i) /\ Len(args) \in Nat
  BY DEF Collected
<1>2. TrimWhitespace(cur) \in Seq(Token)
  BY TrimWhitespaceType
<1>3. /\ new \in Seq(Seq(Token)) /\ Len(new) = Rank(C, i) + 1
      /\ \A k \in 1 .. Rank(C, i) : new[k] = args[k]
      /\ new[Rank(C, i) + 1] = TrimWhitespace(cur)
  BY <1>1, <1>2, AppendProperties
<1>4. PICK l \in C \cup {0} : l <= i /\ (\A c \in C : c <= i => c <= l) /\ cur = SubSeq(s, l + 1, i)
  BY DEF Collected
<1>5. ASSUME NEW a \in C \cup {0}, NEW b \in C \cup {i + 1}, b <= i + 1, Adjacent(C, a, b)
      PROVE  new[Rank(C, a) + 1] = TrimWhitespace(SubSeq(s, a + 1, b - 1))
  <2>0. a \in Nat /\ b \in Nat /\ l \in Nat /\ a < b /\ \A c \in C : c <= a \/ b <= c
    BY <1>0, <1>5 DEF Adjacent
  <2>1. CASE b = i + 1
    <3>1. a <= i
      BY <1>0, <2>0, <2>1
    <3>2. a <= l
      BY <1>0, <1>4, <2>0, <3>1
    <3>3. l <= a
      <4>1. CASE l \in C
        <5>1. ~(b <= l)
          BY <1>0, <1>4, <2>0, <2>1
        <5> QED
          BY <2>0, <4>1, <5>1
      <4>2. CASE l = 0
        BY <2>0, <4>2
      <4> QED
        BY <4>1, <4>2
    <3>4. a = l
      BY <2>0, <3>2, <3>3
    <3>5. Rank(C, a) = Rank(C, i)
      <4>1. \A c \in C : c <= a <=> c <= i
        BY <1>0, <1>4, <2>0, <3>1, <3>4
      <4>2. {c \in C : c <= a} = {c \in C : c <= i}
        BY <4>1, Zenon
      <4> QED
        BY <4>2 DEF Rank
    <3>6. b - 1 = i
      BY <1>0, <2>1
    <3> QED
      BY <1>3, <1>4, <3>4, <3>5, <3>6
  <2>2. CASE b # i + 1
    <3>1. b \in C /\ b <= i
      BY <1>0, <1>5, <2>0, <2>2
    <3>2. args[Rank(C, a) + 1] = TrimWhitespace(SubSeq(s, a + 1, b - 1))
      BY <1>5, <3>1 DEF Collected
    <3>3. Rank(C, a) + 1 \in 1 .. Rank(C, i)
      <4> DEFINE A == {c \in C : c <= a}
                 I == {c \in C : c <= i}
      <4>1. IsFiniteSet(A) /\ IsFiniteSet(I) /\ Rank(C, a) \in Nat /\ Rank(C, i) \in Nat
        BY <1>0, <2>0, PlacesNext DEF Rank
      <4>2. ~(b <= a)
        BY <2>0
      <4>3. \A c \in C : c <= a => c <= i
        BY <1>0, <2>0, <3>1
      <4>4. A \cup {b} \in SUBSET I /\ b \notin A
        BY <3>1, <4>2, <4>3, Zenon
      <4>5. Rank(C, a) = Cardinality(A) /\ Rank(C, i) = Cardinality(I)
        BY DEF Rank
      <4> HIDE DEF A, I
      <4>6. Cardinality(A \cup {b}) = Cardinality(A) + 1
        BY <4>1, <4>4, FS_AddElement
      <4>7. Cardinality(A \cup {b}) <= Cardinality(I)
        BY <4>1, <4>4, FS_Subset
      <4> QED
        BY <4>1, <4>5, <4>6, <4>7
    <3> QED
      BY <1>3, <3>2, <3>3
  <2> QED
    BY <2>1, <2>2
<1> QED
  BY <1>3, <1>5 DEF Completed

\* One more character of a part of the text.
LEMMA SubSeqNext ==
    ASSUME NEW s \in Seq(Token), NEW a \in Nat, NEW i \in 0 .. Len(s) - 1, a <= i
    PROVE  Append(SubSeq(s, a + 1, i), s[i + 1]) = SubSeq(s, a + 1, i + 1)
<1> DEFINE u == SubSeq(s, a + 1, i)
           v == SubSeq(s, a + 1, i + 1)
           w == Append(u, s[i + 1])
<1>1. /\ \A k \in a + 1 .. i : s[k] \in Token
      /\ \A k \in a + 1 .. i + 1 : s[k] \in Token
      /\ s[i + 1] \in Token /\ a + 1 \in Int /\ i \in Int /\ i + 1 \in Int
  OBVIOUS
<1>2. u \in Seq(Token) /\ Len(u) = i - a /\ \A k \in 1 .. i - a : u[k] = s[a + k]
  <2>1. /\ u \in Seq(Token) /\ Len(u) = IF a + 1 <= i THEN i - (a + 1) + 1 ELSE 0
        /\ \A k \in 1 .. i - (a + 1) + 1 : u[k] = s[(a + 1) + k - 1]
    BY <1>1, SubSeqProperties
  <2> HIDE DEF u
  <2> QED
    BY <2>1
<1>3. v \in Seq(Token) /\ Len(v) = i - a + 1 /\ \A k \in 1 .. i - a + 1 : v[k] = s[a + k]
  <2>1. /\ v \in Seq(Token) /\ Len(v) = IF a + 1 <= i + 1 THEN (i + 1) - (a + 1) + 1 ELSE 0
        /\ \A k \in 1 .. (i + 1) - (a + 1) + 1 : v[k] = s[(a + 1) + k - 1]
    BY <1>1, SubSeqProperties
  <2> HIDE DEF v
  <2> QED
    BY <2>1
<1> HIDE DEF u, v
<1>4. /\ w \in Seq(Token) /\ Len(w) = Len(u) + 1
      /\ \A k \in 1 .. Len(u) : w[k] = u[k]
      /\ w[Len(u) + 1] = s[i + 1]
  BY <1>1, <1>2, AppendProperties
<1> HIDE DEF w
<1>5. ASSUME NEW k \in 1 .. Len(w) PROVE w[k] = v[k]
  <2>1. CASE k = Len(u) + 1
    BY <1>2, <1>3, <1>4, <2>1
  <2>2. CASE k # Len(u) + 1
    <3>1. k \in 1 .. Len(u)
      BY <1>2, <1>4, <2>2
    <3> QED
      BY <1>2, <1>3, <1>4, <3>1
  <2> QED
    BY <2>1, <2>2
<1>6. Len(w) = Len(v)
  BY <1>2, <1>3, <1>4
<1>7. w = v
  BY <1>3, <1>4, <1>5, <1>6, SeqEqual
<1> QED
  BY <1>7 DEF u, v, w

Collects(s, i) == Collected(s, Cuts(s), i, Loop(s)[i].args, Loop(s)[i].cur)

LEMMA CollectsStep ==
    ASSUME NEW s \in Seq(Token), Plain(s), NEW i \in 0 .. Len(s) - 1, Collects(s, i)
    PROVE  Collects(s, i + 1)
<1> DEFINE C == Cuts(s)
           st == Loop(s)[i]
           after == Loop(s)[i + 1]
           c == s[i + 1]
<1>1. i \in Nat /\ i + 1 \in 1 .. Len(s) /\ i \in 0 .. Len(s) /\ Len(s) \in Nat
  OBVIOUS
<1>2. C \subseteq 1 .. Len(s) /\ \A d \in C : d \in Nat /\ d >= 1
  BY DEF Cuts, Unquoted
<1>3. st \in ScanState /\ after = Scan(st, c) /\ c \in Token
  BY <1>1, LoopNext, ElementOfSeq
<1>4. st.cur \in Seq(Token) /\ st.args \in Seq(Seq(Token))
  BY <1>3 DEF ScanState
<1>5. Splits(st, c) <=> i + 1 \in C
  BY <1>1, Tracking, SplitsAtCuts
<1>6. Collected(s, C, i, st.args, st.cur)
  BY DEF Collects
<1>7. /\ i + 1 \in C => Rank(C, i + 1) = Rank(C, i) + 1
      /\ i + 1 \notin C => Rank(C, i + 1) = Rank(C, i)
  BY <1>1, <1>2, PlacesNext DEF Rank
<1> HIDE DEF C, st, after, c
<1> SUFFICES Collected(s, C, i + 1, after.args, after.cur)
  BY DEF Collects, C, after
<1>8. CASE i + 1 \in C
  <2>1. after.args = Append(st.args, TrimWhitespace(st.cur)) /\ after.cur = <<>>
    BY <1>3, <1>5, <1>8, ScanSplits
  <2>2. /\ after.args \in Seq(Seq(Token)) /\ Len(after.args) = Rank(C, i) + 1
        /\ \A a \in C \cup {0}, b \in C \cup {i + 1} :
             b <= i + 1 /\ Adjacent(C, a, b) =>
               after.args[Rank(C, a) + 1] = TrimWhitespace(SubSeq(s, a + 1, b - 1))
    <3>1. ASSUME NEW x, NEW y \in Seq(Token), NEW z, Collected(s, C, i, x, y),
                 z = Append(x, TrimWhitespace(y))
          PROVE  Completed(s, C, i, z)
      BY <1>1, <1>2, <3>1, PieceAdded
    <3>2. Completed(s, C, i, after.args)
      BY <1>4, <1>6, <2>1, <3>1
    <3> QED
      BY <3>2 DEF Completed
  <2>3. after.cur = SubSeq(s, (i + 1) + 1, i + 1)
    <3>1. (i + 1) + 1 \in Int /\ i + 1 \in Int /\ i + 1 < (i + 1) + 1
      BY <1>1
    <3> QED
      BY <2>1, <3>1, SubSeqEmpty
  <2>4. \E a \in C \cup {0} : /\ a <= i + 1 /\ \A d \in C : d <= i + 1 => d <= a
                              /\ after.cur = SubSeq(s, a + 1, i + 1)
    <3>1. i + 1 <= i + 1
      BY <1>1
    <3> QED
      BY <1>8, <2>3, <3>1, Zenon
  <2>5. Len(after.args) = Rank(C, i + 1)
    BY <1>7, <1>8, <2>2
  <2>6. \A a \in C \cup {0}, b \in C :
             b <= i + 1 /\ Adjacent(C, a, b) =>
               after.args[Rank(C, a) + 1] = TrimWhitespace(SubSeq(s, a + 1, b - 1))
    BY <2>2, Zenon
  <2> QED
    BY <2>2, <2>4, <2>5, <2>6, Zenon DEF Collected
<1>9. CASE i + 1 \notin C
  <2>1. after.args = st.args /\ after.cur = Append(st.cur, c)
    BY <1>3, <1>5, <1>9, ScanGoesOn
  <2>2. \A d \in C : d <= i + 1 <=> d <= i
    BY <1>1, <1>2, <1>9
  <2>3. \E a \in C \cup {0} : /\ a <= i + 1 /\ \A d \in C : d <= i + 1 => d <= a
                              /\ after.cur = SubSeq(s, a + 1, i + 1)
    <3>1. PICK a \in C \cup {0} : a <= i /\ (\A d \in C : d <= i => d <= a) /\ st.cur = SubSeq(s, a + 1, i)
      BY <1>6 DEF Collected
    <3>2. a \in Nat /\ a <= i + 1
      BY <1>1, <1>2, <3>1
    <3>3. after.cur = SubSeq(s, a + 1, i + 1)
      BY <2>1, <3>1, <3>2, SubSeqNext DEF c
    <3> QED
      BY <2>2, <3>1, <3>2, <3>3
  <2>4. \A a \in C \cup {0}, b \in C :
             b <= i + 1 /\ Adjacent(C, a, b) =>
               after.args[Rank(C, a) + 1] = TrimWhitespace(SubSeq(s, a + 1, b - 1))
    BY <1>6, <2>1, <2>2, Zenon DEF Collected
  <2>5. after.args \in Seq(Seq(Token)) /\ Len(after.args) = Rank(C, i + 1)
    BY <1>6, <1>7, <1>9, <2>1 DEF Collected
  <2> QED
    BY <2>3, <2>4, <2>5, Zenon DEF Collected
<1> QED
  BY <1>8, <1>9

\* The loop collects the pieces of a plain text.
LEMMA Collecting ==
    ASSUME NEW s \in Seq(Token), Plain(s)
    PROVE  Collects(s, Len(s))
<1> DEFINE C == Cuts(s)
           T == {j \in Nat : j <= Len(s) => Collects(s, j)}
<1>1. 0 \in T
  <2>1. C \subseteq 1 .. Len(s) /\ Len(s) \in Nat /\ 0 \in Nat
    BY DEF Cuts, Unquoted
  <2>2. Loop(s)[0].args = <<>> /\ Loop(s)[0].cur = <<>>
    BY LoopNext DEF Start
  <2>3. Rank(C, 0) = 0
    BY <2>1, PlacesNext DEF Rank
  <2>4. <<>> \in Seq(Seq(Token)) /\ Len(<<>>) = 0
    BY EmptySeq
  <2>5. \A c \in C : ~(c <= 0)
    BY <2>1
  <2>6. SubSeq(s, 0 + 1, 0) = <<>>
    BY SubSeqEmpty
  <2>7. \E a \in C \cup {0} : /\ a <= 0 /\ \A c \in C : c <= 0 => c <= a
                              /\ <<>> = SubSeq(s, a + 1, 0)
    <3>1. 0 <= 0
      OBVIOUS
    <3> QED
      BY <2>5, <2>6, <3>1, Zenon
  <2>8. Len(<<>>) = Rank(C, 0)
    BY <2>3, <2>4
  <2> HIDE DEF C
  <2>9. Collected(s, C, 0, <<>>, <<>>)
    BY <2>4, <2>5, <2>7, <2>8, Zenon DEF Collected
  <2>10. Collects(s, 0)
    BY <2>2, <2>9, Zenon DEF Collects, C
  <2> QED
    BY <2>10
<1>2. ASSUME NEW j \in Nat, j \in T PROVE j + 1 \in T
  <2>1. CASE j + 1 <= Len(s)
    <3>1. j \in 0 .. Len(s) - 1 /\ Collects(s, j)
      BY <1>2, <2>1
    <3>2. Collects(s, j + 1)
      BY <3>1, CollectsStep
    <3> QED
      BY <3>2
  <2>2. CASE ~(j + 1 <= Len(s))
    BY <2>2
  <2> QED
    BY <2>1, <2>2
<1> HIDE DEF T
<1>3. Len(s) \in Nat
  OBVIOUS
<1>4. Len(s) \in T
  BY <1>1, <1>2, <1>3, SetInduction
<1> QED
  BY <1>3, <1>4 DEF T

\* ExtractFunctionArguments() returns the pieces of the text between the
\* parentheses, for a text of any length: quotes and nested calls keep their
\* commas, and every other comma splits.
THEOREM SplitRight ==
    ASSUME NEW s \in Seq(Token), Between(s) # <<>>, Plain(Between(s))
    PROVE  Pieces(Between(s), ExtractFunctionArguments(s))
<1> DEFINE t == Between(s)
           C == Cuts(t)
           n == Len(t)
           st == Loop(t)[n]
           args == ExtractFunctionArguments(s)
<1>1. t \in Seq(Token)
  BY BetweenType
<1>2. args = Append(st.args, TrimWhitespace(st.cur))
  BY DEF ExtractFunctionArguments
<1>3. n \in Nat /\ n \in 0 .. n
  BY <1>1
<1> HIDE DEF t
<1>4. Collected(t, C, n, st.args, st.cur)
  BY <1>1, Collecting DEF Collects, t
<1>5. st.cur \in Seq(Token)
  <2>1. st \in ScanState
    BY <1>1, <1>3, LoopNext
  <2> QED
    BY <2>1 DEF ScanState
<1>6. C \subseteq 1 .. n /\ \A c \in C : c \in Nat /\ c <= n /\ c <= n + 1
  <2>1. C \subseteq 1 .. n
    BY <1>1 DEF Cuts, Unquoted
  <2> HIDE DEF C, n
  <2> QED
    BY <1>3, <2>1
<1> HIDE DEF C, n, st, args
<1>7. /\ Len(args) = Rank(C, n) + 1
      /\ \A a \in C \cup {0}, b \in C \cup {n + 1} :
           b <= n + 1 /\ Adjacent(C, a, b) => args[Rank(C, a) + 1] = TrimWhitespace(SubSeq(t, a + 1, b - 1))
  <2>1. ASSUME NEW x, NEW y \in Seq(Token), NEW z, Collected(t, C, n, x, y),
               z = Append(x, TrimWhitespace(y))
        PROVE  Completed(t, C, n, z)
    BY <1>1, <1>3, <1>6, <2>1, PieceAdded DEF n
  <2>2. Completed(t, C, n, args)
    BY <1>2, <1>4, <1>5, <2>1
  <2> QED
    BY <2>2 DEF Completed
<1>8. Rank(C, n) = Cardinality(C)
  <2>1. {c \in C : c <= n} = C
    BY <1>6, Zenon
  <2> QED
    BY <2>1 DEF Rank
<1>9. \A b \in C \cup {n + 1} : b <= n + 1
  BY <1>3, <1>6
<1>10. Len(args) = Cardinality(C) + 1
  BY <1>7, <1>8, Zenon
<1>11. \A a \in C \cup {0}, b \in C \cup {n + 1} :
          a < b /\ (\A c \in C : c <= a \/ b <= c) =>
            args[Cardinality({c \in C : c <= a}) + 1] = TrimWhitespace(SubSeq(t, a + 1, b - 1))
  BY <1>7, <1>9, Zenon DEF Adjacent, Rank
<1> QED
  BY <1>10, <1>11, Zenon DEF Pieces, C, n, args, t

\* Whatever the line just read, its arguments are the pieces of its text.
THEOREM ParserArgumentsSplit == Spec => []ArgumentsSplit
<1>1. TypeOK => ArgumentsSplit
  <2> SUFFICES ASSUME TypeOK, pos > 0 PROVE
                 Between(Text(code, pos)) # <<>> /\ Plain(Between(Text(code, pos))) =>
                   Pieces(Between(Text(code, pos)), ExtractFunctionArguments(Text(code, pos)))
    BY DEF ArgumentsSplit
  <2>1. code \in Seq(Lines)
    BY ProgramsAssumption DEF TypeOK, Lines
  <2>2. pos \in 1 .. Len(code)
    BY <2>1 DEF TypeOK
  <2>3. Text(code, pos) \in Seq(Token)
    BY <2>1, <2>2, TextType
  <2> QED
    BY <2>3, SplitRight
<1> QED
  BY <1>1, ParserTypeCorrect, PTL

=============================================================================
