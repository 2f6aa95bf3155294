------------------------------- MODULE TasksProofs -------------------------------
(***************************************************************************)
(* Proofs about Tasks, for every number of threads, every set of ids,      *)
(* numbers, items and tasks, and the sizes of pkg.h or any others that fit *)
(* together: an answer tells what the call did, and only what a client     *)
(* named changes.                                                          *)
(*                                                                         *)
(* The invariant is a predicate on the record of one thread: the services  *)
(* are shared, but no thread writes another's request.                     *)
(***************************************************************************)
EXTENDS Tasks, WellFoundedInduction, TLAPS

-------------------------------------------------------------------------------
(* Numbers *)

LEMMA Sizes ==
  /\ TitleSize \in Nat /\ ServiceSize \in Nat /\ ContentSize \in Nat /\ LabelSize \in Nat
  /\ TitleSize > 0 /\ LabelSize > 0
  /\ ContentSize = ServiceSize + 1 + LabelSize
BY TasksAssumption

LEMMA HalfInt == Half \in Int
<1>1. IntBits - 1 \in Nat
  BY TasksAssumption
<1>. QED
  BY <1>1 DEF Half

\* What is left of n when its remainder is taken away is a multiple.
LEMMA Multiple ==
  ASSUME NEW m \in Nat \ {0}, NEW n \in Int
  PROVE  (n - (n % m)) % m = 0
OBVIOUS

\* (int) of n is an integer that differs from n by a multiple of 2^IntBits.
LEMMA Narrowed ==
  ASSUME NEW n \in Int, Half > 0
  PROVE  Narrow(n) \in Int /\ (n - Narrow(n)) % (2 * Half) = 0
<1>1. 2 * Half \in Nat \ {0} /\ n + Half \in Int
  BY HalfInt
<1>. DEFINE m == 2 * Half
            x == n + Half
<1>2. (x - (x % m)) % m = 0 /\ x % m \in Int
  BY <1>1, Multiple
<1>3. n - Narrow(n) = x - (x % m)
  BY <1>2, HalfInt DEF Narrow
<1>. QED
  BY <1>2, <1>3, HalfInt DEF Narrow

LEMMA Small ==
  ASSUME NEW m \in Nat \ {0}, NEW n \in 0..(m - 1)
  PROVE  n % m = n
OBVIOUS

\* An integer that fits an int keeps its value.
LEMMA Fitting ==
  ASSUME NEW n \in Int, Half > 0, ~Wide(n)
  PROVE  Narrow(n) = n
<1>1. n + Half \in 0..((2 * Half) - 1) /\ 2 * Half \in Nat \ {0}
  BY HalfInt DEF Wide
<1>2. (n + Half) % (2 * Half) = n + Half
  BY <1>1, Small
<1>. QED
  BY <1>2, HalfInt DEF Narrow

LEMMA Least ==
  ASSUME NEW T \in SUBSET Nat, T # {}
  PROVE  \E x \in T : \A y \in T : x <= y
<1>1. PICK x \in T : \A y \in T : ~(<<y, x>> \in OpToRel(<, Nat))
  BY NatLessThanWellFounded, WFMin
<1>2. x \in Nat /\ \A y \in T : y \in Nat
  BY <1>1
<1>3. \A y \in T : ~(y < x)
  BY <1>1, <1>2 DEF OpToRel
<1>4. \A y \in T : x <= y
  BY <1>2, <1>3
<1>. QED
  BY <1>1, <1>4

LEMMA MinIs ==
  ASSUME NEW T \in SUBSET Nat, T # {}
  PROVE  Min(T) \in T /\ \A y \in T : Min(T) <= y
<1>1. \E x \in T : \A y \in T : x <= y
  BY Least
<1>. QED
  BY <1>1 DEF Min

LEMMA MaxIs ==
  ASSUME NEW n \in Nat, NEW T \in SUBSET (1..n), T # {}
  PROVE  Max(T) \in T /\ \A y \in T : Max(T) >= y
<1>. DEFINE U == {n - x : x \in T}
<1>1. U \in SUBSET Nat /\ U # {}
  <2>1. \A x \in T : n - x \in Nat
    OBVIOUS
  <2>. QED
    BY <2>1
<1>2. PICK u \in U : \A v \in U : u <= v
  BY <1>1, Least
<1>3. PICK x \in T : u = n - x
  BY <1>2
<1>4. \A y \in T : n - x <= n - y
  BY <1>2, <1>3
<1>5. \A y \in T : x >= y
  BY <1>3, <1>4
<1>6. \E z \in T : \A y \in T : z >= y
  BY <1>3, <1>5
<1>. QED
  BY <1>6 DEF Max

-------------------------------------------------------------------------------
(* Ids *)

Strings == Seq(STRING)

LEMMA CutIs ==
  ASSUME NEW s \in Strings, NEW n \in Nat
  PROVE  /\ Cut(s, n) \in Strings
         /\ Len(Cut(s, n)) = IF Len(s) <= n THEN Len(s) ELSE n
         /\ Cut(s, n) = SubSeq(s, 1, Len(Cut(s, n)))
         /\ \A i \in 1..Len(Cut(s, n)) : Cut(s, n)[i] = s[i]
<1>1. CASE Len(s) <= n
  BY <1>1 DEF Cut, Strings
<1>2. CASE ~(Len(s) <= n)
  BY <1>2 DEF Cut, Strings
<1>. QED
  BY <1>1, <1>2

LEMMA RestIs ==
  ASSUME NEW c \in Strings, NEW i \in 1..Len(c)
  PROVE  /\ SubSeq(c, i + 1, Len(c)) \in Strings
         /\ Len(SubSeq(c, i + 1, Len(c))) = Len(c) - i
         /\ \A j \in 1..(Len(c) - i) : SubSeq(c, i + 1, Len(c))[j] = c[i + j]
BY DEF Strings

LEMMA DashesIn ==
  ASSUME NEW c \in Strings, NEW x
  PROVE  IndexesOf(c, x) \in SUBSET (1..Len(c)) /\ IndexesOf(c, x) \in SUBSET Nat
BY DEF IndexesOf, Strings

\* The title and the label that are found in a content id with a dash.
LEMMA PartsAre ==
  ASSUME NEW c \in Strings, IndexesOf(c, "-") # {}
  PROVE  LET i == Min(IndexesOf(c, "-"))
             k == Max(IndexesOf(c, "-"))
         IN /\ i \in 1..Len(c) /\ k \in 1..Len(c) /\ c[i] = "-" /\ c[k] = "-"
            /\ \A j \in IndexesOf(c, "-") : i <= j /\ j <= k
            /\ TitleOf(c) \in Strings /\ LabelOf(c) \in Strings
            /\ Len(TitleOf(c)) = IF Len(c) - i <= TitleSize THEN Len(c) - i ELSE TitleSize
            /\ Len(LabelOf(c)) = IF Len(c) - k <= LabelSize THEN Len(c) - k ELSE LabelSize
            /\ \A j \in 1..Len(TitleOf(c)) : TitleOf(c)[j] = c[i + j]
            /\ \A j \in 1..Len(LabelOf(c)) : LabelOf(c)[j] = c[k + j]
<1>. DEFINE D == IndexesOf(c, "-")
            i == Min(D)
            k == Max(D)
<1>0. Len(c) \in Nat
  BY DEF Strings
<1>1. D \in SUBSET (1..Len(c)) /\ D \in SUBSET Nat
  BY DashesIn
<1>2. /\ i \in D /\ k \in D /\ \A j \in D : i <= j
      /\ \A j \in D : k >= j
  BY <1>0, <1>1, MinIs, MaxIs
<1>3. c[i] = "-" /\ c[k] = "-" /\ i \in 1..Len(c) /\ k \in 1..Len(c)
  BY <1>1, <1>2 DEF IndexesOf
<1>4. \A j \in D : i <= j /\ j <= k
  BY <1>0, <1>1, <1>2
<1>5. TitleOf(c) = Cut(SubSeq(c, i + 1, Len(c)), TitleSize)
  BY DEF TitleOf
<1>6. LabelOf(c) = Cut(SubSeq(c, k + 1, Len(c)), LabelSize)
  BY DEF LabelOf
<1>. HIDE DEF D, i, k
<1>7. /\ TitleOf(c) \in Strings
      /\ Len(TitleOf(c)) = IF Len(c) - i <= TitleSize THEN Len(c) - i ELSE TitleSize
      /\ \A j \in 1..Len(TitleOf(c)) : TitleOf(c)[j] = c[i + j]
  <2>. DEFINE s == SubSeq(c, i + 1, Len(c))
  <2>1. s \in Strings /\ Len(s) = Len(c) - i /\ \A j \in 1..(Len(c) - i) : s[j] = c[i + j]
    BY <1>3, RestIs
  <2>. HIDE DEF s
  <2>2. /\ Cut(s, TitleSize) \in Strings
        /\ Len(Cut(s, TitleSize)) = IF Len(s) <= TitleSize THEN Len(s) ELSE TitleSize
        /\ \A j \in 1..Len(Cut(s, TitleSize)) : Cut(s, TitleSize)[j] = s[j]
    BY <2>1, CutIs, Sizes
  <2>3. TitleOf(c) = Cut(s, TitleSize)
    BY <1>5 DEF s
  <2>4. \A j \in 1..Len(TitleOf(c)) : j \in 1..(Len(c) - i)
    BY <1>0, <1>3, <2>1, <2>2, <2>3, Sizes
  <2>. QED
    BY <2>1, <2>2, <2>3, <2>4
<1>8. /\ LabelOf(c) \in Strings
      /\ Len(LabelOf(c)) = IF Len(c) - k <= LabelSize THEN Len(c) - k ELSE LabelSize
      /\ \A j \in 1..Len(LabelOf(c)) : LabelOf(c)[j] = c[k + j]
  <2>. DEFINE s == SubSeq(c, k + 1, Len(c))
  <2>1. s \in Strings /\ Len(s) = Len(c) - k /\ \A j \in 1..(Len(c) - k) : s[j] = c[k + j]
    BY <1>3, RestIs
  <2>. HIDE DEF s
  <2>2. /\ Cut(s, LabelSize) \in Strings
        /\ Len(Cut(s, LabelSize)) = IF Len(s) <= LabelSize THEN Len(s) ELSE LabelSize
        /\ \A j \in 1..Len(Cut(s, LabelSize)) : Cut(s, LabelSize)[j] = s[j]
    BY <2>1, CutIs, Sizes
  <2>3. LabelOf(c) = Cut(s, LabelSize)
    BY <1>6 DEF s
  <2>4. \A j \in 1..Len(LabelOf(c)) : j \in 1..(Len(c) - k)
    BY <1>0, <1>3, <2>1, <2>2, <2>3, Sizes
  <2>. QED
    BY <2>1, <2>2, <2>3, <2>4
<1>. QED
  BY <1>3, <1>4, <1>7, <1>8 DEF D, i, k

LEMMA Single ==
  ASSUME NEW k \in Nat
  PROVE  Min({k}) = k
BY MinIs

\* The checks of pkg_parse_content_id pass what the documentation calls a content id.
LEMMA WellFormedParses ==
  ASSUME NEW c \in Strings, WellFormed(c)
  PROVE  pkg_parse_content_id(c)
<1>. DEFINE D == IndexesOf(c, "-")
<1>1. PICK i, j, k \in 1..ContentSize :
        /\ IndexesOf(c, "-") = {i, k} /\ IndexesOf(c, "_") = {j}
        /\ i < j /\ j < k
        /\ j - i - 1 = TitleSize /\ k - 1 = ServiceSize /\ ContentSize - k = LabelSize
  BY DEF WellFormed
<1>2. Len(c) = ContentSize
  BY DEF WellFormed
<1>0. /\ i \in Nat /\ j \in Nat /\ k \in Nat /\ i < k
      /\ j - i - 1 = TitleSize /\ k - 1 = ServiceSize /\ ContentSize - k = LabelSize
  <2>1. i \in Nat /\ j \in Nat /\ k \in Nat
    BY Sizes
  <2>2. /\ i < j /\ j < k
        /\ j - i - 1 = TitleSize /\ k - 1 = ServiceSize /\ ContentSize - k = LabelSize
    BY <1>1
  <2>. QED
    BY <2>1, <2>2
<1>3. D = {i, k} /\ D # {}
  BY <1>1
<1>. HIDE DEF D
<1>4. /\ Min(D) \in D /\ Max(D) \in D /\ \A x \in D : Min(D) <= x /\ x <= Max(D)
      /\ Len(TitleOf(c)) = IF Len(c) - Min(D) <= TitleSize THEN Len(c) - Min(D) ELSE TitleSize
      /\ Len(LabelOf(c)) = IF Len(c) - Max(D) <= LabelSize THEN Len(c) - Max(D) ELSE LabelSize
  <2>1. IndexesOf(c, "-") # {}
    BY <1>1
  <2>2. D \in SUBSET (1..Len(c)) /\ D \in SUBSET Nat /\ D # {} /\ Len(c) \in Nat
    BY <1>3, DashesIn DEF D, Strings
  <2>3. Min(D) \in D /\ Max(D) \in D
    BY <2>2, MinIs, MaxIs
  <2>. QED
    BY <2>1, <2>3, PartsAre DEF D
<1>5. Min(D) = i /\ Max(D) = k
  BY <1>0, <1>3, <1>4
<1>6. D \ {Min(D)} = {k}
  BY <1>0, <1>3, <1>5
<1>7. Min(D \ {Min(D)}) = ServiceSize + 1
  <2>1. Min(D \ {Min(D)}) = k
    BY <1>0, <1>6, Single
  <2>. QED
    BY <1>0, <2>1, Sizes
<1>8. Len(TitleOf(c)) = TitleSize
  BY <1>0, <1>2, <1>4, <1>5, Sizes
<1>9. Len(LabelOf(c)) = LabelSize
  BY <1>0, <1>2, <1>4, <1>5, Sizes
<1>10. \E x \in IndexesOf(c, "_") : x > Min(D)
  BY <1>1, <1>5
<1>. QED
  BY <1>2, <1>3, <1>6, <1>7, <1>8, <1>9, <1>10 DEF pkg_parse_content_id, D

\* What passes them has a title and a label of the right sizes, and the label is all that
\* follows the last dash.
LEMMA Parses ==
  ASSUME NEW c \in Strings, pkg_parse_content_id(c)
  PROVE  /\ IndexesOf(c, "-") # {} /\ Len(c) = ContentSize
         /\ Len(TitleOf(c)) = TitleSize /\ Len(LabelOf(c)) = LabelSize
         /\ Max(IndexesOf(c, "-")) = Len(c) - LabelSize
<1>. DEFINE D == IndexesOf(c, "-")
            E == D \ {Min(D)}
<1>1. /\ Len(c) = ContentSize /\ D # {} /\ E # {} /\ Min(E) = ServiceSize + 1
      /\ Len(TitleOf(c)) = TitleSize /\ Len(LabelOf(c)) = LabelSize
  BY DEF pkg_parse_content_id
<1>2. D \in SUBSET Nat /\ E \in SUBSET Nat
  BY DashesIn
<1>3. Min(E) \in D
  BY <1>1, <1>2, MinIs
<1>4. /\ Max(D) \in 1..Len(c) /\ Min(E) <= Max(D)
      /\ Len(LabelOf(c)) = IF Len(c) - Max(D) <= LabelSize THEN Len(c) - Max(D) ELSE LabelSize
  BY <1>1, <1>3, PartsAre
<1>. HIDE DEF D, E
<1>5. Max(D) = Len(c) - LabelSize
  BY <1>1, <1>4, Sizes
<1>. QED
  BY <1>1, <1>5 DEF D

LEMMA SameSeq ==
  ASSUME NEW s \in Strings, NEW t \in Strings, Len(s) = Len(t),
         \A i \in 1..Len(s) : s[i] = t[i]
  PROVE  s = t
BY DEF Strings

LEMMA PrefixIs ==
  ASSUME NEW s \in Strings, NEW t \in Strings, Len(s) <= Len(t),
         \A i \in 1..Len(s) : s[i] = t[i]
  PROVE  IsPrefix(s, t)
<1>. DEFINE u == SubSeq(s, 1, Len(s))
            v == SubSeq(t, 1, Len(s))
<1>0. Len(s) \in Nat /\ Len(t) \in Nat
  BY DEF Strings
<1>1. /\ u \in Strings /\ Len(u) = Len(s) /\ \A i \in 1..Len(s) : u[i] = s[i]
  BY <1>0 DEF Strings
<1>2. /\ v \in Strings /\ Len(v) = Len(s) /\ \A i \in 1..Len(s) : v[i] = t[i]
  BY <1>0 DEF Strings
<1>. HIDE DEF u, v
<1>3. u = v
  BY <1>1, <1>2, SameSeq
<1>. QED
  BY <1>3 DEF IsPrefix, u, v

LEMMA Reversed ==
  ASSUME NEW s \in Strings
  PROVE  /\ Reverse(s) \in Strings /\ Len(Reverse(s)) = Len(s)
         /\ \A i \in 1..Len(s) : Reverse(s)[i] = s[(Len(s) - i) + 1]
<1>0. Len(s) \in Nat /\ \A i \in 1..Len(s) : s[i] \in STRING
  BY DEF Strings
<1>1. \A i \in 1..Len(s) : (Len(s) - i) + 1 \in 1..Len(s)
  BY <1>0
<1>2. Reverse(s) \in [1..Len(s) -> STRING]
  BY <1>0, <1>1 DEF Reverse
<1>. QED
  BY <1>0, <1>2 DEF Reverse, Strings

LEMMA SuffixIs ==
  ASSUME NEW s \in Strings, NEW t \in Strings, Len(s) <= Len(t),
         \A i \in 1..Len(s) : s[i] = t[(Len(t) - Len(s)) + i]
  PROVE  IsSuffix(s, t)
<1>0. Len(s) \in Nat /\ Len(t) \in Nat
  BY DEF Strings
<1>1. /\ Reverse(s) \in Strings /\ Len(Reverse(s)) = Len(s)
      /\ \A i \in 1..Len(s) : Reverse(s)[i] = s[(Len(s) - i) + 1]
  BY Reversed
<1>2. /\ Reverse(t) \in Strings /\ Len(Reverse(t)) = Len(t)
      /\ \A i \in 1..Len(t) : Reverse(t)[i] = t[(Len(t) - i) + 1]
  BY Reversed
<1>3. ASSUME NEW i \in 1..Len(s) PROVE Reverse(s)[i] = Reverse(t)[i]
  <2>1. (Len(s) - i) + 1 \in 1..Len(s) /\ i \in 1..Len(t)
    BY <1>0
  <2>2. s[(Len(s) - i) + 1] = t[(Len(t) - Len(s)) + ((Len(s) - i) + 1)]
    BY <2>1
  <2>3. (Len(t) - Len(s)) + ((Len(s) - i) + 1) = (Len(t) - i) + 1
    BY <1>0
  <2>. QED
    BY <1>1, <1>2, <2>1, <2>2, <2>3
<1>4. IsPrefix(Reverse(s), Reverse(t))
  BY <1>0, <1>1, <1>2, <1>3, PrefixIs
<1>. QED
  BY <1>4 DEF IsSuffix

\* The two halves of a concatenation.
LEMMA Halves ==
  ASSUME NEW s \in Strings, NEW t \in Strings
  PROVE  /\ Len(s \o t) = Len(s) + Len(t)
         /\ SubSeq(s \o t, 1, Len(s)) = s
         /\ SubSeq(s \o t, Len(s) + 1, Len(s \o t)) = t
<1>0. Len(s) \in Nat /\ Len(t) \in Nat
  BY DEF Strings
<1>. DEFINE u == s \o t
<1>1. /\ u \in Strings /\ Len(u) = Len(s) + Len(t)
      /\ \A i \in 1..Len(s) : u[i] = s[i]
      /\ \A i \in 1..Len(t) : u[Len(s) + i] = t[i]
  BY <1>0 DEF Strings
<1>. HIDE DEF u
<1>. DEFINE v == SubSeq(u, 1, Len(s))
            w == SubSeq(u, Len(s) + 1, Len(u))
<1>2. v \in Strings /\ Len(v) = Len(s) /\ \A i \in 1..Len(s) : v[i] = u[i]
  BY <1>0, <1>1 DEF Strings
<1>3. w \in Strings /\ Len(w) = Len(t) /\ \A i \in 1..Len(t) : w[i] = u[Len(s) + i]
  BY <1>0, <1>1 DEF Strings
<1>. HIDE DEF v, w
<1>4. v = s
  BY <1>1, <1>2, SameSeq
<1>5. w = t
  BY <1>1, <1>3, SameSeq
<1>. QED
  BY <1>1, <1>4, <1>5 DEF u, v, w

-------------------------------------------------------------------------------
(* What is removed was named *)

LEMMA GameNamed ==
  ASSUME NEW r, r.op \in {"uninstall_game", "uninstall_patch", "uninstall_theme"}
  PROVE  Names(r.op, r.arg, Target(r))
BY DEF KindOf, Target, UninstallOps, Names

LEMMA AddOnNamed ==
  ASSUME NEW r, r.op = "uninstall_ac", r.id.v \in Strings,
         r.arg = Cut(r.id.v, ContentSize), pkg_parse_content_id(r.arg)
  PROVE  Names(r.op, r.arg, Target(r))
<1>. DEFINE c == r.arg
            title == TitleOf(c)
            label == LabelOf(c)
            D == IndexesOf(c, "-")
            i == Min(D)
            k == Max(D)
<1>1. c \in Strings
  BY CutIs, Sizes
<1>2. /\ D # {} /\ Len(c) = ContentSize
      /\ Len(title) = TitleSize /\ Len(label) = LabelSize /\ k = Len(c) - LabelSize
  BY <1>1, Parses
<1>3. /\ i \in 1..Len(c) /\ k \in 1..Len(c) /\ c[i] = "-" /\ c[k] = "-"
      /\ \A j \in D : i <= j
      /\ title \in Strings /\ label \in Strings
      /\ Len(title) = IF Len(c) - i <= TitleSize THEN Len(c) - i ELSE TitleSize
      /\ \A j \in 1..Len(title) : title[j] = c[i + j]
      /\ \A j \in 1..Len(label) : label[j] = c[k + j]
  BY <1>1, <1>2, PartsAre
<1>4. \A j \in 1..(i - 1) : c[j] # "-"
  <2>1. SUFFICES ASSUME NEW j \in 1..(i - 1), c[j] = "-" PROVE FALSE
    OBVIOUS
  <2>2. i \in Nat /\ Len(c) \in Nat /\ i <= Len(c)
    BY <1>1, <1>3 DEF Strings
  <2>3. j \in 1..Len(c) /\ j < i
    BY <2>1, <2>2
  <2>4. j \in D
    BY <2>1, <2>3 DEF IndexesOf
  <2>. QED
    BY <1>3, <2>2, <2>3, <2>4
<1>5. i \in D
  BY <1>3 DEF IndexesOf
<1>. DEFINE x == title \o label
<1>6. Target(r) = <<"ac", x>> /\ KindOf(r.op) = "ac" /\ r.op \in UninstallOps
  BY DEF Target, KindOf, UninstallOps
<1>. HIDE DEF title, label, D, i, k
<1>7. SubSeq(x, 1, TitleSize) = title /\ SubSeq(x, TitleSize + 1, Len(x)) = label
  BY <1>2, <1>3, Halves
<1>8. IsPrefix(title, SubSeq(c, i + 1, Len(c)))
  <2>. DEFINE s == SubSeq(c, i + 1, Len(c))
  <2>1. s \in Strings /\ Len(s) = Len(c) - i /\ \A j \in 1..(Len(c) - i) : s[j] = c[i + j]
    BY <1>1, <1>3, RestIs
  <2>. HIDE DEF s
  <2>2. Len(title) \in Nat /\ Len(c) \in Nat /\ i \in Nat
    BY <1>1, <1>3 DEF Strings
  <2>3. Len(title) <= Len(s)
    BY <1>3, <2>1, <2>2, Sizes
  <2>4. ASSUME NEW j \in 1..Len(title) PROVE title[j] = s[j]
    <3>1. title[j] = c[i + j]
      BY <1>3
    <3>2. Len(s) = Len(c) - i
      BY <2>1
    <3>3. j \in 1..(Len(c) - i)
      BY <2>2, <2>3, <3>2
    <3>4. s[j] = c[i + j]
      BY <2>1, <3>3
    <3>. QED
      BY <3>1, <3>4
  <2>5. IsPrefix(title, s)
    BY <1>3, <2>1, <2>3, <2>4, PrefixIs
  <2>. QED
    BY <2>5 DEF s
<1>9. IsSuffix(<<"-">> \o label, c)
  <2>. DEFINE s == <<"-">> \o label
  <2>1. "-" \in STRING
    BY <1>1, <1>3 DEF Strings
  <2>2. /\ s \in Strings /\ Len(s) = LabelSize + 1 /\ s[1] = "-"
        /\ \A j \in 1..LabelSize : s[j + 1] = label[j]
    BY <1>2, <1>3, <2>1, Sizes DEF Strings
  <2>. HIDE DEF s
  <2>3. Len(s) <= Len(c) /\ Len(c) - Len(s) = k - 1
    BY <1>2, <2>2, Sizes
  <2>4. ASSUME NEW j \in 1..Len(s) PROVE s[j] = c[(Len(c) - Len(s)) + j]
    <3>1. CASE j = 1
      <4>1. (Len(c) - Len(s)) + j = k
        BY <1>3, <2>3, <3>1
      <4>. QED
        BY <1>3, <2>2, <3>1, <4>1
    <3>2. CASE j # 1
      <4>1. j - 1 \in 1..LabelSize /\ j \in Int
        BY <2>2, <3>2, Sizes
      <4>2. s[j] = label[j - 1]
        <5>1. s[(j - 1) + 1] = label[j - 1]
          BY <2>2, <4>1
        <5>2. (j - 1) + 1 = j
          BY <4>1
        <5>. QED
          BY <5>1, <5>2
      <4>3. label[j - 1] = c[k + (j - 1)]
        <5>1. Len(label) = LabelSize
          BY <1>2
        <5>. QED
          BY <1>3, <4>1, <5>1
      <4>4. k + (j - 1) = (Len(c) - Len(s)) + j
        BY <1>2, <2>2, <4>1, Sizes
      <4>. QED
        BY <4>2, <4>3, <4>4
    <3>. QED
      BY <3>1, <3>2
  <2>5. IsSuffix(s, c)
    BY <1>1, <2>2, <2>3, <2>4, SuffixIs
  <2>. QED
    BY <2>5 DEF s
<1>. HIDE DEF x
<1>10. Target(r)[1] = "ac" /\ Target(r)[2] = x
  BY <1>6
<1>11. /\ i \in IndexesOf(c, "-") /\ \A j \in 1..(i - 1) : c[j] # "-"
       /\ IsPrefix(SubSeq(x, 1, TitleSize), SubSeq(c, i + 1, Len(c)))
       /\ IsSuffix(<<"-">> \o SubSeq(x, TitleSize + 1, Len(x)), c)
  BY <1>4, <1>5, <1>7, <1>8, <1>9 DEF D
<1>. QED
  BY <1>6, <1>10, <1>11 DEF Names

-------------------------------------------------------------------------------
(* The record of a thread *)

Fields == {Absent} \cup {Text(s) : s \in Ids \cup {<<"0">>}}
                   \cup {Number(n) : n \in Numbers \cup {0}}

Ints == {Narrow(n) : n \in Numbers \cup {0}}

Answers == [status : {0, 200, 400}, ok : BOOLEAN, code : {"none", "EINVAL", "sdk", "unset"},
            exists : BOOLEAN, size : {"none", "known", "unknown"}, task : TaskIds \cup {-1}]

Record ==
  [pc : {"idle", "parse", "call", "size", "answer"}, op : Ops \cup {"none"},
   json : {"none", "object"}, id : Fields, sub : Fields, arg : Strings \cup {<<n>> : n \in Ints},
   subType : Ints \cup {0}, answer : Answers,
   calls : {<<>>, <<"ok">>, <<"failed">>, <<"ok", "ok">>, <<"ok", "failed">>}]

\* The answer tells what was called.
Tells(r) ==
  LET a == r.answer
      c == r.calls
  IN /\ a.status = 400 => c = <<>>
     /\ a.status = 200 /\ a.ok => c \in {<<"ok">>, <<"ok", "ok">>, <<"ok", "failed">>}
     /\ a.status = 200 /\ ~a.ok => /\ c \in {<<>>, <<"failed">>}
                                   /\ a.code = IF c = <<>> THEN "EINVAL" ELSE "sdk"
     /\ a.exists <=> c \in {<<"ok", "ok">>, <<"ok", "failed">>}
     /\ a.size = "known" <=> c = <<"ok", "ok">>
     /\ a.size = "unknown" <=> c = <<"ok", "failed">>

\* An add-on is looked for by its whole ids, and refused only if it has none.
AddOn(r) ==
  /\ r.answer.code = "EINVAL" => ~WellFormed(r.id.v)
  /\ r.calls # <<>> => Len(TitleOf(r.arg)) = TitleSize /\ Len(LabelOf(r.arg)) = LabelSize

Good(r) ==
  /\ r \in Record
  /\ r.pc = "idle" => r = Idle
  /\ r.pc # "idle" => /\ r.op \in Ops
                      /\ r.op \notin IntOps /\ r.id.type = "text" => r.id.v \in Ids
  /\ r.pc \in {"call", "size"} => Accepted(r) /\ r.arg = Arg(r)
  /\ r.pc \in {"parse", "call"} => r.calls = <<>>
  /\ r.pc = "call" => r.answer.code = "unset"
  /\ r.pc = "size" => /\ r.op = "is_exists" /\ r.calls = <<"ok">>
                      /\ r.answer.status = 200 /\ r.answer.ok /\ r.answer.exists
  /\ r.pc = "answer" => Tells(r) /\ (r.op = "uninstall_ac" => AddOn(r))

Inv ==
  /\ th \in [Threads -> Record]
  /\ \A t \in Threads : Good(th[t])
  /\ requests \in 0..MaxRequests
  /\ installed \subseteq Items
  /\ tasks \in [TaskIds -> TaskStates]

LEMMA IntegerField ==
  ASSUME NEW f \in Fields, f.type = "integer"
  PROVE  \E n \in Numbers \cup {0} : f = Number(n)
<1>1. \/ f = Absent
      \/ \E s \in Ids \cup {<<"0">>} : f = Text(s)
      \/ \E n \in Numbers \cup {0} : f = Number(n)
  BY DEF Fields
<1>2. Absent.type = "absent" /\ \A s : Text(s).type = "text"
  BY DEF Absent, Text
<1>. QED
  BY <1>1, <1>2

LEMMA IdleGood == Good(Idle) /\ Idle.pc = "idle" /\ Idle.op = "none"
<1>1. NoAnswer \in Answers
  BY DEF NoAnswer, Answer, Answers
<1>2. Absent \in Fields /\ <<>> \in Strings
  BY DEF Fields, Strings
<1>3. Idle \in Record /\ Idle.pc = "idle" /\ Idle.op = "none"
  BY <1>1, <1>2 DEF Idle, Record
<1>. QED
  BY <1>3 DEF Good

LEMMA RequestGood ==
  ASSUME NEW op \in Ops, NEW json \in {"none", "object"}, NEW id \in Fields, NEW sub \in Fields,
         op \notin IntOps /\ id.type = "text" => id.v \in Ids
  PROVE  Good(Request(op, json, id, sub))
<1>. DEFINE r == Request(op, json, id, sub)
<1>1. Idle \in Record /\ Idle.calls = <<>>
  BY IdleGood DEF Good, Idle
<1>2. /\ r \in Record /\ r.pc = "parse" /\ r.op = op /\ r.id = id /\ r.calls = <<>>
  BY <1>1 DEF Record, Request
<1>. HIDE DEF r
<1>3. Good(r)
  BY <1>2 DEF Good
<1>. QED
  BY <1>3 DEF r

\* What a thread is called with has the size of its buffer.
LEMMA ArgIs ==
  ASSUME NEW r \in Record, r.op \in Ops, Accepted(r),
         r.op \notin IntOps /\ r.id.type = "text" => r.id.v \in Ids
  PROVE  /\ r.op \in IntOps => \E n \in Numbers \cup {0} : r.id.v = <<n>> /\ Arg(r) = <<Narrow(n)>>
         /\ r.op \notin IntOps => /\ r.id.v \in Strings /\ Arg(r) = Cut(r.id.v, IdSize(r.op))
                                  /\ Arg(r) \in Strings /\ Len(Arg(r)) <= IdSize(r.op)
         /\ Arg(r) \in Strings \cup {<<n>> : n \in Ints}
<1>1. CASE r.op \in IntOps
  <2>1. r.id.type = "integer" /\ r.id \in Fields
    BY <1>1 DEF Accepted, IdAccepted, Record
  <2>2. PICK n \in Numbers \cup {0} : r.id = Number(n)
    BY <2>1, IntegerField
  <2>3. r.id.v = <<n>> /\ Arg(r) = <<Narrow(n)>>
    BY <1>1, <2>2 DEF Number, Arg
  <2>. QED
    BY <1>1, <2>3 DEF Ints
<1>2. CASE r.op \notin IntOps
  <2>1. r.id.type = "text"
    BY <1>2 DEF Accepted, IdAccepted
  <2>2. r.id.v \in Strings
    BY <1>2, <2>1, TasksAssumption DEF Strings
  <2>3. IdSize(r.op) \in Nat
    BY Sizes DEF IdSize
  <2>4. Arg(r) = Cut(r.id.v, IdSize(r.op))
    BY <1>2 DEF Arg
  <2>5. /\ Arg(r) \in Strings
        /\ Len(Arg(r)) = IF Len(r.id.v) <= IdSize(r.op) THEN Len(r.id.v) ELSE IdSize(r.op)
    BY <2>2, <2>3, <2>4, CutIs
  <2>6. Len(Arg(r)) <= IdSize(r.op)
    BY <2>2, <2>3, <2>5 DEF Strings
  <2>. QED
    BY <1>2, <2>2, <2>4, <2>5, <2>6
<1>. QED
  BY <1>1, <1>2

LEMMA ParseGood ==
  ASSUME NEW r, Good(r), r.pc = "parse", Accepted(r),
         NEW q, q = [r EXCEPT !.pc = "call", !.arg = Arg(r),
                              !.subType = IF r.op = "find_task" THEN Narrow(r.sub.v[1]) ELSE 0,
                              !.answer = [r.answer EXCEPT !.code = "unset"]]
  PROVE  Good(q)
<1>1. /\ r \in Record /\ r.op \in Ops /\ r.calls = <<>>
      /\ r.op \notin IntOps /\ r.id.type = "text" => r.id.v \in Ids
  BY DEF Good
<1>2. Arg(r) \in Strings \cup {<<n>> : n \in Ints}
  BY <1>1, ArgIs
<1>3. r.op = "find_task" => Narrow(r.sub.v[1]) \in Ints
  <2>1. SUFFICES ASSUME r.op = "find_task" PROVE Narrow(r.sub.v[1]) \in Ints
    OBVIOUS
  <2>2. r.sub.type = "integer" /\ r.sub \in Fields
    BY <1>1, <2>1 DEF Accepted, Record
  <2>3. PICK n \in Numbers \cup {0} : r.sub = Number(n)
    BY <2>2, IntegerField
  <2>. QED
    BY <2>3 DEF Number, Ints
<1>. DEFINE s == IF r.op = "find_task" THEN Narrow(r.sub.v[1]) ELSE 0
            a == [r.answer EXCEPT !.code = "unset"]
<1>4. s \in Ints \cup {0}
  BY <1>3
<1>5. a \in Answers /\ a.code = "unset"
  <2>1. r.answer \in Answers
    BY <1>1 DEF Record
  <2>. QED
    BY <2>1 DEF Answers
<1>. HIDE DEF s, a
<1>6. q = [r EXCEPT !.pc = "call", !.arg = Arg(r), !.subType = s, !.answer = a]
  BY DEF s, a
<1>7. /\ q \in Record /\ q.pc = "call" /\ q.op = r.op /\ q.json = r.json /\ q.id = r.id
      /\ q.sub = r.sub /\ q.arg = Arg(r) /\ q.answer = a /\ q.calls = r.calls
  BY <1>1, <1>2, <1>4, <1>5, <1>6 DEF Record
<1>8. Accepted(q) /\ Arg(q) = Arg(r)
  BY <1>7 DEF Accepted, IdAccepted, Arg
<1>. QED
  BY <1>1, <1>5, <1>7, <1>8 DEF Good

LEMMA Lengths ==
  /\ \A c \in {<<>>, <<"ok">>, <<"failed">>} : Len(c) < 2
  /\ Len(<<"ok", "ok">>) = 2 /\ Len(<<"ok", "failed">>) = 2
OBVIOUS

LEMMA AppendLast ==
  ASSUME NEW D, NEW s \in Seq(D), NEW x \in D
  PROVE  Len(Append(s, x)) = Len(s) + 1 /\ Append(s, x)[Len(s) + 1] = x
OBVIOUS

LEMMA Appended ==
  ASSUME NEW x \in {"ok", "failed"}
  PROVE  Append(<<"ok">>, x) = <<"ok", x>>
<1>. DEFINE s == <<"ok">>
            u == Append(s, x)
            v == <<"ok", x>>
<1>1. s \in Seq({"ok", "failed"}) /\ Len(s) = 1 /\ s[1] = "ok"
  OBVIOUS
<1>2. v \in Seq({"ok", "failed"}) /\ Len(v) = 2 /\ v[1] = "ok" /\ v[2] = x
  <2>1. "ok" \in {"ok", "failed"}
    OBVIOUS
  <2>2. \A y, z \in {"ok", "failed"} : <<y, z>> \in Seq({"ok", "failed"})
    OBVIOUS
  <2>3. Len(v) = 2 /\ v[1] = "ok" /\ v[2] = x
    OBVIOUS
  <2>. QED
    BY <2>1, <2>2, <2>3
<1>. HIDE DEF s, v
<1>3. u \in Seq({"ok", "failed"}) /\ Len(u) = 2 /\ u[1] = "ok" /\ u[2] = x
  <2>1. u \in Seq({"ok", "failed"})
    BY <1>1
  <2>2. Len(u) = Len(s) + 1 /\ u[Len(s) + 1] = x
    BY <1>1, AppendLast
  <2>3. \A i \in 1..Len(s) : u[i] = s[i]
    BY <1>1, SMTT(30)
  <2>. QED
    BY <1>1, <2>1, <2>2, <2>3
<1>. HIDE DEF u
<1>4. \A i \in 1..2 : u[i] = v[i]
  <2>1. \A i \in 1..2 : i = 1 \/ i = 2
    OBVIOUS
  <2>. QED
    BY <1>2, <1>3, <2>1
<1>5. u = v
  BY <1>2, <1>3, <1>4
<1>. QED
  BY <1>5 DEF s, u, v

\* A thread that has its answer.
LEMMA AnsweredGood ==
  ASSUME NEW r, Good(r), r.pc \in {"parse", "call"}, NEW a \in Answers,
         NEW c \in {<<>>, <<"ok">>, <<"failed">>},
         NEW q \in Record, q.pc = "answer", q.op = r.op, q.id = r.id, q.arg = r.arg,
         q.answer = a, q.calls = c, ~a.exists, a.size = "none",
         a.status = 400 => c = <<>>,
         a.status = 200 /\ a.ok => c = <<"ok">>,
         a.status = 200 /\ ~a.ok => c \in {<<>>, <<"failed">>} /\ a.code = IF c = <<>> THEN "EINVAL" ELSE "sdk",
         r.op = "uninstall_ac" /\ a.code = "EINVAL" => ~WellFormed(r.id.v),
         r.op = "uninstall_ac" /\ c # <<>> =>
           Len(TitleOf(r.arg)) = TitleSize /\ Len(LabelOf(r.arg)) = LabelSize
  PROVE  Good(q)
<1>1. /\ r \in Record /\ r.op \in Ops
      /\ r.op \notin IntOps /\ r.id.type = "text" => r.id.v \in Ids
  BY DEF Good
<1>2. Tells(q)
  <2>1. c # <<"ok", "ok">> /\ c # <<"ok", "failed">>
    <3>1. Len(c) < 2
      BY Lengths
    <3>2. Len(<<"ok", "ok">>) = 2 /\ Len(<<"ok", "failed">>) = 2
      BY Lengths
    <3>. HIDE DEF Record
    <3>. QED
      BY ONLY <3>1, <3>2
  <2>. QED
    BY <2>1 DEF Tells
<1>3. q.op = "uninstall_ac" => AddOn(q)
  BY DEF AddOn
<1>. QED
  BY <1>1, <1>2, <1>3 DEF Good

\* An add-on whose id has passed or failed the checks of installer.c.
LEMMA AddOnChecked ==
  ASSUME NEW r, Good(r), r.pc = "call", r.op = "uninstall_ac"
  PROVE  /\ Invalid(r) => ~WellFormed(r.id.v)
         /\ ~Invalid(r) => /\ pkg_parse_content_id(r.arg)
                           /\ Len(TitleOf(r.arg)) = TitleSize /\ Len(LabelOf(r.arg)) = LabelSize
         /\ r.id.v \in Strings /\ r.arg = Cut(r.id.v, ContentSize)
<1>1. /\ r \in Record /\ r.op \in Ops /\ r.op \notin IntOps /\ Accepted(r) /\ r.arg = Arg(r)
      /\ r.op \notin IntOps /\ r.id.type = "text" => r.id.v \in Ids
  BY DEF Good, IntOps, TaskOps
<1>2. /\ r.id.v \in Strings /\ r.arg = Cut(r.id.v, IdSize(r.op)) /\ r.arg \in Strings
  BY <1>1, ArgIs
<1>3. IdSize(r.op) = ContentSize
  BY DEF IdSize, TitleOps
<1>4. Invalid(r) <=> ~pkg_parse_content_id(r.arg)
  BY DEF Invalid
<1>5. WellFormed(r.id.v) => pkg_parse_content_id(r.arg)
  <2>1. SUFFICES ASSUME WellFormed(r.id.v) PROVE pkg_parse_content_id(r.arg)
    OBVIOUS
  <2>2. Len(r.id.v) = ContentSize
    BY <2>1 DEF WellFormed
  <2>3. r.arg = r.id.v
    BY <1>2, <1>3, <2>2, Sizes DEF Cut
  <2>. QED
    BY <1>2, <2>1, <2>3, WellFormedParses
<1>. QED
  BY <1>2, <1>3, <1>4, <1>5, Parses

LEMMA Replaces ==
  ASSUME Inv, NEW t \in Threads, NEW q, Good(q), th' = [th EXCEPT ![t] = q],
         requests' \in 0..MaxRequests, installed' \subseteq Items,
         tasks' \in [TaskIds -> TaskStates]
  PROVE  Inv'
<1>1. q \in Record
  BY DEF Good
<1>2. th' \in [Threads -> Record] /\ th'[t] = q /\ \A u \in Threads \ {t} : th'[u] = th[u]
  BY <1>1 DEF Inv
<1>3. \A u \in Threads : Good(th'[u])
  BY <1>2 DEF Inv
<1>. QED
  BY <1>2, <1>3 DEF Inv

\* The service has answered: with success or with an error.
Returned(t, result, a) ==
  th' = [th EXCEPT ![t] = [Called(t, result) EXCEPT !.answer = a]]

LEMMA CalledInv ==
  ASSUME Inv, NEW t \in Threads, th[t].pc = "call", ~Invalid(th[t]),
         NEW result \in {"ok", "failed"}, NEW a \in Answers, a.status = 200,
         ~a.exists, a.size = "none",
         result = "ok" => a.ok /\ a.code = "none",
         result = "failed" => ~a.ok /\ a.code = "sdk",
         Returned(t, result, a),
         requests' = requests, installed' \subseteq Items, tasks' \in [TaskIds -> TaskStates]
  PROVE  Inv'
<1>. DEFINE r == th[t]
            q == [Called(t, result) EXCEPT !.answer = a]
            c == <<result>>
<1>1. Good(r) /\ r \in Record /\ r.calls = <<>> /\ r.pc = "call"
  BY DEF Inv, Good
<1>2. Append(<<>>, result) = c
  OBVIOUS
<1>3. c \in {<<>>, <<"ok">>, <<"failed">>} /\ c # <<>>
  OBVIOUS
<1>4. c = IF result = "ok" THEN <<"ok">> ELSE <<"failed">>
  OBVIOUS
<1>. HIDE DEF c
<1>5. q = [r EXCEPT !.calls = c, !.pc = "answer", !.answer = a]
  BY <1>1, <1>2 DEF Called
<1>. HIDE DEF r, q
<1>6. /\ q \in Record /\ q.pc = "answer" /\ q.op = r.op /\ q.id = r.id /\ q.arg = r.arg
      /\ q.answer = a /\ q.calls = c
  BY <1>1, <1>3, <1>5 DEF Record
<1>7. /\ a.status # 400
      /\ a.status = 200 /\ a.ok => c = <<"ok">>
      /\ a.status = 200 /\ ~a.ok => c = <<"failed">> /\ a.code = "sdk"
      /\ a.code # "EINVAL"
  BY <1>4
<1>8. r.op = "uninstall_ac" =>
        Len(TitleOf(r.arg)) = TitleSize /\ Len(LabelOf(r.arg)) = LabelSize
  BY <1>1, AddOnChecked DEF r
<1>9. Good(q)
  BY <1>1, <1>3, <1>6, <1>7, <1>8, AnsweredGood
<1>. QED
  BY <1>9, Replaces DEF Inv, Returned, q


-------------------------------------------------------------------------------
(* The steps *)

LEMMA BodyInv ==
  ASSUME Inv, NEW t \in Threads, NEW op \in Ops, Body(t, op)
  PROVE  Inv'
<1>1. ASSUME NEW r, Good(r), Receive(t, r) PROVE Inv'
  <2>1. requests' \in 0..MaxRequests /\ installed' = installed /\ tasks' = tasks
    BY <1>1, TasksAssumption DEF Inv, Receive
  <2>2. th' = [th EXCEPT ![t] = r]
    BY <1>1 DEF Receive
  <2>. QED
    BY <1>1, <2>1, <2>2, Replaces DEF Inv
<1>2. Absent \in Fields /\ Absent.type = "absent"
  BY DEF Absent, Fields
<1>3. ASSUME NEW s \in Ids \cup {<<"0">>}
      PROVE  Text(s) \in Fields /\ Text(s).type = "text" /\ Text(s).v = s
  BY DEF Text, Fields
<1>4. ASSUME NEW n \in Numbers \cup {0}
      PROVE  Number(n) \in Fields /\ Number(n).type = "integer"
  BY DEF Number, Fields
<1>5. Good(Request(op, "none", Absent, Absent)) /\ Good(Request(op, "object", Absent, Absent))
  BY <1>2, RequestGood
<1>6. op \in IntOps => Good(Request(op, "object", Text(<<"0">>), Absent))
  BY <1>2, <1>3, RequestGood
<1>7. \A n \in Numbers \cup {0} : Good(Request(op, "object", Number(n), Absent))
  BY <1>2, <1>4, RequestGood
<1>8. \A s \in Ids : Good(Request(op, "object", Text(s), Absent))
  BY <1>2, <1>3, RequestGood
<1>9. \A s \in Ids, n \in Numbers : Good(Request(op, "object", Text(s), Number(n)))
  BY <1>3, <1>4, RequestGood
<1>. QED
  BY <1>1, <1>5, <1>6, <1>7, <1>8, <1>9 DEF Body

LEMMA ParseInv ==
  ASSUME Inv, NEW t \in Threads, Parse(t)
  PROVE  Inv'
<1>. DEFINE r == th[t]
            q == [r EXCEPT !.pc = "call", !.arg = Arg(r),
                           !.subType = IF r.op = "find_task" THEN Narrow(r.sub.v[1]) ELSE 0,
                           !.answer = [r.answer EXCEPT !.code = "unset"]]
<1>1. Good(r) /\ r.pc = "parse" /\ Accepted(r) /\ r \in Record
  BY DEF Inv, Parse, Good
<1>2. Good(q)
  BY <1>1, ParseGood
<1>3. th' = [th EXCEPT ![t] = q]
  BY ZenonT(40) DEF Parse, Inv, Record
<1>. HIDE DEF q
<1>. QED
  BY <1>2, <1>3, Replaces DEF Inv, Parse

\* The handler answers by itself.
AnsweredAlone(t, a) ==
  th' = [th EXCEPT ![t] = [th[t] EXCEPT !.pc = "answer", !.answer = a]]

LEMMA AnswersAt ==
  ASSUME Inv, NEW t \in Threads, th[t].pc \in {"parse", "call"}, NEW a \in Answers,
         AnsweredAlone(t, a), ~a.exists, a.size = "none",
         a.status = 400 => a.code # "EINVAL",
         a.status = 200 => ~a.ok /\ a.code = "EINVAL",
         a.code = "EINVAL" => (th[t].op = "uninstall_ac" => ~WellFormed(th[t].id.v)),
         requests' = requests, installed' = installed, tasks' = tasks
  PROVE  Inv'
<1>. DEFINE r == th[t]
            q == [r EXCEPT !.pc = "answer", !.answer = a]
<1>1. Good(r) /\ r \in Record /\ r.calls = <<>>
  BY DEF Inv, Good
<1>2. /\ q \in Record /\ q.pc = "answer" /\ q.op = r.op /\ q.id = r.id /\ q.arg = r.arg
      /\ q.answer = a /\ q.calls = <<>>
  BY <1>1 DEF Record
<1>3. Good(q)
  <2>. HIDE DEF q
  <2>1. <<>> \in {<<>>, <<"ok">>, <<"failed">>}
    OBVIOUS
  <2>. QED
    BY <1>1, <1>2, <2>1, AnsweredGood
<1>4. th' = [th EXCEPT ![t] = q]
  BY DEF AnsweredAlone
<1>5. requests' \in 0..MaxRequests /\ installed' \subseteq Items /\ tasks' \in [TaskIds -> TaskStates]
  BY DEF Inv
<1>. HIDE DEF q
<1>. QED
  BY <1>3, <1>4, <1>5, Replaces

LEMMA RefuseInv ==
  ASSUME Inv, NEW t \in Threads, Refuse(t)
  PROVE  Inv'
<1>. DEFINE a == Answer(400, FALSE, "none")
<1>1. a \in Answers /\ a.status = 400 /\ a.code = "none" /\ ~a.exists /\ a.size = "none"
  BY DEF Answer, Answers
<1>. HIDE DEF a
<1>2. AnsweredAlone(t, a)
  BY ZenonT(40) DEF AnsweredAlone, Refuse, Inv, a
<1>3. th[t].pc = "parse" /\ requests' = requests /\ installed' = installed /\ tasks' = tasks
  BY DEF Refuse
<1>. QED
  BY <1>1, <1>2, <1>3, AnswersAt

LEMMA InvalidArgumentInv ==
  ASSUME Inv, NEW t \in Threads, InvalidArgument(t)
  PROVE  Inv'
<1>. DEFINE a == Answer(200, FALSE, "EINVAL")
<1>1. /\ a \in Answers /\ a.status = 200 /\ ~a.ok /\ a.code = "EINVAL"
      /\ ~a.exists /\ a.size = "none"
  BY DEF Answer, Answers
<1>. HIDE DEF a
<1>2. AnsweredAlone(t, a)
  BY DEF AnsweredAlone, InvalidArgument, Inv, a
<1>3. th[t].pc = "call" /\ Invalid(th[t]) /\ requests' = requests
      /\ installed' = installed /\ tasks' = tasks
  BY DEF InvalidArgument
<1>4. th[t].op = "uninstall_ac" => ~WellFormed(th[t].id.v)
  BY <1>3, AddOnChecked DEF Inv
<1>. QED
  BY <1>1, <1>2, <1>3, <1>4, AnswersAt

LEMMA SuccessIs ==
  /\ Success \in Answers /\ Success.status = 200 /\ Success.ok /\ Success.code = "none"
  /\ ~Success.exists /\ Success.size = "none"
BY DEF Success, Answer, Answers

LEMMA ServiceFailsInv ==
  ASSUME Inv, NEW t \in Threads, ServiceFails(t)
  PROVE  Inv'
<1>. DEFINE a == Answer(200, FALSE, "sdk")
<1>1. /\ a \in Answers /\ a.status = 200 /\ ~a.ok /\ a.code = "sdk"
      /\ ~a.exists /\ a.size = "none"
  BY DEF Answer, Answers
<1>. HIDE DEF a
<1>2. Returned(t, "failed", a)
  BY DEF Returned, ServiceFails, a
<1>3. /\ th[t].pc = "call" /\ ~Invalid(th[t]) /\ requests' = requests
      /\ installed' \subseteq Items /\ tasks' \in [TaskIds -> TaskStates]
  BY DEF ServiceFails, Inv
<1>. QED
  BY <1>1, <1>2, <1>3, CalledInv

LEMMA UninstallInv ==
  ASSUME Inv, NEW t \in Threads, Uninstall(t)
  PROVE  Inv'
<1>1. /\ th[t].pc = "call" /\ ~Invalid(th[t]) /\ requests' = requests
      /\ installed' \subseteq Items /\ tasks' \in [TaskIds -> TaskStates]
  BY DEF Uninstall, Inv
<1>2. Returned(t, "ok", Success)
  BY DEF Returned, Uninstall, Succeeds
<1>. QED
  BY <1>1, <1>2, SuccessIs, CalledInv

LEMMA TaskActionInv ==
  ASSUME Inv, NEW t \in Threads, TaskAction(t)
  PROVE  Inv'
<1>1. th[t].pc = "call" /\ ~Invalid(th[t])
  BY DEF TaskAction, Invalid, TaskOps
<1>2. After(th[t].op) \in TaskStates
  BY DEF TaskAction, After, TaskOps, TaskStates
<1>3. requests' = requests /\ installed' \subseteq Items /\ tasks' \in [TaskIds -> TaskStates]
  BY <1>2 DEF TaskAction, Inv
<1>4. Returned(t, "ok", Success)
  BY DEF Returned, TaskAction, Succeeds
<1>. QED
  BY <1>1, <1>3, <1>4, SuccessIs, CalledInv

LEMMA ProgressInv ==
  ASSUME Inv, NEW t \in Threads, Progress(t)
  PROVE  Inv'
<1>1. th[t].pc = "call" /\ ~Invalid(th[t])
  BY DEF Progress, Invalid
<1>2. requests' = requests /\ installed' \subseteq Items /\ tasks' \in [TaskIds -> TaskStates]
  BY DEF Progress, Inv
<1>3. Returned(t, "ok", Success)
  BY DEF Returned, Progress, Succeeds
<1>. QED
  BY <1>1, <1>2, <1>3, SuccessIs, CalledInv

LEMMA FindTaskInv ==
  ASSUME Inv, NEW t \in Threads, FindTask(t)
  PROVE  Inv'
<1>1. th[t].pc = "call" /\ ~Invalid(th[t])
  BY DEF FindTask
<1>2. requests' = requests /\ installed' \subseteq Items /\ tasks' \in [TaskIds -> TaskStates]
  BY DEF FindTask, Inv
<1>3. PICK n \in TaskIds : Succeeds(t, [Success EXCEPT !.task = n])
  BY DEF FindTask
<1>. DEFINE a == [Success EXCEPT !.task = n]
<1>4. /\ a \in Answers /\ a.status = 200 /\ a.ok /\ a.code = "none"
      /\ ~a.exists /\ a.size = "none"
  BY SuccessIs DEF Answers
<1>. HIDE DEF a
<1>5. Returned(t, "ok", a)
  BY <1>3 DEF Returned, Succeeds, a
<1>. QED
  BY <1>1, <1>2, <1>4, <1>5, CalledInv


LEMMA IsExistsInv ==
  ASSUME Inv, NEW t \in Threads, IsExists(t)
  PROVE  Inv'
<1>. DEFINE r == th[t]
            there == <<"game", th[t].arg>> \in installed
            a == [Success EXCEPT !.exists = there]
            c == <<"ok">>
            p == IF there THEN "size" ELSE "answer"
            q == [Called(t, "ok") EXCEPT !.pc = p, !.answer = a]
<1>1. Good(r) /\ r \in Record /\ r.calls = <<>> /\ r.pc = "call" /\ r.op = "is_exists"
  BY DEF Inv, Good, IsExists
<1>2. Append(<<>>, "ok") = c
  OBVIOUS
<1>3. c \in {<<>>, <<"ok">>, <<"failed">>} /\ c # <<>> /\ c = <<"ok">>
  OBVIOUS
<1>4. there \in BOOLEAN
  OBVIOUS
<1>5. th' = [th EXCEPT ![t] = q]
  BY DEF IsExists
<1>6. p \in {"size", "answer"} /\ (p = "size" <=> there)
  OBVIOUS
<1>. HIDE DEF there, c
<1>7. /\ a \in Answers /\ a.status = 200 /\ a.ok /\ a.code = "none"
      /\ a.size = "none" /\ a.exists = there
  BY <1>4, SuccessIs DEF Answers
<1>. HIDE DEF p, a
<1>8. q = [r EXCEPT !.calls = c, !.pc = p, !.answer = a]
  BY <1>1, <1>2 DEF Called
<1>9. Accepted(r) /\ r.arg = Arg(r)
  BY <1>1 DEF Good
<1>. HIDE DEF r, q
<1>10. /\ q \in Record /\ q.pc = p /\ q.op = r.op /\ q.json = r.json /\ q.id = r.id
       /\ q.sub = r.sub /\ q.arg = r.arg /\ q.answer = a /\ q.calls = c
  BY <1>1, <1>3, <1>6, <1>7, <1>8 DEF Record
<1>11. Good(q)
  <2>1. CASE p = "answer"
    <3>1. ~a.exists
      BY <1>6, <1>7, <2>1
    <3>. QED
      BY <1>1, <1>3, <1>7, <1>10, <2>1, <3>1, AnsweredGood
  <2>2. CASE p = "size"
    <3>1. Accepted(q) /\ q.arg = Arg(q)
      BY <1>9, <1>10 DEF Accepted, IdAccepted, Arg
    <3>2. q.op \in Ops /\ (q.op \notin IntOps /\ q.id.type = "text" => q.id.v \in Ids)
      BY <1>1, <1>10 DEF Good
    <3>3. /\ q.pc = "size" /\ q.op = "is_exists" /\ q.calls = <<"ok">>
          /\ q.answer.status = 200 /\ q.answer.ok /\ q.answer.exists
      BY <1>1, <1>3, <1>6, <1>7, <1>10, <2>2
    <3>. QED
      BY <1>10, <3>1, <3>2, <3>3 DEF Good
  <2>. QED
    BY <1>6, <2>1, <2>2
<1>12. requests' \in 0..MaxRequests /\ installed' \subseteq Items /\ tasks' \in [TaskIds -> TaskStates]
  BY DEF IsExists, Inv
<1>. QED
  BY <1>5, <1>11, <1>12, Replaces

LEMMA GetSizeInv ==
  ASSUME Inv, NEW t \in Threads, GetSize(t)
  PROVE  Inv'
<1>1. PICK result \in {"ok", "failed"}, size \in {"known", "unknown"} :
        /\ Sized(t, result, size)
        /\ size = "known" <=> result = "ok"
  BY DEF GetSize
<1>. DEFINE r == th[t]
            a == [r.answer EXCEPT !.size = size]
            c == <<"ok", result>>
            q == [r EXCEPT !.calls = c, !.pc = "answer", !.answer = a]
<1>2. /\ Good(r) /\ r \in Record /\ r.pc = "size" /\ r.op = "is_exists" /\ r.calls = <<"ok">>
      /\ r.answer \in Answers /\ r.answer.status = 200 /\ r.answer.ok /\ r.answer.exists
  BY DEF Inv, Good, GetSize, Record
<1>3. Append(<<"ok">>, result) = c
  BY Appended
<1>4. /\ c \in {<<"ok", "ok">>, <<"ok", "failed">>} /\ c # <<>> /\ c # <<"failed">>
      /\ c = <<"ok", "ok">> <=> result = "ok"
      /\ c = <<"ok", "failed">> <=> result = "failed"
  OBVIOUS
<1>. HIDE DEF c
<1>5. th' = [th EXCEPT ![t] = q]
  BY <1>1, <1>2, <1>3 DEF Sized, Called, Inv, Record
<1>6. a \in Answers /\ a.status = 200 /\ a.ok /\ a.exists /\ a.size = size
  BY <1>1, <1>2 DEF Answers
<1>. HIDE DEF a
<1>7. /\ q \in Record /\ q.pc = "answer" /\ q.op = r.op /\ q.id = r.id /\ q.answer = a /\ q.calls = c
  BY <1>2, <1>4, <1>6 DEF Record
<1>8. q.op \in Ops /\ (q.op \notin IntOps /\ q.id.type = "text" => q.id.v \in Ids)
  BY <1>2, <1>7 DEF Good
<1>. HIDE DEF r, q
<1>9. Tells(q)
  BY <1>1, <1>4, <1>6, <1>7 DEF Tells
<1>10. Good(q)
  BY <1>2, <1>7, <1>8, <1>9 DEF Good
<1>11. requests' \in 0..MaxRequests /\ installed' \subseteq Items /\ tasks' \in [TaskIds -> TaskStates]
  BY DEF GetSize, Inv
<1>. QED
  BY <1>5, <1>10, <1>11, Replaces

LEMMA SendAnswerInv ==
  ASSUME Inv, NEW t \in Threads, SendAnswer(t)
  PROVE  Inv'
<1>1. th' = [th EXCEPT ![t] = Idle]
  BY DEF SendAnswer
<1>2. requests' \in 0..MaxRequests /\ installed' \subseteq Items /\ tasks' \in [TaskIds -> TaskStates]
  BY DEF SendAnswer, Inv
<1>. QED
  BY <1>1, <1>2, IdleGood, Replaces

LEMMA InitInv == Init => Inv
<1>. SUFFICES ASSUME Init PROVE Inv
  OBVIOUS
<1>1. Idle \in Record /\ Good(Idle)
  BY IdleGood DEF Good
<1>2. th \in [Threads -> Record] /\ \A t \in Threads : th[t] = Idle
  BY <1>1 DEF Init
<1>3. requests \in 0..MaxRequests
  BY TasksAssumption DEF Init
<1>4. installed \subseteq Items /\ tasks \in [TaskIds -> TaskStates]
  BY DEF Init, TaskStates
<1>. QED
  BY <1>1, <1>2, <1>3, <1>4 DEF Inv

LEMMA StepInv == Inv /\ [Next]_vars => Inv'
<1>. SUFFICES ASSUME Inv, [Next]_vars PROVE Inv'
  OBVIOUS
<1>1. ASSUME NEW t \in Threads, Step(t) PROVE Inv'
  BY <1>1, ParseInv, RefuseInv, InvalidArgumentInv, ServiceFailsInv, UninstallInv, TaskActionInv,
     ProgressInv, FindTaskInv, IsExistsInv, GetSizeInv, SendAnswerInv DEF Step
<1>2. ASSUME NEW x \in Items, Appears(x) PROVE Inv'
  BY <1>2 DEF Inv, Appears
<1>3. CASE UNCHANGED vars
  BY <1>3 DEF Inv, vars
<1>. QED
  BY <1>1, <1>2, <1>3, BodyInv DEF Next

\* Inv is an invariant of the endpoints, for any number of connection threads and any ids,
\* integers and tasks: what a thread holds is what its request made of it.
THEOREM Invariant == Spec => []Inv
BY InitInv, StepInv, PTL DEF Spec

LEMMA InvAnswers == Inv => AnswersTrue
<1>. SUFFICES ASSUME Inv PROVE AnswersTrue
  OBVIOUS
<1>1. ASSUME NEW t \in Threads
      PROVE  /\ th[t] \in Record /\ Good(th[t])
             /\ th[t].pc \in {"call", "size"} =>
                  Len(th[t].arg) <= IF th[t].op \in IntOps THEN 1
                                    ELSE IF th[t].op \in TitleOps THEN TitleSize ELSE ContentSize
  <2>. DEFINE r == th[t]
  <2>1. Good(r) /\ r \in Record
    BY <1>1 DEF Inv
  <2>2. SUFFICES ASSUME r.pc \in {"call", "size"}
                 PROVE  Len(r.arg) <= IF r.op \in IntOps THEN 1
                                      ELSE IF r.op \in TitleOps THEN TitleSize ELSE ContentSize
    BY <2>1
  <2>3. /\ r.op \in Ops /\ Accepted(r) /\ r.arg = Arg(r)
        /\ r.op \notin IntOps /\ r.id.type = "text" => r.id.v \in Ids
    BY <2>1, <2>2 DEF Good
  <2>. HIDE DEF r
  <2>4. CASE r.op \in IntOps
    <3>1. PICK n : r.arg = <<n>>
      BY <2>1, <2>3, <2>4, ArgIs
    <3>. QED
      BY <2>4, <3>1
  <2>5. CASE r.op \notin IntOps
    <3>1. Len(r.arg) <= IdSize(r.op)
      BY <2>1, <2>3, <2>5, ArgIs
    <3>. QED
      BY <2>5, <3>1 DEF IdSize
  <2>. QED
    BY <2>4, <2>5
<1>2. TypeOK
  <2>1. ASSUME NEW t \in Threads
        PROVE  /\ th[t].pc \in {"idle", "parse", "call", "size", "answer"}
               /\ th[t].op \in Ops \cup {"none"} /\ th[t].answer \in Answers
    BY <1>1 DEF Record
  <2>2. \A a \in Answers : /\ a.status \in {0, 200, 400}
                           /\ a.code \in {"none", "EINVAL", "sdk", "unset"}
                           /\ a.size \in {"none", "known", "unknown"}
    BY DEF Answers
  <2>3. DOMAIN th = Threads /\ requests \in 0..MaxRequests /\ installed \subseteq Items
        /\ tasks \in [TaskIds -> TaskStates]
    BY DEF Inv
  <2>. QED
    BY <1>1, <2>1, <2>2, <2>3 DEF TypeOK
<1>3. AnswerTellsEffect
  BY <1>1 DEF Good, Tells, AnswerTellsEffect
<1>4. WellFormedServed
  <2>1. SUFFICES ASSUME NEW t \in Threads, th[t].op = "uninstall_ac", th[t].pc # "parse"
                 PROVE  /\ th[t].id.type = "text" /\ WellFormed(th[t].id.v) =>
                             th[t].answer.code # "EINVAL"
                        /\ th[t].calls # <<>> => /\ Len(TitleOf(th[t].arg)) = TitleSize
                                                 /\ Len(LabelOf(th[t].arg)) = LabelSize
    BY DEF WellFormedServed
  <2>2. th[t].pc \in {"idle", "call", "size", "answer"} /\ Good(th[t])
    BY <1>1, <2>1 DEF Record
  <2>3. CASE th[t].pc = "idle"
    BY <2>1, <2>2, <2>3, IdleGood DEF Good
  <2>4. CASE th[t].pc = "call"
    BY <2>2, <2>4 DEF Good
  <2>5. CASE th[t].pc = "size"
    BY <2>1, <2>2, <2>5 DEF Good
  <2>6. CASE th[t].pc = "answer"
    BY <2>1, <2>2, <2>6 DEF Good, AddOn
  <2>. QED
    BY <2>2, <2>3, <2>4, <2>5, <2>6
<1>. QED
  BY <1>2, <1>3, <1>4 DEF AnswersTrue

\* What a client is told is true of the calls that were made for it, an error comes with the
\* code of its own call, a size is the service's or said to be unknown, and the add-on call gets
\* whole ids and is refused to no content id of the documented form: for every size of the ids
\* and every width of an int.
THEOREM AnswersHold == Spec => []AnswersTrue
BY Invariant, InvAnswers, PTL


-------------------------------------------------------------------------------
(* Only what a client named changes *)

\* The step formula of OnlyNamedChanges, in its two parts.
NamedGone ==
  \A x \in installed \ installed' : \E t \in Threads :
    LET r == th[t]
    IN /\ r.pc = "call"
       /\ \/ Names(r.op, r.id.v, x)
          \/ Overlong(r) /\ Names(r.op, Cut(r.id.v, IdSize(r.op)), x)

NamedChanged ==
  \A n \in TaskIds : tasks'[n] # tasks[n] => \E t \in Threads :
    LET m == th[t].id.v[1]
    IN /\ th[t].pc = "call" /\ th[t].op \in TaskOps
       /\ m = n \/ (Wide(m) /\ (m - n) % (2 * Half) = 0)

LEMMA UninstallNamed ==
  ASSUME Inv, NEW t \in Threads, Uninstall(t)
  PROVE  NamedGone
<1>. DEFINE r == th[t]
<1>1. Good(r) /\ r.pc = "call" /\ r.op \in UninstallOps /\ ~Invalid(r)
  BY DEF Inv, Uninstall
<1>2. /\ r \in Record /\ r.op \in Ops /\ Accepted(r) /\ r.arg = Arg(r) /\ r.op \notin IntOps
      /\ r.op \notin IntOps /\ r.id.type = "text" => r.id.v \in Ids
  BY <1>1 DEF Good, UninstallOps, IntOps, TaskOps
<1>3. \A x \in installed \ installed' : x = Target(r)
  BY DEF Uninstall
<1>. HIDE DEF r
<1>4. r.id.v \in Strings /\ r.arg = Cut(r.id.v, IdSize(r.op)) /\ IdSize(r.op) \in Nat
  BY <1>2, ArgIs, Sizes DEF IdSize
<1>5. Names(r.op, r.arg, Target(r))
  <2>1. CASE r.op = "uninstall_ac"
    BY <1>1, <2>1, AddOnChecked, AddOnNamed
  <2>2. CASE r.op # "uninstall_ac"
    <3>1. r.op \in {"uninstall_game", "uninstall_patch", "uninstall_theme"}
      BY <1>1, <2>2 DEF UninstallOps
    <3>. QED
      BY <3>1, GameNamed
  <2>. QED
    BY <2>1, <2>2
<1>6. r.arg = r.id.v \/ Overlong(r)
  BY <1>4 DEF Cut, Overlong, Strings
<1>7. \/ Names(r.op, r.id.v, Target(r))
      \/ Overlong(r) /\ Names(r.op, Cut(r.id.v, IdSize(r.op)), Target(r))
  BY <1>4, <1>5, <1>6
<1>. QED
  BY <1>1, <1>3, <1>7 DEF NamedGone, r

LEMMA TaskActionNamed ==
  ASSUME Inv, NEW t \in Threads, TaskAction(t)
  PROVE  NamedChanged
<1>. DEFINE r == th[t]
<1>1. Good(r) /\ r.pc = "call" /\ r.op \in TaskOps /\ r.op \in IntOps
  BY DEF Inv, TaskAction, IntOps
<1>2. /\ r \in Record /\ r.op \in Ops /\ Accepted(r) /\ r.arg = Arg(r)
      /\ r.op \notin IntOps /\ r.id.type = "text" => r.id.v \in Ids
  BY <1>1 DEF Good
<1>3. PICK m \in Numbers \cup {0} : r.id.v = <<m>> /\ r.arg = <<Narrow(m)>>
  <2>. HIDE DEF r
  <2>. QED
    BY <1>1, <1>2, ArgIs
<1>4. r.id.v[1] = m /\ r.arg[1] = Narrow(m) /\ m \in Int
  BY <1>3, TasksAssumption
<1>5. \A n \in TaskIds : tasks'[n] # tasks[n] => n = r.arg[1]
  BY DEF Inv, TaskAction
<1>. HIDE DEF r
<1>6. SUFFICES ASSUME NEW n \in TaskIds, n = Narrow(m)
               PROVE  m = n \/ (Wide(m) /\ (m - n) % (2 * Half) = 0)
  BY <1>1, <1>4, <1>5 DEF NamedChanged, r
<1>7. Half > 0
  BY HalfInt, TasksAssumption
<1>. QED
  BY <1>4, <1>6, <1>7, Narrowed, Fitting

LEMMA StepNamed == Inv /\ [Next]_vars => NamedGone /\ NamedChanged
<1>. SUFFICES ASSUME Inv, [Next]_vars PROVE NamedGone /\ NamedChanged
  OBVIOUS
<1>1. ASSUME installed \subseteq installed' PROVE NamedGone
  BY <1>1 DEF NamedGone
<1>2. ASSUME tasks' = tasks PROVE NamedChanged
  BY <1>2 DEF NamedChanged
<1>3. ASSUME NEW t \in Threads, NEW op \in Ops, Body(t, op)
      PROVE  installed' = installed /\ tasks' = tasks
  BY <1>3 DEF Body, Receive
<1>4. ASSUME NEW x \in Items, Appears(x)
      PROVE  installed \subseteq installed' /\ tasks' = tasks
  BY <1>4 DEF Appears
<1>5. ASSUME NEW t \in Threads, Step(t)
      PROVE  NamedGone /\ NamedChanged
  <2>1. CASE Uninstall(t)
    BY <1>2, <1>5, <2>1, UninstallNamed DEF Uninstall
  <2>2. CASE TaskAction(t)
    BY <1>1, <1>5, <2>2, TaskActionNamed DEF TaskAction
  <2>3. CASE ~(Uninstall(t) \/ TaskAction(t))
    <3>1. installed' = installed /\ tasks' = tasks
      BY <1>5, <2>3 DEF Step, Parse, Refuse, InvalidArgument, ServiceFails, Progress, FindTask,
                        IsExists, GetSize, SendAnswer
    <3>. QED
      BY <1>1, <1>2, <3>1
  <2>. QED
    BY <2>1, <2>2, <2>3
<1>6. CASE UNCHANGED vars
  BY <1>1, <1>2, <1>6 DEF vars
<1>. QED
  BY <1>1, <1>2, <1>3, <1>4, <1>5, <1>6 DEF Next

\* Whatever the clients do at once, an item disappears and a task changes only by the request
\* of a client that named it exactly, or whose id is longer than its buffer and begins with it,
\* or whose integer does not fit an int and is equal to it in one: for ids of every length and
\* integers of every width.
THEOREM OnlyNamed == Spec => OnlyNamedChanges
<1>1. Inv /\ [Next]_vars => [NamedGone /\ NamedChanged]_vars
  BY StepNamed
<1>. QED
  BY <1>1, Invariant, PTL DEF Spec, OnlyNamedChanges, NamedGone, NamedChanged
=================================================================================
