----------------------------- MODULE PackageProofs -----------------------------
(***************************************************************************)
(* Proofs about Package, for packages, lists of pieces, param.sfo files    *)
(* and words of any size: an install misuses no memory, leaves nothing of  *)
(* its own behind, and describes the package it was asked for.             *)
(*                                                                         *)
(* Each of the three parts has an inductive invariant of its own (SfoInv,  *)
(* PieceInv, UrlInv); Linked says how far the parts have come together.    *)
(* They are for one thread at a time.  ManyInv is about PieceUrls with any *)
(* number of threads, whose direct installs are not harmed by the pool     *)
(* that the others share.                                                  *)
(***************************************************************************)
EXTENDS Package, SequenceTheorems, WellFoundedInduction, TLAPS

-------------------------------------------------------------------------------
(* Numbers *)

\* A set of naturals that is not empty has a least element.
LEMMA Least ==
  ASSUME NEW T \in SUBSET Nat, T # {}
  PROVE  \E x \in T : \A y \in T : x <= y
<1>1. \E x \in T : \A y \in T : ~(<<y, x>> \in OpToRel(<, Nat))
  BY NatLessThanWellFounded, WFMin
<1>2. PICK x \in T : \A y \in T : ~(<<y, x>> \in OpToRel(<, Nat))
  BY <1>1
<1>3. x \in T /\ x \in Nat
  BY <1>2
<1>4. \A y \in T : ~(y < x)
  BY <1>2, <1>3 DEF OpToRel
<1>. QED
  BY <1>3, <1>4

-------------------------------------------------------------------------------
(* The list of param.sfo entries *)

\* utlist's list when it holds the entries from h to n in their order.
Chain(h, n) ==
  /\ head = IF h <= n THEN h ELSE 0
  /\ \A i \in h..n : /\ nxt[i] = IF i = n THEN 0 ELSE i + 1
                     /\ prv[i] = IF i = h THEN n ELSE i - 1

\* Following next from the head of a whole list meets the entries one after the other.
LEMMA WalkIsOrder ==
  ASSUME NEW m \in 0..MaxEntries, Chain(1, m), NEW n \in 0..MaxEntries
  PROVE  Walk[n] = IF n < m THEN n + 1 ELSE 0
<1>. DEFINE step(f, k) == IF k = 0 THEN head ELSE IF f[k - 1] = 0 THEN 0 ELSE nxt[f[k - 1]]
            w == [k \in 0..n |-> IF k < m THEN k + 1 ELSE 0]
            f == CHOOSE g : g = [k \in 0..n |-> IF k = 0 THEN head ELSE
                                 IF g[k - 1] = 0 THEN 0 ELSE nxt[g[k - 1]]]
<1>0. MaxEntries \in Nat /\ n \in Nat /\ m \in Nat
  BY SfoTableAssumption
<1>1. \A k \in 0..n : w[k] = step(w, k)
  <2>. SUFFICES ASSUME NEW k \in 0..n PROVE w[k] = step(w, k)
    OBVIOUS
  <2>1. CASE k = 0
    BY <2>1, <1>0 DEF Chain
  <2>2. CASE k # 0
    <3>1. k - 1 \in 0..n /\ w[k - 1] = IF k - 1 < m THEN k ELSE 0
      BY <2>2, <1>0
    <3>2. CASE k - 1 < m
      <4>1. k \in 1..m /\ k # 0 /\ k \in Nat
        BY <3>2, <2>2, <1>0
      <4>2. nxt[k] = IF k = m THEN 0 ELSE k + 1
        BY <4>1 DEF Chain
      <4>3. w[k] = IF k < m THEN k + 1 ELSE 0
        OBVIOUS
      <4>. QED
        BY <4>1, <4>2, <4>3, <3>1, <3>2, <1>0, <2>2
    <3>3. CASE ~(k - 1 < m)
      BY <3>1, <3>3, <2>2, <1>0
    <3>. QED
      BY <3>2, <3>3
  <2>. QED
    BY <2>1, <2>2
<1>2. w = [k \in 0..n |-> IF k = 0 THEN head ELSE IF w[k - 1] = 0 THEN 0 ELSE nxt[w[k - 1]]]
  BY <1>1
<1>3. f = [k \in 0..n |-> IF k = 0 THEN head ELSE IF f[k - 1] = 0 THEN 0 ELSE nxt[f[k - 1]]]
  BY <1>2
<1>4. Walk[n] = f[n]
  BY DEF Walk
<1>5. \A k \in 0..n : f[k] = w[k]
  <2>. DEFINE T == {k \in 0..n : f[k] # w[k]}
  <2>1. SUFFICES ASSUME T # {} PROVE FALSE
    OBVIOUS
  <2>. HIDE DEF f, w
  <2>2. T \in SUBSET Nat
    BY <1>0
  <2>. HIDE DEF T
  <2>3. PICK k \in T : \A j \in T : k <= j
    BY <2>1, <2>2, Least
  <2>4. k \in 0..n /\ f[k] # w[k]
    BY DEF T
  <2>5. f[k] # w[k] /\ f[k] = step(f, k) /\ w[k] = step(w, k)
    BY <2>4, <1>1, <1>3
  <2>6. CASE k = 0
    BY <2>5, <2>6
  <2>7. CASE k # 0
    <3>1. k - 1 \in 0..n /\ ~(k <= k - 1)
      BY <2>4, <2>7, <1>0
    <3>2. f[k - 1] = w[k - 1]
      BY <3>1, <2>3 DEF T
    <3>. QED
      BY <2>5, <2>7, <3>2
  <2>. QED
    BY <2>6, <2>7
<1>. QED
  BY <1>4, <1>5, <1>0

\* sfo_find_entry on a list of the whole file finds the first entry of the file.
LEMMA FindIsFirst ==
  ASSUME file \in Seq(SfoEntries), Len(file) <= MaxEntries, Chain(1, Len(file)), NEW key
  PROVE  sfo_find_entry(key) = FirstWith(key) /\ FirstWith(key) \in 0..MaxEntries
<1>. DEFINE m == Len(file)
            H == {n \in 0..MaxEntries : Walk[n] # 0 /\ file[Walk[n]].key = key}
            K == {k \in 1..m : file[k].key = key}
<1>0. MaxEntries \in Nat /\ m \in 0..MaxEntries
  BY SfoTableAssumption
<1>1. \A n \in 0..MaxEntries : Walk[n] = IF n < m THEN n + 1 ELSE 0
  BY <1>0, WalkIsOrder
<1>2. /\ sfo_find_entry(key) = IF H = {} THEN 0 ELSE Walk[CHOOSE n \in H : \A j \in H : n <= j]
      /\ FirstWith(key) = IF K = {} THEN 0 ELSE CHOOSE k \in K : \A j \in K : k <= j
  BY DEF sfo_find_entry, FirstWith
<1>3. \A n \in H : n + 1 \in K /\ n \in Nat
  BY <1>0, <1>1
<1>4. \A k \in K : k - 1 \in H /\ k \in Nat /\ k \in 1..m /\ Walk[k - 1] = k
  <2>. SUFFICES ASSUME NEW k \in K PROVE k - 1 \in H /\ k \in Nat /\ k \in 1..m /\ Walk[k - 1] = k
    OBVIOUS
  <2>1. k \in 1..m /\ k - 1 \in 0..MaxEntries /\ k - 1 < m /\ (k - 1) + 1 = k /\ k # 0
    BY <1>0
  <2>2. Walk[k - 1] = k
    BY <2>1, <1>1
  <2>. QED
    BY <2>1, <2>2
<1>. HIDE DEF m, H, K
<1>5. CASE K = {}
  BY <1>5, <1>2, <1>3, <1>0
<1>6. CASE K # {}
  <2>1. PICK k \in K : \A j \in K : k <= j
    <3>1. K \in SUBSET Nat
      BY <1>4
    <3>. QED
      BY <3>1, <1>6, Least
  <2>2. (CHOOSE j \in K : \A i \in K : j <= i) = k
    BY <2>1, <1>4
  <2>3. k - 1 \in H /\ \A j \in H : k - 1 <= j
    BY <2>1, <1>3, <1>4
  <2>4. (CHOOSE j \in H : \A i \in H : j <= i) = k - 1
    BY <2>3, <1>3
  <2>5. Walk[k - 1] = k /\ k \in 0..MaxEntries
    BY <1>0, <1>4
  <2>. QED
    BY <1>2, <1>6, <2>2, <2>3, <2>4, <2>5
<1>. QED
  BY <1>5, <1>6

-------------------------------------------------------------------------------
(* SfoTable *)

\* The parts of the entries from h to n.
PartsOf(h, n) == (h..n) \X Part

\* What sfo_free cannot reach: the entries before the one that could not be read.
Lost == IF at > Len(file) THEN {} ELSE PartsOf(1, at - 1)

\* The entry the title is to be taken from, as the file has it.
TitleOfFile ==
  IF FirstWith("TITLE_NN") # 0 THEN FirstWith("TITLE_NN") ELSE FirstWith("TITLE")

SfoIdle ==
  spc \in {"idle", "alloc", "open"} =>
    /\ file = <<>> /\ at = 1 /\ parts = {} /\ head = 0 /\ el = 0
    /\ blocks = IF spc = "open" THEN {"sfo"} ELSE {}

SfoLoading ==
  spc \in {"entry", "title", "cid"} =>
    /\ Chain(1, at - 1) /\ parts = PartsOf(1, at - 1) /\ el = 0
    /\ blocks = IF spc = "entry" THEN {"sfo", "data", "fd"} ELSE {"sfo"}
    /\ spc # "entry" => at = Len(file) + 1
    /\ spc = "cid" => title = TitleOfFile

SfoFreeing ==
  /\ spc = "free" => /\ blocks = {"sfo"}
                     /\ el = 0 => parts = Lost
                     /\ el # 0 => /\ at = Len(file) + 1 /\ el \in 1..(at - 1)
                                  /\ Chain(el, at - 1) /\ parts = PartsOf(el, at - 1)
  /\ spc = "done" => blocks = {} /\ parts = Lost

SfoTold == told => /\ spc \in {"free", "done"}
                   /\ title = TitleOfFile /\ cid = FirstWith("CONTENT_ID")

SfoInv ==
  /\ SfoTypeOK /\ at <= Len(file) + 1
  /\ SfoIdle /\ SfoLoading /\ SfoFreeing /\ SfoTold

LEMMA PartsEmpty == PartsOf(1, 0) = {}
BY DEF PartsOf

LEMMA PartsAdd ==
  ASSUME NEW n \in Nat \ {0}
  PROVE  PartsOf(1, n - 1) \cup ({n} \X Part) = PartsOf(1, n)
<1>1. 1..n = (1..(n - 1)) \cup {n}
  OBVIOUS
<1>. QED
  BY <1>1 DEF PartsOf

LEMMA PartsDrop ==
  ASSUME NEW n \in Nat, NEW h \in 1..n
  PROVE  PartsOf(h, n) \ ({h} \X Part) = PartsOf(h + 1, n)
<1>1. (h + 1)..n = (h..n) \ {h}
  OBVIOUS
<1>. QED
  BY <1>1 DEF PartsOf

LEMMA SfoInitInv == SfoInit => SfoInv
<1>. SUFFICES ASSUME SfoInit PROVE SfoInv
  OBVIOUS
<1>1. SfoTypeOK
  <2>1. 0 \in 0..MaxEntries /\ 1 \in 1..(MaxEntries + 1) /\ MaxEntries \in Nat
    BY SfoTableAssumption
  <2>2. nxt \in [Ids -> 0..MaxEntries] /\ prv \in [Ids -> 0..MaxEntries]
    BY <2>1 DEF SfoInit
  <2>3. file \in Seq(SfoEntries) /\ Len(file) <= MaxEntries
    BY <2>1 DEF SfoInit
  <2>. QED
    BY <2>1, <2>2, <2>3 DEF SfoInit, SfoTypeOK
<1>2. Len(file) = 0
  BY DEF SfoInit
<1>. QED
  BY <1>1, <1>2 DEF SfoInit, SfoInv, SfoIdle, SfoLoading, SfoFreeing, SfoTold

\* The files that can be read are sequences of entries.
LEMMA SfoFilesAreSeqs == \A f \in SfoFiles : f \in Seq(SfoEntries) /\ Len(f) \in 0..MaxEntries
BY SfoTableAssumption DEF SfoFiles

\* sfo_alloc, and a file that cannot be opened or is none.
LEMMA SfoAllocInv ==
  ASSUME SfoInv, SfoBegin \/ SfoAlloc \/ SfoAllocFails \/ ReadSfoFails
  PROVE  SfoInv'
<1>0. /\ spc \in {"idle", "alloc", "open"} /\ spc' \in {"alloc", "open", "done", "free"}
      /\ at' = at /\ file' = file /\ parts' = parts /\ nxt' = nxt /\ prv' = prv
      /\ title' = title /\ cid' = cid /\ told' = told
      /\ spc' = "alloc" => spc = "idle" /\ blocks' = blocks
      /\ spc' = "open" => blocks' = {"sfo"}
      /\ spc' = "done" => spc = "alloc" /\ blocks' = blocks
      /\ spc' = "free" => spc = "open" /\ blocks' = blocks
      /\ head' \in {0, head} /\ el' \in {0, el}
  BY DEF SfoBegin, SfoAlloc, SfoAllocFails, ReadSfoFails, Throw
<1>1. /\ file = <<>> /\ at = 1 /\ parts = {} /\ head = 0 /\ el = 0 /\ Len(file) = 0
      /\ blocks = IF spc = "open" THEN {"sfo"} ELSE {}
      /\ ~told
  BY <1>0 DEF SfoInv, SfoIdle, SfoTold, SfoTypeOK
<1>2. SfoTypeOK'
  BY <1>0, <1>1 DEF SfoInv, SfoTypeOK
<1>3. SfoFreeing'
  BY <1>0, <1>1 DEF SfoFreeing, Lost
<1>. QED
  BY <1>0, <1>1, <1>2, <1>3 DEF SfoInv, SfoIdle, SfoLoading, SfoTold

LEMMA ReadSfoInv ==
  ASSUME SfoInv, NEW f \in SfoFiles, ReadSfo(f)
  PROVE  SfoInv'
<1>0. /\ spc = "open" /\ spc' = "entry" /\ file' = f /\ blocks' = blocks \cup {"fd", "data"}
      /\ at' = at /\ parts' = parts /\ nxt' = nxt /\ prv' = prv /\ head' = head /\ el' = el
      /\ title' = title /\ cid' = cid /\ told' = told
  BY DEF ReadSfo
<1>1. f \in Seq(SfoEntries) /\ Len(f) \in Nat /\ Len(f) <= MaxEntries
  BY SfoFilesAreSeqs, SfoTableAssumption
<1>2. at = 1 /\ parts = {} /\ head = 0 /\ el = 0 /\ blocks = {"sfo"} /\ ~told
  BY <1>0 DEF SfoInv, SfoIdle, SfoTold, SfoTypeOK
<1>3. SfoTypeOK'
  BY <1>0, <1>1, <1>2 DEF SfoInv, SfoTypeOK
<1>4. SfoLoading'
  BY <1>0, <1>2, PartsEmpty DEF SfoLoading, Chain
<1>. QED
  BY <1>0, <1>1, <1>2, <1>3, <1>4 DEF SfoInv, SfoIdle, SfoFreeing, SfoTold

\* DL_APPEND: the list is longer by the entry that was read.
LEMMA LoadEntryInv ==
  ASSUME SfoInv, LoadEntry
  PROVE  SfoInv'
<1>0. /\ spc = "entry" /\ at <= Len(file) /\ DL_APPEND(at)
      /\ parts' = parts \cup ({at} \X Part) /\ at' = at + 1
      /\ spc' = spc /\ file' = file /\ blocks' = blocks /\ el' = el
      /\ title' = title /\ cid' = cid /\ told' = told
  BY DEF LoadEntry
<1>1. /\ at \in Nat \ {0} /\ at <= MaxEntries /\ at \in Ids /\ MaxEntries \in Nat
      /\ Len(file) \in Nat /\ Len(file) <= MaxEntries
  BY <1>0, SfoTableAssumption, SMTT(30) DEF SfoInv, SfoTypeOK, Ids
<1>2. /\ Chain(1, at - 1) /\ parts = PartsOf(1, at - 1) /\ el = 0
      /\ blocks = {"sfo", "data", "fd"} /\ ~told
      /\ nxt \in [Ids -> 0..MaxEntries] /\ prv \in [Ids -> 0..MaxEntries]
  BY <1>0 DEF SfoInv, SfoLoading, SfoTold, SfoTypeOK
<1>3. at' - 1 = at /\ 1 <= at
  BY <1>0, <1>1
<1>4. /\ nxt' \in [Ids -> 0..MaxEntries] /\ prv' \in [Ids -> 0..MaxEntries]
      /\ head' = 1
      /\ \A i \in 1..at : /\ nxt'[i] = IF i = at THEN 0 ELSE i + 1
                          /\ prv'[i] = IF i = 1 THEN at ELSE i - 1
  <2>1. CASE at = 1
    <3>1. head = 0
      BY <2>1, <1>2 DEF Chain
    <3>2. /\ head' = 1 /\ nxt' = [nxt EXCEPT ![1] = 0] /\ prv' = [prv EXCEPT ![1] = 1]
      BY <3>1, <2>1, <1>0 DEF DL_APPEND
    <3>3. 1 \in Ids /\ nxt'[1] = 0 /\ prv'[1] = 1
      BY <3>2, <2>1, <1>1, <1>2
    <3>. QED
      BY <3>2, <3>3, <2>1, <1>1, <1>2
  <2>2. CASE at # 1
    <3>1. head = 1 /\ prv[1] = at - 1 /\ at - 1 \in Ids /\ 1 \in Ids
      BY <2>2, <1>1, <1>2 DEF Chain, Ids
    <3>2. /\ nxt' = [nxt EXCEPT ![at - 1] = at, ![at] = 0]
          /\ prv' = [prv EXCEPT ![at] = at - 1, ![1] = at]
          /\ head' = 1
      BY <3>1, <1>0 DEF DL_APPEND
    <3>3. nxt' \in [Ids -> 0..MaxEntries] /\ prv' \in [Ids -> 0..MaxEntries]
      BY <3>1, <3>2, <1>1, <1>2, SMTT(30)
    <3>4. ASSUME NEW i \in 1..at
          PROVE  /\ nxt'[i] = IF i = at THEN 0 ELSE i + 1
                 /\ prv'[i] = IF i = 1 THEN at ELSE i - 1
      <4>1. i \in Ids /\ (i # at => i \in 1..(at - 1)) /\ at - 1 # at
        BY <1>1 DEF Ids
      <4>2. nxt'[i] = IF i = at THEN 0 ELSE IF i = at - 1 THEN at ELSE nxt[i]
        BY <4>1, <3>1, <3>2, <1>1, <1>2
      <4>3. prv'[i] = IF i = 1 THEN at ELSE IF i = at THEN at - 1 ELSE prv[i]
        BY <4>1, <3>1, <3>2, <1>1, <1>2
      <4>4. i # at => /\ nxt[i] = IF i = at - 1 THEN 0 ELSE i + 1
                      /\ prv[i] = IF i = 1 THEN at - 1 ELSE i - 1
        BY <4>1, <1>2 DEF Chain
      <4>. QED
        BY <4>1, <4>2, <4>3, <4>4, <1>1, <2>2
    <3>. QED
      BY <3>2, <3>3, <3>4
  <2>. QED
    BY <2>1, <2>2
<1>5. Chain(1, at - 1)'
  BY <1>3, <1>4 DEF Chain
<1>6. parts' = PartsOf(1, at' - 1)
  BY <1>0, <1>1, <1>2, <1>3, PartsAdd
<1>7. SfoTypeOK'
  <2>1. PartsOf(1, at' - 1) \subseteq Ids \X Part
    BY <1>1, <1>3 DEF PartsOf, Ids
  <2>2. head' \in 0..MaxEntries /\ at' \in 1..(MaxEntries + 1)
    BY <1>0, <1>1, <1>4
  <2>. QED
    BY <1>0, <1>4, <1>6, <2>1, <2>2 DEF SfoInv, SfoTypeOK
<1>8. SfoLoading'
  BY <1>0, <1>2, <1>5, <1>6 DEF SfoLoading, PartsOf
<1>. QED
  BY <1>0, <1>1, <1>2, <1>7, <1>8 DEF SfoInv, SfoIdle, SfoFreeing, SfoTold

\* An entry cannot be read: the list before it is given up.
LEMMA LoadEntryFailsInv ==
  ASSUME SfoInv, LoadEntryFails
  PROVE  SfoInv'
<1>0. /\ spc = "entry" /\ at <= Len(file) /\ blocks' = blocks \ {"fd", "data"}
      /\ spc' = "free" /\ head' = 0 /\ el' = 0
      /\ file' = file /\ at' = at /\ parts' = parts /\ nxt' = nxt /\ prv' = prv
      /\ title' = title /\ cid' = cid /\ told' = told
  BY DEF LoadEntryFails, Throw
<1>1. /\ at \in Nat /\ Len(file) \in Nat /\ ~(at > Len(file)) /\ parts = PartsOf(1, at - 1)
      /\ blocks = {"sfo", "data", "fd"} /\ ~told
  BY <1>0 DEF SfoInv, SfoTypeOK, SfoLoading, SfoTold
<1>2. SfoTypeOK'
  BY <1>0, SfoTableAssumption DEF SfoInv, SfoTypeOK
<1>3. parts' = Lost'
  BY <1>0, <1>1 DEF Lost, PartsOf
<1>. QED
  BY <1>0, <1>1, <1>2, <1>3 DEF SfoInv, SfoIdle, SfoLoading, SfoFreeing, SfoTold

LEMMA LoadDoneInv ==
  ASSUME SfoInv, LoadDone
  PROVE  SfoInv'
<1>0. /\ spc = "entry" /\ at > Len(file) /\ blocks' = blocks \ {"fd", "data"}
      /\ spc' = "title" /\ head' = head /\ el' = el
      /\ file' = file /\ at' = at /\ parts' = parts /\ nxt' = nxt /\ prv' = prv
      /\ title' = title /\ cid' = cid /\ told' = told
  BY DEF LoadDone
<1>1. /\ at = Len(file) + 1 /\ parts = PartsOf(1, at - 1) /\ el = 0 /\ Chain(1, at - 1)
      /\ blocks = {"sfo", "data", "fd"} /\ ~told
  BY <1>0 DEF SfoInv, SfoTypeOK, SfoLoading, SfoTold
<1>2. SfoTypeOK'
  BY <1>0 DEF SfoInv, SfoTypeOK
<1>3. Chain(1, at - 1)' /\ PartsOf(1, at - 1)' = PartsOf(1, at - 1)
  BY <1>0, <1>1 DEF Chain, PartsOf
<1>. QED
  BY <1>0, <1>1, <1>2, <1>3 DEF SfoInv, SfoIdle, SfoLoading, SfoFreeing, SfoTold

\* While the list is whole, what is looked up is what the file says.
LEMMA WholeList ==
  ASSUME SfoInv, spc \in {"title", "cid"}
  PROVE  /\ TitleEntry = TitleOfFile /\ TitleOfFile \in 0..MaxEntries
         /\ sfo_find_entry("CONTENT_ID") = FirstWith("CONTENT_ID")
         /\ FirstWith("CONTENT_ID") \in 0..MaxEntries
<1>1. /\ file \in Seq(SfoEntries) /\ Len(file) <= MaxEntries /\ Len(file) \in Nat
      /\ at = Len(file) + 1 /\ Chain(1, at - 1)
  BY DEF SfoInv, SfoTypeOK, SfoLoading
<1>2. at - 1 = Len(file)
  BY <1>1
<1>3. Chain(1, Len(file))
  BY <1>1, <1>2
<1>. QED
  BY <1>1, <1>3, FindIsFirst DEF TitleEntry, TitleOfFile

\* What is read from the file does not change with the list.
LEMMA FileSame ==
  ASSUME file' = file
  PROVE  FirstWith("CONTENT_ID")' = FirstWith("CONTENT_ID") /\ TitleOfFile' = TitleOfFile
BY DEF FirstWith, TitleOfFile

LEMMA GetTitleInv ==
  ASSUME SfoInv, GetTitle
  PROVE  SfoInv'
<1>0. /\ spc = "title" /\ spc' = "cid" /\ title' = TitleEntry
      /\ blocks' = blocks /\ head' = head /\ el' = el
      /\ file' = file /\ at' = at /\ parts' = parts /\ nxt' = nxt /\ prv' = prv
      /\ cid' = cid /\ told' = told
  BY DEF GetTitle
<1>1. /\ at = Len(file) + 1 /\ parts = PartsOf(1, at - 1) /\ el = 0 /\ Chain(1, at - 1)
      /\ blocks = {"sfo"} /\ ~told
  BY <1>0 DEF SfoInv, SfoLoading, SfoTold
<1>2. title' = TitleOfFile' /\ title' \in 0..MaxEntries
  BY <1>0, WholeList, FileSame
<1>3. SfoTypeOK'
  BY <1>0, <1>2 DEF SfoInv, SfoTypeOK
<1>4. Chain(1, at - 1)' /\ PartsOf(1, at - 1)' = PartsOf(1, at - 1)
  BY <1>0, <1>1 DEF Chain, PartsOf
<1>. QED
  BY <1>0, <1>1, <1>2, <1>3, <1>4 DEF SfoInv, SfoIdle, SfoLoading, SfoFreeing, SfoTold

\* sfo_free is called on the whole list, after the content id or when there is none.
LEMMA ThrowInv ==
  ASSUME SfoInv, GetTitleFails \/ GetContentId \/ GetContentIdFails
  PROVE  SfoInv'
<1>0. /\ spc \in {"title", "cid"} /\ spc' = "free" /\ head' = head /\ el' = head
      /\ file' = file /\ at' = at /\ parts' = parts /\ nxt' = nxt /\ prv' = prv
      /\ blocks' = blocks /\ title' = title
      /\ \/ told' = told /\ cid' = cid
         \/ spc = "cid" /\ told' = TRUE /\ cid' = sfo_find_entry("CONTENT_ID")
  BY DEF GetTitleFails, GetContentId, GetContentIdFails, Throw
<1>1. /\ at = Len(file) + 1 /\ parts = PartsOf(1, at - 1) /\ Chain(1, at - 1)
      /\ blocks = {"sfo"} /\ ~told /\ at \in Nat /\ Len(file) \in Nat
      /\ spc = "cid" => title = TitleOfFile
  BY <1>0 DEF SfoInv, SfoLoading, SfoTold, SfoTypeOK
<1>2. SfoTypeOK'
  BY <1>0, <1>1, WholeList DEF SfoInv, SfoTypeOK
<1>3. SfoFreeing'
  <2>1. CASE at = 1
    <3>1. head = 0 /\ parts = {}
      BY <2>1, <1>1, PartsEmpty DEF Chain
    <3>2. at' > Len(file')
      BY <1>0, <1>1
    <3>. QED
      BY <3>1, <3>2, <1>0, <1>1 DEF SfoFreeing, Lost
  <2>2. CASE at # 1
    <3>1. head = 1 /\ 1 \in 1..(at - 1)
      BY <2>2, <1>1 DEF Chain
    <3>2. Chain(1, at - 1)' /\ PartsOf(1, at - 1)' = PartsOf(1, at - 1)
      BY <1>0, <1>1 DEF Chain, PartsOf
    <3>. QED
      BY <3>1, <3>2, <1>0, <1>1 DEF SfoFreeing
  <2>. QED
    BY <2>1, <2>2
<1>4. SfoTold'
  BY <1>0, <1>1, WholeList, FileSame DEF SfoTold
<1>. QED
  BY <1>0, <1>1, <1>2, <1>3, <1>4 DEF SfoInv, SfoIdle, SfoLoading

\* DL_DELETE of the first element: the list is the rest, and the loop goes on with it.
LEMMA FreeEntryInv ==
  ASSUME SfoInv, FreeEntry
  PROVE  SfoInv'
<1>. DEFINE n == at - 1
<1>0. /\ spc = "free" /\ spc' = spc /\ el # 0 /\ DL_DELETE(el)
      /\ parts' = parts \ ({el} \X Part) /\ el' = nxt[el]
      /\ file' = file /\ at' = at /\ blocks' = blocks /\ title' = title
      /\ cid' = cid /\ told' = told
  BY DEF FreeEntry
<1>1. /\ blocks = {"sfo"} /\ at = Len(file) + 1 /\ el \in 1..n
      /\ Chain(el, n) /\ parts = PartsOf(el, n) /\ at \in Nat /\ Len(file) \in Nat
      /\ at <= MaxEntries + 1 /\ MaxEntries \in Nat
  BY <1>0, SfoTableAssumption DEF SfoInv, SfoFreeing, SfoTypeOK
<1>2. /\ n \in Nat /\ n <= MaxEntries /\ n' = n /\ el \in Ids
      /\ nxt \in [Ids -> 0..MaxEntries] /\ prv \in [Ids -> 0..MaxEntries]
  <2>1. nxt \in [Ids -> 0..MaxEntries] /\ prv \in [Ids -> 0..MaxEntries]
    BY DEF SfoInv, SfoTypeOK
  <2>. QED
    BY <2>1, <1>0, <1>1 DEF Ids
<1>. HIDE DEF n
<1>3. /\ head = el /\ nxt[el] = (IF el = n THEN 0 ELSE el + 1) /\ prv[el] = n
      /\ \A i \in (el + 1)..n : /\ nxt[i] = IF i = n THEN 0 ELSE i + 1
                                /\ prv[i] = i - 1
  BY <1>1, <1>2 DEF Chain
<1>4. parts' = PartsOf(el + 1, n)
  BY <1>0, <1>1, <1>2, PartsDrop
<1>5. CASE el = n
  <2>1. head' = 0 /\ nxt' = nxt /\ prv' = prv /\ el' = 0
    BY <1>0, <1>3, <1>5 DEF DL_DELETE
  <2>2. PartsOf(el + 1, n) = {}
    BY <1>5, <1>2 DEF PartsOf
  <2>3. SfoTypeOK'
    BY <1>0, <1>4, <2>1, <2>2, <1>1 DEF SfoInv, SfoTypeOK
  <2>4. SfoFreeing'
    BY <2>1, <2>2, <1>0, <1>1, <1>4 DEF SfoFreeing, Lost
  <2>5. SfoTold'
    BY <1>0, FileSame DEF SfoInv, SfoTold
  <2>. QED
    BY <2>3, <2>4, <2>5, <1>0, <1>1 DEF SfoInv, SfoIdle, SfoLoading
<1>6. CASE el # n
  <2>1. el + 1 \in 1..n /\ el + 1 \in Ids /\ el + 1 # 0 /\ nxt[el] = el + 1 /\ prv[el] # el
    BY <1>1, <1>2, <1>3, <1>6 DEF Ids
  <2>2. /\ prv' = [prv EXCEPT ![el + 1] = n] /\ head' = el + 1 /\ nxt' = nxt /\ el' = el + 1
    BY <1>0, <1>3, <2>1 DEF DL_DELETE
  <2>3. Chain(el, n)'
    <3>1. \A i \in (el + 1)..n : /\ nxt'[i] = IF i = n THEN 0 ELSE i + 1
                                 /\ prv'[i] = IF i = el + 1 THEN n ELSE i - 1
      <4>. SUFFICES ASSUME NEW i \in (el + 1)..n
                    PROVE  /\ nxt'[i] = IF i = n THEN 0 ELSE i + 1
                           /\ prv'[i] = IF i = el + 1 THEN n ELSE i - 1
        OBVIOUS
      <4>1. i \in Ids
        BY <1>1, <1>2 DEF Ids
      <4>2. prv'[i] = IF i = el + 1 THEN n ELSE prv[i]
        BY <4>1, <2>1, <2>2, <1>2
      <4>. QED
        BY <4>2, <2>2, <1>3
    <3>2. el + 1 <= n
      BY <2>1, <1>1, <1>2
    <3>. QED
      BY <3>1, <3>2, <2>2, <1>2 DEF Chain
  <2>4. SfoTypeOK'
    <3>1. parts' \subseteq Ids \X Part /\ prv' \in [Ids -> 0..MaxEntries] /\ el' \in 0..MaxEntries
      <4>1. parts' \subseteq Ids \X Part
        BY <1>0 DEF SfoInv, SfoTypeOK
      <4>2. n \in 0..MaxEntries /\ el + 1 \in 0..MaxEntries
        BY <1>1, <1>2, <2>1
      <4>. QED
        BY <4>1, <4>2, <2>1, <2>2, <1>2
    <3>. QED
      BY <3>1, <2>2, <1>0 DEF SfoInv, SfoTypeOK
  <2>5. SfoFreeing'
    <3>1. PartsOf(el, n)' = PartsOf(el + 1, n)
      BY <2>2, <1>2 DEF PartsOf
    <3>. QED
      BY <2>1, <2>2, <2>3, <3>1, <1>0, <1>1, <1>2, <1>4 DEF SfoFreeing, n
  <2>6. SfoTold'
    BY <1>0, FileSame DEF SfoInv, SfoTold
  <2>. QED
    BY <2>4, <2>5, <2>6, <1>0, <1>1 DEF SfoInv, SfoIdle, SfoLoading
<1>. QED
  BY <1>5, <1>6

LEMMA FreeSfoInv ==
  ASSUME SfoInv, FreeSfo
  PROVE  SfoInv'
<1>0. /\ spc = "free" /\ spc' = "done" /\ el = 0 /\ blocks' = blocks \ {"sfo"}
      /\ file' = file /\ at' = at /\ parts' = parts /\ nxt' = nxt /\ prv' = prv
      /\ head' = head /\ el' = el /\ title' = title /\ cid' = cid /\ told' = told
  BY DEF FreeSfo
<1>1. SfoTypeOK'
  BY <1>0 DEF SfoInv, SfoTypeOK
<1>2. blocks' = {} /\ parts' = Lost'
  BY <1>0 DEF SfoInv, SfoFreeing, Lost, PartsOf
<1>3. SfoTold'
  BY <1>0, FileSame DEF SfoInv, SfoTold
<1>. QED
  BY <1>0, <1>1, <1>2, <1>3 DEF SfoInv, SfoIdle, SfoLoading, SfoFreeing

\* Every step of the param.sfo part preserves its invariant.
LEMMA SfoStepInv ==
  ASSUME SfoInv, SfoStep
  PROVE  SfoInv'
BY SfoAllocInv, ReadSfoInv, LoadEntryInv, LoadEntryFailsInv, LoadDoneInv, GetTitleInv, ThrowInv,
   FreeEntryInv, FreeSfoInv DEF SfoStep

LEMMA SfoEndInv ==
  ASSUME SfoEnd
  PROVE  SfoInv'
<1>1. SfoTypeOK'
  <2>1. 0 \in 0..MaxEntries /\ 1 \in 1..(MaxEntries + 1) /\ MaxEntries \in Nat
    BY SfoTableAssumption
  <2>2. nxt' \in [Ids -> 0..MaxEntries] /\ prv' \in [Ids -> 0..MaxEntries]
    BY <2>1 DEF SfoEnd, SfoReset
  <2>3. file' \in Seq(SfoEntries) /\ Len(file') <= MaxEntries
    BY <2>1 DEF SfoEnd, SfoReset
  <2>. QED
    BY <2>1, <2>2, <2>3 DEF SfoEnd, SfoReset, SfoTypeOK
<1>2. Len(file') = 0
  BY DEF SfoEnd, SfoReset
<1>. QED
  BY <1>1, <1>2 DEF SfoEnd, SfoReset, SfoInv, SfoIdle, SfoLoading, SfoFreeing, SfoTold

LEMMA SfoStutter ==
  ASSUME SfoInv, UNCHANGED svars
  PROVE  SfoInv'
<1>0. /\ spc' = spc /\ file' = file /\ at' = at /\ blocks' = blocks /\ parts' = parts
      /\ nxt' = nxt /\ prv' = prv /\ head' = head /\ el' = el /\ title' = title
      /\ cid' = cid /\ told' = told
  BY DEF svars
<1>1. SfoTypeOK' /\ at' <= Len(file') + 1 /\ SfoIdle'
  BY <1>0 DEF SfoInv, SfoTypeOK, SfoIdle
<1>2. /\ Chain(1, at - 1)' <=> Chain(1, at - 1)
      /\ Chain(el, at - 1)' <=> Chain(el, at - 1)
      /\ PartsOf(1, at - 1)' = PartsOf(1, at - 1) /\ PartsOf(el, at - 1)' = PartsOf(el, at - 1)
      /\ Lost' = Lost
  BY <1>0 DEF Chain, PartsOf, Lost
<1>3. SfoLoading' /\ SfoFreeing' /\ SfoTold'
  BY <1>0, <1>2, FileSame DEF SfoInv, SfoLoading, SfoFreeing, SfoTold
<1>. QED
  BY <1>1, <1>3 DEF SfoInv

-------------------------------------------------------------------------------
(* PackagePieces *)

\* Before the first piece is written down.
FirstPiece == offset = 0 /\ Len(lens) = 1 /\ lens[1] = total

\* Every piece ends within the words.
Fits == \A k \in 1..Len(pieces) : pieces[k].at + pieces[k].size <= NoLen

\* The table as far as it was written.  Its numbers have not wrapped as long as it fits.
Table ==
  /\ Len(lens) = Len(pieces) /\ Len(pieces) <= count
  /\ pieces[1].at = 0
  /\ \A k \in 1..Len(pieces) : pieces[k].size = lens[k]
  /\ Fits =>
       /\ \A k \in 2..Len(pieces) : pieces[k].at = pieces[k - 1].at + pieces[k - 1].size
       /\ offset = pieces[Len(pieces)].at + pieces[Len(pieces)].size

\* What is in the table and the sums, by where the call is.
PieceTable ==
  /\ ppc \in {"clear", "header"} => pieces = <<>> /\ offset = 0
  /\ ppc \in {"size", "table", "sfo", "icon", "open"} => pieces = <<>> /\ FirstPiece
  /\ ppc = "piece" => IF pieces = <<>> THEN FirstPiece ELSE Table
  /\ ppc \in {"writesfo", "writeicon", "close"} =>
       Table /\ pieces # <<>> /\ Len(pieces) = count /\ (psize > 0 => offset = psize)
  /\ ppc = "done" => Len(pieces) = count

\* The files that are there.
PieceFiles ==
  /\ ppc \in {"clear", "header", "size", "table", "sfo", "icon", "open", "piece", "writesfo",
              "writeicon"} => ~icon
  /\ ppc \in {"header", "size", "table", "sfo", "icon", "open", "err", "failed"} => files = {}
  /\ ppc \in {"piece", "writesfo"} => files = {"json"}
  /\ ppc = "writeicon" => files = {"json", "sfo"}
  /\ ppc \in {"close", "done"} => files = {"json", "sfo"} \cup (IF icon THEN {"png"} ELSE {})

PieceInv ==
  /\ PiecesTypeOK
  /\ ppc = "idle" => NoCall /\ files \in {{}, {"json"}, {"json", "png"}}
  /\ ppc # "idle" => count > 0
  /\ ppc \in {"done", "failed"} => bufs = {}
  /\ PieceTable /\ PieceFiles

\* The words the sums are made of.
LEMMA Words ==
  /\ MaxCount \in Nat \ {0} /\ Entries \in Nat
  /\ Word \in Nat \ {0} /\ NoLen \in Nat \ {0} /\ Word = NoLen + 1
<1>1. MaxCount \in Nat \ {0} /\ W \in Nat /\ Entries \in Nat /\ 2^W > 1
  BY PackagePiecesAssumption
<1>2. 2^W \in Int
  BY <1>1
<1>. QED
  BY <1>1, <1>2 DEF Word, NoLen

LEMMA Modulo ==
  ASSUME NEW a \in Nat
  PROVE  /\ a % Word \in 0..NoLen
         /\ a <= NoLen => a % Word = a
<1>. QED
  BY Words, SMTT(30)

LEMMA PiecesInitInv == PiecesInit => PieceInv
<1>. SUFFICES ASSUME PiecesInit PROVE PieceInv
  OBVIOUS
<1>1. PiecesTypeOK
  <2>1. 0 \in 0..NoLen /\ 0 \in 0..MaxCount
    BY Words
  <2>2. /\ entries \in Seq(Entry) /\ lens \in Seq(0..NoLen)
        /\ pieces \in Seq([at : 0..NoLen, size : 0..NoLen])
    BY DEF PiecesInit, NoCall
  <2>3. icon \in BOOLEAN
    BY DEF PiecesInit, NoCall
  <2>. QED
    BY <2>1, <2>2, <2>3 DEF PiecesInit, NoCall, PiecesTypeOK
<1>. QED
  BY <1>1 DEF PiecesInit, NoCall, PieceInv, PieceTable, PieceFiles

LEMMA SetupEndInv ==
  ASSUME NEW kept \in {{}, {"json"}, {"json", "png"}}, SetupEnd(kept)
  PROVE  PieceInv'
<1>1. PiecesTypeOK'
  <2>1. 0 \in 0..NoLen /\ 0 \in 0..MaxCount
    BY Words
  <2>2. /\ entries' \in Seq(Entry) /\ lens' \in Seq(0..NoLen)
        /\ pieces' \in Seq([at : 0..NoLen, size : 0..NoLen])
    BY DEF SetupEnd
  <2>3. icon' \in BOOLEAN
    BY DEF SetupEnd
  <2>. QED
    BY <2>1, <2>2, <2>3 DEF SetupEnd, PiecesTypeOK, Files
<1>. QED
  BY <1>1 DEF SetupEnd, NoCall, PieceInv, PieceTable, PieceFiles

LEMMA SetupBeginInv ==
  ASSUME PieceInv, NEW n \in 1..MaxCount, SetupBegin(n)
  PROVE  PieceInv'
<1>1. PiecesTypeOK'
  BY Words DEF PieceInv, PiecesTypeOK, SetupBegin
<1>. QED
  BY <1>1, Words DEF SetupBegin, NoCall, PieceInv, PieceTable, PieceFiles

\* A step that only moves on, and may take buffers or change the entry table.
LEMMA MovesOnInv ==
  ASSUME PieceInv, Clear \/ FetchHeaderFails \/ CheckSize \/ CheckSizeFails \/ FetchTable
                   \/ FetchTableFails \/ FetchSfo \/ FetchSfoFails \/ FetchIcon \/ FetchIconFails
                   \/ OpenJson \/ OpenJsonFails
  PROVE  PieceInv'
<1>1. /\ count' = count /\ psize' = psize /\ total' = total /\ offset' = offset
      /\ pieces' = pieces /\ lens' = lens /\ icon' = icon
      /\ \/ ppc = "clear" /\ ppc' = "header" /\ files' = {}
         \/ ppc \in {"header", "size", "table", "sfo", "icon", "open"} /\ ppc' = "err" /\ files' = files
         \/ ppc = "size" /\ ppc' = "table" /\ files' = files
         \/ ppc = "table" /\ ppc' = "sfo" /\ files' = files
         \/ ppc = "sfo" /\ ppc' \in {"icon", "open"} /\ files' = files
         \/ ppc = "icon" /\ ppc' = "open" /\ files' = files
         \/ ppc = "open" /\ ppc' = "piece" /\ files' = files \cup {"json"}
  BY DEF Clear, FetchHeaderFails, CheckSize, CheckSizeFails, FetchTable, FetchTableFails, FetchSfo,
         FetchSfoFails, FetchIcon, FetchIconFails, OpenJson, OpenJsonFails, Abandon
<1>2. entries' \in Seq(Entry)
  BY DEF PieceInv, PiecesTypeOK, Clear, FetchHeaderFails, CheckSize, CheckSizeFails, FetchTable,
         FetchTableFails, FetchSfo, FetchSfoFails, FetchIcon, FetchIconFails, OpenJson,
         OpenJsonFails, Abandon
<1>3. bufs' \subseteq Buffers
  BY DEF PieceInv, PiecesTypeOK, Clear, FetchHeaderFails, CheckSize, CheckSizeFails, FetchTable,
         FetchTableFails, FetchSfo, FetchSfoFails, FetchIcon, FetchIconFails, OpenJson,
         OpenJsonFails, Abandon, Buffers
<1>4. PiecesTypeOK'
  BY <1>1, <1>2, <1>3 DEF PieceInv, PiecesTypeOK, Files
<1>5. PieceTable'
  BY <1>1 DEF PieceInv, PieceTable, FirstPiece
<1>6. PieceFiles'
  BY <1>1 DEF PieceInv, PieceFiles
<1>. QED
  BY <1>1, <1>4, <1>5, <1>6 DEF PieceInv

LEMMA FetchHeaderInv ==
  ASSUME PieceInv, FetchHeader
  PROVE  PieceInv'
<1>1. /\ ppc = "header" /\ ppc' = "size" /\ psize' \in 0..NoLen /\ bufs' = {"hdr"}
      /\ count' = count /\ entries' = entries /\ offset' = offset /\ pieces' = pieces
      /\ files' = files /\ icon' = icon
  BY DEF FetchHeader
<1>2. total' \in 1..NoLen /\ lens' = <<total'>>
  BY DEF FetchHeader
<1>3. total' \in 0..NoLen
  BY <1>2, Words
<1>4. lens' \in Seq(0..NoLen) /\ Len(lens') = 1 /\ lens'[1] = total'
  BY <1>2, <1>3
<1>5. PiecesTypeOK'
  BY <1>1, <1>2, <1>3, <1>4 DEF PieceInv, PiecesTypeOK, Buffers
<1>6. PieceTable'
  BY <1>1, <1>2, <1>3, <1>4 DEF PieceInv, PieceTable, FirstPiece
<1>7. PieceFiles'
  BY <1>1 DEF PieceInv, PieceFiles
<1>. QED
  BY <1>1, <1>5, <1>6, <1>7 DEF PieceInv

\* One more line of the table.
LEMMA PieceStepInv ==
  ASSUME PieceInv, Piece
  PROVE  PieceInv'
<1>. DEFINE n == Len(pieces)
            Row == [at : 0..NoLen, size : 0..NoLen]
<1>1. /\ ppc = "piece" /\ n < count
      /\ ppc' = ppc /\ count' = count /\ psize' = psize /\ entries' = entries /\ bufs' = bufs
      /\ files' = files /\ icon' = icon
  BY DEF Piece
<1>2. /\ count \in 0..MaxCount /\ psize \in 0..NoLen /\ total \in 0..NoLen /\ offset \in 0..NoLen
      /\ pieces \in Seq(Row) /\ lens \in Seq(0..NoLen) /\ n \in Nat /\ Len(lens) \in Nat
  BY DEF PieceInv, PiecesTypeOK
<1>3. PICK size \in 0..NoLen :
        /\ WritePiece(size)
        /\ \/ pieces = <<>> /\ size = total /\ lens' = lens
           \/ pieces # <<>> /\ lens' = Append(lens, size)
  <2>1. CASE pieces = <<>>
    BY <2>1, <1>2 DEF Piece
  <2>2. CASE pieces # <<>>
    <3>1. PICK len \in 0..(NoLen - 1) : WritePiece(len) /\ lens' = Append(lens, len)
      BY <2>2 DEF Piece
    <3>2. len \in 0..NoLen
      BY Words
    <3>. QED
      BY <2>2, <3>1, <3>2
  <2>. QED
    BY <2>1, <2>2
<1>. DEFINE r == [at |-> offset, size |-> size]
<1>4. /\ pieces' = Append(pieces, r) /\ r \in Row /\ total' = size
      /\ offset' = (offset + size) % Word
  BY <1>2, <1>3 DEF WritePiece
<1>. HIDE DEF r, Row
<1>5. /\ pieces' \in Seq(Row) /\ Len(pieces') = n + 1 /\ pieces'[n + 1] = r
      /\ \A k \in 1..n : pieces'[k] = pieces[k]
      /\ pieces' # <<>>
  BY <1>2, <1>4, AppendProperties
<1>6. offset' \in 0..NoLen /\ (offset + size <= NoLen => offset' = offset + size)
  <2>1. offset \in Nat /\ size \in Nat /\ offset + size \in Nat
    BY <1>2, Words
  <2>. QED
    BY <1>4, <2>1, Modulo
<1>7. r.at = offset /\ r.size = size
  BY DEF r
<1>8. PiecesTypeOK'
  <2>1. lens' \in Seq(0..NoLen)
    <3>1. CASE lens' = lens
      BY <3>1, <1>2
    <3>2. CASE lens' = Append(lens, size)
      BY <3>2, <1>2, AppendProperties
    <3>. QED
      BY <3>1, <3>2, <1>3
  <2>. QED
    BY <2>1, <1>1, <1>3, <1>4, <1>5, <1>6 DEF PieceInv, PiecesTypeOK, Row
<1>9. Table'
  <2>1. CASE pieces = <<>>
    <3>1. offset = 0 /\ Len(lens) = 1 /\ lens[1] = size /\ lens' = lens /\ n = 0
      BY <2>1, <1>1, <1>3 DEF PieceInv, PieceTable, FirstPiece
    <3>2. Len(pieces') = 1 /\ pieces'[1].at = 0 /\ pieces'[1].size = size
      BY <3>1, <1>5, <1>7
    <3>3. offset' = size
      <4>1. 0 + size = size /\ size <= NoLen
        BY Words
      <4>. QED
        BY <4>1, <3>1, <1>6
    <3>. QED
      BY <3>1, <3>2, <3>3, <1>1, <1>2, Words DEF Table
  <2>2. CASE pieces # <<>>
    <3>1. Table /\ n \in Nat \ {0}
      BY <2>2, <1>1, <1>2 DEF PieceInv, PieceTable
    <3>2. Len(lens') = n + 1 /\ lens'[n + 1] = size
          /\ \A k \in 1..n : lens'[k] = lens[k]
      <4>1. lens' = Append(lens, size) /\ Len(lens) = n
        BY <2>2, <3>1, <1>3 DEF Table
      <4>. QED
        BY <4>1, <1>2, AppendProperties
    <3>3. 1 \in 1..n /\ pieces'[1] = pieces[1]
      BY <3>1, <1>5
    <3>4. ASSUME NEW k \in 1..(n + 1) PROVE pieces'[k].size = lens'[k]
      <4>1. CASE k = n + 1
        BY <4>1, <3>2, <1>5, <1>7
      <4>2. CASE k # n + 1
        <5>1. k \in 1..n
          BY <4>2, <3>1
        <5>. QED
          BY <5>1, <3>1, <3>2, <1>5 DEF Table
      <4>. QED
        BY <4>1, <4>2
    <3>5. ASSUME Fits'
          PROVE  /\ \A k \in 2..(n + 1) : pieces'[k].at = pieces'[k - 1].at + pieces'[k - 1].size
                 /\ offset' = pieces'[n + 1].at + pieces'[n + 1].size
      <4>1. Fits
        <5>. SUFFICES ASSUME NEW k \in 1..n PROVE pieces[k].at + pieces[k].size <= NoLen
          BY DEF Fits
        <5>1. k \in 1..(n + 1)
          BY <3>1
        <5>. QED
          BY <5>1, <3>5, <1>5 DEF Fits
      <4>2. /\ \A k \in 2..n : pieces[k].at = pieces[k - 1].at + pieces[k - 1].size
            /\ offset = pieces[n].at + pieces[n].size
        BY <3>1, <4>1 DEF Table
      <4>3. offset' = offset + size
        <5>1. n + 1 \in 1..(n + 1)
          BY <3>1
        <5>2. offset + size <= NoLen
          BY <5>1, <3>5, <1>5, <1>7 DEF Fits
        <5>. QED
          BY <5>2, <1>6
      <4>4. ASSUME NEW k \in 2..(n + 1)
            PROVE  pieces'[k].at = pieces'[k - 1].at + pieces'[k - 1].size
        <5>1. CASE k = n + 1
          <6>1. k - 1 = n /\ n \in 1..n
            BY <5>1, <3>1
          <6>. QED
            BY <5>1, <6>1, <4>2, <1>5, <1>7
        <5>2. CASE k # n + 1
          <6>1. k \in 1..n /\ k \in 2..n /\ k - 1 \in 1..n
            BY <5>2, <3>1
          <6>. QED
            BY <6>1, <4>2, <1>5
        <5>. QED
          BY <5>1, <5>2
      <4>. QED
        BY <4>3, <4>4, <1>5, <1>7
    <3>6. n + 1 <= count
      BY <1>1, <1>2, Words
    <3>7. pieces'[1].at = 0
      BY <3>1, <3>3 DEF Table
    <3>. QED
      BY <3>2, <3>4, <3>5, <3>6, <3>7, <1>1, <1>5 DEF Table
  <2>. QED
    BY <2>1, <2>2
<1>10. PieceTable'
  BY <1>1, <1>5, <1>9 DEF PieceTable
<1>11. PieceFiles'
  BY <1>1 DEF PieceInv, PieceFiles
<1>. QED
  BY <1>1, <1>8, <1>10, <1>11 DEF PieceInv

\* From the sum on the table is only read.
LEMMA AfterTableInv ==
  ASSUME PieceInv, PieceFails \/ Sum \/ SumFails \/ WriteSfo \/ WriteIcon \/ WriteFails
  PROVE  PieceInv'
<1>1. /\ count' = count /\ psize' = psize /\ entries' = entries /\ total' = total
      /\ offset' = offset /\ pieces' = pieces /\ lens' = lens /\ bufs' = bufs
      /\ \/ ppc \in {"piece", "writesfo", "writeicon"} /\ ppc' = "err" /\ files' = {} /\ icon' = icon
         \/ /\ ppc = "piece" /\ ppc' = "writesfo" /\ Len(pieces) = count /\ ~SumRefused
            /\ files' = files /\ icon' = icon
         \/ ppc = "writesfo" /\ ppc' = "writeicon" /\ files' = files \cup {"sfo"} /\ icon' = icon
         \/ /\ ppc = "writeicon" /\ ppc' = "close" /\ icon' \in BOOLEAN
            /\ files' = IF icon' THEN files \cup {"png"} ELSE files
  BY DEF PieceFails, Sum, SumFails, WriteSfo, WriteIcon, WriteFails, CloseFailed, Found
<1>2. PiecesTypeOK'
  BY <1>1 DEF PieceInv, PiecesTypeOK, Files
<1>3. Table => Table'
  BY <1>1 DEF Table, Fits
<1>4. psize \in 0..NoLen /\ NoLen \in Nat /\ count > 0 /\ Len(pieces) \in Nat
      /\ (Len(pieces) = count => pieces # <<>>)
  BY <1>1, Words DEF PieceInv, PiecesTypeOK
<1>5. PieceTable'
  BY <1>1, <1>3, <1>4 DEF PieceInv, PieceTable, SumRefused
<1>6. PieceFiles'
  BY <1>1 DEF PieceInv, PieceFiles
<1>. QED
  BY <1>1, <1>2, <1>5, <1>6 DEF PieceInv

LEMMA SetupReturnInv ==
  ASSUME PieceInv, SetupReturn
  PROVE  PieceInv'
<1>1. /\ count' = count /\ psize' = 0 /\ entries' = <<>> /\ total' = 0
      /\ offset' = 0 /\ pieces' = pieces /\ lens' = <<>> /\ bufs' = {} /\ files' = files
      /\ icon' = icon
      /\ \/ ppc = "close" /\ ppc' = "done"
         \/ ppc = "err" /\ ppc' = "failed"
  BY DEF SetupReturn, Free
<1>2. 0 \in 0..NoLen
  BY Words
<1>3. PiecesTypeOK'
  BY <1>1, <1>2 DEF PieceInv, PiecesTypeOK
<1>4. PieceTable'
  BY <1>1 DEF PieceInv, PieceTable
<1>5. PieceFiles'
  BY <1>1 DEF PieceInv, PieceFiles
<1>. QED
  BY <1>1, <1>3, <1>4, <1>5 DEF PieceInv

\* Every step of the set-up preserves its invariant.
LEMMA PiecesStepInv ==
  ASSUME PieceInv, PiecesStep
  PROVE  PieceInv'
BY MovesOnInv, FetchHeaderInv, PieceStepInv, AfterTableInv, SetupReturnInv DEF PiecesStep

LEMMA PiecesStutter ==
  ASSUME PieceInv, UNCHANGED pvars
  PROVE  PieceInv'
<1>1. /\ ppc' = ppc /\ count' = count /\ psize' = psize /\ entries' = entries /\ total' = total
      /\ offset' = offset /\ pieces' = pieces /\ lens' = lens /\ bufs' = bufs /\ files' = files
      /\ icon' = icon
  BY DEF pvars
<1>2. PiecesTypeOK' /\ PieceFiles'
  BY <1>1 DEF PieceInv, PiecesTypeOK, PieceFiles
<1>3. (Table => Table') /\ (FirstPiece => FirstPiece')
  BY <1>1 DEF Table, Fits, FirstPiece
<1>4. PieceTable'
  BY <1>1, <1>3 DEF PieceInv, PieceTable
<1>. QED
  BY <1>1, <1>2, <1>4 DEF PieceInv, NoCall

\* The table of a package whose size was told is a partition of it, unless a piece ends
\* beyond the largest word.
LEMMA TableTiles == PieceInv => PiecesTile
<1>. SUFFICES ASSUME PieceInv, ppc = "close", psize > 0
              PROVE  /\ Len(pieces) = count /\ Len(lens) = count
                     /\ \A k \in 1..count : pieces[k].size = lens[k]
                     /\ \/ \E k \in 1..count : pieces[k].at + pieces[k].size > NoLen
                        \/ /\ pieces[1].at = 0
                           /\ \A k \in 2..count : pieces[k].at = pieces[k - 1].at + pieces[k - 1].size
                           /\ pieces[count].at + pieces[count].size = psize
  BY DEF PiecesTile
<1>1. Table /\ Len(pieces) = count /\ offset = psize
  BY DEF PieceInv, PieceTable
<1>2. CASE Fits
  BY <1>1, <1>2 DEF Table
<1>3. CASE ~Fits
  <2>1. PICK k \in 1..count : ~(pieces[k].at + pieces[k].size <= NoLen)
    BY <1>1, <1>3 DEF Fits
  <2>2. pieces[k] \in [at : 0..NoLen, size : 0..NoLen]
    <3>1. pieces \in Seq([at : 0..NoLen, size : 0..NoLen])
      BY DEF PieceInv, PiecesTypeOK
    <3>. QED
      BY <1>1, <3>1, ElementOfSeq
  <2>3. pieces[k].at + pieces[k].size > NoLen
    BY <2>1, <2>2, Words
  <2>. QED
    BY <1>1, <2>3 DEF Table
<1>. QED
  BY <1>2, <1>3

-------------------------------------------------------------------------------
(* PieceUrls, with one thread *)

\* What is stored for an element of a list.
Stored(e) == url_encode(http_unescape_uri(e.path))

Job == [pc : {"idle", "fetch", "alloc", "parse", "check", "array", "encode", "handed", "err"},
        no : 0..MaxInstalls, kind : {"none", "direct", "ref"}, text : Seq(Elements),
        i : 1..(MaxPieces + 1), count : 0..MaxPieces, urls : Seq({Stored(e) : e \in Elements}),
        live : SUBSET {"ref", "data", "pool", "unescaped", "array"}, cells : SUBSET (1..MaxPieces),
        root : Nat]

Tree == [no : 0..MaxInstalls, list : Seq(Elements)]

\* Nothing was counted or stored yet.
Fresh(j) == j.i = 1 /\ j.count = 0 /\ j.urls = <<>> /\ j.cells = {}

\* The list that is gone through is the one that was sent for the job, and its text is
\* allocated.
Readable(j) ==
  \/ j.kind = "direct"
  \/ /\ j.kind = "ref" /\ "data" \in j.live
     /\ j.root \in 1..Len(trees) /\ trees[j.root] = [no |-> j.no, list |-> j.text]

\* All elements were counted, and the first i - 1 of them are stored.
StoredSoFar(j) ==
  /\ j.count = Len(j.text) /\ j.count > 0 /\ j.i <= Len(j.text) + 1
  /\ Len(j.urls) = j.i - 1 /\ j.cells = 1..(j.i - 1) /\ "array" \in j.live
  /\ \A k \in 1..Len(j.urls) : j.urls[k] = Stored(j.text[k])

JobOK(j) ==
  /\ Len(j.text) <= MaxPieces /\ j.root <= Len(trees)
  /\ j.pc # "err" => "unescaped" \notin j.live
  /\ j.pc = "idle" => Fresh(j) /\ j.live \subseteq {"pool"}
  /\ j.pc \in {"fetch", "alloc", "parse"} => Fresh(j) /\ j.kind = "ref"
  /\ j.pc \in {"alloc", "parse"} => "data" \in j.live
  /\ j.pc = "parse" => pool # 0
  /\ j.pc \in {"check", "array", "encode"} => Readable(j)
  /\ j.pc = "check" => /\ j.count = j.i - 1 /\ j.i <= Len(j.text) + 1
                       /\ j.urls = <<>> /\ j.cells = {}
  /\ j.pc = "array" => j.count = Len(j.text) /\ j.count > 0 /\ j.urls = <<>> /\ j.cells = {}
  /\ j.pc \in {"encode", "handed"} => StoredSoFar(j)
  /\ j.pc = "handed" => j.i = Len(j.text) + 1 /\ j.live \subseteq {"array", "ref", "pool"}
  /\ j.pc = "err" => j.cells \subseteq 1..j.count /\ (j.cells # {} => "array" \in j.live)

UrlTypes ==
  /\ job \in [Threads -> Job] /\ trees \in Seq(Tree)
  /\ pool \in 0..Len(trees) /\ installs \in 0..MaxInstalls
  /\ fault = {}

UrlInv == OneThread /\ UrlTypes /\ \A t \in Threads : JobOK(job[t])

\* A step of the one thread preserves the invariant if what it does to its job does.
LEMMA JobStep ==
  ASSUME UrlInv, NEW t \in Threads, NEW j \in Job, job' = [job EXCEPT ![t] = j],
         trees' \in Seq(Tree), pool' \in 0..Len(trees'), installs' \in 0..MaxInstalls, fault' = {},
         JobOK(job[t])'
  PROVE  UrlInv'
<1>1. job' \in [Threads -> Job]
  BY DEF UrlInv, UrlTypes
<1>2. \A u \in Threads : JobOK(job[u])'
  BY DEF UrlInv, OneThread
<1>. QED
  BY <1>1, <1>2 DEF UrlInv, UrlTypes

LEMMA UrlsInitInv == OneThread /\ UrlsInit => UrlInv
<1>. SUFFICES ASSUME OneThread, UrlsInit PROVE UrlInv
  OBVIOUS
<1>1. 0 \in 0..MaxInstalls /\ 1 \in 1..(MaxPieces + 1) /\ 0 \in 0..MaxPieces
  BY PieceUrlsAssumption
<1>2. NoJob \in Job
  BY <1>1 DEF NoJob, Job
<1>3. UrlTypes
  BY <1>1, <1>2 DEF UrlsInit, UrlTypes
<1>4. JobOK(NoJob)
  BY <1>1 DEF NoJob, JobOK, Fresh, UrlsInit
<1>. QED
  BY <1>3, <1>4 DEF UrlInv, UrlsInit

\* The lists that can be sent.
LEMMA TextsAreSeqs == \A s \in Texts : s \in Seq(Elements) /\ Len(s) <= MaxPieces /\ Len(s) \in Nat
BY PieceUrlsAssumption DEF Texts

\* The same when the pools are left alone.
LEMMA JobStepSame ==
  ASSUME UrlInv, NEW t \in Threads, NEW j \in Job, job' = [job EXCEPT ![t] = j], JobOK(j),
         trees' = trees, pool' = pool, installs' \in 0..MaxInstalls, fault' = {}
  PROVE  UrlInv'
<1>1. job'[t] = j
  BY DEF UrlInv, UrlTypes
<1>2. JobOK(job[t])'
  BY <1>1 DEF JobOK, Readable, Fresh, StoredSoFar
<1>. QED
  BY <1>2, JobStep DEF UrlInv, UrlTypes

\* What a thread that takes a step can rely on.
LEMMA JobNow ==
  ASSUME UrlInv, NEW t \in Threads
  PROVE  /\ job[t] \in Job /\ JobOK(job[t]) /\ fault = {} /\ installs \in 0..MaxInstalls
         /\ installs < MaxInstalls => installs + 1 \in 0..MaxInstalls
BY PieceUrlsAssumption DEF UrlInv, UrlTypes

\* The request.
LEMMA DirectInv ==
  ASSUME UrlInv, NEW t \in Threads, NEW text \in Texts, Direct(t, text)
  PROVE  UrlInv'
<1>. DEFINE j == [job[t] EXCEPT !.pc = "check", !.no = installs + 1, !.kind = "direct",
                                !.text = text, !.live = {}]
<1>1. /\ job' = [job EXCEPT ![t] = j] /\ installs' = installs + 1 /\ pool' = pool
      /\ trees' = trees /\ fault' = fault /\ job[t].pc = "idle" /\ installs < MaxInstalls
  BY DEF Direct
<1>2. j \in Job
  BY <1>1, JobNow, TextsAreSeqs, ZenonT(40) DEF Job
<1>3. /\ j.pc = "check" /\ j.kind = "direct" /\ j.text = text /\ j.i = job[t].i
      /\ j.count = job[t].count /\ j.urls = job[t].urls /\ j.live = {}
      /\ j.cells = job[t].cells /\ j.root = job[t].root
  BY JobNow DEF Job
<1>. HIDE DEF j
<1>4. JobOK(j)
  <2>1. text \in Seq(Elements) /\ Len(text) <= MaxPieces /\ Len(text) \in Nat
    BY TextsAreSeqs
  <2>2. JobOK(job[t])
    BY JobNow
  <2>3. Fresh(j) /\ j.live = {} /\ Readable(j) /\ j.root <= Len(trees)
    BY <1>1, <1>3, <2>2 DEF JobOK, Fresh, Readable
  <2>. QED
    BY <1>3, <2>1, <2>3 DEF JobOK, Fresh
<1>. QED
  BY <1>1, <1>2, <1>4, JobNow, JobStepSame

LEMMA RefPkgUrlInv ==
  ASSUME UrlInv, NEW t \in Threads, RefPkgUrl(t)
  PROVE  UrlInv'
<1>. DEFINE j == [job[t] EXCEPT !.pc = "fetch", !.no = installs + 1, !.kind = "ref",
                                !.live = {"ref"}]
<1>1. /\ job' = [job EXCEPT ![t] = j] /\ installs' = installs + 1 /\ pool' = pool
      /\ trees' = trees /\ fault' = fault /\ job[t].pc = "idle" /\ installs < MaxInstalls
  BY DEF RefPkgUrl
<1>2. j \in Job
  BY <1>1, JobNow, ZenonT(40) DEF Job
<1>3. /\ j.pc = "fetch" /\ j.kind = "ref" /\ j.text = job[t].text /\ j.i = job[t].i
      /\ j.count = job[t].count /\ j.urls = job[t].urls /\ j.live = {"ref"}
      /\ j.cells = job[t].cells /\ j.root = job[t].root
  BY JobNow DEF Job
<1>. HIDE DEF j
<1>4. JobOK(j)
  BY <1>1, <1>3, JobNow DEF JobOK, Fresh
<1>. QED
  BY <1>1, <1>2, <1>4, JobNow, JobStepSame

\* A thread goes to another place and changes nothing else.
LEMMA GotoInv ==
  ASSUME UrlInv, NEW t \in Threads, NEW pc \in {"err", "array"}, Goto(t, pc),
         job[t].pc # "idle", job[t].pc # "handed",
         pc = "array" => /\ job[t].pc = "check" /\ job[t].i > Len(job[t].text)
                         /\ job[t].count # 0,
         trees' = trees, pool' = pool, installs' = installs, fault' = {}
  PROVE  UrlInv'
<1>. DEFINE j == [job[t] EXCEPT !.pc = pc]
<1>1. job' = [job EXCEPT ![t] = j]
  BY DEF Goto
<1>2. j \in Job
  BY JobNow DEF Job
<1>3. /\ j.pc = pc /\ j.kind = job[t].kind /\ j.text = job[t].text /\ j.i = job[t].i
      /\ j.no = job[t].no
      /\ j.count = job[t].count /\ j.urls = job[t].urls /\ j.live = job[t].live
      /\ j.cells = job[t].cells /\ j.root = job[t].root
  BY JobNow DEF Job
<1>4. /\ job[t].i \in Nat /\ job[t].count \in Nat /\ Len(job[t].text) \in Nat
      /\ job[t].pc \in {"fetch", "alloc", "parse", "check", "array", "encode", "err"}
  <2>1. job[t] \in Job /\ MaxPieces \in Nat
    BY JobNow, PieceUrlsAssumption
  <2>2. /\ job[t].i \in 1..(MaxPieces + 1) /\ job[t].count \in 0..MaxPieces
        /\ job[t].text \in Seq(Elements)
    BY <2>1 DEF Job
  <2>3. job[t].pc \in {"fetch", "alloc", "parse", "check", "array", "encode", "err"}
    BY <2>1 DEF Job
  <2>. QED
    BY <2>1, <2>2, <2>3
<1>. HIDE DEF j
<1>5. CASE pc = "err"
  <2>1. job[t].cells \subseteq 1..job[t].count /\ (job[t].cells # {} => "array" \in job[t].live)
    BY <1>4, JobNow DEF JobOK, Fresh, StoredSoFar
  <2>2. JobOK(j)
    BY <1>3, <1>5, <2>1, JobNow DEF JobOK
  <2>. QED
    BY <1>1, <1>2, <2>2, JobNow, JobStepSame
<1>6. CASE pc = "array"
  <2>1. JobOK(j)
    BY <1>3, <1>4, <1>6, JobNow DEF JobOK, Readable
  <2>. QED
    BY <1>1, <1>2, <2>1, JobNow, JobStepSame
<1>. QED
  BY <1>5, <1>6

LEMMA DownloadInv ==
  ASSUME UrlInv, NEW t \in Threads, NEW text \in Texts, Download(t, text)
  PROVE  UrlInv'
<1>. DEFINE j == [job[t] EXCEPT !.pc = "alloc", !.text = text, !.live = @ \cup {"data"}]
<1>1. /\ job' = [job EXCEPT ![t] = j] /\ installs' = installs /\ pool' = pool
      /\ trees' = trees /\ fault' = fault /\ job[t].pc = "fetch"
  BY DEF Download
<1>2. j \in Job
  BY JobNow, TextsAreSeqs DEF Job
<1>3. /\ j.pc = "alloc" /\ j.kind = job[t].kind /\ j.text = text /\ j.i = job[t].i
      /\ j.count = job[t].count /\ j.urls = job[t].urls /\ j.live = job[t].live \cup {"data"}
      /\ j.cells = job[t].cells /\ j.root = job[t].root
  BY JobNow DEF Job
<1>. HIDE DEF j
<1>4. JobOK(j)
  BY <1>1, <1>3, JobNow, TextsAreSeqs DEF JobOK, Fresh
<1>. QED
  BY <1>1, <1>2, <1>4, JobNow, JobStepSame

\* A pool is allocated: the pools before it are as they were.
LEMMA NewPoolInv ==
  ASSUME UrlInv, NEW t \in Threads, NewPool(t)
  PROVE  UrlInv'
<1>. DEFINE j == [job[t] EXCEPT !.pc = "parse", !.live = @ \cup {"pool"}]
            r == [no |-> 0, list |-> <<>>]
<1>1. /\ job' = [job EXCEPT ![t] = j] /\ installs' = installs /\ pool' = Len(trees) + 1
      /\ trees' = Append(trees, r) /\ fault' = fault /\ job[t].pc = "alloc"
  BY DEF NewPool
<1>2. j \in Job /\ r \in Tree /\ trees \in Seq(Tree) /\ Len(trees) \in Nat
  <2>1. j \in Job
    BY JobNow DEF Job
  <2>2. r \in Tree
    BY PieceUrlsAssumption DEF Tree
  <2>. QED
    BY <2>1, <2>2 DEF UrlInv, UrlTypes
<1>3. /\ j.pc = "parse" /\ j.kind = job[t].kind /\ j.text = job[t].text /\ j.i = job[t].i
      /\ j.count = job[t].count /\ j.urls = job[t].urls /\ j.live = job[t].live \cup {"pool"}
      /\ j.cells = job[t].cells /\ j.root = job[t].root /\ job[t].root \in Nat
  BY JobNow DEF Job
<1>. HIDE DEF j, r
<1>4. trees' \in Seq(Tree) /\ Len(trees') = Len(trees) + 1
  BY <1>1, <1>2, AppendProperties
<1>5. job'[t] = j
  BY <1>1 DEF UrlInv, UrlTypes
<1>6. pool' \in 0..Len(trees') /\ pool' # 0
  BY <1>1, <1>2, <1>4
<1>7. JobOK(job[t])'
  BY <1>1, <1>2, <1>3, <1>4, <1>5, <1>6, JobNow DEF JobOK, Fresh
<1>. QED
  BY <1>1, <1>2, <1>4, <1>6, <1>7, JobNow, JobStep

\* There is none: the static pointer is NULL and the install fails.
LEMMA NewPoolFailsInv ==
  ASSUME UrlInv, NEW t \in Threads, NewPoolFails(t)
  PROVE  UrlInv'
<1>. DEFINE j == [job[t] EXCEPT !.pc = "err"]
<1>1. /\ job' = [job EXCEPT ![t] = j] /\ installs' = installs /\ pool' = 0
      /\ trees' = trees /\ fault' = fault /\ job[t].pc = "alloc"
  BY DEF NewPoolFails, Goto
<1>2. j \in Job /\ trees \in Seq(Tree) /\ Len(trees) \in Nat
  <2>1. j \in Job
    BY JobNow DEF Job
  <2>. QED
    BY <2>1 DEF UrlInv, UrlTypes
<1>3. /\ j.pc = "err" /\ j.text = job[t].text /\ j.cells = job[t].cells /\ j.root = job[t].root
  BY JobNow DEF Job
<1>. HIDE DEF j
<1>4. job'[t] = j /\ pool' \in 0..Len(trees')
  BY <1>1, <1>2 DEF UrlInv, UrlTypes
<1>5. JobOK(job[t])'
  BY <1>1, <1>3, <1>4, JobNow DEF JobOK, Fresh
<1>. QED
  BY <1>1, <1>2, <1>4, <1>5, JobNow, JobStep

\* The pool the static pointer is at is this install's own: its tree is its list.
LEMMA ParseJsonInv ==
  ASSUME UrlInv, NEW t \in Threads, ParseJson(t)
  PROVE  UrlInv'
<1>. DEFINE j == [job[t] EXCEPT !.pc = "check", !.root = pool]
            r == [no |-> job[t].no, list |-> job[t].text]
<1>1. job[t].pc = "parse" /\ pool # 0
  BY JobNow DEF ParseJson, JobOK
<1>2. /\ job' = [job EXCEPT ![t] = j] /\ installs' = installs /\ pool' = pool
      /\ trees' = [trees EXCEPT ![pool] = r] /\ fault' = fault
  BY <1>1 DEF ParseJson
<1>3. /\ trees \in Seq(Tree) /\ Len(trees) \in Nat /\ pool \in 1..Len(trees) /\ pool \in Nat
  BY <1>1 DEF UrlInv, UrlTypes
<1>4. j \in Job /\ r \in Tree
  BY <1>3, JobNow DEF Job, Tree
<1>5. /\ j.pc = "check" /\ j.kind = job[t].kind /\ j.text = job[t].text /\ j.i = job[t].i
      /\ j.no = job[t].no
      /\ j.count = job[t].count /\ j.urls = job[t].urls /\ j.live = job[t].live
      /\ j.cells = job[t].cells /\ j.root = pool /\ Len(j.text) \in Nat
  BY JobNow DEF Job
<1>. HIDE DEF j
<1>6. trees' \in Seq(Tree) /\ Len(trees') = Len(trees) /\ trees'[pool] = r
  <2>. HIDE DEF r
  <2>. QED
    BY <1>2, <1>3, <1>4, ExceptSeq
<1>7. job'[t] = j /\ pool' \in 0..Len(trees') /\ trees'[pool] = [no |-> j.no, list |-> j.text]
  BY <1>2, <1>3, <1>5, <1>6 DEF UrlInv, UrlTypes
<1>. HIDE DEF r
<1>8. Fresh(job[t]) /\ job[t].kind = "ref" /\ "data" \in job[t].live
      /\ Len(job[t].text) <= MaxPieces /\ "unescaped" \notin job[t].live
  BY <1>1, JobNow DEF JobOK
<1>9. Readable(job[t])'
  BY <1>3, <1>5, <1>6, <1>7, <1>8 DEF Readable
<1>10. JobOK(job[t])'
  BY <1>2, <1>3, <1>5, <1>6, <1>7, <1>8, <1>9 DEF JobOK, Fresh
<1>. QED
  BY <1>2, <1>4, <1>6, <1>7, <1>10, JobNow, JobStep

\* The list a thread goes through is the one it was sent, in memory that is still there.
LEMMA ListIsText ==
  ASSUME UrlInv, NEW t \in Threads, job[t].pc \in {"check", "array", "encode"}
  PROVE  /\ List(t) = job[t].text /\ TextLive(t)
         /\ job[t].text \in Seq(Elements) /\ Len(job[t].text) \in 0..MaxPieces
         /\ Len(List(t)) = Len(job[t].text)
         /\ job[t].i \in Nat \ {0} /\ job[t].count \in Nat /\ MaxPieces \in Nat
<1>1. job[t] \in Job /\ JobOK(job[t]) /\ MaxPieces \in Nat
  BY JobNow, PieceUrlsAssumption
<1>2. Readable(job[t]) /\ Len(job[t].text) <= MaxPieces
  BY <1>1 DEF JobOK
<1>3. /\ job[t].text \in Seq(Elements) /\ job[t].i \in 1..(MaxPieces + 1)
      /\ job[t].count \in 0..MaxPieces
  BY <1>1 DEF Job
<1>4. List(t) = job[t].text /\ TextLive(t)
  BY <1>2 DEF Readable, List, TextLive
<1>. QED
  BY <1>1, <1>2, <1>3, <1>4

LEMMA CheckInv ==
  ASSUME UrlInv, NEW t \in Threads, Check(t)
  PROVE  UrlInv'
<1>. DEFINE j == [job[t] EXCEPT !.i = @ + 1, !.count = @ + 1]
<1>0. /\ job[t].pc = "check" /\ job[t].i <= Len(List(t))
      /\ job' = [job EXCEPT ![t] = j] /\ installs' = installs /\ pool' = pool
      /\ trees' = trees /\ Reading(t)
  BY DEF Check
<1>1. /\ job[t] \in Job /\ JobOK(job[t]) /\ fault = {} /\ installs \in 0..MaxInstalls
  BY JobNow
<1>2. /\ Len(List(t)) = Len(job[t].text) /\ Len(job[t].text) \in 0..MaxPieces /\ TextLive(t)
      /\ job[t].i \in Nat \ {0} /\ job[t].count \in Nat /\ MaxPieces \in Nat
  BY <1>0, ListIsText
<1>3. fault' = {}
  BY <1>0, <1>1, <1>2 DEF Reading
<1>4. job[t].i + 1 \in 1..(MaxPieces + 1) /\ job[t].count + 1 \in 0..MaxPieces
      /\ job[t].count = job[t].i - 1
  <2>1. job[t].count = job[t].i - 1
    BY <1>0, <1>1 DEF JobOK
  <2>. QED
    BY <2>1, <1>0, <1>2
<1>5. j \in Job
  BY <1>1, <1>4 DEF Job
<1>6. /\ j.pc = "check" /\ j.kind = job[t].kind /\ j.text = job[t].text /\ j.i = job[t].i + 1
      /\ j.no = job[t].no
      /\ j.count = job[t].count + 1 /\ j.urls = job[t].urls /\ j.live = job[t].live
      /\ j.cells = job[t].cells /\ j.root = job[t].root
  BY <1>0, <1>1 DEF Job
<1>. HIDE DEF j
<1>7. /\ Readable(j) /\ j.count = j.i - 1 /\ j.i <= Len(j.text) + 1
  <2>1. Readable(j)
    BY <1>0, <1>1, <1>6 DEF JobOK, Readable
  <2>. QED
    BY <2>1, <1>0, <1>2, <1>4, <1>6, SMTT(30)
<1>8. JobOK(j)
  BY <1>0, <1>1, <1>6, <1>7 DEF JobOK
<1>. QED
  BY <1>0, <1>1, <1>3, <1>5, <1>8, JobStepSame

LEMMA CheckFailsInv ==
  ASSUME UrlInv, NEW t \in Threads, CheckFails(t)
  PROVE  UrlInv'
<1>0. /\ job[t].pc = "check" /\ installs' = installs /\ pool' = pool
      /\ trees' = trees /\ Reading(t)
  BY DEF CheckFails
<1>1. PICK more \in SUBSET {"unescaped"} :
        job' = [job EXCEPT ![t] = [job[t] EXCEPT !.pc = "err", !.live = @ \cup more]]
  <2>. DEFINE e == List(t)[job[t].i]
  <2>1. CASE job[t].kind = "ref" /\ IsUrl(e) /\ ~e.http
    <3>1. {"unescaped"} \in SUBSET {"unescaped"}
      OBVIOUS
    <3>. QED
      BY <2>1, <3>1 DEF CheckFails
  <2>2. CASE ~(job[t].kind = "ref" /\ IsUrl(e) /\ ~e.http)
    <3>1. job' = [job EXCEPT ![t] = [job[t] EXCEPT !.pc = "err", !.live = @]]
      BY <2>2 DEF CheckFails
    <3>2. job[t].live = job[t].live \cup {} /\ {} \in SUBSET {"unescaped"}
      OBVIOUS
    <3>. QED
      BY <3>1, <3>2
  <2>. QED
    BY <2>1, <2>2
<1>. DEFINE j == [job[t] EXCEPT !.pc = "err", !.live = @ \cup more]
<1>2. /\ job[t] \in Job /\ JobOK(job[t]) /\ fault = {} /\ installs \in 0..MaxInstalls
  BY JobNow
<1>3. fault' = {}
  BY <1>0, <1>2, ListIsText DEF Reading
<1>4. j \in Job
  BY <1>2 DEF Job
<1>5. j.pc = "err" /\ j.text = job[t].text /\ j.cells = job[t].cells /\ j.root = job[t].root
  BY <1>2 DEF Job
<1>6. job' = [job EXCEPT ![t] = j]
  BY <1>1
<1>. HIDE DEF j
<1>7. JobOK(j)
  BY <1>0, <1>2, <1>5 DEF JobOK
<1>. QED
  BY <1>0, <1>2, <1>3, <1>4, <1>6, <1>7, JobStepSame

LEMMA CheckDoneInv ==
  ASSUME UrlInv, NEW t \in Threads, CheckDone(t)
  PROVE  UrlInv'
<1>0. /\ job[t].pc = "check" /\ job[t].i > Len(List(t))
      /\ Goto(t, IF job[t].count = 0 THEN "err" ELSE "array")
      /\ UNCHANGED <<pool, trees, installs, fault>>
  BY DEF CheckDone
<1>1. job[t].i > Len(job[t].text)
  BY <1>0, ListIsText
<1>2. CASE job[t].count = 0
  BY <1>0, <1>1, <1>2, JobNow, GotoInv
<1>3. CASE job[t].count # 0
  BY <1>0, <1>1, <1>3, JobNow, GotoInv
<1>. QED
  BY <1>2, <1>3

\* A failure that only goes to the label err.
LEMMA FailsInv ==
  ASSUME UrlInv, NEW t \in Threads,
         DownloadFails(t) \/ ParseFails(t) \/ NewArrayFails(t) \/ EncodeFails(t)
  PROVE  UrlInv'
<1>1. /\ job[t].pc \in {"fetch", "parse", "array", "encode"} /\ Goto(t, "err")
      /\ pool' = pool /\ trees' = trees /\ installs' = installs
      /\ \/ fault' = fault
         \/ job[t].pc = "encode" /\ Reading(t)
  BY DEF DownloadFails, ParseFails, NewArrayFails, EncodeFails
<1>2. fault' = {}
  BY <1>1, JobNow, ListIsText DEF Reading
<1>. QED
  BY <1>1, <1>2, GotoInv

LEMMA NewArrayInv ==
  ASSUME UrlInv, NEW t \in Threads, NewArray(t)
  PROVE  UrlInv'
<1>. DEFINE j == [job[t] EXCEPT !.pc = "encode", !.i = 1, !.live = @ \cup {"array"}]
<1>0. /\ job[t].pc = "array" /\ job' = [job EXCEPT ![t] = j]
      /\ UNCHANGED <<pool, trees, installs, fault>>
  BY DEF NewArray
<1>1. /\ job[t] \in Job /\ JobOK(job[t]) /\ fault = {} /\ installs \in 0..MaxInstalls
  BY JobNow
<1>2. Len(job[t].text) \in Nat /\ 1 \in 1..(MaxPieces + 1)
  BY <1>0, ListIsText
<1>3. j \in Job
  BY <1>1, <1>2 DEF Job
<1>4. /\ j.pc = "encode" /\ j.kind = job[t].kind /\ j.text = job[t].text /\ j.i = 1
      /\ j.no = job[t].no
      /\ j.count = job[t].count /\ j.urls = job[t].urls /\ j.live = job[t].live \cup {"array"}
      /\ j.cells = job[t].cells /\ j.root = job[t].root
  BY <1>1 DEF Job
<1>. HIDE DEF j
<1>5. StoredSoFar(j)
  BY <1>0, <1>1, <1>2, <1>4 DEF JobOK, StoredSoFar
<1>6. Readable(j)
  BY <1>0, <1>1, <1>4 DEF JobOK, Readable
<1>7. JobOK(j)
  BY <1>0, <1>1, <1>4, <1>5, <1>6 DEF JobOK
<1>. QED
  BY <1>0, <1>1, <1>3, <1>7, JobStepSame

\* A URL is stored in the cell that was counted for it.
LEMMA EncodeInv ==
  ASSUME UrlInv, NEW t \in Threads, Encode(t)
  PROVE  UrlInv'
<1>. DEFINE n == job[t].i
            u == url_encode(http_unescape_uri(List(t)[n].path))
            j == [job[t] EXCEPT !.i = @ + 1, !.cells = @ \cup {n}, !.urls = Append(@, u)]
<1>0. /\ job[t].pc = "encode" /\ n <= Len(List(t)) /\ job' = [job EXCEPT ![t] = j]
      /\ fault' = fault \cup (IF TextLive(t) THEN {} ELSE {"freed"})
                        \cup (IF n <= job[t].count THEN {} ELSE {"overrun"})
      /\ installs' = installs /\ pool' = pool /\ trees' = trees
  BY DEF Encode
<1>1. /\ job[t] \in Job /\ JobOK(job[t]) /\ fault = {} /\ installs \in 0..MaxInstalls
  BY JobNow
<1>2. /\ List(t) = job[t].text /\ TextLive(t) /\ job[t].text \in Seq(Elements)
      /\ Len(job[t].text) \in 0..MaxPieces /\ Len(List(t)) = Len(job[t].text)
      /\ n \in Nat \ {0} /\ MaxPieces \in Nat
  BY <1>0, ListIsText
<1>3. StoredSoFar(job[t]) /\ Readable(job[t])
  BY <1>0, <1>1 DEF JobOK
<1>4. fault' = {}
  BY <1>0, <1>1, <1>2, <1>3 DEF StoredSoFar
<1>5. u = Stored(job[t].text[n]) /\ job[t].text[n] \in Elements
  BY <1>0, <1>2 DEF Stored
<1>. HIDE DEF u
<1>6. Append(job[t].urls, u) \in Seq({Stored(e) : e \in Elements})
  BY <1>1, <1>5, AppendProperties DEF Job
<1>7. n + 1 \in 1..(MaxPieces + 1) /\ n \in 1..MaxPieces
  BY <1>0, <1>2
<1>8. j \in Job
  BY <1>1, <1>6, <1>7 DEF Job
<1>9. /\ j.pc = "encode" /\ j.kind = job[t].kind /\ j.text = job[t].text /\ j.i = n + 1
      /\ j.no = job[t].no
      /\ j.count = job[t].count /\ j.urls = Append(job[t].urls, u) /\ j.live = job[t].live
      /\ j.cells = job[t].cells \cup {n} /\ j.root = job[t].root
  BY <1>0, <1>1 DEF Job
<1>. HIDE DEF j
<1>10. StoredSoFar(j)
  <2>1. /\ Len(job[t].urls) = n - 1 /\ job[t].cells = 1..(n - 1)
        /\ job[t].urls \in Seq({Stored(e) : e \in Elements})
    BY <1>1, <1>3 DEF StoredSoFar, Job
  <2>2. /\ Len(j.urls) = n /\ j.urls[n] = u /\ \A k \in 1..(n - 1) : j.urls[k] = job[t].urls[k]
    <3>1. u \in {Stored(e) : e \in Elements} /\ (n - 1) + 1 = n
      BY <1>2, <1>5
    <3>. QED
      BY <2>1, <1>9, <3>1, AppendProperties
  <2>3. j.cells = 1..n
    BY <2>1, <1>2, <1>9
  <2>4. ASSUME NEW k \in 1..n PROVE j.urls[k] = Stored(j.text[k])
    <3>1. CASE k = n
      BY <3>1, <2>2, <1>5, <1>9
    <3>2. CASE k # n
      <4>1. k \in 1..(n - 1)
        BY <3>2, <1>2
      <4>. QED
        BY <4>1, <2>1, <2>2, <1>3, <1>9 DEF StoredSoFar
    <3>. QED
      BY <3>1, <3>2
  <2>5. (n + 1) - 1 = n /\ n + 1 <= Len(job[t].text) + 1
    BY <1>0, <1>2
  <2>. QED
    BY <2>2, <2>3, <2>4, <2>5, <1>3, <1>9 DEF StoredSoFar
<1>11. Readable(j)
  BY <1>3, <1>9 DEF Readable
<1>12. JobOK(j)
  BY <1>0, <1>1, <1>9, <1>10, <1>11 DEF JobOK
<1>. QED
  BY <1>0, <1>1, <1>4, <1>8, <1>12, JobStepSame

LEMMA EncodeDoneInv ==
  ASSUME UrlInv, NEW t \in Threads, EncodeDone(t)
  PROVE  UrlInv'
<1>. DEFINE j == [job[t] EXCEPT !.pc = "handed", !.live = @ \ {"data"}]
<1>0. /\ job[t].pc = "encode" /\ job[t].i > Len(List(t)) /\ job' = [job EXCEPT ![t] = j]
      /\ UNCHANGED <<pool, trees, installs, fault>>
  BY DEF EncodeDone
<1>1. /\ job[t] \in Job /\ JobOK(job[t]) /\ fault = {} /\ installs \in 0..MaxInstalls
  BY JobNow
<1>2. /\ Len(job[t].text) \in Nat /\ Len(List(t)) = Len(job[t].text) /\ job[t].i \in Nat
  BY <1>0, ListIsText
<1>3. StoredSoFar(job[t]) /\ "unescaped" \notin job[t].live
  BY <1>0, <1>1 DEF JobOK
<1>4. j \in Job
  BY <1>1 DEF Job
<1>5. /\ j.pc = "handed" /\ j.text = job[t].text /\ j.i = job[t].i
      /\ j.count = job[t].count /\ j.urls = job[t].urls /\ j.live = job[t].live \ {"data"}
      /\ j.cells = job[t].cells /\ j.root = job[t].root
      /\ job[t].live \subseteq {"ref", "data", "pool", "unescaped", "array"}
  BY <1>1 DEF Job
<1>. HIDE DEF j
<1>6. StoredSoFar(j) /\ j.i = Len(j.text) + 1
  BY <1>0, <1>2, <1>3, <1>5 DEF StoredSoFar
<1>7. JobOK(j)
  <2>1. j.live \subseteq {"array", "ref", "pool"} /\ "unescaped" \notin j.live
    BY <1>3, <1>5
  <2>2. Len(j.text) <= MaxPieces /\ j.root <= Len(trees)
    BY <1>1, <1>5 DEF JobOK
  <2>. QED
    BY <1>5, <1>6, <2>1, <2>2 DEF JobOK
<1>. QED
  BY <1>0, <1>1, <1>4, <1>7, JobStepSame

\* The labels err, and free_piece_urls, give everything back but the pool.
LEMMA FreedInv ==
  ASSUME UrlInv, NEW t \in Threads, Failed(t) \/ Release(t)
  PROVE  UrlInv'
<1>1. PICK freed : /\ job' = [job EXCEPT ![t] = Freed(t, freed)]
                   /\ job[t].live \subseteq freed \cup {"pool"} /\ job[t].cells \subseteq 1..job[t].count
  <2>1. CASE Failed(t)
    <3>1. job[t] \in Job /\ JobOK(job[t]) /\ job[t].pc = "err"
      BY <2>1, JobNow DEF Failed
    <3>2. job[t].live \subseteq {"array", "unescaped", "data", "ref"} \cup {"pool"}
      BY <3>1 DEF Job
    <3>3. job[t].cells \subseteq 1..job[t].count
      BY <3>1 DEF JobOK
    <3>. QED
      BY <2>1, <3>2, <3>3 DEF Failed
  <2>2. CASE Release(t)
    <3>1. job[t] \in Job /\ JobOK(job[t]) /\ job[t].pc = "handed"
      BY <2>2, JobNow DEF Release
    <3>2. job[t].text \in Seq(Elements)
      BY <3>1 DEF Job
    <3>3. job[t].live \subseteq {"array", "ref"} \cup {"pool"}
      BY <3>1 DEF JobOK
    <3>4. job[t].cells \subseteq 1..job[t].count
      <4>1. StoredSoFar(job[t]) /\ job[t].i = Len(job[t].text) + 1
        BY <3>1 DEF JobOK
      <4>. QED
        BY <3>2, <4>1 DEF StoredSoFar
    <3>. QED
      BY <2>2, <3>3, <3>4 DEF Release
  <2>. QED
    BY <2>1, <2>2
<1>2. UNCHANGED <<pool, trees, installs, fault>>
  BY DEF Failed, Release
<1>3. job[t].count \in Nat
  <2>1. job[t].count \in 0..MaxPieces
    BY JobNow DEF Job
  <2>. QED
    BY <2>1, PieceUrlsAssumption
<1>. DEFINE l == job[t].live \ freed
            j == Freed(t, freed)
<1>4. l \subseteq {"pool"} /\ {k \in job[t].cells : k > job[t].count} = {}
  BY <1>1, <1>3
<1>5. j = [NoJob EXCEPT !.live = l, !.cells = {}]
  BY <1>4 DEF Freed
<1>. HIDE DEF l, j
<1>6. j = [pc |-> "idle", no |-> 0, kind |-> "none", text |-> <<>>, i |-> 1, count |-> 0,
           urls |-> <<>>, live |-> l, cells |-> {}, root |-> 0]
  BY <1>5 DEF NoJob
<1>7. j \in Job /\ JobOK(j)
  <2>1. 0 \in 0..MaxInstalls /\ 1 \in 1..(MaxPieces + 1) /\ 0 \in 0..MaxPieces
    BY PieceUrlsAssumption
  <2>2. 0 <= Len(trees) /\ 0 <= MaxPieces
    BY PieceUrlsAssumption DEF UrlInv, UrlTypes
  <2>3. <<>> \in Seq(Elements) /\ <<>> \in Seq({Stored(e) : e \in Elements})
        /\ l \in SUBSET {"ref", "data", "pool", "unescaped", "array"}
    BY <1>4
  <2>4. j \in Job
    BY <1>6, <2>1, <2>3 DEF Job
  <2>5. JobOK(j)
    BY <1>4, <1>6, <2>2 DEF JobOK, Fresh
  <2>. QED
    BY <2>4, <2>5
<1>8. job' = [job EXCEPT ![t] = j]
  BY <1>1 DEF j
<1>. QED
  BY <1>2, <1>7, <1>8, JobNow, JobStepSame

\* Every step on the URLs preserves their invariant.
LEMMA UrlsStepInv ==
  ASSUME UrlInv, NEW t \in Threads, UrlsStep(t) \/ Release(t)
  PROVE  UrlInv'
BY DirectInv, RefPkgUrlInv, DownloadInv, NewPoolInv, NewPoolFailsInv, ParseJsonInv, CheckInv,
   CheckFailsInv, CheckDoneInv, FailsInv, NewArrayInv, EncodeInv, EncodeDoneInv, FreedInv
   DEF UrlsStep

LEMMA UrlsStutter ==
  ASSUME UrlInv, UNCHANGED uvars
  PROVE  UrlInv'
BY DEF uvars, UrlInv, UrlTypes, JobOK, Fresh, Readable, StoredSoFar

-------------------------------------------------------------------------------
(* The install *)

\* The set-up runs for the URLs that were handed over, the param.sfo part after it.
Linked ==
  /\ spc # "idle" => ppc = "done"
  /\ ppc # "idle" => \A t \in Threads : job[t].pc = "handed" /\ count = Len(job[t].urls)

IInv == UrlInv /\ PieceInv /\ SfoInv /\ Linked

LEMMA InitIInv == OneThread /\ Init => IInv
<1>. SUFFICES ASSUME OneThread, Init PROVE IInv
  OBVIOUS
<1>1. spc = "idle" /\ ppc = "idle"
  BY DEF Init, SfoInit, PiecesInit
<1>. QED
  BY <1>1, UrlsInitInv, PiecesInitInv, SfoInitInv DEF Init, IInv, Linked

\* While the URLs are being read nothing else is under way.
LEMMA ReadUrlsFirst ==
  ASSUME NEW t \in Threads, UrlsStep(t)
  PROVE  job[t].pc # "handed"
BY DEF UrlsStep, Direct, RefPkgUrl, Download, DownloadFails, NewPool, NewPoolFails, ParseJson,
       ParseFails, Check, CheckFails, CheckDone, NewArray, NewArrayFails, Encode, EncodeFails,
       EncodeDone, Failed

\* A step of the set-up is inside the call, and the number of pieces does not change.
LEMMA SetupInside ==
  ASSUME PiecesStep
  PROVE  ppc \notin {"idle", "done"} /\ ppc' # "idle" /\ count' = count
BY DEF PiecesStep, Clear, FetchHeader, FetchHeaderFails, CheckSize, CheckSizeFails, FetchTable,
       FetchTableFails, FetchSfo, FetchSfoFails, FetchIcon, FetchIconFails, OpenJson,
       OpenJsonFails, Piece, PieceFails, Sum, SumFails, WriteSfo, WriteIcon, WriteFails,
       SetupReturn, Abandon, CloseFailed

LEMMA SfoInside ==
  ASSUME SfoStep
  PROVE  spc # "idle"
BY DEF SfoStep, SfoAlloc, SfoAllocFails, ReadSfo, ReadSfoFails, LoadEntry, LoadEntryFails,
       LoadDone, GetTitle, GetTitleFails, GetContentId, GetContentIdFails, FreeEntry, FreeSfo

\* What a thread whose URLs were handed over holds.
LEMMA Handed ==
  ASSUME UrlInv, NEW t \in Threads, job[t].pc = "handed"
  PROVE  /\ Len(job[t].urls) = Len(job[t].text) /\ Len(job[t].urls) \in 1..MaxCount
         /\ job[t].cells = 1..Len(job[t].urls)
         /\ \A k \in 1..Len(job[t].urls) : job[t].urls[k] = Stored(job[t].text[k])
<1>1. job[t] \in Job /\ JobOK(job[t])
  BY JobNow
<1>2. StoredSoFar(job[t]) /\ job[t].i = Len(job[t].text) + 1 /\ Len(job[t].text) <= MaxPieces
  BY <1>1 DEF JobOK
<1>3. Len(job[t].text) \in Nat /\ MaxPieces \in Nat /\ MaxPieces <= MaxCount /\ MaxCount \in Nat
  BY <1>1, PieceUrlsAssumption, PackageAssumption, PackagePiecesAssumption DEF Job
<1>4. (Len(job[t].text) + 1) - 1 = Len(job[t].text)
  BY <1>3
<1>. QED
  BY <1>2, <1>3, <1>4 DEF StoredSoFar

LEMMA StepIInv == IInv /\ [Next]_vars => IInv'
<1>. SUFFICES ASSUME IInv, [Next]_vars PROVE IInv'
  OBVIOUS
<1>0. UrlInv /\ PieceInv /\ SfoInv /\ Linked
  BY DEF IInv
<1>1. ASSUME NEW t \in Threads, ReadUrls(t) PROVE IInv'
  <2>1. UrlInv' /\ PieceInv' /\ SfoInv'
    BY <1>0, <1>1, UrlsStepInv, PiecesStutter, SfoStutter DEF ReadUrls
  <2>2. ppc' = ppc /\ spc' = spc /\ ppc = "idle"
    BY <1>0, <1>1, ReadUrlsFirst DEF ReadUrls, pvars, svars, Linked
  <2>. QED
    BY <1>0, <2>1, <2>2 DEF IInv, Linked
<1>2. ASSUME NEW t \in Threads, StartSetup(t) PROVE IInv'
  <2>1. /\ job[t].pc = "handed" /\ SetupBegin(Len(job[t].urls)) /\ job' = job
        /\ UNCHANGED uvars /\ UNCHANGED svars
    BY <1>2 DEF StartSetup, uvars
  <2>2. UrlInv' /\ PieceInv' /\ SfoInv'
    BY <1>0, <2>1, Handed, UrlsStutter, SetupBeginInv, SfoStutter
  <2>3. ppc = "idle" /\ spc' = spc /\ count' = Len(job[t].urls)
    BY <2>1 DEF SetupBegin, svars
  <2>4. \A u \in Threads : job'[u].pc = "handed" /\ count' = Len(job'[u].urls)
    BY <1>0, <2>1, <2>3 DEF UrlInv, OneThread
  <2>. QED
    BY <1>0, <2>2, <2>3, <2>4 DEF IInv, Linked
<1>3. ASSUME NEW t \in Threads, Return(t) PROVE IInv'
  <2>1. UrlInv' /\ PieceInv' /\ SfoInv'
    <3>1. told => ppc = "done"
      BY <1>0 DEF SfoInv, SfoTold, Linked
    <3>2. ppc = "done" => files = {"json", "sfo"} \cup (IF icon THEN {"png"} ELSE {})
      BY <1>0 DEF PieceInv, PieceFiles
    <3>3. ppc = "idle" => files \in {{}, {"json"}, {"json", "png"}}
      BY <1>0 DEF PieceInv
    <3>4. Kept \in {{}, {"json"}, {"json", "png"}}
      BY <3>1, <3>2, <3>3 DEF Kept
    <3>. QED
      BY <1>0, <1>3, <3>4, UrlsStepInv, SetupEndInv, SfoEndInv DEF Return
  <2>2. ppc' = "idle" /\ spc' = "idle"
    BY <1>3 DEF Return, SetupEnd, SfoEnd
  <2>. QED
    BY <2>1, <2>2 DEF IInv, Linked
<1>4. CASE Setup
  <2>1. UrlInv' /\ PieceInv' /\ SfoInv'
    BY <1>0, <1>4, UrlsStutter, PiecesStepInv, SfoStutter DEF Setup
  <2>2. job' = job /\ spc' = spc /\ ppc \notin {"idle", "done"} /\ ppc' # "idle" /\ count' = count
    BY <1>4, SetupInside DEF Setup, uvars, svars
  <2>. QED
    BY <1>0, <2>1, <2>2 DEF IInv, Linked
<1>5. CASE StartSfo
  <2>1. UrlInv' /\ PieceInv' /\ SfoInv'
    BY <1>0, <1>5, UrlsStutter, PiecesStutter, SfoAllocInv DEF StartSfo
  <2>2. job' = job /\ ppc = "done" /\ ppc' = ppc /\ count' = count
    BY <1>5 DEF StartSfo, uvars, pvars
  <2>. QED
    BY <1>0, <2>1, <2>2 DEF IInv, Linked
<1>6. CASE Sfo
  <2>1. UrlInv' /\ PieceInv' /\ SfoInv'
    BY <1>0, <1>6, UrlsStutter, PiecesStutter, SfoStepInv DEF Sfo
  <2>2. job' = job /\ spc # "idle" /\ ppc' = ppc /\ count' = count
    BY <1>6, SfoInside DEF Sfo, uvars, pvars
  <2>. QED
    BY <1>0, <2>1, <2>2 DEF IInv, Linked
<1>7. CASE UNCHANGED vars
  <2>1. UrlInv' /\ PieceInv' /\ SfoInv'
    BY <1>0, <1>7, UrlsStutter, PiecesStutter, SfoStutter DEF vars
  <2>2. job' = job /\ spc' = spc /\ ppc' = ppc /\ count' = count
    BY <1>7 DEF vars, uvars, pvars, svars
  <2>. QED
    BY <1>0, <2>1, <2>2 DEF IInv, Linked
<1>. QED
  BY <1>1, <1>2, <1>3, <1>4, <1>5, <1>6, <1>7 DEF Next

\* The inductive invariant of an install holds in every state.
THEOREM Invariant == ASSUME OneThread PROVE Spec => []IInv
BY InitIInv, StepIInv, PTL DEF Spec

-------------------------------------------------------------------------------
(* The invariants *)

\* Encoding keeps the text of a URL and leaves no character that had to be encoded.
LEMMA StoredKeeps ==
  ASSUME NEW e
  PROVE  /\ http_unescape_uri(Stored(e)) = http_unescape_uri(e.path)
         /\ \A c \in Range(Stored(e)) : c.c \in Safe \/ c.esc
<1>. DEFINE p == http_unescape_uri(e.path)
<1>1. /\ DOMAIN p = DOMAIN e.path
      /\ \A k \in DOMAIN p : p[k] = Char(e.path[k].c) /\ p[k].c = e.path[k].c
  BY DEF http_unescape_uri, Char
<1>2. /\ DOMAIN Stored(e) = DOMAIN e.path
      /\ \A k \in DOMAIN e.path :
           Stored(e)[k] = IF p[k].c \in Safe THEN Char(p[k].c) ELSE Escape(p[k].c)
  BY <1>1 DEF Stored, url_encode
<1>3. \A k \in DOMAIN e.path : /\ Stored(e)[k].c = e.path[k].c
                               /\ Stored(e)[k].c \in Safe \/ Stored(e)[k].esc
  <2>. SUFFICES ASSUME NEW k \in DOMAIN e.path
                PROVE  /\ Stored(e)[k].c = e.path[k].c
                       /\ Stored(e)[k].c \in Safe \/ Stored(e)[k].esc
    OBVIOUS
  <2>1. p[k].c = e.path[k].c
    BY <1>1
  <2>. HIDE DEF p
  <2>2. CASE p[k].c \in Safe
    <3>1. Stored(e)[k] = Char(p[k].c)
      BY <1>2, <2>2
    <3>. QED
      BY <3>1, <2>1, <2>2 DEF Char
  <2>3. CASE p[k].c \notin Safe
    <3>1. Stored(e)[k] = Escape(p[k].c)
      BY <1>2, <2>3
    <3>2. Escape(p[k].c).c = p[k].c /\ Escape(p[k].c).esc = TRUE
      BY DEF Escape
    <3>. QED
      BY <3>1, <3>2, <2>1
  <2>. QED
    BY <2>2, <2>3
<1>4. http_unescape_uri(Stored(e)) = http_unescape_uri(e.path)
  BY <1>2, <1>3 DEF http_unescape_uri
<1>5. \A c \in Range(Stored(e)) : \E k \in DOMAIN e.path : c = Stored(e)[k]
  BY <1>2 DEF Range
<1>. QED
  BY <1>3, <1>4, <1>5

\* UrlsKept: up to percent-encoding the URLs an install works with are those of its
\* request, in their order, and encoded, for lists of any length over any characters.
THEOREM UrlsOfRequest == ASSUME OneThread PROVE Spec => []UrlsKept
<1>1. IInv => UrlsKept
  BY Handed, StoredKeeps DEF IInv, UrlsKept
<1>. QED
  BY <1>1, Invariant, PTL

\* PiecesTile: the piece table of the reference JSON is a partition of the package unless
\* a piece ends beyond the largest word, for words of any width, any number of pieces and
\* any lengths the hosts claim.
THEOREM TableIsPartition == ASSUME OneThread PROVE Spec => []PiecesTile
<1>1. IInv => PiecesTile
  BY TableTiles DEF IInv
<1>. QED
  BY <1>1, Invariant, PTL

LEMMA UrlsTyped == UrlInv => UrlsTypeOK
<1>. SUFFICES ASSUME UrlInv PROVE UrlsTypeOK
  OBVIOUS
<1>1. ASSUME NEW t \in Threads
      PROVE  /\ job[t].pc \in {"idle", "fetch", "alloc", "parse", "check", "array", "encode",
                               "handed", "err"}
             /\ job[t].kind \in {"none", "direct", "ref"}
             /\ job[t].i \in 1..(MaxPieces + 1) /\ job[t].count \in 0..MaxPieces
             /\ Len(job[t].text) <= MaxPieces
             /\ job[t].live \subseteq {"ref", "data", "pool", "unescaped", "array"}
             /\ job[t].cells \subseteq 1..MaxPieces
             /\ job[t].cells # {} => "array" \in job[t].live
             /\ job[t].root \in 0..Len(trees)
  <2>1. job[t] \in Job /\ JobOK(job[t])
    BY JobNow
  <2>2. /\ job[t].pc \in {"idle", "fetch", "alloc", "parse", "check", "array", "encode",
                          "handed", "err"}
        /\ job[t].kind \in {"none", "direct", "ref"}
        /\ job[t].i \in 1..(MaxPieces + 1) /\ job[t].count \in 0..MaxPieces
        /\ job[t].live \subseteq {"ref", "data", "pool", "unescaped", "array"}
        /\ job[t].cells \subseteq 1..MaxPieces /\ job[t].root \in Nat
    BY <2>1 DEF Job
  <2>3. Len(job[t].text) <= MaxPieces /\ job[t].root <= Len(trees)
    BY <2>1 DEF JobOK
  <2>4. job[t].cells # {} => "array" \in job[t].live
    BY <2>1, <2>2 DEF JobOK, Fresh, StoredSoFar
  <2>5. job[t].root \in 0..Len(trees)
    BY <2>2, <2>3 DEF UrlInv, UrlTypes
  <2>. QED
    BY <2>2, <2>3, <2>4, <2>5
<1>2. \A k \in 1..Len(trees) : trees[k].no \in 0..MaxInstalls
  <2>1. \A k \in 1..Len(trees) : trees[k] \in Tree
    BY DEF UrlInv, UrlTypes
  <2>. QED
    BY <2>1 DEF Tree
<1>3. /\ DOMAIN job = Threads /\ pool \in 0..Len(trees) /\ installs \in 0..MaxInstalls
      /\ fault = {}
  BY DEF UrlInv, UrlTypes
<1>. QED
  BY <1>1, <1>2, <1>3 DEF UrlsTypeOK

LEMMA ListIsLive == SfoInv => ListLive
<1>. SUFFICES ASSUME SfoInv PROVE ListLive
  OBVIOUS
<1>0. at \in Nat /\ Len(file) \in Nat /\ Len(file) <= MaxEntries /\ MaxEntries \in Nat
  BY SfoTableAssumption DEF SfoInv, SfoTypeOK
<1>1. ASSUME spc = "free", el # 0 PROVE {el} \X Part \subseteq parts /\ el = head
  <2>1. el \in 1..(at - 1) /\ Chain(el, at - 1) /\ parts = PartsOf(el, at - 1)
    BY <1>1 DEF SfoInv, SfoFreeing
  <2>2. el \in el..(at - 1) /\ el <= at - 1
    BY <2>1, <1>0
  <2>. QED
    BY <2>1, <2>2 DEF Chain, PartsOf
<1>2. ASSUME spc \in {"title", "cid"}, NEW n \in 0..MaxEntries, Walk[n] # 0
      PROVE  {Walk[n]} \X Part \subseteq parts
  <2>1. /\ Chain(1, at - 1) /\ parts = PartsOf(1, at - 1) /\ at = Len(file) + 1
    BY <1>2 DEF SfoInv, SfoLoading
  <2>2. at - 1 \in 0..MaxEntries
    BY <2>1, <1>0
  <2>3. Walk[n] = IF n < at - 1 THEN n + 1 ELSE 0
    BY <2>1, <2>2, WalkIsOrder
  <2>4. Walk[n] \in 1..(at - 1)
    BY <2>2, <2>3, <1>0, <1>2
  <2>. QED
    BY <2>1, <2>4 DEF PartsOf
<1>. QED
  BY <1>1, <1>2 DEF ListLive

\* InstallMemorySafe: no text is read after it was freed, no URL stored behind its array,
\* no entry of the param.sfo followed or freed after its time, for files and lists of any
\* length.
THEOREM MemorySafe == ASSUME OneThread PROVE Spec => []InstallMemorySafe
<1>1. IInv => InstallMemorySafe
  <2>. SUFFICES ASSUME IInv PROVE InstallMemorySafe
    OBVIOUS
  <2>1. PiecesTypeOK /\ SfoTypeOK
    BY DEF IInv, PieceInv, SfoInv
  <2>2. UrlMemorySafe
    BY DEF IInv, UrlInv, UrlTypes, UrlMemorySafe
  <2>. QED
    BY <2>1, <2>2, UrlsTyped, ListIsLive DEF IInv, InstallMemorySafe
<1>. QED
  BY <1>1, Invariant, PTL

\* OnlyKnownLosses: an install loses the pool of its reference JSON and the entries before
\* one that cannot be read, nothing else and on no other path, for lists and files of any
\* length; all other memory is given back, and only an install that came to its
\* registration leaves files.
THEOREM LossesAreKnown == ASSUME OneThread PROVE Spec => []OnlyKnownLosses
<1>1. IInv => OnlyKnownLosses
  <2>. SUFFICES ASSUME IInv PROVE OnlyKnownLosses
    OBVIOUS
  <2>1. UrlsLost
    BY JobNow DEF IInv, UrlsLost, JobOK, Fresh
  <2>2. SetupLeavesClean
    BY DEF IInv, PieceInv, PieceFiles, SetupLeavesClean
  <2>3. EntriesLost
    BY DEF IInv, SfoInv, SfoFreeing, EntriesLost, Lost, PartsOf
  <2>. QED
    BY <2>1, <2>2, <2>3 DEF OnlyKnownLosses
<1>. QED
  BY <1>1, Invariant, PTL

\* DescribedWhole: the download service is told of all the pieces that were asked for, with
\* the metadata of their param.sfo.
THEOREM Described == ASSUME OneThread PROVE Spec => []DescribedWhole
<1>1. IInv => DescribedWhole
  <2>. SUFFICES ASSUME IInv PROVE DescribedWhole
    OBVIOUS
  <2>1. DescribedByFile
    BY DEF IInv, SfoInv, SfoTold, DescribedByFile, TitleOfFile
  <2>2. ASSUME NEW t \in Threads, told
        PROVE  /\ Len(pieces) = Len(job[t].text) /\ job[t].cells = 1..Len(pieces)
               /\ "json" \in files
    <3>1. ppc = "done" /\ job[t].pc = "handed" /\ count = Len(job[t].urls)
      BY <2>2 DEF IInv, SfoInv, SfoTold, Linked
    <3>2. Len(pieces) = count /\ "json" \in files
      BY <3>1 DEF IInv, PieceInv, PieceTable, PieceFiles
    <3>. QED
      BY <3>1, <3>2, Handed DEF IInv
  <2>. QED
    BY <2>1, <2>2 DEF DescribedWhole
<1>. QED
  BY <1>1, Invariant, PTL


-------------------------------------------------------------------------------
(* The end of an install *)

\* How many steps an install can still take in each of its parts.
UrlsLeft(j) ==
  CASE j.pc = "fetch"  -> 2 * MaxPieces + 9
    [] j.pc = "alloc"  -> 2 * MaxPieces + 8
    [] j.pc = "parse"  -> 2 * MaxPieces + 7
    [] j.pc = "check"  -> 2 * MaxPieces + 7 - j.i
    [] j.pc = "array"  -> MaxPieces + 4
    [] j.pc = "encode" -> MaxPieces + 4 - j.i
    [] j.pc = "handed" -> 2
    [] j.pc = "err"    -> 1
    [] OTHER           -> 0

SetupLeft ==
  CASE ppc = "idle"      -> MaxCount + 13
    [] ppc = "clear"     -> MaxCount + 12
    [] ppc = "header"    -> MaxCount + 11
    [] ppc = "size"      -> MaxCount + 10
    [] ppc = "table"     -> MaxCount + 9
    [] ppc = "sfo"       -> MaxCount + 8
    [] ppc = "icon"      -> MaxCount + 7
    [] ppc = "open"      -> MaxCount + 6
    [] ppc = "piece"     -> count - Len(pieces) + 5
    [] ppc = "writesfo"  -> 4
    [] ppc = "writeicon" -> 3
    [] ppc = "close"     -> 2
    [] ppc = "err"       -> 1
    [] OTHER             -> 0

SfoLeft ==
  CASE spc = "idle"  -> 2 * MaxEntries + 7
    [] spc = "alloc" -> 2 * MaxEntries + 6
    [] spc = "open"  -> 2 * MaxEntries + 5
    [] spc = "entry" -> 2 * MaxEntries + 5 - at
    [] spc = "title" -> MaxEntries + 3
    [] spc = "cid"   -> MaxEntries + 2
    [] spc = "free"  -> IF el = 0 THEN 1 ELSE MaxEntries + 2 - el
    [] OTHER         -> 0

StepsLeft(t) ==
  IF job[t].pc = "idle" THEN 0 ELSE UrlsLeft(job[t]) + SetupLeft + SfoLeft

MaxSteps == 2 * MaxPieces + MaxCount + 2 * MaxEntries + 29

\* Every step brings an install that is under way nearer to its end.
StepsCount ==
  \A t \in Threads : /\ StepsLeft(t) \in 0..MaxSteps
                     /\ job[t].pc # "idle" => StepsLeft(t)' < StepsLeft(t)

LEMMA UrlsBound ==
  ASSUME UrlInv, NEW t \in Threads
  PROVE  UrlsLeft(job[t]) \in 0..(2 * MaxPieces + 9)
<1>1. job[t].i \in 1..(MaxPieces + 1) /\ MaxPieces \in Nat \ {0}
  BY JobNow, PieceUrlsAssumption DEF Job
<1>. QED
  BY <1>1 DEF UrlsLeft

\* Where a step of reading the URLs leads to; the lists are gone through by i.
LEMMA UrlsMoves ==
  ASSUME UrlInv, NEW t \in Threads, UrlsStep(t), job[t].pc # "idle"
  PROVE  LET a == job[t]  b == job'[t] IN
         \/ b.pc = "idle"
         \/ a.pc \notin {"idle", "handed", "err"} /\ b.pc = "err"
         \/ a.pc = "fetch" /\ b.pc = "alloc"
         \/ a.pc = "alloc" /\ b.pc = "parse"
         \/ a.pc = "parse" /\ b.pc = "check" /\ b.i = a.i
         \/ a.pc = "check" /\ b.pc = "check" /\ b.i = a.i + 1
         \/ a.pc = "check" /\ b.pc = "array"
         \/ a.pc = "array" /\ b.pc = "encode" /\ b.i = 1
         \/ a.pc = "encode" /\ b.pc = "encode" /\ b.i = a.i + 1
         \/ a.pc = "encode" /\ b.pc = "handed"
<1>1. job \in [Threads -> Job] /\ job[t] \in Job
  BY DEF UrlInv, UrlTypes
<1>2. CASE (\E text \in Texts : Download(t, text)) \/ DownloadFails(t)
  <2>1. CASE DownloadFails(t)
    BY <1>1, <2>1 DEF DownloadFails, Goto, Job
  <2>2. ASSUME NEW text \in Texts, Download(t, text)
        PROVE  job[t].pc = "fetch" /\ job'[t].pc = "alloc"
    BY <1>1, <2>2 DEF Download, Job
  <2>. QED
    BY <1>2, <2>1, <2>2
<1>3. CASE NewPool(t) \/ NewPoolFails(t)
  BY <1>1, <1>3 DEF NewPool, NewPoolFails, Goto, Job
<1>4. CASE ParseJson(t) \/ ParseFails(t)
  BY <1>1, <1>4 DEF ParseJson, ParseFails, Goto, Job
<1>5. CASE Check(t) \/ CheckFails(t) \/ CheckDone(t)
  BY <1>1, <1>5 DEF Check, CheckFails, CheckDone, Goto, Job
<1>6. CASE NewArray(t) \/ NewArrayFails(t)
  BY <1>1, <1>6 DEF NewArray, NewArrayFails, Goto, Job
<1>7. CASE Encode(t) \/ EncodeFails(t) \/ EncodeDone(t)
  BY <1>1, <1>7 DEF Encode, EncodeFails, EncodeDone, Goto, Job
<1>8. CASE Failed(t)
  BY <1>1, <1>8 DEF Failed, Freed, NoJob
<1>9. CASE (\E text \in Texts : Direct(t, text)) \/ RefPkgUrl(t)
  BY <1>9 DEF Direct, RefPkgUrl
<1>. QED
  BY <1>2, <1>3, <1>4, <1>5, <1>6, <1>7, <1>8, <1>9 DEF UrlsStep

LEMMA UrlsLower ==
  ASSUME UrlInv, NEW t \in Threads, UrlsStep(t), job[t].pc # "idle"
  PROVE  job'[t].pc = "idle" \/ UrlsLeft(job'[t]) < UrlsLeft(job[t])
<1>1. job[t].i \in 1..(MaxPieces + 1) /\ MaxPieces \in Nat \ {0}
      /\ job[t].pc \in {"fetch", "alloc", "parse", "check", "array", "encode", "handed", "err"}
  BY JobNow, PieceUrlsAssumption DEF Job
<1>. QED
  BY <1>1, UrlsMoves DEF UrlsLeft

LEMMA SetupBound ==
  ASSUME PieceInv
  PROVE  SetupLeft \in 0..(MaxCount + 13)
<1>1. Len(pieces) \in Nat /\ count \in 0..MaxCount /\ MaxCount \in Nat
  BY PackagePiecesAssumption DEF PieceInv, PiecesTypeOK
<1>2. ppc = "piece" => Len(pieces) <= count
  <2>1. ppc = "piece" /\ pieces # <<>> => Len(pieces) <= count
    BY DEF PieceInv, PieceTable, Table
  <2>2. Len(<<>>) = 0
    OBVIOUS
  <2>. QED
    BY <1>1, <2>1, <2>2
<1>3. CASE ppc = "piece"
  <2>1. SetupLeft = count - Len(pieces) + 5
    BY <1>3 DEF SetupLeft
  <2>. QED
    BY <1>1, <1>2, <1>3, <2>1
<1>4. CASE ppc # "piece"
  <2>1. \/ \E n \in 6..13 : SetupLeft = MaxCount + n
        \/ \E n \in 0..4 : SetupLeft = n
    <3>1. CASE ppc \in {"idle", "clear", "header", "size", "table", "sfo", "icon", "open"}
      <4>1. \/ SetupLeft = MaxCount + 13 \/ SetupLeft = MaxCount + 12
            \/ SetupLeft = MaxCount + 11 \/ SetupLeft = MaxCount + 10
            \/ SetupLeft = MaxCount + 9 \/ SetupLeft = MaxCount + 8
            \/ SetupLeft = MaxCount + 7 \/ SetupLeft = MaxCount + 6
        BY <3>1 DEF SetupLeft
      <4>. QED
        BY <4>1
    <3>2. CASE ppc \notin {"idle", "clear", "header", "size", "table", "sfo", "icon", "open"}
      <4>1. \/ SetupLeft = 4 \/ SetupLeft = 3 \/ SetupLeft = 2 \/ SetupLeft = 1
            \/ SetupLeft = 0
        BY <1>4, <3>2 DEF SetupLeft
      <4>. QED
        BY <4>1
    <3>. QED
      BY <3>1, <3>2
  <2>. QED
    BY <1>1, <2>1
<1>. QED
  BY <1>3, <1>4

LEMMA SetupLower ==
  ASSUME PieceInv, PiecesStep
  PROVE  SetupLeft' < SetupLeft
<1>1. /\ Len(pieces) \in Nat /\ count \in 0..MaxCount /\ MaxCount \in Nat
      /\ ppc \in {"idle", "clear", "header", "size", "table", "sfo", "icon", "open", "piece",
                  "writesfo", "writeicon", "close", "err", "done", "failed"}
      /\ pieces \in Seq([at : 0..NoLen, size : 0..NoLen])
  BY PackagePiecesAssumption DEF PieceInv, PiecesTypeOK
<1>2. ppc = "piece" => Len(pieces) <= count
  <2>1. ppc = "piece" /\ pieces # <<>> => Len(pieces) <= count
    BY DEF PieceInv, PieceTable, Table
  <2>2. Len(<<>>) = 0
    OBVIOUS
  <2>. QED
    BY <1>1, <2>1, <2>2
<1>3. ASSUME ppc' = "err", ppc \notin {"idle", "err", "done", "failed"}
      PROVE  SetupLeft' < SetupLeft
  BY <1>1, <1>2, <1>3, SMTT(30) DEF SetupLeft
<1>4. CASE Clear \/ FetchHeader \/ CheckSize \/ FetchTable
  BY <1>1, <1>4 DEF SetupLeft, Clear, FetchHeader, CheckSize, FetchTable
<1>5. CASE FetchHeaderFails \/ CheckSizeFails \/ FetchTableFails \/ FetchSfoFails
           \/ FetchIconFails \/ OpenJsonFails \/ PieceFails \/ SumFails \/ WriteFails
  <2>1. ppc' = "err" /\ ppc \notin {"idle", "err", "done", "failed"}
    BY <1>5 DEF FetchHeaderFails, CheckSizeFails, FetchTableFails, FetchSfoFails,
                FetchIconFails, OpenJsonFails, PieceFails, SumFails, WriteFails, Abandon, CloseFailed
  <2>. QED
    BY <1>3, <2>1
<1>6. CASE FetchSfo \/ FetchIcon
  BY <1>1, <1>6 DEF SetupLeft, FetchSfo, FetchIcon
<1>7. CASE OpenJson
  <2>1. ppc = "open" /\ ppc' = "piece" /\ count' = count /\ pieces' = pieces
    BY <1>7 DEF OpenJson
  <2>2. SetupLeft = MaxCount + 6 /\ SetupLeft' = count - Len(pieces) + 5
    BY <2>1 DEF SetupLeft
  <2>. QED
    BY <1>1, <2>2
<1>8. CASE Piece
  <2>1. /\ ppc = "piece" /\ ppc' = ppc /\ count' = count /\ Len(pieces) < count
    BY <1>8 DEF Piece
  <2>2. Len(pieces') = Len(pieces) + 1
    <3>1. PICK size \in 0..NoLen : WritePiece(size)
      BY <1>8, Words DEF Piece, PieceInv, PiecesTypeOK
    <3>2. [at |-> offset, size |-> size] \in [at : 0..NoLen, size : 0..NoLen]
      BY DEF PieceInv, PiecesTypeOK
    <3>. QED
      BY <1>1, <3>1, <3>2, AppendProperties DEF WritePiece
  <2>3. SetupLeft = count - Len(pieces) + 5 /\ SetupLeft' = count - Len(pieces') + 5
    BY <2>1 DEF SetupLeft
  <2>. QED
    BY <1>1, <2>2, <2>3
<1>9. CASE Sum \/ WriteSfo \/ WriteIcon \/ SetupReturn
  BY <1>1, <1>9 DEF SetupLeft, Sum, WriteSfo, WriteIcon, SetupReturn
<1>. QED
  BY <1>4, <1>5, <1>6, <1>7, <1>8, <1>9 DEF PiecesStep

LEMMA SfoBound ==
  ASSUME SfoInv
  PROVE  SfoLeft \in 0..(2 * MaxEntries + 7)
<1>1. at \in 1..(MaxEntries + 1) /\ el \in 0..MaxEntries /\ MaxEntries \in Nat
  BY SfoTableAssumption DEF SfoInv, SfoTypeOK
<1>. QED
  BY <1>1 DEF SfoLeft

LEMMA SfoLower ==
  ASSUME SfoInv, SfoStep
  PROVE  SfoLeft' < SfoLeft
<1>1. /\ at \in 1..(MaxEntries + 1) /\ {head, el} \subseteq 0..MaxEntries /\ MaxEntries \in Nat
      /\ spc \in {"idle", "alloc", "open", "entry", "title", "cid", "free", "done"}
  BY SfoTableAssumption DEF SfoInv, SfoTypeOK
<1>2. ASSUME NEW list \in 0..MaxEntries, Throw(list), spc \in {"open", "entry", "title", "cid"}
      PROVE  SfoLeft' < SfoLeft
  BY <1>1, <1>2 DEF SfoLeft, Throw
<1>3. CASE SfoAlloc \/ SfoAllocFails \/ \E f \in SfoFiles : ReadSfo(f)
  BY <1>1, <1>3 DEF SfoLeft, SfoAlloc, SfoAllocFails, ReadSfo
<1>4. CASE ReadSfoFails \/ LoadEntryFails
  BY <1>1, <1>2, <1>4 DEF ReadSfoFails, LoadEntryFails
<1>5. CASE LoadEntry \/ LoadDone
  BY <1>1, <1>5 DEF SfoLeft, LoadEntry, LoadDone
<1>6. CASE GetTitle
  BY <1>1, <1>6 DEF SfoLeft, GetTitle
<1>7. CASE GetTitleFails \/ GetContentId \/ GetContentIdFails
  BY <1>1, <1>2, <1>7 DEF GetTitleFails, GetContentId, GetContentIdFails
<1>8. CASE FreeEntry
  <2>1. spc = "free" /\ spc' = spc /\ el # 0 /\ el' = nxt[el]
    BY <1>8 DEF FreeEntry
  <2>2. el \in 1..(at - 1) /\ Chain(el, at - 1)
    BY <2>1 DEF SfoInv, SfoFreeing
  <2>3. el' = 0 \/ el' = el + 1
    BY <1>1, <2>1, <2>2 DEF Chain
  <2>. QED
    BY <1>1, <2>1, <2>3 DEF SfoLeft
<1>9. CASE FreeSfo
  BY <1>1, <1>9 DEF SfoLeft, FreeSfo
<1>. QED
  BY <1>3, <1>4, <1>5, <1>6, <1>7, <1>8, <1>9 DEF SfoStep

\* The count is lowered by every step while an install is under way, for lists, tables
\* and files of any size: an install takes at most MaxSteps steps.  It is what
\* InstallEnds needs besides a thread that is scheduled.
THEOREM InstallShortens == ASSUME OneThread PROVE Spec => [][StepsCount]_vars
<1>. DEFINE Bounded ==
       /\ \A t \in Threads : UrlsLeft(job[t]) \in 0..(2 * MaxPieces + 9)
       /\ SetupLeft \in 0..(MaxCount + 13)
       /\ SfoLeft \in 0..(2 * MaxEntries + 7)
<1>0. MaxPieces \in Nat /\ MaxCount \in Nat /\ MaxEntries \in Nat
  BY PieceUrlsAssumption, PackagePiecesAssumption, SfoTableAssumption
<1>1. (IInv => Bounded) /\ (IInv' => Bounded')
  <2>1. IInv => Bounded
    BY UrlsBound, SetupBound, SfoBound DEF IInv
  <2>. QED
    BY <2>1, PTL
<1>2. ASSUME IInv, NEW t \in Threads PROVE StepsLeft(t) \in 0..MaxSteps
  BY <1>0, <1>1, <1>2 DEF StepsLeft, MaxSteps
<1>3. ASSUME IInv, IInv', Next, NEW t \in Threads, job[t].pc # "idle"
      PROVE  StepsLeft(t)' < StepsLeft(t)
  <2>1. StepsLeft(t) = UrlsLeft(job[t]) + SetupLeft + SfoLeft
    BY <1>3 DEF StepsLeft
  <2>2. /\ UrlsLeft(job[t]) \in Nat \ {0} /\ SetupLeft \in Nat /\ SfoLeft \in Nat
        /\ UrlsLeft(job[t])' \in Nat /\ SetupLeft' \in Nat /\ SfoLeft' \in Nat
    <3>1. UrlsLeft(job[t]) \in Nat /\ SetupLeft \in Nat /\ SfoLeft \in Nat
      BY <1>0, <1>1, <1>3
    <3>2. UrlsLeft(job[t])' \in Nat /\ SetupLeft' \in Nat /\ SfoLeft' \in Nat
      BY <1>0, <1>1, <1>3
    <3>3. UrlsLeft(job[t]) # 0
      <4>1. job[t].i \in 1..(MaxPieces + 1)
            /\ job[t].pc \in {"fetch", "alloc", "parse", "check", "array", "encode", "handed",
                             "err"}
        BY <1>3, JobNow DEF IInv, Job
      <4>. QED
        BY <1>0, <4>1 DEF UrlsLeft
    <3>. QED
      BY <3>1, <3>2, <3>3
  <2>3. \A u \in Threads : u = t
    BY <1>3 DEF IInv, UrlInv, OneThread
  <2>4. job'[t].pc = "idle" => StepsLeft(t)' = 0
    BY DEF StepsLeft
  <2>5. job'[t].pc # "idle" => StepsLeft(t)' = UrlsLeft(job'[t]) + SetupLeft' + SfoLeft'
    BY DEF StepsLeft
  <2>6. CASE ReadUrls(t)
    <3>1. SetupLeft' = SetupLeft /\ SfoLeft' = SfoLeft
      BY <2>6 DEF ReadUrls, SetupLeft, SfoLeft, pvars, svars
    <3>2. job'[t].pc = "idle" \/ UrlsLeft(job'[t]) < UrlsLeft(job[t])
      BY <1>3, <2>6, UrlsLower DEF IInv, ReadUrls
    <3>. QED
      BY <2>1, <2>2, <2>4, <2>5, <3>1, <3>2
  <2>7. CASE StartSetup(t)
    <3>1. job' = job /\ SfoLeft' = SfoLeft /\ ppc = "idle" /\ ppc' = "clear"
      BY <2>7 DEF StartSetup, SetupBegin, SfoLeft, uvars, svars
    <3>2. SetupLeft' < SetupLeft
      BY <3>1, PackagePiecesAssumption DEF SetupLeft
    <3>. QED
      BY <1>3, <2>1, <2>2, <2>5, <3>1, <3>2
  <2>8. CASE Return(t)
    <3>1. job'[t].pc = "idle"
      BY <1>3, <2>8 DEF Return, Release, Freed, NoJob, IInv, UrlInv, UrlTypes
    <3>. QED
      BY <2>1, <2>2, <2>4, <3>1
  <2>9. CASE Setup
    <3>1. job' = job /\ SfoLeft' = SfoLeft
      BY <2>9 DEF Setup, SfoLeft, uvars, svars
    <3>2. SetupLeft' < SetupLeft
      BY <1>3, <2>9, SetupLower DEF IInv, Setup
    <3>. QED
      BY <1>3, <2>1, <2>2, <2>5, <3>1, <3>2
  <2>10. CASE StartSfo
    <3>1. job' = job /\ SetupLeft' = SetupLeft /\ spc = "idle" /\ spc' = "alloc"
      BY <2>10 DEF StartSfo, SfoBegin, SetupLeft, uvars, pvars
    <3>2. SfoLeft' < SfoLeft
      BY <3>1, SfoTableAssumption DEF SfoLeft
    <3>. QED
      BY <1>3, <2>1, <2>2, <2>5, <3>1, <3>2
  <2>11. CASE Sfo
    <3>1. job' = job /\ SetupLeft' = SetupLeft
      BY <2>11 DEF Sfo, SetupLeft, uvars, pvars
    <3>2. SfoLeft' < SfoLeft
      BY <1>3, <2>11, SfoLower DEF IInv, Sfo
    <3>. QED
      BY <1>3, <2>1, <2>2, <2>5, <3>1, <3>2
  <2>. QED
    BY <1>3, <2>3, <2>6, <2>7, <2>8, <2>9, <2>10, <2>11 DEF Next
<1>4. IInv /\ IInv' /\ [Next]_vars => [StepsCount]_vars
  BY <1>2, <1>3 DEF StepsCount
<1>. QED
  BY <1>4, Invariant, PTL DEF Spec

-------------------------------------------------------------------------------
(* PieceUrls, with any number of threads *)

\* The list a direct install goes through is on its own stack: what it has counted and
\* stored is its own, whatever happens to the shared pool.
OwnList(j) ==
  /\ j.pc = "check" => j.i <= Len(j.text) + 1 /\ j.urls = <<>>
  /\ j.pc = "array" => j.count = Len(j.text) /\ j.urls = <<>>
  /\ j.pc \in {"encode", "handed"} =>
       /\ j.count = Len(j.text) /\ j.i <= Len(j.text) + 1 /\ Len(j.urls) = j.i - 1
       /\ \A k \in 1..Len(j.urls) : j.urls[k] = Stored(j.text[k])
  /\ j.pc = "handed" => j.i = Len(j.text) + 1

\* What is true of every job, n pools being allocated.
JobAny(j, n) ==
  /\ Len(j.text) <= MaxPieces
  /\ j.pc \in {"idle", "fetch", "alloc", "parse"} => j.i = 1 /\ j.count = 0 /\ j.urls = <<>>
  /\ j.pc \in {"fetch", "alloc", "parse"} => j.kind = "ref"
  /\ j.pc \in {"check", "array", "encode"} => j.kind = "direct" \/ j.root \in 1..n
  /\ j.pc = "check" => j.count = j.i - 1
  /\ j.kind = "direct" => OwnList(j)

TreesAny ==
  /\ trees \in Seq(Tree) /\ \A k \in 1..Len(trees) : Len(trees[k].list) <= MaxPieces
  /\ pool \in 0..Len(trees)

ManyInv ==
  /\ job \in [Threads -> Job] /\ installs \in 0..MaxInstalls /\ TreesAny
  /\ \A t \in Threads : JobAny(job[t], Len(trees))

\* UrlsKept of the installs whose list came with the request.
DirectUrlsKept ==
  \A t \in Threads : job[t].pc = "handed" /\ job[t].kind = "direct" =>
    /\ Len(job[t].urls) = Len(job[t].text)
    /\ \A k \in 1..Len(job[t].urls) :
         /\ http_unescape_uri(job[t].urls[k]) = http_unescape_uri(job[t].text[k].path)
         /\ \A c \in Range(job[t].urls[k]) : c.c \in Safe \/ c.esc

\* They read no freed text and write behind no array.
DirectIsSafe ==
  \A t \in Threads : job[t].kind = "direct" /\ (UrlsStep(t) \/ Release(t)) => fault' = fault

\* A thread's step keeps it if its own job does: no pool goes away.
LEMMA ManyStep ==
  ASSUME ManyInv, NEW t \in Threads, NEW j \in Job, job' = [job EXCEPT ![t] = j],
         TreesAny', Len(trees') >= Len(trees), installs' \in 0..MaxInstalls,
         JobAny(j, Len(trees'))
  PROVE  ManyInv'
<1>1. /\ job' \in [Threads -> Job] /\ job'[t] = j
      /\ \A u \in Threads \ {t} : job'[u] = job[u]
  BY DEF ManyInv
<1>2. Len(trees) \in Nat /\ Len(trees') \in Nat
  BY DEF ManyInv, TreesAny
<1>3. ASSUME NEW u \in Threads PROVE JobAny(job[u], Len(trees))'
  <2>1. CASE u = t
    BY <1>1, <2>1
  <2>2. CASE u # t
    <3>1. job'[u] = job[u] /\ JobAny(job[u], Len(trees))
      BY <1>1, <2>2 DEF ManyInv
    <3>2. JobAny(job[u], Len(trees'))
      BY <1>2, <3>1 DEF JobAny
    <3>. QED
      BY <3>1, <3>2
  <2>. QED
    BY <2>1, <2>2
<1>. QED
  BY <1>1, <1>3 DEF ManyInv

\* The same when the pools are left alone.
LEMMA ManyStepSame ==
  ASSUME ManyInv, NEW t \in Threads, NEW j \in Job, job' = [job EXCEPT ![t] = j],
         trees' = trees, pool' = pool, installs' \in 0..MaxInstalls, JobAny(j, Len(trees))
  PROVE  ManyInv'
<1>1. TreesAny' /\ Len(trees') >= Len(trees)
  BY DEF ManyInv, TreesAny
<1>. QED
  BY <1>1, ManyStep

LEMMA ManyNow ==
  ASSUME ManyInv, NEW t \in Threads
  PROVE  /\ job[t] \in Job /\ JobAny(job[t], Len(trees)) /\ installs \in 0..MaxInstalls
         /\ installs < MaxInstalls => installs + 1 \in 0..MaxInstalls
         /\ MaxPieces \in Nat /\ Len(job[t].text) \in Nat /\ job[t].i \in Nat /\ job[t].count \in Nat
<1>1. job[t] \in Job /\ MaxPieces \in Nat
  BY PieceUrlsAssumption DEF ManyInv
<1>2. Len(job[t].text) \in Nat /\ job[t].i \in Nat /\ job[t].count \in Nat
  BY <1>1 DEF Job
<1>. QED
  BY <1>1, <1>2, PieceUrlsAssumption DEF ManyInv

\* The list of a thread that reads one: its own, or what is in the pool by now.
LEMMA ListAny ==
  ASSUME ManyInv, NEW t \in Threads, job[t].pc \in {"check", "array", "encode"}
  PROVE  /\ List(t) \in Seq(Elements) /\ Len(List(t)) \in Nat /\ Len(List(t)) <= MaxPieces
         /\ job[t].kind = "direct" => List(t) = job[t].text /\ TextLive(t)
<1>1. job[t] \in Job /\ JobAny(job[t], Len(trees))
  BY ManyNow
<1>2. CASE job[t].kind = "direct"
  <2>1. List(t) = job[t].text /\ TextLive(t)
    BY <1>2 DEF List, TextLive
  <2>2. job[t].text \in Seq(Elements) /\ Len(job[t].text) <= MaxPieces
    BY <1>1 DEF Job, JobAny
  <2>. QED
    BY <2>1, <2>2
<1>3. CASE job[t].kind # "direct"
  <2>1. List(t) = trees[job[t].root].list /\ job[t].root \in 1..Len(trees)
    BY <1>1, <1>3 DEF List, JobAny
  <2>2. trees[job[t].root] \in Tree /\ Len(trees[job[t].root].list) <= MaxPieces
    BY <2>1 DEF ManyInv, TreesAny
  <2>3. trees[job[t].root].list \in Seq(Elements)
    BY <2>2 DEF Tree
  <2>. QED
    BY <1>3, <2>1, <2>2, <2>3
<1>. QED
  BY <1>2, <1>3

\* Requests.
LEMMA RequestMany ==
  ASSUME ManyInv, NEW t \in Threads,
         (\E text \in Texts : Direct(t, text)) \/ RefPkgUrl(t)
  PROVE  ManyInv'
<1>1. ASSUME NEW text \in Texts, Direct(t, text) PROVE ManyInv'
  <2>. DEFINE j == [job[t] EXCEPT !.pc = "check", !.no = installs + 1, !.kind = "direct",
                                  !.text = text, !.live = {}]
  <2>1. /\ job' = [job EXCEPT ![t] = j] /\ installs' = installs + 1 /\ pool' = pool
        /\ trees' = trees /\ job[t].pc = "idle" /\ installs < MaxInstalls
    BY <1>1 DEF Direct
  <2>2. j \in Job
    BY <2>1, ManyNow, TextsAreSeqs, ZenonT(40) DEF Job
  <2>3. /\ j.pc = "check" /\ j.kind = "direct" /\ j.text = text /\ j.i = job[t].i
        /\ j.count = job[t].count /\ j.urls = job[t].urls
    BY ManyNow DEF Job
  <2>. HIDE DEF j
  <2>4. job[t].i = 1 /\ job[t].count = 0 /\ job[t].urls = <<>>
    BY <2>1, ManyNow DEF JobAny
  <2>5. Len(text) \in Nat /\ Len(text) <= MaxPieces
    BY TextsAreSeqs
  <2>6. JobAny(j, Len(trees))
    BY <2>3, <2>4, <2>5 DEF JobAny, OwnList
  <2>. QED
    BY <2>1, <2>2, <2>6, ManyNow, ManyStepSame
<1>2. CASE RefPkgUrl(t)
  <2>. DEFINE j == [job[t] EXCEPT !.pc = "fetch", !.no = installs + 1, !.kind = "ref",
                                  !.live = {"ref"}]
  <2>1. /\ job' = [job EXCEPT ![t] = j] /\ installs' = installs + 1 /\ pool' = pool
        /\ trees' = trees /\ job[t].pc = "idle" /\ installs < MaxInstalls
    BY <1>2 DEF RefPkgUrl
  <2>2. j \in Job
    BY <2>1, ManyNow, ZenonT(40) DEF Job
  <2>3. /\ j.pc = "fetch" /\ j.kind = "ref" /\ j.text = job[t].text /\ j.i = job[t].i
        /\ j.count = job[t].count /\ j.urls = job[t].urls
    BY ManyNow DEF Job
  <2>. HIDE DEF j
  <2>4. JobAny(j, Len(trees))
    BY <2>1, <2>3, ManyNow DEF JobAny
  <2>. QED
    BY <2>1, <2>2, <2>4, ManyNow, ManyStepSame
<1>. QED
  BY <1>1, <1>2

\* A thread goes to its error label, or on to the array.
LEMMA GotoMany ==
  ASSUME ManyInv, NEW t \in Threads, NEW pc \in {"err", "array"}, Goto(t, pc),
         pc = "array" => job[t].pc = "check" /\ job[t].i > Len(List(t)),
         TreesAny', trees' = trees, installs' = installs
  PROVE  ManyInv'
<1>. DEFINE j == [job[t] EXCEPT !.pc = pc]
<1>1. job' = [job EXCEPT ![t] = j]
  BY DEF Goto
<1>2. j \in Job
  BY ManyNow DEF Job
<1>3. /\ j.pc = pc /\ j.kind = job[t].kind /\ j.text = job[t].text /\ j.i = job[t].i
      /\ j.count = job[t].count /\ j.urls = job[t].urls /\ j.root = job[t].root
  BY ManyNow DEF Job
<1>. HIDE DEF j
<1>4. CASE pc = "err"
  BY <1>1, <1>2, <1>3, <1>4, ManyNow, ManyStep DEF JobAny, OwnList, ManyInv, TreesAny
<1>5. CASE pc = "array"
  <2>1. job[t].pc = "check" /\ job[t].i > Len(List(t))
    BY <1>5
  <2>2. job[t].kind = "direct" => List(t) = job[t].text
    BY <2>1, ListAny
  <2>3. /\ job[t].kind = "direct" => job[t].i <= Len(job[t].text) + 1 /\ job[t].urls = <<>>
        /\ job[t].count = job[t].i - 1 /\ Len(job[t].text) <= MaxPieces
        /\ job[t].kind = "direct" \/ job[t].root \in 1..Len(trees)
    BY <2>1, ManyNow DEF JobAny, OwnList
  <2>4. job[t].kind = "direct" => job[t].count = Len(job[t].text)
    BY <2>1, <2>2, <2>3, ManyNow
  <2>5. JobAny(j, Len(trees))
    BY <1>3, <1>5, <2>3, <2>4 DEF JobAny, OwnList
  <2>6. Len(trees') >= Len(trees) /\ installs' \in 0..MaxInstalls
    BY ManyNow DEF ManyInv, TreesAny
  <2>. QED
    BY <1>1, <1>2, <2>5, <2>6, ManyStep
<1>. QED
  BY <1>4, <1>5


\* The reference JSON and its pool.
LEMMA DownloadMany ==
  ASSUME ManyInv, NEW t \in Threads, NEW text \in Texts, Download(t, text)
  PROVE  ManyInv'
<1>. DEFINE j == [job[t] EXCEPT !.pc = "alloc", !.text = text, !.live = @ \cup {"data"}]
<1>1. /\ job' = [job EXCEPT ![t] = j] /\ installs' = installs /\ pool' = pool
      /\ trees' = trees /\ job[t].pc = "fetch"
  BY DEF Download
<1>2. j \in Job
  BY ManyNow, TextsAreSeqs DEF Job
<1>3. /\ j.pc = "alloc" /\ j.kind = job[t].kind /\ j.text = text /\ j.i = job[t].i
      /\ j.count = job[t].count /\ j.urls = job[t].urls
  BY ManyNow DEF Job
<1>. HIDE DEF j
<1>4. JobAny(j, Len(trees))
  BY <1>1, <1>3, ManyNow, TextsAreSeqs DEF JobAny
<1>. QED
  BY <1>1, <1>2, <1>4, ManyNow, ManyStepSame

LEMMA NewPoolMany ==
  ASSUME ManyInv, NEW t \in Threads, NewPool(t)
  PROVE  ManyInv'
<1>. DEFINE j == [job[t] EXCEPT !.pc = "parse", !.live = @ \cup {"pool"}]
            r == [no |-> 0, list |-> <<>>]
<1>1. /\ job' = [job EXCEPT ![t] = j] /\ installs' = installs /\ pool' = Len(trees) + 1
      /\ trees' = Append(trees, r) /\ job[t].pc = "alloc"
  BY DEF NewPool
<1>2. j \in Job
  BY ManyNow DEF Job
<1>3. /\ j.pc = "parse" /\ j.kind = job[t].kind /\ j.text = job[t].text /\ j.i = job[t].i
      /\ j.count = job[t].count /\ j.urls = job[t].urls
  BY ManyNow DEF Job
<1>4. r \in Tree /\ Len(r.list) <= MaxPieces
  BY PieceUrlsAssumption DEF Tree
<1>. HIDE DEF j, r
<1>5. /\ trees \in Seq(Tree) /\ Len(trees) \in Nat
      /\ \A k \in 1..Len(trees) : Len(trees[k].list) <= MaxPieces
  BY DEF ManyInv, TreesAny
<1>6. /\ trees' \in Seq(Tree) /\ Len(trees') = Len(trees) + 1 /\ trees'[Len(trees) + 1] = r
      /\ \A k \in 1..Len(trees) : trees'[k] = trees[k]
  BY <1>1, <1>4, <1>5, AppendProperties
<1>7. TreesAny'
  <2>1. \A k \in 1..Len(trees') : k \in 1..Len(trees) \/ k = Len(trees) + 1
    BY <1>5, <1>6
  <2>2. \A k \in 1..Len(trees') : Len(trees'[k].list) <= MaxPieces
    BY <1>4, <1>5, <1>6, <2>1
  <2>3. pool' \in 0..Len(trees')
    BY <1>1, <1>5, <1>6
  <2>. QED
    BY <1>6, <2>2, <2>3 DEF TreesAny
<1>8. JobAny(j, Len(trees')) /\ Len(trees') >= Len(trees)
  BY <1>1, <1>3, <1>5, <1>6, ManyNow DEF JobAny
<1>. QED
  BY <1>1, <1>2, <1>7, <1>8, ManyNow, ManyStep

\* The pool may be another install's: its tree is replaced under it.
LEMMA ParseJsonMany ==
  ASSUME ManyInv, NEW t \in Threads, ParseJson(t)
  PROVE  ManyInv'
<1>0. job[t].pc = "parse" /\ pool' = pool /\ installs' = installs
  BY DEF ParseJson
<1>1. CASE pool = 0
  BY <1>0, <1>1, GotoMany DEF ParseJson, ManyInv, TreesAny
<1>2. CASE pool # 0
  <2>. DEFINE j == [job[t] EXCEPT !.pc = "check", !.root = pool]
              r == [no |-> job[t].no, list |-> job[t].text]
  <2>1. job' = [job EXCEPT ![t] = j] /\ trees' = [trees EXCEPT ![pool] = r]
    BY <1>2 DEF ParseJson
  <2>2. /\ trees \in Seq(Tree) /\ Len(trees) \in Nat /\ pool \in 1..Len(trees) /\ pool \in Nat
        /\ \A k \in 1..Len(trees) : Len(trees[k].list) <= MaxPieces
    BY <1>2 DEF ManyInv, TreesAny
  <2>3. j \in Job /\ r \in Tree /\ r.list = job[t].text
    BY <2>2, ManyNow DEF Job, Tree
  <2>4. /\ j.pc = "check" /\ j.kind = job[t].kind /\ j.text = job[t].text /\ j.i = job[t].i
        /\ j.count = job[t].count /\ j.urls = job[t].urls /\ j.root = pool
    BY ManyNow DEF Job
  <2>. HIDE DEF j, r
  <2>5. /\ trees' \in Seq(Tree) /\ Len(trees') = Len(trees) /\ trees'[pool] = r
        /\ \A k \in 1..Len(trees) : k # pool => trees'[k] = trees[k]
    BY <2>1, <2>2, <2>3, ExceptSeq
  <2>6. /\ Len(job[t].text) <= MaxPieces /\ job[t].kind = "ref" /\ job[t].i = 1
        /\ job[t].count = 0
    BY <1>0, ManyNow DEF JobAny
  <2>7. \A k \in 1..Len(trees') : Len(trees'[k].list) <= MaxPieces
    BY <2>2, <2>3, <2>5, <2>6
  <2>8. TreesAny' /\ Len(trees') >= Len(trees)
    BY <1>0, <2>2, <2>5, <2>7 DEF TreesAny
  <2>9. JobAny(j, Len(trees'))
    BY <2>2, <2>4, <2>5, <2>6 DEF JobAny
  <2>. QED
    BY <1>0, <2>1, <2>3, <2>8, <2>9, ManyNow, ManyStep
<1>. QED
  BY <1>1, <1>2

\* Counting.
LEMMA CheckMany ==
  ASSUME ManyInv, NEW t \in Threads, Check(t)
  PROVE  ManyInv'
<1>. DEFINE j == [job[t] EXCEPT !.i = @ + 1, !.count = @ + 1]
<1>1. /\ job' = [job EXCEPT ![t] = j] /\ installs' = installs /\ pool' = pool
      /\ trees' = trees /\ job[t].pc = "check" /\ job[t].i <= Len(List(t))
  BY DEF Check
<1>2. /\ Len(List(t)) \in Nat /\ Len(List(t)) <= MaxPieces
      /\ job[t].kind = "direct" => List(t) = job[t].text
  BY <1>1, ListAny
<1>3. job[t].count = job[t].i - 1
  BY <1>1, ManyNow DEF JobAny
<1>4. job[t].i + 1 \in 1..(MaxPieces + 1) /\ job[t].count + 1 \in 0..MaxPieces
  BY <1>1, <1>2, <1>3, ManyNow, SMTT(30)
<1>5. j \in Job
  BY <1>4, ManyNow DEF Job
<1>6. /\ j.pc = job[t].pc /\ j.kind = job[t].kind /\ j.text = job[t].text /\ j.i = job[t].i + 1
      /\ j.count = job[t].count + 1 /\ j.urls = job[t].urls /\ j.root = job[t].root
  BY ManyNow DEF Job
<1>. HIDE DEF j
<1>7. j.count = j.i - 1 /\ (j.kind = "direct" => j.i <= Len(j.text) + 1)
  BY <1>1, <1>2, <1>3, <1>6, ManyNow
<1>8. JobAny(j, Len(trees))
  BY <1>1, <1>6, <1>7, ManyNow DEF JobAny, OwnList
<1>. QED
  BY <1>1, <1>5, <1>8, ManyNow, ManyStepSame

LEMMA CheckFailsMany ==
  ASSUME ManyInv, NEW t \in Threads, CheckFails(t)
  PROVE  ManyInv'
<1>1. PICK l \in SUBSET {"ref", "data", "pool", "unescaped", "array"} :
        job' = [job EXCEPT ![t] = [job[t] EXCEPT !.pc = "err", !.live = l]]
  <2>1. job[t].live \in SUBSET {"ref", "data", "pool", "unescaped", "array"}
    BY ManyNow DEF Job
  <2>. QED
    BY <2>1 DEF CheckFails
<1>2. installs' = installs /\ pool' = pool /\ trees' = trees
  BY DEF CheckFails
<1>. DEFINE j == [job[t] EXCEPT !.pc = "err", !.live = l]
<1>3. j \in Job /\ j.pc = "err" /\ j.text = job[t].text
  BY ManyNow DEF Job
<1>. HIDE DEF j
<1>4. JobAny(j, Len(trees))
  BY <1>3, ManyNow DEF JobAny, OwnList
<1>. QED
  BY <1>1, <1>2, <1>3, <1>4, ManyNow, ManyStepSame DEF j

\* Storing.
LEMMA NewArrayMany ==
  ASSUME ManyInv, NEW t \in Threads, NewArray(t)
  PROVE  ManyInv'
<1>. DEFINE j == [job[t] EXCEPT !.pc = "encode", !.i = 1, !.live = @ \cup {"array"}]
<1>1. /\ job' = [job EXCEPT ![t] = j] /\ installs' = installs /\ pool' = pool
      /\ trees' = trees /\ job[t].pc = "array"
  BY DEF NewArray
<1>0. 1 \in 1..(MaxPieces + 1)
  BY ManyNow
<1>2. j \in Job
  BY <1>0, ManyNow DEF Job
<1>3. /\ j.pc = "encode" /\ j.kind = job[t].kind /\ j.text = job[t].text /\ j.i = 1
      /\ j.count = job[t].count /\ j.urls = job[t].urls /\ j.root = job[t].root
  BY ManyNow DEF Job
<1>. HIDE DEF j
<1>4. /\ Len(job[t].text) <= MaxPieces /\ (job[t].kind = "direct" \/ job[t].root \in 1..Len(trees))
      /\ job[t].kind = "direct" => job[t].count = Len(job[t].text) /\ job[t].urls = <<>>
  BY <1>1, ManyNow DEF JobAny, OwnList
<1>5. j.kind = "direct" => /\ j.i <= Len(j.text) + 1 /\ Len(j.urls) = j.i - 1
                           /\ \A k \in 1..Len(j.urls) : j.urls[k] = Stored(j.text[k])
  BY <1>3, <1>4, ManyNow
<1>6. JobAny(j, Len(trees))
  BY <1>3, <1>4, <1>5 DEF JobAny, OwnList
<1>. QED
  BY <1>1, <1>2, <1>6, ManyNow, ManyStepSame

LEMMA EncodeMany ==
  ASSUME ManyInv, NEW t \in Threads, Encode(t)
  PROVE  ManyInv'
<1>. DEFINE u == Stored(List(t)[job[t].i])
            j == [job[t] EXCEPT !.i = @ + 1, !.cells = @ \cup {job[t].i}, !.urls = Append(@, u)]
<1>1. /\ job' = [job EXCEPT ![t] = j] /\ installs' = installs /\ pool' = pool
      /\ trees' = trees /\ job[t].pc = "encode" /\ job[t].i <= Len(List(t))
  BY DEF Encode, Stored
<1>2. /\ List(t) \in Seq(Elements) /\ Len(List(t)) \in Nat /\ Len(List(t)) <= MaxPieces
      /\ job[t].kind = "direct" => List(t) = job[t].text
  BY <1>1, ListAny
<1>3. job[t].i \in 1..Len(List(t)) /\ job[t].i + 1 \in 1..(MaxPieces + 1) /\ job[t].i \in 1..MaxPieces
  <2>1. job[t].i \in 1..(MaxPieces + 1)
    BY ManyNow DEF Job
  <2>. QED
    BY <1>1, <1>2, <2>1, ManyNow
<1>4. u \in {Stored(e) : e \in Elements}
  BY <1>2, <1>3
<1>. HIDE DEF u
<1>5. job[t].urls \in Seq({Stored(e) : e \in Elements})
  BY ManyNow DEF Job
<1>6. Append(job[t].urls, u) \in Seq({Stored(e) : e \in Elements})
  BY <1>4, <1>5, AppendProperties
<1>7. j \in Job
  BY <1>3, <1>6, ManyNow DEF Job
<1>8. /\ j.pc = job[t].pc /\ j.kind = job[t].kind /\ j.text = job[t].text /\ j.i = job[t].i + 1
      /\ j.count = job[t].count /\ j.urls = Append(job[t].urls, u) /\ j.root = job[t].root
  BY ManyNow DEF Job
<1>. HIDE DEF j
<1>9. ASSUME job[t].kind = "direct" PROVE OwnList(j)
  <2>1. /\ job[t].count = Len(job[t].text) /\ Len(job[t].urls) = job[t].i - 1
        /\ \A k \in 1..Len(job[t].urls) : job[t].urls[k] = Stored(job[t].text[k])
    BY <1>1, <1>9, ManyNow DEF JobAny, OwnList
  <2>2. u = Stored(job[t].text[job[t].i]) /\ job[t].i <= Len(job[t].text)
    BY <1>1, <1>2, <1>9 DEF u
  <2>3. /\ Len(j.urls) = Len(job[t].urls) + 1 /\ j.urls[Len(job[t].urls) + 1] = u
        /\ \A k \in 1..Len(job[t].urls) : j.urls[k] = job[t].urls[k]
    BY <1>4, <1>5, <1>8, AppendProperties
  <2>4. Len(j.urls) = j.i - 1 /\ Len(job[t].urls) \in Nat /\ Len(job[t].urls) + 1 = job[t].i
    <3>1. Len(job[t].urls) \in Nat
      BY <1>5, LenProperties
    <3>2. job[t].i \in Nat /\ Len(job[t].urls) = job[t].i - 1
      BY <2>1, ManyNow
    <3>3. Len(job[t].urls) + 1 = job[t].i /\ (job[t].i + 1) - 1 = job[t].i
      BY <3>1, <3>2
    <3>. QED
      BY <1>8, <2>3, <3>1, <3>3
  <2>5. ASSUME NEW k \in 1..Len(j.urls) PROVE j.urls[k] = Stored(j.text[k])
    <3>1. k \in 1..Len(job[t].urls) \/ k = job[t].i
      BY <2>3, <2>4
    <3>. QED
      BY <1>8, <2>1, <2>2, <2>3, <2>4, <3>1
  <2>6. j.i <= Len(j.text) + 1
    BY <1>8, <2>2, ManyNow
  <2>. QED
    BY <1>1, <1>8, <2>1, <2>4, <2>5, <2>6 DEF OwnList
<1>10. JobAny(j, Len(trees))
  BY <1>1, <1>8, <1>9, ManyNow DEF JobAny
<1>. QED
  BY <1>1, <1>7, <1>10, ManyNow, ManyStepSame

LEMMA EncodeDoneMany ==
  ASSUME ManyInv, NEW t \in Threads, EncodeDone(t)
  PROVE  ManyInv'
<1>. DEFINE j == [job[t] EXCEPT !.pc = "handed", !.live = @ \ {"data"}]
<1>1. /\ job' = [job EXCEPT ![t] = j] /\ installs' = installs /\ pool' = pool
      /\ trees' = trees /\ job[t].pc = "encode" /\ job[t].i > Len(List(t))
  BY DEF EncodeDone
<1>2. job[t].kind = "direct" => List(t) = job[t].text
  BY <1>1, ListAny
<1>3. j \in Job
  BY ManyNow DEF Job
<1>4. /\ j.pc = "handed" /\ j.kind = job[t].kind /\ j.text = job[t].text /\ j.i = job[t].i
      /\ j.count = job[t].count /\ j.urls = job[t].urls
  BY ManyNow DEF Job
<1>. HIDE DEF j
<1>5. job[t].kind = "direct" => OwnList(job[t]) /\ job[t].i = Len(job[t].text) + 1
  BY <1>1, <1>2, ManyNow DEF JobAny, OwnList
<1>6. JobAny(j, Len(trees))
  BY <1>1, <1>4, <1>5, ManyNow DEF JobAny, OwnList
<1>. QED
  BY <1>1, <1>3, <1>6, ManyNow, ManyStepSame

LEMMA FreedMany ==
  ASSUME ManyInv, NEW t \in Threads, Failed(t) \/ Release(t)
  PROVE  ManyInv'
<1>1. PICK S : job' = [job EXCEPT ![t] = Freed(t, S)]
  BY DEF Failed, Release
<1>2. installs' = installs /\ pool' = pool /\ trees' = trees
  BY DEF Failed, Release
<1>. DEFINE l == job[t].live \ S
            c == {k \in job[t].cells : k > job[t].count}
            j == Freed(t, S)
<1>3. l \in SUBSET {"ref", "data", "pool", "unescaped", "array"} /\ c \in SUBSET (1..MaxPieces)
  BY ManyNow DEF Job
<1>4. j = [NoJob EXCEPT !.live = l, !.cells = c]
  BY DEF Freed
<1>. HIDE DEF l, c, j
<1>5. 0 \in 0..MaxInstalls /\ 1 \in 1..(MaxPieces + 1) /\ 0 \in 0..MaxPieces
  BY PieceUrlsAssumption
<1>6. j \in Job
  <2>1. j = [pc |-> "idle", no |-> 0, kind |-> "none", text |-> <<>>, i |-> 1, count |-> 0,
             urls |-> <<>>, live |-> l, cells |-> c, root |-> 0]
    BY <1>4 DEF NoJob
  <2>2. <<>> \in Seq(Elements) /\ <<>> \in Seq({Stored(e) : e \in Elements})
    BY EmptySeq
  <2>. QED
    BY <1>3, <1>5, <2>1, <2>2 DEF Job
<1>7. /\ j.pc = "idle" /\ j.kind = "none" /\ j.text = <<>> /\ j.i = 1 /\ j.count = 0
      /\ j.urls = <<>>
  BY <1>4 DEF NoJob
<1>8. JobAny(j, Len(trees))
  BY <1>7, PieceUrlsAssumption DEF JobAny
<1>. QED
  BY <1>1, <1>2, <1>6, <1>8, ManyNow, ManyStepSame DEF j

LEMMA StepMany ==
  ASSUME ManyInv, NEW t \in Threads, UrlsStep(t) \/ Release(t)
  PROVE  ManyInv'
<1>0. TreesAny
  BY DEF ManyInv
<1>1. CASE CheckDone(t)
  BY <1>0, <1>1, GotoMany DEF CheckDone, TreesAny
<1>2. CASE DownloadFails(t) \/ ParseFails(t) \/ NewArrayFails(t) \/ EncodeFails(t)
  <2>1. Goto(t, "err") /\ trees' = trees /\ pool' = pool /\ installs' = installs
    BY <1>2 DEF DownloadFails, ParseFails, NewArrayFails, EncodeFails
  <2>. QED
    BY <1>0, <2>1, GotoMany DEF TreesAny
<1>3. CASE NewPoolFails(t)
  <2>1. Goto(t, "err") /\ trees' = trees /\ pool' = 0 /\ installs' = installs
    BY <1>3 DEF NewPoolFails
  <2>2. TreesAny'
    BY <1>0, <2>1 DEF TreesAny
  <2>. QED
    BY <2>1, <2>2, GotoMany
<1>. QED
  BY <1>1, <1>2, <1>3, RequestMany, DownloadMany, NewPoolMany, ParseJsonMany, CheckMany,
     CheckFailsMany, NewArrayMany, EncodeMany, EncodeDoneMany, FreedMany DEF UrlsStep

\* With any number of threads, invariant of what the threads do to the pool and their jobs.
LEMMA ManyInvariant == UrlsSpec => []ManyInv
<1>1. UrlsInit => ManyInv
  <2>. SUFFICES ASSUME UrlsInit PROVE ManyInv
    OBVIOUS
  <2>1. 0 \in 0..MaxInstalls /\ 1 \in 1..(MaxPieces + 1) /\ 0 \in 0..MaxPieces /\ MaxPieces \in Nat
    BY PieceUrlsAssumption
  <2>2. NoJob \in Job
    BY <2>1 DEF NoJob, Job
  <2>3. JobAny(NoJob, Len(trees))
    BY <2>1 DEF NoJob, JobAny
  <2>4. TreesAny
    BY <2>1 DEF UrlsInit, TreesAny
  <2>. QED
    BY <2>1, <2>2, <2>3, <2>4 DEF UrlsInit, ManyInv
<1>2. ManyInv /\ [\E t \in Threads : UrlsStep(t) \/ Release(t)]_uvars => ManyInv'
  <2>1. ASSUME ManyInv, UNCHANGED uvars PROVE ManyInv'
    BY <2>1 DEF uvars, ManyInv, TreesAny
  <2>. QED
    BY <2>1, StepMany
<1>. QED
  BY <1>1, <1>2, PTL DEF UrlsSpec

\* The pool that reference JSON installs share does not reach the direct ones: the URLs
\* of an install whose list came with the request are those of that list, with any number
\* of installs of both kinds at once.
THEOREM DirectUnharmed == UrlsSpec => []DirectUrlsKept
<1>1. ASSUME ManyInv, NEW t \in Threads, job[t].pc = "handed", job[t].kind = "direct"
      PROVE  /\ Len(job[t].urls) = Len(job[t].text)
             /\ \A k \in 1..Len(job[t].urls) : job[t].urls[k] = Stored(job[t].text[k])
  <2>1. JobAny(job[t], Len(trees)) /\ Len(job[t].text) \in Nat
    BY <1>1, ManyNow
  <2>2. OwnList(job[t])
    BY <1>1, <2>1 DEF JobAny
  <2>3. /\ job[t].i = Len(job[t].text) + 1 /\ Len(job[t].urls) = job[t].i - 1
        /\ \A k \in 1..Len(job[t].urls) : job[t].urls[k] = Stored(job[t].text[k])
    BY <1>1, <2>2 DEF OwnList
  <2>4. (Len(job[t].text) + 1) - 1 = Len(job[t].text)
    BY <2>1
  <2>. QED
    BY <2>3, <2>4
<1>2. ManyInv => DirectUrlsKept
  BY <1>1, StoredKeeps DEF DirectUrlsKept
<1>. QED
  BY <1>2, ManyInvariant, PTL

\* Nor do they misuse memory: no step of a direct install reads a freed text or writes
\* behind its array.
THEOREM DirectMemorySafe == UrlsSpec => [][DirectIsSafe]_uvars
<1>1. ASSUME ManyInv, NEW t \in Threads, job[t].kind = "direct", UrlsStep(t) \/ Release(t)
      PROVE  fault' = fault
  <2>1. JobAny(job[t], Len(trees)) /\ OwnList(job[t])
    BY <1>1, ManyNow DEF JobAny
  <2>2. job[t].pc \in {"check", "array", "encode"} => TextLive(t) /\ List(t) = job[t].text
    BY <1>1, ListAny
  <2>3. CASE Encode(t)
    <3>1. job[t].pc = "encode" /\ TextLive(t) /\ job[t].i <= Len(job[t].text)
      BY <2>2, <2>3 DEF Encode
    <3>2. job[t].i <= job[t].count
      BY <2>1, <3>1 DEF OwnList
    <3>. QED
      BY <2>3, <3>1, <3>2 DEF Encode
  <2>4. CASE ParseJson(t)
    BY <1>1, <2>1, <2>4 DEF ParseJson, JobAny
  <2>5. CASE Check(t) \/ CheckFails(t) \/ EncodeFails(t)
    BY <2>2, <2>5 DEF Check, CheckFails, EncodeFails, Reading
  <2>. QED
    BY <1>1, <2>3, <2>4, <2>5 DEF UrlsStep, Direct, RefPkgUrl, Download, DownloadFails, NewPool,
       NewPoolFails, ParseFails, CheckDone, NewArray, NewArrayFails, EncodeDone, Failed, Release
<1>2. ManyInv /\ [\E t \in Threads : UrlsStep(t) \/ Release(t)]_uvars => [DirectIsSafe]_uvars
  BY <1>1 DEF DirectIsSafe
<1>. QED
  BY <1>2, ManyInvariant, PTL DEF UrlsSpec
=================================================================================
