------------------------------ MODULE InstallProofs ------------------------------
(***************************************************************************)
(* Proofs about Install, for every set of addresses and packages and every *)
(* length of run.                                                          *)
(*                                                                         *)
(* Nothing is assumed of the names, the clock or the disk, except in       *)
(* MetadataOwn.  BaseInv: an install that ends has removed what it does    *)
(* not leave for BGFT.  TaskInv: whose a file is while installs and tasks  *)
(* come and go; the histories used and spoilt tell which names are still   *)
(* owed their files.  MetaInv is about metadata alone.                     *)
(***************************************************************************)
EXTENDS Install, FiniteSetTheorems, TLAPS

Job == [pc : Pcs, at : 0..MaxTime, pkg : Pkgs \union {None}, icon : BOOLEAN,
        meta : Pkgs \union {None, Cut},
        answer : [ok : BOOLEAN, id : -1..MaxInstalls, code : {None, "same", "bgft", "unset"}]]

Names == {TmpName(s, a) : s \in 0..MaxTime, a \in Addr}

\* Every file of the directory is one an install could have named.
IsDir(d) ==
  /\ DOMAIN d \subseteq Names \X Kinds
  /\ \A f \in DOMAIN d : d[f].data \in Pkgs \union {Cut} /\ d[f].atime \in 0..MaxTime

Typed ==
  /\ now \in 0..MaxTime
  /\ job \in [Addr -> Job]
  /\ requests \in 0..MaxInstalls
  /\ IsDir(fs)

\* The installs that have not come to their registration yet.
Pending == {a \in Addr : job[a].pc \notin {"idle", "finish"}}

\* Each request registers at most one task.
CountInv ==
  /\ IsFiniteSet(Pending)
  /\ nextId \in Nat
  /\ nextId + Cardinality(Pending) <= requests

Serves(a) ==
  /\ job[a].pc # "idle" => job[a].pkg \in Pkgs
  /\ job[a].pc = "finish" => Name(a) \in handed \union refused

BaseInv ==
  /\ Typed
  /\ CountInv
  /\ \A a \in Addr : Serves(a)
  /\ NoStrayFiles

-------------------------------------------------------------------------------
(* The directory *)

LEMMA NoFiles == DOMAIN <<>> = {}
OBVIOUS

LEMMA NameTyped ==
  ASSUME Typed, NEW a \in Addr
  PROVE  Name(a) \in Names
<1>1. job[a].at \in 0..MaxTime
  BY DEF Typed, Job
<1>. QED
  BY <1>1 DEF Name, Names

LEMMA PutTyped ==
  ASSUME Typed, NEW a \in Addr, NEW k \in Kinds, NEW d \in Pkgs \union {Cut},
         fs' = Put(<<Name(a), k>>, d)
  PROVE  /\ IsDir(fs)'
         /\ DOMAIN fs' = DOMAIN fs \union {<<Name(a), k>>}
         /\ fs'[<<Name(a), k>>] = [data |-> d, atime |-> now]
         /\ \A f \in DOMAIN fs \ {<<Name(a), k>>} : fs'[f] = fs[f]
<1>. DEFINE g == <<Name(a), k>>
<1>1. g \in Names \X Kinds
  BY NameTyped
<1>2. IsDir(fs) /\ now \in 0..MaxTime
  BY DEF Typed
<1>3. fs' = [x \in DOMAIN fs \union {g} |->
               IF x = g THEN [data |-> d, atime |-> now] ELSE fs[x]]
  BY DEF Put
<1>. HIDE DEF g
<1>4. /\ DOMAIN fs' = DOMAIN fs \union {g} /\ fs'[g] = [data |-> d, atime |-> now]
      /\ \A f \in DOMAIN fs \ {g} : fs'[f] = fs[f]
  BY <1>3
<1>5. DOMAIN fs' \subseteq Names \X Kinds
  BY <1>1, <1>2, <1>4 DEF IsDir
<1>6. \A f \in DOMAIN fs' : fs'[f].data \in Pkgs \union {Cut} /\ fs'[f].atime \in 0..MaxTime
  BY <1>2, <1>4 DEF IsDir
<1>. QED
  BY <1>4, <1>5, <1>6 DEF IsDir, g

LEMMA WithoutTyped ==
  ASSUME Typed, NEW S, fs' = Without(S)
  PROVE  /\ IsDir(fs)' /\ DOMAIN fs' = DOMAIN fs \ S
         /\ \A f \in DOMAIN fs' : fs'[f] = fs[f]
<1>1. fs' = [x \in DOMAIN fs \ S |-> fs[x]]
  BY DEF Without, Restrict
<1>. QED
  BY <1>1 DEF Typed, IsDir

LEMMA OwnFile ==
  ASSUME Typed, NEW f \in DOMAIN fs
  PROVE  f \in Files(f[1]) /\ f = <<f[1], f[2]>> /\ f[2] \in Kinds
BY DEF Typed, IsDir, Files

-------------------------------------------------------------------------------
(* The jobs *)

\* The job at a moves on within the same install.
Moved(a, label) ==
  /\ job' \in [Addr -> Job]
  /\ \A b \in Addr \ {a} : job'[b] = job[b]
  /\ job'[a].pc = label /\ job'[a].at = job[a].at /\ job'[a].pkg = job[a].pkg

\* It comes to an end.
Ended(a) ==
  /\ job' \in [Addr -> Job]
  /\ \A b \in Addr \ {a} : job'[b] = job[b]
  /\ job'[a] = Idle

LEMMA IdleTyped == Idle \in Job
BY InstallAssumption DEF Idle, Job, Pcs, NoAnswer, None

LEMMA Ends ==
  ASSUME Typed, NEW a \in Addr, job' = [job EXCEPT ![a] = Idle]
  PROVE  Ended(a)
BY IdleTyped DEF Typed, Ended

LEMMA Changed ==
  ASSUME Typed, NEW a \in Addr, NEW j \in Job, job' = [job EXCEPT ![a] = j],
         j.at = job[a].at, j.pkg = job[a].pkg
  PROVE  Moved(a, j.pc) /\ job'[a] = j
BY DEF Typed, Moved

LEMMA Goes ==
  ASSUME Typed, NEW a \in Addr, NEW label \in Pcs, Goto(a, label)
  PROVE  /\ Moved(a, label)
         /\ job'[a].icon = job[a].icon /\ job'[a].meta = job[a].meta
<1>. DEFINE j == [job[a] EXCEPT !.pc = label]
<1>1. job[a] \in Job
  BY DEF Typed
<1>2. /\ j \in Job /\ j.pc = label /\ j.at = job[a].at /\ j.pkg = job[a].pkg
      /\ j.icon = job[a].icon /\ j.meta = job[a].meta
  BY <1>1 DEF Job
<1>3. job' = [job EXCEPT ![a] = j]
  BY DEF Goto
<1>. HIDE DEF j
<1>. QED
  BY <1>2, <1>3, Changed

LEMMA Answers ==
  ASSUME Typed, NEW a \in Addr,
         NEW ans \in [ok : BOOLEAN, id : -1..MaxInstalls, code : {None, "same", "bgft", "unset"}],
         Answer(a, ans)
  PROVE  Moved(a, "finish")
<1>. DEFINE j == [job[a] EXCEPT !.pc = "finish", !.answer = ans]
<1>1. job[a] \in Job
  BY DEF Typed
<1>2. j \in Job /\ j.pc = "finish" /\ j.at = job[a].at /\ j.pkg = job[a].pkg
  BY <1>1 DEF Job, Pcs
<1>3. job' = [job EXCEPT ![a] = j]
  BY DEF Answer
<1>. HIDE DEF j
<1>. QED
  BY <1>2, <1>3, Changed, ZenonT(40)

-------------------------------------------------------------------------------
(* What ends has cleaned up *)

LEMMA CountKept ==
  ASSUME CountInv, Pending' \subseteq Pending, nextId' = nextId, requests' = requests,
         requests \in Nat
  PROVE  CountInv'
<1>1. IsFiniteSet(Pending') /\ Cardinality(Pending') <= Cardinality(Pending)
  BY FS_Subset DEF CountInv
<1>2. Cardinality(Pending) \in Nat /\ Cardinality(Pending') \in Nat
  BY <1>1, FS_CardinalityType DEF CountInv
<1>. QED
  BY <1>1, <1>2 DEF CountInv

LEMMA BaseMoves ==
  ASSUME BaseInv, NEW a \in Addr, NEW label \in Pcs \ {"idle", "lang"}, Moved(a, label),
         job[a].pc # "idle", UNCHANGED <<now, requests, killed>>,
         handed \union refused \subseteq (handed \union refused)', IsDir(fs)', DOMAIN fs' \subseteq DOMAIN fs \union Files(Name(a)),
         label = "finish" => Name(a) \in (handed \union refused)', CountInv'
  PROVE  BaseInv'
<1>1. Typed'
  BY DEF BaseInv, Typed, Moved
<1>2. \A b \in Addr : Name(b)' = Name(b)
  BY DEF Moved, Name
<1>3. ASSUME NEW b \in Addr PROVE Serves(b)'
  <2>1. Serves(b) /\ Serves(a)
    BY DEF BaseInv
  <2>2. CASE b = a
    BY <1>2, <2>1, <2>2 DEF Serves, Moved
  <2>3. CASE b # a
    BY <1>2, <2>1, <2>3 DEF Serves, Moved
  <2>. QED
    BY <2>2, <2>3
<1>4. ASSUME NEW f \in DOMAIN fs'
      PROVE  \/ f[1] \in killed'
             \/ f[1] \in (handed \union refused)' /\ f[2] # "sfo"
             \/ \E b \in Addr : job'[b].pc \notin {"idle", "lang"} /\ f[1] = Name(b)'
  <2>1. job'[a].pc \notin {"idle", "lang"}
    BY DEF Moved
  <2>2. CASE f[1] = Name(a)
    BY <1>2, <2>1, <2>2
  <2>3. CASE f[1] # Name(a)
    <3>1. f \in DOMAIN fs
      BY <2>3 DEF Files
    <3>2. \/ f[1] \in killed
          \/ f[1] \in handed \union refused /\ f[2] # "sfo"
          \/ \E b \in Addr \ {a} : job[b].pc \notin {"idle", "lang"} /\ f[1] = Name(b)
      BY <2>3, <3>1 DEF BaseInv, NoStrayFiles
    <3>. QED
      BY <1>2, <3>2 DEF Moved
  <2>. QED
    BY <2>2, <2>3
<1>5. NoStrayFiles'
  BY <1>4 DEF NoStrayFiles
<1>. QED
  BY <1>1, <1>3, <1>5 DEF BaseInv

LEMMA BaseEnds ==
  ASSUME BaseInv, NEW a \in Addr, Ended(a),
         UNCHANGED <<now, requests, nextId, handed, refused, killed>>,
         IsDir(fs)', DOMAIN fs' \subseteq DOMAIN fs,
         \/ job[a].pc = "lang"
         \/ \A f \in DOMAIN fs' : f[1] = Name(a) => f[1] \in handed \union refused /\ f[2] # "sfo"
  PROVE  BaseInv'
<1>1. Typed'
  BY DEF BaseInv, Typed, Ended
<1>2. \A b \in Addr \ {a} : Name(b)' = Name(b)
  BY DEF Ended, Name
<1>3. job'[a].pc = "idle"
  BY DEF Ended, Idle
<1>4. ASSUME NEW b \in Addr PROVE Serves(b)'
  <2>1. Serves(b)
    BY DEF BaseInv
  <2>2. CASE b = a
    BY <1>3, <2>2 DEF Serves
  <2>3. CASE b # a
    BY <1>2, <2>1, <2>3 DEF Serves, Ended
  <2>. QED
    BY <2>2, <2>3
<1>5. ASSUME NEW f \in DOMAIN fs'
      PROVE  \/ f[1] \in killed'
             \/ f[1] \in (handed \union refused)' /\ f[2] # "sfo"
             \/ \E b \in Addr : job'[b].pc \notin {"idle", "lang"} /\ f[1] = Name(b)'
  <2>1. \/ f[1] \in killed
        \/ f[1] \in handed \union refused /\ f[2] # "sfo"
        \/ \E b \in Addr : job[b].pc \notin {"idle", "lang"} /\ f[1] = Name(b)
    BY DEF BaseInv, NoStrayFiles
  <2>2. \/ f[1] \in killed
        \/ f[1] \in handed \union refused /\ f[2] # "sfo"
        \/ \E b \in Addr \ {a} : job[b].pc \notin {"idle", "lang"} /\ f[1] = Name(b)
    BY <2>1
  <2>. QED
    BY <1>2, <2>2 DEF Ended
<1>6. NoStrayFiles'
  BY <1>5 DEF NoStrayFiles
<1>7. CountInv'
  <2>1. Pending' \subseteq Pending
    BY <1>3 DEF Pending, Ended
  <2>2. requests \in Nat
    BY InstallAssumption DEF BaseInv, Typed
  <2>. QED
    BY <2>1, <2>2, CountKept DEF BaseInv
<1>. QED
  BY <1>1, <1>4, <1>6, <1>7 DEF BaseInv

\* A step before the registration.
LEMMA BaseGoes ==
  ASSUME BaseInv, NEW a \in Addr, NEW label \in Pcs \ {"idle", "lang"}, Moved(a, label),
         job[a].pc \notin {"idle", "finish"},
         UNCHANGED <<now, requests, nextId, killed>>, handed \union refused \subseteq (handed \union refused)',
         IsDir(fs)', DOMAIN fs' \subseteq DOMAIN fs \union Files(Name(a)),
         label = "finish" => Name(a) \in (handed \union refused)'
  PROVE  BaseInv'
<1>1. Pending' \subseteq Pending
  BY DEF Pending, Moved
<1>2. requests \in Nat /\ CountInv
  BY InstallAssumption DEF BaseInv, Typed
<1>3. CountInv'
  BY <1>1, <1>2, CountKept
<1>. QED
  BY <1>3, BaseMoves

LEMMA RequestBase ==
  ASSUME BaseInv, NEW a \in Addr, Request(a)
  PROVE  BaseInv'
<1>1. PICK p \in Pkgs : job' = [job EXCEPT ![a] = [Idle EXCEPT !.pc = "lang", !.at = now,
                                                             !.pkg = p]]
  BY DEF Request
<1>2. /\ job[a].pc = "idle" /\ requests < MaxInstalls /\ requests' = requests + 1
      /\ UNCHANGED <<now, fs, nextId, handed, refused, killed>>
  BY DEF Request
<1>. DEFINE j == [Idle EXCEPT !.pc = "lang", !.at = now, !.pkg = p]
<1>3. Typed /\ now \in 0..MaxTime
  BY DEF BaseInv, Typed
<1>4. j \in Job /\ j.pc = "lang" /\ j.pkg = p
  BY <1>3, IdleTyped DEF Job, Pcs
<1>5. job' = [job EXCEPT ![a] = j]
  BY <1>1
<1>. HIDE DEF j
<1>6. job' \in [Addr -> Job] /\ job'[a] = j /\ \A b \in Addr \ {a} : job'[b] = job[b]
  BY <1>3, <1>4, <1>5 DEF Typed
<1>7. requests' \in 0..MaxInstalls
  BY <1>2, <1>3, InstallAssumption DEF Typed
<1>8. Typed'
  BY <1>2, <1>3, <1>6, <1>7 DEF Typed
<1>9. ASSUME NEW b \in Addr PROVE Serves(b)'
  <2>1. Serves(b)
    BY DEF BaseInv
  <2>2. CASE b = a
    BY <1>4, <1>6, <2>2 DEF Serves
  <2>3. CASE b # a
    BY <1>2, <1>6, <2>1, <2>3 DEF Serves, Name
  <2>. QED
    BY <2>2, <2>3
<1>10. CountInv'
  <2>1. Pending' = Pending \union {a} /\ a \notin Pending
    BY <1>2, <1>4, <1>6 DEF Pending
  <2>2. /\ IsFiniteSet(Pending') /\ Cardinality(Pending') = Cardinality(Pending) + 1
        /\ Cardinality(Pending) \in Nat
    BY <2>1, FS_AddElement, FS_CardinalityType DEF BaseInv, CountInv
  <2>. QED
    BY <1>2, <1>3, <2>2, InstallAssumption DEF BaseInv, CountInv, Typed
<1>11. ASSUME NEW f \in DOMAIN fs'
       PROVE  \/ f[1] \in killed'
              \/ f[1] \in (handed \union refused)' /\ f[2] # "sfo"
              \/ \E b \in Addr : job'[b].pc \notin {"idle", "lang"} /\ f[1] = Name(b)'
  <2>1. \/ f[1] \in killed
        \/ f[1] \in handed \union refused /\ f[2] # "sfo"
        \/ \E b \in Addr \ {a} : job[b].pc \notin {"idle", "lang"} /\ f[1] = Name(b)
    BY <1>2 DEF BaseInv, NoStrayFiles
  <2>. QED
    BY <1>2, <1>6, <2>1 DEF Name
<1>12. NoStrayFiles'
  BY <1>11 DEF NoStrayFiles
<1>. QED
  BY <1>8, <1>9, <1>10, <1>12 DEF BaseInv

\* The steps of an install that go on to another label and write at most its own files.
LEMMA BaseWrites ==
  ASSUME BaseInv, NEW a \in Addr, NEW k \in Kinds, NEW d \in Pkgs \union {Cut},
         NEW label \in Pcs \ {"idle", "lang", "finish"}, Goto(a, label),
         fs' = Put(<<Name(a), k>>, d), job[a].pc \notin {"idle", "finish"},
         UNCHANGED <<now, requests, nextId, killed, handed, refused>>
  PROVE  BaseInv'
<1>1. Typed
  BY DEF BaseInv
<1>2. Moved(a, label)
  BY <1>1, Goes
<1>3. IsDir(fs)' /\ DOMAIN fs' = DOMAIN fs \union {<<Name(a), k>>}
  BY <1>1, PutTyped
<1>4. <<Name(a), k>> \in Files(Name(a))
  BY DEF Files
<1>. QED
  BY <1>2, <1>3, <1>4, BaseGoes

LEMMA BaseSteps ==
  ASSUME BaseInv, NEW a \in Addr, NEW label \in Pcs \ {"idle", "lang", "finish"}, Goto(a, label),
         job[a].pc \notin {"idle", "finish"},
         UNCHANGED <<now, requests, fs, nextId, killed, handed, refused>>
  PROVE  BaseInv'
<1>1. Typed /\ IsDir(fs)
  BY DEF BaseInv, Typed
<1>2. Moved(a, label)
  BY <1>1, Goes
<1>3. IsDir(fs)'
  BY <1>1 DEF IsDir
<1>. QED
  BY <1>2, <1>3, BaseGoes

LEMMA BaseStep ==
  ASSUME BaseInv, NEW a \in Addr, InstallStep(a)
  PROVE  BaseInv'
<1>0. Typed /\ IsDir(fs) /\ Serves(a) /\ job[a] \in Job
  BY DEF BaseInv, Typed
<1>1. CASE Request(a)
  BY <1>1, RequestBase
<1>2. CASE GetLanguage(a)
  <2>1. /\ job[a].pc = "lang"
        /\ UNCHANGED <<now, requests, fs, nextId, killed, handed, refused>>
    BY <1>2 DEF GetLanguage, history
  <2>2. CASE Goto(a, "clear")
    BY <2>1, <2>2, BaseSteps DEF Pcs
  <2>3. CASE job' = [job EXCEPT ![a] = Idle]
    <3>1. Ended(a) /\ IsDir(fs)'
      BY <1>0, <2>1, <2>3, Ends DEF IsDir
    <3>. QED
      BY <2>1, <3>1, BaseEnds
  <2>. QED
    BY <1>2, <2>2, <2>3 DEF GetLanguage, history
<1>3. CASE ClearOld(a)
  <2>1. /\ job[a].pc = "clear" /\ fs' = Without(Files(Name(a))) /\ Goto(a, "fetch")
        /\ UNCHANGED <<now, requests, nextId, killed, handed, refused>>
    BY <1>3 DEF ClearOld, history
  <2>2. Moved(a, "fetch") /\ IsDir(fs)' /\ DOMAIN fs' = DOMAIN fs \ Files(Name(a))
    BY <1>0, <2>1, Goes, WithoutTyped DEF Pcs
  <2>. QED
    BY <2>1, <2>2, BaseGoes DEF Pcs
<1>4. CASE FetchPackage(a)
  <2>1. /\ job[a].pc = "fetch"
        /\ UNCHANGED <<now, requests, fs, nextId, killed, handed, refused>>
    BY <1>4 DEF FetchPackage, history
  <2>2. CASE Goto(a, "err")
    BY <2>1, <2>2, BaseSteps DEF Pcs
  <2>3. ASSUME NEW icon \in BOOLEAN, job' = [job EXCEPT ![a].pc = "open", ![a].icon = icon]
        PROVE  BaseInv'
    <3>. DEFINE j == [job[a] EXCEPT !.pc = "open", !.icon = icon]
    <3>1. j \in Job /\ j.pc = "open" /\ j.at = job[a].at /\ j.pkg = job[a].pkg
      BY <1>0 DEF Job, Pcs
    <3>2. job' = [job EXCEPT ![a] = j]
      BY <2>3
    <3>. HIDE DEF j
    <3>3. Moved(a, "open") /\ IsDir(fs)'
      BY <1>0, <2>1, <3>1, <3>2, Changed DEF IsDir
    <3>. QED
      BY <2>1, <3>3, BaseGoes DEF Pcs
  <2>. QED
    BY <1>4, <2>2, <2>3 DEF FetchPackage, history
<1>5. CASE OpenJson(a)
  <2>1. /\ job[a].pc = "open" /\ UNCHANGED <<now, requests, nextId, killed, handed, refused>>
    BY <1>5 DEF OpenJson, history
  <2>2. CASE Goto(a, "pieces") /\ fs' = Put(<<Name(a), "json">>, Cut)
    BY <2>1, <2>2, BaseWrites DEF Pcs, Kinds
  <2>3. CASE Goto(a, "err") /\ UNCHANGED fs
    BY <2>1, <2>3, BaseSteps DEF Pcs
  <2>. QED
    BY <1>5, <2>2, <2>3 DEF OpenJson, history
<1>6. CASE WritePieces(a)
  BY <1>6, BaseSteps DEF WritePieces, history, Pcs
<1>7. CASE WriteSfo(a)
  <2>1. /\ job[a].pc = "sfo" /\ UNCHANGED <<now, requests, nextId, killed, handed, refused>>
        /\ job[a].pkg \in Pkgs
    BY <1>0, <1>7 DEF WriteSfo, history, Serves
  <2>2. \E label \in {"icon", "close", "err"}, d \in {job[a].pkg, Cut} :
          fs' = Put(<<Name(a), "sfo">>, d) /\ Goto(a, label)
    BY <1>7 DEF WriteSfo, history
  <2>. QED
    BY <2>1, <2>2, BaseWrites DEF Pcs, Kinds
<1>8. CASE WriteIcon(a)
  <2>1. /\ job[a].pc = "icon" /\ UNCHANGED <<now, requests, nextId, killed, handed, refused>>
        /\ job[a].pkg \in Pkgs
    BY <1>0, <1>8 DEF WriteIcon, history, Serves
  <2>2. \E label \in {"close", "err"}, d \in {job[a].pkg, Cut} :
          fs' = Put(<<Name(a), "png">>, d) /\ Goto(a, label)
    BY <1>8 DEF WriteIcon, history
  <2>. QED
    BY <2>1, <2>2, BaseWrites DEF Pcs, Kinds
<1>9. CASE CloseJson(a)
  <2>1. /\ job[a].pc = "close" /\ UNCHANGED <<now, requests, nextId, killed, handed, refused>>
        /\ job[a].pkg \in Pkgs /\ Goto(a, "load")
    BY <1>0, <1>9 DEF CloseJson, Serves
  <2>2. \E d \in {job[a].pkg, Cut} : fs' = Put(<<Name(a), "json">>, d)
    BY <1>9 DEF CloseJson
  <2>. QED
    BY <2>1, <2>2, BaseWrites DEF Pcs, Kinds
<1>10. CASE LoadSfo(a)
  <2>1. /\ job[a].pc = "load"
        /\ UNCHANGED <<now, requests, fs, nextId, killed, handed, refused>>
    BY <1>10 DEF LoadSfo, history
  <2>2. CASE Goto(a, "err")
    BY <2>1, <2>2, BaseSteps DEF Pcs
  <2>3. CASE /\ <<Name(a), "sfo">> \in DOMAIN fs
             /\ job' = [job EXCEPT ![a].pc = "register",
                                   ![a].meta = fs[<<Name(a), "sfo">>].data]
    <3>. DEFINE m == fs[<<Name(a), "sfo">>].data
                j == [job[a] EXCEPT !.pc = "register", !.meta = m]
    <3>1. m \in Pkgs \union {None, Cut}
      BY <1>0, <2>3 DEF IsDir
    <3>2. job' = [job EXCEPT ![a] = j]
      BY <2>3
    <3>. HIDE DEF m
    <3>3. j \in Job /\ j.pc = "register" /\ j.at = job[a].at /\ j.pkg = job[a].pkg
      BY <1>0, <3>1 DEF Job, Pcs
    <3>. HIDE DEF j
    <3>4. Moved(a, "register") /\ IsDir(fs)'
      BY <1>0, <2>1, <3>2, <3>3, Changed DEF IsDir
    <3>. QED
      BY <2>1, <3>4, BaseGoes DEF Pcs
  <2>. QED
    BY <1>10, <2>2, <2>3 DEF LoadSfo, history
<1>11. CASE RegisterOk(a)
  <2>1. /\ job[a].pc = "register" /\ nextId' = nextId + 1
        /\ handed' = handed \union {Name(a)}
        /\ Answer(a, [ok |-> TRUE, id |-> nextId, code |-> None])
        /\ UNCHANGED <<now, requests, fs, killed, refused>>
    BY <1>11 DEF RegisterOk
  <2>2. a \in Pending /\ CountInv
    BY <2>1 DEF Pending, BaseInv
  <2>3. /\ IsFiniteSet(Pending \ {a}) /\ Cardinality(Pending \ {a}) = Cardinality(Pending) - 1
        /\ Cardinality(Pending) \in Nat /\ Cardinality(Pending \ {a}) \in Nat
    BY <2>2, FS_RemoveElement, FS_CardinalityType DEF CountInv
  <2>4. nextId + 1 + Cardinality(Pending \ {a}) <= requests /\ nextId \in -1..MaxInstalls
    BY <1>0, <2>2, <2>3, InstallAssumption DEF CountInv, Typed
  <2>5. Moved(a, "finish") /\ IsDir(fs)'
    BY <1>0, <2>1, <2>4, Answers DEF IsDir
  <2>6. Pending' = Pending \ {a}
    BY <2>1, <2>5 DEF Pending, Moved
  <2>7. CountInv'
    BY <2>1, <2>2, <2>3, <2>4, <2>6 DEF CountInv
  <2>. QED
    BY <2>1, <2>5, <2>7, BaseMoves DEF Pcs
<1>12. CASE RegisterSame(a) \/ RegisterFails(a)
  <2>1. /\ job[a].pc = "register" /\ refused' = refused \union {Name(a)}
        /\ UNCHANGED <<now, requests, fs, nextId, killed, handed>>
    BY <1>12 DEF RegisterSame, RegisterFails
  <2>2. \E ok \in BOOLEAN, code \in {"same", "bgft", "unset"} :
          Answer(a, [ok |-> ok, id |-> -1, code |-> code])
    BY <1>12 DEF RegisterSame, RegisterFails
  <2>3. Moved(a, "finish") /\ IsDir(fs)'
    BY <1>0, <2>1, <2>2, Answers, InstallAssumption DEF IsDir
  <2>. QED
    BY <2>1, <2>3, BaseGoes DEF Pcs
<1>13. CASE Finish(a)
  <2>1. /\ job[a].pc = "finish" /\ fs' = Without({<<Name(a), "sfo">>})
        /\ job' = [job EXCEPT ![a] = Idle]
        /\ UNCHANGED <<now, requests, nextId, handed, refused, killed>>
    BY <1>13 DEF Finish, history
  <2>2. /\ Ended(a) /\ IsDir(fs)' /\ DOMAIN fs' = DOMAIN fs \ {<<Name(a), "sfo">>}
    BY <1>0, <2>1, Ends, WithoutTyped
  <2>3. \A f \in DOMAIN fs' : f[1] = Name(a) => f[1] \in handed \union refused /\ f[2] # "sfo"
    BY <1>0, <2>1, <2>2, OwnFile DEF Serves
  <2>. QED
    BY <2>1, <2>2, <2>3, BaseEnds
<1>14. CASE Fail(a)
  <2>1. /\ fs' = Without(Files(Name(a))) /\ job' = [job EXCEPT ![a] = Idle]
        /\ UNCHANGED <<now, requests, nextId, handed, refused, killed>>
    BY <1>14 DEF Fail, history
  <2>2. /\ Ended(a) /\ IsDir(fs)' /\ DOMAIN fs' = DOMAIN fs \ Files(Name(a))
    BY <1>0, <2>1, Ends, WithoutTyped
  <2>3. \A f \in DOMAIN fs' : f[1] # Name(a)
    BY <1>0, <2>2, OwnFile
  <2>. QED
    BY <2>1, <2>2, <2>3, BaseEnds
<1>. QED
  BY <1>1, <1>2, <1>3, <1>4, <1>5, <1>6, <1>7, <1>8, <1>9, <1>10, <1>11, <1>12, <1>13, <1>14
     DEF InstallStep

\* Steps that leave the installs and the names of the files alone.
LEMMA BaseAside ==
  ASSUME BaseInv, UNCHANGED <<job, requests, nextId, handed, refused, killed>>,
         now' \in 0..MaxTime, IsDir(fs)', DOMAIN fs' \subseteq DOMAIN fs
  PROVE  BaseInv'
<1>1. Typed'
  BY DEF BaseInv, Typed
<1>2. CountInv'
  BY DEF BaseInv, CountInv, Pending
<1>3. \A a \in Addr : Serves(a)'
  BY DEF BaseInv, Serves, Name
<1>4. NoStrayFiles'
  BY DEF BaseInv, NoStrayFiles, Name
<1>. QED
  BY <1>1, <1>2, <1>3, <1>4 DEF BaseInv

LEMMA FetchTyped ==
  ASSUME Typed, NEW n, <<n, "json">> \in DOMAIN fs,
         fs' = [fs EXCEPT ![<<n, "json">>].atime = now]
  PROVE  /\ IsDir(fs)' /\ DOMAIN fs' = DOMAIN fs
         /\ \A f \in DOMAIN fs : /\ fs'[f].data = fs[f].data
                                 /\ fs'[f].atime \in {fs[f].atime, now}
<1>1. DOMAIN fs' = DOMAIN fs
  OBVIOUS
<1>2. ASSUME NEW f \in DOMAIN fs PROVE /\ fs'[f].data = fs[f].data
                                       /\ fs'[f].atime \in {fs[f].atime, now}
  OBVIOUS
<1>. QED
  BY <1>1, <1>2 DEF Typed, IsDir

LEMMA RestartTyped ==
  ASSUME Typed, Restart
  PROVE  /\ IsDir(fs)' /\ DOMAIN fs' \subseteq DOMAIN fs
         /\ \A f \in DOMAIN fs' : fs'[f] = fs[f]
         /\ \A f \in DOMAIN fs \ DOMAIN fs' : Stale(f, now)
<1>1. PICK after \in SUBSET DOMAIN fs : /\ CleanupTempFiles(DOMAIN fs, after)
                                        /\ fs' = Restrict(fs, after)
  BY DEF Restart
<1>2. fs' = [x \in after |-> fs[x]]
  BY <1>1 DEF Restrict
<1>3. \A f \in DOMAIN fs \ after : Stale(f, now)
  BY <1>1 DEF CleanupTempFiles
<1>4. DOMAIN fs' = after /\ \A f \in after : fs'[f] = fs[f]
  BY <1>2
<1>. QED
  BY <1>1, <1>3, <1>4 DEF Typed, IsDir

LEMMA RestartBase ==
  ASSUME BaseInv, Restart
  PROVE  BaseInv'
<1>0. Typed /\ requests \in Nat
  BY InstallAssumption DEF BaseInv, Typed
<1>1. /\ job' = [a \in Addr |-> Idle]
      /\ killed' = killed \union {Name(a) : a \in {b \in Addr : job[b].pc # "idle"}}
      /\ UNCHANGED <<now, requests, nextId, handed, refused>>
  BY DEF Restart
<1>2. IsDir(fs)' /\ DOMAIN fs' \subseteq DOMAIN fs
  BY <1>0, RestartTyped
<1>3. Typed'
  BY <1>0, <1>1, <1>2, IdleTyped DEF Typed
<1>4. \A a \in Addr : job'[a].pc = "idle"
  BY <1>1 DEF Idle
<1>5. CountInv'
  <2>1. Pending' \subseteq Pending
    BY <1>4 DEF Pending
  <2>. QED
    BY <1>0, <1>1, <2>1, CountKept DEF BaseInv
<1>6. \A a \in Addr : Serves(a)'
  BY <1>4 DEF Serves
<1>7. NoStrayFiles'
  BY <1>1, <1>2 DEF BaseInv, NoStrayFiles
<1>. QED
  BY <1>3, <1>5, <1>6, <1>7 DEF BaseInv

LEMMA BaseStart == Init => BaseInv
<1>. SUFFICES ASSUME Init PROVE BaseInv
  OBVIOUS
<1>1. Typed
  BY IdleTyped, NoFiles, InstallAssumption DEF Init, Typed, IsDir
<1>2. Pending = {}
  BY DEF Init, Pending, Idle
<1>3. CountInv
  <2>1. IsFiniteSet(Pending) /\ Cardinality(Pending) = 0
    BY <1>2, FS_EmptySet
  <2>. QED
    BY <2>1 DEF Init, CountInv
<1>4. \A a \in Addr : Serves(a)
  BY DEF Init, Serves, Idle
<1>5. NoStrayFiles
  BY NoFiles DEF Init, NoStrayFiles
<1>. QED
  BY <1>1, <1>3, <1>4, <1>5 DEF BaseInv

LEMMA BaseInductive ==
  ASSUME BaseInv, [Next]_vars
  PROVE  BaseInv'
<1>0. Typed /\ IsDir(fs) /\ now \in 0..MaxTime
  BY DEF BaseInv, Typed
<1>1. ASSUME NEW a \in Addr, InstallStep(a) PROVE BaseInv'
  BY <1>1, BaseStep
<1>2. CASE StartTask \/ UnregisterTask \/ CompleteTask
  <2>1. UNCHANGED <<now, job, requests, fs, nextId, handed, refused, killed>>
    BY <1>2 DEF StartTask, UnregisterTask, CompleteTask, history
  <2>. QED
    BY <1>0, <2>1, BaseAside
<1>3. CASE FetchJson
  <2>1. UNCHANGED <<now, job, requests, nextId, handed, refused, killed>>
    BY <1>3 DEF FetchJson, history
  <2>2. \E n : <<n, "json">> \in DOMAIN fs /\ fs' = [fs EXCEPT ![<<n, "json">>].atime = now]
    BY <1>3 DEF FetchJson
  <2>3. IsDir(fs)' /\ DOMAIN fs' = DOMAIN fs
    BY <1>0, <2>2, FetchTyped
  <2>. QED
    BY <1>0, <2>1, <2>3, BaseAside
<1>4. CASE Tick
  <2>1. UNCHANGED <<job, requests, fs, nextId, handed, refused, killed>> /\ now' \in 0..MaxTime
    BY <1>0, <1>4, InstallAssumption DEF Tick, history
  <2>. QED
    BY <1>0, <2>1, BaseAside
<1>5. CASE Restart
  BY <1>5, RestartBase
<1>6. CASE UNCHANGED vars
  BY <1>0, <1>6, BaseAside DEF vars, history
<1>. QED
  BY <1>1, <1>2, <1>3, <1>4, <1>5, <1>6 DEF Next


-------------------------------------------------------------------------------
(* Whose a file is *)

Task == [id : 0..MaxInstalls, pkg : Pkgs \union {Cut}, name : Names, icon : BOOLEAN,
         started : BOOLEAN]

\* Two installs got the name n.
Shared(n) == <<n, "reused">> \in spoilt

\* Nothing happened to the files of the name n.
Clean(n) == \A c \in Causes : <<n, c>> \notin spoilt

\* Names are recorded as they are given out.
Recorded == /\ \A a \in Addr : job[a].pc # "idle" => Name(a) \in used
            /\ \A t \in tasks : t.name \in used

\* Two installs in progress have different names or one that is known to be shared.
Distinct ==
  \A a, b \in Addr : a # b /\ job[a].pc # "idle" /\ job[b].pc # "idle" /\ Name(a) = Name(b)
                     => Shared(Name(a))

\* So have a task and an install that still writes or unlinks its files.
Apart ==
  \A t \in tasks, a \in Addr :
    job[a].pc \notin {"idle", "finish"} /\ t.name = Name(a) => Shared(t.name)

Holds(f, p) == f \in DOMAIN fs /\ fs[f].data = p

\* What an install has written, step by step, and what it has read back.
Written(a) ==
  LET pc == job[a].pc  p == job[a].pkg IN
  /\ ~Shared(Name(a)) =>
       /\ pc \in {"icon", "close", "load"} => Holds(<<Name(a), "sfo">>, p)
       /\ pc \in {"close", "load", "register"} /\ job[a].icon => Holds(<<Name(a), "png">>, p)
       /\ pc = "register" => job[a].meta = p
  /\ Clean(Name(a)) /\ pc \in {"load", "register"} => Holds(<<Name(a), "json">>, p)
  /\ pc = "register" => job[a].meta \in Pkgs \union {Cut}

\* FilesStayForTask, in the words of this module.
TasksHold ==
  \A t \in tasks :
    Clean(t.name) => /\ Holds(<<t.name, "json">>, t.pkg)
                     /\ t.icon => Holds(<<t.name, "png">>, t.pkg)

TaskInv ==
  /\ BaseInv
  /\ tasks \subseteq Task /\ installed \subseteq Pkgs \union {Cut}
  /\ Recorded /\ Distinct /\ Apart
  /\ \A a \in Addr : Written(a)
  /\ TasksHold

LEMMA CleanIsUnshared == ASSUME NEW n, Clean(n) PROVE ~Shared(n)
BY DEF Clean, Shared, Causes

\* Only files of the install at a change.
Touches(a) ==
  /\ \A f \in DOMAIN fs : f[1] # Name(a) => f \in DOMAIN fs' /\ fs'[f] = fs[f]
  /\ \A f \in DOMAIN fs' : \/ f \in DOMAIN fs /\ fs'[f] = fs[f]
                           \/ f[1] = Name(a)

LEMMA PutTouches ==
  ASSUME Typed, NEW a \in Addr, NEW k \in Kinds, NEW d \in Pkgs \union {Cut},
         fs' = Put(<<Name(a), k>>, d)
  PROVE  Touches(a)
<1>1. /\ DOMAIN fs' = DOMAIN fs \union {<<Name(a), k>>}
      /\ \A f \in DOMAIN fs \ {<<Name(a), k>>} : fs'[f] = fs[f]
  BY PutTyped
<1>. DEFINE g == <<Name(a), k>>
<1>2. g[1] = Name(a)
  OBVIOUS
<1>3. /\ DOMAIN fs' = DOMAIN fs \union {g}
      /\ \A f \in DOMAIN fs \ {g} : fs'[f] = fs[f]
  BY <1>1
<1>. HIDE DEF g
<1>. QED
  BY <1>2, <1>3 DEF Touches

LEMMA WithoutTouches ==
  ASSUME Typed, NEW a \in Addr, NEW S \in SUBSET Files(Name(a)), fs' = Without(S)
  PROVE  Touches(a)
<1>1. DOMAIN fs' = DOMAIN fs \ S /\ \A f \in DOMAIN fs' : fs'[f] = fs[f]
  BY WithoutTyped
<1>2. \A f \in S : f[1] = Name(a)
  BY DEF Files
<1>. QED
  BY <1>1, <1>2 DEF Touches

LEMMA Untouched ==
  ASSUME NEW a \in Addr, fs' = fs
  PROVE  Touches(a)
BY DEF Touches

\* What is in the files of other names stays.
LEMMA HoldsOn ==
  ASSUME NEW a \in Addr, Touches(a), NEW n, n # Name(a), NEW k, NEW p, Holds(<<n, k>>, p)
  PROVE  <<n, k>> \in DOMAIN fs' /\ fs'[<<n, k>>].data = p
<1>. DEFINE f == <<n, k>>
<1>1. f[1] # Name(a) /\ f \in DOMAIN fs /\ fs[f].data = p
  BY DEF Holds
<1>. HIDE DEF f
<1>2. f \in DOMAIN fs' /\ fs'[f] = fs[f]
  BY <1>1 DEF Touches
<1>. QED
  BY <1>1, <1>2 DEF f

\* An install whose name is not shared sees nothing of the others.
LEMMA OthersWritten ==
  ASSUME Distinct, NEW a \in Addr, NEW b \in Addr, a # b, Touches(a), job[a].pc # "idle",
         job'[b] = job[b], spoilt \subseteq spoilt', Written(b)
  PROVE  Written(b)'
<1>1. Name(b)' = Name(b)
  BY DEF Name
<1>2. CASE job[b].pc = "idle"
  BY <1>2 DEF Written
<1>3. CASE Shared(Name(b)) /\ job[b].pc # "idle"
  <2>1. Shared(Name(b))' /\ ~Clean(Name(b))'
    BY <1>1, <1>3 DEF Shared, Clean, Causes
  <2>. QED
    BY <1>1, <2>1 DEF Written
<1>4. CASE ~Shared(Name(b)) /\ job[b].pc # "idle"
  <2>1. Name(b) # Name(a)
    BY <1>4 DEF Distinct
  <2>2. \A k, p : Holds(<<Name(b), k>>, p) => Holds(<<Name(b), k>>, p)'
    BY <1>1, <2>1, HoldsOn DEF Holds
  <2>3. Clean(Name(b))' => Clean(Name(b))
    BY <1>1 DEF Clean
  <2>. QED
    BY <1>1, <1>4, <2>2, <2>3 DEF Written, Holds
<1>. QED
  BY <1>2, <1>3, <1>4

\* Nor does a task.
LEMMA TasksKeepFiles ==
  ASSUME TasksHold, NEW a \in Addr, Touches(a), tasks' = tasks, spoilt \subseteq spoilt',
         \/ \A t \in tasks : t.name = Name(a) => Shared(t.name)
         \/ \A f \in DOMAIN fs : f[2] # "sfo" => f \in DOMAIN fs' /\ fs'[f] = fs[f]
  PROVE  TasksHold'
<1>1. ASSUME NEW t \in tasks, Clean(t.name), NEW k \in {"json", "png"}, Holds(<<t.name, k>>, t.pkg)
      PROVE  <<t.name, k>> \in DOMAIN fs' /\ fs'[<<t.name, k>>].data = t.pkg
  <2>. DEFINE f == <<t.name, k>>
  <2>1. f[1] = t.name /\ f[2] # "sfo" /\ f \in DOMAIN fs /\ fs[f].data = t.pkg
    BY <1>1 DEF Holds
  <2>. HIDE DEF f
  <2>2. f \in DOMAIN fs' /\ fs'[f] = fs[f]
    BY <1>1, <2>1, CleanIsUnshared DEF Touches
  <2>. QED
    BY <2>1, <2>2 DEF f
<1>2. \A t \in tasks : (\A c \in Causes : <<t.name, c>> \notin spoilt') => Clean(t.name)
  BY DEF Clean
<1>. QED
  BY <1>1, <1>2 DEF TasksHold, Holds, Clean

\* A step of an install before its task is registered, or that registers none.
LEMMA TaskMoves ==
  ASSUME TaskInv, BaseInv', NEW a \in Addr, NEW label \in Pcs \ {"idle"},
         Moved(a, label), job[a].pc \notin {"idle", "finish"},
         UNCHANGED <<tasks, installed, used>>, spoilt \subseteq spoilt', Touches(a), Written(a)'
  PROVE  TaskInv'
<1>1. \A b \in Addr : Name(b)' = Name(b) /\ (job'[b].pc = "idle" <=> job[b].pc = "idle")
  BY DEF Moved, Name
<1>2. Recorded'
  BY <1>1 DEF TaskInv, Recorded
<1>3. Distinct'
  BY <1>1 DEF TaskInv, Distinct, Shared
<1>4. \A b \in Addr : job'[b].pc \notin {"idle", "finish"} => job[b].pc \notin {"idle", "finish"}
  BY DEF Moved
<1>5. Apart'
  BY <1>1, <1>4 DEF TaskInv, Apart, Shared
<1>6. ASSUME NEW b \in Addr PROVE Written(b)'
  <2>1. CASE b # a
    BY <2>1, OthersWritten DEF TaskInv, Moved
  <2>. QED
    BY <2>1
<1>7. TasksHold'
  <2>1. \A t \in tasks : t.name = Name(a) => Shared(t.name)
    BY DEF TaskInv, Apart
  <2>. QED
    BY <2>1, TasksKeepFiles DEF TaskInv
<1>. QED
  BY <1>2, <1>3, <1>5, <1>6, <1>7 DEF TaskInv

\* The end of an install.
LEMMA TaskEnds ==
  ASSUME TaskInv, BaseInv', NEW a \in Addr, Ended(a), job[a].pc # "idle",
         UNCHANGED <<tasks, installed, used, spoilt>>, Touches(a),
         job[a].pc = "finish" =>
           \A f \in DOMAIN fs : f[2] # "sfo" => f \in DOMAIN fs' /\ fs'[f] = fs[f]
  PROVE  TaskInv'
<1>1. job'[a].pc = "idle" /\ \A b \in Addr \ {a} : Name(b)' = Name(b) /\ job'[b] = job[b]
  BY DEF Ended, Name, Idle
<1>2. Recorded'
  BY <1>1 DEF TaskInv, Recorded
<1>3. Distinct'
  BY <1>1 DEF TaskInv, Distinct, Shared
<1>4. Apart'
  BY <1>1 DEF TaskInv, Apart, Shared
<1>5. ASSUME NEW b \in Addr PROVE Written(b)'
  <2>1. CASE b # a
    BY <1>1, <2>1, OthersWritten DEF TaskInv
  <2>2. CASE b = a
    BY <1>1, <2>2 DEF Written
  <2>. QED
    BY <2>1, <2>2
<1>6. TasksHold'
  <2>1. CASE job[a].pc = "finish"
    BY <2>1, TasksKeepFiles DEF TaskInv
  <2>2. CASE job[a].pc # "finish"
    <3>1. \A t \in tasks : t.name = Name(a) => Shared(t.name)
      BY <2>2 DEF TaskInv, Apart
    <3>. QED
      BY <3>1, TasksKeepFiles DEF TaskInv
  <2>. QED
    BY <2>1, <2>2
<1>. QED
  BY <1>2, <1>3, <1>4, <1>5, <1>6 DEF TaskInv

\* A name that was given out before is recorded as shared.
LEMMA RequestTask ==
  ASSUME TaskInv, BaseInv', NEW a \in Addr, Request(a)
  PROVE  TaskInv'
<1>0. Typed
  BY DEF TaskInv, BaseInv
<1>. DEFINE n == TmpName(now, a)
<1>1. PICK p \in Pkgs : job' = [job EXCEPT ![a] = [Idle EXCEPT !.pc = "lang", !.at = now,
                                                             !.pkg = p]]
  BY DEF Request
<1>2. /\ job[a].pc = "idle" /\ used' = used \union {n}
      /\ spoilt' = spoilt \union (IF n \in used THEN {<<n, "reused">>} ELSE {})
      /\ UNCHANGED <<fs, tasks, installed>>
  BY DEF Request
<1>3. /\ job'[a].pc = "lang" /\ job'[a].at = now
      /\ \A b \in Addr \ {a} : job'[b] = job[b] /\ Name(b)' = Name(b)
  BY <1>0, <1>1 DEF Typed, Idle, Name
<1>4. Name(a)' = n
  BY <1>3 DEF Name
<1>. HIDE DEF n
<1>5. spoilt \subseteq spoilt' /\ (n \in used => <<n, "reused">> \in spoilt')
  BY <1>2
<1>6. Recorded'
  BY <1>2, <1>3, <1>4 DEF TaskInv, Recorded
<1>7. Distinct'
  <2>1. \A b \in Addr \ {a} : job'[b].pc # "idle" => Name(b) \in used
    BY <1>3 DEF TaskInv, Recorded
  <2>2. ASSUME NEW b \in Addr, NEW c \in Addr, b # c, job'[b].pc # "idle", job'[c].pc # "idle",
               Name(b)' = Name(c)'
        PROVE  <<Name(b)', "reused">> \in spoilt'
    <3>1. CASE b = a \/ c = a
      BY <1>3, <1>4, <1>5, <2>1, <2>2, <3>1
    <3>2. CASE b # a /\ c # a
      BY <1>3, <1>5, <2>2, <3>2 DEF TaskInv, Distinct, Shared
    <3>. QED
      BY <3>1, <3>2
  <2>. QED
    BY <2>2 DEF Distinct, Shared
<1>8. Apart'
  <2>1. ASSUME NEW t \in tasks, NEW b \in Addr, job'[b].pc \notin {"idle", "finish"},
               t.name = Name(b)'
        PROVE  <<t.name, "reused">> \in spoilt'
    <3>1. CASE b = a
      BY <1>4, <1>5, <2>1, <3>1 DEF TaskInv, Recorded
    <3>2. CASE b # a
      BY <1>3, <1>5, <2>1, <3>2 DEF TaskInv, Apart, Shared
    <3>. QED
      BY <3>1, <3>2
  <2>. QED
    BY <1>2, <2>1 DEF Apart, Shared
<1>9. ASSUME NEW b \in Addr PROVE Written(b)'
  <2>1. CASE b = a
    BY <1>3, <2>1 DEF Written
  <2>2. CASE b # a
    <3>1. Name(b)' = Name(b) /\ job'[b] = job[b] /\ Written(b)
      BY <1>3, <2>2 DEF TaskInv
    <3>2. (~Shared(Name(b))' => ~Shared(Name(b))) /\ (Clean(Name(b))' => Clean(Name(b)))
      BY <1>5, <3>1 DEF Shared, Clean
    <3>. QED
      BY <1>2, <3>1, <3>2 DEF Written, Holds
  <2>. QED
    BY <2>1, <2>2
<1>10. TasksHold'
  BY <1>2, <1>5 DEF TaskInv, TasksHold, Holds, Clean
<1>. QED
  BY <1>2, <1>6, <1>7, <1>8, <1>9, <1>10 DEF TaskInv

LEMMA RegisterTask ==
  ASSUME TaskInv, BaseInv', NEW a \in Addr, RegisterOk(a)
  PROVE  TaskInv'
<1>. DEFINE t0 == [id |-> nextId, pkg |-> job[a].meta, name |-> Name(a),
                   icon |-> job[a].icon, started |-> FALSE]
<1>0. Typed /\ job[a] \in Job /\ Serves(a) /\ Written(a) /\ CountInv
  BY DEF TaskInv, BaseInv, Typed
<1>1. /\ job[a].pc = "register" /\ tasks' = tasks \union {t0}
      /\ Answer(a, [ok |-> TRUE, id |-> nextId, code |-> None])
      /\ UNCHANGED <<fs, installed, used, spoilt>>
  BY DEF RegisterOk
<1>2. nextId \in 0..MaxInstalls
  <2>1. Cardinality(Pending) \in Nat
    BY <1>0, FS_CardinalityType DEF CountInv
  <2>. QED
    BY <1>0, <2>1, InstallAssumption DEF CountInv, Typed
<1>3. nextId \in -1..MaxInstalls
  BY <1>2, InstallAssumption
<1>4. Moved(a, "finish")
  BY <1>0, <1>1, <1>3, Answers
<1>5. job[a].meta \in Pkgs \union {Cut}
  BY <1>0, <1>1 DEF Written
<1>6. t0 \in Task /\ t0.name = Name(a) /\ t0.pkg = job[a].meta /\ t0.icon = job[a].icon
  BY <1>0, <1>2, <1>5, NameTyped DEF Task, Job
<1>. HIDE DEF t0
<1>7. \A b \in Addr : Name(b)' = Name(b) /\ (job'[b].pc = "idle" <=> job[b].pc = "idle")
  BY <1>1, <1>4 DEF Moved, Name
<1>8. Touches(a)
  BY <1>1, Untouched
<1>9. Recorded'
  BY <1>1, <1>6, <1>7 DEF TaskInv, Recorded
<1>10. Distinct'
  BY <1>1, <1>7 DEF TaskInv, Distinct, Shared
<1>11. Apart'
  <2>1. ASSUME NEW t \in tasks', NEW b \in Addr, job'[b].pc \notin {"idle", "finish"},
               t.name = Name(b)'
        PROVE  Shared(t.name)
    <3>1. b # a /\ job[b].pc \notin {"idle", "finish"} /\ Name(b)' = Name(b)
      BY <1>4, <1>7, <2>1 DEF Moved
    <3>2. CASE t = t0
      BY <1>1, <1>6, <2>1, <3>1, <3>2 DEF TaskInv, Distinct
    <3>3. CASE t \in tasks
      BY <2>1, <3>1, <3>3 DEF TaskInv, Apart
    <3>. QED
      BY <1>1, <2>1, <3>2, <3>3
  <2>. QED
    BY <1>1, <2>1 DEF Apart, Shared
<1>12. ASSUME NEW b \in Addr PROVE Written(b)'
  <2>1. CASE b # a
    BY <1>1, <1>4, <1>8, <2>1, OthersWritten DEF TaskInv, Moved
  <2>2. CASE b = a
    BY <1>4, <2>2 DEF Written, Moved
  <2>. QED
    BY <2>1, <2>2
<1>13. TasksHold'
  <2>1. ASSUME Clean(t0.name)
        PROVE  /\ Holds(<<t0.name, "json">>, t0.pkg)
               /\ t0.icon => Holds(<<t0.name, "png">>, t0.pkg)
    <3>1. ~Shared(Name(a)) /\ Clean(Name(a))
      BY <1>6, <2>1, CleanIsUnshared
    <3>2. /\ job[a].meta = job[a].pkg /\ Holds(<<Name(a), "json">>, job[a].pkg)
          /\ job[a].icon => Holds(<<Name(a), "png">>, job[a].pkg)
      BY <1>0, <1>1, <3>1 DEF Written
    <3>. QED
      BY <1>6, <3>2
  <2>. QED
    BY <1>1, <2>1 DEF TaskInv, TasksHold, Holds, Clean
<1>. QED
  BY <1>1, <1>6, <1>9, <1>10, <1>11, <1>12, <1>13 DEF TaskInv

\* Steps to a label at which nothing is owed yet.
LEMMA TaskGoes ==
  ASSUME TaskInv, BaseInv', NEW a \in Addr,
         NEW label \in Pcs \ {"idle", "icon", "close", "load", "register"},
         Moved(a, label), job[a].pc \notin {"idle", "finish"},
         UNCHANGED <<tasks, installed, used>>, spoilt \subseteq spoilt', Touches(a)
  PROVE  TaskInv'
<1>1. Written(a)'
  BY DEF Written, Moved
<1>. QED
  BY <1>1, TaskMoves

LEMMA WritesTask ==
  ASSUME TaskInv, BaseInv', NEW a \in Addr,
         WriteSfo(a) \/ WriteIcon(a) \/ CloseJson(a)
  PROVE  TaskInv'
<1>0. Typed /\ Written(a) /\ Serves(a)
  BY DEF TaskInv, BaseInv
<1>1. /\ UNCHANGED <<tasks, installed, used>> /\ spoilt \subseteq spoilt'
      /\ job[a].pc \notin {"idle", "finish"}
  BY DEF WriteSfo, WriteIcon, CloseJson, history
<1>2. job[a].pkg \in Pkgs
  BY <1>0, <1>1 DEF Serves
<1>3. ASSUME NEW k \in Kinds, NEW label \in Pcs, NEW d \in {job[a].pkg, Cut},
             fs' = Put(<<Name(a), k>>, d), Goto(a, label)
      PROVE  /\ Moved(a, label) /\ job'[a].icon = job[a].icon /\ Touches(a)
             /\ Name(a)' = Name(a)
             /\ d = job[a].pkg => Holds(<<Name(a), k>>, job[a].pkg)'
             /\ \A h \in Kinds \ {k} : Holds(<<Name(a), h>>, job[a].pkg) =>
                                         Holds(<<Name(a), h>>, job[a].pkg)'
  <2>1. Moved(a, label) /\ job'[a].icon = job[a].icon /\ Touches(a)
    BY <1>0, <1>2, <1>3, Goes, PutTouches
  <2>2. Name(a)' = Name(a) /\ job'[a].pkg = job[a].pkg
    BY <2>1 DEF Moved, Name
  <2>3. /\ DOMAIN fs' = DOMAIN fs \union {<<Name(a), k>>}
        /\ fs'[<<Name(a), k>>] = [data |-> d, atime |-> now]
        /\ \A f \in DOMAIN fs \ {<<Name(a), k>>} : fs'[f] = fs[f]
    BY <1>0, <1>2, <1>3, PutTyped
  <2>4. d = job[a].pkg => Holds(<<Name(a), k>>, job[a].pkg)'
    BY <2>2, <2>3 DEF Holds
  <2>5. ASSUME NEW h \in Kinds \ {k}, Holds(<<Name(a), h>>, job[a].pkg)
        PROVE  Holds(<<Name(a), h>>, job[a].pkg)'
    BY <2>2, <2>3, <2>5 DEF Holds
  <2>. QED
    BY <2>1, <2>2, <2>4, <2>5
<1>4. ASSUME NEW k \in Kinds, fs' = Put(<<Name(a), k>>, Cut), Goto(a, "err")
      PROVE  TaskInv'
  <2>1. Moved(a, "err") /\ Touches(a)
    BY <1>0, <1>4, Goes, PutTouches DEF Pcs
  <2>. QED
    BY <1>1, <2>1, TaskGoes DEF Pcs
<1>5. CASE WriteSfo(a)
  <2>1. ASSUME NEW label \in {"icon", "close"}, label = "close" => ~job[a].icon,
               fs' = Put(<<Name(a), "sfo">>, job[a].pkg), Goto(a, label)
        PROVE  TaskInv'
    <3>1. /\ Moved(a, label) /\ job'[a].icon = job[a].icon /\ Touches(a)
          /\ Holds(<<Name(a), "sfo">>, job[a].pkg)'
      BY <1>3, <2>1 DEF Kinds, Pcs
    <3>2. Written(a)'
      BY <2>1, <3>1 DEF Written, Moved
    <3>. QED
      BY <1>1, <3>1, <3>2, TaskMoves DEF Pcs
  <2>2. job[a].icon \in BOOLEAN
    BY <1>0 DEF Typed, Job
  <2>. QED
    BY <1>4, <1>5, <2>1, <2>2 DEF WriteSfo, history, Kinds
<1>6. CASE WriteIcon(a)
  <2>1. ASSUME fs' = Put(<<Name(a), "png">>, job[a].pkg), Goto(a, "close")
        PROVE  TaskInv'
    <3>1. ~Shared(Name(a)) => Holds(<<Name(a), "sfo">>, job[a].pkg)
      BY <1>0, <1>6 DEF Written, WriteIcon
    <3>2. /\ Moved(a, "close") /\ Touches(a) /\ Name(a)' = Name(a)
          /\ Holds(<<Name(a), "png">>, job[a].pkg)'
          /\ ~Shared(Name(a)) => Holds(<<Name(a), "sfo">>, job[a].pkg)'
      BY <1>3, <2>1, <3>1 DEF Kinds, Pcs
    <3>3. Shared(Name(a)) => Shared(Name(a))'
      BY <1>1, <3>2 DEF Shared
    <3>4. job'[a].pc = "close" /\ job'[a].pkg = job[a].pkg
      BY <3>2 DEF Moved
    <3>5. Written(a)'
      BY <3>2, <3>3, <3>4 DEF Written
    <3>. QED
      BY <1>1, <3>2, <3>5, TaskMoves DEF Pcs
  <2>. QED
    BY <1>4, <1>6, <2>1 DEF WriteIcon, history, Kinds
<1>7. CASE CloseJson(a)
  <2>1. PICK d \in {job[a].pkg, Cut} :
          /\ fs' = Put(<<Name(a), "json">>, d)
          /\ d = job[a].pkg \/ <<Name(a), "full">> \in spoilt'
    BY <1>7 DEF CloseJson
  <2>2. job[a].pc = "close" /\ Goto(a, "load")
    BY <1>7 DEF CloseJson
  <2>3. ~Shared(Name(a)) => /\ Holds(<<Name(a), "sfo">>, job[a].pkg)
                            /\ job[a].icon => Holds(<<Name(a), "png">>, job[a].pkg)
    BY <1>0, <2>2 DEF Written
  <2>4. /\ Moved(a, "load") /\ Touches(a) /\ job'[a].icon = job[a].icon /\ Name(a)' = Name(a)
        /\ d = job[a].pkg => Holds(<<Name(a), "json">>, job[a].pkg)'
        /\ \A h \in Kinds \ {"json"} : Holds(<<Name(a), h>>, job[a].pkg) =>
                                        Holds(<<Name(a), h>>, job[a].pkg)'
    BY <1>3, <2>1, <2>2 DEF Kinds, Pcs
  <2>5. ~Shared(Name(a))' => /\ Holds(<<Name(a), "sfo">>, job[a].pkg)'
                             /\ job[a].icon => Holds(<<Name(a), "png">>, job[a].pkg)'
    BY <1>1, <2>3, <2>4 DEF Shared, Kinds
  <2>6. Clean(Name(a))' => Holds(<<Name(a), "json">>, job[a].pkg)'
    BY <2>1, <2>4 DEF Clean, Causes
  <2>7. job'[a].pc = "load" /\ job'[a].pkg = job[a].pkg
    BY <2>4 DEF Moved
  <2>8. Written(a)'
    BY <2>4, <2>5, <2>6, <2>7 DEF Written
  <2>. QED
    BY <1>1, <2>4, <2>8, TaskMoves DEF Pcs
<1>. QED
  BY <1>5, <1>6, <1>7

LEMMA LoadTask ==
  ASSUME TaskInv, BaseInv', NEW a \in Addr, LoadSfo(a)
  PROVE  TaskInv'
<1>0. Typed /\ Written(a) /\ Serves(a) /\ job[a] \in Job /\ IsDir(fs)
  BY DEF TaskInv, BaseInv, Typed
<1>1. /\ job[a].pc = "load" /\ UNCHANGED <<fs, tasks, installed, used, spoilt>>
  BY DEF LoadSfo, history
<1>2. Touches(a)
  BY <1>1, Untouched
<1>3. CASE Goto(a, "err")
  <2>1. Moved(a, "err")
    BY <1>0, <1>3, Goes DEF Pcs
  <2>. QED
    BY <1>1, <1>2, <2>1, TaskGoes DEF Pcs
<1>4. CASE /\ <<Name(a), "sfo">> \in DOMAIN fs
           /\ job' = [job EXCEPT ![a].pc = "register", ![a].meta = fs[<<Name(a), "sfo">>].data]
  <2>. DEFINE m == fs[<<Name(a), "sfo">>].data
              j == [job[a] EXCEPT !.pc = "register", !.meta = m]
  <2>1. m \in Pkgs \union {Cut} /\ (~Shared(Name(a)) => m = job[a].pkg)
    BY <1>0, <1>1, <1>4 DEF Written, Holds, IsDir
  <2>2. job' = [job EXCEPT ![a] = j]
    BY <1>4
  <2>. HIDE DEF m
  <2>3. /\ j \in Job /\ j.pc = "register" /\ j.at = job[a].at /\ j.pkg = job[a].pkg
        /\ j.icon = job[a].icon /\ j.meta = m
    BY <1>0, <2>1 DEF Job, Pcs
  <2>. HIDE DEF j
  <2>4. Moved(a, "register") /\ job'[a] = j
    BY <1>0, <2>2, <2>3, Changed
  <2>5. Name(a)' = Name(a)
    BY <2>4 DEF Moved, Name
  <2>6. /\ Clean(Name(a)) => Holds(<<Name(a), "json">>, job[a].pkg)
        /\ ~Shared(Name(a)) /\ job[a].icon => Holds(<<Name(a), "png">>, job[a].pkg)
    BY <1>0, <1>1 DEF Written
  <2>7. (Shared(Name(a))' <=> Shared(Name(a))) /\ (Clean(Name(a))' <=> Clean(Name(a)))
    BY <1>1, <2>5 DEF Shared, Clean
  <2>8. Written(a)'
    BY <1>1, <2>1, <2>3, <2>4, <2>5, <2>6, <2>7 DEF Written, Holds
  <2>. QED
    BY <1>1, <1>2, <2>4, <2>8, TaskMoves DEF Pcs
<1>. QED
  BY <1>3, <1>4 DEF LoadSfo, history

LEMMA TaskStep ==
  ASSUME TaskInv, BaseInv', NEW a \in Addr,
         InstallStep(a)
  PROVE  TaskInv'
<1>0. Typed /\ job[a] \in Job
  BY DEF TaskInv, BaseInv, Typed
<1>1. CASE Request(a)
  BY <1>1, RequestTask
<1>2. CASE GetLanguage(a)
  <2>1. job[a].pc = "lang" /\ UNCHANGED <<fs, tasks, installed, used, spoilt>>
    BY <1>2 DEF GetLanguage, history
  <2>2. Touches(a)
    BY <2>1, Untouched
  <2>3. CASE Goto(a, "clear")
    BY <1>0, <2>1, <2>2, <2>3, Goes, TaskGoes DEF Pcs
  <2>4. CASE job' = [job EXCEPT ![a] = Idle]
    BY <1>0, <2>1, <2>2, <2>4, Ends, TaskEnds
  <2>. QED
    BY <1>2, <2>3, <2>4 DEF GetLanguage, history
<1>3. CASE ClearOld(a)
  <2>1. /\ job[a].pc = "clear" /\ fs' = Without(Files(Name(a))) /\ Goto(a, "fetch")
        /\ UNCHANGED <<tasks, installed, used, spoilt>>
    BY <1>3 DEF ClearOld, history
  <2>2. Moved(a, "fetch") /\ Touches(a)
    BY <1>0, <2>1, Goes, WithoutTouches DEF Pcs
  <2>. QED
    BY <2>1, <2>2, TaskGoes DEF Pcs
<1>4. CASE FetchPackage(a)
  <2>1. job[a].pc = "fetch" /\ UNCHANGED <<fs, tasks, installed, used, spoilt>>
    BY <1>4 DEF FetchPackage, history
  <2>2. Touches(a)
    BY <2>1, Untouched
  <2>3. CASE Goto(a, "err")
    BY <1>0, <2>1, <2>2, <2>3, Goes, TaskGoes DEF Pcs
  <2>4. ASSUME NEW icon \in BOOLEAN, job' = [job EXCEPT ![a].pc = "open", ![a].icon = icon]
        PROVE  TaskInv'
    <3>. DEFINE j == [job[a] EXCEPT !.pc = "open", !.icon = icon]
    <3>1. j \in Job /\ j.pc = "open" /\ j.at = job[a].at /\ j.pkg = job[a].pkg
      BY <1>0 DEF Job, Pcs
    <3>2. job' = [job EXCEPT ![a] = j]
      BY <2>4
    <3>. HIDE DEF j
    <3>3. Moved(a, "open")
      BY <1>0, <3>1, <3>2, Changed
    <3>. QED
      BY <2>1, <2>2, <3>3, TaskGoes DEF Pcs
  <2>. QED
    BY <1>4, <2>3, <2>4 DEF FetchPackage, history
<1>5. CASE OpenJson(a)
  <2>1. job[a].pc = "open" /\ UNCHANGED <<tasks, installed, used, spoilt>>
    BY <1>5 DEF OpenJson, history
  <2>2. CASE Goto(a, "pieces") /\ fs' = Put(<<Name(a), "json">>, Cut)
    <3>1. Moved(a, "pieces") /\ Touches(a)
      BY <1>0, <2>2, Goes, PutTouches DEF Pcs, Kinds
    <3>. QED
      BY <2>1, <3>1, TaskGoes DEF Pcs
  <2>3. CASE Goto(a, "err") /\ UNCHANGED fs
    BY <1>0, <2>1, <2>3, Goes, Untouched, TaskGoes DEF Pcs
  <2>. QED
    BY <1>5, <2>2, <2>3 DEF OpenJson, history
<1>6. CASE WritePieces(a)
  <2>1. /\ job[a].pc = "pieces" /\ UNCHANGED <<fs, tasks, installed, used, spoilt>>
        /\ Goto(a, "sfo") \/ Goto(a, "err")
    BY <1>6 DEF WritePieces, history
  <2>. QED
    BY <1>0, <2>1, Goes, Untouched, TaskGoes DEF Pcs
<1>7. CASE WriteSfo(a) \/ WriteIcon(a) \/ CloseJson(a)
  BY <1>7, WritesTask
<1>8. CASE LoadSfo(a)
  BY <1>8, LoadTask
<1>9. CASE RegisterOk(a)
  BY <1>9, RegisterTask
<1>10. CASE RegisterSame(a) \/ RegisterFails(a)
  <2>1. job[a].pc = "register" /\ UNCHANGED <<fs, tasks, installed, used, spoilt>>
    BY <1>10 DEF RegisterSame, RegisterFails
  <2>2. \E ok \in BOOLEAN, code \in {"same", "bgft", "unset"} :
          Answer(a, [ok |-> ok, id |-> -1, code |-> code])
    BY <1>10 DEF RegisterSame, RegisterFails
  <2>3. Moved(a, "finish") /\ Touches(a)
    BY <1>0, <2>1, <2>2, Answers, Untouched, InstallAssumption
  <2>. QED
    BY <2>1, <2>3, TaskGoes DEF Pcs
<1>11. CASE Finish(a)
  <2>1. /\ job[a].pc = "finish" /\ fs' = Without({<<Name(a), "sfo">>})
        /\ job' = [job EXCEPT ![a] = Idle] /\ UNCHANGED <<tasks, installed, used, spoilt>>
    BY <1>11 DEF Finish, history
  <2>2. {<<Name(a), "sfo">>} \subseteq Files(Name(a))
    BY DEF Files, Kinds
  <2>3. /\ Ended(a) /\ Touches(a) /\ DOMAIN fs' = DOMAIN fs \ {<<Name(a), "sfo">>}
        /\ \A f \in DOMAIN fs' : fs'[f] = fs[f]
    BY <1>0, <2>1, <2>2, Ends, WithoutTouches, WithoutTyped
  <2>4. \A f \in DOMAIN fs : f[2] # "sfo" => f \in DOMAIN fs' /\ fs'[f] = fs[f]
    BY <2>3
  <2>. QED
    BY <2>1, <2>3, <2>4, TaskEnds
<1>12. CASE Fail(a)
  <2>1. /\ job[a].pc = "err" /\ fs' = Without(Files(Name(a)))
        /\ job' = [job EXCEPT ![a] = Idle] /\ UNCHANGED <<tasks, installed, used, spoilt>>
    BY <1>12 DEF Fail, history
  <2>2. Ended(a) /\ Touches(a)
    BY <1>0, <2>1, Ends, WithoutTouches
  <2>. QED
    BY <2>1, <2>2, TaskEnds
<1>. QED
  BY <1>1, <1>2, <1>3, <1>4, <1>5, <1>6, <1>7, <1>8, <1>9, <1>10, <1>11, <1>12 DEF InstallStep

-------------------------------------------------------------------------------
(* The service, the clock and restarts *)

\* Steps that leave the installs and what is in the files alone.
LEMMA TaskAside ==
  ASSUME TaskInv, BaseInv', UNCHANGED <<job, used, spoilt>>,
         tasks' \subseteq Task, installed' \subseteq Pkgs \union {Cut},
         \A t \in tasks' : \E u \in tasks : t.name = u.name /\ t.pkg = u.pkg /\ t.icon = u.icon,
         DOMAIN fs' = DOMAIN fs, \A f \in DOMAIN fs : fs'[f].data = fs[f].data
  PROVE  TaskInv'
<1>1. \A a \in Addr : Name(a)' = Name(a)
  BY DEF Name
<1>2. Recorded' /\ Distinct' /\ Apart'
  BY <1>1 DEF TaskInv, Recorded, Distinct, Apart, Shared
<1>3. ASSUME NEW a \in Addr PROVE Written(a)'
  <2>1. Written(a) /\ Name(a)' = Name(a)
    BY <1>1 DEF TaskInv
  <2>2. \A f, p : Holds(f, p) => f \in DOMAIN fs' /\ fs'[f].data = p
    BY DEF Holds
  <2>3. (Shared(Name(a))' <=> Shared(Name(a))) /\ (Clean(Name(a))' <=> Clean(Name(a)))
    BY <2>1 DEF Shared, Clean
  <2>. QED
    BY <2>1, <2>2, <2>3 DEF Written, Holds
<1>4. TasksHold'
  <2>1. ASSUME NEW t \in tasks', Clean(t.name)
        PROVE  /\ <<t.name, "json">> \in DOMAIN fs' /\ fs'[<<t.name, "json">>].data = t.pkg
               /\ t.icon => /\ <<t.name, "png">> \in DOMAIN fs'
                            /\ fs'[<<t.name, "png">>].data = t.pkg
    <3>1. PICK u \in tasks : t.name = u.name /\ t.pkg = u.pkg /\ t.icon = u.icon
      OBVIOUS
    <3>2. /\ Holds(<<u.name, "json">>, u.pkg)
          /\ u.icon => Holds(<<u.name, "png">>, u.pkg)
      BY <2>1, <3>1 DEF TaskInv, TasksHold
    <3>. QED
      BY <3>1, <3>2 DEF Holds
  <2>. QED
    BY <2>1 DEF TasksHold, Holds, Clean
<1>. QED
  BY <1>2, <1>3, <1>4 DEF TaskInv

LEMMA ServiceTask ==
  ASSUME TaskInv, BaseInv', StartTask \/ UnregisterTask \/ CompleteTask
  PROVE  TaskInv'
<1>1. UNCHANGED <<job, fs, used, spoilt>>
  BY DEF StartTask, UnregisterTask, CompleteTask, history
<1>2. CASE StartTask
  <2>1. PICK t \in tasks : tasks' = (tasks \ {t}) \union {[t EXCEPT !.started = TRUE]}
    BY <1>2 DEF StartTask
  <2>. DEFINE u == [t EXCEPT !.started = TRUE]
  <2>2. u \in Task /\ u.name = t.name /\ u.pkg = t.pkg /\ u.icon = t.icon
    BY <2>1 DEF TaskInv, Task
  <2>. HIDE DEF u
  <2>3. tasks' = (tasks \ {t}) \union {u}
    BY <2>1 DEF u
  <2>4. tasks' \subseteq Task /\ installed' \subseteq Pkgs \union {Cut}
    BY <1>2, <2>2, <2>3 DEF TaskInv, StartTask
  <2>5. \A x \in tasks' : \E y \in tasks : x.name = y.name /\ x.pkg = y.pkg /\ x.icon = y.icon
    BY <2>1, <2>2, <2>3
  <2>. QED
    BY <1>1, <2>4, <2>5, TaskAside
<1>3. CASE UnregisterTask \/ CompleteTask
  <2>1. PICK t \in tasks : tasks' = tasks \ {t} /\ installed' \subseteq installed \union {t.pkg}
    BY <1>3 DEF UnregisterTask, CompleteTask
  <2>2. t.pkg \in Pkgs \union {Cut}
    BY <2>1 DEF TaskInv, Task
  <2>3. tasks' \subseteq Task /\ installed' \subseteq Pkgs \union {Cut}
    BY <2>1, <2>2 DEF TaskInv
  <2>. QED
    BY <1>1, <2>1, <2>3, TaskAside
<1>. QED
  BY <1>2, <1>3

LEMMA FetchTask ==
  ASSUME TaskInv, BaseInv', FetchJson
  PROVE  TaskInv'
<1>1. UNCHANGED <<job, tasks, installed, used, spoilt>>
  BY DEF FetchJson, history
<1>2. \E n : <<n, "json">> \in DOMAIN fs /\ fs' = [fs EXCEPT ![<<n, "json">>].atime = now]
  BY DEF FetchJson
<1>3. DOMAIN fs' = DOMAIN fs /\ \A f \in DOMAIN fs : fs'[f].data = fs[f].data
  BY <1>2, FetchTyped DEF TaskInv, BaseInv
<1>4. tasks' \subseteq Task /\ installed' \subseteq Pkgs \union {Cut}
  BY <1>1 DEF TaskInv
<1>. QED
  BY <1>1, <1>3, <1>4, TaskAside

\* cleanup_temp_files takes files of names that are recorded as stale only.
LEMMA RestartTask ==
  ASSUME TaskInv, BaseInv', Restart
  PROVE  TaskInv'
<1>0. Typed
  BY DEF TaskInv, BaseInv
<1>1. /\ job' = [a \in Addr |-> Idle] /\ UNCHANGED <<tasks, installed, used>>
      /\ spoilt' = spoilt \union {<<f[1], "stale">> : f \in {g \in DOMAIN fs : Stale(g, now)}}
  BY DEF Restart
<1>2. \A a \in Addr : job'[a].pc = "idle"
  BY <1>1 DEF Idle
<1>3. /\ DOMAIN fs' \subseteq DOMAIN fs /\ \A f \in DOMAIN fs' : fs'[f] = fs[f]
      /\ \A f \in DOMAIN fs \ DOMAIN fs' : Stale(f, now)
  BY <1>0, RestartTyped
<1>4. Recorded' /\ Distinct' /\ Apart' /\ \A a \in Addr : Written(a)'
  BY <1>1, <1>2 DEF TaskInv, Recorded, Distinct, Apart, Written
<1>5. TasksHold'
  <2>1. ASSUME NEW t \in tasks, \A c \in Causes : <<t.name, c>> \notin spoilt', NEW k,
               Holds(<<t.name, k>>, t.pkg)
        PROVE  <<t.name, k>> \in DOMAIN fs' /\ fs'[<<t.name, k>>].data = t.pkg
    <3>. DEFINE f == <<t.name, k>>
    <3>1. f[1] = t.name /\ f \in DOMAIN fs /\ fs[f].data = t.pkg
      BY <2>1 DEF Holds
    <3>. HIDE DEF f
    <3>2. <<f[1], "stale">> \notin spoilt'
      BY <2>1, <3>1 DEF Causes
    <3>3. ~Stale(f, now)
      BY <1>1, <3>1, <3>2
    <3>. QED
      BY <1>3, <3>1, <3>3 DEF f
  <2>2. \A t \in tasks : (\A c \in Causes : <<t.name, c>> \notin spoilt') => Clean(t.name)
    BY <1>1 DEF Clean
  <2>. QED
    BY <1>1, <2>1, <2>2 DEF TaskInv, TasksHold, Holds, Clean
<1>. QED
  BY <1>1, <1>4, <1>5 DEF TaskInv

LEMMA TaskStart == Init => TaskInv
<1>. SUFFICES ASSUME Init PROVE TaskInv
  OBVIOUS
<1>1. BaseInv
  BY BaseStart
<1>2. \A a \in Addr : job[a].pc = "idle"
  BY DEF Init, Idle
<1>3. tasks = {} /\ installed = {}
  BY DEF Init
<1>4. Recorded /\ Distinct /\ Apart /\ TasksHold /\ \A a \in Addr : Written(a)
  BY <1>2, <1>3 DEF Recorded, Distinct, Apart, TasksHold, Written
<1>. QED
  BY <1>1, <1>3, <1>4 DEF TaskInv

LEMMA TaskInductive ==
  ASSUME TaskInv, [Next]_vars
  PROVE  TaskInv'
<1>0. BaseInv'
  BY BaseInductive DEF TaskInv
<1>1. ASSUME NEW a \in Addr, InstallStep(a) PROVE TaskInv'
  BY <1>0, <1>1, TaskStep
<1>2. CASE StartTask \/ UnregisterTask \/ CompleteTask
  BY <1>0, <1>2, ServiceTask
<1>3. CASE FetchJson
  BY <1>0, <1>3, FetchTask
<1>4. CASE Tick \/ UNCHANGED vars
  <2>1. UNCHANGED <<job, fs, tasks, installed, used, spoilt>>
    BY <1>4 DEF Tick, vars, history
  <2>. QED
    BY <1>0, <2>1, TaskAside DEF TaskInv
<1>5. CASE Restart
  BY <1>0, <1>5, RestartTask
<1>. QED
  BY <1>1, <1>2, <1>3, <1>4, <1>5 DEF Next

LEMMA TaskHolds == TaskInv => TaskIsPackage
<1>. SUFFICES ASSUME TaskInv PROVE TaskIsPackage
  OBVIOUS
<1>1. Typed /\ CountInv
  BY DEF TaskInv, BaseInv
<1>2. nextId \in 0..MaxInstalls
  <2>1. Cardinality(Pending) \in Nat
    BY <1>1, FS_CardinalityType DEF CountInv
  <2>. QED
    BY <1>1, <2>1, InstallAssumption DEF CountInv, Typed
<1>3. \A f \in DOMAIN fs : /\ f[2] \in Kinds /\ fs[f].data \in Pkgs \union {Cut}
                           /\ fs[f].atime \in 0..MaxTime
  BY <1>1, OwnFile DEF Typed, IsDir
<1>4. \A t \in tasks : /\ t.id \in 0..MaxInstalls /\ t.pkg \in Pkgs \union {Cut}
                       /\ t.started \in BOOLEAN
  BY DEF TaskInv, Task
<1>5. TypeOK
  BY <1>1, <1>2, <1>3, <1>4 DEF TaskInv, TypeOK, Typed, Job
<1>6. UnsharedMetadata
  BY DEF TaskInv, UnsharedMetadata, Written, Shared, Spoilt, Causes
<1>7. FilesStayForTask
  <2>1. ASSUME NEW t \in tasks, Spoilt(t.name) = {} PROVE Clean(t.name)
    BY <2>1 DEF Spoilt, Clean
  <2>. QED
    BY <2>1 DEF TaskInv, TasksHold, Holds, FilesStayForTask, HasFiles
<1>. QED
  BY <1>5, <1>6, <1>7 DEF TaskIsPackage

-------------------------------------------------------------------------------
(* Theorems *)

\* What every install keeps to, whatever its names are and whatever fails: in
\* particular each request registers at most one task.
THEOREM BaseInvariant == Spec => []BaseInv
<1>1. Init => BaseInv
  BY BaseStart
<1>2. BaseInv /\ [Next]_vars => BaseInv'
  BY BaseInductive
<1>. QED
  BY <1>1, <1>2, PTL DEF Spec

\* An install that fails before its registration leaves nothing, and one that came to it
\* no param.sfo, unless a restart cuts it short: even if names collide, files go stale or
\* the disk is full.  Of a refused registration the JSON and the icon do stay.
THEOREM NothingStray == Spec => []NoStrayFiles
<1>1. BaseInv => NoStrayFiles
  BY DEF BaseInv
<1>. QED
  BY <1>1, BaseInvariant, PTL

\* The inductive invariant behind TaskIsPackage: whose each file is, which names are
\* known to be shared, and what an install has written at each of its steps.
THEOREM TaskInvariant == Spec => []TaskInv
<1>1. Init => TaskInv
  BY TaskStart
<1>2. TaskInv /\ [Next]_vars => TaskInv'
  BY TaskInductive
<1>. QED
  BY <1>1, <1>2, PTL DEF Spec

\* "The reference JSON and icon stay behind for BGFT to fetch over /static/"
\* (server.c): a task has the metadata, the JSON and the icon of the package its client
\* asked for as long as it exists, however many installs, tasks and restarts there are,
\* unless its own name was given out twice, its own JSON was cut off by a full disk, or a
\* start found one of its own files stale.  Nothing is assumed of the names, the clock
\* or the disk: what befalls other names does not reach it.
THEOREM TaskFiles == Spec => []TaskIsPackage
<1>1. TaskInv => TaskIsPackage
  BY TaskHolds
<1>. QED
  BY <1>1, TaskInvariant, PTL

-------------------------------------------------------------------------------
(* Whose the metadata are *)

\* Different streams never get the same name, at whatever seconds they ask for one.
StreamsApart ==
  \A s, u \in 0..MaxTime, a, b \in Addr : TmpName(s, a) = TmpName(u, b) => a = b

\* The param.sfo of an install that has written it is its own, if it is still there,
\* and so are the metadata it has read back.
OwnSfo(a) ==
  /\ job[a].pc \in {"icon", "close", "load"} =>
       \A f \in DOMAIN fs : f = <<Name(a), "sfo">> => fs[f].data = job[a].pkg
  /\ job[a].pc = "register" => job[a].meta = job[a].pkg

MetaInv == BaseInv /\ \A a \in Addr : OwnSfo(a)

LEMMA OthersOwnSfo ==
  ASSUME StreamsApart, Typed, NEW a \in Addr, NEW b \in Addr, a # b, Touches(a),
         job'[b] = job[b], OwnSfo(b)
  PROVE  OwnSfo(b)'
<1>1. job[a].at \in 0..MaxTime /\ job[b].at \in 0..MaxTime
  BY DEF Typed, Job
<1>2. Name(b) # Name(a) /\ Name(b)' = Name(b)
  BY <1>1 DEF StreamsApart, Name
<1>3. \A f \in DOMAIN fs' : f = <<Name(b), "sfo">> => f \in DOMAIN fs /\ fs'[f] = fs[f]
  BY <1>2 DEF Touches
<1>. QED
  BY <1>2, <1>3 DEF OwnSfo

\* An install that does not hold its param.sfo has nothing to keep.
LEMMA NoSfoYet ==
  ASSUME NEW a \in Addr, job'[a].pc \notin {"icon", "close", "load", "register"}
  PROVE  OwnSfo(a)'
BY DEF OwnSfo

\* A step of the install at a changes only its own job and files.
LEMMA StepIsLocal ==
  ASSUME BaseInv, NEW a \in Addr, InstallStep(a)
  PROVE  Touches(a) /\ \A b \in Addr \ {a} : job'[b] = job[b]
<1>0. Typed /\ Serves(a) /\ job \in [Addr -> Job]
  BY DEF BaseInv, Typed
<1>1. ASSUME fs' = fs PROVE Touches(a)
  BY <1>1 DEF Touches
<1>2. CASE Request(a) \/ GetLanguage(a) \/ FetchPackage(a) \/ WritePieces(a) \/ LoadSfo(a)
           \/ RegisterOk(a) \/ RegisterSame(a) \/ RegisterFails(a)
  <2>1. fs' = fs
    BY <1>2 DEF Request, GetLanguage, FetchPackage, WritePieces, LoadSfo, RegisterOk,
       RegisterSame, RegisterFails
  <2>2. \A b \in Addr \ {a} : job'[b] = job[b]
    BY <1>0, <1>2 DEF Request, GetLanguage, FetchPackage, WritePieces, LoadSfo, RegisterOk,
       RegisterSame, RegisterFails, Goto, Answer
  <2>. QED
    BY <1>1, <2>1, <2>2
<1>3. CASE ClearOld(a) \/ Finish(a) \/ Fail(a)
  <2>1. PICK S \in SUBSET Files(Name(a)) : fs' = Without(S)
    <3>1. {<<Name(a), "sfo">>} \subseteq Files(Name(a))
      BY DEF Files, Kinds
    <3>. QED
      BY <1>3, <3>1 DEF ClearOld, Finish, Fail
  <2>2. Touches(a)
    BY <1>0, <2>1, WithoutTouches
  <2>3. \A b \in Addr \ {a} : job'[b] = job[b]
    BY <1>0, <1>3 DEF ClearOld, Finish, Fail, Goto
  <2>. QED
    BY <2>2, <2>3
<1>4. CASE OpenJson(a) \/ WriteSfo(a) \/ WriteIcon(a) \/ CloseJson(a)
  <2>1. \A b \in Addr \ {a} : job'[b] = job[b]
    BY <1>0, <1>4 DEF OpenJson, WriteSfo, WriteIcon, CloseJson, Goto
  <2>2. job[a].pkg \in Pkgs
    BY <1>0, <1>4 DEF OpenJson, WriteSfo, WriteIcon, CloseJson, Serves
  <2>3. \/ fs' = fs
        \/ \E k \in Kinds, d \in Pkgs \union {Cut} : fs' = Put(<<Name(a), k>>, d)
    BY <1>4, <2>2 DEF OpenJson, WriteSfo, WriteIcon, CloseJson, Kinds
  <2>. QED
    BY <1>0, <1>1, <2>1, <2>3, PutTouches
<1>. QED
  BY <1>2, <1>3, <1>4 DEF InstallStep

LEMMA StepOwnSfo ==
  ASSUME BaseInv, NEW a \in Addr, OwnSfo(a), InstallStep(a)
  PROVE  OwnSfo(a)'
<1>0. Typed /\ Serves(a) /\ job \in [Addr -> Job] /\ job[a] \in Job
  BY DEF BaseInv, Typed
<1>. DEFINE g == <<Name(a), "sfo">>
<1>1. CASE Request(a) \/ GetLanguage(a) \/ ClearOld(a) \/ FetchPackage(a) \/ OpenJson(a)
           \/ WritePieces(a) \/ RegisterOk(a) \/ RegisterSame(a) \/ RegisterFails(a)
           \/ Finish(a) \/ Fail(a)
  <2>1. job'[a].pc \notin {"icon", "close", "load", "register"}
    <3>1. CASE Request(a) \/ GetLanguage(a) \/ Finish(a) \/ Fail(a)
      <4>1. \/ \E p \in Pkgs : job'[a] = [Idle EXCEPT !.pc = "lang", !.at = now, !.pkg = p]
            \/ job'[a] = Idle
            \/ Goto(a, "clear")
        BY <1>0, <3>1 DEF Request, GetLanguage, Finish, Fail
      <4>2. ASSUME Goto(a, "clear") PROVE job'[a].pc = "clear"
        BY <1>0, <4>2, Goes DEF Pcs, Moved
      <4>3. ASSUME NEW p \in Pkgs,
                   job'[a] = [Idle EXCEPT !.pc = "lang", !.at = now, !.pkg = p]
            PROVE  job'[a].pc = "lang"
        BY <4>3 DEF Idle
      <4>4. Idle.pc = "idle"
        BY DEF Idle
      <4>. QED
        BY <4>1, <4>2, <4>3, <4>4
    <3>2. CASE ClearOld(a) \/ OpenJson(a) \/ WritePieces(a)
      <4>1. PICK label \in {"fetch", "pieces", "sfo", "err"} : Goto(a, label)
        BY <3>2 DEF ClearOld, OpenJson, WritePieces
      <4>2. job'[a].pc = label
        BY <1>0, <4>1, Goes DEF Pcs, Moved
      <4>3. label \notin {"icon", "close", "load", "register"}
        OBVIOUS
      <4>. QED
        BY <4>2, <4>3
    <3>3. CASE FetchPackage(a)
      <4>1. ASSUME Goto(a, "err") PROVE job'[a].pc = "err"
        BY <1>0, <4>1, Goes DEF Pcs, Moved
      <4>2. ASSUME NEW icon \in BOOLEAN,
                   job' = [job EXCEPT ![a].pc = "open", ![a].icon = icon]
            PROVE  job'[a].pc = "open"
        BY <1>0, <4>2 DEF Job
      <4>. QED
        BY <3>3, <4>1, <4>2 DEF FetchPackage
    <3>4. CASE RegisterOk(a) \/ RegisterSame(a) \/ RegisterFails(a)
      <4>1. \E ans : Answer(a, ans)
        BY <3>4 DEF RegisterOk, RegisterSame, RegisterFails
      <4>. QED
        BY <1>0, <4>1 DEF Answer
    <3>. QED
      BY <1>1, <3>1, <3>2, <3>3, <3>4
  <2>. QED
    BY <2>1, NoSfoYet
<1>2. CASE WriteSfo(a)
  <2>1. CASE /\ fs' = Put(<<Name(a), "sfo">>, job[a].pkg)
             /\ Goto(a, IF job[a].icon THEN "icon" ELSE "close")
    <3>1. Moved(a, IF job[a].icon THEN "icon" ELSE "close")
      BY <1>0, <2>1, Goes DEF Pcs
    <3>2. Name(a)' = Name(a) /\ job'[a].pkg = job[a].pkg /\ job'[a].pc # "register"
      BY <3>1 DEF Moved, Name
    <3>3. job[a].pkg \in Pkgs
      BY <1>0, <1>2 DEF WriteSfo, Serves
    <3>4. fs'[<<Name(a), "sfo">>] = [data |-> job[a].pkg, atime |-> now]
      BY <1>0, <2>1, <3>3, PutTyped DEF Kinds
    <3>5. fs'[g].data = job[a].pkg
      BY <3>4
    <3>. QED
      BY <3>2, <3>5 DEF OwnSfo
  <2>2. CASE Goto(a, "err")
    <3>1. job'[a].pc = "err"
      BY <1>0, <2>2, Goes DEF Pcs, Moved
    <3>. QED
      BY <3>1, NoSfoYet
  <2>. QED
    BY <1>2, <2>1, <2>2 DEF WriteSfo
<1>3. CASE WriteIcon(a) \/ CloseJson(a)
  <2>1. job[a].pc \in {"icon", "close"} /\ job[a].pkg \in Pkgs
    BY <1>0, <1>3 DEF WriteIcon, CloseJson, Serves
  <2>2. PICK k \in {"png", "json"}, d \in {job[a].pkg, Cut}, label \in {"close", "load", "err"} :
          fs' = Put(<<Name(a), k>>, d) /\ Goto(a, label)
    <3>1. CASE WriteIcon(a)
      BY <3>1 DEF WriteIcon
    <3>2. CASE CloseJson(a)
      <4>1. PICK d \in {job[a].pkg, Cut} : fs' = Put(<<Name(a), "json">>, d)
        BY <3>2 DEF CloseJson
      <4>2. Goto(a, "load")
        BY <3>2 DEF CloseJson
      <4>. QED
        BY <4>1, <4>2
    <3>. QED
      BY <1>3, <3>1, <3>2
  <2>3. Moved(a, label)
    BY <1>0, <2>2, Goes DEF Pcs
  <2>4. Name(a)' = Name(a) /\ job'[a].pkg = job[a].pkg /\ job'[a].pc # "register"
    BY <2>2, <2>3 DEF Moved, Name
  <2>5. /\ DOMAIN fs' = DOMAIN fs \union {<<Name(a), k>>}
        /\ \A f \in DOMAIN fs \ {<<Name(a), k>>} : fs'[f] = fs[f]
    BY <1>0, <2>1, <2>2, PutTyped DEF Kinds
  <2>6. g # <<Name(a), k>>
    BY <2>2
  <2>7. ASSUME g \in DOMAIN fs' PROVE fs'[g].data = job[a].pkg
    <3>1. g \in DOMAIN fs /\ fs'[g] = fs[g]
      BY <2>5, <2>6, <2>7
    <3>2. fs[g].data = job[a].pkg
      BY <2>1, <3>1 DEF OwnSfo
    <3>. QED
      BY <3>1, <3>2
  <2>. QED
    BY <2>4, <2>7 DEF OwnSfo
<1>4. CASE LoadSfo(a)
  <2>1. job[a].pc = "load"
    BY <1>4 DEF LoadSfo
  <2>2. CASE g \in DOMAIN fs /\ job' = [job EXCEPT ![a].pc = "register", ![a].meta = fs[g].data]
    <3>1. fs[g].data = job[a].pkg
      BY <2>1, <2>2 DEF OwnSfo
    <3>2. /\ job'[a].pc = "register" /\ job'[a].meta = fs[g].data
          /\ job'[a].pkg = job[a].pkg
      BY <1>0, <2>2 DEF Job
    <3>. QED
      BY <3>1, <3>2 DEF OwnSfo
  <2>3. CASE Goto(a, "err")
    <3>1. job'[a].pc = "err"
      BY <1>0, <2>3, Goes DEF Pcs, Moved
    <3>. QED
      BY <3>1, NoSfoYet
  <2>. QED
    BY <1>4, <2>2, <2>3 DEF LoadSfo
<1>. QED
  BY <1>1, <1>2, <1>3, <1>4 DEF InstallStep

\* Everything else leaves the jobs alone, or ends them, and no data appears in a file.
LEMMA MetaInductive ==
  ASSUME StreamsApart, MetaInv, [Next]_vars
  PROVE  MetaInv'
<1>0. BaseInv /\ BaseInv' /\ Typed /\ \A a \in Addr : OwnSfo(a)
  BY BaseInductive DEF MetaInv, BaseInv
<1>1. ASSUME NEW a \in Addr, InstallStep(a), NEW b \in Addr PROVE OwnSfo(b)'
  <2>1. CASE b = a
    BY <1>0, <1>1, <2>1, StepOwnSfo
  <2>2. CASE b # a
    BY <1>0, <1>1, <2>2, StepIsLocal, OthersOwnSfo
  <2>. QED
    BY <2>1, <2>2
<1>2. ASSUME job' = job, \A f \in DOMAIN fs' : f \in DOMAIN fs /\ fs'[f].data = fs[f].data,
             NEW b \in Addr
      PROVE  OwnSfo(b)'
  BY <1>0, <1>2 DEF OwnSfo, Name
<1>3. ASSUME StartTask \/ UnregisterTask \/ CompleteTask \/ Tick \/ UNCHANGED vars, NEW b \in Addr
      PROVE  OwnSfo(b)'
  <2>1. job' = job /\ fs' = fs
    BY <1>3 DEF StartTask, UnregisterTask, CompleteTask, Tick, vars
  <2>. QED
    BY <1>2, <2>1
<1>4. ASSUME FetchJson, NEW b \in Addr PROVE OwnSfo(b)'
  <2>1. PICK n : <<n, "json">> \in DOMAIN fs /\ fs' = [fs EXCEPT ![<<n, "json">>].atime = now]
    BY <1>4 DEF FetchJson
  <2>2. DOMAIN fs' = DOMAIN fs /\ \A f \in DOMAIN fs : fs'[f].data = fs[f].data
    BY <1>0, <2>1, FetchTyped
  <2>3. job' = job
    BY <1>4 DEF FetchJson
  <2>. QED
    BY <1>2, <2>2, <2>3
<1>5. ASSUME Restart, NEW b \in Addr PROVE OwnSfo(b)'
  <2>1. job'[b].pc = "idle"
    BY <1>5 DEF Restart, Idle
  <2>. QED
    BY <2>1, NoSfoYet
<1>6. \A b \in Addr : OwnSfo(b)'
  BY <1>1, <1>3, <1>4, <1>5 DEF Next
<1>. QED
  BY <1>0, <1>6 DEF MetaInv

\* The metadata BGFT is given are those of the package the client asked for, though
\* they are read back from a file: whatever the clock, the disk and cleanup_temp_files
\* do and however fast an address is used again, as long as different streams never get
\* the same name.
THEOREM MetadataOwn == ASSUME StreamsApart PROVE Spec => []OwnMetadata
<1>1. Init => MetaInv
  <2>1. Init => \A a \in Addr : job[a].pc = "idle"
    BY DEF Init, Idle
  <2>. QED
    BY <2>1, BaseStart DEF MetaInv, OwnSfo
<1>2. MetaInv /\ [Next]_vars => MetaInv'
  BY MetaInductive
<1>3. MetaInv => OwnMetadata
  BY DEF MetaInv, OwnSfo, OwnMetadata
<1>. QED
  BY <1>1, <1>2, <1>3, PTL DEF Spec
=================================================================================
