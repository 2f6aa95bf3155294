------------------------- MODULE SandbirdStreamsProofs -------------------------
(***************************************************************************)
(* Proofs about SandbirdStreams for every set of addresses and every       *)
(* backlog: the accept loop and the connection threads never touch a freed *)
(* stream, own every stream exactly once and leak no thread, and the       *)
(* pointers implement the sequence of StreamList.                          *)
(*                                                                         *)
(* IInv says what the pointers are; ListInv adds that some sequence runs   *)
(* along them, which is then the only one, and each step of the program is *)
(* a step of that sequence.                                                *)
(***************************************************************************)
EXTENDS SandbirdStreams, FiniteSetTheorems, SequenceTheorems,
        WellFoundedInduction, TLAPS

(***************************************************************************)
(* The inductive invariant.  Linked says that next and prev are mutually   *)
(* inverse on the members of the list, and that only the head has no       *)
(* predecessor; it is what makes the two pointer writes of unlink enough.  *)
(***************************************************************************)
Linked(L, nx, pv, hd) ==
  /\ hd \in L \union {NULL}
  /\ \A a \in L : nx[a] \in L \union {NULL} /\ pv[a] \in L \union {NULL}
  /\ \A a, b \in L : nx[a] = b <=> pv[b] = a
  /\ hd # NULL => pv[hd] = NULL
  /\ \A a \in L : pv[a] = NULL => hd = a

MainHolds == {"link", "walk", "create", "lock", "unlink", "destroy"}

HeapInv ==
  /\ mpc \in MainHolds => mst \in Addr
  /\ \A a \in Addr : a \in heap <=> (tpc[a] # "none" \/ (a = mst /\ mpc \in MainHolds))
  /\ \A a \in Addr : ~ (tpc[a] # "none" /\ a = mst /\ mpc \in MainHolds)

SockInv == sock = Cardinality(heap) + (IF mpc = "new" THEN 1 ELSE 0)

MtxInv ==
  /\ mtx = Main <=> mpc \in {"walk", "unlink"}
  /\ \A a \in Addr : mtx = a <=> tpc[a] = "unlink"

WalkInv ==
  /\ mpc \in {"link", "walk"} => next[mst] = NULL /\ prev[mst] = NULL
  /\ mpc = "walk" => cur \in InList

ThreadInv ==
  /\ mpc = "detach" => mst \in Addr
  /\ \A a \in Addr : tpc[a] # "none" => a \in tcb
  /\ \A a \in Addr : a \in detached => tpc[a] # "none"
  /\ \A a \in Addr : (a \in tcb /\ a \notin detached) => (mpc = "detach" /\ a = mst)
  /\ mpc = "detach" => mst \notin detached

IInv ==
  /\ TypeOK
  /\ HeapInv
  /\ SockInv
  /\ MtxInv
  /\ Linked(InList, next, prev, streams)
  /\ WalkInv
  /\ ThreadInv

-------------------------------------------------------------------------------
(* The list operations preserve Linked *)

\* sb_stream_unlink: what is left of a linked list after the two neighbours of
\* a were joined is a linked list.
LEMMA UnlinkLinked ==
  ASSUME TypeOK, NEW L \in SUBSET Addr, NEW a \in L, UnlinkPtrs(a),
         Linked(L, next, prev, streams)
  PROVE  Linked(L \ {a}, next', prev', streams')
<1> DEFINE nx2 == next'
           pv2 == prev'
           hd2 == streams'
           M   == L \ {a}
<1> USE ConstAssumption DEF Linked, Ptr, TypeOK, UnlinkPtrs
<1>1. hd2 \in M \union {NULL}
  OBVIOUS
<1>2. \A b \in M : nx2[b] \in M \union {NULL} /\ pv2[b] \in M \union {NULL}
  OBVIOUS
<1>3. \A b, c \in M : nx2[b] = c <=> pv2[c] = b
  OBVIOUS
<1>4. hd2 # NULL => pv2[hd2] = NULL
  OBVIOUS
<1>5. \A b \in M : pv2[b] = NULL => hd2 = b
  OBVIOUS
<1> HIDE DEF M, nx2, pv2, hd2
<1>6. Linked(M, nx2, pv2, hd2)
  BY <1>1, <1>2, <1>3, <1>4, <1>5
<1> QED
  BY <1>6 DEF M, nx2, pv2, hd2

\* sb_stream_link behind the tail t: a fresh stream with null pointers joins.
LEMMA AppendLinked ==
  ASSUME NEW L \in SUBSET Addr, NEW nx \in [Addr -> Ptr], NEW pv \in [Addr -> Ptr],
         NEW hd \in Ptr, NEW t \in L, NEW a \in Addr \ L, Linked(L, nx, pv, hd),
         nx[t] = NULL, nx[a] = NULL, pv[a] = NULL
  PROVE  Linked(L \union {a}, [nx EXCEPT ![t] = a], [pv EXCEPT ![a] = t], hd)
  BY ConstAssumption DEF Linked, Ptr

\* sb_stream_link into an empty list: the fresh stream becomes the head.
LEMMA FirstLinked ==
  ASSUME NEW L \in SUBSET Addr, NEW nx \in [Addr -> Ptr], NEW pv \in [Addr -> Ptr],
         NEW a \in Addr \ L, Linked(L, nx, pv, NULL), nx[a] = NULL, pv[a] = NULL
  PROVE  Linked(L \union {a}, nx, pv, a)
  BY ConstAssumption DEF Linked, Ptr

\* A stream outside the list may have its pointers cleared.
LEMMA FreshLinked ==
  ASSUME NEW L \in SUBSET Addr, NEW nx \in [Addr -> Ptr], NEW pv \in [Addr -> Ptr],
         NEW hd \in Ptr, NEW a \in Addr \ L, Linked(L, nx, pv, hd)
  PROVE  Linked(L, [nx EXCEPT ![a] = NULL], [pv EXCEPT ![a] = NULL], hd)
  BY ConstAssumption DEF Linked, Ptr

-------------------------------------------------------------------------------
(* Every step preserves the inductive invariant *)

\* The heap is finite, so its size is a number.
LEMMA HeapFinite ==
  ASSUME TypeOK
  PROVE  IsFiniteSet(heap) /\ Cardinality(heap) \in Nat
  BY ConstAssumption, FS_Subset, FS_CardinalityType DEF TypeOK

\* malloc of a fresh stream makes the heap one larger.
LEMMA HeapAdd ==
  ASSUME TypeOK, NEW a \in Addr \ heap
  PROVE  Cardinality(heap \union {a}) = Cardinality(heap) + 1
  BY HeapFinite, FS_AddElement

\* free of a live stream makes it one smaller.
LEMMA HeapRemove ==
  ASSUME TypeOK, NEW a \in heap
  PROVE  /\ Cardinality(heap \ {a}) = Cardinality(heap) - 1
         /\ Cardinality(heap) \in Nat \ {0}
<1>1. IsFiniteSet(heap) /\ Cardinality(heap) \in Nat
  BY HeapFinite
<1>2. Cardinality(heap \ {a}) = Cardinality(heap) - 1
  BY <1>1, FS_RemoveElement
<1>3. Cardinality(heap) # 0
  BY <1>1, FS_EmptySet
<1> QED
  BY <1>1, <1>2, <1>3

\* The initial state satisfies the inductive invariant.
LEMMA InitIInv == Init => IInv
<1> SUFFICES ASSUME Init PROVE IInv
  OBVIOUS
<1> USE ConstAssumption DEF Init
<1>1. TypeOK
  BY DEF TypeOK, Ptr, MainPc, ThreadPc
<1>2. SockInv
  BY FS_EmptySet DEF SockInv
<1>3. HeapInv /\ MtxInv /\ ThreadInv
  BY DEF HeapInv, MainHolds, MtxInv, ThreadInv
<1>4. InList = {}
  BY DEF InList
<1>5. Linked(InList, next, prev, streams)
  BY <1>4 DEF Linked
<1> QED
  BY <1>1, <1>2, <1>3, <1>5 DEF IInv, WalkInv

\* Every step preserves the inductive invariant.
LEMMA StepIInv == IInv /\ [Next]_vars => IInv'
<1> SUFFICES ASSUME IInv, [Next]_vars PROVE IInv'
  OBVIOUS
<1> USE ConstAssumption
<1>t. TypeOK /\ HeapInv /\ SockInv /\ MtxInv /\ Linked(InList, next, prev, streams)
      /\ WalkInv /\ ThreadInv
  BY DEF IInv
<1>f. IsFiniteSet(heap) /\ Cardinality(heap) \in Nat
  BY <1>t, HeapFinite
<1>l. InList \in SUBSET Addr /\ InList \subseteq heap
  BY <1>t DEF InList, TypeOK
<1>1. CASE ClientConnect
  <2> USE <1>1, <1>t DEF ClientConnect, netVars, listVars, mainVars, thrVars, threadFrame
  <2>1. TypeOK'
    BY DEF TypeOK, Ptr, MainPc, ThreadPc, HeapInv, MainHolds, SockInv
  <2>2. HeapInv'
    BY DEF HeapInv, TypeOK, Ptr, MainHolds, ThreadPc
  <2>3. SockInv'
    BY <1>f DEF SockInv, TypeOK
  <2>4. MtxInv'
    BY DEF MtxInv, TypeOK, HeapInv, MainHolds, Ptr
  <2>5. InList' = InList
    BY DEF InList, TypeOK, HeapInv, MainHolds, Ptr, ThreadPc
  <2>6. Linked(InList, next, prev, streams)'
    BY <2>5 DEF Linked
  <2>7. WalkInv'
    BY <2>5 DEF WalkInv, Linked, MtxInv, TypeOK, Ptr, HeapInv, MainHolds
  <2>8. ThreadInv'
    BY DEF ThreadInv, TypeOK, HeapInv, MainHolds, Ptr
  <2> QED
    BY <2>1, <2>2, <2>3, <2>4, <2>6, <2>7, <2>8 DEF IInv
<1>2. CASE MainAccept
  <2> USE <1>2, <1>t DEF MainAccept, netVars, listVars, mainVars, thrVars, threadFrame
  <2>1. TypeOK'
    BY DEF TypeOK, Ptr, MainPc, ThreadPc, HeapInv, MainHolds, SockInv
  <2>2. HeapInv'
    BY DEF HeapInv, TypeOK, Ptr, MainHolds, ThreadPc
  <2>3. SockInv'
    BY <1>f DEF SockInv, TypeOK
  <2>4. MtxInv'
    BY DEF MtxInv, TypeOK, HeapInv, MainHolds, Ptr
  <2>5. InList' = InList
    BY DEF InList, TypeOK, HeapInv, MainHolds, Ptr, ThreadPc
  <2>6. Linked(InList, next, prev, streams)'
    BY <2>5 DEF Linked
  <2>7. WalkInv'
    BY <2>5 DEF WalkInv, Linked, MtxInv, TypeOK, Ptr, HeapInv, MainHolds
  <2>8. ThreadInv'
    BY DEF ThreadInv, TypeOK, HeapInv, MainHolds, Ptr
  <2> QED
    BY <2>1, <2>2, <2>3, <2>4, <2>6, <2>7, <2>8 DEF IInv
<1>3. CASE MainAcceptNone
  <2> USE <1>3, <1>t DEF MainAcceptNone, netVars, listVars, mainVars, thrVars, threadFrame
  <2>1. TypeOK'
    BY DEF TypeOK, Ptr, MainPc, ThreadPc, HeapInv, MainHolds, SockInv
  <2>2. HeapInv'
    BY DEF HeapInv, TypeOK, Ptr, MainHolds, ThreadPc
  <2>3. SockInv'
    BY <1>f DEF SockInv, TypeOK
  <2>4. MtxInv'
    BY DEF MtxInv, TypeOK, HeapInv, MainHolds, Ptr
  <2>5. InList' = InList
    BY DEF InList, TypeOK, HeapInv, MainHolds, Ptr, ThreadPc
  <2>6. Linked(InList, next, prev, streams)'
    BY <2>5 DEF Linked
  <2>7. WalkInv'
    BY <2>5 DEF WalkInv, Linked, MtxInv, TypeOK, Ptr, HeapInv, MainHolds
  <2>8. ThreadInv'
    BY DEF ThreadInv, TypeOK, HeapInv, MainHolds, Ptr
  <2> QED
    BY <2>1, <2>2, <2>3, <2>4, <2>6, <2>7, <2>8 DEF IInv
<1>4. CASE MainNew
  <2> USE <1>4, <1>t DEF MainNew, netVars, listVars, mainVars, thrVars, threadFrame
  <2>1. TypeOK'
    BY DEF TypeOK, Ptr, MainPc, ThreadPc, HeapInv, MainHolds, SockInv
  <2>2. HeapInv'
    BY DEF HeapInv, TypeOK, Ptr, MainHolds, ThreadPc
  <2>3. SockInv'
    <3>1. PICK a \in Addr \ heap : heap' = heap \union {a}
      OBVIOUS
    <3>2. Cardinality(heap') = Cardinality(heap) + 1
      BY <3>1, HeapAdd
    <3> QED
      BY <3>2, <1>f DEF SockInv
  <2>4. MtxInv'
    BY DEF MtxInv, TypeOK, HeapInv, MainHolds, Ptr
  <2>5. InList' = InList
    BY DEF InList, TypeOK, HeapInv, MainHolds, Ptr, ThreadPc
  <2>6. Linked(InList, next, prev, streams)'
    <3>1. PICK a \in Addr \ heap : /\ next' = [next EXCEPT ![a] = NULL]
                                   /\ prev' = [prev EXCEPT ![a] = NULL]
      OBVIOUS
    <3>2. Linked(InList, [next EXCEPT ![a] = NULL], [prev EXCEPT ![a] = NULL], streams)
      BY <1>l, FreshLinked DEF TypeOK
    <3> QED
      BY <2>5, <3>1, <3>2
  <2>7. WalkInv'
    BY <2>5 DEF WalkInv, Linked, MtxInv, TypeOK, Ptr, HeapInv, MainHolds
  <2>8. ThreadInv'
    BY DEF ThreadInv, TypeOK, HeapInv, MainHolds, Ptr
  <2> QED
    BY <2>1, <2>2, <2>3, <2>4, <2>6, <2>7, <2>8 DEF IInv
<1>5. CASE MainNewFails
  <2> USE <1>5, <1>t DEF MainNewFails, netVars, listVars, mainVars, thrVars, threadFrame
  <2>1. TypeOK'
    BY <1>f DEF TypeOK, Ptr, MainPc, SockInv
  <2>2. HeapInv'
    BY DEF HeapInv, TypeOK, Ptr, MainHolds, ThreadPc
  <2>3. SockInv'
    BY <1>f DEF SockInv, TypeOK
  <2>4. MtxInv'
    BY DEF MtxInv, TypeOK, HeapInv, MainHolds, Ptr
  <2>5. InList' = InList
    BY DEF InList, TypeOK, HeapInv, MainHolds, Ptr, ThreadPc
  <2>6. Linked(InList, next, prev, streams)'
    BY <2>5 DEF Linked
  <2>7. WalkInv'
    BY <2>5 DEF WalkInv, Linked, MtxInv, TypeOK, Ptr, HeapInv, MainHolds
  <2>8. ThreadInv'
    BY DEF ThreadInv, TypeOK, HeapInv, MainHolds, Ptr
  <2> QED
    BY <2>1, <2>2, <2>3, <2>4, <2>6, <2>7, <2>8 DEF IInv
<1>6. CASE MainLink
  <2> USE <1>6, <1>t DEF MainLink, netVars, listVars, mainVars, thrVars, threadFrame
  <2>1. TypeOK'
    BY DEF TypeOK, Ptr, MainPc, ThreadPc, HeapInv, MainHolds, SockInv
  <2>2. HeapInv'
    BY DEF HeapInv, TypeOK, Ptr, MainHolds, ThreadPc
  <2>3. SockInv'
    BY <1>f DEF SockInv, TypeOK
  <2>4. MtxInv'
    BY DEF MtxInv, TypeOK, HeapInv, MainHolds, Ptr
  <2>8. ThreadInv'
    BY DEF ThreadInv, TypeOK, HeapInv, MainHolds, Ptr
  <2>9. CASE streams = NULL
    <3>1. InList' = InList \union {mst} /\ mst \in Addr \ InList
      BY <2>9 DEF InList, TypeOK, HeapInv, MainHolds, Ptr, ThreadPc
    <3>2. Linked(InList, next, prev, streams)'
      BY <2>9, <3>1, <1>l, FirstLinked DEF TypeOK, WalkInv
    <3>3. WalkInv'
      BY <2>9 DEF WalkInv
    <3> QED
      BY <2>1, <2>2, <2>3, <2>4, <2>8, <3>2, <3>3 DEF IInv
  <2>10. CASE streams # NULL
    <3>1. InList' = InList
      BY <2>10 DEF InList, TypeOK, HeapInv, MainHolds, Ptr, ThreadPc
    <3>2. Linked(InList, next, prev, streams)'
      BY <2>10, <3>1 DEF Linked
    <3>3. WalkInv'
      BY <2>10, <3>1 DEF WalkInv, Linked
    <3> QED
      BY <2>1, <2>2, <2>3, <2>4, <2>8, <3>2, <3>3 DEF IInv
  <2> QED
    BY <2>9, <2>10
<1>7. CASE MainWalk
  <2> USE <1>7, <1>t DEF MainWalk, netVars, listVars, mainVars, thrVars, threadFrame
  <2>1. TypeOK'
    BY <1>l DEF TypeOK, Ptr, MainPc, WalkInv
  <2>2. HeapInv'
    BY DEF HeapInv, TypeOK, Ptr, MainHolds, ThreadPc
  <2>3. SockInv'
    BY <1>f DEF SockInv, TypeOK
  <2>4. MtxInv'
    BY DEF MtxInv, TypeOK, HeapInv, MainHolds, Ptr
  <2>5. InList' = InList
    BY DEF InList, TypeOK, HeapInv, MainHolds, Ptr, ThreadPc
  <2>6. Linked(InList, next, prev, streams)'
    BY <2>5 DEF Linked
  <2>7. WalkInv'
    BY <2>5 DEF WalkInv, Linked, MtxInv, TypeOK, Ptr, HeapInv, MainHolds
  <2>8. ThreadInv'
    BY DEF ThreadInv, TypeOK, HeapInv, MainHolds, Ptr
  <2> QED
    BY <2>1, <2>2, <2>3, <2>4, <2>6, <2>7, <2>8 DEF IInv
<1>8. CASE MainAppend
  <2> USE <1>8, <1>t DEF MainAppend, netVars, listVars, mainVars, thrVars, threadFrame, AppendAfter
  <2>1. TypeOK'
    BY DEF TypeOK, Ptr, MainPc, ThreadPc, HeapInv, MainHolds, SockInv
  <2>2. HeapInv'
    BY DEF HeapInv, TypeOK, Ptr, MainHolds, ThreadPc
  <2>3. SockInv'
    BY <1>f DEF SockInv, TypeOK
  <2>4. MtxInv'
    BY DEF MtxInv, TypeOK, HeapInv, MainHolds, Ptr
  <2>5. InList' = InList \union {mst} /\ mst \in Addr \ InList /\ cur \in InList
    BY DEF InList, TypeOK, HeapInv, MainHolds, Ptr, ThreadPc, WalkInv
  <2>6. Linked(InList, next, prev, streams)'
    BY <2>5, <1>l, AppendLinked DEF TypeOK, WalkInv
  <2>7. WalkInv'
    BY <2>5 DEF WalkInv, Linked, MtxInv, TypeOK, Ptr, HeapInv, MainHolds
  <2>8. ThreadInv'
    BY DEF ThreadInv, TypeOK, HeapInv, MainHolds, Ptr
  <2> QED
    BY <2>1, <2>2, <2>3, <2>4, <2>6, <2>7, <2>8 DEF IInv
<1>9. CASE MainCreate
  <2> USE <1>9, <1>t DEF MainCreate, netVars, listVars, mainVars, thrVars, threadFrame
  <2>1. TypeOK'
    BY DEF TypeOK, Ptr, MainPc, ThreadPc, HeapInv, MainHolds, SockInv
  <2>2. HeapInv'
    BY DEF HeapInv, TypeOK, Ptr, MainHolds, ThreadPc
  <2>3. SockInv'
    BY <1>f DEF SockInv, TypeOK
  <2>4. MtxInv'
    BY DEF MtxInv, TypeOK, HeapInv, MainHolds, Ptr
  <2>5. InList' = InList
    BY DEF InList, TypeOK, HeapInv, MainHolds, Ptr, ThreadPc
  <2>6. Linked(InList, next, prev, streams)'
    BY <2>5 DEF Linked
  <2>7. WalkInv'
    BY <2>5 DEF WalkInv, Linked, MtxInv, TypeOK, Ptr, HeapInv, MainHolds
  <2>8. ThreadInv'
    BY DEF ThreadInv, TypeOK, HeapInv, MainHolds, Ptr
  <2> QED
    BY <2>1, <2>2, <2>3, <2>4, <2>6, <2>7, <2>8 DEF IInv
<1>10. CASE MainCreateFails
  <2> USE <1>10, <1>t DEF MainCreateFails, netVars, listVars, mainVars, thrVars, threadFrame
  <2>1. TypeOK'
    BY DEF TypeOK, Ptr, MainPc, ThreadPc, HeapInv, MainHolds, SockInv
  <2>2. HeapInv'
    BY DEF HeapInv, TypeOK, Ptr, MainHolds, ThreadPc
  <2>3. SockInv'
    BY <1>f DEF SockInv, TypeOK
  <2>4. MtxInv'
    BY DEF MtxInv, TypeOK, HeapInv, MainHolds, Ptr
  <2>5. InList' = InList
    BY DEF InList, TypeOK, HeapInv, MainHolds, Ptr, ThreadPc
  <2>6. Linked(InList, next, prev, streams)'
    BY <2>5 DEF Linked
  <2>7. WalkInv'
    BY <2>5 DEF WalkInv, Linked, MtxInv, TypeOK, Ptr, HeapInv, MainHolds
  <2>8. ThreadInv'
    BY DEF ThreadInv, TypeOK, HeapInv, MainHolds, Ptr
  <2> QED
    BY <2>1, <2>2, <2>3, <2>4, <2>6, <2>7, <2>8 DEF IInv
<1>11. CASE MainDetach
  <2> USE <1>11, <1>t DEF MainDetach, netVars, listVars, mainVars, thrVars, threadFrame
  <2>1. TypeOK'
    BY DEF TypeOK, Ptr, MainPc, ThreadInv
  <2>2. HeapInv'
    BY DEF HeapInv, TypeOK, Ptr, MainHolds, ThreadPc
  <2>3. SockInv'
    BY <1>f DEF SockInv, TypeOK
  <2>4. MtxInv'
    BY DEF MtxInv, TypeOK, HeapInv, MainHolds, Ptr
  <2>5. InList' = InList
    BY DEF InList, TypeOK, HeapInv, MainHolds, Ptr, ThreadPc
  <2>6. Linked(InList, next, prev, streams)'
    BY <2>5 DEF Linked
  <2>7. WalkInv'
    BY <2>5 DEF WalkInv, Linked, MtxInv, TypeOK, Ptr, HeapInv, MainHolds
  <2>8. ThreadInv'
    BY DEF ThreadInv, TypeOK, HeapInv, MainHolds, Ptr
  <2> QED
    BY <2>1, <2>2, <2>3, <2>4, <2>6, <2>7, <2>8 DEF IInv
<1>12. CASE MainLock
  <2> USE <1>12, <1>t DEF MainLock, netVars, listVars, mainVars, thrVars, threadFrame
  <2>1. TypeOK'
    BY DEF TypeOK, Ptr, MainPc, ThreadPc, HeapInv, MainHolds, SockInv
  <2>2. HeapInv'
    BY DEF HeapInv, TypeOK, Ptr, MainHolds, ThreadPc
  <2>3. SockInv'
    BY <1>f DEF SockInv, TypeOK
  <2>4. MtxInv'
    BY DEF MtxInv, TypeOK, HeapInv, MainHolds, Ptr
  <2>5. InList' = InList
    BY DEF InList, TypeOK, HeapInv, MainHolds, Ptr, ThreadPc
  <2>6. Linked(InList, next, prev, streams)'
    BY <2>5 DEF Linked
  <2>7. WalkInv'
    BY <2>5 DEF WalkInv, Linked, MtxInv, TypeOK, Ptr, HeapInv, MainHolds
  <2>8. ThreadInv'
    BY DEF ThreadInv, TypeOK, HeapInv, MainHolds, Ptr
  <2> QED
    BY <2>1, <2>2, <2>3, <2>4, <2>6, <2>7, <2>8 DEF IInv
<1>13. CASE MainUnlink
  <2> USE <1>13, <1>t DEF MainUnlink, netVars, listVars, mainVars, thrVars, threadFrame, UnlinkPtrs
  <2>1. TypeOK'
    BY DEF TypeOK, Ptr, MainPc, ThreadPc, HeapInv, MainHolds, SockInv
  <2>2. HeapInv'
    BY DEF HeapInv, TypeOK, Ptr, MainHolds, ThreadPc
  <2>3. SockInv'
    BY <1>f DEF SockInv, TypeOK
  <2>4. MtxInv'
    BY DEF MtxInv, TypeOK, HeapInv, MainHolds, Ptr
  <2>5. InList' = InList \ {mst} /\ mst \in InList
    BY DEF InList, TypeOK, HeapInv, MainHolds, Ptr, ThreadPc
  <2>6. Linked(InList, next, prev, streams)'
    <3>1. Linked(InList \ {mst}, next', prev', streams')
      BY <2>5, <1>l, UnlinkLinked
    <3> QED
      BY <2>5, <3>1
  <2>7. WalkInv'
    BY <2>5 DEF WalkInv, Linked, MtxInv, TypeOK, Ptr, HeapInv, MainHolds
  <2>8. ThreadInv'
    BY DEF ThreadInv, TypeOK, HeapInv, MainHolds, Ptr
  <2> QED
    BY <2>1, <2>2, <2>3, <2>4, <2>6, <2>7, <2>8 DEF IInv
<1>14. CASE MainDestroy
  <2> USE <1>14, <1>t DEF MainDestroy, netVars, listVars, mainVars, thrVars, threadFrame
  <2>0. mst \in heap
    BY DEF HeapInv, MainHolds
  <2>01. /\ Cardinality(heap \ {mst}) = Cardinality(heap) - 1
         /\ Cardinality(heap) \in Nat \ {0}
    BY <2>0, HeapRemove
  <2>1. TypeOK'
    BY <2>01 DEF TypeOK, Ptr, MainPc, ThreadPc, SockInv
  <2>2. HeapInv'
    BY DEF HeapInv, TypeOK, Ptr, MainHolds, ThreadPc
  <2>3. SockInv'
    BY <2>01 DEF SockInv
  <2>4. MtxInv'
    BY DEF MtxInv, TypeOK, HeapInv, MainHolds, Ptr
  <2>5. InList' = InList
    BY DEF InList, TypeOK, HeapInv, MainHolds, Ptr, ThreadPc
  <2>6. Linked(InList, next, prev, streams)'
    BY <2>5 DEF Linked
  <2>7. WalkInv'
    BY <2>5 DEF WalkInv, Linked, MtxInv, TypeOK, Ptr, HeapInv, MainHolds
  <2>8. ThreadInv'
    BY DEF ThreadInv, TypeOK, HeapInv, MainHolds, Ptr
  <2> QED
    BY <2>1, <2>2, <2>3, <2>4, <2>6, <2>7, <2>8 DEF IInv
<1>15. CASE MainSleep
  <2> USE <1>15, <1>t DEF MainSleep, netVars, listVars, mainVars, thrVars, threadFrame
  <2>1. TypeOK'
    BY DEF TypeOK, Ptr, MainPc, ThreadPc, HeapInv, MainHolds, SockInv
  <2>2. HeapInv'
    BY DEF HeapInv, TypeOK, Ptr, MainHolds, ThreadPc
  <2>3. SockInv'
    BY <1>f DEF SockInv, TypeOK
  <2>4. MtxInv'
    BY DEF MtxInv, TypeOK, HeapInv, MainHolds, Ptr
  <2>5. InList' = InList
    BY DEF InList, TypeOK, HeapInv, MainHolds, Ptr, ThreadPc
  <2>6. Linked(InList, next, prev, streams)'
    BY <2>5 DEF Linked
  <2>7. WalkInv'
    BY <2>5 DEF WalkInv, Linked, MtxInv, TypeOK, Ptr, HeapInv, MainHolds
  <2>8. ThreadInv'
    BY DEF ThreadInv, TypeOK, HeapInv, MainHolds, Ptr
  <2> QED
    BY <2>1, <2>2, <2>3, <2>4, <2>6, <2>7, <2>8 DEF IInv
<1>16. ASSUME NEW a \in Addr, Connect(a) PROVE IInv'
  <2> USE <1>16, <1>t DEF Connect, netVars, listVars, mainVars, thrVars, threadFrame
  <2>1. TypeOK'
    BY DEF TypeOK, Ptr, MainPc, ThreadPc, HeapInv, MainHolds, SockInv
  <2>2. HeapInv'
    BY DEF HeapInv, TypeOK, Ptr, MainHolds, ThreadPc
  <2>3. SockInv'
    BY <1>f DEF SockInv, TypeOK
  <2>4. MtxInv'
    BY DEF MtxInv, TypeOK, HeapInv, MainHolds, Ptr
  <2>5. InList' = InList
    BY DEF InList, TypeOK, HeapInv, MainHolds, Ptr, ThreadPc
  <2>6. Linked(InList, next, prev, streams)'
    BY <2>5 DEF Linked
  <2>7. WalkInv'
    BY <2>5 DEF WalkInv, Linked, MtxInv, TypeOK, Ptr, HeapInv, MainHolds
  <2>8. ThreadInv'
    BY DEF ThreadInv, TypeOK, HeapInv, MainHolds, Ptr
  <2> QED
    BY <2>1, <2>2, <2>3, <2>4, <2>6, <2>7, <2>8 DEF IInv
<1>17. ASSUME NEW a \in Addr, Recv(a) PROVE IInv'
  <2> USE <1>17, <1>t DEF Recv, netVars, listVars, mainVars, thrVars, threadFrame
  <2>1. TypeOK'
    BY DEF TypeOK, Ptr, MainPc, ThreadPc, HeapInv, MainHolds, SockInv
  <2>2. HeapInv'
    BY DEF HeapInv, TypeOK, Ptr, MainHolds, ThreadPc
  <2>3. SockInv'
    BY <1>f DEF SockInv, TypeOK
  <2>4. MtxInv'
    BY DEF MtxInv, TypeOK, HeapInv, MainHolds, Ptr
  <2>5. InList' = InList
    BY DEF InList, TypeOK, HeapInv, MainHolds, Ptr, ThreadPc
  <2>6. Linked(InList, next, prev, streams)'
    BY <2>5 DEF Linked
  <2>7. WalkInv'
    BY <2>5 DEF WalkInv, Linked, MtxInv, TypeOK, Ptr, HeapInv, MainHolds
  <2>8. ThreadInv'
    BY DEF ThreadInv, TypeOK, HeapInv, MainHolds, Ptr
  <2> QED
    BY <2>1, <2>2, <2>3, <2>4, <2>6, <2>7, <2>8 DEF IInv
<1>18. ASSUME NEW a \in Addr, Send(a) PROVE IInv'
  <2> USE <1>18, <1>t DEF Send, netVars, listVars, mainVars, thrVars, threadFrame
  <2>1. TypeOK'
    BY DEF TypeOK, Ptr, MainPc, ThreadPc, HeapInv, MainHolds, SockInv
  <2>2. HeapInv'
    BY DEF HeapInv, TypeOK, Ptr, MainHolds, ThreadPc
  <2>3. SockInv'
    BY <1>f DEF SockInv, TypeOK
  <2>4. MtxInv'
    BY DEF MtxInv, TypeOK, HeapInv, MainHolds, Ptr
  <2>5. InList' = InList
    BY DEF InList, TypeOK, HeapInv, MainHolds, Ptr, ThreadPc
  <2>6. Linked(InList, next, prev, streams)'
    BY <2>5 DEF Linked
  <2>7. WalkInv'
    BY <2>5 DEF WalkInv, Linked, MtxInv, TypeOK, Ptr, HeapInv, MainHolds
  <2>8. ThreadInv'
    BY DEF ThreadInv, TypeOK, HeapInv, MainHolds, Ptr
  <2> QED
    BY <2>1, <2>2, <2>3, <2>4, <2>6, <2>7, <2>8 DEF IInv
<1>19. ASSUME NEW a \in Addr, Lock(a) PROVE IInv'
  <2> USE <1>19, <1>t DEF Lock, netVars, listVars, mainVars, thrVars, threadFrame
  <2>1. TypeOK'
    BY DEF TypeOK, Ptr, MainPc, ThreadPc, HeapInv, MainHolds, SockInv
  <2>2. HeapInv'
    BY DEF HeapInv, TypeOK, Ptr, MainHolds, ThreadPc
  <2>3. SockInv'
    BY <1>f DEF SockInv, TypeOK
  <2>4. MtxInv'
    BY DEF MtxInv, TypeOK, HeapInv, MainHolds, Ptr
  <2>5. InList' = InList
    BY DEF InList, TypeOK, HeapInv, MainHolds, Ptr, ThreadPc
  <2>6. Linked(InList, next, prev, streams)'
    BY <2>5 DEF Linked
  <2>7. WalkInv'
    BY <2>5 DEF WalkInv, Linked, MtxInv, TypeOK, Ptr, HeapInv, MainHolds
  <2>8. ThreadInv'
    BY DEF ThreadInv, TypeOK, HeapInv, MainHolds, Ptr
  <2> QED
    BY <2>1, <2>2, <2>3, <2>4, <2>6, <2>7, <2>8 DEF IInv
<1>20. ASSUME NEW a \in Addr, Unlink(a) PROVE IInv'
  <2> USE <1>20, <1>t DEF Unlink, netVars, listVars, mainVars, thrVars, threadFrame, UnlinkPtrs
  <2>1. TypeOK'
    BY DEF TypeOK, Ptr, MainPc, ThreadPc, HeapInv, MainHolds, SockInv
  <2>2. HeapInv'
    BY DEF HeapInv, TypeOK, Ptr, MainHolds, ThreadPc
  <2>3. SockInv'
    BY <1>f DEF SockInv, TypeOK
  <2>4. MtxInv'
    BY DEF MtxInv, TypeOK, HeapInv, MainHolds, Ptr
  <2>5. InList' = InList \ {a} /\ a \in InList
    BY DEF InList, TypeOK, HeapInv, MainHolds, Ptr, ThreadPc
  <2>6. Linked(InList, next, prev, streams)'
    <3>1. Linked(InList \ {a}, next', prev', streams')
      BY <2>5, <1>l, UnlinkLinked
    <3> QED
      BY <2>5, <3>1
  <2>7. WalkInv'
    BY <2>5 DEF WalkInv, Linked, MtxInv, TypeOK, Ptr, HeapInv, MainHolds
  <2>8. ThreadInv'
    BY DEF ThreadInv, TypeOK, HeapInv, MainHolds, Ptr
  <2> QED
    BY <2>1, <2>2, <2>3, <2>4, <2>6, <2>7, <2>8 DEF IInv
<1>21. ASSUME NEW a \in Addr, Destroy(a) PROVE IInv'
  <2> USE <1>21, <1>t DEF Destroy, netVars, listVars, mainVars, thrVars, threadFrame
  <2>0. a \in heap
    BY DEF HeapInv, MainHolds
  <2>01. /\ Cardinality(heap \ {a}) = Cardinality(heap) - 1
         /\ Cardinality(heap) \in Nat \ {0}
    BY <2>0, HeapRemove
  <2>1. TypeOK'
    BY <2>01 DEF TypeOK, Ptr, MainPc, ThreadPc, SockInv
  <2>2. HeapInv'
    BY DEF HeapInv, TypeOK, Ptr, MainHolds, ThreadPc
  <2>3. SockInv'
    BY <2>01 DEF SockInv
  <2>4. MtxInv'
    BY DEF MtxInv, TypeOK, HeapInv, MainHolds, Ptr
  <2>5. InList' = InList
    BY DEF InList, TypeOK, HeapInv, MainHolds, Ptr, ThreadPc
  <2>6. Linked(InList, next, prev, streams)'
    BY <2>5 DEF Linked
  <2>7. WalkInv'
    BY <2>5 DEF WalkInv, Linked, MtxInv, TypeOK, Ptr, HeapInv, MainHolds
  <2>8. ThreadInv'
    BY DEF ThreadInv, TypeOK, HeapInv, MainHolds, Ptr
  <2> QED
    BY <2>1, <2>2, <2>3, <2>4, <2>6, <2>7, <2>8 DEF IInv
<1>22. CASE UNCHANGED vars
  BY <1>22, <1>t DEF vars, netVars, listVars, mainVars, thrVars, threadFrame, IInv, TypeOK,
     HeapInv, MainHolds, SockInv, MtxInv, InList, Linked, WalkInv, ThreadInv
<1> QED
  BY <1>1, <1>2, <1>3, <1>4, <1>5, <1>6, <1>7, <1>8, <1>9, <1>10, <1>11, <1>12, <1>13,
      <1>14, <1>15, <1>16, <1>17, <1>18, <1>19, <1>20, <1>21, <1>22
      DEF Next, MainNext, ThreadNext

-------------------------------------------------------------------------------
(* The theorems *)

\* The inductive invariant holds in every reachable state.
THEOREM Invariant == Spec => []IInv
  BY InitIInv, StepIInv, PTL DEF Spec

\* Every variable of the server keeps its type, for every set of addresses.
THEOREM TypeCorrect == Spec => []TypeOK
<1>1. IInv => TypeOK
  BY DEF IInv
<1> QED
  BY <1>1, Invariant, PTL

\* No thread ever follows a pointer to a freed sb_Stream: the mutex, the order
\* unlink-then-free and the single owner of each stream are enough, for any
\* number of connections.
THEOREM MemorySafe == Spec => []NoUseAfterFree
<1>1. IInv => NoUseAfterFree
  <2> SUFFICES ASSUME IInv PROVE NoUseAfterFree
    OBVIOUS
  <2>1. TypeOK /\ HeapInv /\ Linked(InList, next, prev, streams) /\ WalkInv
    BY DEF IInv
  <2>2. InList \subseteq heap
    BY DEF InList
  <2>3. \A a \in Addr : tpc[a] = "unlink" => a \in InList
    BY <2>1 DEF HeapInv, InList
  <2>4. mpc = "unlink" => mst \in InList
    BY <2>1 DEF HeapInv, InList, MainHolds
  <2> QED
    BY <2>1, <2>2, <2>3, <2>4 DEF NoUseAfterFree, HeapInv, MainHolds, Linked, WalkInv
<1> QED
  BY <1>1, Invariant, PTL

\* Every live stream is owned by exactly one thread and every open socket by a
\* stream, or by the accept that just returned it: nothing is leaked or freed
\* twice on any path.
THEOREM SingleOwner == Spec => []OwnedOnce
<1>1. IInv => OwnedOnce
  BY DEF IInv, OwnedOnce, HeapInv, SockInv, MainHolds
<1> QED
  BY <1>1, Invariant, PTL

\* A thread that has exited keeps no stack and control block, except between
\* pthread_create and pthread_detach.
THEOREM NoThreadLeak == Spec => []ThreadsReclaimed
<1>1. IInv => ThreadsReclaimed
  BY DEF IInv, ThreadsReclaimed, ThreadInv, TypeOK
<1> QED
  BY <1>1, Invariant, PTL


-------------------------------------------------------------------------------
(* The list as a sequence *)

\* s is the list with head hd and pointers nx, and has the streams in L, each once.
Along(s, nx, hd) ==
  /\ hd = IF s = <<>> THEN NULL ELSE s[1]
  /\ \A i \in 1..Len(s) : nx[s[i]] = IF i = Len(s) THEN NULL ELSE s[i + 1]

Orders(s, L, nx, hd) ==
  /\ s \in Seq(Addr) /\ Along(s, nx, hd)
  /\ \A i, j \in 1..Len(s) : s[i] = s[j] => i = j
  /\ \A a : a \in L <=> \E i \in 1..Len(s) : s[i] = a

ChainOf(nx, hd) ==
  CHOOSE s \in UNION {[1..n -> Addr] : n \in 0..Cardinality(Addr)} : Along(s, nx, hd)

LEMMA LeastNat ==
  ASSUME NEW T \in SUBSET Nat, T # {}
  PROVE  \E x \in T : \A y \in T : x <= y
<1>1. PICK x \in T : \A y \in T : ~(<<y, x>> \in OpToRel(<, Nat))
  BY NatLessThanWellFounded, WFMin
<1>2. x \in Nat /\ \A y \in T : y \in Nat
  BY <1>1
<1>3. \A y \in T : ~(y < x)
  BY <1>1, <1>2 DEF OpToRel
<1>4. \A y \in T : x <= y
  BY <1>2, <1>3
<1> QED
  BY <1>1, <1>4

\* A sequence that runs along the pointers agrees with any other as far as it goes: at the
\* first place where they differ, the pointers of the place before differ.
LEMMA AlongAgree ==
  ASSUME NEW nx, NEW hd, NEW s \in Seq(Addr), NEW t \in Seq(Addr),
         Along(s, nx, hd), Along(t, nx, hd),
         NEW k \in 1..Len(s)
  PROVE  k \in 1..Len(t) /\ s[k] = t[k]
<1> DEFINE Off == {i \in 1..Len(s) : ~(i \in 1..Len(t) /\ s[i] = t[i])}
<1>1. SUFFICES ASSUME Off # {} PROVE FALSE
  OBVIOUS
<1>2. Off \in SUBSET Nat /\ Len(s) \in Nat /\ Len(t) \in Nat
  OBVIOUS
<1>3. PICK i \in Off : \A j \in Off : i <= j
  BY <1>1, <1>2, LeastNat
<1>4. i \in 1..Len(s) /\ i \in Nat /\ s[i] \in Addr /\ s # <<>>
  BY <1>3
<1>5. CASE i = 1
  <2>1. hd = s[1] /\ hd # NULL
    BY <1>4, <1>5, ConstAssumption DEF Along
  <2>2. t # <<>> /\ hd = t[1]
    BY <2>1 DEF Along
  <2>3. 1 \in 1..Len(t)
    BY <1>2, <2>2
  <2> QED
    BY <1>3, <1>5, <2>1, <2>2, <2>3
<1>6. CASE i # 1
  <2>1. i - 1 \in 1..Len(s) /\ i - 1 # Len(s) /\ (i - 1) + 1 = i
    BY <1>2, <1>4, <1>6
  <2>2. i - 1 \in 1..Len(t) /\ s[i - 1] = t[i - 1]
    <3>1. i - 1 \notin Off
      BY <1>3, <1>4
    <3> QED
      BY <2>1, <3>1
  <2>3. nx[s[i - 1]] = s[i]
    BY <2>1 DEF Along
  <2>4. nx[t[i - 1]] = s[i] /\ s[i] # NULL
    BY <1>4, <2>2, <2>3, ConstAssumption
  <2>5. i - 1 # Len(t) /\ nx[t[i - 1]] = t[(i - 1) + 1]
    BY <2>2, <2>4 DEF Along
  <2>6. i \in 1..Len(t) /\ t[i] = s[i]
    BY <1>2, <1>4, <2>1, <2>2, <2>4, <2>5
  <2> QED
    BY <1>3, <2>6
<1> QED
  BY <1>5, <1>6

LEMMA AlongUnique ==
  ASSUME NEW nx, NEW hd, NEW s \in Seq(Addr), NEW t \in Seq(Addr),
         Along(s, nx, hd), Along(t, nx, hd)
  PROVE  s = t
<1>1. Len(s) \in Nat /\ Len(t) \in Nat
  OBVIOUS
<1>2. \A k \in 1..Len(s) : k \in 1..Len(t) /\ s[k] = t[k]
  BY AlongAgree
<1>3. \A k \in 1..Len(t) : k \in 1..Len(s)
  BY AlongAgree
<1>4. Len(s) = Len(t)
  <2>1. Len(s) > 0 => Len(s) \in 1..Len(t)
    BY <1>1, <1>2
  <2>2. Len(t) > 0 => Len(t) \in 1..Len(s)
    BY <1>1, <1>3
  <2> QED
    BY <1>1, <2>1, <2>2
<1> QED
  BY <1>1, <1>2, <1>4

\* The list fits into the addresses, so Chain finds it.
LEMMA ChainIs ==
  ASSUME NEW s, NEW L, NEW nx, NEW hd, Orders(s, L, nx, hd)
  PROVE  ChainOf(nx, hd) = s
<1> DEFINE U == UNION {[1..n -> Addr] : n \in 0..Cardinality(Addr)}
<1>1. s \in Seq(Addr) /\ Len(s) \in Nat /\ s \in [1..Len(s) -> Addr]
  BY DEF Orders
<1>2. Cardinality(Addr) \in Nat
  BY ConstAssumption, FS_CardinalityType
<1>3. Len(s) <= Cardinality(Addr)
  <2>1. SUFFICES ASSUME Cardinality(Addr) < Len(s) PROVE FALSE
    BY <1>1, <1>2
  <2>2. IsFiniteSet(1..Len(s)) /\ Cardinality(1..Len(s)) = Len(s)
    <3>1. 1 \in Int /\ Len(s) \in Int /\ Len(s) > 0
      BY <1>1, <1>2, <2>1
    <3> QED
      BY <3>1, FS_Interval
  <2>3. \E x, y \in 1..Len(s) : x # y /\ s[x] = s[y]
    BY <1>1, <2>1, <2>2, ConstAssumption, FS_PigeonHole
  <2> QED
    BY <2>3 DEF Orders
<1>4. s \in U
  BY <1>1, <1>2, <1>3
<1>5. \A t \in U : t \in Seq(Addr)
  BY <1>2
<1>6. \A t \in U : Along(t, nx, hd) => t = s
  BY <1>1, <1>5, AlongUnique DEF Orders
<1>7. Along(s, nx, hd)
  BY DEF Orders
<1>8. (CHOOSE t \in U : Along(t, nx, hd)) = s
  <2> HIDE DEF U
  <2> QED
    BY <1>4, <1>6, <1>7
<1> QED
  BY <1>8 DEF ChainOf


\* What is done to streams outside the list does not change it.
LEMMA OrdersSame ==
  ASSUME NEW s, NEW L, NEW nx, NEW nx2, NEW hd, Orders(s, L, nx, hd),
         \A a \in L : nx2[a] = nx[a]
  PROVE  Orders(s, L, nx2, hd)
<1>1. \A i \in 1..Len(s) : s[i] \in L
  BY DEF Orders
<1>2. Along(s, nx2, hd)
  BY <1>1 DEF Orders, Along
<1> QED
  BY <1>2 DEF Orders

\* sb_stream_link into an empty list.
LEMMA OrdersFirst ==
  ASSUME NEW s, NEW L, NEW nx, NEW a \in Addr, Orders(s, L, nx, NULL), nx[a] = NULL
  PROVE  s = <<>> /\ Orders(Append(s, a), L \union {a}, nx, a)
<1>1. s = <<>>
  <2>1. SUFFICES ASSUME s # <<>> PROVE FALSE
    OBVIOUS
  <2>2. s \in Seq(Addr) /\ s[1] = NULL
    BY <2>1 DEF Orders, Along
  <2>3. s[1] \in Addr
    BY <2>1, <2>2
  <2> QED
    BY <2>2, <2>3, ConstAssumption
<1>2. \A b : b \notin L
  BY <1>1 DEF Orders
<1> DEFINE t == <<a>>
<1>3. t \in Seq(Addr) /\ Len(t) = 1 /\ t[1] = a /\ t # <<>>
  OBVIOUS
<1>4. Append(s, a) = t
  BY <1>1
<1> HIDE DEF t
<1>5. 1..Len(t) = {1}
  BY <1>3
<1>6. Along(t, nx, a)
  BY <1>3, <1>5 DEF Along
<1>7. Orders(t, L \union {a}, nx, a)
  BY <1>2, <1>3, <1>5, <1>6 DEF Orders
<1> QED
  BY <1>1, <1>4, <1>7

\* sb_stream_link behind the stream b, whose next is null: b is the last one.
LEMMA OrdersAppend ==
  ASSUME NEW s, NEW L, NEW nx \in [Addr -> Ptr], NEW hd, Orders(s, L, nx, hd),
         NEW b \in L, nx[b] = NULL, NEW a \in Addr, a \notin L, nx[a] = NULL
  PROVE  Orders(Append(s, a), L \union {a}, [nx EXCEPT ![b] = a], hd)
<1> DEFINE n == Len(s)
           t == Append(s, a)
           nx2 == [nx EXCEPT ![b] = a]
<1>1. s \in Seq(Addr) /\ n \in Nat
  BY DEF Orders
<1>2. PICK k \in 1..n : s[k] = b
  BY DEF Orders
<1>3. k = n
  <2>1. SUFFICES ASSUME k # n PROVE FALSE
    OBVIOUS
  <2>2. k + 1 \in 1..n
    BY <1>1, <1>2, <2>1
  <2>3. nx[s[k]] = s[k + 1]
    BY <1>2, <2>1 DEF Orders, Along
  <2> QED
    BY <1>1, <1>2, <2>2, <2>3, ConstAssumption
<1>4. n > 0 /\ n \in 1..n /\ s[n] = b /\ s # <<>>
  BY <1>1, <1>2, <1>3
<1>5. /\ t \in Seq(Addr) /\ Len(t) = n + 1 /\ t[n + 1] = a
      /\ \A i \in 1..n : t[i] = s[i]
  BY <1>1
<1>6. \A i \in 1..n : s[i] # a /\ s[i] \in Addr
  BY <1>1 DEF Orders
<1>7. nx2[b] = a /\ \A c \in Addr : c # b => nx2[c] = nx[c]
  BY <1>4, <1>6
<1> HIDE DEF t, nx2
<1>8. Along(t, nx2, hd)
  <2>1. hd = IF t = <<>> THEN NULL ELSE t[1]
    <3>1. hd = s[1] /\ t[1] = s[1]
      BY <1>1, <1>4, <1>5 DEF Orders, Along
    <3>2. t # <<>>
      BY <1>1, <1>5
    <3> QED
      BY <3>1, <3>2
  <2>2. ASSUME NEW i \in 1..Len(t)
        PROVE  nx2[t[i]] = IF i = Len(t) THEN NULL ELSE t[i + 1]
    <3>1. CASE i = n + 1
      <4>1. t[i] = a /\ a # b
        BY <1>4, <1>5, <1>6, <3>1
      <4> QED
        BY <1>5, <1>7, <3>1, <4>1
    <3>2. CASE i = n
      BY <1>1, <1>4, <1>5, <1>7, <3>2
    <3>3. CASE i # n + 1 /\ i # n
      <4>1. i \in 1..n /\ i + 1 \in 1..n
        BY <1>1, <1>5, <3>3
      <4>2. s[i] # b
        BY <1>4, <3>3, <4>1 DEF Orders
      <4>3. nx[s[i]] = s[i + 1]
        BY <3>3, <4>1 DEF Orders, Along
      <4> QED
        BY <1>1, <1>5, <1>6, <1>7, <3>3, <4>1, <4>2, <4>3
    <3> QED
      BY <3>1, <3>2, <3>3
  <2> QED
    BY <2>1, <2>2 DEF Along
<1>9. \A i, j \in 1..Len(t) : t[i] = t[j] => i = j
  <2>1. \A i \in 1..Len(t) : i \in 1..n \/ i = n + 1
    BY <1>1, <1>5
  <2>2. \A i, j \in 1..n : s[i] = s[j] => i = j
    BY DEF Orders
  <2> QED
    BY <1>5, <1>6, <2>1, <2>2
<1>10. \A c : c \in L \union {a} <=> \E i \in 1..Len(t) : t[i] = c
  <2>1. 1..Len(t) = (1..n) \union {n + 1}
    BY <1>1, <1>5
  <2>2. \A c : c \in L <=> \E i \in 1..n : s[i] = c
    BY DEF Orders
  <2> QED
    BY <1>5, <2>1, <2>2
<1>11. Orders(t, L \union {a}, nx2, hd)
  BY <1>5, <1>8, <1>9, <1>10 DEF Orders
<1> QED
  BY <1>11 DEF t, nx2

\* t is s without its k-th element.
Skips(t, s, k) ==
  /\ t \in Seq(Addr) /\ Len(t) = Len(s) - 1
  /\ \A i \in 1..(k - 1) : t[i] = s[i]
  /\ \A i \in k..(Len(s) - 1) : t[i] = s[i + 1]

\* nx2 and hd2 are the pointers sb_stream_unlink leaves when it takes out a.
Joins(nx2, hd2, nx, pv, hd, a) ==
  /\ \A b \in Addr : nx2[b] = IF b = pv[a] THEN nx[a] ELSE nx[b]
  /\ hd2 = IF hd = a THEN nx[a] ELSE hd

LEMMA Removed ==
  ASSUME NEW s \in Seq(Addr), NEW k \in 1..Len(s)
  PROVE  Skips(SubSeq(s, 1, k - 1) \o SubSeq(s, k + 1, Len(s)), s, k)
<1> DEFINE n == Len(s)
           u == SubSeq(s, 1, k - 1)
           v == SubSeq(s, k + 1, n)
<1>1. n \in Nat /\ k \in Nat /\ 1 <= k /\ k <= n
  OBVIOUS
<1>2. u \in Seq(Addr) /\ Len(u) = k - 1 /\ \A i \in 1..(k - 1) : u[i] = s[i]
  BY <1>1
<1>3. v \in Seq(Addr) /\ Len(v) = n - k /\ \A i \in 1..(n - k) : v[i] = s[k + i]
  BY <1>1
<1> HIDE DEF u, v, n
<1>4. u \o v \in Seq(Addr) /\ Len(u \o v) = n - 1
  <2>1. u \o v \in Seq(Addr) /\ Len(u \o v) = Len(u) + Len(v)
    BY <1>2, <1>3, ConcatProperties
  <2>2. (k - 1) + (n - k) = n - 1
    BY <1>1
  <2> QED
    BY <1>2, <1>3, <2>1, <2>2
<1>5. ASSUME NEW i \in 1..(k - 1) PROVE (u \o v)[i] = s[i]
  BY <1>1, <1>2, <1>3
<1>6. ASSUME NEW i \in k..(n - 1) PROVE (u \o v)[i] = s[i + 1]
  <2>1. i \in Nat /\ i > k - 1 /\ i - (k - 1) \in 1..(n - k) /\ k + (i - (k - 1)) = i + 1
    BY <1>1
  <2>2. (u \o v)[i] = v[i - (k - 1)]
    BY <1>1, <1>2, <1>3, <2>1
  <2> QED
    BY <1>3, <2>1, <2>2
<1> QED
  BY <1>4, <1>5, <1>6 DEF u, v, n, Skips

\* sb_stream_unlink of the k-th stream.
LEMMA OrdersUnlink ==
  ASSUME NEW s, NEW L \in SUBSET Addr, NEW nx \in [Addr -> Ptr], NEW pv \in [Addr -> Ptr],
         NEW hd \in Ptr, Orders(s, L, nx, hd), Linked(L, nx, pv, hd),
         NEW k \in 1..Len(s), NEW a, a = s[k], NEW t, Skips(t, s, k),
         NEW nx2, NEW hd2, Joins(nx2, hd2, nx, pv, hd, a)
  PROVE  Orders(t, L \ {a}, nx2, hd2)
<1> DEFINE n == Len(s)
<1>1. s \in Seq(Addr) /\ n \in Nat /\ k \in Nat /\ 1 <= k /\ k <= n
  BY DEF Orders
<1>2. \A i \in 1..n : s[i] \in Addr /\ s[i] \in L /\ s[i] # NULL
  BY <1>1, ConstAssumption DEF Orders
<1>3. \A i, j \in 1..n : s[i] = s[j] => i = j
  BY DEF Orders
<1>4. /\ t \in Seq(Addr) /\ Len(t) = n - 1
      /\ \A i \in 1..(k - 1) : t[i] = s[i]
      /\ \A i \in k..(n - 1) : t[i] = s[i + 1]
  BY DEF Skips
<1>5. nx[a] = IF k = n THEN NULL ELSE s[k + 1]
  BY DEF Orders, Along
<1>6. pv[a] = IF k = 1 THEN NULL ELSE s[k - 1]
  <2>1. CASE k = 1
    <3>1. hd = a /\ hd # NULL
      <4>1. s # <<>>
        BY <1>1
      <4> QED
        BY <1>2, <2>1, <4>1 DEF Orders, Along
    <3> QED
      BY <2>1, <3>1 DEF Linked
  <2>2. CASE k # 1
    <3>1. k - 1 \in 1..n /\ k - 1 # n /\ (k - 1) + 1 = k
      BY <1>1, <2>2
    <3>2. nx[s[k - 1]] = a
      BY <3>1 DEF Orders, Along
    <3>3. pv[a] = s[k - 1]
      BY <1>2, <3>1, <3>2 DEF Linked
    <3> QED
      BY <2>2, <3>3
  <2> QED
    BY <2>1, <2>2
<1>h. hd2 = IF hd = a THEN nx[a] ELSE hd
  BY DEF Joins
<1>7. hd = s[1]
  <2>1. s # <<>>
    BY <1>1
  <2> QED
    BY <2>1 DEF Orders, Along
<1>8. \A b \in Addr : nx2[b] = IF b = pv[a] THEN nx[a] ELSE nx[b]
  BY DEF Joins
<1>9. \A i \in 1..n : nx[s[i]] = IF i = n THEN NULL ELSE s[i + 1]
  BY DEF Orders, Along
<1> HIDE DEF n
<1>10. Along(t, nx2, hd2)
  <2>1. hd2 = IF t = <<>> THEN NULL ELSE t[1]
    <3>1. CASE k = 1
      <4>1. hd2 = nx[a]
        BY <1>7, <1>h, <3>1
      <4>2. CASE n = 1
        BY <1>4, <1>5, <3>1, <4>1, <4>2
      <4>3. CASE n # 1
        <5>1. t # <<>> /\ t[1] = s[2] /\ nx[a] = s[2]
          BY <1>1, <1>4, <1>5, <3>1, <4>3
        <5> QED
          BY <4>1, <5>1
      <4> QED
        BY <4>2, <4>3
    <3>2. CASE k # 1
      <4>1. s[1] # a /\ t # <<>> /\ t[1] = s[1]
        BY <1>1, <1>3, <1>4, <3>2
      <4> QED
        BY <1>7, <1>h, <4>1
    <3> QED
      BY <3>1, <3>2
  <2>2. ASSUME NEW i \in 1..Len(t)
        PROVE  nx2[t[i]] = IF i = Len(t) THEN NULL ELSE t[i + 1]
    <3>0. i \in Nat /\ 1 <= i /\ i <= n - 1
      BY <1>1, <1>4
    <3>1. CASE i = k - 1
      <4>1. t[i] = s[k - 1] /\ t[i] \in Addr /\ k # 1
        BY <1>1, <1>2, <1>4, <3>0, <3>1
      <4>2. nx2[t[i]] = nx[a]
        BY <1>6, <1>8, <4>1
      <4>3. CASE k = n
        BY <1>1, <1>4, <1>5, <3>1, <4>2, <4>3
      <4>4. CASE k # n
        <5>1. i # Len(t) /\ t[i + 1] = s[k + 1]
          BY <1>1, <1>4, <3>0, <3>1, <4>4
        <5> QED
          BY <1>5, <4>2, <4>4, <5>1
      <4> QED
        BY <4>3, <4>4
    <3>2. CASE i < k - 1
      <4>1. /\ i \in 1..(k - 1) /\ i + 1 \in 1..(k - 1) /\ i \in 1..n /\ i # n /\ i # Len(t)
            /\ k - 1 \in 1..n /\ i # k - 1 /\ k # 1
        BY <1>1, <1>4, <3>0, <3>2
      <4>2. t[i] = s[i] /\ t[i + 1] = s[i + 1] /\ s[i] # s[k - 1] /\ s[i] \in Addr
        BY <1>2, <1>3, <1>4, <4>1
      <4>3. nx2[s[i]] = nx[s[i]]
        BY <1>6, <1>8, <4>1, <4>2
      <4> QED
        BY <1>9, <4>1, <4>2, <4>3
    <3>3. CASE i >= k
      <4>1. i \in k..(n - 1) /\ i + 1 \in 1..n
        BY <1>1, <3>0, <3>3
      <4>2. t[i] = s[i + 1] /\ s[i + 1] \in Addr
        BY <1>2, <1>4, <4>1
      <4>3. s[i + 1] # pv[a]
        <5>1. CASE k = 1
          BY <1>2, <1>6, <4>1, <5>1
        <5>2. CASE k # 1
          <6>1. k - 1 \in 1..n /\ k - 1 # i + 1
            BY <1>1, <3>0, <3>3, <5>2
          <6> QED
            BY <1>3, <1>6, <4>1, <5>2, <6>1
        <5> QED
          BY <5>1, <5>2
      <4>4. nx2[t[i]] = nx[s[i + 1]]
        BY <1>8, <4>2, <4>3
      <4>5. CASE i = Len(t)
        <5>1. i + 1 = n
          BY <1>1, <1>4, <3>0, <4>5
        <5> QED
          BY <1>9, <4>1, <4>4, <4>5, <5>1
      <4>6. CASE i # Len(t)
        <5>1. i + 1 # n /\ i + 1 \in k..(n - 1)
          BY <1>1, <1>4, <3>0, <3>3, <4>6
        <5> QED
          BY <1>4, <1>9, <4>1, <4>4, <4>6, <5>1
      <4> QED
        BY <4>5, <4>6
    <3> QED
      BY <1>1, <3>0, <3>1, <3>2, <3>3
  <2> QED
    BY <2>1, <2>2 DEF Along
<1>11. \A i \in 1..Len(t) : \/ i \in 1..(k - 1) /\ i \in 1..n /\ t[i] = s[i]
                            \/ i \in k..(n - 1) /\ i + 1 \in 1..n /\ t[i] = s[i + 1]
  BY <1>1, <1>4
<1>12. \A i, j \in 1..Len(t) : t[i] = t[j] => i = j
  <2>1. SUFFICES ASSUME NEW i \in 1..Len(t), NEW j \in 1..Len(t), t[i] = t[j] PROVE i = j
    OBVIOUS
  <2>2. i \in Nat /\ j \in Nat /\ k \in Nat
    BY <1>1
  <2> DEFINE Kept(x)  == x \in 1..(k - 1) /\ x \in 1..n /\ t[x] = s[x]
             Moved(x) == x \in k..(n - 1) /\ x + 1 \in 1..n /\ t[x] = s[x + 1]
  <2>3. CASE Kept(i) /\ Kept(j)
    BY <1>3, <2>1, <2>3
  <2>4. CASE Moved(i) /\ Moved(j)
    <3>1. i + 1 = j + 1
      BY <1>3, <2>1, <2>4
    <3> QED
      BY <2>2, <3>1
  <2>5. CASE Kept(i) /\ Moved(j)
    <3>1. i = j + 1
      BY <1>3, <2>1, <2>5
    <3> QED
      BY <2>2, <2>5, <3>1
  <2>6. CASE Moved(i) /\ Kept(j)
    <3>1. i + 1 = j
      BY <1>3, <2>1, <2>6
    <3> QED
      BY <2>2, <2>6, <3>1
  <2>7. (Kept(i) \/ Moved(i)) /\ (Kept(j) \/ Moved(j))
    BY <1>11
  <2> HIDE DEF Kept, Moved
  <2> QED
    BY <2>3, <2>4, <2>5, <2>6, <2>7
<1>13. \A c : c \in L \ {a} <=> \E i \in 1..Len(t) : t[i] = c
  <2>1. ASSUME NEW c \in L, c # a PROVE \E i \in 1..Len(t) : t[i] = c
    <3>1. PICK j \in 1..n : s[j] = c
      BY <2>1 DEF Orders, n
    <3>2. j # k /\ j \in Nat
      BY <2>1, <3>1
    <3>3. CASE j < k
      <4>1. j \in 1..(k - 1) /\ j \in 1..Len(t)
        BY <1>1, <1>4, <3>1, <3>2, <3>3
      <4> QED
        BY <1>4, <3>1, <4>1
    <3>4. CASE j > k
      <4>1. j - 1 \in k..(n - 1) /\ j - 1 \in 1..Len(t) /\ (j - 1) + 1 = j
        BY <1>1, <1>4, <3>1, <3>2, <3>4
      <4> QED
        BY <1>4, <3>1, <4>1
    <3> QED
      BY <1>1, <3>2, <3>3, <3>4
  <2>2. ASSUME NEW i \in 1..Len(t) PROVE t[i] \in L /\ t[i] # a
    <3>1. i \in Nat
      OBVIOUS
    <3> QED
      BY <1>1, <1>2, <1>3, <1>11, <2>2, <3>1
  <2> QED
    BY <2>1, <2>2
<1> QED
  BY <1>4, <1>10, <1>12, <1>13 DEF Orders


-------------------------------------------------------------------------------
(* The list under the steps of the threads *)

\* A step that leaves the list alone: it may clear the pointers of a stream that
\* is not in it.
Untouched ==
  /\ streams' = streams
  /\ InList' = InList
  /\ \A a \in InList : next'[a] = next[a]

\* sb_stream_link, when it has found the place of the stream a.
Linking(a) ==
  /\ a \in Addr \ InList
  /\ InList' = InList \union {a}
  /\ next[a] = NULL
  /\ \/ streams = NULL /\ streams' = a /\ next' = next
     \/ /\ streams' = streams
        /\ \E b \in InList : next[b] = NULL /\ next' = [next EXCEPT ![b] = a]

\* sb_stream_unlink of the stream a.
Unlinking(a) ==
  /\ a \in InList
  /\ InList' = InList \ {a}
  /\ UnlinkPtrs(a)

\* Every step of the main thread, of a connection thread or of a client is one
\* of the three.
LEMMA StepList ==
  IInv /\ [Next]_vars
    => Untouched \/ \E a \in Addr : Linking(a) \/ Unlinking(a)
<1> SUFFICES ASSUME IInv, [Next]_vars
             PROVE  Untouched \/ \E a \in Addr : Linking(a) \/ Unlinking(a)
  OBVIOUS
<1> USE ConstAssumption
<1>t. TypeOK /\ HeapInv /\ SockInv /\ MtxInv /\ Linked(InList, next, prev, streams)
      /\ WalkInv /\ ThreadInv
  BY DEF IInv
<1>l. InList \in SUBSET Addr /\ InList \subseteq heap
  BY <1>t DEF InList, TypeOK
<1>1. CASE ClientConnect
  <2>1. InList' = InList
    BY <1>1, <1>t DEF ClientConnect, netVars, listVars, mainVars, thrVars, threadFrame, InList, TypeOK,
       HeapInv, MainHolds, Ptr, ThreadPc
  <2>2. streams' = streams /\ next' = next
    BY <1>1 DEF ClientConnect, netVars, listVars, mainVars, thrVars, threadFrame
  <2> QED
    BY <2>1, <2>2 DEF Untouched
<1>2. CASE MainAccept
  <2>1. InList' = InList
    BY <1>2, <1>t DEF MainAccept, netVars, listVars, mainVars, thrVars, threadFrame, InList, TypeOK,
       HeapInv, MainHolds, Ptr, ThreadPc
  <2>2. streams' = streams /\ next' = next
    BY <1>2 DEF MainAccept, netVars, listVars, mainVars, thrVars, threadFrame
  <2> QED
    BY <2>1, <2>2 DEF Untouched
<1>3. CASE MainAcceptNone
  <2>1. InList' = InList
    BY <1>3, <1>t DEF MainAcceptNone, netVars, listVars, mainVars, thrVars, threadFrame, InList, TypeOK,
       HeapInv, MainHolds, Ptr, ThreadPc
  <2>2. streams' = streams /\ next' = next
    BY <1>3 DEF MainAcceptNone, netVars, listVars, mainVars, thrVars, threadFrame
  <2> QED
    BY <2>1, <2>2 DEF Untouched
<1>4. CASE MainNewFails
  <2>1. InList' = InList
    BY <1>4, <1>t DEF MainNewFails, netVars, listVars, mainVars, thrVars, threadFrame, InList, TypeOK,
       HeapInv, MainHolds, Ptr, ThreadPc
  <2>2. streams' = streams /\ next' = next
    BY <1>4 DEF MainNewFails, netVars, listVars, mainVars, thrVars, threadFrame
  <2> QED
    BY <2>1, <2>2 DEF Untouched
<1>5. CASE MainWalk
  <2>1. InList' = InList
    BY <1>5, <1>t DEF MainWalk, netVars, listVars, mainVars, thrVars, threadFrame, InList, TypeOK,
       HeapInv, MainHolds, Ptr, ThreadPc
  <2>2. streams' = streams /\ next' = next
    BY <1>5 DEF MainWalk, netVars, listVars, mainVars, thrVars, threadFrame
  <2> QED
    BY <2>1, <2>2 DEF Untouched
<1>6. CASE MainCreate
  <2>1. InList' = InList
    BY <1>6, <1>t DEF MainCreate, netVars, listVars, mainVars, thrVars, threadFrame, InList, TypeOK,
       HeapInv, MainHolds, Ptr, ThreadPc
  <2>2. streams' = streams /\ next' = next
    BY <1>6 DEF MainCreate, netVars, listVars, mainVars, thrVars, threadFrame
  <2> QED
    BY <2>1, <2>2 DEF Untouched
<1>7. CASE MainCreateFails
  <2>1. InList' = InList
    BY <1>7, <1>t DEF MainCreateFails, netVars, listVars, mainVars, thrVars, threadFrame, InList, TypeOK,
       HeapInv, MainHolds, Ptr, ThreadPc
  <2>2. streams' = streams /\ next' = next
    BY <1>7 DEF MainCreateFails, netVars, listVars, mainVars, thrVars, threadFrame
  <2> QED
    BY <2>1, <2>2 DEF Untouched
<1>8. CASE MainDetach
  <2>1. InList' = InList
    BY <1>8, <1>t DEF MainDetach, netVars, listVars, mainVars, thrVars, threadFrame, InList, TypeOK,
       HeapInv, MainHolds, Ptr, ThreadPc
  <2>2. streams' = streams /\ next' = next
    BY <1>8 DEF MainDetach, netVars, listVars, mainVars, thrVars, threadFrame
  <2> QED
    BY <2>1, <2>2 DEF Untouched
<1>9. CASE MainLock
  <2>1. InList' = InList
    BY <1>9, <1>t DEF MainLock, netVars, listVars, mainVars, thrVars, threadFrame, InList, TypeOK,
       HeapInv, MainHolds, Ptr, ThreadPc
  <2>2. streams' = streams /\ next' = next
    BY <1>9 DEF MainLock, netVars, listVars, mainVars, thrVars, threadFrame
  <2> QED
    BY <2>1, <2>2 DEF Untouched
<1>10. CASE MainDestroy
  <2>1. InList' = InList
    BY <1>10, <1>t DEF MainDestroy, netVars, listVars, mainVars, thrVars, threadFrame, InList, TypeOK,
       HeapInv, MainHolds, Ptr, ThreadPc
  <2>2. streams' = streams /\ next' = next
    BY <1>10 DEF MainDestroy, netVars, listVars, mainVars, thrVars, threadFrame
  <2> QED
    BY <2>1, <2>2 DEF Untouched
<1>11. CASE MainSleep
  <2>1. InList' = InList
    BY <1>11, <1>t DEF MainSleep, netVars, listVars, mainVars, thrVars, threadFrame, InList, TypeOK,
       HeapInv, MainHolds, Ptr, ThreadPc
  <2>2. streams' = streams /\ next' = next
    BY <1>11 DEF MainSleep, netVars, listVars, mainVars, thrVars, threadFrame
  <2> QED
    BY <2>1, <2>2 DEF Untouched
<1>12. CASE MainNew
  <2>1. InList' = InList
    BY <1>12, <1>t DEF MainNew, netVars, listVars, mainVars, thrVars, threadFrame, InList, TypeOK,
       HeapInv, MainHolds, Ptr, ThreadPc
  <2>2. PICK a \in Addr \ heap : next' = [next EXCEPT ![a] = NULL]
    BY <1>12 DEF MainNew
  <2>3. \A b \in InList : next'[b] = next[b]
    BY <1>l, <1>t, <2>2 DEF TypeOK
  <2>4. streams' = streams
    BY <1>12 DEF MainNew
  <2> QED
    BY <2>1, <2>3, <2>4 DEF Untouched
<1>13. CASE MainLink
  <2>1. next' = next
    BY <1>13 DEF MainLink
  <2>2. CASE streams = NULL
    <3>1. InList' = InList \union {mst} /\ mst \in Addr \ InList
      BY <1>13, <1>t, <2>2 DEF MainLink, netVars, listVars, mainVars, thrVars, threadFrame, InList,
         TypeOK, HeapInv, MainHolds, Ptr, ThreadPc
    <3>2. next[mst] = NULL /\ streams' = mst
      BY <1>13, <1>t, <2>2 DEF MainLink, WalkInv
    <3>3. Linking(mst)
      BY <2>1, <2>2, <3>1, <3>2 DEF Linking
    <3> QED
      BY <3>1, <3>3
  <2>3. CASE streams # NULL
    <3>1. InList' = InList
      BY <1>13, <1>t, <2>3 DEF MainLink, netVars, listVars, mainVars, thrVars, threadFrame, InList,
         TypeOK, HeapInv, MainHolds, Ptr, ThreadPc
    <3>2. streams' = streams
      BY <1>13, <2>3 DEF MainLink
    <3> QED
      BY <2>1, <3>1, <3>2 DEF Untouched
  <2> QED
    BY <2>2, <2>3
<1>14. CASE MainAppend
  <2>1. InList' = InList \union {mst} /\ mst \in Addr \ InList /\ cur \in InList
    BY <1>14, <1>t DEF MainAppend, AppendAfter, netVars, listVars, mainVars, thrVars, threadFrame,
       InList, TypeOK, HeapInv, MainHolds, Ptr, ThreadPc, WalkInv
  <2>2. /\ next[mst] = NULL /\ streams' = streams /\ next[cur] = NULL
        /\ next' = [next EXCEPT ![cur] = mst]
    BY <1>14, <1>t DEF MainAppend, AppendAfter, WalkInv
  <2>3. Linking(mst)
    BY <2>1, <2>2 DEF Linking
  <2> QED
    BY <2>1, <2>3
<1>15. CASE MainUnlink
  <2>1. InList' = InList \ {mst} /\ mst \in InList
    BY <1>15, <1>t DEF MainUnlink, netVars, listVars, mainVars, thrVars, threadFrame, InList, TypeOK,
       HeapInv, MainHolds, Ptr, ThreadPc
  <2>2. Unlinking(mst)
    BY <1>15, <2>1 DEF MainUnlink, Unlinking
  <2> QED
    BY <1>l, <2>1, <2>2
<1>16. ASSUME NEW a \in Addr, Connect(a) PROVE Untouched
  <2>1. InList' = InList
    BY <1>16, <1>t DEF Connect, netVars, listVars, mainVars, thrVars, threadFrame, InList, TypeOK,
       HeapInv, MainHolds, Ptr, ThreadPc
  <2>2. streams' = streams /\ next' = next
    BY <1>16 DEF Connect, netVars, listVars, mainVars, thrVars, threadFrame
  <2> QED
    BY <2>1, <2>2 DEF Untouched
<1>17. ASSUME NEW a \in Addr, Recv(a) PROVE Untouched
  <2>1. InList' = InList
    BY <1>17, <1>t DEF Recv, netVars, listVars, mainVars, thrVars, threadFrame, InList, TypeOK,
       HeapInv, MainHolds, Ptr, ThreadPc
  <2>2. streams' = streams /\ next' = next
    BY <1>17 DEF Recv, netVars, listVars, mainVars, thrVars, threadFrame
  <2> QED
    BY <2>1, <2>2 DEF Untouched
<1>18. ASSUME NEW a \in Addr, Send(a) PROVE Untouched
  <2>1. InList' = InList
    BY <1>18, <1>t DEF Send, netVars, listVars, mainVars, thrVars, threadFrame, InList, TypeOK,
       HeapInv, MainHolds, Ptr, ThreadPc
  <2>2. streams' = streams /\ next' = next
    BY <1>18 DEF Send, netVars, listVars, mainVars, thrVars, threadFrame
  <2> QED
    BY <2>1, <2>2 DEF Untouched
<1>19. ASSUME NEW a \in Addr, Lock(a) PROVE Untouched
  <2>1. InList' = InList
    BY <1>19, <1>t DEF Lock, netVars, listVars, mainVars, thrVars, threadFrame, InList, TypeOK,
       HeapInv, MainHolds, Ptr, ThreadPc
  <2>2. streams' = streams /\ next' = next
    BY <1>19 DEF Lock, netVars, listVars, mainVars, thrVars, threadFrame
  <2> QED
    BY <2>1, <2>2 DEF Untouched
<1>20. ASSUME NEW a \in Addr, Destroy(a) PROVE Untouched
  <2>1. InList' = InList
    BY <1>20, <1>t DEF Destroy, netVars, listVars, mainVars, thrVars, threadFrame, InList, TypeOK,
       HeapInv, MainHolds, Ptr, ThreadPc
  <2>2. streams' = streams /\ next' = next
    BY <1>20 DEF Destroy, netVars, listVars, mainVars, thrVars, threadFrame
  <2> QED
    BY <2>1, <2>2 DEF Untouched
<1>21. ASSUME NEW a \in Addr, Unlink(a) PROVE Unlinking(a)
  <2>1. InList' = InList \ {a} /\ a \in InList
    BY <1>21, <1>t DEF Unlink, netVars, listVars, mainVars, thrVars, threadFrame, InList, TypeOK,
       HeapInv, MainHolds, Ptr, ThreadPc
  <2> QED
    BY <1>21, <2>1 DEF Unlink, Unlinking
<1>22. CASE UNCHANGED vars
  BY <1>22 DEF vars, netVars, listVars, mainVars, thrVars, threadFrame, Untouched, InList
<1> QED
  BY <1>1, <1>2, <1>3, <1>4, <1>5, <1>6, <1>7, <1>8, <1>9, <1>10, <1>11, <1>12, <1>13,
      <1>14, <1>15, <1>16, <1>17, <1>18, <1>19, <1>20, <1>21, <1>22
      DEF Next, MainNext, ThreadNext

\* A sequence orders the list.
ListInv == \E s : Orders(s, InList, next, streams)

\* s without its i-th element.
Without(s, i) == SubSeq(s, 1, i - 1) \o SubSeq(s, i + 1, Len(s))

\* What a step may do to that sequence.
StepOf(s, t) ==
  \/ t = s
  \/ \E a \in Addr :
       \/ (\A i \in 1..Len(s) : s[i] # a) /\ t = Append(s, a)
       \/ \E i \in 1..Len(s) : s[i] = a /\ t = Without(s, i)

\* Each kind of step gives the sequence of the list after it.
LEMMA StepOrders ==
  ASSUME IInv, [Next]_vars, NEW s, Orders(s, InList, next, streams)
  PROVE  \E t : StepOf(s, t) /\ Orders(t, InList', next', streams')
<1>t. /\ next \in [Addr -> Ptr] /\ prev \in [Addr -> Ptr] /\ streams \in Ptr
      /\ Linked(InList, next, prev, streams)
  BY DEF IInv, TypeOK
<1>l. InList \in SUBSET Addr
  BY DEF IInv, TypeOK, InList
<1>o. s \in Seq(Addr) /\ \A a : a \in InList <=> \E i \in 1..Len(s) : s[i] = a
  BY DEF Orders
<1>1. CASE Untouched
  <2>1. Orders(s, InList, next', streams)
    BY <1>1, OrdersSame DEF Untouched
  <2>2. Orders(s, InList', next', streams')
    BY <1>1, <2>1 DEF Untouched
  <2> QED
    BY <2>2 DEF StepOf
<1>2. ASSUME NEW a \in Addr, Linking(a)
      PROVE  \E t : StepOf(s, t) /\ Orders(t, InList', next', streams')
  <2>1. \A i \in 1..Len(s) : s[i] # a
    BY <1>2, <1>o DEF Linking
  <2>2. StepOf(s, Append(s, a))
    BY <2>1 DEF StepOf
  <2>3. CASE streams = NULL /\ streams' = a /\ next' = next
    <3>1. Orders(Append(s, a), InList \union {a}, next, a)
      BY <1>2, <2>3, OrdersFirst DEF Linking
    <3>2. Orders(Append(s, a), InList', next', streams')
      BY <1>2, <2>3, <3>1 DEF Linking
    <3> QED
      BY <2>2, <3>2
  <2>4. ASSUME NEW b \in InList, next[b] = NULL, next' = [next EXCEPT ![b] = a],
               streams' = streams
        PROVE  Orders(Append(s, a), InList', next', streams')
    <3>1. Orders(Append(s, a), InList \union {a}, [next EXCEPT ![b] = a], streams)
      BY <1>2, <1>t, <2>4, OrdersAppend DEF Linking
    <3> QED
      BY <1>2, <2>4, <3>1 DEF Linking
  <2> QED
    BY <1>2, <2>2, <2>3, <2>4 DEF Linking
<1>3. ASSUME NEW a \in Addr, Unlinking(a)
      PROVE  \E t : StepOf(s, t) /\ Orders(t, InList', next', streams')
  <2>1. PICK k \in 1..Len(s) : a = s[k]
    BY <1>3, <1>o DEF Unlinking
  <2> DEFINE t == Without(s, k)
  <2>2. StepOf(s, t)
    BY <2>1 DEF StepOf
  <2>3. Skips(t, s, k)
    BY <1>o, Removed DEF Without
  <2> HIDE DEF t
  <2>4. Joins(next', streams', next, prev, streams, a)
    BY <1>3 DEF Unlinking, UnlinkPtrs, Joins
  <2>5. Orders(t, InList \ {a}, next', streams')
    BY <1>t, <1>l, <2>1, <2>3, <2>4, OrdersUnlink
  <2>6. Orders(t, InList', next', streams')
    BY <1>3, <2>5 DEF Unlinking
  <2> QED
    BY <2>2, <2>6
<1> QED
  BY <1>1, <1>2, <1>3, StepList

LEMMA InitListInv == Init => ListInv
<1> SUFFICES ASSUME Init PROVE ListInv
  OBVIOUS
<1>1. InList = {} /\ streams = NULL
  BY DEF Init, InList
<1>2. <<>> \in Seq(Addr) /\ 1..Len(<<>>) = {}
  OBVIOUS
<1>3. Along(<<>>, next, streams)
  BY <1>1, <1>2 DEF Along
<1>4. Orders(<<>>, InList, next, streams)
  BY <1>1, <1>2, <1>3 DEF Orders
<1> QED
  BY <1>4 DEF ListInv

LEMMA StepListInv == IInv /\ ListInv /\ [Next]_vars => ListInv'
<1> SUFFICES ASSUME IInv, ListInv, [Next]_vars PROVE ListInv'
  OBVIOUS
<1>1. PICK s : Orders(s, InList, next, streams)
  BY DEF ListInv
<1>2. \E t : Orders(t, InList', next', streams')
  BY <1>1, StepOrders
<1> QED
  BY <1>2 DEF ListInv

\* The list is always one sequence, and Chain is it.
LEMMA ChainOrders == ASSUME NEW s, Orders(s, InList, next, streams) PROVE Chain = s
<1>1. ChainOf(next, streams) = s
  BY ChainIs
<1> QED
  BY <1>1 DEF Chain, Follows, ChainOf, Along

LEMMA ChainOrdersNext ==
  ASSUME NEW s, Orders(s, InList', next', streams') PROVE Chain' = s
<1>1. ChainOf(next', streams') = s
  BY ChainIs
<1> QED
  BY <1>1 DEF Chain, Follows, ChainOf, Along

\* ImplementsStreamList: the pointers implement the sequence of StreamList, for every
\* number of streams and threads.
THEOREM Refinement == Spec => ImplementsStreamList
<1>1. Init => Abs!LInit
  <2> SUFFICES ASSUME Init PROVE Abs!LInit
    OBVIOUS
  <2>1. PICK s : Orders(s, InList, next, streams)
    BY InitListInv DEF ListInv
  <2>2. InList = {}
    BY DEF Init, InList
  <2>3. s \in Seq(Addr) /\ \A i \in 1..Len(s) : s[i] \in InList
    BY <2>1 DEF Orders
  <2>4. s = <<>>
    <3>1. Len(s) \in Nat /\ ~(1 \in 1..Len(s))
      BY <2>2, <2>3
    <3>2. Len(s) = 0
      BY <3>1
    <3> QED
      BY <2>3, <3>2
  <2>5. Chain = <<>>
    BY <2>1, <2>4, ChainOrders
  <2> QED
    BY <2>5 DEF Abs!LInit
<1>2. IInv /\ ListInv /\ [Next]_vars => [Abs!LNext]_Chain
  <2> SUFFICES ASSUME IInv, ListInv, [Next]_vars PROVE Abs!LNext \/ Chain' = Chain
    OBVIOUS
  <2>1. PICK s : Orders(s, InList, next, streams)
    BY DEF ListInv
  <2>2. PICK t : StepOf(s, t) /\ Orders(t, InList', next', streams')
    BY <2>1, StepOrders
  <2>3. Chain = s /\ Chain' = t
    BY <2>1, <2>2, ChainOrders, ChainOrdersNext
  <2>4. ASSUME NEW a \in Addr, \A i \in 1..Len(s) : s[i] # a, t = Append(s, a)
        PROVE  Abs!Link(a)
    BY <2>3, <2>4 DEF Abs!Link, Abs!Contains
  <2>5. ASSUME NEW a \in Addr, NEW i \in 1..Len(s), s[i] = a, t = Without(s, i)
        PROVE  Abs!Unlink(a)
    BY <2>3, <2>5 DEF Abs!Unlink, Abs!RemoveAt, Without
  <2> QED
    BY <2>2, <2>3, <2>4, <2>5 DEF StepOf, Abs!LNext
<1>3. Spec => []ListInv
  <2>1. IInv /\ ListInv /\ [Next]_vars => ListInv'
    BY StepListInv
  <2> QED
    BY <2>1, InitListInv, Invariant, PTL DEF Spec
<1> QED
  BY <1>1, <1>2, <1>3, Invariant, PTL DEF Spec, ImplementsStreamList, Abs!LSpec


\* The list stands still under the walk of sb_stream_link: the main thread holds
\* stream_mtx, and a connection thread that unlinks would hold it too.
LEMMA WalkHoldsList ==
  ASSUME IInv, [Next]_vars, mpc = "walk", mpc' = "walk"
  PROVE  streams' = streams /\ next' = next
<1>1. mtx = Main
  BY DEF IInv, MtxInv
<1>2. ASSUME NEW a \in Addr, ThreadNext(a) PROVE streams' = streams /\ next' = next
  <2>1. ~ Unlink(a)
    BY <1>1, ConstAssumption DEF IInv, MtxInv, Unlink
  <2> QED
    BY <1>2, <2>1 DEF ThreadNext, Connect, Recv, Send, Lock, Destroy, listVars
<1>3. CASE MainNext
  BY <1>3 DEF MainNext, MainAccept, MainAcceptNone, MainNew, MainNewFails, MainLink,
     MainWalk, MainAppend, MainCreate, MainCreateFails, MainDetach, MainLock, MainUnlink,
     MainDestroy, MainSleep, listVars
<1>4. CASE ClientConnect \/ UNCHANGED vars
  BY <1>4 DEF ClientConnect, vars, listVars
<1> QED
  BY <1>2, <1>3, <1>4 DEF Next

\* The walk goes through the list in order, one stream a step, and the list does not
\* change before it is over; so it is over after at most as many steps as the list has
\* streams, which is what the loop of sb_stream_link relies on to end.
WalkInOrder ==
  mpc = "walk" /\ mpc' = "walk" =>
    /\ Chain' = Chain
    /\ cur' = cur \/ \E i \in 1..(Len(Chain) - 1) : Chain[i] = cur /\ Chain[i + 1] = cur'

\* The stream joins behind the last one of the list the walk went through.
AppendAtTail ==
  MainAppend => /\ Len(Chain) > 0 /\ Chain[Len(Chain)] = cur
                /\ Chain' = Append(Chain, mst)

LEMMA StepWalk == IInv /\ ListInv /\ [Next]_vars => WalkInOrder
<1> SUFFICES ASSUME IInv, ListInv, [Next]_vars, mpc = "walk", mpc' = "walk"
             PROVE  /\ Chain' = Chain
                    /\ \/ cur' = cur
                       \/ \E i \in 1..(Len(Chain) - 1) : Chain[i] = cur /\ Chain[i + 1] = cur'
  BY DEF WalkInOrder
<1>1. PICK s : Orders(s, InList, next, streams)
  BY DEF ListInv
<1>2. Chain = s
  BY <1>1, ChainOrders
<1>3. Chain' = Chain
  BY WalkHoldsList DEF Chain, Follows
<1>4. cur \in InList
  BY DEF IInv, WalkInv
<1>5. cur' = cur \/ MainWalk
  <2>1. CASE MainNext
    BY <2>1 DEF MainNext, MainAccept, MainAcceptNone, MainNew, MainNewFails, MainLink,
       MainWalk, MainAppend, MainCreate, MainCreateFails, MainDetach, MainLock, MainUnlink,
       MainDestroy, MainSleep
  <2>2. ASSUME NEW a \in Addr, ThreadNext(a) PROVE cur' = cur
    BY <2>2 DEF ThreadNext, Connect, Recv, Send, Lock, Unlink, Destroy, threadFrame, mainVars
  <2>3. CASE ClientConnect \/ UNCHANGED vars
    BY <2>3 DEF ClientConnect, vars, mainVars
  <2> QED
    BY <2>1, <2>2, <2>3 DEF Next
<1>6. CASE MainWalk
  <2>1. PICK i \in 1..Len(s) : s[i] = cur
    BY <1>1, <1>4 DEF Orders
  <2>2. next[s[i]] = IF i = Len(s) THEN NULL ELSE s[i + 1]
    BY <1>1 DEF Orders, Along
  <2>3. next[cur] # NULL /\ cur' = next[cur]
    BY <1>6 DEF MainWalk
  <2>4. i # Len(s) /\ s[i + 1] = cur'
    BY <2>1, <2>2, <2>3
  <2>5. Len(s) \in Nat
    BY <1>1 DEF Orders
  <2>6. i \in 1..(Len(s) - 1)
    BY <2>1, <2>4, <2>5
  <2> QED
    BY <1>2, <1>3, <2>1, <2>4, <2>6
<1> QED
  BY <1>3, <1>5, <1>6

LEMMA StepAppend == IInv /\ ListInv /\ [Next]_vars => AppendAtTail
<1> SUFFICES ASSUME IInv, ListInv, MainAppend
             PROVE  /\ Len(Chain) > 0 /\ Chain[Len(Chain)] = cur
                    /\ Chain' = Append(Chain, mst)
  BY DEF AppendAtTail
<1>0. [Next]_vars
  BY DEF Next, MainNext
<1>1. PICK s : Orders(s, InList, next, streams)
  BY DEF ListInv
<1>2. Chain = s
  BY <1>1, ChainOrders
<1>3. /\ cur \in InList /\ next[cur] = NULL /\ next[mst] = NULL
      /\ next' = [next EXCEPT ![cur] = mst] /\ streams' = streams
  BY DEF IInv, WalkInv, MainAppend, AppendAfter
<1>4. InList' = InList \union {mst} /\ mst \in Addr \ InList
  BY ConstAssumption DEF IInv, MainAppend, AppendAfter, netVars, listVars, mainVars, thrVars,
     InList, TypeOK, HeapInv, MainHolds, Ptr, ThreadPc, WalkInv
<1>5. PICK i \in 1..Len(s) : s[i] = cur
  BY <1>1, <1>3 DEF Orders
<1>6. i = Len(s) /\ Len(s) > 0
  <2>1. next[s[i]] = IF i = Len(s) THEN NULL ELSE s[i + 1]
    BY <1>1 DEF Orders, Along
  <2>2. s \in Seq(Addr) /\ Len(s) \in Nat
    BY <1>1 DEF Orders
  <2>3. SUFFICES ASSUME i # Len(s) PROVE FALSE
    BY <1>5, <2>2
  <2>4. i + 1 \in 1..Len(s)
    BY <1>5, <2>2, <2>3
  <2>5. s[i + 1] \in Addr
    BY <2>2, <2>4
  <2> QED
    BY <1>3, <1>5, <2>1, <2>3, <2>5, ConstAssumption
<1>7. Orders(Append(s, mst), InList \union {mst}, [next EXCEPT ![cur] = mst], streams)
  BY <1>1, <1>3, <1>4, OrdersAppend DEF IInv, TypeOK
<1>8. Orders(Append(s, mst), InList', next', streams')
  BY <1>3, <1>4, <1>7
<1>9. Chain' = Append(s, mst)
  BY <1>8, ChainOrdersNext
<1> QED
  BY <1>2, <1>5, <1>6, <1>9

\* The walk of sb_stream_link visits the streams of the list in order while the list
\* stands still, and the new stream joins behind the last one.
THEOREM WalkReachesTail == Spec => [][WalkInOrder /\ AppendAtTail]_vars
<1>1. Spec => []ListInv
  BY InitListInv, StepListInv, Invariant, PTL DEF Spec
<1>2. IInv /\ ListInv /\ [Next]_vars => [WalkInOrder /\ AppendAtTail]_vars
  BY StepWalk, StepAppend
<1> QED
  BY <1>1, <1>2, Invariant, PTL DEF Spec
=================================================================================
