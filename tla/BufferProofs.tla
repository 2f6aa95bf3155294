------------------------------ MODULE BufferProofs ------------------------------
(***************************************************************************)
(* Proofs about Buffer, for any set of bytes, any texts and any bounds:    *)
(* the buffer holds what was written and nothing else, a terminated string *)
(* ends inside, and every step is a step of ByteQueue or none.             *)
(***************************************************************************)
EXTENDS Buffer, SequenceTheorems, TLAPS

\* The frame of the call: clean between calls, a text and no result yet during one.
CallInv ==
  /\ op = "idle" => text = <<>> /\ breaks = {} /\ orig = 0 /\ inner = 0
  /\ op # "idle" => text # <<>> /\ result = "none"
  /\ len \in Nat

\* In vwritef the string that is being pushed began at a break, the first one at 0.
BreakInv ==
  op \in {"writef", "fail"} => /\ 0 \in breaks
                               /\ At = 0 \/ inner - orig \in breaks

IInv ==
  /\ HoldsWhatWasWritten
  /\ StringStaysInside
  /\ CallInv
  /\ BreakInv

-------------------------------------------------------------------------------
(* Memory *)

\* A cell is a byte or unwritten.
Cell == Byte \cup {Junk}

\* Storing a byte: the memory holds one byte more than was in use, and what was in use
\* is as before.
LEMMA StoreKeeps ==
  ASSUME TypeOK, result # "unread", NEW c \in Byte, Store(c)
  PROVE  /\ cap' \in Nat /\ len < cap' /\ cap <= cap'
         /\ mem' \in [1..cap' -> Cell]
         /\ mem'[len + 1] = c
         /\ \A i \in 1..len : mem'[i] = mem[i]
<1>. DEFINE n == IF Full THEN Grown ELSE cap
<1>1. n \in Nat /\ len < n /\ cap <= n
  BY DEF TypeOK, Full, Grown
<1>2. cap' = n /\ mem' = [i \in 1..n |-> IF i = len + 1 THEN c ELSE Realloc(n)[i]]
  BY DEF Store
<1>3. \A i \in 1..n : Realloc(n)[i] = IF i <= cap THEN mem[i] ELSE Junk
  BY DEF Realloc
<1>. HIDE DEF n
<1>4. \A i \in 1..n : Realloc(n)[i] \in Cell
  BY <1>1, <1>3 DEF TypeOK, Cell
<1>. QED
  BY <1>1, <1>2, <1>3, <1>4 DEF TypeOK, Cell

-------------------------------------------------------------------------------
(* The inductive invariant *)

LEMMA InitIInv == Init => IInv
<1>. SUFFICES ASSUME Init PROVE IInv
  OBVIOUS
<1>1. TypeOK
  BY DEF Init, TypeOK
<1>. QED
  BY <1>1 DEF Init, IInv, HoldsWhatWasWritten, NoJunkSent, WrittenSoFar, StringStaysInside,
              CallInv, BreakInv

\* What TypeOK says of the numbers, and of the cells while len counts some of them.
LEMMA Numbers ==
  ASSUME IInv
  PROVE  /\ cap \in Nat /\ len \in Nat /\ orig \in Nat /\ inner \in Nat
         /\ text \in Seq(Byte) /\ Len(text) \in Nat
         /\ result # "unread" => /\ len <= cap
                                 /\ \A i \in 1..len : mem[i] \in Byte
<1>1. /\ cap \in Nat /\ len \in Nat /\ orig \in Nat /\ inner \in Nat
      /\ text \in Seq(Byte) /\ Len(text) \in Nat
  BY DEF IInv, HoldsWhatWasWritten, TypeOK, CallInv
<1>2. ASSUME result # "unread" PROVE len \in 0..cap
  BY <1>2 DEF IInv, HoldsWhatWasWritten, TypeOK
<1>3. ASSUME result # "unread", NEW i \in 1..len PROVE mem[i] \in Byte
  <2>1. mem[i] \in Byte \cup {Junk} /\ mem[i] # Junk
    BY <1>1, <1>2, <1>3 DEF IInv, HoldsWhatWasWritten, TypeOK, NoJunkSent
  <2>. QED
    BY <2>1
<1>. QED
  BY <1>1, <1>2, <1>3

\* Texts are sequences of bytes that are not empty.
LEMMA TextsAreSeqs == \A s \in Texts : s \in Seq(Byte) /\ Len(s) \in Nat \ {0}
BY BufferAssumption DEF Texts

\* A call begins.
LEMMA BeginIInv ==
  ASSUME IInv, NEW name \in {"str", "writef"}, NEW s \in Texts,
         NEW b \in SUBSET Nat, name = "writef" => 0 \in b, Begin(name, s, b)
  PROVE  IInv'
<1>. USE DEF IInv, HoldsWhatWasWritten, Begin, Ready
<1>0. s \in Seq(Byte) /\ Len(s) \in Nat \ {0} /\ s # <<>>
  BY TextsAreSeqs
<1>1. TypeOK'
  BY <1>0 DEF TypeOK
<1>2. NoJunkSent'
  BY DEF NoJunkSent
<1>3. WrittenSoFar'
  BY <1>0 DEF WrittenSoFar, TypeOK, At
<1>4. StringStaysInside' /\ CallInv' /\ BreakInv'
  BY <1>0 DEF StringStaysInside, CallInv, BreakInv, At, TypeOK
<1>. QED
  BY <1>1, <1>2, <1>3, <1>4

\* A char is stored: it is the next one of the text.
LEMMA PushCharIInv ==
  ASSUME IInv, PushChar
  PROVE  IInv'
<1>. USE DEF IInv, HoldsWhatWasWritten
<1>00. /\ result = "none" /\ cap \in Nat /\ len \in Nat /\ orig \in Nat /\ inner \in Nat
       /\ text \in Seq(Byte) /\ \A i \in 1..len : mem[i] \in Byte
  BY Numbers DEF PushChar, Pushing, CallInv
<1>0. /\ op \in {"str", "writef"} /\ At \in Nat /\ At < Len(text)
      /\ orig <= inner /\ inner <= len /\ len = orig + At
      /\ \A i \in 1..At : mem[orig + i] = text[i]
      /\ text[At + 1] \in Byte
  BY <1>00 DEF PushChar, Pushing, WrittenSoFar, At
<1>1. /\ cap' \in Nat /\ len < cap' /\ mem' \in [1..cap' -> Cell]
      /\ mem'[len + 1] = text[At + 1] /\ \A i \in 1..len : mem'[i] = mem[i]
  BY <1>00, <1>0, StoreKeeps DEF PushChar
<1>2. /\ len' = len + 1 /\ inner' = InnerNow /\ InnerNow \in Nat
      /\ op' = op /\ text' = text /\ breaks' = breaks /\ orig' = orig /\ result' = result
  BY <1>00 DEF PushChar, InnerNow, TypeOK
<1>3. TypeOK'
  BY <1>00, <1>1, <1>2 DEF TypeOK, Cell
<1>4. NoJunkSent'
  <2>1. \A i \in 1..len' : mem'[i] \in Byte
    BY <1>00, <1>0, <1>1, <1>2
  <2>. QED
    BY <2>1, BufferAssumption DEF NoJunkSent
<1>5. At' = At + 1
  BY <1>00, <1>2 DEF At, TypeOK
<1>6. WrittenSoFar'
  <2>1. orig' <= inner' /\ inner' <= len' /\ At' <= Len(text')
    BY <1>00, <1>0, <1>2, <1>5 DEF InnerNow, TypeOK
  <2>2. ASSUME NEW i \in 1..At' PROVE mem'[orig' + i] = text'[i]
    <3>1. CASE i = At + 1
      <4>1. orig + i = len + 1
        BY <3>1, <1>00, <1>0 DEF TypeOK
      <4>. QED
        BY <3>1, <4>1, <1>1, <1>2
    <3>2. CASE i # At + 1
      <4>1. i \in 1..At /\ orig + i \in 1..len
        BY <3>2, <1>00, <1>0, <1>5 DEF TypeOK
      <4>. QED
        BY <4>1, <1>0, <1>1, <1>2
    <3>. QED
      BY <3>1, <3>2
  <2>. QED
    BY <2>1, <2>2, <1>0, <1>2 DEF WrittenSoFar
<1>7. StringStaysInside' /\ CallInv'
  BY <1>00, <1>0, <1>2 DEF StringStaysInside, CallInv
<1>8. BreakInv'
  BY <1>00, <1>0, <1>2 DEF BreakInv, InnerNow, At, TypeOK
<1>. QED
  BY <1>3, <1>4, <1>6, <1>7, <1>8

\* A call ends and the length is put back, or stays.
LEMMA EndIInv ==
  ASSUME IInv, NEW r \in {"done", "refused"}, End(r), op # "idle",
         len' \in 0..len, UNCHANGED <<cap, mem>>
  PROVE  IInv'
<1>. USE DEF IInv, HoldsWhatWasWritten
<1>0. result = "none"
  BY DEF CallInv
<1>1. TypeOK'
  BY <1>0 DEF End, TypeOK
<1>2. NoJunkSent'
  BY <1>0 DEF NoJunkSent, TypeOK
<1>3. WrittenSoFar' /\ StringStaysInside' /\ CallInv' /\ BreakInv'
  <2>1. len' \in Nat
    BY Numbers
  <2>. QED
    BY <2>1 DEF End, WrittenSoFar, StringStaysInside, CallInv, BreakInv
<1>. QED
  BY <1>1, <1>2, <1>3

\* realloc fails inside vwritef: the string that did not fit is gone, those before stay.
LEMMA WritefFailsIInv ==
  ASSUME IInv, WritefFails
  PROVE  IInv'
<1>. USE DEF IInv, HoldsWhatWasWritten, WritefFails
<1>0. /\ op = "writef" /\ orig <= inner /\ inner <= len /\ At <= Len(text)
      /\ \A i \in 1..At : mem[orig + i] = text[i]
      /\ 0 \in breaks /\ (At = 0 \/ inner - orig \in breaks) /\ result = "none"
  BY DEF WrittenSoFar, BreakInv, CallInv
<1>1. InnerNow \in orig..len /\ InnerNow - orig \in breaks
  BY <1>0 DEF InnerNow, TypeOK, At, BreakInv
<1>2. TypeOK'
  BY <1>0, <1>1 DEF TypeOK
<1>3. NoJunkSent'
  BY <1>0, <1>1 DEF NoJunkSent, TypeOK
<1>4. WrittenSoFar'
  BY <1>0, <1>1 DEF WrittenSoFar, At, TypeOK
<1>5. StringStaysInside' /\ CallInv' /\ BreakInv'
  BY <1>0, <1>1, <1>2 DEF StringStaysInside, CallInv, BreakInv, At, TypeOK
<1>. QED
  BY <1>2, <1>3, <1>4, <1>5

\* The NUL behind the last byte is inside the memory.
LEMMA NullTerminateIInv ==
  ASSUME IInv, NullTerminate
  PROVE  IInv'
<1>. USE DEF IInv, HoldsWhatWasWritten
<1>0. /\ op = "idle" /\ result # "unread" /\ Store(Nul) /\ result' = "terminated"
      /\ len' = len /\ op' = op /\ text' = text /\ breaks' = breaks
      /\ orig' = orig /\ inner' = inner
  BY DEF NullTerminate, Ready, call
<1>1. /\ cap' \in Nat /\ len < cap' /\ mem' \in [1..cap' -> Cell]
      /\ mem'[len + 1] = Nul /\ \A i \in 1..len : mem'[i] = mem[i]
  BY <1>0, StoreKeeps, BufferAssumption
<1>2. TypeOK'
  BY <1>0, <1>1 DEF TypeOK, Cell
<1>3. NoJunkSent'
  BY <1>0, <1>1 DEF NoJunkSent
<1>4. StringStaysInside'
  <2>1. len' + 1 \in 1..(len' + 1) /\ len' + 1 <= cap' /\ mem'[len' + 1] = Nul
    BY <1>0, <1>1 DEF TypeOK
  <2>. QED
    BY <2>1 DEF StringStaysInside
<1>5. WrittenSoFar' /\ CallInv' /\ BreakInv'
  BY <1>0, <1>2 DEF TypeOK, WrittenSoFar, CallInv, BreakInv
<1>. QED
  BY <1>2, <1>3, <1>4, <1>5

\* Shifting moves bytes that were written to where bytes were written.
LEMMA ShiftIInv ==
  ASSUME IInv, NEW n \in Nat, Shift(n)
  PROVE  IInv'
<1>. USE DEF IInv, HoldsWhatWasWritten
<1>0. /\ op = "idle" /\ n \in 1..len /\ len' = len - n /\ result' = "none"
      /\ cap' = cap /\ op' = op /\ text' = text /\ breaks' = breaks
      /\ orig' = orig /\ inner' = inner /\ result # "unread"
  BY DEF Shift, SendAccepts, call
<1>1. /\ mem' \in [1..cap -> Cell]
      /\ \A i \in 1..(len - n) : mem'[i] = mem[i + n] /\ i + n \in 1..len
  BY <1>0 DEF Shift, Moved, TypeOK, Cell
<1>2. TypeOK'
  BY <1>0, <1>1 DEF TypeOK, Cell
<1>3. NoJunkSent'
  BY <1>0, <1>1 DEF NoJunkSent
<1>4. WrittenSoFar' /\ StringStaysInside' /\ CallInv' /\ BreakInv'
  BY <1>0, <1>2 DEF TypeOK, WrittenSoFar, StringStaysInside, CallInv, BreakInv
<1>. QED
  BY <1>2, <1>3, <1>4

\* A read puts bytes in front of what realloc left.
LEMMA ReadFileIInv ==
  ASSUME IInv, NEW s \in Texts \cup {<<>>}, ReadFile(s)
  PROVE  /\ IInv'
         /\ len' = Len(s) /\ \A i \in 1..Len(s) : mem'[i] = s[i]
<1>. DEFINE n == IF cap >= ReserveSize THEN cap ELSE ReserveSize
<1>. USE DEF IInv, HoldsWhatWasWritten
<1>0. s \in Seq(Byte) /\ Len(s) \in Nat
  <2>1. <<>> \in Seq(Byte) /\ Len(<<>>) = 0
    OBVIOUS
  <2>. QED
    BY <2>1, TextsAreSeqs
<1>1. /\ op = "idle" /\ len = 0 /\ Len(s) \in 0..n /\ cap' = n
      /\ mem' = [i \in 1..n |-> IF i <= Len(s) THEN s[i] ELSE Realloc(n)[i]]
      /\ len' = Len(s) /\ result' = "none"
      /\ op' = op /\ text' = text /\ breaks' = breaks /\ orig' = orig /\ inner' = inner
  BY DEF ReadFile, Ready, call
<1>2. n \in Nat /\ cap <= n
  BY BufferAssumption DEF TypeOK
<1>. HIDE DEF n
<1>3. \A i \in 1..n : Realloc(n)[i] \in Cell
  BY <1>2 DEF Realloc, TypeOK, Cell
<1>4. mem' \in [1..n -> Cell] /\ \A i \in 1..Len(s) : mem'[i] = s[i] /\ s[i] \in Byte
  BY <1>0, <1>1, <1>2, <1>3 DEF Cell
<1>5. TypeOK'
  BY <1>0, <1>1, <1>2, <1>4 DEF TypeOK, Cell
<1>6. NoJunkSent'
  BY <1>1, <1>4, BufferAssumption DEF NoJunkSent
<1>7. WrittenSoFar' /\ StringStaysInside' /\ CallInv' /\ BreakInv'
  BY <1>0, <1>1 DEF WrittenSoFar, StringStaysInside, CallInv, BreakInv
<1>. QED
  BY <1>1, <1>4, <1>5, <1>6, <1>7

\* A failed read leaves the memory as reserve made it and a length that means nothing.
LEMMA ReadFailsIInv ==
  ASSUME IInv, ReadFails
  PROVE  IInv'
<1>. DEFINE n == IF cap >= ReserveSize THEN cap ELSE ReserveSize
<1>. USE DEF IInv, HoldsWhatWasWritten
<1>1. /\ op = "idle" /\ cap' = n /\ mem' = Realloc(n) /\ len' = SizeMax /\ result' = "unread"
      /\ op' = op /\ text' = text /\ breaks' = breaks /\ orig' = orig /\ inner' = inner
  BY DEF ReadFails, Ready, call
<1>2. n \in Nat /\ cap <= n
  BY BufferAssumption DEF TypeOK
<1>. HIDE DEF n
<1>3. Realloc(n) \in [1..n -> Cell]
  BY <1>2 DEF Realloc, TypeOK, Cell
<1>4. TypeOK'
  BY <1>1, <1>2, <1>3 DEF TypeOK, Cell
<1>5. WrittenSoFar' /\ NoJunkSent' /\ StringStaysInside' /\ CallInv' /\ BreakInv'
  BY <1>1, BufferAssumption DEF WrittenSoFar, NoJunkSent, StringStaysInside, CallInv, BreakInv
<1>. QED
  BY <1>4, <1>5

\* A new buffer.
LEMMA DeinitIInv ==
  ASSUME IInv, Deinit
  PROVE  IInv'
<1>1. /\ op = "idle" /\ cap' = 0 /\ mem' = <<>> /\ len' = 0 /\ result' = "none"
      /\ op' = op /\ text' = text /\ breaks' = breaks /\ orig' = orig /\ inner' = inner
  BY DEF Deinit, call
<1>2. TypeOK'
  BY <1>1 DEF IInv, HoldsWhatWasWritten, TypeOK
<1>. QED
  BY <1>1, <1>2 DEF IInv, HoldsWhatWasWritten, WrittenSoFar, NoJunkSent, StringStaysInside,
                    CallInv, BreakInv

\* A call that fails before it began, and a step that changes nothing.
LEMMA RefusedIInv ==
  ASSUME IInv, result' \in {"refused", result}, Ready \/ result' = result,
         UNCHANGED <<cap, mem, len, call>>
  PROVE  IInv'
BY DEF IInv, HoldsWhatWasWritten, TypeOK, NoJunkSent, WrittenSoFar, StringStaysInside,
       CallInv, BreakInv, At, call, Ready

\* Every step preserves the inductive invariant.
LEMMA StepIInv == IInv /\ [Next]_vars => IInv'
<1>. SUFFICES ASSUME IInv, [Next]_vars PROVE IInv'
  OBVIOUS
<1>1. ASSUME NEW s \in Texts, PushStr(s) PROVE IInv'
  BY <1>1, BeginIInv DEF PushStr
<1>2. ASSUME NEW s \in Texts, NEW b \in SUBSET (0..(Len(s) - 1)), 0 \in b, Writef(s, b)
      PROVE  IInv'
  <2>1. b \in SUBSET Nat
    BY <1>2, TextsAreSeqs
  <2>. QED
    BY <1>2, <2>1, BeginIInv DEF Writef
<1>3. CASE PushChar
  BY <1>3, PushCharIInv
<1>4. CASE PushStrFails \/ Unwind
  <2>1. orig \in 0..len
    BY <1>4 DEF IInv, HoldsWhatWasWritten, WrittenSoFar, TypeOK, CallInv, PushStrFails, Unwind
  <2>. QED
    BY <1>4, <2>1, EndIInv DEF PushStrFails, Unwind, Pushing
<1>5. CASE WritefFails
  BY <1>5, WritefFailsIInv
<1>6. CASE Return
  <2>1. len \in 0..len
    BY DEF IInv, CallInv
  <2>. QED
    BY <1>6, <2>1, EndIInv DEF Return
<1>7. CASE NullTerminate
  BY <1>7, NullTerminateIInv
<1>8. CASE NullTerminateFails \/ ReserveFails
  BY <1>8, RefusedIInv DEF NullTerminateFails, ReserveFails
<1>9. ASSUME NEW n \in 1..MaxLen, Shift(n) PROVE IInv'
  BY <1>9, ShiftIInv, BufferAssumption
<1>10. ASSUME NEW s \in Texts \cup {<<>>}, ReadFile(s) PROVE IInv'
  BY <1>10, ReadFileIInv
<1>11. CASE UNCHANGED vars
  BY <1>11, RefusedIInv DEF vars, call
<1>12. CASE ReadFails \/ Deinit
  BY <1>12, ReadFailsIInv, DeinitIInv
<1>. QED
  BY <1>1, <1>2, <1>3, <1>4, <1>5, <1>6, <1>7, <1>8, <1>9, <1>10, <1>11, <1>12 DEF Next

-------------------------------------------------------------------------------
(* The invariants *)

\* The inductive invariant holds in every state.
THEOREM Invariant == Spec => []IInv
BY InitIInv, StepIInv, PTL DEF Spec

\* HoldsWhatWasWritten of sb_Buffer, for texts, capacities and reserves of any size: len
\* leaves the memory only with the -1 of a failed read, until then nothing unwritten is
\* below it, and a call in progress has stored a prefix of its text, whole strings of it
\* when it fails.
THEOREM BytesWritten == Spec => []HoldsWhatWasWritten
<1>1. IInv => HoldsWhatWasWritten
  BY DEF IInv
<1>. QED
  BY <1>1, Invariant, PTL

\* StringStaysInside: what sb_buffer_null_terminate ends, ends inside the memory.
THEOREM Terminated == Spec => []StringStaysInside
<1>1. IInv => StringStaysInside
  BY DEF IInv
<1>. QED
  BY <1>1, Invariant, PTL

-------------------------------------------------------------------------------
(* The refinement: what users see of the buffer is a ByteQueue *)

\* The answer as the users of the abstract queue see it.
Answered == IF result \in {"terminated", "unread"} THEN "none" ELSE result

SettledLen == IF result = "unread" THEN 0 ELSE IF op = "idle" THEN len ELSE orig

\* The settled bytes are a sequence of bytes.
SettledIsSeq ==
  /\ SettledLen \in 0..len
  /\ Settled \in Seq(Byte) /\ Len(Settled) = SettledLen
  /\ \A i \in 1..SettledLen : Settled[i] = mem[i]

LEMMA SettledSeq == IInv => SettledIsSeq
<1>. SUFFICES ASSUME IInv PROVE SettledIsSeq
  OBVIOUS
<1>1. SettledLen \in 0..len /\ (result = "unread" => SettledLen = 0)
  BY Numbers DEF IInv, HoldsWhatWasWritten, WrittenSoFar, SettledLen
<1>2. Settled = [i \in 1..SettledLen |-> mem[i]]
  BY DEF Settled, SettledLen
<1>3. \A i \in 1..SettledLen : mem[i] \in Byte
  BY <1>1, Numbers
<1>4. SettledLen \in Nat
  BY <1>1, Numbers
<1>. HIDE DEF SettledLen
<1>. QED
  BY <1>1, <1>2, <1>3, <1>4 DEF SettledIsSeq

\* The same of the next state.
LEMMA SettledSeqNext == IInv' => SettledIsSeq'
BY SettledSeq, PTL

\* Two settled buffers of the same length and bytes are the same queue.
LEMMA SettledSame ==
  ASSUME IInv, IInv', SettledLen' = SettledLen, \A i \in 1..SettledLen : mem'[i] = mem[i]
  PROVE  Settled' = Settled
BY SettledSeqNext, SettledSeq, SeqEqual DEF SettledIsSeq

\* A call that is answered with its whole text stored has appended it.
LEMMA ReturnAppends ==
  ASSUME IInv, IInv', Return
  PROVE  Settled' = Settled \o text
<1>0. orig \in Nat /\ len \in Nat /\ text \in Seq(Byte) /\ Len(text) \in Nat
  BY Numbers
<1>1. /\ op # "idle" /\ op' = "idle" /\ len' = len /\ mem' = mem
      /\ result = "none" /\ result' = "done" /\ At = Len(text) /\ \A i \in 1..At : mem[orig + i] = text[i]
  <2>1. /\ op # "idle" /\ op' = "idle" /\ len' = len /\ mem' = mem /\ ~(At < Len(text))
        /\ result = "none" /\ result' = "done"
    BY DEF Return, Pushing, End, IInv, CallInv
  <2>2. At <= Len(text) /\ \A i \in 1..At : mem[orig + i] = text[i]
    BY <2>1 DEF IInv, HoldsWhatWasWritten, WrittenSoFar
  <2>3. At \in Int
    BY <1>0 DEF At
  <2>. QED
    BY <1>0, <2>1, <2>2, <2>3
<1>2. SettledLen = orig /\ SettledLen' = len /\ len = orig + Len(text)
  BY <1>0, <1>1 DEF SettledLen, At
<1>3. /\ Settled \in Seq(Byte) /\ Len(Settled) = orig
      /\ \A i \in 1..orig : Settled[i] = mem[i]
  BY <1>2, SettledSeq DEF SettledIsSeq
<1>4. /\ Settled' \in Seq(Byte) /\ Len(Settled') = len
      /\ \A i \in 1..len : Settled'[i] = mem[i]
  BY <1>1, <1>2, SettledSeqNext DEF SettledIsSeq
<1>. HIDE DEF At
<1>5. Settled \o text \in Seq(Byte) /\ Len(Settled \o text) = len
  BY <1>0, <1>2, <1>3, ConcatProperties
<1>6. \A i \in 1..len : (Settled \o text)[i] = IF i <= orig THEN Settled[i] ELSE text[i - orig]
  BY <1>0, <1>2, <1>3, ConcatProperties
<1>7. ASSUME NEW i \in 1..len PROVE Settled'[i] = (Settled \o text)[i]
  <2>1. Settled'[i] = mem[i]
    BY <1>4
  <2>2. CASE i <= orig
    <3>1. i \in 1..orig
      BY <2>2, <1>0
    <3>. QED
      BY <2>1, <2>2, <3>1, <1>3, <1>6
  <2>3. CASE ~(i <= orig)
    <3>1. i - orig \in 1..Len(text) /\ orig + (i - orig) = i
      BY <2>3, <1>0, <1>2
    <3>2. mem[orig + (i - orig)] = text[i - orig]
      BY <3>1, <1>1
    <3>3. (Settled \o text)[i] = text[i - orig]
      BY <2>3, <1>6
    <3>. QED
      BY <2>1, <3>1, <3>2, <3>3
  <2>. QED
    BY <2>2, <2>3
<1>. QED
  BY <1>4, <1>5, <1>7, SeqEqual

\* Shifting takes bytes from the front.
LEMMA ShiftTakes ==
  ASSUME IInv, IInv', NEW n \in Nat, Shift(n)
  PROVE  /\ n \in 0..Len(Settled)
         /\ Settled' = SubSeq(Settled, n + 1, Len(Settled))
<1>0. len \in Nat /\ cap \in Nat /\ len <= cap
  BY Numbers DEF Shift, SendAccepts
<1>1. /\ op = "idle" /\ op' = "idle" /\ result # "unread" /\ result' = "none" /\ n \in 1..len /\ len' = len - n /\ cap' = cap
      /\ \A i \in 1..(len - n) : mem'[i] = mem[i + n]
  BY <1>0 DEF Shift, SendAccepts, call, Moved
<1>2. SettledLen = len /\ SettledLen' = len - n
  BY <1>1 DEF SettledLen
<1>3. /\ Settled \in Seq(Byte) /\ Len(Settled) = len
      /\ \A i \in 1..len : Settled[i] = mem[i]
  BY <1>2, SettledSeq DEF SettledIsSeq
<1>4. /\ Settled' \in Seq(Byte) /\ Len(Settled') = len - n
      /\ \A i \in 1..(len - n) : Settled'[i] = mem'[i]
  BY <1>2, SettledSeqNext DEF SettledIsSeq
<1>. DEFINE r == SubSeq(Settled, n + 1, len)
<1>5. r \in Seq(Byte) /\ Len(r) = len - n /\ \A i \in 1..(len - n) : r[i] = Settled[n + i]
  <2>1. \A i \in (n + 1)..len : Settled[i] \in Byte
    BY <1>0, <1>3
  <2>2. /\ SubSeq(Settled, n + 1, len) \in Seq(Byte)
        /\ Len(SubSeq(Settled, n + 1, len)) = IF n + 1 <= len THEN len - (n + 1) + 1 ELSE 0
        /\ \A i \in 1..(len - (n + 1) + 1) : SubSeq(Settled, n + 1, len)[i] = Settled[(n + 1) + i - 1]
    <3>1. n + 1 \in Int /\ len \in Int
      BY <1>0
    <3>. QED
      BY <2>1, <3>1, SubSeqProperties
  <2>. QED
    BY <2>2, <1>0, <1>1
<1>. HIDE DEF r
<1>6. ASSUME NEW i \in 1..(len - n) PROVE Settled'[i] = r[i]
  <2>1. i \in Nat /\ n + i = i + n /\ n + i \in 1..len
    BY <1>0, <1>1
  <2>. QED
    BY <2>1, <1>1, <1>3, <1>4, <1>5
<1>7. Settled' = r
  BY <1>4, <1>5, <1>6, SeqEqual
<1>8. n \in 0..Len(Settled)
  BY <1>0, <1>1, <1>3
<1>. QED
  BY <1>3, <1>7, <1>8 DEF r

\* Nothing is taken from a queue that is taken whole.
LEMMA TakeNothing ==
  ASSUME NEW q \in Seq(Byte)
  PROVE  q = SubSeq(q, 0 + 1, Len(q)) /\ 0 \in 0..Len(q)
BY SubSeqFull

-------------------------------------------------------------------------------

\* The steps the abstract queue may take.
QNext ==
  \/ Queue!QCall \/ Queue!QDone \/ Queue!QRefused \/ Queue!QTake \/ Queue!QFill \/ Queue!QDrop

\* Every step of the buffer is a step of the queue, or the users see nothing of it.
LEMMA StepQueue == IInv /\ IInv' /\ [Next]_vars => [QNext]_(Queue!qvars)
<1>. SUFFICES ASSUME IInv, IInv', [Next]_vars
              PROVE  QNext \/ UNCHANGED <<Settled, text, Answered>>
  BY DEF Queue!qvars, Answered
<1>0. /\ len \in Nat /\ orig \in Nat /\ text \in Seq(Byte)
      /\ op = "idle" => text = <<>> /\ orig = 0
      /\ op # "idle" => text # <<>> /\ result = "none" /\ orig <= len
  BY Numbers DEF IInv, HoldsWhatWasWritten, CallInv, WrittenSoFar
<1>1. ASSUME NEW s \in Texts, NEW b, NEW name \in {"str", "writef"}, Begin(name, s, b)
      PROVE  Queue!QCall
  <2>1. Settled' = Settled
    BY <1>1, <1>0, SettledSame DEF Begin, Ready, SettledLen
  <2>2. text = <<>> /\ text' = s /\ s \in Seq(Byte) /\ result' = "none"
    BY <1>1, <1>0, TextsAreSeqs DEF Begin, Ready
  <2>. QED
    BY <2>1, <2>2 DEF Queue!QCall
<1>2. CASE PushChar
  <2>1. /\ op' = op /\ orig' = orig /\ text' = text /\ result' = result /\ op # "idle"
    BY <1>2 DEF PushChar, Pushing
  <2>2. \A i \in 1..len : mem'[i] = mem[i]
    <3>1. text[At + 1] \in Byte
      BY <1>2, <1>0 DEF PushChar, Pushing, At
    <3>. QED
      BY <1>2, <2>1, <1>0, <3>1, StoreKeeps DEF PushChar, IInv, HoldsWhatWasWritten
  <2>3. Settled' = Settled
    BY <2>1, <2>2, <1>0, SettledSame DEF SettledLen
  <2>. QED
    BY <2>1, <2>3 DEF Answered
<1>3. CASE WritefFails
  <2>1. op # "idle" /\ op' # "idle" /\ orig' = orig /\ text' = text /\ result' = result /\ mem' = mem
    BY <1>3 DEF WritefFails
  <2>2. Settled' = Settled
    BY <2>1, <1>0, SettledSame DEF SettledLen
  <2>. QED
    BY <2>1, <2>2 DEF Answered
<1>4. CASE PushStrFails \/ Unwind
  <2>1. op # "idle" /\ op' = "idle" /\ len' = orig /\ text' = <<>> /\ result' = "refused" /\ mem' = mem
    BY <1>4 DEF PushStrFails, Unwind, End
  <2>2. Settled' = Settled
    BY <2>1, <1>0, SettledSame DEF SettledLen
  <2>. QED
    BY <2>1, <2>2 DEF QNext, Queue!QRefused
<1>5. CASE Return
  <2>1. text # <<>> /\ text' = <<>> /\ result' = "done"
    BY <1>5, <1>0 DEF Return, End
  <2>. QED
    BY <2>1, <1>5, ReturnAppends DEF QNext, Queue!QDone
<1>6. CASE NullTerminate
  <2>1. /\ op = "idle" /\ op' = op /\ len' = len /\ text' = text /\ result' = "terminated"
        /\ orig' = orig /\ result # "unread"
    BY <1>6 DEF NullTerminate, Ready, call
  <2>2. \A i \in 1..len : mem'[i] = mem[i]
    BY <1>6, <2>1, StoreKeeps, BufferAssumption DEF NullTerminate, IInv, HoldsWhatWasWritten
  <2>3. Settled' = Settled
    BY <2>1, <2>2, <1>0, SettledSame DEF SettledLen
  <2>4. Settled = SubSeq(Settled, 0 + 1, Len(Settled)) /\ 0 \in 0..Len(Settled)
    BY SettledSeq, TakeNothing DEF SettledIsSeq
  <2>. QED
    BY <2>1, <2>3, <2>4, <1>0 DEF QNext, Queue!QTake
<1>7. CASE NullTerminateFails \/ ReserveFails
  <2>1. /\ op = "idle" /\ op' = op /\ len' = len /\ text' = text /\ result' = "refused"
        /\ orig' = orig /\ mem' = mem /\ result # "unread"
    BY <1>7 DEF NullTerminateFails, ReserveFails, Ready, call
  <2>2. Settled' = Settled
    BY <2>1, <1>0, SettledSame DEF SettledLen
  <2>. QED
    BY <2>1, <2>2, <1>0 DEF QNext, Queue!QRefused
<1>8. ASSUME NEW n \in 1..MaxLen, Shift(n) PROVE Queue!QTake
  <2>1. n \in 0..Len(Settled) /\ Settled' = SubSeq(Settled, n + 1, Len(Settled))
    BY <1>8, ShiftTakes, BufferAssumption
  <2>2. text = <<>> /\ text' = text /\ result' = "none"
    BY <1>8, <1>0 DEF Shift, call
  <2>. QED
    BY <2>1, <2>2 DEF Queue!QTake
<1>9. ASSUME NEW s \in Texts \cup {<<>>}, ReadFile(s) PROVE Queue!QFill
  <2>1. op = "idle" /\ result # "unread" /\ len = 0 /\ text' = text /\ result' = "none"
    BY <1>9 DEF ReadFile, Ready, call
  <2>2. Settled \in Seq(Byte) /\ Len(Settled) = 0 /\ Settled' \in Seq(Byte)
    BY <2>1, SettledSeq, SettledSeqNext DEF SettledIsSeq, SettledLen
  <2>3. Settled = <<>>
    BY <2>2, EmptySeq
  <2>. QED
    BY <2>1, <2>2, <2>3, <1>0 DEF Queue!QFill
<1>10. CASE UNCHANGED vars
  BY <1>10 DEF vars, Settled, Answered
<1>11. CASE ReadFails
  <2>1. /\ op = "idle" /\ result # "unread" /\ len = 0 /\ op' = op /\ text' = text
        /\ result' = "unread"
    BY <1>11 DEF ReadFails, Ready, call
  <2>2. Settled' = Settled
    BY <2>1, SettledSame DEF SettledLen
  <2>3. Settled = SubSeq(Settled, 0 + 1, Len(Settled)) /\ 0 \in 0..Len(Settled)
    BY SettledSeq, TakeNothing DEF SettledIsSeq
  <2>. QED
    BY <2>1, <2>2, <2>3, <1>0 DEF QNext, Queue!QTake
<1>12. CASE Deinit
  <2>1. op = "idle" /\ text' = text /\ result' = "none" /\ op' = op /\ len' = 0
    BY <1>12 DEF Deinit, call
  <2>2. Settled' \in Seq(Byte) /\ Len(Settled') = 0
    BY <2>1, SettledSeqNext DEF SettledIsSeq, SettledLen
  <2>3. Settled' = <<>>
    BY <2>2, EmptySeq
  <2>. QED
    BY <2>1, <2>3, <1>0 DEF QNext, Queue!QDrop
<1>. QED
  <2>1. ASSUME NEW s \in Texts, PushStr(s) PROVE Queue!QCall
    BY <2>1, <1>1 DEF PushStr
  <2>2. ASSUME NEW s \in Texts, NEW b, Writef(s, b) PROVE Queue!QCall
    BY <2>2, <1>1 DEF Writef
  <2>. QED
    BY <2>1, <2>2, <1>2, <1>3, <1>4, <1>5, <1>6, <1>7, <1>8, <1>9, <1>10, <1>11, <1>12
       DEF Next, QNext

\* ImplementsByteQueue: a text is in the buffer whole or not at all, in the order of the
\* calls, and bytes leave at the front, wherever in a call growing the memory fails.
THEOREM Refinement == Spec => ImplementsByteQueue
<1>1. Init => Queue!QInit
  <2>. SUFFICES ASSUME Init PROVE Queue!QInit
    OBVIOUS
  <2>1. Settled \in Seq(Byte) /\ Len(Settled) = 0
    BY InitIInv, SettledSeq DEF SettledIsSeq, SettledLen, Init
  <2>2. Settled = <<>>
    BY <2>1, EmptySeq
  <2>. QED
    BY <2>2 DEF Init, Queue!QInit
<1>2. IInv /\ IInv' /\ [Next]_vars
        => [Queue!QCall \/ Queue!QDone \/ Queue!QRefused \/ Queue!QTake \/ Queue!QFill
            \/ Queue!QDrop]_(Queue!qvars)
  BY StepQueue DEF QNext
<1>. QED
  BY <1>1, <1>2, Invariant, PTL DEF Spec, ImplementsByteQueue, Queue!QSpec
=================================================================================
