-------------------------------- MODULE Buffer --------------------------------
(***************************************************************************)
(* sandbird's growing buffer, sb_Buffer: what a stream receives and what   *)
(* it has to send.  Memory is what malloc gives: cap cells, of which the   *)
(* first len are in use.  push_str and vwritef store one char at a time,   *)
(* and any growth on the way may fail; each then puts len back to what it  *)
(* was when it was called.  The users (sb_stream_recv, sb_stream_send,     *)
(* sb_send_status, sb_send_header, sb_write, sb_writef) call in any order. *)
(*                                                                         *)
(* A format is the text it produces and the places in it where a pushed    *)
(* string begins: a literal character is a string of its own.              *)
(***************************************************************************)
EXTENDS Integers, Sequences

CONSTANTS
  Byte,         \* what a char can be, Nul among them
  Nul,          \* '\0'
  Junk,         \* what realloc leaves in a new cell
  ReserveSize,  \* the 8192 bytes sb_stream_send reserves
  SizeMax,      \* what a size_t holds after -1 was stored in it
  MaxText,      \* bound: bytes of one text
  MaxLen        \* bound: bytes in the buffer

ASSUME BufferAssumption ==
  /\ Nul \in Byte /\ Junk \notin Byte
  /\ ReserveSize \in Nat \ {0} /\ MaxText \in Nat \ {0} /\ MaxLen \in Nat \ {0}
  /\ SizeMax \in Nat /\ SizeMax > ReserveSize /\ SizeMax > 2 * MaxLen

VARIABLES
  cap,     \* buf->cap
  mem,     \* the cells buf->s points to, numbered from 1
  len,     \* buf->len
  op,      \* the call in progress: "idle", "str", "writef", or "fail" at its label
  text,    \* what the call is to append
  breaks,  \* where in text vwritef's pushed strings begin
  orig,    \* orig_len of the call
  inner,   \* orig_len of the push_str that vwritef is in
  result   \* what the last call returned: "none", "done", "refused" or "terminated", or
           \* "unread" while len is the -1 of a failed read

vars == <<cap, mem, len, op, text, breaks, orig, inner, result>>

call == <<op, text, breaks, orig, inner>>

\* The type invariant.  len leaves the memory in one way only, the failed read that
\* nobody looks at.
TypeOK ==
  /\ cap \in Nat /\ len \in IF result = "unread" THEN {SizeMax} ELSE 0..cap
  /\ mem \in [1..cap -> Byte \cup {Junk}]
  /\ op \in {"idle", "str", "writef", "fail"}
  /\ text \in Seq(Byte)
  /\ breaks \subseteq Nat
  /\ orig \in Nat /\ inner \in Nat
  /\ result \in {"none", "done", "refused", "terminated", "unread"}

\* sb_buffer_init
Init ==
  /\ cap = 0 /\ mem = <<>> /\ len = 0
  /\ op = "idle" /\ text = <<>> /\ breaks = {} /\ orig = 0 /\ inner = 0
  /\ result = "none"

-------------------------------------------------------------------------------
(* Memory *)

\* The cells of a buffer that was reallocated to n.
Realloc(n) == [i \in 1..n |-> IF i <= cap THEN mem[i] ELSE Junk]

\* (buf->cap << 1) | (!buf->cap)
Grown == IF cap = 0 THEN 1 ELSE 2 * cap

Full == len = cap

\* A function of the buffer can be called.  After a failed read sb_stream_send goes
\* straight to send, and again as long as that would block.
Ready == op = "idle" /\ result # "unread"

\* send takes bytes; the kernel refuses a length that no ssize_t holds.
SendAccepts == result # "unread"

\* sb_buffer_push_char when it succeeds: c is stored behind the last byte.
Store(c) ==
  LET n == IF Full THEN Grown ELSE cap IN
  /\ cap' = n
  /\ mem' = [i \in 1..n |-> IF i = len + 1 THEN c ELSE Realloc(n)[i]]

-------------------------------------------------------------------------------
(* sb_buffer_push_str and sb_buffer_vwritef *)

Begin(name, s, b) ==
  /\ Ready /\ op' = name
  /\ Len(s) \in 1..MaxText /\ len + Len(s) <= MaxLen
  /\ text' = s /\ breaks' = b
  /\ orig' = len /\ inner' = len
  /\ result' = "none"
  /\ UNCHANGED <<cap, mem, len>>

PushStr(s) == Begin("str", s, {})

\* 0 is where the first string begins.
Writef(s, b) == Begin("writef", s, b)

At == len - orig

Pushing == op \in {"str", "writef"} /\ At < Len(text)

\* The push_str that stores the next char was called with this many bytes there.
InnerNow == IF At \in breaks THEN len ELSE inner

PushChar ==
  /\ Pushing
  /\ Store(text[At + 1])
  /\ len' = len + 1
  /\ inner' = InnerNow
  /\ UNCHANGED <<op, text, breaks, orig, result>>

End(r) ==
  /\ op' = "idle" /\ text' = <<>> /\ breaks' = {} /\ orig' = 0 /\ inner' = 0
  /\ result' = r

\* realloc fails: push_str gives back what it had stored.
PushStrFails ==
  /\ op = "str" /\ Pushing /\ Full
  /\ len' = orig
  /\ End("refused")
  /\ UNCHANGED <<cap, mem>>

\* Mutant of WritefFails: the string that did not fit is left half stored.
WritefFailsKeeps ==
  /\ op = "writef" /\ Pushing /\ Full
  /\ op' = "fail"
  /\ UNCHANGED <<cap, mem, len, text, breaks, orig, inner, result>>

\* The same inside vwritef: its own strings remain for the label fail.
WritefFails ==
  /\ op = "writef" /\ Pushing /\ Full
  /\ op' = "fail"
  /\ len' = InnerNow /\ inner' = InnerNow
  /\ UNCHANGED <<cap, mem, text, breaks, orig, result>>

\* Mutant of Unwind: vwritef returns the error and leaves the strings before.
UnwindNothing ==
  /\ op = "fail"
  /\ End("refused")
  /\ UNCHANGED <<cap, mem, len>>

\* fail: buf->len = orig_len
Unwind ==
  /\ op = "fail"
  /\ len' = orig
  /\ End("refused")
  /\ UNCHANGED <<cap, mem>>

Return ==
  /\ op \in {"str", "writef"} /\ ~Pushing
  /\ End("done")
  /\ UNCHANGED <<cap, mem, len>>

-------------------------------------------------------------------------------
(* The rest of the buffer *)

\* Mutant of NullTerminate: a full buffer is not grown for the NUL.
NullTerminateInPlace ==
  /\ Ready
  /\ mem' = [mem EXCEPT ![len + 1] = Nul]
  /\ result' = "terminated"
  /\ UNCHANGED <<cap, len, call>>

\* sb_buffer_null_terminate: a char is pushed and not counted.
NullTerminate ==
  /\ Ready
  /\ Store(Nul)
  /\ result' = "terminated"
  /\ UNCHANGED <<len, call>>

NullTerminateFails ==
  /\ Ready /\ Full
  /\ result' = "refused"
  /\ UNCHANGED <<cap, mem, len, call>>

\* memmove to the front of what follows the first n bytes
Moved(n) == [i \in 1..cap |-> IF i <= len - n THEN mem[i + n] ELSE mem[i]]

\* sb_buffer_shift, after send took n bytes.
Shift(n) ==
  /\ op = "idle" /\ SendAccepts /\ n \in 1..len
  /\ len' = len - n
  /\ mem' = Moved(n)
  /\ result' = "none"
  /\ UNCHANGED <<cap, call>>

\* sb_stream_send with nothing left to send and a file: sb_buffer_reserve, and a
\* read of at most cap bytes into the buffer; none at the end of the file.
ReadFile(s) ==
  LET n == IF cap >= ReserveSize THEN cap ELSE ReserveSize IN
  /\ Ready /\ len = 0
  /\ Len(s) \in 0..n /\ Len(s) <= MaxText
  /\ cap' = n
  /\ mem' = [i \in 1..n |-> IF i <= Len(s) THEN s[i] ELSE Realloc(n)[i]]
  /\ len' = Len(s)
  /\ result' = "none"
  /\ UNCHANGED call

\* read fails: its -1 is the length that send is given.
ReadFails ==
  LET n == IF cap >= ReserveSize THEN cap ELSE ReserveSize IN
  /\ Ready /\ len = 0
  /\ cap' = n
  /\ mem' = Realloc(n)
  /\ len' = SizeMax
  /\ result' = "unread"
  /\ UNCHANGED call

\* sb_buffer_reserve fails: what was reserved before stays as it was.
ReserveFails ==
  /\ Ready /\ len = 0 /\ cap < ReserveSize
  /\ result' = "refused"
  /\ UNCHANGED <<cap, mem, len, call>>

\* The stream is closed, by its end, its client, a timeout or a send that was refused:
\* sb_buffer_deinit, and another stream's buffer begins with sb_buffer_init.
Deinit ==
  /\ op = "idle"
  /\ cap' = 0 /\ mem' = <<>> /\ len' = 0
  /\ result' = "none"
  /\ UNCHANGED call

-------------------------------------------------------------------------------

Texts == UNION {[1..n -> Byte] : n \in 1..MaxText}

Next ==
  \/ \E s \in Texts : PushStr(s)
  \/ \E s \in Texts : \E b \in SUBSET (0..(Len(s) - 1)) : 0 \in b /\ Writef(s, b)
  \/ PushChar
  \/ PushStrFails
  \/ WritefFails
  \/ Unwind
  \/ Return
  \/ NullTerminate
  \/ NullTerminateFails
  \/ \E n \in 1..MaxLen : Shift(n)
  \/ \E s \in Texts \cup {<<>>} : ReadFile(s)
  \/ ReadFails
  \/ ReserveFails
  \/ Deinit

Spec == Init /\ [][Next]_vars

-------------------------------------------------------------------------------
(* What it promises *)

\* The bytes of finished calls; after a failed read there are none.
Settled == [i \in 1..(IF result = "unread" THEN 0 ELSE IF op = "idle" THEN len ELSE orig) |->
              mem[i]]

\* After null_terminate a C string that starts at the front of the buffer ends inside
\* its memory, at the end of the request or at a NUL the client sent: the sscanf,
\* find_header_value and url_decode of sb_stream_recv read no further.
StringStaysInside ==
  result = "terminated" => \E i \in 1..(len + 1) : i <= cap /\ mem[i] = Nul

\* Only bytes that somebody put there are ever sent: no cell below len is one that
\* realloc left unwritten, in the middle of a write, after a failed one, and after
\* memmove as well.  What is handed to send after a failed read is another matter.
NoJunkSent == result # "unread" => \A i \in 1..len : mem[i] # Junk

\* While a format is being written its strings stand behind one another as in the
\* text, and a string that fails only takes back itself: the label fail finds whole
\* strings.
WrittenSoFar ==
  /\ op # "idle" => /\ orig <= inner /\ inner <= len /\ At <= Len(text)
                    /\ \A i \in 1..At : mem[orig + i] = text[i]
  /\ op = "fail" => At \in breaks

\* The buffer holds what was written and nothing else, at every byte of a call: its cells
\* are those of its capacity, len counts some of them and none of those is unwritten, the
\* text stands as far as it was written.  The one exception is the file that cannot be
\* read: then len is SIZE_MAX, of an empty buffer, until the stream is closed.
HoldsWhatWasWritten == TypeOK /\ NoJunkSent /\ WrittenSoFar

Queue == INSTANCE ByteQueue WITH
  queue <- Settled, asked <- text, answer <- IF result \in {"terminated", "unread"} THEN "none" ELSE result

\* A text is in the buffer whole or not at all, texts stay in the order of their
\* calls, and what is sent is taken from the front without loss, wherever growing the
\* memory fails: sb_Buffer implements ByteQueue.
ImplementsByteQueue == Queue!QSpec

\* "Read chunk, write to stream and continue sending" (sb_stream_send): what send is
\* given after a read lies inside the buffer.  Not after a read that failed.
SendsTheChunk == len <= cap
===============================================================================
