------------------------------- MODULE ByteQueue -------------------------------
(***************************************************************************)
(* What an sb_Buffer promises its users: a queue of bytes that texts are   *)
(* appended to whole or not at all, and that is taken from at the front.   *)
(***************************************************************************)
EXTENDS Integers, Sequences

CONSTANTS Byte  \* what a char can be

VARIABLES
  queue,  \* the bytes that wait
  asked,  \* the text a call is about, <<>> between calls
  answer  \* what the last call returned: "none", "done" or "refused"

qvars == <<queue, asked, answer>>

\* A queue before its first use.
QInit == queue = <<>> /\ asked = <<>> /\ answer = "none"

\* A call of push_str or writef begins; the user cannot see anything of it yet.
QCall ==
  /\ asked = <<>> /\ asked' \in Seq(Byte)
  /\ answer' = "none"
  /\ UNCHANGED queue

\* It succeeds and has appended all of its text...
QDone ==
  /\ asked # <<>>
  /\ answer' = "done"
  /\ queue' = queue \o asked
  /\ asked' = <<>>

\* ... or memory ran out and it has appended nothing.
QRefused ==
  /\ answer' = "refused"
  /\ asked' = <<>>
  /\ UNCHANGED queue

\* What was sent is taken from the front.
QTake ==
  /\ asked = <<>>
  /\ \E n \in 0..Len(queue) : queue' = SubSeq(queue, n + 1, Len(queue))
  /\ answer' = "none"
  /\ UNCHANGED asked

\* An empty queue is filled from a file, with nothing at its end.
QFill ==
  /\ queue = <<>> /\ asked = <<>>
  /\ queue' \in Seq(Byte)
  /\ answer' = "none"
  /\ UNCHANGED asked

\* The queue goes with its stream, whatever waited in it; the next one is empty.
QDrop ==
  /\ asked = <<>>
  /\ queue' = <<>>
  /\ answer' = "none"
  /\ UNCHANGED asked

QSpec == QInit /\ [][QCall \/ QDone \/ QRefused \/ QTake \/ QFill \/ QDrop]_qvars
===============================================================================
