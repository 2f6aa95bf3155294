------------------------------ MODULE StreamList ------------------------------
(***************************************************************************)
(* What the stream list of the HTTP server promises, free of pointers: a   *)
(* sequence of connections, joined at its tail by sb_stream_link and left  *)
(* from any place by sb_stream_unlink, each connection in it at most once. *)
(***************************************************************************)
EXTENDS Integers, Sequences, SequencesExt

CONSTANT Addr

VARIABLE list

LInit == list = <<>>

Link(a) ==
  /\ ~Contains(list, a)
  /\ list' = Append(list, a)

Unlink(a) ==
  \E i \in 1..Len(list) : list[i] = a /\ list' = RemoveAt(list, i)

LNext == \E a \in Addr : Link(a) \/ Unlink(a)

LSpec == LInit /\ [][LNext]_list
===============================================================================
