------------------------------ MODULE MC_PieceUrls ------------------------------
(***************************************************************************)
(* PieceUrls for TLC: URLs with a letter, a space, an encoded space, a     *)
(* quotation mark and a query.                                             *)
(***************************************************************************)
EXTENDS PieceUrls

Url(path) == [kind |-> "url", http |-> TRUE, path |-> path]

TheElements ==
  {Url(<<Char("a")>>), Url(<<Char("sp"), Char("a")>>), Url(<<Escape("sp")>>),
   Url(<<Char("quote")>>), Url(<<Char("a"), Char("?"), Char("a")>>),
   [kind |-> "url", http |-> FALSE, path |-> <<Char("a")>>],
   [kind |-> "other", http |-> FALSE, path |-> <<>>]}
=================================================================================
