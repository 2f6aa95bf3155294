------------------------------- MODULE MC_Package -------------------------------
(***************************************************************************)
(* Package for TLC: URLs with a letter, a query, an encoded space and a    *)
(* quotation mark, and the keys of a param.sfo that are looked up.         *)
(***************************************************************************)
EXTENDS Package

TheElements ==
  {[kind |-> "url", http |-> TRUE, path |-> <<Char("?"), Escape("sp"), Char("quote")>>],
   [kind |-> "url", http |-> FALSE, path |-> <<Char("a")>>],
   [kind |-> "other", http |-> FALSE, path |-> <<>>]}

SfoEntry(key, good) == [key |-> key, fits |-> TRUE, good |-> good]

TheSfoEntries ==
  {SfoEntry("TITLE_NN", TRUE), SfoEntry("TITLE", TRUE), SfoEntry("TITLE", FALSE),
   SfoEntry("CONTENT_ID", TRUE),
   [key |-> "TITLE", fits |-> FALSE, good |-> TRUE]}
=================================================================================
