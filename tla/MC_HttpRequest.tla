---------------------------- MODULE MC_HttpRequest ----------------------------
(***************************************************************************)
(* HttpRequest for TLC: lengths up to three bytes, read two at a time.     *)
(***************************************************************************)
EXTENDS HttpRequest
===============================================================================
