-------------------------------- MODULE Package --------------------------------
(***************************************************************************)
(* One install from the request to its end: the piece URLs (PieceUrls),    *)
(* the package they lead to (PackagePieces) and its param.sfo (SfoTable),  *)
(* in the order of install_pieces.  It is one thread's: what threads share *)
(* is in PieceUrls and in Install.                                         *)
(***************************************************************************)
EXTENDS PieceUrls, PackagePieces, SfoTable

CONSTANT ContentTypes  \* whether a package's content type can be supported, BOOLEAN

\* The bound on the pieces of a package admits every list of pieces.
ASSUME PackageAssumption ==
  /\ ContentTypes \subseteq BOOLEAN
  /\ MaxPieces <= MaxCount

OneThread == \E t \in Threads : Threads = {t}

vars == <<uvars, pvars, svars>>

Init == UrlsInit /\ PiecesInit /\ SfoInit

\* The URLs are being read.
ReadUrls(t) == UrlsStep(t) /\ UNCHANGED <<pvars, svars>>

\* install_pieces calls pkg_setup_prerequisites.
StartSetup(t) ==
  /\ job[t].pc = "handed"
  /\ SetupBegin(Len(job[t].urls))
  /\ UNCHANGED <<uvars, svars>>

Setup == PiecesStep /\ UNCHANGED <<uvars, svars>>

\* The package is there and its content type is one of the four: sfo_alloc is next.
StartSfo ==
  /\ ppc = "done" /\ TRUE \in ContentTypes
  /\ SfoBegin
  /\ UNCHANGED <<uvars, pvars>>

Sfo == SfoStep /\ UNCHANGED <<uvars, pvars>>

\* The language is unknown, the set-up failed, the content type is none of the four, or
\* the param.sfo was freed, whatever it said: free_piece_urls and the answer.
Over(t) ==
  \/ ppc = "idle" /\ spc = "idle"
  \/ ppc = "failed"
  \/ ppc = "done" /\ spc = "idle" /\ FALSE \in ContentTypes
  \/ spc = "done"

\* The files that stay: after a registration, whatever it returned, all but the param.sfo.
\* The label err removes all three, if they have got their names.
Kept ==
  IF told THEN files \ {"sfo"} ELSE IF ppc = "idle" THEN files ELSE {}

Return(t) ==
  /\ Over(t)
  /\ Release(t) /\ SetupEnd(Kept) /\ SfoEnd

Next ==
  \/ \E t \in Threads : ReadUrls(t) \/ StartSetup(t) \/ Return(t)
  \/ Setup \/ StartSfo \/ Sfo

\* The downloads of an install end (HttpRequest), and its thread is scheduled.
Fairness ==
  /\ \A t \in Threads : /\ WF_vars(job[t].pc # "idle" /\ ReadUrls(t))
                        /\ WF_vars(StartSetup(t) \/ Return(t))
  /\ WF_vars(Setup) /\ WF_vars(StartSfo) /\ WF_vars(Sfo)

Spec == Init /\ [][Next]_vars /\ Fairness

-------------------------------------------------------------------------------
(* What an install promises *)

\* Memory is safe from the request to the end of an install: no text is read after it was
\* freed, no URL stored behind its array, no entry of the param.sfo followed or freed
\* after its time.  Every variable keeps its type.
InstallMemorySafe ==
  /\ UrlsTypeOK /\ PiecesTypeOK /\ SfoTypeOK
  /\ UrlMemorySafe /\ ListLive

\* Whichever part fails, an install loses two things and no others: the pool of its
\* reference JSON, and the entries before one that could not be read in its param.sfo.
\* All else is given back: the URLs and their text, the four buffers and three files of
\* the set-up, the rest of the param.sfo; only an install that came to its registration
\* leaves files.
OnlyKnownLosses == UrlsLost /\ SetupLeavesClean /\ EntriesLost

\* A package that is handed to the download service is described in full: the reference
\* JSON lists as many pieces as were sent, whose URLs are all allocated to the end, the
\* JSON file is there for the service to fetch, and title and content id are those of
\* its param.sfo.  Which URLs they are is UrlsKept, which sizes PiecesTile.
DescribedWhole ==
  /\ DescribedByFile
  /\ \A t \in Threads : told => /\ Len(pieces) = Len(job[t].text)
                               /\ job[t].cells = 1..Len(pieces)
                               /\ "json" \in files

\* Every install comes to an end, whatever its lists hold and wherever it fails.
InstallEnds == \A t \in Threads : job[t].pc # "idle" ~> job[t].pc = "idle"
=================================================================================
