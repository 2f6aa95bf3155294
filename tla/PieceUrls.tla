------------------------------- MODULE PieceUrls -------------------------------
(***************************************************************************)
(* Where an install gets its piece URLs from: handle_api_install_direct    *)
(* reads them in the request, handle_api_install_ref_pkg_url has them      *)
(* fetched by pkg_extract_piece_urls_from_ref_pkg_json.  Each list is gone *)
(* through twice, once to check and count and once to re-encode, with      *)
(* memory that may run out anywhere.  The nodes of a reference JSON are in *)
(* a pool behind a static pointer: every thread reads that pointer when it *)
(* parses, and no pool is ever freed.                                      *)
(*                                                                         *)
(* A character of a URL is as it stands or percent-encoded.  A tree is a   *)
(* list and the install whose text its nodes point into; two parsers that  *)
(* overlap in one pool are taken to run one after the other.               *)
(***************************************************************************)
EXTENDS Integers, Sequences, SequencesExt, FiniteSets

CONSTANTS
  Threads,     \* connection threads
  Safe,        \* characters url_encode leaves alone
  Reserved,    \* characters that structure a URL: a delimiter of the path or the query
  Elements,    \* what an element of a list of pieces can be
  MaxPieces,   \* bound: elements of a list
  MaxInstalls  \* bound: install requests

ASSUME PieceUrlsAssumption == MaxPieces \in Nat \ {0} /\ MaxInstalls \in Nat

VARIABLES
  job,       \* the install of a thread
  pool,      \* static json_t* pool, the number of a pool or 0
  trees,     \* the pools allocated so far: [no, list]
  installs,  \* how many installs were asked for
  fault      \* history: what memory was misused: "freed", "overrun"

uvars == <<job, pool, trees, installs, fault>>

\* no is the number of the install, text the list that was sent for it, live and
\* cells what it has allocated: cells are the stored URLs.  After its end they are what
\* the last install of the thread has lost.
NoJob == [pc |-> "idle", no |-> 0, kind |-> "none", text |-> <<>>, i |-> 1, count |-> 0,
          urls |-> <<>>, live |-> {}, cells |-> {}, root |-> 0]

\* An element that is a URL: [kind |-> "url", http, path], http when it starts with
\* http:// or https://.  The others are no text ("other"), lack the url, or are empty.
IsUrl(e) == e.kind = "url"

Char(c)   == [c |-> c, esc |-> FALSE]
Escape(c) == [c |-> c, esc |-> TRUE]

\* The type invariant.
UrlsTypeOK ==
  /\ DOMAIN job = Threads
  /\ \A t \in Threads :
       /\ job[t].pc \in {"idle", "fetch", "alloc", "parse", "check", "array", "encode",
                         "handed", "err"}
       /\ job[t].kind \in {"none", "direct", "ref"}
       /\ job[t].i \in 1..(MaxPieces + 1) /\ job[t].count \in 0..MaxPieces
       /\ Len(job[t].text) <= MaxPieces
       /\ job[t].live \subseteq {"ref", "data", "pool", "unescaped", "array"}
       /\ job[t].cells \subseteq 1..MaxPieces
       /\ job[t].cells # {} => "array" \in job[t].live
       /\ job[t].root \in 0..Len(trees)
  /\ pool \in 0..Len(trees)
  /\ \A k \in 1..Len(trees) : trees[k].no \in 0..MaxInstalls
  /\ installs \in 0..MaxInstalls
  /\ fault \subseteq {"freed", "overrun"}

UrlsInit ==
  /\ job = [t \in Threads |-> NoJob]
  /\ pool = 0 /\ trees = <<>>
  /\ installs = 0
  /\ fault = {}

Goto(t, pc) == job' = [job EXCEPT ![t].pc = pc]

-------------------------------------------------------------------------------
(* Text *)

\* http_unescape_uri
http_unescape_uri(path) == [k \in DOMAIN path |-> Char(path[k].c)]

\* Mutant of url_encode: an encoded character is taken for a safe one.
url_encode_raw(path) == path

\* url_encode: what is not safe is percent-encoded, ? & = and # as well.
url_encode(path) ==
  [k \in DOMAIN path |-> IF path[k].c \in Safe THEN Char(path[k].c) ELSE Escape(path[k].c)]

-------------------------------------------------------------------------------
(* The request, and the reference JSON *)

\* "direct": the list is in the request, whose pool is on the thread's own stack.
Direct(t, text) ==
  /\ job[t].pc = "idle" /\ installs < MaxInstalls
  /\ job' = [job EXCEPT ![t].pc = "check", ![t].no = installs + 1,
                      ![t].kind = "direct", ![t].text = text, ![t].live = {}]
  /\ installs' = installs + 1
  /\ UNCHANGED <<pool, trees, fault>>

\* "ref_pkg_url": the URL is unescaped; a bad one is answered at once.
RefPkgUrl(t) ==
  /\ job[t].pc = "idle" /\ installs < MaxInstalls
  /\ job' = [job EXCEPT ![t].pc = "fetch", ![t].no = installs + 1,
                      ![t].kind = "ref", ![t].live = {"ref"}]
  /\ installs' = installs + 1
  /\ UNCHANGED <<pool, trees, fault>>

\* http_download_file hands over the text...
Download(t, text) ==
  /\ job[t].pc = "fetch"
  /\ job' = [job EXCEPT ![t].pc = "alloc", ![t].text = text, ![t].live = @ \cup {"data"}]
  /\ UNCHANGED <<pool, trees, installs, fault>>

\* ... or fails, or the text is empty.
DownloadFails(t) ==
  /\ job[t].pc = "fetch"
  /\ Goto(t, "err")
  /\ UNCHANGED <<pool, trees, installs, fault>>

\* pool = malloc: the static pointer is replaced, and no call of free is ever given it.
NewPool(t) ==
  /\ job[t].pc = "alloc"
  /\ trees' = Append(trees, [no |-> 0, list |-> <<>>])
  /\ pool' = Len(trees) + 1
  /\ job' = [job EXCEPT ![t].pc = "parse", ![t].live = @ \cup {"pool"}]
  /\ UNCHANGED <<installs, fault>>

NewPoolFails(t) ==
  /\ job[t].pc = "alloc"
  /\ pool' = 0
  /\ Goto(t, "err")
  /\ UNCHANGED <<trees, installs, fault>>

\* memset and json_create on the pool the static pointer is at by now; without one
\* memset writes through NULL.
ParseJson(t) ==
  /\ job[t].pc = "parse"
  /\ IF pool = 0 THEN /\ fault' = fault \cup {"freed"}
                      /\ Goto(t, "err") /\ UNCHANGED trees
                 ELSE /\ trees' = [trees EXCEPT ![pool] = [no |-> job[t].no, list |-> job[t].text]]
                      /\ job' = [job EXCEPT ![t].pc = "check", ![t].root = pool]
                      /\ UNCHANGED fault
  /\ UNCHANGED <<pool, installs>>

\* The text is no JSON, has no "pieces", or one that is no array.
ParseFails(t) ==
  /\ job[t].pc = "parse" /\ pool # 0
  /\ Goto(t, "err")
  /\ UNCHANGED <<pool, trees, installs, fault>>

-------------------------------------------------------------------------------
(* Checking and encoding *)

\* The elements from json_getChild on.
List(t) == IF job[t].kind = "direct" THEN job[t].text ELSE trees[job[t].root].list

\* Their strings are in a text that is still there.
TextLive(t) ==
  job[t].kind = "direct" \/ \E u \in Threads : /\ job[u].no = trees[job[t].root].no
                                               /\ "data" \in job[u].live

Reading(t) == fault' = IF TextLive(t) THEN fault ELSE fault \cup {"freed"}

\* The next element is a URL that unescapes and starts with http.
Check(t) ==
  /\ job[t].pc = "check" /\ job[t].i <= Len(List(t))
  /\ LET e == List(t)[job[t].i] IN IsUrl(e) /\ e.http
  /\ job' = [job EXCEPT ![t].i = @ + 1, ![t].count = @ + 1]
  /\ Reading(t)
  /\ UNCHANGED <<pool, trees, installs>>

\* It is none, or unescaping fails.  A URL that does not start with http is freed by
\* the direct handler at once and by the other one at its label.
CheckFails(t) ==
  /\ job[t].pc = "check" /\ job[t].i <= Len(List(t))
  /\ LET e == List(t)[job[t].i] IN
       job' = [job EXCEPT ![t].pc = "err",
                 ![t].live = IF job[t].kind = "ref" /\ IsUrl(e) /\ ~e.http
                               THEN @ \cup {"unescaped"} ELSE @]
  /\ Reading(t)
  /\ UNCHANGED <<pool, trees, installs>>

\* The end of the list: the array is allocated, or there are no pieces.
CheckDone(t) ==
  /\ job[t].pc = "check" /\ job[t].i > Len(List(t))
  /\ Goto(t, IF job[t].count = 0 THEN "err" ELSE "array")
  /\ UNCHANGED <<pool, trees, installs, fault>>

NewArray(t) ==
  /\ job[t].pc = "array"
  /\ job' = [job EXCEPT ![t].pc = "encode", ![t].i = 1, ![t].live = @ \cup {"array"}]
  /\ UNCHANGED <<pool, trees, installs, fault>>

NewArrayFails(t) ==
  /\ job[t].pc = "array"
  /\ Goto(t, "err")
  /\ UNCHANGED <<pool, trees, installs, fault>>

\* piece_urls[i] = url_encode(unescaped_url); a cell behind the array is an overrun.
Encode(t) ==
  /\ job[t].pc = "encode" /\ job[t].i <= Len(List(t))
  /\ job' = [job EXCEPT ![t].i = @ + 1, ![t].cells = @ \cup {job[t].i},
               ![t].urls = Append(@, url_encode(http_unescape_uri(List(t)[job[t].i].path)))]
  /\ fault' = fault \cup (IF TextLive(t) THEN {} ELSE {"freed"})
                    \cup (IF job[t].i <= job[t].count THEN {} ELSE {"overrun"})
  /\ UNCHANGED <<pool, trees, installs>>

\* Memory runs out, before or after the URL is unescaped.
EncodeFails(t) ==
  /\ job[t].pc = "encode" /\ job[t].i <= Len(List(t))
  /\ Goto(t, "err")
  /\ Reading(t)
  /\ UNCHANGED <<pool, trees, installs>>

\* All URLs are there: the text is freed and install_pieces is called.
EncodeDone(t) ==
  /\ job[t].pc = "encode" /\ job[t].i > Len(List(t))
  /\ job' = [job EXCEPT ![t].pc = "handed", ![t].live = @ \ {"data"}]
  /\ UNCHANGED <<pool, trees, installs, fault>>

\* Mutant of Failed: the URLs are freed, their array is not.
FailedKeepsArray(t) ==
  /\ job[t].pc = "err"
  /\ job' = [job EXCEPT ![t] = [NoJob EXCEPT !.live = job[t].live \cap {"array"}]]
  /\ UNCHANGED <<pool, trees, installs, fault>>

\* What is left of a thread's memory after freed, and the first count URLs, are freed.
Freed(t, freed) ==
  [NoJob EXCEPT !.live = job[t].live \ freed,
                !.cells = {k \in job[t].cells : k > job[t].count}]

\* The labels err of both functions; the client is told.
Failed(t) ==
  /\ job[t].pc = "err"
  /\ job' = [job EXCEPT ![t] = Freed(t, {"array", "unescaped", "data", "ref"})]
  /\ UNCHANGED <<pool, trees, installs, fault>>

\* install_pieces returned: free_piece_urls, and the URL of the reference JSON.
Release(t) ==
  /\ job[t].pc = "handed"
  /\ job' = [job EXCEPT ![t] = Freed(t, {"array", "ref"})]
  /\ UNCHANGED <<pool, trees, installs, fault>>

Texts == UNION {[1..n -> Elements] : n \in 0..MaxPieces}

UrlsStep(t) ==
  \/ \E text \in Texts : Direct(t, text)
  \/ RefPkgUrl(t)
  \/ \E text \in Texts : Download(t, text)
  \/ DownloadFails(t)
  \/ NewPool(t) \/ NewPoolFails(t)
  \/ ParseJson(t) \/ ParseFails(t)
  \/ Check(t) \/ CheckFails(t) \/ CheckDone(t)
  \/ NewArray(t) \/ NewArrayFails(t)
  \/ Encode(t) \/ EncodeFails(t) \/ EncodeDone(t)
  \/ Failed(t)

UrlsSpec == UrlsInit /\ [][\E t \in Threads : UrlsStep(t) \/ Release(t)]_uvars

-------------------------------------------------------------------------------
(* What the installs can rely on *)

\* Up to percent-encoding, the URLs an install works with are the ones that were sent for
\* it: all of them, in their order, the same when they are unescaped, and with nothing in
\* them that the reference JSON or a request line would have to escape.  Whether a host
\* takes them for the same is another matter (ReservedKept).
UrlsKept ==
  \A t \in Threads : job[t].pc = "handed" =>
    /\ Len(job[t].urls) = Len(job[t].text)
    /\ \A k \in 1..Len(job[t].urls) :
         /\ http_unescape_uri(job[t].urls[k]) = http_unescape_uri(job[t].text[k].path)
         /\ \A c \in Range(job[t].urls[k]) : c.c \in Safe \/ c.esc

\* No text is read after it was freed and no URL is stored behind the array that was
\* allocated for the ones that were counted.
UrlMemorySafe == fault = {}

\* util.h of url_encode: it percent-encodes what is not safe, "leaving the reserved
\* characters that structure a URL alone".  A delimiter that was sent as it stands is
\* handed on as it stands.  It is encoded instead.
ReservedKept ==
  \A t \in Threads : job[t].pc = "handed" =>
    \A k \in 1..Len(job[t].urls) : \A i \in DOMAIN job[t].urls[k] :
      LET c == job[t].text[k].path[i]
      IN c.c \in Reserved /\ ~c.esc => job[t].urls[k][i] = c

\* On whatever path an install ended, it has given back the text, the array, its URLs and
\* an unescaped one; the pool of its reference JSON it has lost.
UrlsLost ==
  \A t \in Threads : job[t].pc = "idle" => job[t].live \subseteq {"pool"} /\ job[t].cells = {}
===============================================================================
