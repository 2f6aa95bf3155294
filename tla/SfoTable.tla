-------------------------------- MODULE SfoTable --------------------------------
(***************************************************************************)
(* The param.sfo of a package in install_pieces: sfo_alloc,                *)
(* sfo_load_from_file, the title and the content id, sfo_free.  The        *)
(* entries are on one of utlist's doubly linked lists, whose head's prev   *)
(* is the last element; every allocation may fail.                         *)
(*                                                                         *)
(* An entry of the file is its key, whether its size fits its area (fits)  *)
(* and whether it is a string of a size its reader takes (good).           *)
(***************************************************************************)
EXTENDS Integers, Sequences, SequencesExt, FiniteSets

CONSTANTS
  SfoEntries,   \* what an entry of the file can be
  MaxEntries    \* bound: entries of a file

ASSUME SfoTableAssumption ==
  /\ SfoEntries \subseteq [key : STRING, fits : BOOLEAN, good : BOOLEAN]
  /\ MaxEntries \in Nat

VARIABLES
  spc,     \* where install_pieces is, "idle" when it is not in this part
  file,    \* the entries of the file
  at,      \* i of sfo_load_from_memory, as an index into file
  blocks,  \* what is allocated: "sfo", "data", "fd", and an entry's parts
  parts,   \* what is allocated of the entries: <<entry, part>>
  nxt,     \* entry->next, 0 for NULL
  prv,     \* entry->prev
  head,    \* entries of sfo_load_from_memory, and later sfo->entries
  el,      \* entry of sfo_free's loop
  title,   \* the entry the title is taken from
  cid,     \* the entry the content id is taken from
  told     \* whether the package can be described to the download service

svars == <<spc, file, at, blocks, parts, nxt, prv, head, el, title, cid, told>>

Ids == 1..MaxEntries

Part == {"entry", "key", "value"}

\* The type invariant.
SfoTypeOK ==
  /\ spc \in {"idle", "alloc", "open", "entry", "title", "cid", "free", "done"}
  /\ file \in Seq(SfoEntries) /\ Len(file) <= MaxEntries
  /\ at \in 1..(MaxEntries + 1)
  /\ blocks \subseteq {"sfo", "data", "fd"}
  /\ parts \subseteq Ids \X Part
  /\ nxt \in [Ids -> 0..MaxEntries] /\ prv \in [Ids -> 0..MaxEntries]
  /\ {head, el, title, cid} \subseteq 0..MaxEntries
  /\ told \in BOOLEAN

SfoReset ==
  /\ file' = <<>> /\ at' = 1 /\ blocks' = {} /\ parts' = {}
  /\ nxt' = [i \in Ids |-> 0] /\ prv' = [i \in Ids |-> 0]
  /\ head' = 0 /\ el' = 0 /\ title' = 0 /\ cid' = 0 /\ told' = FALSE

SfoInit ==
  /\ spc = "idle"
  /\ file = <<>> /\ at = 1 /\ blocks = {} /\ parts = {}
  /\ nxt = [i \in Ids |-> 0] /\ prv = [i \in Ids |-> 0]
  /\ head = 0 /\ el = 0 /\ title = 0 /\ cid = 0 /\ told = FALSE

-------------------------------------------------------------------------------
(* sfo_alloc and sfo_load_from_file *)

SfoBegin ==
  /\ spc = "idle" /\ spc' = "alloc"
  /\ UNCHANGED <<file, at, blocks, parts, nxt, prv, head, el, title, cid, told>>

SfoAlloc ==
  /\ spc = "alloc" /\ spc' = "open"
  /\ blocks' = {"sfo"}
  /\ UNCHANGED <<file, at, parts, nxt, prv, head, el, title, cid, told>>

SfoAllocFails ==
  /\ spc = "alloc" /\ spc' = "done"
  /\ UNCHANGED <<file, at, blocks, parts, nxt, prv, head, el, title, cid, told>>

\* THROW_ERROR after sfo_alloc: sfo_free walks sfo->entries from list.
Throw(list) == spc' = "free" /\ head' = list /\ el' = list

\* The file is read, its magic and the length of its table are right.
ReadSfo(f) ==
  /\ spc = "open" /\ spc' = "entry"
  /\ file' = f
  /\ blocks' = blocks \cup {"fd", "data"}
  /\ UNCHANGED <<at, parts, nxt, prv, head, el, title, cid, told>>

\* open, fstat, malloc or read fails, or the file is too short or no param.sfo: what
\* was opened and allocated is given back.
ReadSfoFails ==
  /\ spc = "open"
  /\ Throw(0)
  /\ UNCHANGED <<file, at, blocks, parts, nxt, prv, title, cid, told>>

-------------------------------------------------------------------------------
(* sfo_load_from_memory *)

\* DL_APPEND
DL_APPEND(i) ==
  IF head = 0
    THEN /\ head' = i
         /\ nxt' = [nxt EXCEPT ![i] = 0] /\ prv' = [prv EXCEPT ![i] = i]
    ELSE /\ nxt' = [nxt EXCEPT ![prv[head]] = i, ![i] = 0]
         /\ prv' = [prv EXCEPT ![i] = prv[head], ![head] = i]
         /\ UNCHANGED head

\* An entry is copied and appended.
LoadEntry ==
  /\ spc = "entry" /\ at <= Len(file) /\ file[at].fits
  /\ parts' = parts \cup ({at} \X Part)
  /\ DL_APPEND(at)
  /\ at' = at + 1
  /\ UNCHANGED <<spc, file, blocks, el, title, cid, told>>

\* Memory runs out, or the size does not fit the area: the label err frees the parts of
\* this entry.  Those before it are on a list that sfo->entries never gets.
LoadEntryFails ==
  /\ spc = "entry" /\ at <= Len(file)
  /\ blocks' = blocks \ {"fd", "data"}
  /\ Throw(0)
  /\ UNCHANGED <<file, at, parts, nxt, prv, title, cid, told>>

\* sfo->entries = entries; the file's data is freed and the file closed.
LoadDone ==
  /\ spc = "entry" /\ at > Len(file)
  /\ spc' = "title"
  /\ blocks' = blocks \ {"fd", "data"}
  /\ UNCHANGED <<file, at, parts, nxt, prv, head, el, title, cid, told>>

-------------------------------------------------------------------------------
(* The title and the content id *)

\* The entries from i on, following next.
Walk == [n \in 0..MaxEntries |->
  LET from[k \in 0..n] == IF k = 0 THEN head ELSE IF from[k - 1] = 0 THEN 0 ELSE nxt[from[k - 1]]
  IN from[n]]

\* sfo_find_entry: the first entry of the list with the key, or 0.
sfo_find_entry(key) ==
  LET hits == {n \in 0..MaxEntries : Walk[n] # 0 /\ file[Walk[n]].key = key}
  IN IF hits = {} THEN 0 ELSE Walk[CHOOSE n \in hits : \A m \in hits : n <= m]

\* TITLE_nn of the console's language, else TITLE
TitleEntry ==
  IF sfo_find_entry("TITLE_NN") # 0 THEN sfo_find_entry("TITLE_NN") ELSE sfo_find_entry("TITLE")

GetTitle ==
  /\ spc = "title" /\ TitleEntry # 0 /\ file[TitleEntry].good
  /\ title' = TitleEntry
  /\ spc' = "cid"
  /\ UNCHANGED <<file, at, blocks, parts, nxt, prv, head, el, cid, told>>

\* There is none, it is no string, or it cannot be escaped for the answer.
GetTitleFails ==
  /\ spc = "title"
  /\ Throw(head)
  /\ UNCHANGED <<file, at, blocks, parts, nxt, prv, title, cid, told>>

\* An entry of the list that is a string of the right size.
Usable(e) == e # 0 /\ file[e].good

\* The task is registered (Install) and the function goes on to its end.
GetContentId ==
  LET e == sfo_find_entry("CONTENT_ID") IN
  /\ spc = "cid" /\ Usable(e)
  /\ cid' = e /\ told' = TRUE
  /\ Throw(head)
  /\ UNCHANGED <<file, at, blocks, parts, nxt, prv, title>>

GetContentIdFails ==
  /\ spc = "cid" /\ ~Usable(sfo_find_entry("CONTENT_ID"))
  /\ Throw(head)
  /\ UNCHANGED <<file, at, blocks, parts, nxt, prv, title, cid, told>>

-------------------------------------------------------------------------------
(* sfo_free *)

\* Mutant of DL_DELETE: the first element goes and head stays where it was.
DL_DELETE_head_stays(i) == UNCHANGED <<head, nxt, prv>>

\* DL_DELETE
DL_DELETE(i) ==
  CASE prv[i] = i -> head' = 0 /\ UNCHANGED <<nxt, prv>>
    [] prv[i] # i /\ i = head ->
         /\ prv' = [prv EXCEPT ![nxt[i]] = prv[i]]
         /\ head' = nxt[i]
         /\ UNCHANGED nxt
    [] OTHER ->
         /\ nxt' = [nxt EXCEPT ![prv[i]] = nxt[i]]
         /\ prv' = [prv EXCEPT ![IF nxt[i] # 0 THEN nxt[i] ELSE head] = prv[i]]
         /\ UNCHANGED head

\* Mutant of FreeEntry: the loop does not go on to the next element.
FreeEntryStays ==
  /\ spc = "free" /\ el # 0
  /\ DL_DELETE(el)
  /\ parts' = parts \ ({el} \X Part)
  /\ UNCHANGED <<spc, el, file, at, blocks, title, cid, told>>

\* One turn of DL_FOREACH_SAFE: tmp is the next element.
FreeEntry ==
  /\ spc = "free" /\ el # 0
  /\ DL_DELETE(el)
  /\ parts' = parts \ ({el} \X Part)
  /\ el' = nxt[el]
  /\ UNCHANGED <<spc, file, at, blocks, title, cid, told>>

FreeSfo ==
  /\ spc = "free" /\ el = 0
  /\ spc' = "done"
  /\ blocks' = blocks \ {"sfo"}
  /\ UNCHANGED <<file, at, parts, nxt, prv, head, el, title, cid, told>>

SfoFiles == UNION {[1..n -> SfoEntries] : n \in 0..MaxEntries}

SfoStep ==
  \/ SfoAlloc \/ SfoAllocFails
  \/ \E f \in SfoFiles : ReadSfo(f)
  \/ ReadSfoFails
  \/ LoadEntry \/ LoadEntryFails \/ LoadDone
  \/ GetTitle \/ GetTitleFails \/ GetContentId \/ GetContentIdFails
  \/ FreeEntry \/ FreeSfo

SfoEnd == spc' = "idle" /\ SfoReset

-------------------------------------------------------------------------------
(* What the reader promises *)

FirstWith(key) ==
  LET K == {k \in 1..Len(file) : file[k].key = key}
  IN IF K = {} THEN 0 ELSE CHOOSE k \in K : \A j \in K : k <= j

\* The list says what the file says: a package is described by the first title of the
\* console's language in its param.sfo, by the first TITLE only when there is none, and
\* by its first content id.
DescribedByFile ==
  told => /\ title = IF FirstWith("TITLE_NN") # 0 THEN FirstWith("TITLE_NN")
                                                  ELSE FirstWith("TITLE")
          /\ cid = FirstWith("CONTENT_ID")

\* While the list is taken down every element of it is still allocated and is reached
\* once: an entry is never followed or freed a second time.
ListLive ==
  /\ spc = "free" /\ el # 0 => /\ {el} \X Part \subseteq parts
                               /\ el = head
  /\ spc \in {"title", "cid"} => \A n \in 0..MaxEntries :
       Walk[n] # 0 => {Walk[n]} \X Part \subseteq parts

\* sfo_free takes down every entry that was read when the param.sfo was read to its end.
\* When an entry cannot be read, all the entries before it are lost, and only those: they
\* are on a list that sfo->entries never got, and the label err frees just the last one.
EntriesLost ==
  spc = "done" => /\ blocks = {}
                  /\ parts = IF at > Len(file) THEN {} ELSE (1..(at - 1)) \X Part
=================================================================================
