----------------------------- MODULE PackagePieces -----------------------------
(***************************************************************************)
(* pkg_setup_prerequisites: the header and the entry table of a package    *)
(* are fetched and checked, the size of every piece is asked for, and the  *)
(* reference JSON, param.sfo and icon are written.  Sizes and offsets are  *)
(* words of W bits that wrap.  A host may claim any length, true or not,   *)
(* and the largest word is also what a download reports when the host      *)
(* sends no Content-Length.                                                *)
(***************************************************************************)
EXTENDS Integers, Sequences, SequencesExt, FiniteSets

CONSTANTS
  W,         \* bits of a uint64_t
  MaxCount,  \* bound: pieces of a package
  Entries    \* bound: entries of a package's table

ASSUME PackagePiecesAssumption ==
  /\ W \in Nat /\ 2^W > 1
  /\ MaxCount \in Nat \ {0} /\ Entries \in Nat

Word  == 2^W
NoLen == 2^W - 1

VARIABLES
  ppc,      \* where the call is, "idle" when there is none
  count,    \* piece_count
  psize,    \* hdr->package_size
  entries,  \* the entry table: what each entry is and whether it says where
  total,    \* total_size
  offset,   \* offset
  pieces,   \* what the reference JSON says of each piece: [at, size]
  lens,     \* history: the length the host claimed for each piece
  bufs,     \* the buffers of the call that are allocated
  files,    \* the files of the install, or of the one before it, that are there
  icon      \* *has_icon

pvars == <<ppc, count, psize, entries, total, offset, pieces, lens, bufs, files, icon>>

Buffers == {"hdr", "table", "sfo", "png"}
Files   == {"json", "sfo", "png"}

Entry == [id : {"sfo", "icon", "other"}, set : BOOLEAN]

\* The type invariant; every number is a word.
PiecesTypeOK ==
  /\ ppc \in {"idle", "clear", "header", "size", "table", "sfo", "icon", "open", "piece",
              "writesfo", "writeicon", "close", "err", "done", "failed"}
  /\ count \in 0..MaxCount
  /\ psize \in 0..NoLen /\ total \in 0..NoLen /\ offset \in 0..NoLen
  /\ entries \in Seq(Entry)
  /\ pieces \in Seq([at : 0..NoLen, size : 0..NoLen])
  /\ lens \in Seq(0..NoLen)
  /\ bufs \subseteq Buffers /\ files \subseteq Files
  /\ icon \in BOOLEAN

NoCall ==
  /\ count = 0 /\ psize = 0 /\ entries = <<>> /\ total = 0 /\ offset = 0
  /\ pieces = <<>> /\ lens = <<>> /\ bufs = {} /\ icon = FALSE

PiecesInit == ppc = "idle" /\ NoCall /\ files = {}

-------------------------------------------------------------------------------

\* Mutant of SetupBegin: the last piece is not counted.
SetupBeginShort(n) ==
  /\ ppc = "idle" /\ ppc' = "clear"
  /\ count' = n - 1
  /\ files' \in SUBSET Files
  /\ UNCHANGED <<psize, entries, total, offset, pieces, lens, bufs, icon>>

\* The call is made for n pieces; files of the same name may be left from before.
SetupBegin(n) ==
  /\ ppc = "idle" /\ ppc' = "clear"
  /\ count' = n
  /\ files' \in SUBSET Files
  /\ UNCHANGED <<psize, entries, total, offset, pieces, lens, bufs, icon>>

Clear ==
  /\ ppc = "clear" /\ ppc' = "header"
  /\ files' = {}
  /\ UNCHANGED <<count, psize, entries, total, offset, pieces, lens, bufs, icon>>

\* A step fails: nothing is written yet, only the buffers in b were allocated.
Abandon(b) ==
  /\ ppc' = "err"
  /\ bufs' = bufs \cup b
  /\ UNCHANGED <<count, psize, entries, total, offset, pieces, lens, files, icon>>

\* The header of the first piece; the download is without a range, so the length it
\* reports is what the host claims for the file, a header at least, or NoLen.
FetchHeader ==
  /\ ppc = "header" /\ ppc' = "size"
  /\ total' \in 1..NoLen
  /\ lens' = <<total'>>
  /\ psize' \in 0..NoLen
  /\ bufs' = {"hdr"}
  /\ UNCHANGED <<count, entries, offset, pieces, files, icon>>

\* The download fails, or what came is too short or no package.
FetchHeaderFails ==
  /\ ppc = "header"
  /\ \E b \in {{}, {"hdr"}} : Abandon(b)

SizeRefused == count = 1 /\ psize > 0 /\ total # psize

CheckSize ==
  /\ ppc = "size" /\ ~SizeRefused
  /\ ppc' = "table"
  /\ UNCHANGED <<count, psize, entries, total, offset, pieces, lens, bufs, files, icon>>

CheckSizeFails ==
  /\ ppc = "size" /\ SizeRefused
  /\ Abandon({})

\* The entry table; an empty one is refused below.
FetchTable ==
  /\ ppc = "table" /\ ppc' = "sfo"
  /\ \E n \in 1..Entries : entries' \in [1..n -> Entry]
  /\ bufs' = bufs \cup {"table"}
  /\ UNCHANGED <<count, psize, total, offset, pieces, lens, files, icon>>

\* It has no entries, cannot be fetched or comes short.
FetchTableFails ==
  /\ ppc = "table"
  /\ \E b \in {{}, {"table"}} : Abandon(b)

\* The last entry of the kind overwrites those before it.
Found(id) ==
  \E k \in 1..Len(entries) : /\ entries[k] = [id |-> id, set |-> TRUE]
                             /\ \A j \in (k + 1)..Len(entries) : entries[j].id # id

FetchSfo ==
  /\ ppc = "sfo" /\ Found("sfo")
  /\ ppc' = IF Found("icon") THEN "icon" ELSE "open"
  /\ bufs' = bufs \cup {"sfo"}
  /\ UNCHANGED <<count, psize, entries, total, offset, pieces, lens, files, icon>>

\* There is none, or it cannot be fetched, comes short or is no param.sfo.
FetchSfoFails ==
  /\ ppc = "sfo"
  /\ \E b \in IF Found("sfo") THEN {{}, {"sfo"}} ELSE {{}} : Abandon(b)

FetchIcon ==
  /\ ppc = "icon" /\ ppc' = "open"
  /\ bufs' = bufs \cup {"png"}
  /\ UNCHANGED <<count, psize, entries, total, offset, pieces, lens, files, icon>>

FetchIconFails ==
  /\ ppc = "icon"
  /\ \E b \in {{}, {"png"}} : Abandon(b)

\* fopen of the reference JSON
OpenJson ==
  /\ ppc = "open" /\ ppc' = "piece"
  /\ files' = files \cup {"json"}
  /\ UNCHANGED <<count, psize, entries, total, offset, pieces, lens, bufs, icon>>

OpenJsonFails ==
  /\ ppc = "open"
  /\ Abandon({})

\* A piece is written down with the size that was reported, and the offset moves on,
\* modulo the word.
WritePiece(size) ==
  /\ pieces' = Append(pieces, [at |-> offset, size |-> size])
  /\ total' = size
  /\ offset' = (offset + size) % Word

\* The first piece has the length of the header's download; http_get_file_size asks
\* for that of every other, believes any number and refuses a host that gives none.
Piece ==
  /\ ppc = "piece" /\ Len(pieces) < count
  /\ IF pieces = <<>>
       THEN WritePiece(total) /\ UNCHANGED lens
       ELSE \E len \in 0..(NoLen - 1) : WritePiece(len) /\ lens' = Append(lens, len)
  /\ UNCHANGED <<ppc, count, psize, entries, bufs, files, icon>>

\* Any failure from here on closes and removes what was written.
CloseFailed ==
  /\ ppc' = "err"
  /\ files' = {}
  /\ UNCHANGED <<count, psize, entries, total, offset, pieces, lens, bufs, icon>>

PieceFails ==
  /\ ppc = "piece" /\ Len(pieces) \in 1..(count - 1)
  /\ CloseFailed

\* Mutant of SumRefused: a package that says less than there is passes.
SumRefusedBelow == psize > 0 /\ offset < psize

SumRefused == psize > 0 /\ offset # psize

Sum ==
  /\ ppc = "piece" /\ Len(pieces) = count /\ ~SumRefused
  /\ ppc' = "writesfo"
  /\ UNCHANGED <<count, psize, entries, total, offset, pieces, lens, bufs, files, icon>>

SumFails ==
  /\ ppc = "piece" /\ Len(pieces) = count /\ SumRefused
  /\ CloseFailed

WriteSfo ==
  /\ ppc = "writesfo" /\ ppc' = "writeicon"
  /\ files' = files \cup {"sfo"}
  /\ UNCHANGED <<count, psize, entries, total, offset, pieces, lens, bufs, icon>>

\* write_file_trunc fails and may have left a part.
WriteFails ==
  /\ ppc = "writesfo" \/ (ppc = "writeicon" /\ Found("icon"))
  /\ CloseFailed

WriteIcon ==
  /\ ppc = "writeicon" /\ ppc' = "close"
  /\ files' = IF Found("icon") THEN files \cup {"png"} ELSE files
  /\ icon' = Found("icon")
  /\ UNCHANGED <<count, psize, entries, total, offset, pieces, lens, bufs>>

\* The label err frees all four buffers.
Free == bufs' = {}

\* The function's own variables go with it; the files and has_icon stay.
SetupReturn ==
  /\ ppc \in {"close", "err"}
  /\ ppc' = IF ppc = "close" THEN "done" ELSE "failed"
  /\ Free
  /\ psize' = 0 /\ entries' = <<>> /\ total' = 0 /\ offset' = 0 /\ lens' = <<>>
  /\ UNCHANGED <<count, pieces, files, icon>>

PiecesStep ==
  \/ Clear
  \/ FetchHeader \/ FetchHeaderFails
  \/ CheckSize \/ CheckSizeFails
  \/ FetchTable \/ FetchTableFails
  \/ FetchSfo \/ FetchSfoFails \/ FetchIcon \/ FetchIconFails
  \/ OpenJson \/ OpenJsonFails
  \/ Piece \/ PieceFails \/ Sum \/ SumFails
  \/ WriteSfo \/ WriteIcon \/ WriteFails
  \/ SetupReturn

\* install_pieces returned and has left these files; the next install starts anew.
SetupEnd(kept) ==
  /\ ppc' = "idle"
  /\ count' = 0 /\ psize' = 0 /\ entries' = <<>> /\ total' = 0 /\ offset' = 0
  /\ pieces' = <<>> /\ lens' = <<>> /\ bufs' = {} /\ icon' = FALSE
  /\ files' = kept

-------------------------------------------------------------------------------
(* What the download service can rely on *)

\* The piece table in the reference JSON is a partition of the package: every piece has
\* the length its host claimed and stands right behind the one before it, from 0 to the
\* size in the header.  The one way out is a length no file has: a claim, or the word that
\* stands for no claim, with which a piece ends beyond the largest word, so that the sum
\* can wrap to the size in the header.
PiecesTile ==
  ppc = "close" /\ psize > 0 =>
    /\ Len(pieces) = count /\ Len(lens) = count
    /\ \A k \in 1..count : pieces[k].size = lens[k]
    /\ \/ \E k \in 1..count : pieces[k].at + pieces[k].size > NoLen
       \/ /\ pieces[1].at = 0
          /\ \A k \in 2..count : pieces[k].at = pieces[k - 1].at + pieces[k - 1].size
          /\ pieces[count].at + pieces[count].size = psize

\* README, "Host requirements": the host serving the file must "send a `Content-Length`
\* (no chunked-only responses)".  No package is set up from a host that sends none.
\* One can be: the missing length counts as NoLen in a sum that wraps.
LengthsRequired == ppc = "close" => \A k \in 1..Len(lens) : lens[k] # NoLen

\* The call leaves no buffer behind, and no file when it fails; when it succeeds the
\* files are there, the icon exactly when the caller is told so.  What an install that is
\* over leaves on the disk is nothing, or the reference JSON with or without the icon,
\* never the param.sfo.
SetupLeavesClean ==
  /\ ppc \in {"done", "failed"} => bufs = {}
  /\ ppc = "failed" => files = {}
  /\ ppc = "done" => files = {"json", "sfo"} \cup (IF icon THEN {"png"} ELSE {})
  /\ ppc = "idle" => files \in {{}, {"json"}, {"json", "png"}}
===============================================================================
