------------------------------ MODULE HttpRequest ------------------------------
(***************************************************************************)
(* One outgoing HTTP request: http_download_file and http_get_file_size    *)
(* over do_request, apply_ssl_options and download_file_cb, one step per   *)
(* call into the system's HTTP library.  Every such call may fail.  While  *)
(* the request runs, another connection thread may change the configured   *)
(* verification mode (http_set_ssl_verify).                                *)
(*                                                                         *)
(* A failure is named by the call that produced it.  Sizes are small       *)
(* numbers and NoLen stands for UINT64_MAX, both as "size unknown" and as  *)
(* the (uint64_t)-1 of a caller that gives no size.                        *)
(***************************************************************************)
EXTENDS Integers

CONSTANTS
  MaxLen,    \* bound: content lengths, requested sizes and offsets
  ChunkSize  \* DOWNLOAD_CHUNK_SIZE

ASSUME SizeAssumption == MaxLen \in Nat /\ ChunkSize \in Nat \ {0}

NoLen == MaxLen + 1

VARIABLES
  mode,      \* s_ssl_verify_mode, shared with the settings handler
  pc,        \* the next library call of the request, or "idle"
  call,      \* the arguments: [kind, offset, size, verify]
  policy,    \* ssl_verify once do_request resolved it
  checks,    \* TLS checks of the template: "default", "on" or "off"
  handles,   \* live library handles: a subset of {"tpl", "conn", "req"}
  connChecks,\* TLS checks the connection inherited when it was created
  status,    \* do_request's status: "ok" or the failing step
  answer,    \* the server's answer: [code, len, start]
  args,      \* struct download_file_cb_args: [total, cur, alloc, buf, len]
  result     \* what the caller got: [ok, size, total, start]

vars == <<mode, pc, call, policy, checks, handles, connChecks, status,
          answer, args, result>>

Modes == {"on", "off"}

Steps == {"tpl", "ssl", "conn", "req", "hdr", "send", "code", "len", "cb", "alloc",
          "read", "delreq", "delconn", "deltpl", "return"}

Failures == {"tpl", "ssl", "conn", "req", "hdr", "send", "code", "len",
             "bad_status", "range_ignored", "no_length", "oom", "read"}

Calls == [kind : {"download", "size"}, offset : 0..MaxLen, size : 0..NoLen,
          verify : {"default", "on", "off"}]

NoAnswer == [code |-> 0, len |-> 0, start |-> 0]
NoArgs   == [total |-> 0, cur |-> 0, alloc |-> 0, buf |-> "none", len |-> 0]
NoResult == [ok |-> FALSE, size |-> 0, total |-> 0, start |-> 0]

\* The type invariant.
TypeOK ==
  /\ mode \in Modes
  /\ pc \in Steps \union {"idle"}
  /\ call \in Calls
  /\ policy \in Modes
  /\ checks \in {"default", "on", "off"}
  /\ handles \subseteq {"tpl", "conn", "req"}
  /\ connChecks \in {"default", "on", "off"}
  /\ status \in Failures \union {"ok"}
  /\ answer \in [code : {0, 200, 206, 404}, len : 0..NoLen, start : 0..MaxLen]
  /\ args \in [total : 0..MaxLen, cur : 0..MaxLen, alloc : 0..NoLen,
               buf : {"none", "live", "freed", "given"}, len : 0..NoLen]
  /\ result \in [ok : BOOLEAN, size : 0..MaxLen, total : 0..NoLen, start : 0..MaxLen]

Init ==
  /\ mode = "on"
  /\ pc = "idle"
  /\ call = [kind |-> "size", offset |-> 0, size |-> 0, verify |-> "default"]
  /\ policy = "on"
  /\ checks = "default"
  /\ handles = {}
  /\ connChecks = "default"
  /\ status = "ok"
  /\ answer = NoAnswer
  /\ args = NoArgs
  /\ result = NoResult

-------------------------------------------------------------------------------
(* The caller *)

\* http_set_ssl_verify from a settings request on another thread.
SetSslVerify ==
  /\ mode' \in Modes
  /\ UNCHANGED <<pc, call, policy, checks, handles, connChecks, status,
                 answer, args, result>>

\* A request asks for part of the file only when it names an offset and a size.
WantPartial(c) == c.kind = "download" /\ c.offset > 0 /\ c.size > 0

\* http_download_file with any offset and size, or http_get_file_size; do_request
\* resolves "use the configured default" here, once.  An offset with no size has
\* no end to put in a Range header: no caller asks for it.
Begin ==
  /\ pc = "idle"
  /\ \E c \in Calls :
       /\ c.kind = "size" => c.offset = 0 /\ c.size = 0
       /\ c.size = NoLen => c.offset = 0
       /\ call' = c
       /\ policy' = IF c.verify = "default" THEN mode ELSE c.verify
  /\ pc' = "tpl"
  /\ checks' = "default"
  /\ connChecks' = "default"
  /\ status' = "ok"
  /\ answer' = NoAnswer
  /\ args' = NoArgs
  /\ result' = NoResult
  /\ UNCHANGED <<mode, handles>>

-------------------------------------------------------------------------------
(* do_request *)

\* A library call fails: its error becomes the status, and control goes to the
\* label that releases what has been created so far.
Fail(why, label) ==
  /\ status' = why
  /\ pc' = label

\* sceHttpCreateTemplate
CreateTemplate ==
  /\ pc = "tpl"
  /\ \/ handles' = handles \union {"tpl"} /\ pc' = "ssl" /\ UNCHANGED status
     \/ Fail("tpl", "return") /\ UNCHANGED handles
  /\ UNCHANGED <<mode, call, policy, checks, connChecks, answer, args, result>>

\* Mutant of ApplySslOptions: verification that cannot be armed is only logged.
ApplySslOptionsFailOpen ==
  /\ pc = "ssl"
  /\ pc' = "conn"
  /\ checks' \in (IF policy = "off" THEN {"off", "default"} ELSE {"on", "default"})
  /\ UNCHANGED <<mode, call, policy, handles, connChecks, status, answer, args, result>>

\* apply_ssl_options: switching the checks off may fail without consequence;
\* switching them on may not.
ApplySslOptions ==
  /\ pc = "ssl"
  /\ \/ /\ policy = "off"
        /\ \/ checks' = "off"
           \/ checks' = "default"
        /\ pc' = "conn"
        /\ UNCHANGED status
     \/ /\ policy = "on"
        /\ \/ checks' = "on" /\ pc' = "conn" /\ UNCHANGED status
           \/ Fail("ssl", "deltpl") /\ UNCHANGED checks
  /\ UNCHANGED <<mode, call, policy, handles, connChecks, answer, args, result>>

\* sceHttpCreateConnectionWithURL: the connection inherits the template's checks.
CreateConnection ==
  /\ pc = "conn"
  /\ \/ /\ handles' = handles \union {"conn"} /\ connChecks' = checks
        /\ pc' = "req" /\ UNCHANGED status
     \/ Fail("conn", "deltpl") /\ UNCHANGED <<handles, connChecks>>
  /\ UNCHANGED <<mode, call, policy, checks, answer, args, result>>

\* Mutant of CreateRequest: a failed request jumps past the connection's release.
CreateRequestSkips ==
  /\ pc = "req"
  /\ \/ handles' = handles \union {"req"} /\ pc' = "hdr" /\ UNCHANGED status
     \/ Fail("req", "deltpl") /\ UNCHANGED handles
  /\ UNCHANGED <<mode, call, policy, checks, connChecks, answer, args, result>>

\* sceHttpCreateRequestWithURL
CreateRequest ==
  /\ pc = "req"
  /\ \/ handles' = handles \union {"req"} /\ pc' = "hdr" /\ UNCHANGED status
     \/ Fail("req", "delconn") /\ UNCHANGED handles
  /\ UNCHANGED <<mode, call, policy, checks, connChecks, answer, args, result>>

\* The loop of sceHttpAddRequestHeader: Accept-Encoding, and Range when part of
\* the file is wanted.  http_get_file_size sends neither.
AddHeaders ==
  /\ pc = "hdr"
  /\ \/ pc' = "send" /\ UNCHANGED status
     \/ call.kind = "download" /\ Fail("hdr", "delreq")
  /\ UNCHANGED <<mode, call, policy, checks, handles, connChecks, answer, args, result>>

\* sceHttpSendRequest.  The server answers with some status; a 206 body starts at
\* the requested offset, any other body at the beginning of the file.
SendRequest ==
  /\ pc = "send"
  /\ \/ /\ \E code \in {200, 206, 404} :
             answer' = [code |-> code, len |-> answer.len,
                        start |-> IF code = 206 /\ WantPartial(call) THEN call.offset ELSE 0]
        /\ pc' = "code" /\ UNCHANGED status
     \/ Fail("send", "delreq") /\ UNCHANGED answer
  /\ UNCHANGED <<mode, call, policy, checks, handles, connChecks, args, result>>

is_good_status(code) == code \in {200, 206}

\* sceHttpGetStatusCode; the length is asked for only after a good status.
GetStatusCode ==
  /\ pc = "code"
  /\ \/ /\ UNCHANGED status
        /\ pc' = IF is_good_status(answer.code) THEN "len" ELSE "cb"
     \/ Fail("code", "delreq")
  /\ UNCHANGED <<mode, call, policy, checks, handles, connChecks, answer, args, result>>

\* sceHttpGetResponseContentLength: the server sent a Content-Length or did not.
GetContentLength ==
  /\ pc = "len"
  /\ \/ /\ \E n \in 0..NoLen : answer' = [answer EXCEPT !.len = n]
        /\ pc' = "cb" /\ UNCHANGED status
     \/ Fail("len", "delreq") /\ UNCHANGED answer
  /\ UNCHANGED <<mode, call, policy, checks, handles, connChecks, args, result>>

-------------------------------------------------------------------------------
(* download_file_cb, which do_request calls *)

\* The bytes to read: the server's length, or the caller's when that is smaller.
TotalSize(size, len) == IF size > len THEN len ELSE size

\* Mutant of RangeIgnored: a server that ignores Range is believed.
RangeBelieved == FALSE

\* A whole file in answer to a request for part of it.
RangeIgnored == WantPartial(call) /\ answer.code # 206

\* Neither the caller nor the server knows how much there is to read.
LengthUnknown == call.size = NoLen /\ answer.len = NoLen

\* The callback's checks before it allocates anything, in its order.  (Its test
\* for a missing chunk buffer cannot fire: only http_get_file_size has none, and
\* it asks for no bytes.)
CheckAnswer ==
  /\ pc = "cb"
  /\ \/ /\ ~is_good_status(answer.code)
        /\ Fail("bad_status", "delreq") /\ UNCHANGED args
     \/ /\ is_good_status(answer.code)
        /\ RangeIgnored
        /\ Fail("range_ignored", "delreq") /\ UNCHANGED args
     \/ /\ is_good_status(answer.code) /\ ~RangeIgnored
        /\ LengthUnknown
        /\ Fail("no_length", "delreq") /\ UNCHANGED args
     \/ /\ is_good_status(answer.code) /\ ~RangeIgnored /\ ~LengthUnknown
        /\ args' = [args EXCEPT !.total = TotalSize(call.size, answer.len)]
        /\ pc' = "alloc" /\ UNCHANGED status
  /\ UNCHANGED <<mode, call, policy, checks, handles, connChecks, answer, result>>

\* Mutant of Allocate: no room for the terminator.
AllocateExactly ==
  /\ pc = "alloc"
  /\ \/ /\ args' = [args EXCEPT !.buf = "live", !.alloc = args.total]
        /\ pc' = "read" /\ UNCHANGED status
     \/ /\ status' = "oom" /\ pc' = "delreq"
        /\ args' = [args EXCEPT !.len = answer.len]
  /\ UNCHANGED <<mode, call, policy, checks, handles, connChecks, answer, result>>

\* malloc(total_size + 1): the extra byte keeps the data a C string.
Allocate ==
  /\ pc = "alloc"
  /\ \/ /\ args' = [args EXCEPT !.buf = "live", !.alloc = args.total + 1]
        /\ pc' = "read" /\ UNCHANGED status
     \/ /\ status' = "oom" /\ pc' = "delreq"
        /\ args' = [args EXCEPT !.len = answer.len]
  /\ UNCHANGED <<mode, call, policy, checks, handles, connChecks, answer, result>>

Smaller(m, n) == IF m < n THEN m ELSE n

\* The size of the next read: a chunk, or what is still wanted.
ChunkLimit == Smaller(ChunkSize, args.total - args.cur)

\* One sceHttpReadData of the loop: some bytes, or the end of the body, which may
\* come early, or an error, which keeps what was read so far.
ReadData ==
  /\ pc = "read"
  /\ \/ /\ args.cur < args.total
        /\ \E n \in 1..ChunkLimit : args' = [args EXCEPT !.cur = args.cur + n]
              /\ UNCHANGED <<pc, status>>
     \/ /\ pc' = "delreq" /\ status' = "ok"
        /\ args' = [args EXCEPT !.len = answer.len]
     \/ /\ args.cur < args.total
        /\ Fail("read", "delreq")
        /\ args' = [args EXCEPT !.len = answer.len]
  /\ UNCHANGED <<mode, call, policy, checks, handles, connChecks, answer, result>>

-------------------------------------------------------------------------------
(* Teardown, and the return to the caller *)

\* Mutant of Delete: the result of the teardown replaces the failure.
DeleteMasks(h, to) ==
  /\ handles' = handles \ {h}
  /\ status' = "ok"
  /\ pc' = to
  /\ UNCHANGED <<mode, call, policy, checks, connChecks, answer, args, result>>

\* sceHttpDelete...: whether it succeeds is logged and changes nothing.
Delete(h, to) ==
  /\ handles' = handles \ {h}
  /\ pc' = to
  /\ UNCHANGED <<mode, call, policy, checks, connChecks, status, answer, args, result>>

DeleteRequest    == pc = "delreq" /\ Delete("req", "delconn")
DeleteConnection == pc = "delconn" /\ Delete("conn", "deltpl")
DeleteTemplate   == pc = "deltpl" /\ Delete("tpl", "return")

\* Mutant of Return: a transfer that broke off returns without freeing.
ReturnLeaks ==
  /\ pc = "return"
  /\ LET ok == status = "ok" /\ (call.kind = "size" => args.len # NoLen)
     IN /\ result' = IF ok THEN [ok |-> TRUE, size |-> args.cur, total |-> args.len,
                                 start |-> answer.start]
                     ELSE NoResult
        /\ args' = [args EXCEPT !.buf = IF ok /\ args.buf = "live" THEN "given" ELSE @]
  /\ pc' = "idle"
  /\ UNCHANGED <<mode, call, policy, checks, handles, connChecks, status, answer>>

\* http_download_file hands the buffer over only when everything went well and
\* frees it otherwise; http_get_file_size also insists on a reported length, and
\* never frees the one byte its callback allocated.
Return ==
  /\ pc = "return"
  /\ LET ok == status = "ok" /\ (call.kind = "size" => args.len # NoLen)
     IN /\ result' = IF ok THEN [ok |-> TRUE, size |-> args.cur, total |-> args.len,
                                 start |-> answer.start]
                     ELSE NoResult
        /\ args' = [args EXCEPT !.buf =
                      IF call.kind = "size" \/ args.buf = "none" THEN args.buf
                      ELSE IF ok THEN "given" ELSE "freed"]
  /\ pc' = "idle"
  /\ UNCHANGED <<mode, call, policy, checks, handles, connChecks, status, answer>>

Next ==
  \/ SetSslVerify \/ Begin
  \/ CreateTemplate \/ ApplySslOptions \/ CreateConnection \/ CreateRequest
  \/ AddHeaders \/ SendRequest \/ GetStatusCode \/ GetContentLength
  \/ CheckAnswer \/ Allocate \/ ReadData
  \/ DeleteRequest \/ DeleteConnection \/ DeleteTemplate \/ Return

Spec == Init /\ [][Next]_vars

-------------------------------------------------------------------------------
(* Properties *)

\* Whatever call fails, do_request releases exactly the handles it created, the
\* inner ones before the outer ones: no label of the goto ladder deletes a handle
\* that does not exist, skips one that does, or pulls a template or connection
\* from under a handle derived from it.
HandlesNest ==
  /\ "req" \in handles => "conn" \in handles
  /\ "conn" \in handles => "tpl" \in handles
  /\ pc = "delreq" => "req" \in handles
  /\ pc = "delconn" => "conn" \in handles /\ "req" \notin handles
  /\ pc = "deltpl" => "tpl" \in handles /\ "conn" \notin handles
  /\ pc \in {"return", "idle"} => handles = {}

\* Nothing is ever sent unchecked when verification was asked for, whether by
\* this request or by the setting in force when it began; a setting that changes
\* while the request runs makes no difference.
FailClosed ==
  pc \in {"code", "len", "cb", "alloc", "read"} =>
    /\ call.verify = "on" => connChecks = "on"
    /\ call.verify = "off" => connChecks # "on"
    /\ policy = "on" <=> connChecks = "on"

\* A download that reports success delivers nothing but bytes that were asked for: from
\* the requested offset, no more than were requested, and no more than the server
\* announced; a size that is reported is one the server announced.  It may deliver less,
\* which the callers have to see from the size, and a server that says 206 is believed to
\* have begun at the offset.
SuccessIsHonest ==
  pc = "idle" /\ result.ok =>
    /\ is_good_status(answer.code)
    /\ result.size <= call.size /\ result.size <= answer.len
    /\ WantPartial(call) => result.start = call.offset
    /\ call.kind = "size" => result.total = answer.len /\ result.total # NoLen

\* The read loop never writes past the buffer, and always leaves the last byte
\* as the terminator.
ReadInBounds == pc = "read" => args.cur < args.alloc

\* http_download_file gives its buffer to the caller or frees it; a transfer that
\* breaks off does not leak what was read so far.
BufferSettled ==
  pc = "idle" /\ call.kind = "download" =>
    args.buf \in (IF result.ok THEN {"given"} ELSE {"none", "freed"})

\* The error do_request returns is the failure that actually happened: once a
\* step failed, tearing the request down does not change it.
FailureSticks == [][pc # "idle" /\ status # "ok" => status' = status]_vars
===============================================================================
