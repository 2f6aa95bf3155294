------------------------------- MODULE Exchange -------------------------------
(***************************************************************************)
(* One connection from its first byte to its last, on its conn_thread:     *)
(* sb_stream_recv, event_handler, the handlers' answers through            *)
(* sb_send_status, sb_send_header, sb_writef and sb_send_file,             *)
(* sb_stream_send, and sb_stream_destroy.                                  *)
(*                                                                         *)
(* A request is what the dispatch looks at.  A response is a sequence of   *)
(* parts, not of bytes; a file is as many parts as it has chunks.  A       *)
(* handler is the sequence of calls it makes to answer: what it does to    *)
(* the system is in the modules Install and Settings.                      *)
(***************************************************************************)
EXTENDS Integers, Sequences, FiniteSets

CONSTANTS
  Methods,    \* the methods clients use
  MaxBody,    \* bound: bytes of a request body
  MaxFile,    \* bound: chunks of a file
  QuerySize,  \* QUERY_DATA_SIZE
  Failures    \* what may go wrong: a subset of {"memory", "open", "read"}

ASSUME ExchangeAssumption ==
  /\ Methods \subseteq {"GET", "POST", "OPTIONS", "other"}
  /\ MaxBody \in Nat /\ MaxFile \in Nat /\ QuerySize \in Nat \ {0}
  /\ Failures \subseteq {"memory", "open", "read"}

\* The states of a stream, in the order the code compares them.
RECEIVING_HEADER  == 0
RECEIVING_REQUEST == 1
SENDING_STATUS    == 2
SENDING_HEADER    == 3
SENDING_DATA      == 4
SENDING_FILE      == 5
CLOSING           == 6

VARIABLES
  pc,       \* where the thread is: "recv", "handler", "send", "destroy" or "done"
  req,      \* the client's request: [method, path, len, query, line]
  got,      \* how much of its body has arrived
  state,    \* st->state
  calls,    \* the calls the handler still has to make
  sendBuf,  \* st->send_buf
  wire,     \* what was sent
  sendFd,   \* whether st->send_fd is an open file, and what is left of it to read
  fds,      \* open file descriptors of the connection
  promised, \* the Content-Length that was announced, or None
  trouble   \* history: what went wrong; "client" when the client broke off

vars == <<pc, req, got, state, calls, sendBuf, wire, sendFd, fds, promised, trouble>>

None == -1

Paths == {"static", "settings", "api", "unknown"}

\* len is the Content-Length and query the length of ?data=, None when there is none;
\* line says whether the request line makes sense.
Requests == [method : Methods, path : Paths, len : None..MaxBody,
             query : None..(QuerySize + 1), line : BOOLEAN]

Part(kind, text) == [kind |-> kind, text |-> text]

\* The status codes, and what tells one body from another: kick_error's is its code.
Texts == {"", "200", "400", "403", "404", "500", "success", "code"}

Parts == [kind : {"status", "header", "blank", "body", "file"}, text : Texts]

\* The type invariant; fds is a Nat, so a descriptor closed twice shows here.
TypeOK ==
  /\ pc \in {"recv", "handler", "send", "destroy", "done"}
  /\ req \in Requests
  /\ got \in 0..MaxBody
  /\ state \in RECEIVING_HEADER..CLOSING
  /\ calls \in Seq([fn : {"status", "header", "writef", "file"},
                    arg : Texts \union {"cors", "close", "type"}])
  /\ sendBuf \in Seq(Parts) /\ wire \in Seq(Parts)
  /\ sendFd \in None..MaxFile
  /\ fds \in Nat
  /\ promised \in None..MaxFile
  /\ trouble \subseteq {"memory", "open", "read", "client"}

\* A stream right after sb_stream_new; the request is on its way.
Init ==
  /\ pc = "recv"
  /\ req \in Requests
  /\ got = 0
  /\ state = RECEIVING_HEADER
  /\ calls = <<>>
  /\ sendBuf = <<>>
  /\ wire = <<>>
  /\ sendFd = None
  /\ fds = 0
  /\ promised = None
  /\ trouble = {}

-------------------------------------------------------------------------------
(* What the handlers send *)

Call(fn, arg) == [fn |-> fn, arg |-> arg]

\* kick_result_header_json and the first calls of kick_error: a status line, the
\* CORS headers, Connection: close.
kick_header(code) == <<Call("status", code), Call("header", "cors"), Call("header", "close")>>

\* Mutant of kick_error: the headers are sent before the status.
kick_error_headers_first(code) ==
  <<Call("header", "cors"), Call("status", code), Call("writef", code)>>

kick_error(code) == kick_header(code) \o <<Call("writef", code)>>

kick_success == kick_header("200") \o <<Call("writef", "success")>>

kick_error_json == kick_header("200") \o <<Call("writef", "code")>>

\* handle_static up to sb_send_file; the file exists when stat looks.
static_file == <<Call("status", "200"), Call("header", "close"), Call("header", "type"),
                 Call("file", "")>>

\* url_decode fails as truncated as soon as it has used the last place but one.
Truncated(n) == n >= QuerySize - 1

\* What an endpoint answers: an API call can succeed, be refused, or report the
\* error of a system call; without data it can only be refused, except that
\* /api/settings then reports.
Answers(path, data) ==
  CASE path = "static"              -> {kick_error("400"), kick_error("403"),
                                        kick_error("404"), static_file}
    [] path = "settings" /\ ~data   -> IF req.method = "GET" THEN {kick_success}
                                                             ELSE {kick_error("400")}
    [] path = "settings" /\ data    -> {kick_error("400"), kick_error("500"), kick_success}
    [] path = "api" /\ ~data        -> {kick_error("400")}
    [] path = "api" /\ data         -> {kick_error("400"), kick_error("500"),
                                        kick_success, kick_error_json}

\* event_handler: the calls that answer the request req.
Dispatch ==
  IF req.method = "OPTIONS" THEN {kick_header("200")}
  ELSE IF req.method = "other" THEN {kick_error("400")}
  ELSE IF req.path = "unknown" \/ (req.path = "static" /\ req.method = "POST")
    THEN {kick_error("404")}
  ELSE IF req.method = "POST" THEN Answers(req.path, req.len > 0)
  ELSE IF Truncated(req.query) THEN {kick_error("400")}
  ELSE Answers(req.path, req.query > 0)

-------------------------------------------------------------------------------
(* sb_stream_recv *)

\* The request is complete: the handler is chosen.  A request line that makes no
\* sense closes the stream without an answer.
HandleRequest ==
  IF req.line
    THEN /\ state' = SENDING_STATUS
         /\ \E c \in Dispatch : calls' = c
         /\ pc' = "handler"
    ELSE state' = CLOSING /\ pc' = "destroy" /\ UNCHANGED calls

\* The end of the header arrives.
RecvHeader ==
  /\ pc = "recv" /\ state = RECEIVING_HEADER
  /\ IF req.len \in {None, 0}
       THEN HandleRequest
       ELSE state' = RECEIVING_REQUEST /\ UNCHANGED <<pc, calls>>
  /\ UNCHANGED <<req, got, sendBuf, wire, sendFd, fds, promised, trouble>>

\* A byte of the body arrives; the last one completes the request.
RecvBody ==
  /\ pc = "recv" /\ state = RECEIVING_REQUEST
  /\ got' = got + 1
  /\ IF got' = req.len
       THEN HandleRequest
       ELSE UNCHANGED <<pc, state, calls>>
  /\ UNCHANGED <<req, sendBuf, wire, sendFd, fds, promised, trouble>>

\* The client closes before the request is complete, or recv fails, or there is no
\* room for what came.
RecvEnds ==
  /\ pc = "recv"
  /\ \E w \in {"client"} \union (Failures \intersect {"memory"}) :
       trouble' = trouble \union {w}
  /\ state' = CLOSING
  /\ pc' = "destroy"
  /\ UNCHANGED <<req, got, calls, sendBuf, wire, sendFd, fds, promised>>

-------------------------------------------------------------------------------
(* The calls of the handler *)

\* The state, the send buffer and the error a call may leave behind: the stream
\* as it is now ...
Here == [state |-> state, buf |-> sendBuf, err |-> "none"]

Bad(o) == {[o EXCEPT !.err = "badstate"]}

\* ... with a part appended, or without it when there is no memory.
Push(o, part, next) ==
  {[state |-> next, buf |-> Append(o.buf, part), err |-> "none"]} \union
  (IF "memory" \in Failures THEN {[o EXCEPT !.err = "memory"]} ELSE {})

\* The outcomes of Then(p) for the outcomes p in P that are no failure.
AndThen(P, Then(_)) == UNION {IF p.err = "none" THEN Then(p) ELSE {p} : p \in P}

\* Mutant of sb_send_status: a second status line is not refused.
sb_send_status_again(o, code) == Push(o, Part("status", code), SENDING_HEADER)

sb_send_status(o, code) ==
  IF o.state = SENDING_STATUS THEN Push(o, Part("status", code), SENDING_HEADER) ELSE Bad(o)

\* A status line of 200 when the handler sent none.
WithStatus(o) == IF o.state < SENDING_HEADER THEN sb_send_status(o, "200") ELSE {o}

sb_send_header(o) ==
  IF o.state > SENDING_HEADER THEN Bad(o)
  ELSE AndThen(WithStatus(o), LAMBDA p : Push(p, Part("header", ""), p.state))

sb_stream_finalize_header(o) ==
  AndThen(WithStatus(o), LAMBDA p : Push(p, Part("blank", ""), SENDING_DATA))

sb_writef(o, text) ==
  AndThen(IF o.state < SENDING_DATA THEN sb_stream_finalize_header(o) ELSE {o},
          LAMBDA p : IF p.state = SENDING_DATA THEN Push(p, Part("body", text), p.state)
                     ELSE Bad(p))

\* A call that fails leaves its trace in trouble and nothing else: nobody looks at
\* the result of these calls.
Leave(o) ==
  /\ state' = o.state
  /\ sendBuf' = o.buf
  /\ trouble' = IF o.err = "memory" THEN trouble \union {"memory"} ELSE trouble

\* The next call, unless it is sb_send_file.
Respond ==
  /\ pc = "handler" /\ calls # <<>>
  /\ LET c == Head(calls)
     IN /\ c.fn # "file"
        /\ \E o \in CASE c.fn = "status" -> sb_send_status(Here, c.arg)
                      [] c.fn = "header" -> sb_send_header(Here)
                      [] c.fn = "writef" -> sb_writef(Here, c.arg) :
             Leave(o)
  /\ calls' = Tail(calls)
  /\ UNCHANGED <<pc, req, got, wire, sendFd, fds, promised>>

\* The file sb_send_file is to send, opened and measured.
HeaderForFile(o) == AndThen(sb_send_header(o), sb_stream_finalize_header)

\* Mutant of SendFile: a failed sb_send_file leaves the file open.
SendFileLeaks ==
  /\ pc = "handler" /\ calls # <<>>
  /\ Head(calls).fn = "file"
  /\ \/ \E n \in 0..MaxFile, o \in HeaderForFile(Here) :
          /\ fds' = fds + 1
          /\ IF o.err = "none"
               THEN /\ state' = SENDING_FILE /\ sendBuf' = o.buf
                    /\ sendFd' = n /\ promised' = n
                    /\ calls' = Tail(calls) /\ UNCHANGED trouble
               ELSE /\ Leave(o)
                    /\ calls' = kick_error("500") /\ UNCHANGED <<sendFd, promised>>
     \/ /\ "open" \in Failures
        /\ trouble' = trouble \union {"open"}
        /\ calls' = kick_error("500")
        /\ UNCHANGED <<state, sendBuf, sendFd, fds, promised>>
  /\ UNCHANGED <<pc, req, got, wire>>

\* sb_send_file: the file is opened again and its size announced.  It may be gone
\* since stat saw it; then, or when a header does not fit, handle_static goes on
\* with kick_error.
SendFile ==
  /\ pc = "handler" /\ calls # <<>>
  /\ Head(calls).fn = "file"
  /\ \/ \E n \in 0..MaxFile, o \in HeaderForFile(Here) :
          IF o.err = "none"
            THEN /\ state' = SENDING_FILE /\ sendBuf' = o.buf
                 /\ sendFd' = n /\ fds' = fds + 1 /\ promised' = n
                 /\ calls' = Tail(calls) /\ UNCHANGED trouble
            ELSE /\ Leave(o)
                 /\ calls' = kick_error("500") /\ UNCHANGED <<sendFd, fds, promised>>
     \/ /\ "open" \in Failures
        /\ trouble' = trouble \union {"open"}
        /\ calls' = kick_error("500")
        /\ UNCHANGED <<state, sendBuf, sendFd, fds, promised>>
  /\ UNCHANGED <<pc, req, got, wire>>

\* The handler returns SB_RES_OK, whatever it did.
HandlerReturns ==
  /\ pc = "handler" /\ calls = <<>>
  /\ pc' = "send"
  /\ UNCHANGED <<req, got, state, calls, sendBuf, wire, sendFd, fds, promised, trouble>>

-------------------------------------------------------------------------------
(* sb_stream_send *)

\* send takes some of the buffer.
SendSome ==
  /\ pc = "send" /\ sendBuf # <<>>
  /\ \E n \in 1..Len(sendBuf) :
       /\ wire' = wire \o SubSeq(sendBuf, 1, n)
       /\ sendBuf' = SubSeq(sendBuf, n + 1, Len(sendBuf))
  /\ UNCHANGED <<pc, req, got, state, calls, sendFd, fds, promised, trouble>>

\* send fails: the client is gone.
SendFails ==
  /\ pc = "send" /\ sendBuf # <<>>
  /\ state' = CLOSING
  /\ trouble' = trouble \union {"client"}
  /\ pc' = "destroy"
  /\ UNCHANGED <<req, got, calls, sendBuf, wire, sendFd, fds, promised>>

\* A chunk of the file is read into the empty buffer.
ReadChunk ==
  /\ pc = "send" /\ sendBuf = <<>>
  /\ sendFd > 0
  /\ sendBuf' = <<Part("file", "")>>
  /\ sendFd' = sendFd - 1
  /\ UNCHANGED <<pc, req, got, state, calls, wire, fds, promised, trouble>>

\* read fails.  Its -1 becomes the length of the buffer, the largest size_t there
\* is, which is not taken for the end of the file; send refuses such a length.
ReadFails ==
  /\ pc = "send" /\ sendBuf = <<>>
  /\ sendFd # None
  /\ "read" \in Failures
  /\ trouble' = trouble \union {"read"}
  /\ state' = CLOSING
  /\ pc' = "destroy"
  /\ UNCHANGED <<req, got, calls, sendBuf, wire, sendFd, fds, promised>>

\* There is no memory for the chunk buffer: sb_stream_send fails.
NoChunkBuffer ==
  /\ pc = "send" /\ sendBuf = <<>>
  /\ sendFd # None
  /\ "memory" \in Failures
  /\ trouble' = trouble \union {"memory"}
  /\ pc' = "destroy"
  /\ UNCHANGED <<req, got, state, calls, sendBuf, wire, sendFd, fds, promised>>

\* The file has been read to its end: it is closed.
EndOfFile ==
  /\ pc = "send" /\ sendBuf = <<>>
  /\ sendFd = 0
  /\ fds' = fds - 1
  /\ sendFd' = None
  /\ UNCHANGED <<pc, req, got, state, calls, sendBuf, wire, promised, trouble>>

\* Mutant of Finished: a file that is still to be read is not looked at.
FinishedEarly ==
  /\ pc = "send" /\ sendBuf = <<>>
  /\ state' = CLOSING
  /\ pc' = "destroy"
  /\ UNCHANGED <<req, got, calls, sendBuf, wire, sendFd, fds, promised, trouble>>

\* Mutant of Finished: only a response that was written is closed.
FinishedDataOnly ==
  /\ pc = "send" /\ sendBuf = <<>>
  /\ sendFd = None /\ state = SENDING_DATA
  /\ state' = CLOSING
  /\ pc' = "destroy"
  /\ UNCHANGED <<req, got, calls, sendBuf, wire, sendFd, fds, promised, trouble>>

\* Nothing is left to send.
Finished ==
  /\ pc = "send" /\ sendBuf = <<>>
  /\ sendFd = None
  /\ state' = CLOSING
  /\ pc' = "destroy"
  /\ UNCHANGED <<req, got, calls, sendBuf, wire, sendFd, fds, promised, trouble>>

\* sb_stream_destroy closes a file that is still open.
Destroy ==
  /\ pc = "destroy"
  /\ fds' = IF sendFd # None THEN fds - 1 ELSE fds
  /\ pc' = "done"
  /\ UNCHANGED <<req, got, state, calls, sendBuf, wire, sendFd, promised, trouble>>

Thread ==
  \/ Respond \/ SendFile \/ HandlerReturns
  \/ SendSome \/ SendFails \/ ReadChunk \/ ReadFails \/ NoChunkBuffer
  \/ EndOfFile \/ Finished \/ Destroy

Next == RecvHeader \/ RecvBody \/ RecvEnds \/ Thread

Spec == Init /\ [][Next]_vars

\* The thread runs, and a client that was answered reads the answer or goes away.
\* Nothing is assumed of clients that do not finish their request.
FairSpec == Spec /\ WF_vars(Thread)

-------------------------------------------------------------------------------
(* Properties *)

\* All of the response so far, sent or not.
Response == wire \o sendBuf

\* How many parts of a kind it has.
Count(kind) == Cardinality({i \in DOMAIN Response : Response[i].kind = kind})

\* Whatever fails, in whatever order the handlers call what they call, the response
\* is one of HTTP as far as it goes: one status line and it comes first, headers
\* before the one blank line, everything else after it.
ResponseGrammar ==
  \A i \in DOMAIN Response :
    LET before == {Response[j].kind : j \in 1..(i - 1)}
    IN CASE Response[i].kind = "status" -> before = {}
         [] Response[i].kind = "header" -> "status" \in before /\ before \subseteq {"status", "header"}
         [] Response[i].kind = "blank"  -> "status" \in before /\ before \subseteq {"status", "header"}
         [] OTHER                       -> "blank" \in before

\* An error reaches the client under its own status: the text of kick_error is not
\* sent under another one, as long as memory lasts and files can be opened.  A file that
\* handle_static cannot open after all has been answered with 200 by then: its error goes
\* out under that.
ErrorKeepsStatus ==
  trouble \intersect {"memory", "open"} = {} =>
    \A i \in DOMAIN Response :
      Response[i].kind = "body" =>
        \/ Response[i].text \in {"success", "code"} /\ Response[1].text = "200"
        \/ Response[i].text = Response[1].text

\* A request that is handled is answered whole: when the thread is done and nothing
\* went wrong, the client has the status line, the end of the headers (a preflight
\* aside) and a body, or as much of the file as was announced.
AnsweredWhole ==
  pc = "done" /\ trouble = {} /\ req.line =>
    /\ sendBuf = <<>>
    /\ Count("status") = 1
    /\ req.method # "OPTIONS" => Count("blank") = 1
    /\ IF promised # None THEN Count("file") = promised
       ELSE req.method # "OPTIONS" => Count("body") = 1

\* The stream stays sound, no descriptor is closed twice, every file that was opened is
\* closed once the connection is gone, and nothing is sent of a request that was not
\* understood.  After a failed read this rests on the kernel, which refuses to send
\* SIZE_MAX bytes (ReadFails).
ConnectionClean ==
  /\ TypeOK
  /\ pc = "done" => /\ fds = 0
                    /\ ~req.line => wire = <<>>

\* The thread of a request that was handled comes to its end, and with it the
\* stream.
HandledIsFinished == pc = "handler" ~> pc = "done"
===============================================================================
