--------------------------- MODULE HttpRequestProofs ---------------------------
(***************************************************************************)
(* Proofs about HttpRequest, for every MaxLen and ChunkSize: what TLC      *)
(* checks for lengths of up to three bytes holds for any.                  *)
(***************************************************************************)
EXTENDS HttpRequest, TLAPS

\* The handles a request holds are determined by where it is.
HandlesOf(p) ==
  IF p \in {"idle", "tpl", "return"} THEN {}
  ELSE IF p \in {"ssl", "conn", "deltpl"} THEN {"tpl"}
  ELSE IF p \in {"req", "delconn"} THEN {"tpl", "conn"}
  ELSE {"tpl", "conn", "req"}

\* The steps on the way to the answer, and those of the teardown.
Forward  == {"tpl", "ssl", "conn", "req", "hdr", "send", "code", "len", "cb", "alloc", "read"}
Teardown == {"delreq", "delconn", "deltpl", "return"}

\* A failure sends the request to its teardown at once.
StatusInv == pc \in Forward => status = "ok"

\* The TLS policy is the caller's, the template is given it before the connection
\* is created, and the connection keeps it.
PolicyInv ==
  /\ pc \in Forward /\ call.verify # "default" => policy = call.verify
  /\ pc = "conn" => (policy = "on" <=> checks = "on")
  /\ pc \in {"req", "hdr", "send", "code", "len", "cb", "alloc", "read"} =>
       (policy = "on" <=> connChecks = "on")

\* What is known of the answer when the callback has accepted it.
Accepted ==
  /\ is_good_status(answer.code)
  /\ WantPartial(call) => answer.start = call.offset
  /\ args.total <= call.size /\ args.total <= answer.len
  /\ args.cur <= args.total

\* The buffer: none before the callback allocates it, one byte larger than what is
\* read into it, and still there when a transfer that went well is torn down.
BufferInv ==
  /\ pc \in {"tpl", "ssl", "conn", "req", "hdr", "send", "code", "len", "cb"} => args = NoArgs
  /\ pc \in {"code", "len", "cb"} /\ answer.code = 206 /\ WantPartial(call) =>
       answer.start = call.offset
  /\ pc = "alloc" => args.buf = "none" /\ args.cur = 0 /\ Accepted
  /\ pc = "read" => args.buf = "live" /\ args.alloc = args.total + 1 /\ Accepted
  /\ pc \in Teardown => args.buf \in {"none", "live"}
  /\ pc \in Teardown /\ status = "ok" =>
       args.buf = "live" /\ args.len = answer.len /\ Accepted

\* What the inductive invariant is for.
Settled == SuccessIsHonest /\ BufferSettled

IInv ==
  /\ TypeOK
  /\ handles = HandlesOf(pc)
  /\ StatusInv
  /\ PolicyInv
  /\ BufferInv
  /\ Settled

-------------------------------------------------------------------------------

\* The amount to read is a length the callback can allocate.
LEMMA TotalSizeFits ==
  ASSUME NEW size \in 0..NoLen, NEW len \in 0..NoLen, ~(size = NoLen /\ len = NoLen)
  PROVE  /\ TotalSize(size, len) \in 0..MaxLen
         /\ TotalSize(size, len) <= size
         /\ TotalSize(size, len) <= len
BY SizeAssumption DEF TotalSize, NoLen

\* A chunk never reaches beyond what is to be read.
LEMMA ChunkFits ==
  ASSUME NEW total \in Nat, NEW cur \in Nat, cur < total,
         NEW n \in 1..Smaller(ChunkSize, total - cur)
  PROVE  cur + n \in Nat /\ cur + n <= total
BY SizeAssumption DEF Smaller

\* The initial state satisfies the inductive invariant.
LEMMA InitIInv == Init => IInv
<1>. SUFFICES ASSUME Init PROVE IInv
  OBVIOUS
<1>1. TypeOK
  BY SizeAssumption DEF Init, TypeOK, Modes, Calls, NoLen, NoAnswer, NoArgs, NoResult, Steps
<1>2. handles = HandlesOf(pc)
  BY DEF Init, HandlesOf
<1>3. StatusInv /\ PolicyInv /\ BufferInv
  BY DEF Init, StatusInv, PolicyInv, BufferInv, Forward, Teardown
<1>4. Settled
  BY DEF Init, Settled, SuccessIsHonest, BufferSettled, NoResult
<1>. QED
  BY <1>1, <1>2, <1>3, <1>4 DEF IInv

\* Every step preserves the inductive invariant.
LEMMA StepIInv == IInv /\ [Next]_vars => IInv'
<1>. SUFFICES ASSUME IInv, [Next]_vars PROVE IInv'
  OBVIOUS
<1>. USE DEF IInv
<1>1. CASE SetSslVerify
  <2>1. TypeOK'
    BY <1>1 DEF SetSslVerify, TypeOK
  <2>2. (handles = HandlesOf(pc))' /\ StatusInv'
    BY <1>1 DEF SetSslVerify, HandlesOf, StatusInv
  <2>3. PolicyInv'
    BY <1>1 DEF SetSslVerify, PolicyInv
  <2>4. BufferInv'
    BY <1>1 DEF SetSslVerify, BufferInv, Accepted, WantPartial
  <2>5. Settled'
    BY <1>1 DEF SetSslVerify, Settled, SuccessIsHonest, BufferSettled, WantPartial
  <2>. QED
    BY <2>1, <2>2, <2>3, <2>4, <2>5
<1>2. CASE Begin
  <2>. USE <1>2
  <2>1. PICK c \in Calls : call' = c /\ policy' = (IF c.verify = "default" THEN mode ELSE c.verify)
    BY DEF Begin
  <2>2. TypeOK'
    <3>1. policy' \in Modes
      BY <2>1 DEF TypeOK, Calls, Modes
    <3>. QED
      BY <2>1, <3>1, SizeAssumption DEF Begin, TypeOK, Steps, NoLen, NoAnswer, NoArgs, NoResult
  <2>3. (handles = HandlesOf(pc))' /\ StatusInv'
    BY DEF Begin, HandlesOf, StatusInv
  <2>4. PolicyInv'
    BY <2>1 DEF Begin, PolicyInv, Forward
  <2>5. BufferInv' /\ Settled'
    BY DEF Begin, BufferInv, Settled, SuccessIsHonest, BufferSettled, Teardown
  <2>. QED
    BY <2>2, <2>3, <2>4, <2>5
<1>3. CASE CreateTemplate
  <2>. USE <1>3
  <2>1. TypeOK'
    BY DEF CreateTemplate, Fail, TypeOK, Steps, Failures
  <2>2. (handles = HandlesOf(pc))' /\ StatusInv' /\ PolicyInv'
    BY DEF CreateTemplate, Fail, HandlesOf, StatusInv, PolicyInv, Forward
  <2>3. BufferInv' /\ Settled'
    BY DEF CreateTemplate, Fail, BufferInv, NoArgs, Settled, SuccessIsHonest, BufferSettled, Teardown
  <2>. QED
    BY <2>1, <2>2, <2>3
<1>4. CASE ApplySslOptions
  <2>. USE <1>4
  <2>1. TypeOK'
    BY DEF ApplySslOptions, Fail, TypeOK, Steps, Failures
  <2>2. (handles = HandlesOf(pc))' /\ StatusInv' /\ PolicyInv'
    BY DEF ApplySslOptions, Fail, HandlesOf, StatusInv, PolicyInv, Forward, TypeOK, Modes
  <2>3. BufferInv' /\ Settled'
    BY DEF ApplySslOptions, Fail, BufferInv, NoArgs, Settled, SuccessIsHonest, BufferSettled, Teardown
  <2>. QED
    BY <2>1, <2>2, <2>3
<1>5. CASE CreateConnection
  <2>. USE <1>5
  <2>1. TypeOK'
    BY DEF CreateConnection, Fail, TypeOK, Steps, Failures
  <2>2. (handles = HandlesOf(pc))' /\ StatusInv' /\ PolicyInv'
    BY DEF CreateConnection, Fail, HandlesOf, StatusInv, PolicyInv, Forward
  <2>3. BufferInv' /\ Settled'
    BY DEF CreateConnection, Fail, BufferInv, NoArgs, Settled, SuccessIsHonest, BufferSettled, Teardown
  <2>. QED
    BY <2>1, <2>2, <2>3
<1>6. CASE CreateRequest
  <2>. USE <1>6
  <2>1. TypeOK'
    BY DEF CreateRequest, Fail, TypeOK, Steps, Failures
  <2>2. (handles = HandlesOf(pc))' /\ StatusInv' /\ PolicyInv'
    BY DEF CreateRequest, Fail, HandlesOf, StatusInv, PolicyInv, Forward
  <2>3. BufferInv' /\ Settled'
    BY DEF CreateRequest, Fail, BufferInv, NoArgs, Settled, SuccessIsHonest, BufferSettled, Teardown
  <2>. QED
    BY <2>1, <2>2, <2>3
<1>7. CASE AddHeaders
  <2>. USE <1>7
  <2>1. TypeOK'
    BY DEF AddHeaders, Fail, TypeOK, Steps, Failures
  <2>2. (handles = HandlesOf(pc))' /\ StatusInv' /\ PolicyInv'
    BY DEF AddHeaders, Fail, HandlesOf, StatusInv, PolicyInv, Forward
  <2>3. BufferInv' /\ Settled'
    BY DEF AddHeaders, Fail, BufferInv, NoArgs, Settled, SuccessIsHonest, BufferSettled, Teardown
  <2>. QED
    BY <2>1, <2>2, <2>3
<1>8. CASE SendRequest
  <2>1. CASE pc' = "delreq"
    <3>1. /\ pc = "send" /\ pc' = "delreq" /\ status' = "send"
          /\ UNCHANGED <<mode, call, policy, checks, handles, connChecks, answer, args, result>>
      BY <1>8, <2>1 DEF SendRequest, Fail
    <3>2. TypeOK' /\ (handles = HandlesOf(pc))' /\ StatusInv' /\ PolicyInv'
      BY <3>1 DEF TypeOK, Steps, Failures, HandlesOf, StatusInv, PolicyInv, Forward
    <3>3. BufferInv' /\ Settled'
      BY <3>1 DEF BufferInv, NoArgs, Settled, SuccessIsHonest, BufferSettled, Teardown
    <3>. QED
      BY <3>2, <3>3
  <2>2. CASE pc' # "delreq"
    <3>1. PICK code \in {200, 206, 404} :
            answer' = [code |-> code, len |-> answer.len,
                       start |-> IF code = 206 /\ WantPartial(call) THEN call.offset ELSE 0]
      BY <1>8, <2>2 DEF SendRequest, Fail
    <3>2. /\ pc = "send" /\ pc' = "code"
          /\ UNCHANGED <<mode, call, policy, checks, handles, connChecks, status, args, result>>
      BY <1>8, <2>2 DEF SendRequest, Fail
    <3>3. call.offset \in 0..MaxLen /\ 0 \in 0..MaxLen
      BY SizeAssumption DEF TypeOK, Calls
    <3>4. answer' \in [code : {0, 200, 206, 404}, len : 0..NoLen, start : 0..MaxLen]
      BY <3>1, <3>3 DEF TypeOK
    <3>5. TypeOK' /\ (handles = HandlesOf(pc))' /\ StatusInv' /\ PolicyInv'
      BY <3>2, <3>4 DEF TypeOK, Steps, HandlesOf, StatusInv, PolicyInv, Forward
    <3>6. answer'.code = 206 /\ WantPartial(call) => answer'.start = call.offset
      BY <3>1 DEF TypeOK
    <3>7. BufferInv'
      BY <3>2, <3>6 DEF BufferInv, WantPartial, Teardown
    <3>8. Settled'
      BY <3>2 DEF Settled, SuccessIsHonest, BufferSettled
    <3>. QED
      BY <3>5, <3>7, <3>8
  <2>. QED
    BY <2>1, <2>2
<1>9. CASE GetStatusCode
  <2>. USE <1>9
  <2>1. TypeOK'
    BY DEF GetStatusCode, Fail, TypeOK, Steps, Failures
  <2>2. (handles = HandlesOf(pc))' /\ StatusInv' /\ PolicyInv'
    BY DEF GetStatusCode, Fail, HandlesOf, StatusInv, PolicyInv, Forward
  <2>3. BufferInv' /\ Settled'
    BY DEF GetStatusCode, Fail, BufferInv, NoArgs, Settled, SuccessIsHonest, BufferSettled, Teardown,
           WantPartial
  <2>. QED
    BY <2>1, <2>2, <2>3
<1>10. CASE GetContentLength
  <2>. USE <1>10
  <2>1. TypeOK'
    BY DEF GetContentLength, Fail, TypeOK, Steps, Failures
  <2>2. (handles = HandlesOf(pc))' /\ StatusInv' /\ PolicyInv'
    BY DEF GetContentLength, Fail, HandlesOf, StatusInv, PolicyInv, Forward
  <2>3. BufferInv' /\ Settled'
    BY DEF GetContentLength, Fail, BufferInv, NoArgs, Settled, SuccessIsHonest, BufferSettled, Teardown,
           WantPartial, TypeOK
  <2>. QED
    BY <2>1, <2>2, <2>3
<1>11. CASE CheckAnswer
  <2>. USE <1>11
  <2>1. CASE pc' = "delreq"
    <3>1. TypeOK'
      BY <2>1 DEF CheckAnswer, Fail, TypeOK, Steps, Failures
    <3>2. (handles = HandlesOf(pc))' /\ StatusInv' /\ PolicyInv'
      BY <2>1 DEF CheckAnswer, Fail, HandlesOf, StatusInv, PolicyInv, Forward
    <3>3. BufferInv' /\ Settled'
      BY <2>1 DEF CheckAnswer, Fail, BufferInv, NoArgs, Settled, SuccessIsHonest, BufferSettled,
                  Teardown
    <3>. QED
      BY <3>1, <3>2, <3>3
  <2>2. CASE pc' # "delreq"
    <3>1. /\ pc = "cb" /\ pc' = "alloc"
          /\ is_good_status(answer.code) /\ ~RangeIgnored /\ ~LengthUnknown
          /\ args' = [args EXCEPT !.total = TotalSize(call.size, answer.len)]
          /\ UNCHANGED <<mode, call, policy, checks, handles, connChecks, status, answer, result>>
      BY <2>2 DEF CheckAnswer, Fail
    <3>2. /\ TotalSize(call.size, answer.len) \in 0..MaxLen
          /\ TotalSize(call.size, answer.len) <= call.size
          /\ TotalSize(call.size, answer.len) <= answer.len
      <4>1. call.size \in 0..NoLen /\ answer.len \in 0..NoLen
        BY DEF TypeOK, Calls
      <4>2. ~(call.size = NoLen /\ answer.len = NoLen)
        BY <3>1 DEF LengthUnknown
      <4>. QED
        BY <4>1, <4>2, TotalSizeFits
    <3>3. args = NoArgs
      BY <3>1 DEF BufferInv
    <3>4. args' = [NoArgs EXCEPT !.total = TotalSize(call.size, answer.len)]
      BY <3>1, <3>3
    <3>5. TypeOK'
      BY <3>1, <3>2 DEF TypeOK, Steps
    <3>6. (handles = HandlesOf(pc))' /\ StatusInv' /\ PolicyInv'
      BY <3>1 DEF HandlesOf, StatusInv, PolicyInv, Forward
    <3>7. Accepted' /\ (args.buf = "none" /\ args.cur = 0)'
      <4>1. args'.buf = "none" /\ args'.cur = 0 /\ args'.total = TotalSize(call.size, answer.len)
        BY <3>4 DEF NoArgs
      <4>2. WantPartial(call) => answer.start = call.offset
        BY <3>1 DEF RangeIgnored, BufferInv
      <4>. QED
        BY <3>1, <3>2, <4>1, <4>2 DEF Accepted, WantPartial
    <3>8. BufferInv'
      BY <3>1, <3>7 DEF BufferInv, Teardown
    <3>9. Settled'
      BY <3>1 DEF Settled, SuccessIsHonest, BufferSettled
    <3>. QED
      BY <3>5, <3>6, <3>8, <3>9
  <2>. QED
    BY <2>1, <2>2
<1>12. CASE Allocate
  <2>1. CASE pc' = "delreq"
    <3>1. /\ pc = "alloc" /\ status' = "oom" /\ args' = [args EXCEPT !.len = answer.len]
          /\ UNCHANGED <<mode, call, policy, checks, handles, connChecks, answer, result>>
      BY <1>12, <2>1 DEF Allocate
    <3>2. TypeOK' /\ (handles = HandlesOf(pc))' /\ StatusInv' /\ PolicyInv'
      BY <2>1, <3>1 DEF TypeOK, Steps, Failures, HandlesOf, StatusInv, PolicyInv, Forward
    <3>3. args'.buf = "none"
      BY <3>1 DEF BufferInv, TypeOK
    <3>4. BufferInv' /\ Settled'
      BY <2>1, <3>1, <3>3 DEF BufferInv, Settled, SuccessIsHonest, BufferSettled, Teardown
    <3>. QED
      BY <3>2, <3>4
  <2>2. CASE pc' # "delreq"
    <3>1. /\ pc = "alloc" /\ pc' = "read"
          /\ args' = [args EXCEPT !.buf = "live", !.alloc = args.total + 1]
          /\ UNCHANGED <<mode, call, policy, checks, handles, connChecks, status, answer, result>>
      BY <1>12, <2>2 DEF Allocate
    <3>2. args.total + 1 \in 0..NoLen
      BY SizeAssumption DEF TypeOK, NoLen
    <3>3. TypeOK' /\ (handles = HandlesOf(pc))' /\ StatusInv' /\ PolicyInv'
      BY <3>1, <3>2, ZenonT(40) DEF TypeOK, Steps, HandlesOf, StatusInv, PolicyInv, Forward
    <3>4. /\ args'.buf = "live" /\ args'.alloc = args'.total + 1
          /\ args'.total = args.total /\ args'.cur = args.cur
      BY <3>1 DEF TypeOK
    <3>5. BufferInv' /\ Settled'
      BY <3>1, <3>4 DEF BufferInv, Settled, SuccessIsHonest, BufferSettled, Teardown, Accepted, WantPartial
    <3>. QED
      BY <3>3, <3>5
  <2>. QED
    BY <2>1, <2>2
<1>13. CASE ReadData
  <2>. USE <1>13
  <2>1. CASE pc' = "delreq"
    <3>1. TypeOK'
      BY <2>1 DEF ReadData, Fail, TypeOK, Steps, Failures
    <3>2. (handles = HandlesOf(pc))' /\ StatusInv' /\ PolicyInv'
      BY <2>1 DEF ReadData, Fail, HandlesOf, StatusInv, PolicyInv, Forward
    <3>3. BufferInv' /\ Settled'
      BY <2>1 DEF ReadData, Fail, BufferInv, Settled, SuccessIsHonest, BufferSettled, Teardown,
                  Accepted, WantPartial, TypeOK
    <3>. QED
      BY <3>1, <3>2, <3>3
  <2>2. CASE pc' # "delreq"
    <3>1. PICK n \in 1..ChunkLimit :
            /\ pc = "read" /\ args.cur < args.total
            /\ args' = [args EXCEPT !.cur = args.cur + n]
            /\ UNCHANGED <<mode, pc, call, policy, checks, handles, connChecks, status, answer, result>>
      BY <2>2 DEF ReadData, Fail
    <3>2. args.cur + n \in Nat /\ args.cur + n <= args.total
      <4>1. args.total \in Nat /\ args.cur \in Nat
        BY DEF TypeOK
      <4>. QED
        BY <3>1, <4>1, ChunkFits DEF ChunkLimit
    <3>3. TypeOK'
      BY <3>1, <3>2, SizeAssumption DEF TypeOK
    <3>4. (handles = HandlesOf(pc))' /\ StatusInv' /\ PolicyInv'
      BY <3>1 DEF HandlesOf, StatusInv, PolicyInv
    <3>5. BufferInv' /\ Settled'
      BY <3>1, <3>2 DEF BufferInv, Settled, SuccessIsHonest, BufferSettled, Teardown, Accepted,
                        WantPartial, TypeOK
    <3>. QED
      BY <3>3, <3>4, <3>5
  <2>. QED
    BY <2>1, <2>2
<1>14. CASE DeleteRequest \/ DeleteConnection \/ DeleteTemplate
  <2>. USE <1>14 DEF DeleteRequest, DeleteConnection, DeleteTemplate, Delete
  <2>1. TypeOK'
    BY DEF TypeOK, Steps
  <2>2. (handles = HandlesOf(pc))' /\ StatusInv' /\ PolicyInv'
    BY DEF HandlesOf, StatusInv, PolicyInv, Forward
  <2>3. BufferInv' /\ Settled'
    BY DEF BufferInv, Settled, SuccessIsHonest, BufferSettled, Teardown, Accepted, WantPartial
  <2>. QED
    BY <2>1, <2>2, <2>3
<1>15. CASE Return
  <2>. USE <1>15
  <2>1. PICK ok \in BOOLEAN :
          /\ ok <=> (status = "ok" /\ (call.kind = "size" => args.len # NoLen))
          /\ result' = IF ok THEN [ok |-> TRUE, size |-> args.cur, total |-> args.len,
                                   start |-> answer.start]
                       ELSE NoResult
          /\ args' = [args EXCEPT !.buf = IF call.kind = "size" \/ args.buf = "none" THEN args.buf
                                          ELSE IF ok THEN "given" ELSE "freed"]
    BY DEF Return
  <2>2. pc = "return" /\ pc' = "idle"
        /\ UNCHANGED <<mode, call, policy, checks, handles, connChecks, status, answer>>
    BY DEF Return
  <2>3. TypeOK'
    BY <2>1, <2>2, SizeAssumption DEF TypeOK, NoResult, NoLen
  <2>4. (handles = HandlesOf(pc))' /\ StatusInv' /\ PolicyInv' /\ BufferInv'
    BY <2>2 DEF HandlesOf, StatusInv, PolicyInv, BufferInv, Forward, Teardown
  <2>5. Settled'
    <3>1. CASE ok
      <4>1. Accepted /\ args.buf = "live" /\ args.len = answer.len
        BY <2>1, <2>2, <3>1 DEF BufferInv, Teardown
      <4>2. result' = [ok |-> TRUE, size |-> args.cur, total |-> args.len, start |-> answer.start]
        BY <2>1, <3>1
      <4>3. SuccessIsHonest'
        BY <2>1, <2>2, <3>1, <4>1, <4>2 DEF SuccessIsHonest, Accepted, WantPartial, TypeOK, Calls, NoLen
      <4>4. BufferSettled'
        BY <2>1, <2>2, <3>1, <4>1, <4>2 DEF BufferSettled, TypeOK, Calls
      <4>. QED
        BY <4>3, <4>4 DEF Settled
    <3>2. CASE ~ok
      BY <2>1, <2>2, <3>2 DEF Settled, SuccessIsHonest, BufferSettled, NoResult, BufferInv, Teardown,
                              TypeOK, Calls
    <3>. QED
      BY <3>1, <3>2
  <2>. QED
    BY <2>3, <2>4, <2>5
<1>16. CASE UNCHANGED vars
  <2>1. TypeOK' /\ (handles = HandlesOf(pc))' /\ StatusInv' /\ PolicyInv'
    BY <1>16 DEF vars, TypeOK, HandlesOf, StatusInv, PolicyInv
  <2>2. BufferInv' /\ Settled'
    BY <1>16 DEF vars, BufferInv, Accepted, WantPartial, Settled, SuccessIsHonest, BufferSettled
  <2>. QED
    BY <2>1, <2>2
<1>. QED
  BY <1>1, <1>2, <1>3, <1>4, <1>5, <1>6, <1>7, <1>8, <1>9, <1>10, <1>11, <1>12, <1>13,
     <1>14, <1>15, <1>16 DEF Next

-------------------------------------------------------------------------------

\* Every reachable state of a request satisfies the inductive invariant.
THEOREM Invariant == Spec => []IInv
BY InitIInv, StepIInv, PTL DEF Spec

\* Type correctness.
THEOREM TypeCorrect == Spec => []TypeOK
BY Invariant, PTL DEF IInv

\* However do_request's calls fail, its ladder of labels releases every handle it
\* created, once, the inner ones first.
THEOREM HandlesReleased == Spec => []HandlesNest
<1>1. IInv => HandlesNest
  BY DEF IInv, HandlesOf, HandlesNest
<1>. QED
  BY <1>1, Invariant, PTL

\* A request that is to be verified never reaches a server over a connection whose
\* checks are not armed.
THEOREM NeverUnchecked == Spec => []FailClosed
<1>1. IInv => FailClosed
  BY DEF IInv, PolicyInv, Forward, FailClosed
<1>. QED
  BY <1>1, Invariant, PTL

\* A successful download delivers nothing but bytes that were asked for, for every
\* length, offset and chunk size.
THEOREM HonestSuccess == Spec => []SuccessIsHonest
<1>1. IInv => SuccessIsHonest
  BY DEF IInv, Settled
<1>. QED
  BY <1>1, Invariant, PTL

\* The read loop stays inside the buffer and leaves room for the terminator.
THEOREM NoOverrun == Spec => []ReadInBounds
<1>1. IInv => ReadInBounds
  BY DEF IInv, BufferInv, Accepted, TypeOK, ReadInBounds
<1>. QED
  BY <1>1, Invariant, PTL

\* http_download_file leaks no buffer.
THEOREM NoBufferLeak == Spec => []BufferSettled
<1>1. IInv => BufferSettled
  BY DEF IInv, Settled
<1>. QED
  BY <1>1, Invariant, PTL

\* The teardown never replaces the error of the step that failed.
THEOREM ErrorKept == Spec => FailureSticks
<1>1. IInv /\ [Next]_vars => [pc # "idle" /\ status # "ok" => status' = status]_vars
  <2>. SUFFICES ASSUME IInv, [Next]_vars, pc # "idle", status # "ok"
                PROVE  status' = status
    OBVIOUS
  <2>1. pc \in Teardown
    BY DEF IInv, StatusInv, TypeOK, Steps, Forward, Teardown
  <2>2. CASE Next
    BY <2>1, <2>2 DEF Teardown, Next, SetSslVerify, Begin, CreateTemplate, ApplySslOptions,
       CreateConnection, CreateRequest, AddHeaders, SendRequest, GetStatusCode, GetContentLength,
       CheckAnswer, Allocate, ReadData, DeleteRequest, DeleteConnection, DeleteTemplate, Delete, Return
  <2>3. CASE UNCHANGED vars
    BY <2>3 DEF vars
  <2>. QED
    BY <2>2, <2>3
<1>. QED
  BY <1>1, Invariant, PTL DEF Spec, FailureSticks

-------------------------------------------------------------------------------
(* The end of a request *)

\* How many library calls a request can still make.
CallsLeft ==
  CASE pc = "tpl"     -> MaxLen + 15
    [] pc = "ssl"     -> MaxLen + 14
    [] pc = "conn"    -> MaxLen + 13
    [] pc = "req"     -> MaxLen + 12
    [] pc = "hdr"     -> MaxLen + 11
    [] pc = "send"    -> MaxLen + 10
    [] pc = "code"    -> MaxLen + 9
    [] pc = "len"     -> MaxLen + 8
    [] pc = "cb"      -> MaxLen + 7
    [] pc = "alloc"   -> MaxLen + 6
    [] pc = "read"    -> args.total - args.cur + 5
    [] pc = "delreq"  -> 4
    [] pc = "delconn" -> 3
    [] pc = "deltpl"  -> 2
    [] pc = "return"  -> 1
    [] OTHER          -> 0

\* A request's own steps bring it nearer to its end, and a change of the mode does not take
\* it back.
Shortens ==
  /\ CallsLeft \in 0..(MaxLen + 15)
  /\ pc # "idle" => \/ CallsLeft' < CallsLeft
                    \/ SetSslVerify /\ CallsLeft' = CallsLeft

\* download_file_cb's loop reads something each time or ends, so that a request makes at
\* most MaxLen + 15 library calls, whatever the server answers and whatever fails.
THEOREM RequestShortens == Spec => [][Shortens]_vars
<1>1. ASSUME IInv
      PROVE  /\ MaxLen \in Nat /\ args.total \in 0..MaxLen /\ args.cur \in 0..MaxLen
             /\ pc = "read" => args.cur <= args.total
             /\ pc = "alloc" => args.cur = 0
             /\ pc \in Steps \union {"idle"}
  BY <1>1, SizeAssumption DEF IInv, TypeOK, BufferInv, Accepted
<1>2. ASSUME IInv PROVE CallsLeft \in 0..(MaxLen + 15)
  <2>1. CASE pc = "read"
    <3>1. CallsLeft = args.total - args.cur + 5
      BY <2>1 DEF CallsLeft
    <3>. QED
      BY <1>1, <1>2, <2>1, <3>1
  <2>2. CASE pc # "read"
    <3>1. \A n \in {0, 1, 2, 3, 4, MaxLen + 6, MaxLen + 7, MaxLen + 8, MaxLen + 9, MaxLen + 10,
                   MaxLen + 11, MaxLen + 12, MaxLen + 13, MaxLen + 14, MaxLen + 15} :
            n \in 0..(MaxLen + 15)
      BY SizeAssumption
    <3>2. CallsLeft \in {0, 1, 2, 3, 4, MaxLen + 6, MaxLen + 7, MaxLen + 8, MaxLen + 9,
                         MaxLen + 10, MaxLen + 11, MaxLen + 12, MaxLen + 13, MaxLen + 14,
                         MaxLen + 15}
      BY <2>2 DEF CallsLeft
    <3>. QED
      BY <3>1, <3>2
  <2>. QED
    BY <2>1, <2>2
<1>3. ASSUME IInv, Next, pc # "idle"
      PROVE  CallsLeft' < CallsLeft \/ (SetSslVerify /\ CallsLeft' = CallsLeft)
  <2>1. CASE SetSslVerify
    BY <2>1 DEF SetSslVerify, CallsLeft
  <2>2. CASE CreateTemplate \/ ApplySslOptions \/ CreateConnection \/ CreateRequest
    BY <1>1, <1>3, <2>2 DEF CreateTemplate, ApplySslOptions, CreateConnection, CreateRequest, Fail,
                            CallsLeft
  <2>3. CASE AddHeaders \/ SendRequest \/ GetStatusCode \/ GetContentLength
    BY <1>1, <1>3, <2>3 DEF AddHeaders, SendRequest, GetStatusCode, GetContentLength, Fail,
                            CallsLeft
  <2>4. CASE CheckAnswer
    BY <1>1, <1>3, <2>4 DEF CheckAnswer, Fail, CallsLeft
  <2>5. CASE Allocate
    <3>1. /\ pc = "alloc" /\ CallsLeft = MaxLen + 6
          /\ \/ pc' = "delreq"
             \/ pc' = "read" /\ args' = [args EXCEPT !.buf = "live", !.alloc = args.total + 1]
      BY <2>5 DEF Allocate, CallsLeft
    <3>2. CASE pc' = "delreq"
      BY <1>1, <1>3, <3>1, <3>2 DEF CallsLeft
    <3>3. CASE pc' # "delreq"
      <4>1. args'.total = args.total /\ args'.cur = args.cur
        <5>1. args' = [args EXCEPT !.buf = "live", !.alloc = args.total + 1]
          BY <3>1, <3>3
        <5>2. args \in [total : 0..MaxLen, cur : 0..MaxLen, alloc : 0..NoLen,
                        buf : {"none", "live", "freed", "given"}, len : 0..NoLen]
          BY <1>3 DEF IInv, TypeOK
        <5>. QED
          BY <5>1, <5>2
      <4>2. CallsLeft' = args.total - args.cur + 5
        BY <3>1, <3>3, <4>1 DEF CallsLeft
      <4>. QED
        BY <1>1, <1>3, <3>1, <4>2
    <3>. QED
      BY <3>2, <3>3
  <2>6. CASE ReadData
    <3>1. pc = "read" /\ CallsLeft = args.total - args.cur + 5
      BY <2>6 DEF ReadData, CallsLeft
    <3>2. CASE pc' = "delreq"
      BY <1>1, <1>3, <3>1, <3>2 DEF CallsLeft
    <3>3. CASE pc' # "delreq"
      <4>1. pc' = pc /\ args.cur < args.total
            /\ \E n \in 1..ChunkLimit : args' = [args EXCEPT !.cur = args.cur + n]
        BY <2>6, <3>3 DEF ReadData, Fail
      <4>2. PICK n \in 1..ChunkLimit : args' = [args EXCEPT !.cur = args.cur + n]
        BY <4>1
      <4>3. n \in Nat \ {0}
        BY <1>1, <1>3, <4>1, SizeAssumption DEF ChunkLimit, Smaller
      <4>4. args'.total = args.total /\ args'.cur = args.cur + n
        BY <1>3, <4>2 DEF IInv, TypeOK
      <4>5. CallsLeft' = args.total - (args.cur + n) + 5
        BY <3>1, <4>1, <4>4 DEF CallsLeft
      <4>. QED
        BY <1>1, <1>3, <3>1, <4>3, <4>5
    <3>. QED
      BY <3>2, <3>3
  <2>7. CASE DeleteRequest \/ DeleteConnection \/ DeleteTemplate \/ Return
    BY <2>7 DEF DeleteRequest, DeleteConnection, DeleteTemplate, Delete, Return, CallsLeft
  <2>8. ~Begin
    BY <1>3 DEF Begin
  <2>. QED
    BY <1>3, <2>1, <2>2, <2>3, <2>4, <2>5, <2>6, <2>7, <2>8 DEF Next
<1>4. IInv /\ [Next]_vars => [Shortens]_vars
  BY <1>2, <1>3 DEF Shortens
<1>. QED
  BY <1>4, Invariant, PTL DEF Spec
=================================================================================
