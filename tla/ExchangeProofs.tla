----------------------------- MODULE ExchangeProofs -----------------------------
(***************************************************************************)
(* Proofs about Exchange, for bodies, files and query strings of any size  *)
(* and for every set of failures: a response is one of HTTP as far as it   *)
(* goes, an error keeps its status, a request that meets no trouble is     *)
(* answered whole, and a connection leaves no descriptor open.             *)
(*                                                                         *)
(* Phase ties the state of the stream to what was written: it holds        *)
(* whatever fails.  Form follows the calls of a handler one by one: it     *)
(* holds as long as memory lasts and files can be opened.  At the end,     *)
(* every step of a connection brings it nearer to its end.                 *)
(***************************************************************************)
EXTENDS Exchange, SequenceTheorems, FiniteSetTheorems, TLAPS

-------------------------------------------------------------------------------
(* Responses *)

\* A status line and headers.
HeadersOpen(r) ==
  /\ Len(r) > 0 /\ r[1].kind = "status"
  /\ \A i \in 2..Len(r) : r[i].kind = "header"

\* ... the blank line, and what follows it.
HeadersDone(r) ==
  \E b \in 2..Len(r) :
    /\ r[1].kind = "status" /\ r[b].kind = "blank"
    /\ \A i \in 2..(b - 1) : r[i].kind = "header"
    /\ \A i \in (b + 1)..Len(r) : r[i].kind \in {"body", "file"}

Grammar(r) == r = <<>> \/ HeadersOpen(r) \/ HeadersDone(r)

\* What the state of the stream says of the response.
Phase(s, r) ==
  /\ s <= SENDING_STATUS => r = <<>>
  /\ s = SENDING_HEADER => HeadersOpen(r)
  /\ s \in {SENDING_DATA, SENDING_FILE} => HeadersDone(r)
  /\ s = CLOSING => Grammar(r)

\* The text of an answer under the status it may have.
Fits(code, text) == text = code \/ (text \in {"success", "code"} /\ code = "200")

\* The headers end at b.
HeadersAt(r, b) ==
  /\ b \in 2..Len(r)
  /\ r[1].kind = "status" /\ r[b].kind = "blank"
  /\ \A i \in 2..(b - 1) : r[i].kind = "header"

\* A response with the one body that sb_writef wrote.
Bodied(r) ==
  \E b \in 2..Len(r) :
    /\ HeadersAt(r, b) /\ Len(r) = b + 1
    /\ r[b + 1].kind = "body" /\ Fits(r[1].text, r[b + 1].text)

\* A response with k chunks of a file.
Filed(r, k) ==
  \E b \in 2..Len(r) :
    /\ HeadersAt(r, b) /\ Len(r) = b + k
    /\ \A i \in (b + 1)..Len(r) : r[i].kind = "file"

-------------------------------------------------------------------------------
(* The invariant *)

\* The calls a handler can make.
GoodCalls == {c \in [fn : {"status", "header", "writef", "file"},
                     arg : Texts \union {"cors", "close", "type"}] :
                c.fn \in {"status", "writef"} => c.arg \in Texts}

\* What the states of the thread have in common, whatever failed.
Stream ==
  /\ pc = "recv" =>
       /\ state \in {RECEIVING_HEADER, RECEIVING_REQUEST}
       /\ IF state = RECEIVING_HEADER THEN got = 0 ELSE got < req.len
       /\ sendBuf = <<>> /\ sendFd = None /\ promised = None
  /\ pc \in {"handler", "send"} =>
       /\ req.line /\ state \in SENDING_STATUS..SENDING_FILE
       /\ sendFd # None => state = SENDING_FILE
  /\ pc \in {"recv", "handler"} => wire = <<>>
  /\ ~req.line => wire = <<>> /\ sendBuf = <<>>
  /\ fds = IF pc = "done" \/ sendFd = None THEN 0 ELSE 1

\* The calls that are left once the status line is out: headers, and at the end what
\* the request is answered with.  A preflight has headers only.
Rest(m, c, code) ==
  /\ \A i \in 1..(Len(c) - 1) : c[i].fn = "header"
  /\ IF m = "OPTIONS"
       THEN c # <<>> => c[Len(c)].fn = "header"
       ELSE /\ c # <<>>
            /\ \/ c[Len(c)].fn = "writef" /\ Fits(code, c[Len(c)].arg)
               \/ c[Len(c)].fn = "file"

\* A whole answer: to a preflight, with a body, or with a file that is being sent.
Answer(s) ==
  LET r == Response
  IN \/ s = SENDING_HEADER /\ req.method = "OPTIONS" /\ HeadersOpen(r)
        /\ sendFd = None /\ promised = None
     \/ s = SENDING_DATA /\ Bodied(r) /\ sendFd = None /\ promised = None
     \/ s = SENDING_FILE /\ promised # None
        /\ \/ sendFd = None /\ Filed(r, promised)
           \/ sendFd # None /\ sendFd <= promised /\ Filed(r, promised - sendFd)

\* How far a handler has come: before its status line, among its headers, or done.
Handling ==
  \/ /\ sendFd = None /\ promised = None
     /\ \E code \in Texts :
          \/ /\ state = SENDING_STATUS
             /\ calls # <<>> /\ Head(calls).fn = "status" /\ Head(calls).arg = code
             /\ Rest(req.method, Tail(calls), code)
          \/ /\ state = SENDING_HEADER
             /\ sendBuf[1].text = code /\ Rest(req.method, calls, code)
  \/ calls = <<>> /\ Answer(state)

\* Memory lasted, and files could be opened.
Untroubled == trouble \intersect {"memory", "open"} = {}

\* The answer, as long as that holds.
Form ==
  Untroubled =>
    /\ pc = "handler" => Handling
    /\ pc = "send" => Answer(state)
    /\ pc \in {"destroy", "done"} =>
         /\ Response = <<>> \/ \E s \in SENDING_HEADER..SENDING_FILE : Answer(s)
         /\ trouble = {} /\ req.line =>
              /\ sendBuf = <<>> /\ sendFd = None
              /\ \E s \in SENDING_HEADER..SENDING_FILE : Answer(s)

IInv == TypeOK /\ calls \in Seq(GoodCalls) /\ Phase(state, Response) /\ Stream /\ Form

-------------------------------------------------------------------------------
(* Responses that grow *)

LEMMA PhaseGrammar ==
  ASSUME NEW s \in 0..6, NEW r, Phase(s, r)
  PROVE  Grammar(r)
BY DEF Phase, Grammar, SENDING_STATUS, SENDING_HEADER, SENDING_DATA, SENDING_FILE, CLOSING

\* Appending to a response.
LEMMA Appended ==
  ASSUME NEW r \in Seq(Parts), NEW p \in Parts
  PROVE  /\ Append(r, p) \in Seq(Parts) /\ Len(Append(r, p)) = Len(r) + 1
         /\ Append(r, p)[Len(r) + 1] = p /\ Len(r) \in Nat
         /\ \A i \in 1..Len(r) : Append(r, p)[i] = r[i]
BY AppendProperties

LEMMA StatusFirst ==
  ASSUME NEW p \in Parts, p.kind = "status"
  PROVE  HeadersOpen(Append(<<>>, p))
<1>1. <<>> \in Seq(Parts) /\ Len(<<>>) = 0
  OBVIOUS
<1>2. Len(Append(<<>>, p)) = 1 /\ Append(<<>>, p)[1] = p
  BY <1>1, Appended
<1>. QED
  BY <1>2 DEF HeadersOpen

LEMMA HeaderFollows ==
  ASSUME NEW r \in Seq(Parts), HeadersOpen(r), NEW p \in Parts, p.kind = "header"
  PROVE  HeadersOpen(Append(r, p))
<1>1. /\ Len(Append(r, p)) = Len(r) + 1 /\ Append(r, p)[Len(r) + 1] = p /\ Len(r) \in Nat
      /\ \A i \in 1..Len(r) : Append(r, p)[i] = r[i]
  BY Appended
<1>2. /\ Len(r) > 0 /\ r[1].kind = "status" /\ \A i \in 2..Len(r) : r[i].kind = "header"
  BY DEF HeadersOpen
<1>3. ASSUME NEW i \in 2..(Len(r) + 1) PROVE Append(r, p)[i].kind = "header"
  <2>1. i = Len(r) + 1 \/ (i \in 1..Len(r) /\ i \in 2..Len(r))
    BY <1>1
  <2>. QED
    BY <2>1, <1>1, <1>2
<1>4. 1 \in 1..Len(r) /\ Len(r) + 1 > 0
  BY <1>1, <1>2
<1>. QED
  BY <1>1, <1>2, <1>3, <1>4 DEF HeadersOpen

LEMMA BlankFollows ==
  ASSUME NEW r \in Seq(Parts), HeadersOpen(r), NEW p \in Parts, p.kind = "blank"
  PROVE  HeadersDone(Append(r, p))
<1>1. /\ Len(Append(r, p)) = Len(r) + 1 /\ Append(r, p)[Len(r) + 1] = p /\ Len(r) \in Nat
      /\ \A i \in 1..Len(r) : Append(r, p)[i] = r[i]
  BY Appended
<1>2. /\ Len(r) > 0 /\ r[1].kind = "status" /\ \A i \in 2..Len(r) : r[i].kind = "header"
  BY DEF HeadersOpen
<1>. DEFINE b == Len(r) + 1
<1>3. b \in 2..Len(Append(r, p)) /\ 1 \in 1..Len(r)
  BY <1>1, <1>2
<1>4. ASSUME NEW i \in 2..(b - 1) PROVE Append(r, p)[i].kind = "header"
  <2>1. i \in 1..Len(r) /\ i \in 2..Len(r)
    BY <1>1
  <2>. QED
    BY <2>1, <1>1, <1>2
<1>5. \A i \in (b + 1)..Len(Append(r, p)) : FALSE
  BY <1>1
<1>. QED
  BY <1>1, <1>2, <1>3, <1>4, <1>5 DEF HeadersDone

LEMMA BodyFollows ==
  ASSUME NEW r \in Seq(Parts), HeadersDone(r), NEW p \in Parts, p.kind \in {"body", "file"}
  PROVE  HeadersDone(Append(r, p))
<1>1. /\ Len(Append(r, p)) = Len(r) + 1 /\ Append(r, p)[Len(r) + 1] = p /\ Len(r) \in Nat
      /\ \A i \in 1..Len(r) : Append(r, p)[i] = r[i]
  BY Appended
<1>2. PICK b \in 2..Len(r) :
        /\ r[1].kind = "status" /\ r[b].kind = "blank"
        /\ \A i \in 2..(b - 1) : r[i].kind = "header"
        /\ \A i \in (b + 1)..Len(r) : r[i].kind \in {"body", "file"}
  BY DEF HeadersDone
<1>3. b \in 2..(Len(r) + 1) /\ b \in 1..Len(r) /\ 1 \in 1..Len(r)
  BY <1>1
<1>4. ASSUME NEW i \in 2..(b - 1) PROVE Append(r, p)[i].kind = "header"
  <2>1. i \in 1..Len(r)
    BY <1>1
  <2>. QED
    BY <2>1, <1>1, <1>2
<1>5. ASSUME NEW i \in (b + 1)..(Len(r) + 1) PROVE Append(r, p)[i].kind \in {"body", "file"}
  <2>1. i = Len(r) + 1 \/ (i \in 1..Len(r) /\ i \in (b + 1)..Len(r))
    BY <1>1
  <2>. QED
    BY <2>1, <1>1, <1>2
<1>. QED
  BY <1>1, <1>2, <1>3, <1>4, <1>5 DEF HeadersDone

\* What HTTP asks of a response: ResponseGrammar of one that has the grammar.
LEMMA GrammarHolds ==
  ASSUME Response \in Seq(Parts), Grammar(Response)
  PROVE  ResponseGrammar
<1>. DEFINE r == Response
            before(i) == {r[j].kind : j \in 1..(i - 1)}
            Right(i) == CASE r[i].kind = "status" -> before(i) = {}
                          [] r[i].kind = "header" -> /\ "status" \in before(i)
                                                     /\ before(i) \subseteq {"status", "header"}
                          [] r[i].kind = "blank"  -> /\ "status" \in before(i)
                                                     /\ before(i) \subseteq {"status", "header"}
                          [] OTHER                -> "blank" \in before(i)
<1>0. DOMAIN r = 1..Len(r) /\ Len(r) \in Nat
  OBVIOUS
<1>1. SUFFICES ASSUME NEW i \in 1..Len(r) PROVE Right(i)
  BY <1>0 DEF ResponseGrammar
<1>2. CASE r = <<>>
  BY <1>2
<1>3. CASE HeadersOpen(r)
  <2>1. /\ r[1].kind = "status" /\ \A k \in 2..Len(r) : r[k].kind = "header"
    BY <1>3 DEF HeadersOpen
  <2>2. CASE i = 1
    BY <2>1, <2>2
  <2>3. CASE i # 1
    <3>1. i \in 2..Len(r) /\ 1 \in 1..(i - 1)
      BY <2>3, <1>0
    <3>2. ASSUME NEW j \in 1..(i - 1) PROVE r[j].kind \in {"status", "header"}
      <4>1. j = 1 \/ j \in 2..Len(r)
        BY <1>0
      <4>. QED
        BY <4>1, <2>1
    <3>. QED
      BY <3>1, <3>2, <2>1
  <2>. QED
    BY <2>2, <2>3
<1>4. CASE HeadersDone(r)
  <2>1. PICK b \in 2..Len(r) :
        /\ r[1].kind = "status" /\ r[b].kind = "blank"
        /\ \A k \in 2..(b - 1) : r[k].kind = "header"
        /\ \A k \in (b + 1)..Len(r) : r[k].kind \in {"body", "file"}
    BY <1>4 DEF HeadersDone
  <2>2. CASE i = 1
    BY <2>1, <2>2
  <2>3. CASE i \in 2..b
    <3>1. 1 \in 1..(i - 1) /\ (i = b \/ i \in 2..(b - 1))
      BY <2>3, <1>0
    <3>2. ASSUME NEW j \in 1..(i - 1) PROVE r[j].kind \in {"status", "header"}
      <4>1. j = 1 \/ j \in 2..(b - 1)
        BY <2>3, <1>0
      <4>. QED
        BY <4>1, <2>1
    <3>. QED
      BY <3>1, <3>2, <2>1
  <2>4. CASE i \in (b + 1)..Len(r)
    <3>1. b \in 1..(i - 1) /\ r[i].kind \in {"body", "file"} /\ r[b].kind = "blank"
      BY <2>1, <2>4, <1>0
    <3>. QED
      BY <3>1
  <2>5. i = 1 \/ i \in 2..b \/ i \in (b + 1)..Len(r)
    BY <1>0
  <2>. QED
    BY <2>2, <2>3, <2>4, <2>5
<1>. QED
  BY <1>2, <1>3, <1>4 DEF Grammar

\* The headers stay where they are when something is appended.
LEMMA HeadersStay ==
  ASSUME NEW r \in Seq(Parts), NEW p \in Parts, NEW b \in 2..Len(r), HeadersAt(r, b)
  PROVE  HeadersAt(Append(r, p), b) /\ Append(r, p)[1] = r[1]
<1>1. /\ Len(Append(r, p)) = Len(r) + 1 /\ Len(r) \in Nat
      /\ \A i \in 1..Len(r) : Append(r, p)[i] = r[i]
  BY Appended
<1>2. /\ r[1].kind = "status" /\ r[b].kind = "blank"
      /\ \A i \in 2..(b - 1) : r[i].kind = "header"
  BY DEF HeadersAt
<1>3. b \in 2..(Len(r) + 1) /\ b \in 1..Len(r) /\ 1 \in 1..Len(r)
  BY <1>1
<1>4. ASSUME NEW i \in 2..(b - 1) PROVE Append(r, p)[i].kind = "header"
  <2>1. i \in 1..Len(r)
    BY <1>1
  <2>. QED
    BY <2>1, <1>1, <1>2
<1>. QED
  BY <1>1, <1>2, <1>3, <1>4 DEF HeadersAt

\* The blank line ends the headers.
LEMMA BlankEnds ==
  ASSUME NEW r \in Seq(Parts), HeadersOpen(r), NEW p \in Parts, p.kind = "blank"
  PROVE  HeadersAt(Append(r, p), Len(r) + 1) /\ Append(r, p)[1] = r[1]
<1>1. /\ Len(Append(r, p)) = Len(r) + 1 /\ Append(r, p)[Len(r) + 1] = p /\ Len(r) \in Nat
      /\ \A i \in 1..Len(r) : Append(r, p)[i] = r[i]
  BY Appended
<1>2. /\ Len(r) > 0 /\ r[1].kind = "status" /\ \A i \in 2..Len(r) : r[i].kind = "header"
  BY DEF HeadersOpen
<1>. DEFINE b == Len(r) + 1
<1>3. b \in 2..Len(Append(r, p)) /\ 1 \in 1..Len(r)
  BY <1>1, <1>2
<1>4. ASSUME NEW i \in 2..(b - 1) PROVE Append(r, p)[i].kind = "header"
  <2>1. i \in 1..Len(r) /\ i \in 2..Len(r)
    BY <1>1
  <2>. QED
    BY <2>1, <1>1, <1>2
<1>. QED
  BY <1>1, <1>2, <1>3, <1>4 DEF HeadersAt

\* sb_writef among the headers: the blank line and a body.
LEMMA BodyAnswers ==
  ASSUME NEW r \in Seq(Parts), HeadersOpen(r), NEW p \in Parts, p.kind = "blank",
         NEW q \in Parts, q.kind = "body", Fits(r[1].text, q.text)
  PROVE  Bodied(Append(Append(r, p), q))
<1>. DEFINE a == Append(r, p)
            b == Len(r) + 1
            z == Append(a, q)
<1>1. a \in Seq(Parts) /\ Len(a) = b /\ b \in 2..Len(a) /\ b \in Nat
  BY Appended DEF HeadersOpen
<1>2. HeadersAt(a, b) /\ a[1] = r[1]
  BY BlankEnds
<1>. HIDE DEF a, b
<1>3. HeadersAt(z, b) /\ z[1] = a[1]
  BY <1>1, <1>2, HeadersStay
<1>4. Len(z) = b + 1 /\ z[b + 1] = q
  BY <1>1, Appended
<1>5. b \in 2..Len(z)
  BY <1>1, <1>4
<1>6. Fits(z[1].text, z[b + 1].text) /\ z[b + 1].kind = "body"
  BY <1>2, <1>3, <1>4
<1>7. Bodied(z)
  BY <1>3, <1>4, <1>5, <1>6 DEF Bodied
<1>. QED
  BY <1>7 DEF a

\* sb_send_file among the headers: the length, the blank line, and nothing yet.
LEMMA FileAnswers ==
  ASSUME NEW r \in Seq(Parts), HeadersOpen(r), NEW p \in Parts, p.kind = "blank"
  PROVE  Filed(Append(r, p), 0)
<1>. DEFINE a == Append(r, p)
            b == Len(r) + 1
<1>1. Len(a) = b /\ b \in 2..Len(a) /\ b \in Nat
  BY Appended DEF HeadersOpen
<1>2. HeadersAt(a, b)
  BY BlankEnds
<1>. HIDE DEF a, b
<1>3. Len(a) = b + 0 /\ \A i \in (b + 1)..Len(a) : a[i].kind = "file"
  BY <1>1
<1>4. Filed(a, 0)
  BY <1>1, <1>2, <1>3 DEF Filed
<1>. QED
  BY <1>4 DEF a

\* A chunk of the file.
LEMMA ChunkFollows ==
  ASSUME NEW r \in Seq(Parts), NEW k \in Nat, Filed(r, k), NEW p \in Parts, p.kind = "file"
  PROVE  Filed(Append(r, p), k + 1)
<1>. DEFINE z == Append(r, p)
<1>1. PICK b \in 2..Len(r) : /\ HeadersAt(r, b) /\ Len(r) = b + k
                             /\ \A i \in (b + 1)..Len(r) : r[i].kind = "file"
  BY DEF Filed
<1>2. /\ Len(z) = Len(r) + 1 /\ z[Len(r) + 1] = p /\ Len(r) \in Nat
      /\ \A i \in 1..Len(r) : z[i] = r[i]
  BY Appended
<1>3. HeadersAt(z, b)
  BY <1>1, HeadersStay
<1>4. ASSUME NEW i \in (b + 1)..Len(z) PROVE z[i].kind = "file"
  <2>1. i = Len(r) + 1 \/ (i \in 1..Len(r) /\ i \in (b + 1)..Len(r))
    BY <1>2
  <2>. QED
    BY <2>1, <1>1, <1>2
<1>5. b \in 2..Len(z) /\ Len(z) = b + (k + 1)
  BY <1>1, <1>2
<1>. HIDE DEF z
<1>6. Filed(z, k + 1)
  BY <1>3, <1>4, <1>5 DEF Filed
<1>. QED
  BY <1>6 DEF z

-------------------------------------------------------------------------------
(* What a call leaves behind *)

Outcomes == [state : SENDING_STATUS..SENDING_FILE, buf : Seq(Parts),
             err : {"none", "badstate", "memory"}]

Sound(o) == o \in Outcomes /\ Phase(o.state, o.buf)

\* The call succeeded and left state s and buffer b.
Left(p, s, b) == p.err = "none" /\ p.state = s /\ p.buf = b

LEMMA PhaseOf ==
  ASSUME NEW r
  PROVE  /\ HeadersOpen(r) => Phase(SENDING_HEADER, r)
         /\ HeadersDone(r) => Phase(SENDING_DATA, r) /\ Phase(SENDING_FILE, r)
BY DEF Phase, SENDING_STATUS, SENDING_HEADER, SENDING_DATA, SENDING_FILE, CLOSING

LEMMA PartOf ==
  ASSUME NEW kind \in {"status", "header", "blank", "body", "file"}, NEW text \in Texts
  PROVE  Part(kind, text) \in Parts /\ Part(kind, text).kind = kind /\ Part(kind, text).text = text
BY DEF Part, Parts, Texts

LEMMA BadSound ==
  ASSUME NEW o, Sound(o), NEW p \in Bad(o)
  PROVE  Sound(p) /\ p.err = "badstate" /\ p.state = o.state
<1>1. p = [o EXCEPT !.err = "badstate"] /\ o \in Outcomes
  BY DEF Bad, Sound
<1>2. p \in Outcomes /\ p.err = "badstate" /\ p.state = o.state /\ p.buf = o.buf
  BY <1>1 DEF Outcomes
<1>. QED
  BY <1>1, <1>2 DEF Sound

LEMMA PushSound ==
  ASSUME NEW o, Sound(o), NEW part \in Parts, NEW next \in SENDING_STATUS..SENDING_FILE,
         Phase(next, Append(o.buf, part)), NEW p \in Push(o, part, next)
  PROVE  Sound(p) /\ (p.err = "memory" \/ Left(p, next, Append(o.buf, part)))
<1>1. o \in Outcomes /\ o.buf \in Seq(Parts)
  BY DEF Sound, Outcomes
<1>2. \/ p = [state |-> next, buf |-> Append(o.buf, part), err |-> "none"]
      \/ p = [o EXCEPT !.err = "memory"]
  BY DEF Push
<1>3. CASE p = [state |-> next, buf |-> Append(o.buf, part), err |-> "none"]
  <2>1. Append(o.buf, part) \in Seq(Parts)
    BY <1>1, Appended
  <2>2. p \in Outcomes /\ p.err = "none" /\ p.state = next /\ p.buf = Append(o.buf, part)
    BY <1>3, <2>1 DEF Outcomes
  <2>. QED
    BY <2>2 DEF Sound, Left
<1>4. CASE p = [o EXCEPT !.err = "memory"]
  <2>1. p \in Outcomes /\ p.err = "memory" /\ p.state = o.state /\ p.buf = o.buf
    BY <1>1, <1>4 DEF Outcomes
  <2>. QED
    BY <2>1 DEF Sound
<1>. QED
  BY <1>2, <1>3, <1>4

LEMMA StatusSound ==
  ASSUME NEW o, Sound(o), NEW code \in Texts, NEW p \in sb_send_status(o, code)
  PROVE  /\ Sound(p)
         /\ \/ p.err = "memory"
            \/ p.err = "badstate" /\ o.state # SENDING_STATUS
            \/ /\ o.state = SENDING_STATUS
               /\ Left(p, SENDING_HEADER, Append(o.buf, Part("status", code)))
         /\ o.state = SENDING_FILE => p.state = SENDING_FILE
<1>1. CASE o.state = SENDING_STATUS
  <2>1. o.buf = <<>>
    BY <1>1 DEF Sound, Phase, SENDING_STATUS
  <2>2. Part("status", code) \in Parts /\ Part("status", code).kind = "status"
    BY PartOf
  <2>3. HeadersOpen(Append(o.buf, Part("status", code)))
    BY <2>1, <2>2, StatusFirst
  <2>4. Phase(SENDING_HEADER, Append(o.buf, Part("status", code)))
    BY <2>3, PhaseOf
  <2>5. SENDING_HEADER \in SENDING_STATUS..SENDING_FILE
    BY DEF SENDING_STATUS, SENDING_HEADER, SENDING_FILE
  <2>6. p \in Push(o, Part("status", code), SENDING_HEADER)
    BY <1>1 DEF sb_send_status
  <2>7. o.state # SENDING_FILE
    BY <1>1 DEF SENDING_STATUS, SENDING_FILE
  <2>. QED
    BY <1>1, <2>2, <2>4, <2>5, <2>6, <2>7, PushSound
<1>2. CASE o.state # SENDING_STATUS
  BY <1>2, BadSound DEF sb_send_status
<1>. QED
  BY <1>1, <1>2

LEMMA WithStatusSound ==
  ASSUME NEW o, Sound(o), o.err = "none", o.state <= SENDING_HEADER, NEW p \in WithStatus(o)
  PROVE  /\ Sound(p)
         /\ \/ p.err = "memory"
            \/ p.err = "none" /\ p.state = SENDING_HEADER /\ HeadersOpen(p.buf)
         /\ o.state = SENDING_HEADER => p = o
<1>1. o.state \in 2..5
  BY DEF Sound, Outcomes, SENDING_STATUS, SENDING_FILE
<1>2. CASE o.state = SENDING_STATUS
  <2>1. p \in sb_send_status(o, "200") /\ "200" \in Texts
    BY <1>2 DEF WithStatus, SENDING_STATUS, SENDING_HEADER, Texts
  <2>2. Sound(p) /\ (p.err = "memory" \/ (p.err = "none" /\ p.state = SENDING_HEADER))
    BY <1>2, <2>1, StatusSound DEF Left
  <2>3. p.state = SENDING_HEADER => HeadersOpen(p.buf)
    BY <2>2 DEF Sound, Phase
  <2>. QED
    BY <1>2, <2>2, <2>3 DEF SENDING_STATUS, SENDING_HEADER
<1>3. CASE o.state = SENDING_HEADER
  <2>1. p = o
    BY <1>3 DEF WithStatus, SENDING_HEADER
  <2>2. HeadersOpen(o.buf)
    BY <1>3 DEF Sound, Phase
  <2>. QED
    BY <1>3, <2>1, <2>2
<1>. QED
  BY <1>1, <1>2, <1>3 DEF SENDING_STATUS, SENDING_HEADER

LEMMA HeaderSound ==
  ASSUME NEW o, Sound(o), o.err = "none", NEW p \in sb_send_header(o)
  PROVE  /\ Sound(p)
         /\ \/ p.err = "memory"
            \/ p.err = "badstate" /\ o.state # SENDING_HEADER
            \/ p.err = "none" /\ p.state = SENDING_HEADER
         /\ o.state = SENDING_HEADER =>
              p.err = "memory" \/ Left(p, SENDING_HEADER, Append(o.buf, Part("header", "")))
         /\ o.state > SENDING_HEADER => p.state = o.state
<1>0. o.state \in 2..5 /\ o.state \in Int
  BY DEF Sound, Outcomes, SENDING_STATUS, SENDING_FILE
<1>1. CASE o.state > SENDING_HEADER
  <2>1. p \in Bad(o)
    BY <1>1 DEF sb_send_header
  <2>2. o.state # SENDING_HEADER
    BY <1>0, <1>1 DEF SENDING_HEADER
  <2>. QED
    BY <2>1, <2>2, BadSound
<1>2. CASE ~(o.state > SENDING_HEADER)
  <2>0. o.state <= SENDING_HEADER
    BY <1>0, <1>2 DEF SENDING_HEADER
  <2>1. PICK q \in WithStatus(o) :
          p \in (IF q.err = "none" THEN Push(q, Part("header", ""), q.state) ELSE {q})
    BY <1>2 DEF sb_send_header, AndThen
  <2>2. /\ Sound(q)
        /\ \/ q.err = "memory"
           \/ q.err = "none" /\ q.state = SENDING_HEADER /\ HeadersOpen(q.buf)
        /\ o.state = SENDING_HEADER => q = o
    BY <2>0, WithStatusSound
  <2>3. CASE q.err = "memory"
    BY <1>2, <2>1, <2>2, <2>3
  <2>4. CASE q.err = "none" /\ q.state = SENDING_HEADER /\ HeadersOpen(q.buf)
    <3>1. Part("header", "") \in Parts /\ Part("header", "").kind = "header"
      BY PartOf DEF Texts
    <3>2. q.buf \in Seq(Parts)
      BY <2>2 DEF Sound, Outcomes
    <3>3. HeadersOpen(Append(q.buf, Part("header", "")))
      BY <2>4, <3>1, <3>2, HeaderFollows
    <3>4. Phase(SENDING_HEADER, Append(q.buf, Part("header", "")))
      BY <3>3, PhaseOf
    <3>5. SENDING_HEADER \in SENDING_STATUS..SENDING_FILE
      BY DEF SENDING_STATUS, SENDING_HEADER, SENDING_FILE
    <3>6. p \in Push(q, Part("header", ""), SENDING_HEADER)
      BY <2>1, <2>4
    <3>7. Sound(p) /\ (p.err = "memory" \/ Left(p, SENDING_HEADER, Append(q.buf, Part("header", ""))))
      BY <2>2, <3>1, <3>4, <3>5, <3>6, PushSound
    <3>. QED
      BY <1>2, <2>2, <3>7 DEF Left
  <2>. QED
    BY <2>2, <2>3, <2>4
<1>. QED
  BY <1>1, <1>2

LEMMA FinalizeSound ==
  ASSUME NEW o, Sound(o), o.err = "none", o.state <= SENDING_HEADER,
         NEW p \in sb_stream_finalize_header(o)
  PROVE  /\ Sound(p)
         /\ p.err = "memory" \/ (p.err = "none" /\ p.state = SENDING_DATA)
         /\ o.state = SENDING_HEADER =>
              p.err = "memory" \/ Left(p, SENDING_DATA, Append(o.buf, Part("blank", "")))
<1>1. PICK q \in WithStatus(o) :
        p \in (IF q.err = "none" THEN Push(q, Part("blank", ""), SENDING_DATA) ELSE {q})
  BY DEF sb_stream_finalize_header, AndThen
<1>2. /\ Sound(q)
      /\ \/ q.err = "memory"
         \/ q.err = "none" /\ q.state = SENDING_HEADER /\ HeadersOpen(q.buf)
      /\ o.state = SENDING_HEADER => q = o
  BY WithStatusSound
<1>3. CASE q.err = "memory"
  BY <1>1, <1>2, <1>3
<1>4. CASE q.err = "none" /\ q.state = SENDING_HEADER /\ HeadersOpen(q.buf)
  <2>1. Part("blank", "") \in Parts /\ Part("blank", "").kind = "blank"
    BY PartOf DEF Texts
  <2>2. q.buf \in Seq(Parts)
    BY <1>2 DEF Sound, Outcomes
  <2>3. HeadersDone(Append(q.buf, Part("blank", "")))
    BY <1>4, <2>1, <2>2, BlankFollows
  <2>4. Phase(SENDING_DATA, Append(q.buf, Part("blank", "")))
    BY <2>3, PhaseOf
  <2>5. SENDING_DATA \in SENDING_STATUS..SENDING_FILE
    BY DEF SENDING_STATUS, SENDING_DATA, SENDING_FILE
  <2>6. p \in Push(q, Part("blank", ""), SENDING_DATA)
    BY <1>1, <1>4
  <2>7. Sound(p) /\ (p.err = "memory" \/ Left(p, SENDING_DATA, Append(q.buf, Part("blank", ""))))
    BY <1>2, <2>1, <2>4, <2>5, <2>6, PushSound
  <2>. QED
    BY <1>2, <2>7 DEF Left
<1>. QED
  BY <1>2, <1>3, <1>4

LEMMA WritefSound ==
  ASSUME NEW o, Sound(o), o.err = "none", NEW text \in Texts, NEW p \in sb_writef(o, text)
  PROVE  /\ Sound(p)
         /\ o.state = SENDING_HEADER =>
              \/ p.err = "memory"
              \/ Left(p, SENDING_DATA,
                      Append(Append(o.buf, Part("blank", "")), Part("body", text)))
         /\ o.state = SENDING_FILE => p.state = SENDING_FILE
<1>0. o.state \in 2..5 /\ o.state \in Int
  BY DEF Sound, Outcomes, SENDING_STATUS, SENDING_FILE
<1>1. PICK q \in (IF o.state < SENDING_DATA THEN sb_stream_finalize_header(o) ELSE {o}) :
        p \in (IF q.err = "none"
                 THEN IF q.state = SENDING_DATA THEN Push(q, Part("body", text), q.state) ELSE Bad(q)
                 ELSE {q})
  BY DEF sb_writef, AndThen
<1>2. /\ Sound(q)
      /\ \/ q.err = "memory"
         \/ q.err = "none"
      /\ o.state = SENDING_HEADER =>
           q.err = "memory" \/ Left(q, SENDING_DATA, Append(o.buf, Part("blank", "")))
      /\ o.state = SENDING_FILE => q.state = SENDING_FILE
  <2>1. CASE o.state < SENDING_DATA
    <3>1. o.state <= SENDING_HEADER /\ q \in sb_stream_finalize_header(o)
      BY <1>0, <1>1, <2>1 DEF SENDING_DATA, SENDING_HEADER
    <3>2. o.state # SENDING_FILE
      BY <2>1 DEF SENDING_DATA, SENDING_FILE
    <3>. QED
      BY <3>1, <3>2, FinalizeSound
  <2>2. CASE ~(o.state < SENDING_DATA)
    <3>1. q = o /\ o.state # SENDING_HEADER
      BY <1>0, <1>1, <2>2 DEF SENDING_DATA, SENDING_HEADER
    <3>. QED
      BY <3>1
  <2>. QED
    BY <2>1, <2>2
<1>3. CASE q.err = "memory"
  BY <1>1, <1>2, <1>3
<1>4. CASE q.err = "none" /\ q.state # SENDING_DATA
  <2>1. p \in Bad(q)
    BY <1>1, <1>4
  <2>2. o.state # SENDING_HEADER
    BY <1>2, <1>4 DEF Left
  <2>. QED
    BY <1>2, <2>1, <2>2, BadSound
<1>5. CASE q.err = "none" /\ q.state = SENDING_DATA
  <2>1. Part("body", text) \in Parts /\ Part("body", text).kind = "body"
    BY PartOf
  <2>2. q.buf \in Seq(Parts) /\ HeadersDone(q.buf)
    BY <1>2, <1>5 DEF Sound, Outcomes, Phase
  <2>3. HeadersDone(Append(q.buf, Part("body", text)))
    BY <2>1, <2>2, BodyFollows
  <2>4. Phase(SENDING_DATA, Append(q.buf, Part("body", text)))
    BY <2>3, PhaseOf
  <2>5. SENDING_DATA \in SENDING_STATUS..SENDING_FILE
    BY DEF SENDING_STATUS, SENDING_DATA, SENDING_FILE
  <2>6. p \in Push(q, Part("body", text), SENDING_DATA)
    BY <1>1, <1>5
  <2>7. Sound(p) /\ (p.err = "memory" \/ Left(p, SENDING_DATA, Append(q.buf, Part("body", text))))
    BY <1>2, <2>1, <2>4, <2>5, <2>6, PushSound
  <2>0. SENDING_DATA # SENDING_FILE
    BY DEF SENDING_DATA, SENDING_FILE
  <2>8. o.state # SENDING_FILE
    BY <1>2, <1>5, <2>0
  <2>. QED
    BY <1>2, <1>5, <2>7, <2>8 DEF Left
<1>. QED
  BY <1>2, <1>3, <1>4, <1>5

LEMMA FileSound ==
  ASSUME NEW o, Sound(o), o.err = "none", NEW p \in HeaderForFile(o)
  PROVE  /\ Sound(p)
         /\ p.err = "none" => p.state = SENDING_DATA /\ o.state <= SENDING_HEADER
         /\ o.state = SENDING_HEADER =>
              \/ p.err = "memory"
              \/ Left(p, SENDING_DATA,
                      Append(Append(o.buf, Part("header", "")), Part("blank", "")))
         /\ o.state > SENDING_HEADER => p.state = o.state
<1>0. o.state \in 2..5 /\ o.state \in Int
  BY DEF Sound, Outcomes, SENDING_STATUS, SENDING_FILE
<1>1. PICK q \in sb_send_header(o) :
        p \in (IF q.err = "none" THEN sb_stream_finalize_header(q) ELSE {q})
  BY DEF HeaderForFile, AndThen
<1>2. /\ Sound(q)
      /\ \/ q.err = "memory"
         \/ q.err = "badstate" /\ o.state # SENDING_HEADER
         \/ q.err = "none" /\ q.state = SENDING_HEADER
      /\ o.state = SENDING_HEADER =>
           q.err = "memory" \/ Left(q, SENDING_HEADER, Append(o.buf, Part("header", "")))
      /\ o.state > SENDING_HEADER => q.state = o.state
  BY HeaderSound
<1>3. CASE q.err # "none"
  BY <1>1, <1>2, <1>3
<1>4. CASE q.err = "none"
  <2>0. p \in sb_stream_finalize_header(q) /\ q.state = SENDING_HEADER
    BY <1>1, <1>2, <1>4
  <2>1. q.state <= SENDING_HEADER
    BY <2>0 DEF SENDING_HEADER
  <2>2. /\ Sound(p)
        /\ p.err = "memory" \/ (p.err = "none" /\ p.state = SENDING_DATA)
        /\ p.err = "memory" \/ Left(p, SENDING_DATA, Append(q.buf, Part("blank", "")))
    BY <1>2, <1>4, <2>0, <2>1, FinalizeSound
  <2>3. o.state <= SENDING_HEADER
    <3>1. CASE o.state > SENDING_HEADER
      <4>1. q \in Bad(o)
        BY <3>1 DEF sb_send_header
      <4>. QED
        BY <4>1, <1>4, BadSound
    <3>. QED
      BY <3>1, <1>0 DEF SENDING_HEADER
  <2>4. ~(o.state > SENDING_HEADER)
    BY <1>0, <2>3 DEF SENDING_HEADER
  <2>. QED
    BY <1>2, <1>4, <2>2, <2>3, <2>4 DEF Left
<1>. QED
  BY <1>2, <1>3, <1>4

-------------------------------------------------------------------------------
(* What the handlers call *)

Codes == {"200", "400", "403", "404", "500"}

LEMMA ThreeAndOne ==
  ASSUME NEW a, NEW b, NEW c, NEW d
  PROVE  <<a, b, c>> \o <<d>> = <<a, b, c, d>>
<1>. DEFINE S == {a, b, c, d}
            x == <<a, b, c>> \o <<d>>
            y == <<a, b, c, d>>
<1>1. /\ <<a, b, c>> \in Seq(S) /\ Len(<<a, b, c>>) = 3
      /\ <<d>> \in Seq(S) /\ Len(<<d>>) = 1
      /\ y \in Seq(S) /\ Len(y) = 4
  OBVIOUS
<1>2. x \in Seq(S) /\ Len(x) = 4
  BY <1>1, ConcatProperties
<1>3. x[1] = a /\ x[2] = b /\ x[3] = c /\ x[4] = d
  <2>1. \A i \in 1..4 : x[i] = IF i <= 3 THEN <<a, b, c>>[i] ELSE <<d>>[i - 3]
    BY <1>1, ConcatProperties
  <2>. QED
    BY <2>1
<1>4. \A i \in 1..4 : x[i] = y[i]
  BY <1>3
<1>. QED
  BY <1>1, <1>2, <1>4, SeqEqual

\* event_handler chooses one of four kinds of answer.
LEMMA DispatchKinds ==
  ASSUME req \in Requests, NEW c \in Dispatch
  PROVE  \/ req.method = "OPTIONS" /\ c = kick_header("200")
         \/ /\ req.method # "OPTIONS"
            /\ \/ \E code \in Codes : c = kick_error(code)
               \/ c = kick_success \/ c = kick_error_json \/ c = static_file
<1>. DEFINE Kinds == {kick_error(code) : code \in Codes} \union
                     {kick_success, kick_error_json, static_file}
<1>1. /\ req.method \in {"GET", "POST", "OPTIONS", "other"}
      /\ req.path \in {"static", "settings", "api", "unknown"}
  BY ExchangeAssumption DEF Requests, Paths
<1>2. ASSUME NEW p \in {"static", "settings", "api"}, NEW d \in BOOLEAN
      PROVE  Answers(p, d) \subseteq Kinds
  <2>1. CASE p = "static"
    BY <2>1 DEF Answers, Codes
  <2>2. CASE p = "settings"
    BY <2>2 DEF Answers, Codes
  <2>3. CASE p = "api"
    BY <2>3 DEF Answers, Codes
  <2>. QED
    BY <2>1, <2>2, <2>3
<1>3. CASE req.method = "OPTIONS"
  <2>1. Dispatch = {kick_header("200")}
    BY <1>3 DEF Dispatch
  <2>. QED
    BY <1>3, <2>1
<1>4. CASE req.method # "OPTIONS"
  <2>1. \A code \in Codes : kick_error(code) \in Kinds
    OBVIOUS
  <2>2. "400" \in Codes /\ "404" \in Codes
    BY DEF Codes
  <2>3. CASE req.method = "other" \/ req.path = "unknown"
    <3>1. Dispatch = {kick_error("400")} \/ Dispatch = {kick_error("404")}
      BY <1>1, <1>4, <2>3 DEF Dispatch
    <3>2. c \in Kinds
      BY <3>1, <2>1, <2>2
    <3>. QED
      BY <3>2, <1>4
  <2>4. CASE req.method # "other" /\ req.path # "unknown" /\ req.method = "POST"
    <3>1. Dispatch = {kick_error("404")} \/ Dispatch = Answers(req.path, req.len > 0)
      BY <1>1, <1>4, <2>4 DEF Dispatch
    <3>0. (req.len > 0) \in BOOLEAN /\ req.path \in {"static", "settings", "api"}
      BY <1>1, <2>4
    <3>2. Answers(req.path, req.len > 0) \subseteq Kinds
      BY <3>0, <1>2, <2>4
    <3>3. c \in Kinds
      BY <3>1, <3>2, <2>1, <2>2
    <3>. QED
      BY <3>3, <1>4
  <2>5. CASE req.method # "other" /\ req.path # "unknown" /\ req.method = "GET"
    <3>1. Dispatch = {kick_error("400")} \/ Dispatch = Answers(req.path, req.query > 0)
      BY <1>1, <1>4, <2>5 DEF Dispatch
    <3>0. (req.query > 0) \in BOOLEAN /\ req.path \in {"static", "settings", "api"}
      BY <1>1, <2>5
    <3>2. Answers(req.path, req.query > 0) \subseteq Kinds
      BY <3>0, <1>2, <2>5
    <3>3. c \in Kinds
      BY <3>1, <3>2, <2>1, <2>2
    <3>. QED
      BY <3>3, <1>4
  <2>. QED
    BY <1>1, <1>4, <2>3, <2>4, <2>5
<1>. QED
  BY <1>3, <1>4

LEMMA CallsTyped ==
  ASSUME NEW c \in Seq(GoodCalls)
  PROVE  c \in Seq([fn : {"status", "header", "writef", "file"},
                    arg : Texts \union {"cors", "close", "type"}])
<1>. DEFINE X == [fn : {"status", "header", "writef", "file"},
                  arg : Texts \union {"cors", "close", "type"}]
<1>1. GoodCalls \subseteq X
  BY DEF GoodCalls
<1>2. PICK n \in Nat : c \in [1..n -> GoodCalls]
  BY SeqDef
<1>. HIDE DEF X
<1>3. c \in [1..n -> X]
  BY <1>1, <1>2
<1>4. c \in Seq(X)
  BY <1>3, SeqDef
<1>. QED
  BY <1>4 DEF X

\* A script that starts with its status line and has the rest that goes with it.
Script(c) ==
  /\ c \in Seq(GoodCalls) /\ c # <<>>
  /\ Head(c).fn = "status" /\ Head(c).arg \in Texts
  /\ Rest(req.method, Tail(c), Head(c).arg)

LEMMA ThreeCalls ==
  ASSUME req.method = "OPTIONS",
         NEW a \in GoodCalls, a.fn = "status", a.arg \in Texts,
         NEW b \in GoodCalls, b.fn = "header", NEW d \in GoodCalls, d.fn = "header"
  PROVE  Script(<<a, b, d>>)
<1>1. /\ <<a, b, d>> \in Seq(GoodCalls) /\ <<a, b, d>> # <<>>
      /\ Head(<<a, b, d>>) = a /\ Tail(<<a, b, d>>) = <<b, d>>
  OBVIOUS
<1>2. Len(<<b, d>>) = 2 /\ <<b, d>>[1] = b /\ <<b, d>>[2] = d
  OBVIOUS
<1>3. \A i \in 1..(Len(<<b, d>>) - 1) : <<b, d>>[i].fn = "header"
  BY <1>2
<1>4. Rest(req.method, <<b, d>>, a.arg)
  BY <1>2, <1>3 DEF Rest
<1>. QED
  BY <1>1, <1>4 DEF Script

LEMMA FourCalls ==
  ASSUME req.method # "OPTIONS",
         NEW a \in GoodCalls, a.fn = "status", a.arg \in Texts,
         NEW b \in GoodCalls, b.fn = "header", NEW d \in GoodCalls, d.fn = "header",
         NEW e \in GoodCalls, (e.fn = "writef" /\ Fits(a.arg, e.arg)) \/ e.fn = "file"
  PROVE  Script(<<a, b, d, e>>)
<1>1. /\ <<a, b, d, e>> \in Seq(GoodCalls) /\ <<a, b, d, e>> # <<>>
      /\ Head(<<a, b, d, e>>) = a /\ Tail(<<a, b, d, e>>) = <<b, d, e>>
  OBVIOUS
<1>2. /\ Len(<<b, d, e>>) = 3 /\ <<b, d, e>>[1] = b /\ <<b, d, e>>[2] = d
      /\ <<b, d, e>>[3] = e /\ <<b, d, e>> # <<>>
  OBVIOUS
<1>3. \A i \in 1..(Len(<<b, d, e>>) - 1) : <<b, d, e>>[i].fn = "header"
  BY <1>2
<1>4. Rest(req.method, <<b, d, e>>, a.arg)
  BY <1>2, <1>3 DEF Rest
<1>. QED
  BY <1>1, <1>4 DEF Script

\* The scripts of kick_error, kick_success and kick_error_json.
LEMMA KickScript ==
  ASSUME req.method # "OPTIONS", NEW code \in Texts, NEW text \in Texts, Fits(code, text)
  PROVE  Script(kick_header(code) \o <<Call("writef", text)>>)
<1>1. kick_header(code) \o <<Call("writef", text)>>
        = <<Call("status", code), Call("header", "cors"), Call("header", "close"),
            Call("writef", text)>>
  BY ThreeAndOne DEF kick_header
<1>2. /\ Call("status", code) \in GoodCalls /\ Call("status", code).fn = "status"
      /\ Call("status", code).arg = code
  BY DEF Call, GoodCalls, Texts
<1>3. /\ Call("header", "cors") \in GoodCalls /\ Call("header", "cors").fn = "header"
      /\ Call("header", "close") \in GoodCalls /\ Call("header", "close").fn = "header"
  BY DEF Call, GoodCalls, Texts
<1>4. /\ Call("writef", text) \in GoodCalls /\ Call("writef", text).fn = "writef"
      /\ Call("writef", text).arg = text
  BY DEF Call, GoodCalls, Texts
<1>. QED
  BY <1>1, <1>2, <1>3, <1>4, FourCalls

\* kick_error after sb_send_file failed: calls of the same kind.
LEMMA KickTyped == kick_error("500") \in Seq(GoodCalls)
<1>1. kick_error("500")
        = <<Call("status", "500"), Call("header", "cors"), Call("header", "close"),
            Call("writef", "500")>>
  BY ThreeAndOne DEF kick_error, kick_header
<1>2. /\ Call("status", "500") \in GoodCalls /\ Call("header", "cors") \in GoodCalls
      /\ Call("header", "close") \in GoodCalls /\ Call("writef", "500") \in GoodCalls
  BY DEF Call, GoodCalls, Texts
<1>3. ASSUME NEW a \in GoodCalls, NEW b \in GoodCalls, NEW c \in GoodCalls, NEW d \in GoodCalls
      PROVE  <<a, b, c, d>> \in Seq(GoodCalls)
  OBVIOUS
<1>. QED
  BY <1>1, <1>2, <1>3

LEMMA DispatchScripts ==
  ASSUME req \in Requests, NEW c \in Dispatch
  PROVE  Script(c)
<1>1. Codes \subseteq Texts /\ "200" \in Texts /\ "success" \in Texts /\ "code" \in Texts
  BY DEF Codes, Texts
<1>2. CASE req.method = "OPTIONS" /\ c = kick_header("200")
  <2>1. /\ Call("status", "200") \in GoodCalls /\ Call("status", "200").fn = "status"
        /\ Call("status", "200").arg = "200"
    BY DEF Call, GoodCalls, Texts
  <2>2. /\ Call("header", "cors") \in GoodCalls /\ Call("header", "cors").fn = "header"
        /\ Call("header", "close") \in GoodCalls /\ Call("header", "close").fn = "header"
    BY DEF Call, GoodCalls, Texts
  <2>. QED
    BY <1>1, <1>2, <2>1, <2>2, ThreeCalls DEF kick_header
<1>3. ASSUME req.method # "OPTIONS", NEW code \in Codes, c = kick_error(code) PROVE Script(c)
  BY <1>1, <1>3, KickScript DEF kick_error, Fits
<1>4. CASE req.method # "OPTIONS" /\ c = kick_success
  BY <1>1, <1>4, KickScript DEF kick_success, Fits
<1>5. CASE req.method # "OPTIONS" /\ c = kick_error_json
  BY <1>1, <1>5, KickScript DEF kick_error_json, Fits
<1>6. CASE req.method # "OPTIONS" /\ c = static_file
  <2>1. /\ Call("status", "200") \in GoodCalls /\ Call("status", "200").fn = "status"
        /\ Call("status", "200").arg = "200"
    BY DEF Call, GoodCalls, Texts
  <2>2. /\ Call("header", "type") \in GoodCalls /\ Call("header", "type").fn = "header"
        /\ Call("header", "close") \in GoodCalls /\ Call("header", "close").fn = "header"
    BY DEF Call, GoodCalls, Texts
  <2>3. Call("file", "") \in GoodCalls /\ Call("file", "").fn = "file"
    BY DEF Call, GoodCalls, Texts
  <2>. QED
    BY <1>1, <1>6, <2>1, <2>2, <2>3, FourCalls DEF static_file
<1>. QED
  BY <1>2, <1>3, <1>4, <1>5, <1>6, DispatchKinds

-------------------------------------------------------------------------------
(* The invariant is inductive *)

LEMMA Start == Init => IInv
<1>. SUFFICES ASSUME Init PROVE IInv
  OBVIOUS
<1>1. None \in None..MaxFile /\ 0 \in 0..MaxBody /\ None = -1
  BY ExchangeAssumption DEF None
<1>2. /\ <<>> \in Seq(Parts) /\ <<>> \in Seq(GoodCalls)
      /\ <<>> \in Seq([fn : {"status", "header", "writef", "file"},
                       arg : Texts \union {"cors", "close", "type"}])
  OBVIOUS
<1>3. TypeOK
  BY <1>1, <1>2 DEF Init, TypeOK, RECEIVING_HEADER, CLOSING
<1>4. Response = <<>>
  BY DEF Init, Response
<1>5. Phase(state, Response)
  BY <1>4 DEF Init, Phase, RECEIVING_HEADER, SENDING_STATUS, SENDING_HEADER, SENDING_DATA,
              SENDING_FILE, CLOSING
<1>6. Stream
  BY DEF Init, Stream, RECEIVING_HEADER, RECEIVING_REQUEST
<1>7. Form
  BY DEF Init, Form
<1>. QED
  BY <1>2, <1>3, <1>5, <1>6, <1>7 DEF IInv, Init

\* The request is complete and the handler is chosen.
LEMMA HandleRequestStep ==
  ASSUME IInv, pc = "recv", HandleRequest, got' \in 0..MaxBody,
         UNCHANGED <<req, sendBuf, wire, sendFd, fds, promised, trouble>>
  PROVE  IInv'
<1>1. TypeOK /\ Stream /\ calls \in Seq(GoodCalls)
  BY DEF IInv
<1>2. /\ sendBuf = <<>> /\ wire = <<>> /\ sendFd = None /\ promised = None /\ fds = 0
  BY <1>1 DEF Stream
<1>3. Response' = <<>>
  BY <1>2 DEF Response
<1>4. req \in Requests
  BY <1>1 DEF TypeOK
<1>5. CASE req.line
  <2>1. state' = SENDING_STATUS /\ pc' = "handler" /\ calls' \in Dispatch
    BY <1>5 DEF HandleRequest
  <2>2. Script(calls')
    BY <1>4, <2>1, DispatchScripts
  <2>3. calls' \in Seq(GoodCalls)
    BY <2>2 DEF Script
  <2>4. TypeOK'
    <3>1. calls' \in Seq([fn : {"status", "header", "writef", "file"},
                          arg : Texts \union {"cors", "close", "type"}])
      BY <2>3, CallsTyped
    <3>2. state' \in RECEIVING_HEADER..CLOSING
      BY <2>1 DEF SENDING_STATUS, RECEIVING_HEADER, CLOSING
    <3>. QED
      BY <1>1, <2>1, <3>1, <3>2 DEF TypeOK
  <2>5. Phase(state', Response')
    BY <1>3, <2>1 DEF Phase, SENDING_STATUS, SENDING_HEADER, SENDING_DATA, SENDING_FILE, CLOSING
  <2>6. Stream'
    BY <1>2, <1>5, <2>1 DEF Stream, SENDING_STATUS, SENDING_FILE
  <2>7. Handling'
    <3>. DEFINE code == Head(calls').arg
    <3>1. /\ calls' # <<>> /\ Head(calls').fn = "status" /\ code \in Texts
          /\ Rest(req.method, Tail(calls'), code)
      BY <2>2 DEF Script
    <3>2. req' = req
      OBVIOUS
    <3>. QED
      BY <1>2, <2>1, <3>1, <3>2 DEF Handling
  <2>8. Form'
    BY <2>1, <2>7 DEF Form
  <2>. QED
    BY <2>3, <2>4, <2>5, <2>6, <2>8 DEF IInv
<1>6. CASE ~req.line
  <2>1. state' = CLOSING /\ pc' = "destroy" /\ calls' = calls
    BY <1>6 DEF HandleRequest
  <2>2. TypeOK'
    <3>1. state' \in RECEIVING_HEADER..CLOSING
      BY <2>1 DEF RECEIVING_HEADER, CLOSING
    <3>. QED
      BY <1>1, <2>1, <3>1 DEF TypeOK
  <2>3. Phase(state', Response')
    BY <1>3, <2>1 DEF Phase, SENDING_STATUS, SENDING_HEADER, SENDING_DATA, SENDING_FILE, CLOSING,
                      Grammar
  <2>4. Stream'
    BY <1>2, <2>1 DEF Stream
  <2>5. Form'
    BY <1>3, <1>6, <2>1 DEF Form
  <2>. QED
    BY <1>1, <2>1, <2>2, <2>3, <2>4, <2>5 DEF IInv
<1>. QED
  BY <1>5, <1>6

LEMMA RecvHeaderStep ==
  ASSUME IInv, RecvHeader
  PROVE  IInv'
<1>1. TypeOK /\ Stream /\ calls \in Seq(GoodCalls)
  BY DEF IInv
<1>2. /\ pc = "recv" /\ state = RECEIVING_HEADER
      /\ UNCHANGED <<req, got, sendBuf, wire, sendFd, fds, promised, trouble>>
  BY DEF RecvHeader
<1>3. CASE req.len \in {None, 0}
  BY <1>1, <1>2, <1>3, HandleRequestStep DEF RecvHeader, TypeOK
<1>4. CASE req.len \notin {None, 0}
  <2>1. state' = RECEIVING_REQUEST /\ pc' = pc /\ calls' = calls
    BY <1>4 DEF RecvHeader
  <2>2. req.len > 0 /\ got = 0
    <3>1. req.len \in None..MaxBody /\ got = 0
      BY <1>1, <1>2 DEF TypeOK, Requests, Stream
    <3>. QED
      BY <3>1, <1>4, ExchangeAssumption DEF None
  <2>3. TypeOK'
    <3>1. state' \in RECEIVING_HEADER..CLOSING
      BY <2>1 DEF RECEIVING_HEADER, RECEIVING_REQUEST, CLOSING
    <3>. QED
      BY <1>1, <1>2, <2>1, <3>1 DEF TypeOK
  <2>4. Response' = <<>>
    BY <1>1, <1>2 DEF Stream, Response
  <2>5. Phase(state', Response')
    BY <2>1, <2>4 DEF Phase, RECEIVING_REQUEST, SENDING_STATUS, SENDING_HEADER, SENDING_DATA,
                      SENDING_FILE, CLOSING
  <2>6. Stream'
    BY <1>1, <1>2, <2>1, <2>2 DEF Stream, RECEIVING_HEADER, RECEIVING_REQUEST
  <2>7. Form'
    BY <1>2, <2>1 DEF Form
  <2>. QED
    BY <1>1, <2>1, <2>3, <2>5, <2>6, <2>7 DEF IInv
<1>. QED
  BY <1>3, <1>4

LEMMA RecvBodyStep ==
  ASSUME IInv, RecvBody
  PROVE  IInv'
<1>1. TypeOK /\ Stream /\ calls \in Seq(GoodCalls)
  BY DEF IInv
<1>2. /\ pc = "recv" /\ state = RECEIVING_REQUEST /\ got' = got + 1
      /\ UNCHANGED <<req, sendBuf, wire, sendFd, fds, promised, trouble>>
  BY DEF RecvBody
<1>3. got < req.len /\ got \in Nat /\ req.len \in Int /\ req.len <= MaxBody
  <2>1. req.len \in None..MaxBody /\ got \in 0..MaxBody
    BY <1>1 DEF TypeOK, Requests
  <2>2. got < req.len
    BY <1>1, <1>2 DEF Stream, RECEIVING_REQUEST, RECEIVING_HEADER
  <2>. QED
    BY <2>1, <2>2, ExchangeAssumption DEF None
<1>4. got' \in 0..MaxBody
  BY <1>2, <1>3, ExchangeAssumption
<1>5. CASE got' = req.len
  BY <1>2, <1>4, <1>5, HandleRequestStep DEF RecvBody
<1>6. CASE got' # req.len
  <2>1. state' = state /\ pc' = pc /\ calls' = calls
    BY <1>6 DEF RecvBody
  <2>2. got' < req.len
    BY <1>2, <1>3, <1>6
  <2>3. TypeOK'
    BY <1>1, <1>2, <1>4, <2>1 DEF TypeOK
  <2>4. Response' = <<>>
    BY <1>1, <1>2 DEF Stream, Response
  <2>5. Phase(state', Response')
    BY <1>2, <2>1, <2>4 DEF Phase, RECEIVING_REQUEST, SENDING_STATUS, SENDING_HEADER,
                            SENDING_DATA, SENDING_FILE, CLOSING
  <2>6. Stream'
    BY <1>1, <1>2, <2>1, <2>2 DEF Stream, RECEIVING_HEADER, RECEIVING_REQUEST
  <2>7. Form'
    BY <1>2, <2>1 DEF Form
  <2>. QED
    BY <1>1, <2>1, <2>3, <2>5, <2>6, <2>7 DEF IInv
<1>. QED
  BY <1>5, <1>6

LEMMA RecvEndsStep ==
  ASSUME IInv, RecvEnds
  PROVE  IInv'
<1>1. TypeOK /\ Stream /\ calls \in Seq(GoodCalls)
  BY DEF IInv
<1>2. /\ pc = "recv" /\ state' = CLOSING /\ pc' = "destroy"
      /\ UNCHANGED <<req, got, calls, sendBuf, wire, sendFd, fds, promised>>
  BY DEF RecvEnds
<1>3. PICK w \in {"client", "memory"} : trouble' = trouble \union {w}
  BY DEF RecvEnds
<1>4. TypeOK'
  <2>1. state' \in RECEIVING_HEADER..CLOSING
    BY <1>2 DEF RECEIVING_HEADER, CLOSING
  <2>. QED
    BY <1>1, <1>2, <1>3, <2>1 DEF TypeOK
<1>5. Response' = <<>>
  BY <1>1, <1>2 DEF Stream, Response
<1>6. Phase(state', Response')
  BY <1>2, <1>5 DEF Phase, SENDING_STATUS, SENDING_HEADER, SENDING_DATA, SENDING_FILE, CLOSING,
                    Grammar
<1>7. Stream'
  BY <1>1, <1>2 DEF Stream
<1>8. Form'
  BY <1>2, <1>3, <1>5 DEF Form
<1>. QED
  BY <1>1, <1>2, <1>4, <1>6, <1>7, <1>8 DEF IInv

\* While the handler runs nothing has been sent.
LEMMA Unsent ==
  ASSUME sendBuf \in Seq(Parts), wire = <<>>
  PROVE  Response = sendBuf
BY DEF Response

LEMMA HereSound ==
  ASSUME IInv, pc = "handler"
  PROVE  Sound(Here) /\ Here.err = "none" /\ Here.state = state /\ Here.buf = sendBuf
<1>1. /\ state \in SENDING_STATUS..SENDING_FILE /\ sendBuf \in Seq(Parts)
      /\ wire = <<>> /\ Phase(state, Response)
  BY DEF IInv, TypeOK, Stream
<1>2. Phase(state, sendBuf)
  BY <1>1, Unsent
<1>3. Here \in Outcomes /\ Here.err = "none" /\ Here.state = state /\ Here.buf = sendBuf
  BY <1>1 DEF Here, Outcomes
<1>. QED
  BY <1>2, <1>3 DEF Sound

\* What remains of a script after a header, and after anything else.
LEMMA RestTail ==
  ASSUME NEW m, NEW c \in Seq(GoodCalls), c # <<>>, NEW code, Rest(m, c, code)
  PROVE  /\ Tail(c) \in Seq(GoodCalls)
         /\ Head(c).fn = "header" => Rest(m, Tail(c), code)
         /\ Head(c).fn # "header" =>
              /\ Tail(c) = <<>> /\ m # "OPTIONS"
              /\ \/ Head(c).fn = "writef" /\ Fits(code, Head(c).arg)
                 \/ Head(c).fn = "file"
<1>1. Len(c) \in Nat \ {0} /\ Head(c) = c[1]
  BY EmptySeq
<1>2. /\ Tail(c) \in Seq(GoodCalls) /\ Len(Tail(c)) = Len(c) - 1
      /\ \A i \in 1..(Len(c) - 1) : Tail(c)[i] = c[i + 1]
  BY HeadTailProperties
<1>3. Tail(c) = <<>> <=> Len(c) = 1
  BY <1>1, <1>2, EmptySeq
<1>4. CASE Len(c) = 1
  <2>1. Tail(c) = <<>>
    BY <1>3, <1>4
  <2>2. IF m = "OPTIONS"
          THEN Head(c).fn = "header"
          ELSE \/ Head(c).fn = "writef" /\ Fits(code, Head(c).arg)
               \/ Head(c).fn = "file"
    BY <1>1, <1>4 DEF Rest
  <2>3. m = "OPTIONS" => Rest(m, <<>>, code)
    <3>1. Len(<<>>) = 0
      OBVIOUS
    <3>. QED
      BY <3>1 DEF Rest
  <2>4. "writef" # "header" /\ "file" # "header"
    OBVIOUS
  <2>. QED
    BY <1>2, <2>1, <2>2, <2>3, <2>4
<1>5. CASE Len(c) > 1
  <2>1. Head(c).fn = "header"
    BY <1>1, <1>5 DEF Rest
  <2>2. Tail(c)[Len(Tail(c))] = c[Len(c)]
    <3>1. Len(c) - 1 \in 1..(Len(c) - 1) /\ (Len(c) - 1) + 1 = Len(c)
      BY <1>1, <1>5
    <3>. QED
      BY <1>2, <3>1
  <2>3. ASSUME NEW i \in 1..(Len(Tail(c)) - 1) PROVE Tail(c)[i].fn = "header"
    <3>1. i \in 1..(Len(c) - 1) /\ i + 1 \in 1..(Len(c) - 1)
      BY <1>1, <1>2
    <3>. QED
      BY <1>2, <3>1 DEF Rest
  <2>4. Tail(c) # <<>>
    BY <1>1, <1>3, <1>5
  <2>5. Rest(m, Tail(c), code)
    BY <2>2, <2>3, <2>4 DEF Rest
  <2>. QED
    BY <1>2, <2>1, <2>5
<1>6. Len(c) = 1 \/ Len(c) > 1
  <2>1. \A n \in Nat \ {0} : n = 1 \/ n > 1
    OBVIOUS
  <2>. QED
    BY <1>1, <2>1
<1>. QED
  BY <1>4, <1>5, <1>6

\* What a call leaves that is made when the script has it.
Outcome(o) ==
  /\ Head(calls).fn = "status" /\ state = SENDING_STATUS =>
       \/ o.err = "memory"
       \/ Left(o, SENDING_HEADER, Append(sendBuf, Part("status", Head(calls).arg)))
  /\ Head(calls).fn = "header" /\ state = SENDING_HEADER =>
       \/ o.err = "memory"
       \/ Left(o, SENDING_HEADER, Append(sendBuf, Part("header", "")))
  /\ Head(calls).fn = "writef" /\ state = SENDING_HEADER =>
       \/ o.err = "memory"
       \/ Left(o, SENDING_DATA, Append(Append(sendBuf, Part("blank", "")),
                                       Part("body", Head(calls).arg)))

\* The outcome of a call among the headers, or of the status line, keeps the form.
LEMMA RespondForm ==
  ASSUME IInv, Untroubled, pc = "handler", calls # <<>>, Head(calls).fn # "file",
         NEW o, o.err # "memory",
         Outcome(o),
         state' = o.state, sendBuf' = o.buf, calls' = Tail(calls),
         UNCHANGED <<req, wire, sendFd, promised>>
  PROVE  Handling'
<1>1. /\ Handling /\ wire = <<>> /\ sendBuf \in Seq(Parts) /\ calls \in Seq(GoodCalls)
      /\ Phase(state, Response)
  BY DEF IInv, Form, Stream, TypeOK
<1>2. Response = sendBuf
  BY <1>1, Unsent
<1>3. sendFd = None /\ promised = None
  BY <1>1 DEF Handling
<1>4. PICK code \in Texts :
        \/ /\ state = SENDING_STATUS
           /\ Head(calls).fn = "status" /\ Head(calls).arg = code
           /\ Rest(req.method, Tail(calls), code)
        \/ /\ state = SENDING_HEADER
           /\ sendBuf[1].text = code /\ Rest(req.method, calls, code)
  BY <1>1 DEF Handling
<1>5. CASE /\ state = SENDING_STATUS
           /\ Head(calls).fn = "status" /\ Head(calls).arg = code
           /\ Rest(req.method, Tail(calls), code)
  <2>1. sendBuf = <<>>
    BY <1>1, <1>2, <1>5 DEF Phase, SENDING_STATUS
  <2>2. state' = SENDING_HEADER /\ sendBuf' = Append(sendBuf, Part("status", code))
    BY <1>5 DEF Outcome, Left
  <2>3. Part("status", code) \in Parts /\ Part("status", code).text = code
    BY PartOf
  <2>4. sendBuf'[1] = Part("status", code)
    <3>1. Len(sendBuf) = 0
      BY <2>1
    <3>. QED
      BY <1>1, <2>2, <2>3, <3>1, Appended
  <2>5. sendBuf'[1].text = code
    BY <2>3, <2>4
  <2>. QED
    BY <1>3, <1>5, <2>2, <2>5 DEF Handling
<1>6. CASE /\ state = SENDING_HEADER
           /\ sendBuf[1].text = code /\ Rest(req.method, calls, code)
  <2>1. HeadersOpen(sendBuf)
    BY <1>1, <1>2, <1>6 DEF Phase
  <2>2. CASE Head(calls).fn = "header"
    <3>1. state' = SENDING_HEADER /\ sendBuf' = Append(sendBuf, Part("header", ""))
      BY <1>6, <2>2 DEF Outcome, Left
    <3>2. Rest(req.method, Tail(calls), code)
      BY <1>1, <1>6, <2>2, RestTail
    <3>3. sendBuf'[1] = sendBuf[1]
      <4>1. Part("header", "") \in Parts
        BY PartOf DEF Texts
      <4>2. Len(sendBuf) \in Nat /\ Len(sendBuf) > 0
        BY <1>1, <2>1 DEF HeadersOpen
      <4>3. 1 \in 1..Len(sendBuf)
        BY <4>2
      <4>4. Append(sendBuf, Part("header", ""))[1] = sendBuf[1]
        BY <1>1, <4>1, <4>3, Appended
      <4>. QED
        BY <3>1, <4>4
    <3>. QED
      BY <1>3, <1>6, <3>1, <3>2, <3>3 DEF Handling
  <2>3. CASE Head(calls).fn # "header"
    <3>. DEFINE text == Head(calls).arg
    <3>1. Tail(calls) = <<>> /\ Head(calls).fn = "writef" /\ Fits(code, text)
      BY <1>1, <1>6, <2>3, RestTail
    <3>2. /\ state' = SENDING_DATA
          /\ sendBuf' = Append(Append(sendBuf, Part("blank", "")), Part("body", text))
      BY <1>6, <3>1 DEF Outcome, Left
    <3>3. text \in Texts
      BY <1>1, <3>1 DEF GoodCalls
    <3>4. /\ Part("body", text) \in Parts /\ Part("body", text).kind = "body"
          /\ Part("body", text).text = text
      BY <3>3, PartOf
    <3>5. Part("blank", "") \in Parts /\ Part("blank", "").kind = "blank"
      BY PartOf DEF Texts
    <3>6. Bodied(sendBuf')
      BY <1>1, <1>6, <2>1, <3>1, <3>2, <3>4, <3>5, BodyAnswers
    <3>7. Response' = sendBuf'
      <4>1. sendBuf' \in Seq(Parts)
        BY <1>1, <3>2, <3>4, <3>5, Appended
      <4>. QED
        BY <1>1, <4>1 DEF Response
    <3>8. Answer(state)'
      BY <1>3, <3>2, <3>6, <3>7 DEF Answer
    <3>. QED
      BY <3>1, <3>8 DEF Handling
  <2>. QED
    BY <2>2, <2>3
<1>. QED
  BY <1>4, <1>5, <1>6

LEMMA RespondStep ==
  ASSUME IInv, Respond
  PROVE  IInv'
<1>1. TypeOK /\ Stream /\ calls \in Seq(GoodCalls)
  BY DEF IInv
<1>2. /\ pc = "handler" /\ calls # <<>> /\ calls' = Tail(calls) /\ Head(calls).fn # "file"
      /\ UNCHANGED <<pc, req, got, wire, sendFd, fds, promised>>
  BY DEF Respond
<1>3. Head(calls) \in GoodCalls /\ calls' \in Seq(GoodCalls)
  BY <1>1, <1>2, HeadTailProperties
<1>4. /\ Head(calls).fn \in {"status", "header", "writef"}
      /\ Head(calls).fn \in {"status", "writef"} => Head(calls).arg \in Texts
  BY <1>2, <1>3 DEF GoodCalls
<1>5. PICK o :
        /\ Head(calls).fn = "status" => o \in sb_send_status(Here, Head(calls).arg)
        /\ Head(calls).fn = "header" => o \in sb_send_header(Here)
        /\ Head(calls).fn = "writef" => o \in sb_writef(Here, Head(calls).arg)
        /\ Leave(o)
  BY <1>4 DEF Respond
<1>6. Sound(Here) /\ Here.err = "none" /\ Here.state = state /\ Here.buf = sendBuf
  BY <1>2, HereSound
<1>7. /\ Sound(o)
      /\ state = SENDING_FILE => o.state = SENDING_FILE
      /\ Outcome(o)
  <2>0. SENDING_FILE > SENDING_HEADER
    BY DEF SENDING_FILE, SENDING_HEADER
  <2>1. CASE Head(calls).fn = "status"
    BY <1>4, <1>5, <1>6, <2>1, StatusSound DEF Outcome
  <2>2. CASE Head(calls).fn = "header"
    BY <1>5, <1>6, <2>0, <2>2, HeaderSound DEF Outcome
  <2>3. CASE Head(calls).fn = "writef"
    BY <1>4, <1>5, <1>6, <2>3, WritefSound DEF Outcome
  <2>. QED
    BY <1>4, <2>1, <2>2, <2>3
<1>8. /\ state' = o.state /\ sendBuf' = o.buf
      /\ trouble' = IF o.err = "memory" THEN trouble \union {"memory"} ELSE trouble
  BY <1>5 DEF Leave
<1>9. /\ o.state \in SENDING_STATUS..SENDING_FILE /\ o.buf \in Seq(Parts) /\ Phase(o.state, o.buf)
  BY <1>7 DEF Sound, Outcomes
<1>10. TypeOK'
  <2>1. calls' \in Seq([fn : {"status", "header", "writef", "file"},
                        arg : Texts \union {"cors", "close", "type"}])
    BY <1>3, CallsTyped
  <2>2. state' \in RECEIVING_HEADER..CLOSING
    BY <1>8, <1>9 DEF RECEIVING_HEADER, SENDING_STATUS, SENDING_FILE, CLOSING
  <2>. QED
    BY <1>1, <1>2, <1>8, <1>9, <2>1, <2>2 DEF TypeOK
<1>11. Phase(state', Response')
  <2>1. Response' = sendBuf'
    BY <1>1, <1>2, <1>8, <1>9 DEF Stream, Response
  <2>. QED
    BY <1>8, <1>9, <2>1
<1>12. Stream'
  BY <1>1, <1>2, <1>7, <1>8, <1>9 DEF Stream
<1>13. Form'
  <2>1. SUFFICES ASSUME Untroubled' PROVE Handling'
    BY <1>2 DEF Form
  <2>2. o.err # "memory" /\ Untroubled
    BY <1>8, <2>1 DEF Untroubled
  <2>. QED
    BY <1>2, <1>7, <1>8, <2>2, RespondForm
<1>. QED
  BY <1>3, <1>10, <1>11, <1>12, <1>13 DEF IInv

\* The file is open and its length announced.
LEMMA SendFileForm ==
  ASSUME IInv, Untroubled, pc = "handler", calls # <<>>, Head(calls).fn = "file"
  PROVE  /\ state = SENDING_HEADER /\ HeadersOpen(sendBuf) /\ Tail(calls) = <<>>
<1>1. /\ Handling /\ wire = <<>> /\ sendBuf \in Seq(Parts) /\ calls \in Seq(GoodCalls)
      /\ Phase(state, Response)
  BY DEF IInv, Form, Stream, TypeOK
<1>2. Response = sendBuf
  BY <1>1, Unsent
<1>3. PICK code \in Texts :
        \/ Head(calls).fn = "status"
        \/ /\ state = SENDING_HEADER
           /\ sendBuf[1].text = code /\ Rest(req.method, calls, code)
  BY <1>1 DEF Handling
<1>4. "file" # "status" /\ "file" # "header"
  OBVIOUS
<1>5. state = SENDING_HEADER /\ Rest(req.method, calls, code)
  BY <1>3, <1>4
<1>6. Tail(calls) = <<>>
  BY <1>1, <1>4, <1>5, RestTail
<1>. QED
  BY <1>1, <1>2, <1>5, <1>6 DEF Phase

LEMMA FileOpened ==
  ASSUME IInv, pc = "handler", calls # <<>>, Head(calls).fn = "file",
         NEW n \in 0..MaxFile, NEW o \in HeaderForFile(Here), o.err = "none",
         state' = SENDING_FILE, sendBuf' = o.buf, sendFd' = n, fds' = fds + 1, promised' = n,
         calls' = Tail(calls), UNCHANGED <<trouble, pc, req, got, wire>>
  PROVE  IInv'
<1>1. TypeOK /\ Stream /\ calls \in Seq(GoodCalls)
  BY DEF IInv
<1>2. calls' \in Seq(GoodCalls)
  BY <1>1, HeadTailProperties
<1>3. Sound(Here) /\ Here.err = "none" /\ Here.state = state /\ Here.buf = sendBuf
  BY HereSound
<1>4. /\ Sound(o) /\ o.state = SENDING_DATA /\ state <= SENDING_HEADER
      /\ state = SENDING_HEADER =>
           \/ o.err = "memory"
           \/ Left(o, SENDING_DATA,
                   Append(Append(sendBuf, Part("header", "")), Part("blank", "")))
  BY <1>3, FileSound
<1>5. o.buf \in Seq(Parts) /\ HeadersDone(o.buf)
  BY <1>4 DEF Sound, Outcomes, Phase
<1>6. sendFd = None /\ fds = 0
  <2>0. ~(SENDING_FILE <= SENDING_HEADER)
    BY DEF SENDING_HEADER, SENDING_FILE
  <2>1. state # SENDING_FILE
    BY <1>4, <2>0
  <2>. QED
    BY <1>1, <2>1 DEF Stream
<1>7. Response' = sendBuf'
  BY <1>1, <1>5 DEF Stream, Response
<1>8. n \in None..MaxFile /\ n # None /\ n \in Nat
  BY ExchangeAssumption DEF None
<1>9. TypeOK'
  <2>1. calls' \in Seq([fn : {"status", "header", "writef", "file"},
                        arg : Texts \union {"cors", "close", "type"}])
    BY <1>2, CallsTyped
  <2>2. state' \in RECEIVING_HEADER..CLOSING /\ fds' \in Nat
    BY <1>6 DEF RECEIVING_HEADER, SENDING_FILE, CLOSING
  <2>. QED
    BY <1>1, <1>5, <1>8, <2>1, <2>2 DEF TypeOK
<1>10. Phase(state', Response')
  BY <1>5, <1>7, PhaseOf
<1>11. Stream'
  <2>1. state' \in SENDING_STATUS..SENDING_FILE
    BY DEF SENDING_STATUS, SENDING_FILE
  <2>. QED
    BY <1>1, <1>6, <1>8, <2>1 DEF Stream
<1>12. Form'
  <2>1. SUFFICES ASSUME Untroubled' PROVE Handling'
    BY DEF Form
  <2>2. Untroubled
    BY <2>1 DEF Untroubled
  <2>3. state = SENDING_HEADER /\ HeadersOpen(sendBuf) /\ Tail(calls) = <<>>
    BY <2>2, SendFileForm
  <2>4. o.buf = Append(Append(sendBuf, Part("header", "")), Part("blank", ""))
    <3>1. o.err # "memory"
      OBVIOUS
    <3>. QED
      BY <1>4, <2>3, <3>1 DEF Left
  <2>5. /\ Part("header", "") \in Parts /\ Part("header", "").kind = "header"
        /\ Part("blank", "") \in Parts /\ Part("blank", "").kind = "blank"
    BY PartOf, ZenonT(40) DEF Texts
  <2>6. sendBuf \in Seq(Parts) /\ Append(sendBuf, Part("header", "")) \in Seq(Parts)
    BY <1>1, <2>5, Appended DEF TypeOK
  <2>7. HeadersOpen(Append(sendBuf, Part("header", "")))
    BY <2>3, <2>5, <2>6, HeaderFollows
  <2>8. Filed(o.buf, 0)
    BY <2>4, <2>5, <2>6, <2>7, FileAnswers
  <2>9. Filed(Response', promised' - sendFd')
    <3>1. n - n = 0
      BY <1>8
    <3>. QED
      BY <1>7, <2>8, <3>1
  <2>10. sendFd' <= promised'
    BY <1>8
  <2>11. Answer(state)'
    BY <1>8, <2>9, <2>10 DEF Answer
  <2>. QED
    BY <2>3, <2>11 DEF Handling
<1>. QED
  BY <1>2, <1>9, <1>10, <1>11, <1>12 DEF IInv

LEMMA FileHeaderFails ==
  ASSUME IInv, pc = "handler", calls # <<>>, Head(calls).fn = "file",
         NEW o \in HeaderForFile(Here), o.err # "none", Leave(o), calls' = kick_error("500"),
         UNCHANGED <<sendFd, fds, promised, pc, req, got, wire>>
  PROVE  IInv'
<1>1. TypeOK /\ Stream /\ calls \in Seq(GoodCalls)
  BY DEF IInv
<1>2. calls' \in Seq(GoodCalls)
  BY KickTyped
<1>3. Sound(Here) /\ Here.err = "none" /\ Here.state = state /\ Here.buf = sendBuf
  BY HereSound
<1>4. /\ Sound(o)
      /\ state = SENDING_HEADER => o.err = "memory"
      /\ state > SENDING_HEADER => o.state = state
  BY <1>3, FileSound DEF Left
<1>5. o.buf \in Seq(Parts) /\ o.state \in SENDING_STATUS..SENDING_FILE /\ Phase(o.state, o.buf)
  BY <1>4 DEF Sound, Outcomes
<1>6. /\ state' = o.state /\ sendBuf' = o.buf
      /\ trouble' = IF o.err = "memory" THEN trouble \union {"memory"} ELSE trouble
  BY DEF Leave
<1>7. Response' = sendBuf'
  BY <1>1, <1>5, <1>6 DEF Stream, Response
<1>8. TypeOK'
  <2>1. calls' \in Seq([fn : {"status", "header", "writef", "file"},
                        arg : Texts \union {"cors", "close", "type"}])
    BY <1>2, CallsTyped
  <2>2. state' \in RECEIVING_HEADER..CLOSING
    BY <1>5, <1>6 DEF RECEIVING_HEADER, SENDING_STATUS, SENDING_FILE, CLOSING
  <2>. QED
    BY <1>1, <1>5, <1>6, <2>1, <2>2 DEF TypeOK
<1>9. Phase(state', Response')
  BY <1>5, <1>6, <1>7
<1>10. Stream'
  <2>1. SENDING_FILE > SENDING_HEADER
    BY DEF SENDING_FILE, SENDING_HEADER
  <2>. QED
    BY <1>1, <1>4, <1>5, <1>6, <2>1 DEF Stream
<1>11. Form'
  <2>1. SUFFICES ASSUME Untroubled' PROVE FALSE
    BY DEF Form
  <2>2. o.err # "memory" /\ Untroubled
    BY <1>6, <2>1 DEF Untroubled
  <2>. QED
    BY <1>4, <2>2, SendFileForm
<1>. QED
  BY <1>2, <1>8, <1>9, <1>10, <1>11 DEF IInv

LEMMA FileNotOpened ==
  ASSUME IInv, pc = "handler", trouble' = trouble \union {"open"}, calls' = kick_error("500"),
         UNCHANGED <<state, sendBuf, sendFd, fds, promised, pc, req, got, wire>>
  PROVE  IInv'
<1>1. TypeOK /\ Stream /\ Phase(state, Response)
  BY DEF IInv
<1>2. calls' \in Seq(GoodCalls)
  BY KickTyped
<1>3. calls' \in Seq([fn : {"status", "header", "writef", "file"},
                      arg : Texts \union {"cors", "close", "type"}])
  BY <1>2, CallsTyped
<1>4. TypeOK'
  BY <1>1, <1>3 DEF TypeOK
<1>5. Phase(state', Response')
  BY <1>1 DEF Response
<1>6. Stream'
  BY <1>1 DEF Stream
<1>7. Form'
  BY DEF Form, Untroubled
<1>. QED
  BY <1>2, <1>4, <1>5, <1>6, <1>7 DEF IInv

LEMMA SendFileStep ==
  ASSUME IInv, SendFile
  PROVE  IInv'
<1>1. /\ pc = "handler" /\ calls # <<>> /\ Head(calls).fn = "file"
      /\ UNCHANGED <<pc, req, got, wire>>
  BY DEF SendFile
<1>2. ASSUME NEW n \in 0..MaxFile, NEW o \in HeaderForFile(Here), o.err = "none",
             state' = SENDING_FILE, sendBuf' = o.buf, sendFd' = n, fds' = fds + 1,
             promised' = n, calls' = Tail(calls), UNCHANGED trouble
      PROVE  IInv'
  BY <1>1, <1>2, FileOpened
<1>3. ASSUME NEW o \in HeaderForFile(Here), o.err # "none", Leave(o),
             calls' = kick_error("500"), UNCHANGED <<sendFd, fds, promised>>
      PROVE  IInv'
  BY <1>1, <1>3, FileHeaderFails
<1>4. ASSUME trouble' = trouble \union {"open"}, calls' = kick_error("500"),
             UNCHANGED <<state, sendBuf, sendFd, fds, promised>>
      PROVE  IInv'
  BY <1>1, <1>4, FileNotOpened
<1>. QED
  BY <1>2, <1>3, <1>4 DEF SendFile

LEMMA HandlerReturnsStep ==
  ASSUME IInv, HandlerReturns
  PROVE  IInv'
<1>1. TypeOK /\ Stream /\ calls \in Seq(GoodCalls) /\ Phase(state, Response)
  BY DEF IInv
<1>2. /\ pc = "handler" /\ calls = <<>> /\ pc' = "send"
      /\ UNCHANGED <<req, got, state, calls, sendBuf, wire, sendFd, fds, promised, trouble>>
  BY DEF HandlerReturns
<1>3. TypeOK'
  BY <1>1, <1>2 DEF TypeOK
<1>4. Response' = Response
  BY <1>2 DEF Response
<1>5. Stream'
  BY <1>1, <1>2 DEF Stream
<1>6. Form'
  <2>1. SUFFICES ASSUME Untroubled PROVE Answer(state)'
    BY <1>2 DEF Form, Untroubled
  <2>2. Handling
    BY <1>2, <2>1 DEF IInv, Form
  <2>3. Answer(state)
    <3>1. CASE state = SENDING_HEADER /\ Rest(req.method, calls, sendBuf[1].text)
               /\ sendFd = None /\ promised = None
      <4>1. req.method = "OPTIONS"
        BY <1>2, <3>1 DEF Rest
      <4>2. HeadersOpen(Response)
        BY <1>1, <3>1 DEF Phase
      <4>. QED
        BY <3>1, <4>1, <4>2 DEF Answer
    <3>. QED
      BY <1>2, <2>2, <3>1 DEF Handling
  <2>. QED
    BY <1>2, <1>4, <2>3 DEF Answer
<1>. QED
  BY <1>1, <1>2, <1>3, <1>4, <1>5, <1>6 DEF IInv

\* Sending moves parts from the buffer to the wire and changes no response.
LEMMA Moved ==
  ASSUME NEW S, NEW w \in Seq(S), NEW b \in Seq(S), NEW n \in 1..Len(b)
  PROVE  /\ w \o SubSeq(b, 1, n) \in Seq(S) /\ SubSeq(b, n + 1, Len(b)) \in Seq(S)
         /\ (w \o SubSeq(b, 1, n)) \o SubSeq(b, n + 1, Len(b)) = w \o b
<1>1. Len(b) \in Nat /\ Len(w) \in Nat
  OBVIOUS
<1>. DEFINE x == SubSeq(b, 1, n)
            y == SubSeq(b, n + 1, Len(b))
<1>2. /\ x \in Seq(S) /\ Len(x) = n
      /\ \A i \in 1..n : x[i] = b[i]
  BY <1>1, SubSeqProperties
<1>3. /\ y \in Seq(S) /\ Len(y) = Len(b) - n
      /\ \A i \in 1..(Len(b) - n) : y[i] = b[n + i]
  <2>1. \A i \in (n + 1)..Len(b) : i \in 1..Len(b)
    BY <1>1
  <2>2. Len(b) \in n..Len(b) /\ n + 1 \in Nat
    BY <1>1
  <2>. QED
    BY <1>1, <2>1, <2>2, SubSeqProperties
<1>. HIDE DEF x, y
<1>4. /\ w \o x \in Seq(S) /\ Len(w \o x) = Len(w) + n
      /\ \A i \in 1..(Len(w) + n) : (w \o x)[i] = IF i <= Len(w) THEN w[i] ELSE x[i - Len(w)]
  BY <1>2, ConcatProperties
<1>5. /\ (w \o x) \o y \in Seq(S) /\ Len((w \o x) \o y) = Len(w) + Len(b)
      /\ \A i \in 1..(Len(w) + Len(b)) :
           ((w \o x) \o y)[i] = IF i <= Len(w) + n THEN (w \o x)[i] ELSE y[i - (Len(w) + n)]
  <2>1. Len(w \o x) + Len(y) = Len(w) + Len(b)
    BY <1>1, <1>3, <1>4
  <2>. DEFINE a == w \o x
  <2>2. a \in Seq(S) /\ Len(a) = Len(w) + n
    BY <1>4
  <2>. HIDE DEF a
  <2>3. /\ a \o y \in Seq(S) /\ Len(a \o y) = Len(a) + Len(y)
        /\ \A i \in 1..(Len(a) + Len(y)) : (a \o y)[i] = IF i <= Len(a) THEN a[i] ELSE y[i - Len(a)]
    BY <1>3, <2>2, ConcatProperties
  <2>4. Len(a) + Len(y) = Len(w) + Len(b)
    BY <2>1 DEF a
  <2>5. /\ a \o y \in Seq(S) /\ Len(a \o y) = Len(w) + Len(b)
        /\ \A i \in 1..(Len(w) + Len(b)) :
             (a \o y)[i] = IF i <= Len(w) + n THEN a[i] ELSE y[i - (Len(w) + n)]
    BY <2>2, <2>3, <2>4
  <2>. QED
    BY <2>5 DEF a
<1>6. /\ w \o b \in Seq(S) /\ Len(w \o b) = Len(w) + Len(b)
      /\ \A i \in 1..(Len(w) + Len(b)) : (w \o b)[i] = IF i <= Len(w) THEN w[i] ELSE b[i - Len(w)]
  BY ConcatProperties
<1>7. ASSUME NEW i \in 1..(Len(w) + Len(b))
      PROVE  ((w \o x) \o y)[i] = (w \o b)[i]
  <2>1. CASE i <= Len(w)
    <3>1. i \in 1..(Len(w) + n) /\ i <= Len(w) + n
      BY <1>1, <2>1
    <3>. QED
      BY <1>4, <1>5, <1>6, <2>1, <3>1
  <2>2. CASE ~(i <= Len(w)) /\ i <= Len(w) + n
    <3>1. i \in 1..(Len(w) + n) /\ i - Len(w) \in 1..n
      BY <1>1, <2>2
    <3>. QED
      BY <1>2, <1>4, <1>5, <1>6, <2>2, <3>1
  <2>3. CASE ~(i <= Len(w)) /\ ~(i <= Len(w) + n)
    <3>1. i - (Len(w) + n) \in 1..(Len(b) - n) /\ n + (i - (Len(w) + n)) = i - Len(w)
      BY <1>1, <2>3
    <3>. QED
      BY <1>3, <1>5, <1>6, <2>3, <3>1
  <2>. QED
    BY <2>1, <2>2, <2>3
<1>8. (w \o x) \o y = w \o b
  BY <1>5, <1>6, <1>7, SeqEqual
<1>. QED
  BY <1>3, <1>4, <1>8 DEF x, y

LEMMA SendSomeStep ==
  ASSUME IInv, SendSome
  PROVE  IInv'
<1>1. TypeOK /\ Stream /\ calls \in Seq(GoodCalls) /\ Phase(state, Response)
  BY DEF IInv
<1>2. /\ pc = "send"
      /\ UNCHANGED <<pc, req, got, state, calls, sendFd, fds, promised, trouble>>
  BY DEF SendSome
<1>3. PICK n \in 1..Len(sendBuf) :
        /\ wire' = wire \o SubSeq(sendBuf, 1, n)
        /\ sendBuf' = SubSeq(sendBuf, n + 1, Len(sendBuf))
  BY DEF SendSome
<1>4. wire \in Seq(Parts) /\ sendBuf \in Seq(Parts)
  BY <1>1 DEF TypeOK
<1>5. wire' \in Seq(Parts) /\ sendBuf' \in Seq(Parts) /\ Response' = Response
  BY <1>3, <1>4, Moved DEF Response
<1>6. TypeOK'
  BY <1>1, <1>2, <1>5 DEF TypeOK
<1>7. Stream'
  BY <1>1, <1>2 DEF Stream
<1>8. Form'
  <2>1. Untroubled' => Answer(state)
    BY <1>2 DEF IInv, Form, Untroubled
  <2>2. Answer(state) => Answer(state)'
    BY <1>2, <1>5 DEF Answer
  <2>. QED
    BY <1>2, <2>1, <2>2 DEF Form
<1>. QED
  BY <1>1, <1>2, <1>5, <1>6, <1>7, <1>8 DEF IInv

\* The ways out of sb_stream_send.
LEMMA LeavingSend ==
  ASSUME IInv, pc = "send", pc' = "destroy", state' = state \/ state' = CLOSING,
         NEW w \in SUBSET {"memory", "open", "read", "client"}, trouble' = trouble \union w,
         w = {} => sendBuf = <<>> /\ sendFd = None,
         UNCHANGED <<req, got, calls, sendBuf, wire, sendFd, fds, promised>>
  PROVE  IInv'
<1>1. TypeOK /\ Stream /\ calls \in Seq(GoodCalls) /\ Phase(state, Response)
  BY DEF IInv
<1>2. Response' = Response
  BY DEF Response
<1>3. TypeOK'
  <2>1. CLOSING \in RECEIVING_HEADER..CLOSING
    BY DEF RECEIVING_HEADER, CLOSING
  <2>. QED
    BY <1>1, <2>1 DEF TypeOK
<1>4. Phase(state', Response')
  <2>1. state \in 0..6
    BY <1>1 DEF TypeOK, RECEIVING_HEADER, CLOSING
  <2>2. Grammar(Response)
    BY <1>1, <2>1, PhaseGrammar
  <2>3. Phase(CLOSING, Response)
    BY <2>2 DEF Phase, SENDING_STATUS, SENDING_HEADER, SENDING_DATA, SENDING_FILE, CLOSING
  <2>. QED
    BY <1>1, <1>2, <2>3
<1>5. Stream'
  BY <1>1 DEF Stream
<1>6. Form'
  <2>1. Untroubled' => Answer(state)
    BY DEF IInv, Form, Untroubled
  <2>2. \A s \in SENDING_HEADER..SENDING_FILE : Answer(s) => Answer(s)'
    BY <1>2 DEF Answer
  <2>3. Answer(state) => state \in SENDING_HEADER..SENDING_FILE
    BY DEF Answer, SENDING_HEADER, SENDING_DATA, SENDING_FILE
  <2>4. trouble' = {} => w = {}
    OBVIOUS
  <2>. QED
    BY <2>1, <2>2, <2>3, <2>4 DEF Form
<1>. QED
  BY <1>1, <1>3, <1>4, <1>5, <1>6 DEF IInv

LEMMA LeavingSendStep ==
  ASSUME IInv, SendFails \/ ReadFails \/ NoChunkBuffer \/ Finished
  PROVE  IInv'
<1>1. CASE SendFails
  <2>1. {"client"} \in SUBSET {"memory", "open", "read", "client"} /\ {"client"} # {}
    OBVIOUS
  <2>. QED
    BY <1>1, <2>1, LeavingSend DEF SendFails
<1>2. CASE ReadFails
  <2>1. {"read"} \in SUBSET {"memory", "open", "read", "client"} /\ {"read"} # {}
    OBVIOUS
  <2>. QED
    BY <1>2, <2>1, LeavingSend DEF ReadFails
<1>3. CASE NoChunkBuffer
  <2>1. {"memory"} \in SUBSET {"memory", "open", "read", "client"} /\ {"memory"} # {}
    OBVIOUS
  <2>. QED
    BY <1>3, <2>1, LeavingSend DEF NoChunkBuffer
<1>4. CASE Finished
  <2>1. {} \in SUBSET {"memory", "open", "read", "client"} /\ trouble \union {} = trouble
    OBVIOUS
  <2>. QED
    BY <1>4, <2>1, LeavingSend DEF Finished
<1>. QED
  BY <1>1, <1>2, <1>3, <1>4

LEMMA ReadChunkStep ==
  ASSUME IInv, ReadChunk
  PROVE  IInv'
<1>1. TypeOK /\ Stream /\ calls \in Seq(GoodCalls) /\ Phase(state, Response)
  BY DEF IInv
<1>. DEFINE p == Part("file", "")
<1>2. /\ pc = "send" /\ sendBuf = <<>> /\ sendFd > 0
      /\ sendBuf' = <<p>> /\ sendFd' = sendFd - 1
      /\ UNCHANGED <<pc, req, got, state, calls, wire, fds, promised, trouble>>
  BY DEF ReadChunk
<1>3. /\ sendFd \in Nat /\ sendFd # None /\ sendFd' \in None..MaxFile /\ sendFd' # None
      /\ sendFd' \in Nat
  <2>1. sendFd \in None..MaxFile
    BY <1>1 DEF TypeOK
  <2>2. sendFd > 0 /\ sendFd' = sendFd - 1
    BY <1>2
  <2>. QED
    BY <2>1, <2>2, ExchangeAssumption DEF None
<1>4. p \in Parts /\ p.kind = "file"
  BY PartOf DEF Texts
<1>. HIDE DEF p
<1>5. wire \in Seq(Parts) /\ Response = wire /\ Response' = Append(wire, p)
  <2>1. wire \in Seq(Parts)
    BY <1>1 DEF TypeOK
  <2>2. wire \o <<>> = wire /\ wire \o <<p>> = Append(wire, p)
    BY <1>4, <2>1, ConcatEmptySeq, AppendIsConcat
  <2>. QED
    BY <1>2, <2>1, <2>2 DEF Response
<1>6. state = SENDING_FILE /\ fds = 1
  BY <1>1, <1>2, <1>3 DEF Stream
<1>7. TypeOK'
  <2>1. sendBuf' \in Seq(Parts)
    BY <1>2, <1>4
  <2>. QED
    BY <1>1, <1>2, <1>3, <2>1 DEF TypeOK
<1>8. Phase(state', Response')
  <2>1. HeadersDone(wire)
    BY <1>1, <1>5, <1>6 DEF Phase
  <2>2. HeadersDone(Append(wire, p))
    BY <1>4, <1>5, <2>1, BodyFollows
  <2>. QED
    BY <1>2, <1>5, <1>6, <2>2, PhaseOf
<1>9. Stream'
  BY <1>1, <1>2, <1>3, <1>6 DEF Stream
<1>10. Form'
  <2>1. SUFFICES ASSUME Untroubled PROVE Answer(state)'
    BY <1>2 DEF Form, Untroubled
  <2>2. Answer(state)
    BY <1>2, <2>1 DEF IInv, Form
  <2>3. promised # None /\ sendFd <= promised /\ Filed(wire, promised - sendFd)
    BY <1>3, <1>5, <1>6, <2>2 DEF Answer, SENDING_HEADER, SENDING_DATA, SENDING_FILE
  <2>4. promised \in Int
    BY <1>1, ExchangeAssumption DEF TypeOK, None
  <2>5. promised - sendFd \in Nat /\ (promised - sendFd) + 1 = promised - sendFd'
        /\ sendFd' <= promised
    BY <1>2, <1>3, <2>3, <2>4
  <2>6. Filed(Append(wire, p), (promised - sendFd) + 1)
    BY <1>4, <1>5, <2>3, <2>5, ChunkFollows
  <2>7. Filed(Response', promised' - sendFd')
    BY <1>2, <1>5, <2>5, <2>6
  <2>. QED
    BY <1>2, <1>3, <1>6, <2>3, <2>5, <2>7 DEF Answer
<1>. QED
  BY <1>1, <1>2, <1>7, <1>8, <1>9, <1>10 DEF IInv

LEMMA EndOfFileStep ==
  ASSUME IInv, EndOfFile
  PROVE  IInv'
<1>1. TypeOK /\ Stream /\ calls \in Seq(GoodCalls) /\ Phase(state, Response)
  BY DEF IInv
<1>2. /\ pc = "send" /\ sendFd = 0 /\ sendFd' = None /\ fds' = fds - 1
      /\ UNCHANGED <<pc, req, got, state, calls, sendBuf, wire, promised, trouble>>
  BY DEF EndOfFile
<1>3. sendFd # None /\ None \in None..MaxFile
  BY <1>2, ExchangeAssumption DEF None
<1>4. state = SENDING_FILE /\ fds = 1
  BY <1>1, <1>2, <1>3 DEF Stream
<1>5. Response' = Response
  BY <1>2 DEF Response
<1>6. TypeOK'
  BY <1>1, <1>2, <1>3, <1>4 DEF TypeOK
<1>7. Stream'
  BY <1>1, <1>2, <1>4 DEF Stream
<1>8. Form'
  <2>1. SUFFICES ASSUME Untroubled PROVE Answer(state)'
    BY <1>2 DEF Form, Untroubled
  <2>2. Answer(state)
    BY <1>2, <2>1 DEF IInv, Form
  <2>3. promised # None /\ Filed(Response, promised - sendFd)
    BY <1>3, <1>4, <2>2 DEF Answer, SENDING_HEADER, SENDING_DATA, SENDING_FILE
  <2>4. promised - sendFd = promised
    BY <1>1, <1>2, ExchangeAssumption DEF TypeOK, None
  <2>. QED
    BY <1>2, <1>4, <1>5, <2>3, <2>4 DEF Answer
<1>. QED
  BY <1>1, <1>2, <1>5, <1>6, <1>7, <1>8 DEF IInv

LEMMA DestroyStep ==
  ASSUME IInv, Destroy
  PROVE  IInv'
<1>1. TypeOK /\ Stream /\ calls \in Seq(GoodCalls) /\ Phase(state, Response) /\ Form
  BY DEF IInv
<1>2. /\ pc = "destroy" /\ pc' = "done" /\ fds' = IF sendFd # None THEN fds - 1 ELSE fds
      /\ UNCHANGED <<req, got, state, calls, sendBuf, wire, sendFd, promised, trouble>>
  BY DEF Destroy
<1>3. fds' = 0
  BY <1>1, <1>2 DEF Stream
<1>4. Response' = Response
  BY <1>2 DEF Response
<1>5. TypeOK'
  BY <1>1, <1>2, <1>3 DEF TypeOK
<1>6. Stream'
  BY <1>1, <1>2, <1>3 DEF Stream
<1>7. Form'
  <2>1. \A s \in SENDING_HEADER..SENDING_FILE : Answer(s) => Answer(s)'
    BY <1>2, <1>4 DEF Answer
  <2>. QED
    BY <1>1, <1>2, <1>4, <2>1 DEF Form, Untroubled
<1>. QED
  BY <1>1, <1>2, <1>4, <1>5, <1>6, <1>7 DEF IInv

LEMMA Stutter ==
  ASSUME IInv, UNCHANGED vars
  PROVE  IInv'
BY DEF vars, IInv, TypeOK, Stream, Form, Handling, Answer, Response, Untroubled

LEMMA Inductive ==
  ASSUME IInv, [Next]_vars
  PROVE  IInv'
BY RecvHeaderStep, RecvBodyStep, RecvEndsStep, RespondStep, SendFileStep, HandlerReturnsStep,
   SendSomeStep, LeavingSendStep, ReadChunkStep, EndOfFileStep, DestroyStep, Stutter
   DEF Next, Thread

-------------------------------------------------------------------------------
(* What the answers are *)

\* The parts of a response with headers only.
LEMMA OpenParts ==
  ASSUME NEW r \in Seq(Parts), HeadersOpen(r), NEW i \in DOMAIN r
  PROVE  r[i].kind = IF i = 1 THEN "status" ELSE "header"
<1>1. Len(r) \in Nat /\ DOMAIN r = 1..Len(r)
  OBVIOUS
<1>2. i = 1 \/ i \in 2..Len(r)
  BY <1>1
<1>. QED
  BY <1>2 DEF HeadersOpen

\* ... with the headers ending at b.
LEMMA PartsBefore ==
  ASSUME NEW r \in Seq(Parts), NEW b, HeadersAt(r, b), NEW i \in DOMAIN r
  PROVE  /\ b \in 2..Len(r) /\ Len(r) \in Nat /\ DOMAIN r = 1..Len(r)
         /\ i \notin (b + 1)..Len(r) =>
              r[i].kind = IF i = 1 THEN "status" ELSE IF i = b THEN "blank" ELSE "header"
<1>1. Len(r) \in Nat /\ DOMAIN r = 1..Len(r) /\ b \in 2..Len(r)
  BY DEF HeadersAt
<1>2. i = 1 \/ (i # 1 /\ i = b) \/ (i # 1 /\ i # b /\ i \in 2..(b - 1)) \/ i \in (b + 1)..Len(r)
  BY <1>1
<1>. QED
  BY <1>1, <1>2 DEF HeadersAt

LEMMA HeadersAlone ==
  ASSUME Response \in Seq(Parts), HeadersOpen(Response)
  PROVE  Count("status") = 1
<1>1. 1 \in DOMAIN Response
  BY DEF HeadersOpen
<1>2. {i \in DOMAIN Response : Response[i].kind = "status"} = {1}
  <2>1. "status" # "header"
    OBVIOUS
  <2>. QED
    BY <1>1, <2>1, OpenParts
<1>. QED
  BY <1>2, FS_Singleton DEF Count

\* What is counted up to the blank line, when everything after it is of one other kind.
LEMMA HeadersCounted ==
  ASSUME Response \in Seq(Parts), NEW b, HeadersAt(Response, b),
         NEW k \in {"body", "file"}, \A i \in (b + 1)..Len(Response) : Response[i].kind = k
  PROVE  /\ Count("status") = 1 /\ Count("blank") = 1
         /\ {i \in DOMAIN Response : Response[i].kind = k} = (b + 1)..Len(Response)
<1>1. b \in 2..Len(Response) /\ Len(Response) \in Nat /\ DOMAIN Response = 1..Len(Response)
  BY DEF HeadersAt
<1>2. 1 \in DOMAIN Response /\ b \in DOMAIN Response /\ b # 1
      /\ 1 \notin (b + 1)..Len(Response) /\ b \notin (b + 1)..Len(Response)
      /\ (b + 1)..Len(Response) \subseteq DOMAIN Response
  BY <1>1
<1>3. \A i \in DOMAIN Response :
        Response[i].kind = IF i \in (b + 1)..Len(Response) THEN k
                           ELSE IF i = 1 THEN "status" ELSE IF i = b THEN "blank" ELSE "header"
  BY PartsBefore
<1>4. /\ k # "status" /\ k # "blank" /\ k # "header" /\ "status" # "blank"
      /\ "status" # "header" /\ "blank" # "header"
  OBVIOUS
<1>5. {i \in DOMAIN Response : Response[i].kind = "status"} = {1}
  BY <1>2, <1>3, <1>4
<1>6. {i \in DOMAIN Response : Response[i].kind = "blank"} = {b}
  BY <1>2, <1>3, <1>4
<1>7. {i \in DOMAIN Response : Response[i].kind = k} = (b + 1)..Len(Response)
  BY <1>2, <1>3, <1>4
<1>. QED
  BY <1>5, <1>6, <1>7, FS_Singleton DEF Count

LEMMA BodyCounted ==
  ASSUME Response \in Seq(Parts), Bodied(Response)
  PROVE  /\ Count("status") = 1 /\ Count("blank") = 1 /\ Count("body") = 1
<1>1. PICK b \in 2..Len(Response) :
        /\ HeadersAt(Response, b) /\ Len(Response) = b + 1
        /\ Response[b + 1].kind = "body"
  BY DEF Bodied
<1>2. (b + 1)..Len(Response) = {b + 1}
  BY <1>1
<1>3. \A i \in (b + 1)..Len(Response) : Response[i].kind = "body"
  BY <1>1, <1>2
<1>4. /\ Count("status") = 1 /\ Count("blank") = 1
      /\ {i \in DOMAIN Response : Response[i].kind = "body"} = {b + 1}
  BY <1>1, <1>2, <1>3, HeadersCounted
<1>. QED
  BY <1>4, FS_Singleton DEF Count

LEMMA FileCounted ==
  ASSUME Response \in Seq(Parts), NEW k \in Nat, Filed(Response, k)
  PROVE  /\ Count("status") = 1 /\ Count("blank") = 1 /\ Count("file") = k
<1>1. PICK b \in 2..Len(Response) :
        /\ HeadersAt(Response, b) /\ Len(Response) = b + k
        /\ \A i \in (b + 1)..Len(Response) : Response[i].kind = "file"
  BY DEF Filed
<1>2. /\ Count("status") = 1 /\ Count("blank") = 1
      /\ {i \in DOMAIN Response : Response[i].kind = "file"} = (b + 1)..Len(Response)
  BY <1>1, HeadersCounted
<1>3. Cardinality((b + 1)..(b + k)) = k
  <2>1. b + 1 \in Int /\ b + k \in Int
    BY <1>1
  <2>2. Cardinality((b + 1)..(b + k))
          = IF b + 1 > b + k THEN 0 ELSE (b + k) - (b + 1) + 1
    BY <2>1, FS_Interval
  <2>. QED
    BY <1>1, <2>2
<1>. QED
  BY <1>1, <1>2, <1>3 DEF Count

\* The bodies of an answer fit its status.
LEMMA AnswerFits ==
  ASSUME Response \in Seq(Parts), NEW s, Answer(s), NEW i \in DOMAIN Response,
         Response[i].kind = "body"
  PROVE  Fits(Response[1].text, Response[i].text)
<1>0. /\ "body" # "status" /\ "body" # "header" /\ "body" # "blank" /\ "body" # "file"
  OBVIOUS
<1>1. CASE HeadersOpen(Response)
  BY <1>0, <1>1, OpenParts
<1>2. CASE Bodied(Response)
  <2>1. PICK b \in 2..Len(Response) :
          /\ HeadersAt(Response, b) /\ Len(Response) = b + 1
          /\ Fits(Response[1].text, Response[b + 1].text)
    BY <1>2 DEF Bodied
  <2>2. i \in (b + 1)..Len(Response)
    BY <1>0, <2>1, PartsBefore
  <2>3. i = b + 1
    BY <2>1, <2>2
  <2>. QED
    BY <2>1, <2>3
<1>3. ASSUME NEW k, Filed(Response, k)
      PROVE  FALSE
  <2>1. PICK b \in 2..Len(Response) :
          /\ HeadersAt(Response, b)
          /\ \A j \in (b + 1)..Len(Response) : Response[j].kind = "file"
    BY <1>3 DEF Filed
  <2>. QED
    BY <1>0, <2>1, PartsBefore
<1>. QED
  BY <1>1, <1>2, <1>3 DEF Answer

LEMMA KeepsStatus == IInv => ErrorKeepsStatus
<1>1. SUFFICES ASSUME IInv, Untroubled, NEW i \in DOMAIN Response, Response[i].kind = "body"
               PROVE  Fits(Response[1].text, Response[i].text)
  BY DEF ErrorKeepsStatus, Untroubled, Fits
<1>2. TypeOK /\ Stream /\ Phase(state, Response) /\ Form
  BY <1>1 DEF IInv
<1>3. wire \in Seq(Parts) /\ sendBuf \in Seq(Parts)
  BY <1>2 DEF TypeOK
<1>4. Response \in Seq(Parts)
  BY <1>3, ConcatProperties DEF Response
<1>5. Response # <<>>
  OBVIOUS
<1>6. pc # "recv"
  BY <1>2, <1>5 DEF Stream, Response
<1>7. CASE HeadersOpen(Response)
  <2>1. "body" # "status" /\ "body" # "header"
    OBVIOUS
  <2>. QED
    BY <1>1, <1>4, <1>7, <2>1, OpenParts
<1>8. ASSUME NEW s, Answer(s) PROVE Fits(Response[1].text, Response[i].text)
  BY <1>1, <1>4, <1>8, AnswerFits
<1>9. CASE pc = "handler"
  <2>1. state # SENDING_STATUS
    BY <1>2, <1>5 DEF Phase, SENDING_STATUS
  <2>2. state = SENDING_HEADER => HeadersOpen(Response)
    BY <1>2 DEF Phase
  <2>3. Handling
    BY <1>1, <1>2, <1>9 DEF Form
  <2>4. state = SENDING_HEADER \/ Answer(state)
    BY <2>1, <2>3 DEF Handling
  <2>. QED
    BY <1>7, <1>8, <2>2, <2>4
<1>10. CASE pc = "send"
  BY <1>1, <1>2, <1>8, <1>10 DEF Form
<1>11. CASE pc \in {"destroy", "done"}
  BY <1>1, <1>2, <1>5, <1>8, <1>11 DEF Form
<1>. QED
  BY <1>2, <1>6, <1>9, <1>10, <1>11 DEF TypeOK

LEMMA IsWhole == IInv => AnsweredWhole
<1>1. SUFFICES ASSUME IInv, pc = "done", trouble = {}, req.line
               PROVE  /\ sendBuf = <<>>
                      /\ Count("status") = 1
                      /\ req.method # "OPTIONS" => Count("blank") = 1
                      /\ IF promised # None THEN Count("file") = promised
                         ELSE req.method # "OPTIONS" => Count("body") = 1
  BY DEF AnsweredWhole
<1>2. TypeOK /\ Form /\ Untroubled
  BY <1>1 DEF IInv, Untroubled
<1>3. Response \in Seq(Parts)
  BY <1>2, ConcatProperties DEF Response, TypeOK
<1>4. PICK s \in SENDING_HEADER..SENDING_FILE : Answer(s)
  BY <1>1, <1>2 DEF Form
<1>5. sendBuf = <<>> /\ sendFd = None
  BY <1>1, <1>2 DEF Form
<1>6. CASE req.method = "OPTIONS" /\ HeadersOpen(Response) /\ promised = None
  BY <1>3, <1>5, <1>6, HeadersAlone
<1>7. CASE Bodied(Response) /\ promised = None
  BY <1>3, <1>5, <1>7, BodyCounted
<1>8. CASE promised # None /\ Filed(Response, promised)
  <2>1. promised \in Nat
    <3>1. promised \in None..MaxFile
      BY <1>2 DEF TypeOK
    <3>. QED
      BY <3>1, <1>8, ExchangeAssumption DEF None
  <2>. QED
    BY <1>3, <1>5, <1>8, <2>1, FileCounted
<1>. QED
  BY <1>4, <1>5, <1>6, <1>7, <1>8 DEF Answer

LEMMA HasGrammar == IInv => ResponseGrammar
<1>1. SUFFICES ASSUME IInv PROVE ResponseGrammar
  OBVIOUS
<1>2. TypeOK /\ Phase(state, Response)
  BY <1>1 DEF IInv
<1>3. Response \in Seq(Parts)
  BY <1>2, ConcatProperties DEF Response, TypeOK
<1>4. state \in 0..6
  BY <1>2 DEF TypeOK, RECEIVING_HEADER, CLOSING
<1>. QED
  BY <1>2, <1>3, <1>4, PhaseGrammar, GrammarHolds

LEMMA IsClean == IInv => ConnectionClean
BY DEF IInv, Stream, ConnectionClean

-------------------------------------------------------------------------------
(* The theorems *)

\* The invariant holds in every state of every behaviour, whatever fails.
THEOREM Invariant == Spec => []IInv
<1>1. Init => IInv
  BY Start
<1>2. IInv /\ [Next]_vars => IInv'
  BY Inductive
<1>. QED
  BY <1>1, <1>2, PTL DEF Spec

\* Whatever fails and however the handlers go on after a failed call, what sb_send_status,
\* sb_send_header and sb_writef leave in the buffer is one response of HTTP.
THEOREM OneResponse == Spec => []ResponseGrammar
BY Invariant, HasGrammar, PTL

\* kick_error's text goes out under kick_error's status as long as memory lasts and
\* files can be opened.
THEOREM StatusOfError == Spec => []ErrorKeepsStatus
BY Invariant, KeepsStatus, PTL

\* A request that is handled and meets no trouble is answered whole, with as much of a
\* file as sb_send_file announced.
THEOREM WholeAnswer == Spec => []AnsweredWhole
BY Invariant, IsWhole, PTL

\* Every descriptor sb_send_file opens is closed exactly once, by the end of the file or
\* by sb_stream_destroy, and nothing is sent of a request that was not understood.
THEOREM NoDescriptorLeft == Spec => []ConnectionClean
BY Invariant, IsClean, PTL

-------------------------------------------------------------------------------
(* The end of a connection *)

\* How far a connection is from its end: first by where its thread is ...
StagesLeft ==
  CASE pc = "recv"    -> 4
    [] pc = "handler" -> 3
    [] pc = "send"    -> 2
    [] pc = "destroy" -> 1
    [] OTHER          -> 0

\* ... and then by what is left to do there: what is still to be received; calls, of which
\* one that sends a file may be followed by the four of kick_error; parts in the buffer
\* and chunks in the file.
FileToCome == \E i \in 1..Len(calls) : calls[i].fn = "file"

WorkLeft ==
  CASE pc = "recv"    -> IF state = RECEIVING_HEADER THEN MaxBody + 1 ELSE MaxBody - got
    [] pc = "handler" -> Len(calls) + (IF FileToCome THEN 4 ELSE 0)
    [] pc = "send"    -> 2 * (sendFd + 1) + Len(sendBuf)
    [] OTHER          -> 0

\* Every step brings a connection nearer to its end.
Nearer ==
  /\ StagesLeft \in 0..4 /\ WorkLeft \in Nat
  /\ \/ StagesLeft' < StagesLeft
     \/ StagesLeft' = StagesLeft /\ WorkLeft' < WorkLeft

LEMMA WorkIsNat == IInv => StagesLeft \in 0..4 /\ WorkLeft \in Nat
<1>. SUFFICES ASSUME IInv PROVE StagesLeft \in 0..4 /\ WorkLeft \in Nat
  OBVIOUS
<1>1. got \in 0..MaxBody /\ sendFd \in None..MaxFile /\ MaxBody \in Nat /\ MaxFile \in Nat
      /\ Len(calls) \in Nat /\ Len(sendBuf) \in Nat
  BY ExchangeAssumption DEF IInv, TypeOK
<1>2. sendFd + 1 \in Nat
  BY <1>1 DEF None
<1>3. StagesLeft \in 0..4
  BY DEF StagesLeft
<1>. QED
  BY <1>1, <1>2, <1>3 DEF WorkLeft

\* What is left of the calls after one of them.
LEMMA CallsShrink ==
  ASSUME IInv, pc = "handler", pc' = pc, calls # <<>>, calls' = Tail(calls)
  PROVE  WorkLeft' < WorkLeft
<1>1. calls \in Seq(GoodCalls) /\ Len(calls) \in Nat \ {0}
  BY DEF IInv
<1>2. /\ Len(calls') = Len(calls) - 1
      /\ \A i \in 1..Len(calls') : i + 1 \in 1..Len(calls) /\ calls'[i] = calls[i + 1]
  BY <1>1
<1>3. FileToCome' => FileToCome
  BY <1>2 DEF FileToCome
<1>4. /\ WorkLeft = Len(calls) + (IF FileToCome THEN 4 ELSE 0)
      /\ WorkLeft' = Len(calls') + (IF FileToCome' THEN 4 ELSE 0)
  BY DEF WorkLeft
<1>5. CASE FileToCome
  <2>1. WorkLeft = Len(calls) + 4 /\ WorkLeft' \in {Len(calls'), Len(calls') + 4}
    BY <1>1, <1>2, <1>4, <1>5
  <2>. QED
    BY <1>1, <1>2, <2>1
<1>6. CASE ~FileToCome
  <2>1. ~FileToCome'
    BY <1>3, <1>6
  <2>2. WorkLeft = Len(calls) + 0 /\ WorkLeft' = Len(calls') + 0
    BY <1>4, <1>6, <2>1, Zenon
  <2>. QED
    BY <1>1, <1>2, <2>2
<1>. QED
  BY <1>5, <1>6

\* kick_error takes four calls and sends no file.
LEMMA KickIsShort ==
  /\ Len(kick_error("500")) = 4
  /\ \A i \in 1..4 : kick_error("500")[i].fn # "file"
<1>1. kick_error("500")
        = <<Call("status", "500"), Call("header", "cors"), Call("header", "close"),
            Call("writef", "500")>>
  BY ThreeAndOne DEF kick_error, kick_header
<1>2. /\ Call("status", "500").fn = "status" /\ Call("header", "cors").fn = "header"
      /\ Call("header", "close").fn = "header" /\ Call("writef", "500").fn = "writef"
  BY DEF Call
<1>3. ASSUME NEW a, NEW b, NEW c, NEW d
      PROVE  /\ Len(<<a, b, c, d>>) = 4 /\ <<a, b, c, d>>[1] = a /\ <<a, b, c, d>>[2] = b
             /\ <<a, b, c, d>>[3] = c /\ <<a, b, c, d>>[4] = d
  OBVIOUS
<1>. QED
  BY <1>1, <1>2, <1>3

LEMMA SendFileNearer ==
  ASSUME IInv, SendFile
  PROVE  WorkLeft' < WorkLeft
<1>1. /\ pc = "handler" /\ pc' = pc /\ calls # <<>> /\ Head(calls).fn = "file"
      /\ calls' = Tail(calls) \/ calls' = kick_error("500")
  BY DEF SendFile
<1>2. CASE calls' = kick_error("500")
  <2>1. calls \in Seq(GoodCalls) /\ Len(calls) \in Nat \ {0} /\ Head(calls) = calls[1]
    BY <1>1 DEF IInv
  <2>2. FileToCome /\ ~FileToCome' /\ Len(calls') = 4
    BY <1>1, <1>2, <2>1, KickIsShort DEF FileToCome
  <2>3. WorkLeft = Len(calls) + 4 /\ WorkLeft' = 4
    BY <1>1, <2>2 DEF WorkLeft
  <2>. QED
    BY <2>1, <2>3
<1>. QED
  BY <1>1, <1>2, CallsShrink

LEMMA ReceiveNearer ==
  ASSUME IInv, IInv', RecvHeader \/ RecvBody
  PROVE  \/ StagesLeft' < StagesLeft
         \/ StagesLeft' = StagesLeft /\ WorkLeft' < WorkLeft
<1>1. /\ pc = "recv" /\ got \in 0..MaxBody /\ got' \in 0..MaxBody /\ MaxBody \in Nat
      /\ state \in {RECEIVING_HEADER, RECEIVING_REQUEST}
  BY ExchangeAssumption DEF IInv, TypeOK, RecvHeader, RecvBody
<1>2. pc' \in {"handler", "destroy"} \/ pc' = pc
  BY <1>1 DEF RecvHeader, RecvBody, HandleRequest
<1>3. CASE pc' \in {"handler", "destroy"}
  BY <1>1, <1>3 DEF StagesLeft
<1>4. CASE pc' = pc
  <2>1. state' = RECEIVING_REQUEST
    BY <1>1, <1>4 DEF RecvHeader, RecvBody, HandleRequest
  <2>2. WorkLeft' = MaxBody - got' /\ StagesLeft' = StagesLeft
    BY <1>1, <1>4, <2>1 DEF WorkLeft, StagesLeft, RECEIVING_HEADER, RECEIVING_REQUEST
  <2>3. CASE RecvHeader
    <3>1. WorkLeft = MaxBody + 1
      BY <1>1, <2>3 DEF RecvHeader, WorkLeft
    <3>2. \A g \in 0..MaxBody : MaxBody - g < MaxBody + 1
      BY ExchangeAssumption
    <3>. QED
      BY <1>1, <2>2, <3>1, <3>2
  <2>4. CASE RecvBody
    <3>1. WorkLeft = MaxBody - got /\ got' = got + 1
      BY <1>1, <2>4 DEF RecvBody, WorkLeft, RECEIVING_HEADER, RECEIVING_REQUEST
    <3>. QED
      BY <1>1, <2>2, <3>1
  <2>. QED
    BY <2>3, <2>4
<1>. QED
  BY <1>2, <1>3, <1>4

LEMMA SendNearer ==
  ASSUME IInv, SendSome \/ ReadChunk \/ EndOfFile
  PROVE  StagesLeft' = StagesLeft /\ WorkLeft' < WorkLeft
<1>1. pc = "send" /\ pc' = pc
  BY DEF SendSome, ReadChunk, EndOfFile
<1>2. /\ WorkLeft = 2 * (sendFd + 1) + Len(sendBuf)
      /\ WorkLeft' = 2 * (sendFd' + 1) + Len(sendBuf') /\ StagesLeft' = StagesLeft
  BY <1>1 DEF WorkLeft, StagesLeft
<1>3. sendBuf \in Seq(Parts) /\ Len(sendBuf) \in Nat /\ sendFd \in Int /\ Len(<<>>) = 0
  BY ExchangeAssumption DEF IInv, TypeOK, None
<1>4. CASE SendSome
  <2>1. sendFd' = sendFd
    BY <1>4 DEF SendSome
  <2>2. PICK n \in 1..Len(sendBuf) : sendBuf' = SubSeq(sendBuf, n + 1, Len(sendBuf))
    BY <1>4 DEF SendSome
  <2>3. Len(sendBuf') = Len(sendBuf) - n
    BY <1>3, <2>2
  <2>. QED
    BY <1>2, <1>3, <2>1, <2>3
<1>5. CASE ReadChunk
  <2>1. sendBuf = <<>> /\ Len(sendBuf') = 1 /\ sendFd' = sendFd - 1
    BY <1>5 DEF ReadChunk
  <2>. QED
    BY <1>2, <1>3, <2>1
<1>6. CASE EndOfFile
  <2>1. sendBuf' = sendBuf /\ sendFd = 0 /\ sendFd' = -1
    BY <1>6 DEF EndOfFile, None
  <2>. QED
    BY <1>2, <1>3, <2>1
<1>. QED
  BY <1>4, <1>5, <1>6

\* For bodies, files and answers of any size and whatever fails, a connection takes finitely
\* many steps: each one lowers what is left to receive, answer or send.  It is what
\* HandledIsFinished needs besides a thread that is scheduled.
THEOREM ConnectionShortens == Spec => [][Nearer]_vars
<1>1. ASSUME IInv, IInv', Next PROVE Nearer
  <2>1. CASE RecvHeader \/ RecvBody
    BY <1>1, <2>1, WorkIsNat, ReceiveNearer DEF Nearer
  <2>2. CASE RecvEnds \/ HandlerReturns \/ SendFails \/ ReadFails \/ NoChunkBuffer \/ Finished
             \/ Destroy
    <3>1. StagesLeft' < StagesLeft
      BY <2>2 DEF StagesLeft, RecvEnds, HandlerReturns, SendFails, ReadFails, NoChunkBuffer,
                  Finished, Destroy
    <3>. QED
      BY <1>1, <3>1, WorkIsNat DEF Nearer
  <2>3. CASE Respond \/ SendFile
    <3>1. StagesLeft' = StagesLeft
      BY <2>3 DEF StagesLeft, Respond, SendFile
    <3>2. WorkLeft' < WorkLeft
      BY <1>1, <2>3, CallsShrink, SendFileNearer DEF Respond
    <3>. QED
      BY <1>1, <3>1, <3>2, WorkIsNat DEF Nearer
  <2>4. CASE SendSome \/ ReadChunk \/ EndOfFile
    BY <1>1, <2>4, WorkIsNat, SendNearer DEF Nearer
  <2>. QED
    BY <1>1, <2>1, <2>2, <2>3, <2>4 DEF Next, Thread
<1>2. IInv /\ IInv' /\ [Next]_vars => [Nearer]_vars
  BY <1>1
<1>. QED
  BY <1>2, Invariant, PTL DEF Spec
=================================================================================
