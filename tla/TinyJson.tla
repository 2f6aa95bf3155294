------------------------------- MODULE TinyJson -------------------------------
(***************************************************************************)
(* json_create of tiny-json, as request_parse, http_load_config and        *)
(* pkg_extract_piece_urls_from_ref_pkg_json use it: one loop without       *)
(* recursion that builds a tree in a pool of a fixed number of nodes.      *)
(* While a node is open its sibling pointer holds its parent.              *)
(*                                                                         *)
(* The text is a sequence of lexemes, which is chosen as the parser reads  *)
(* it: a string with its quotes, a number or literal ("prim"), a bracket,  *)
(* a run of blanks ("ws"), something malformed ("bad"), the NUL ("end").   *)
(* A primitive is ended by the character behind it, which is overwritten.  *)
(***************************************************************************)
EXTENDS Integers, Sequences, SequencesExt

CONSTANTS
  Qty,      \* nodes of the pool: JSON_POOL_SIZE
  Strings,  \* the strings of a text, as names and as values
  MaxText   \* bound: lexemes of a text

ASSUME TinyJsonAssumption == Qty \in Nat \ {0} /\ MaxText \in Nat

VARIABLES
  pc,        \* "start", "loop", "colon", "value", "prim", "done" or "failed"
  text,      \* the lexemes of the text that have been looked at
  pos,       \* ptr
  mem,       \* the pool
  nextFree,  \* pool->nextFree
  obj,       \* the open object or array
  nul        \* where the text was overwritten by a NUL

vars == <<pc, text, pos, mem, nextFree, obj, nul>>

Null == -1
Nodes == 0..(Qty - 1)

Lexemes == {"{", "}", "[", "]", ",", ":", "ws", "prim", "bad", "end"} \cup Strings

\* name and value are places in the text, the others nodes.
Node == [type    : {"junk", "obj", "array", "text", "prim"},
         name    : Null..MaxText + 1,
         value   : Null..MaxText + 1,
         child   : Null..(Qty - 1),
         last    : Null..(Qty - 1),
         sibling : Null..(Qty - 1)]

\* What malloc or the stack holds before the parser comes.
Junk == [type |-> "junk", name |-> 0, value |-> 0, child |-> 0, last |-> 0, sibling |-> 0]

\* The type invariant.
TypeOK ==
  /\ pc \in {"start", "loop", "colon", "value", "prim", "done", "failed"}
  /\ text \in Seq(Lexemes) /\ Len(text) <= MaxText + 1
  /\ pos \in 1..(MaxText + 2)
  /\ mem \in [Nodes -> Node]
  /\ nextFree \in 0..Qty
  /\ obj \in Nodes
  /\ nul \subseteq 1..Len(text)

\* json_create is called on a text that starts anywhere.
Init ==
  /\ pc = "start"
  /\ text = <<>> /\ pos = 1
  /\ mem = [i \in Nodes |-> Junk]
  /\ nextFree = 0 /\ obj = 0
  /\ nul = {}

-------------------------------------------------------------------------------
(* The text *)

Over == pc \in {"done", "failed"}

\* What the client wrote at ptr.
Reveal(c) ==
  /\ ~Over /\ pos > Len(text)
  /\ Len(text) = MaxText => c = "end"
  /\ text' = Append(text, c)
  /\ UNCHANGED <<pc, pos, mem, nextFree, obj, nul>>

\* The lexeme at ptr is c.
Reads(c) == pos <= Len(text) /\ text[pos] = c

ReadsOneOf(C) == pos <= Len(text) /\ text[pos] \in C

Fail ==
  /\ pc' = "failed"
  /\ UNCHANGED <<text, pos, mem, nextFree, obj, nul>>

\* goBlank, which json_create, objValue and propertyName call...
GoBlank ==
  /\ pc \in {"start", "loop", "colon", "value"} /\ Reads("ws")
  /\ pos' = pos + 1
  /\ UNCHANGED <<pc, text, mem, nextFree, obj, nul>>

\* ... and which fails at the end of the text.
GoBlankFails ==
  /\ pc \in {"start", "loop", "colon", "value"} /\ Reads("end")
  /\ Fail

-------------------------------------------------------------------------------
(* json_create and objValue *)

\* poolInit, and the head of objValue
Create ==
  /\ pc = "start" /\ Reads("{")
  /\ mem' = [mem EXCEPT ![0] = [type |-> "obj", name |-> Null, value |-> Null,
                                child |-> Null, last |-> 0, sibling |-> Null]]
  /\ nextFree' = 1 /\ obj' = 0
  /\ pos' = pos + 1 /\ pc' = "loop"
  /\ UNCHANGED <<text, nul>>

NotAnObject ==
  /\ pc = "start" /\ ReadsOneOf(Lexemes \ {"ws", "end", "{"})
  /\ Fail

\* Mutant of Comma: continue without ++ptr.
CommaStays ==
  /\ pc = "loop" /\ Reads(",")
  /\ UNCHANGED vars

\* A comma is skipped wherever it stands.
Comma ==
  /\ pc = "loop" /\ Reads(",")
  /\ pos' = pos + 1
  /\ UNCHANGED <<pc, text, mem, nextFree, obj, nul>>

EndChar == IF mem[obj].type = "obj" THEN "}" ELSE "]"

\* The end of the open object or array: its parent is open again, or the parser is
\* done when it has none.
Close ==
  /\ pc = "loop" /\ Reads(EndChar)
  /\ nul' = nul \cup {pos}
  /\ pos' = pos + 1
  /\ IF mem[obj].sibling = Null
       THEN pc' = "done" /\ UNCHANGED <<mem, obj>>
       ELSE /\ obj' = mem[obj].sibling
            /\ mem' = [mem EXCEPT ![obj].sibling = Null]
            /\ UNCHANGED pc
  /\ UNCHANGED <<text, nextFree>>

NewValue == pc = "loop" /\ ReadsOneOf(Lexemes \ {"ws", "end", ",", EndChar})

\* Mutant of PoolFull: the last node of the pool is never given out.
PoolFullEarly == nextFree >= Qty - 1

\* poolNew has nothing left.
PoolFull == nextFree >= Qty

\* A value begins: in an object with its name, in an array at once.
NewProperty ==
  /\ NewValue /\ ~PoolFull
  /\ nextFree' = nextFree + 1
  /\ IF mem[obj].type = "array"
       THEN /\ mem' = [mem EXCEPT ![nextFree].name = Null]
            /\ pc' = "value" /\ UNCHANGED pos
       ELSE /\ ReadsOneOf(Strings)
            /\ mem' = [mem EXCEPT ![nextFree].name = pos]
            /\ pc' = "colon" /\ pos' = pos + 1
  /\ UNCHANGED <<text, obj, nul>>

NewPropertyFails ==
  /\ NewValue
  /\ PoolFull \/ (mem[obj].type # "array" /\ ~ReadsOneOf(Strings))
  /\ Fail

\* The rest of propertyName
Colon ==
  /\ pc = "colon" /\ Reads(":")
  /\ pos' = pos + 1 /\ pc' = "value"
  /\ UNCHANGED <<text, mem, nextFree, obj, nul>>

ColonMissing ==
  /\ pc = "colon" /\ ReadsOneOf(Lexemes \ {"ws", "end", ":"})
  /\ Fail

property == nextFree - 1

\* Mutant of Added: last_child is not followed, so a third child replaces the second.
AddedOnly(n) ==
  IF mem[obj].child = Null
    THEN [mem EXCEPT ![obj].child = property, ![obj].last = property, ![property] = n]
    ELSE [mem EXCEPT ![mem[obj].child].sibling = property, ![obj].last = property,
                     ![property] = n]

\* add: the node n becomes the last child of the open one.
Added(n) ==
  IF mem[obj].child = Null
    THEN [mem EXCEPT ![obj].child = property, ![obj].last = property, ![property] = n]
    ELSE [mem EXCEPT ![mem[obj].last].sibling = property, ![obj].last = property,
                     ![property] = n]

\* A nested object or array: it is the open one from here on.
Open ==
  /\ pc = "value" /\ ReadsOneOf({"{", "["})
  /\ mem' = Added([type |-> IF Reads("{") THEN "obj" ELSE "array", name |-> mem[property].name,
                   value |-> Null, child |-> Null, last |-> 0, sibling |-> obj])
  /\ obj' = property
  /\ pos' = pos + 1 /\ pc' = "loop"
  /\ UNCHANGED <<text, nextFree, nul>>

\* textValue, and the text of a number or literal up to the character behind it
Scalar ==
  /\ pc = "value" /\ ReadsOneOf(Strings \cup {"prim"})
  /\ mem' = Added([type |-> IF Reads("prim") THEN "prim" ELSE "text",
                   name |-> mem[property].name, value |-> pos,
                   child |-> Null, last |-> 0, sibling |-> Null])
  /\ pos' = pos + 1
  /\ pc' = IF Reads("prim") THEN "prim" ELSE "loop"
  /\ UNCHANGED <<text, nextFree, obj, nul>>

NoValue ==
  /\ pc = "value" /\ ReadsOneOf({"}", "]", ",", ":", "bad"})
  /\ Fail

\* isEndOfPrimitive and setToNull: a comma or blank is replaced, a bracket is left to
\* Close, which replaces it.
EndOfPrimitive ==
  /\ pc = "prim" /\ ReadsOneOf({",", "ws", "}", "]"})
  /\ IF ReadsOneOf({",", "ws"}) THEN nul' = nul \cup {pos} /\ pos' = pos + 1
                                ELSE UNCHANGED <<nul, pos>>
  /\ pc' = "loop"
  /\ UNCHANGED <<text, mem, nextFree, obj>>

PrimitiveRunsOn ==
  /\ pc = "prim" /\ ReadsOneOf(Lexemes \ {",", "ws", "}", "]"})
  /\ Fail

Next ==
  \/ \E c \in Lexemes : Reveal(c)
  \/ GoBlank \/ GoBlankFails
  \/ Create \/ NotAnObject
  \/ Comma \/ Close
  \/ NewProperty \/ NewPropertyFails
  \/ Colon \/ ColonMissing
  \/ Open \/ Scalar \/ NoValue
  \/ EndOfPrimitive \/ PrimitiveRunsOn

\* A call of json_create runs to its end; the text is there before it starts.
Spec == Init /\ [][Next]_vars /\ WF_vars(Next)

-------------------------------------------------------------------------------
(* Reading the tree *)

RECURSIVE SiblingsFrom(_)
SiblingsFrom(i) == IF i = Null THEN <<>> ELSE <<i>> \o SiblingsFrom(mem[i].sibling)

Children(i) == SiblingsFrom(mem[i].child)

\* Mutant of json_getProperty: the last property of the name.
json_getPropertyLast(i, name) ==
  LET found == SelectSeq(Children(i), LAMBDA j : mem[j].name # Null /\ text[mem[j].name] = name)
  IN IF found = <<>> THEN Null ELSE Last(found)

\* json_getProperty: the first property of the name.
json_getProperty(i, name) ==
  LET found == SelectSeq(Children(i), LAMBDA j : mem[j].name # Null /\ text[mem[j].name] = name)
  IN IF found = <<>> THEN Null ELSE Head(found)

-------------------------------------------------------------------------------
(* What JSON is *)

\* The state of a reader of strict JSON: the brackets that are open, what may come
\* next, and how many values have begun.
Reader(stack, expect, count) == [stack |-> stack, expect |-> expect, count |-> count]

ValueBegins(r, c, element) ==
  LET n == r.count + (IF element THEN 1 ELSE 0) IN
  CASE c = "{"                          -> Reader(Append(r.stack, "}"), "name or end", n)
    [] c = "["                          -> Reader(Append(r.stack, "]"), "value or end", n)
    [] c \in Strings \cup {"prim"}      -> Reader(r.stack, "comma or end", n)
    [] OTHER                            -> Reader(r.stack, "nothing", n)

EndsBlock(r, c) == r.stack # <<>> /\ c = Last(r.stack)

StrictStep(r, c) ==
  IF c = "ws" THEN r ELSE
  CASE r.expect = "object" /\ c = "{"                             -> ValueBegins(r, c, TRUE)
    [] r.expect \in {"name or end", "name"} /\ c \in Strings      ->
         Reader(r.stack, "colon", r.count + 1)
    [] r.expect = "colon" /\ c = ":"                              -> Reader(r.stack, "value", r.count)
    [] r.expect = "value"                                         ->
         ValueBegins(r, c, Last(r.stack) = "]")
    [] r.expect = "value or end" /\ c # "]"                       -> ValueBegins(r, c, TRUE)
    [] r.expect \in {"name or end", "value or end", "comma or end"} /\ EndsBlock(r, c) ->
         Reader(Front(r.stack), IF Len(r.stack) = 1 THEN "end" ELSE "comma or end", r.count)
    [] r.expect = "comma or end" /\ c = ","                       ->
         Reader(r.stack, IF Last(r.stack) = "}" THEN "name" ELSE "value", r.count)
    [] r.expect = "end" /\ c = "end"                              -> r
    [] OTHER                                                      -> Reader(r.stack, "nothing", r.count)

Strict == FoldLeft(StrictStep, Reader(<<>>, "object", 0), text)

\* The places of the text that are at the top level of the object: between its braces
\* and inside no others.
DepthBefore(p) ==
  Len(SelectSeq(SubSeq(text, 1, p - 1), LAMBDA c : c \in {"{", "["}))
    - Len(SelectSeq(SubSeq(text, 1, p - 1), LAMBDA c : c \in {"}", "]"}))

\* Whether the string at p is followed by a colon.
IsName(p) ==
  \E q \in (p + 1)..Len(text) : text[q] = ":" /\ \A k \in (p + 1)..(q - 1) : text[k] = "ws"

-------------------------------------------------------------------------------
(* What the parser promises *)

RECURSIVE Render(_)
Render(i) ==
  LET n     == mem[i]
      name  == IF n.name = Null THEN <<>> ELSE <<text[n.name], ":">>
      inner == FoldLeft(LAMBDA acc, j : acc \o Render(j), <<>>, Children(i))
  IN name \o CASE n.type = "obj"   -> <<"{">> \o inner \o <<"}">>
               [] n.type = "array" -> <<"[">> \o inner \o <<"]">>
               [] OTHER            -> <<text[n.value]>>

\* The tree that json_create returns is the text: written out again, every value under
\* its name, in its place and in its order is what was read, commas and blanks aside.
TreeIsText ==
  pc = "done" =>
    Render(0) = SelectSeq(SubSeq(text, 1, pos - 1), LAMBDA c : c \notin {"ws", ","})

\* An object that is valid JSON is refused for one reason only, that it has more values
\* than the pool has nodes: the 256 of a request, the 16 of the config file.  It says
\* nothing of the valid JSON json_create refuses by design: a root that is no object, and
\* integers beyond an int64_t, which are none of the lexemes.
ValidIsAccepted ==
  pc = "failed" => Strict.expect = "nothing" \/ Strict.count > Qty

\* A number or literal that is handed out as a string ends where it should: what stood
\* behind it has become a NUL.
ValuesTerminated ==
  pc = "done" => \A i \in 0..(nextFree - 1) : mem[i].type = "prim" => mem[i].value + 1 \in nul

\* The result of json_create is the text as a tree, inside the pool, its values ended.
ParsedTree == TypeOK /\ TreeIsText /\ ValuesTerminated

\* The handlers ask for a name and get the value of the first member of that name at
\* the top level: not one of a nested object, nor a string that is a value.
PropertyIsFirst ==
  pc = "done" => \A name \in Strings :
    LET P == {p \in 1..(pos - 1) : text[p] = name /\ DepthBefore(p) = 1 /\ IsName(p)}
        i == json_getProperty(0, name)
    IN IF P = {} THEN i = Null
                 ELSE i # Null /\ mem[i].name \in P /\ \A p \in P : mem[i].name <= p

\* The parser comes to an end on every text, however its brackets and commas stand.
ParserEnds == <>Over
===============================================================================
