--------------------------------- MODULE Tasks ---------------------------------
(***************************************************************************)
(* The endpoints that pass an id to the console's services: uninstall_*,   *)
(* is_exists, the five task endpoints, get_task_progress and find_task,    *)
(* each on the thread of its connection.  Every one parses the request,    *)
(* takes its fields, makes one call (is_exists two) and answers.           *)
(*                                                                         *)
(* An id is a sequence of characters, and a fixed buffer cuts it; an       *)
(* integer has WideBits in the JSON text and IntBits in an int.  The       *)
(* services are outside the repository: what they hold changes as the      *)
(* names of their calls say, and every call may fail.  They are            *)
(* initialized before the server starts (Lifecycle).                       *)
(***************************************************************************)
EXTENDS Integers, Sequences, SequencesExt

CONSTANTS
  Threads,        \* connection threads
  TitleSize,      \* PKG_TITLE_ID_SIZE
  ServiceSize,    \* PKG_SERVICE_ID_SIZE
  ContentSize,    \* PKG_CONTENT_ID_SIZE
  LabelSize,      \* PKG_LABEL_SIZE
  IntBits,        \* width of an int
  Ids,            \* the ids clients send: sequences of characters
  Numbers,        \* the integers clients send
  TaskIds,        \* tasks the download service can have
  ContentOf,      \* the content id of a task
  SubTypeMax,     \* ORBIS_BGFT_TASK_SUB_TYPE_MAX; 0 is _UNKNOWN
  Items,          \* what can be installed: <<kind, id>>
  MaxRequests     \* bound: requests

\* One more than INT_MAX.
Half == 2^(IntBits - 1)

ASSUME TasksAssumption ==
  /\ {TitleSize, ServiceSize, ContentSize, LabelSize, IntBits} \subseteq Nat \ {0}
  /\ ContentSize = ServiceSize + 1 + LabelSize
  /\ Ids \subseteq Seq(STRING) /\ Numbers \subseteq Int
  /\ TaskIds \subseteq 0..(Half - 1)
  /\ ContentOf \in [TaskIds -> Seq(STRING)]
  /\ MaxRequests \in Nat

VARIABLES
  th,         \* what a thread is doing
  requests,   \* how many requests were received
  installed,  \* what is installed on the console
  tasks       \* the download service's tasks

vars == <<th, requests, installed, tasks>>

UninstallOps == {"uninstall_game", "uninstall_ac", "uninstall_patch", "uninstall_theme"}
TaskOps      == {"start_task", "stop_task", "pause_task", "resume_task", "unregister_task"}
Ops          == UninstallOps \cup TaskOps \cup {"is_exists", "get_task_progress", "find_task"}

TitleOps == {"uninstall_game", "uninstall_patch", "is_exists"}
IntOps   == TaskOps \cup {"get_task_progress"}

\* A field of the request's JSON object; its value is a sequence in any case.
Absent    == [type |-> "absent", v |-> <<>>]
Text(s)   == [type |-> "text", v |-> s]
Number(n) == [type |-> "integer", v |-> <<n>>]

\* An answer: a status and, with 200, success or an error code, and what was asked for.
Answer(status, ok, code) ==
  [status |-> status, ok |-> ok, code |-> code, exists |-> FALSE, size |-> "none", task |-> -1]

NoAnswer == Answer(0, FALSE, "none")

Idle == [pc |-> "idle", op |-> "none", json |-> "none", id |-> Absent, sub |-> Absent,
         arg |-> <<>>, subType |-> 0, answer |-> NoAnswer, calls |-> <<>>]

TaskStates == {"none", "ready", "running", "paused", "stopped"}

\* The type invariant.
TypeOK ==
  /\ DOMAIN th = Threads
  /\ \A t \in Threads :
       /\ th[t].pc \in {"idle", "parse", "call", "size", "answer"}
       /\ th[t].op \in Ops \cup {"none"}
       /\ th[t].pc \in {"call", "size"} =>
            Len(th[t].arg) <= IF th[t].op \in IntOps THEN 1
                              ELSE IF th[t].op \in TitleOps THEN TitleSize ELSE ContentSize
       /\ th[t].answer.status \in {0, 200, 400}
       /\ th[t].answer.code \in {"none", "EINVAL", "sdk", "unset"}
       /\ th[t].answer.size \in {"none", "known", "unknown"}
  /\ requests \in 0..MaxRequests
  /\ installed \subseteq Items
  /\ tasks \in [TaskIds -> TaskStates]

\* A console with everything installed and its tasks registered.
Init ==
  /\ th = [t \in Threads |-> Idle]
  /\ requests = 0
  /\ installed = Items
  /\ tasks = [n \in TaskIds |-> "ready"]

-------------------------------------------------------------------------------
(* The request *)

Request(op, json, id, sub) ==
  [Idle EXCEPT !.pc = "parse", !.op = op, !.json = json, !.id = id, !.sub = sub]

Receive(t, r) ==
  /\ th[t].pc = "idle"
  /\ requests < MaxRequests
  /\ requests' = requests + 1
  /\ th' = [th EXCEPT ![t] = r]
  /\ UNCHANGED <<installed, tasks>>

\* Mutant of Narrow: one bit too many is lost.
NarrowShort(n) == n % Half

\* (int) of a wider integer
Narrow(n) == ((n + Half) % (2 * Half)) - Half

\* strlcpy into a buffer of n characters and a NUL
Cut(s, n) == IF Len(s) <= n THEN s ELSE SubSeq(s, 1, n)

IdSize(op) == IF op \in TitleOps THEN TitleSize ELSE ContentSize

\* request_parse and the id: request_task_id wants an int that is not negative,
\* request_id a text that is not empty.
IdAccepted(r) ==
  IF r.op \in IntOps THEN r.id.type = "integer" /\ Narrow(r.id.v[1]) >= 0
                     ELSE r.id.type = "text" /\ r.id.v # <<>>

Accepted(r) ==
  /\ r.json = "object"
  /\ IdAccepted(r)
  /\ r.op = "find_task" => r.sub.type = "integer"

\* The argument the service is called with.
Arg(r) == IF r.op \in IntOps THEN <<Narrow(r.id.v[1])>> ELSE Cut(r.id.v, IdSize(r.op))

Parse(t) ==
  LET r == th[t] IN
  /\ r.pc = "parse" /\ Accepted(r)
  /\ th' = [th EXCEPT ![t].pc = "call", ![t].arg = Arg(r),
                      ![t].subType = IF r.op = "find_task" THEN Narrow(r.sub.v[1]) ELSE 0,
                      ![t].answer.code = "unset"]
  /\ UNCHANGED <<requests, installed, tasks>>

\* Every helper answers 400 itself.
Refuse(t) ==
  /\ th[t].pc = "parse" /\ ~Accepted(th[t])
  /\ th' = [th EXCEPT ![t].pc = "answer", ![t].answer = Answer(400, FALSE, "none")]
  /\ UNCHANGED <<requests, installed, tasks>>

-------------------------------------------------------------------------------
(* Content ids *)

IndexesOf(s, c) == {i \in 1..Len(s) : s[i] = c}

\* What follows the first dash.
TitleOf(c) ==
  Cut(SubSeq(c, Min(IndexesOf(c, "-")) + 1, Len(c)), TitleSize)

\* What follows the last dash.
LabelOf(c) == Cut(SubSeq(c, Max(IndexesOf(c, "-")) + 1, Len(c)), LabelSize)

\* pkg_parse_content_id: the second dash ends the service id, an underscore follows
\* the first one somewhere, and what follows the last one has the size of a label.
pkg_parse_content_id(c) ==
  LET dashes == IndexesOf(c, "-")
      first  == Min(dashes)
      others == dashes \ {first}
  IN /\ Len(c) = ContentSize
     /\ dashes # {} /\ others # {}
     /\ Min(others) = ServiceSize + 1
     /\ \E i \in IndexesOf(c, "_") : i > first
     /\ Len(TitleOf(c)) = TitleSize
     /\ Len(LabelOf(c)) = LabelSize

-------------------------------------------------------------------------------
(* The calls *)

\* What an uninstall endpoint removes.
KindOf(op) ==
  CASE op = "uninstall_game"  -> "game"
    [] op = "uninstall_patch" -> "patch"
    [] op = "uninstall_ac"    -> "ac"
    [] op = "uninstall_theme" -> "theme"

Target(r) ==
  <<KindOf(r.op), IF r.op = "uninstall_ac" THEN TitleOf(r.arg) \o LabelOf(r.arg) ELSE r.arg>>

\* The service was called and returned 0 or an error.
Called(t, result) == [th[t] EXCEPT !.calls = Append(@, result), !.pc = "answer"]

Succeeds(t, a) == th' = [th EXCEPT ![t] = [Called(t, "ok") EXCEPT !.answer = a]]

Success == Answer(200, TRUE, "none")

\* A check of installer.c fails before the service is asked: a content id that does
\* not parse, a sub type that is none.
Invalid(r) ==
  \/ r.op = "uninstall_ac" /\ ~pkg_parse_content_id(r.arg)
  \/ r.op = "find_task" /\ ~(r.subType > 0 /\ r.subType < SubTypeMax)

InvalidArgument(t) ==
  /\ th[t].pc = "call" /\ Invalid(th[t])
  /\ th' = [th EXCEPT ![t].pc = "answer", ![t].answer = Answer(200, FALSE, "EINVAL")]
  /\ UNCHANGED <<requests, installed, tasks>>

\* Any call may fail, for what is not there or for a reason of the service's own.
ServiceFails(t) ==
  /\ th[t].pc = "call" /\ ~Invalid(th[t])
  /\ th' = [th EXCEPT ![t] = [Called(t, "failed") EXCEPT !.answer = Answer(200, FALSE, "sdk")]]
  /\ UNCHANGED <<requests, installed, tasks>>

\* app_inst_util_uninstall_game, _ac, _patch and _theme
Uninstall(t) ==
  /\ th[t].pc = "call" /\ th[t].op \in UninstallOps /\ ~Invalid(th[t])
  /\ Target(th[t]) \in installed
  /\ installed' = installed \ {Target(th[t])}
  /\ Succeeds(t, Success)
  /\ UNCHANGED <<requests, tasks>>

After(op) ==
  CASE op \in {"start_task", "resume_task"} -> "running"
    [] op = "pause_task"                    -> "paused"
    [] op = "stop_task"                     -> "stopped"
    [] op = "unregister_task"               -> "none"

HasTask(n) == n \in TaskIds /\ tasks[n] # "none"

\* bgft_download_start_task and the other four
TaskAction(t) ==
  /\ th[t].pc = "call" /\ th[t].op \in TaskOps
  /\ HasTask(th[t].arg[1])
  /\ tasks' = [tasks EXCEPT ![th[t].arg[1]] = After(th[t].op)]
  /\ Succeeds(t, Success)
  /\ UNCHANGED <<requests, installed>>

\* bgft_download_get_task_progress
Progress(t) ==
  /\ th[t].pc = "call" /\ th[t].op = "get_task_progress"
  /\ HasTask(th[t].arg[1])
  /\ Succeeds(t, Success)
  /\ UNCHANGED <<requests, installed, tasks>>

\* bgft_download_find_task_by_content_id
FindTask(t) ==
  /\ th[t].pc = "call" /\ th[t].op = "find_task" /\ ~Invalid(th[t])
  /\ \E n \in TaskIds : /\ HasTask(n) /\ ContentOf[n] = th[t].arg
                        /\ Succeeds(t, [Success EXCEPT !.task = n])
  /\ UNCHANGED <<requests, installed, tasks>>

\* app_inst_util_is_exists; the size is asked for when the title is there.
IsExists(t) ==
  LET there == <<"game", th[t].arg>> \in installed IN
  /\ th[t].pc = "call" /\ th[t].op = "is_exists"
  /\ th' = [th EXCEPT ![t] = [Called(t, "ok") EXCEPT
                                !.pc = IF there THEN "size" ELSE "answer",
                                !.answer = [Success EXCEPT !.exists = there]]]
  /\ UNCHANGED <<requests, installed, tasks>>

\* The second call of is_exists returned, and this size goes into the answer.
Sized(t, result, size) ==
  th' = [th EXCEPT ![t] = [Called(t, result) EXCEPT !.answer = [@ EXCEPT !.size = size]]]

\* Mutant of GetSize: the size is asked for until it is known.
GetSizeRetries(t) ==
  /\ th[t].pc = "size" /\ <<"game", th[t].arg>> \in installed
  /\ Sized(t, "ok", "known")
  /\ UNCHANGED <<requests, installed, tasks>>

\* Mutant of GetSize: its result is not looked at.
GetSizeUnchecked(t) ==
  /\ th[t].pc = "size"
  /\ \/ <<"game", th[t].arg>> \in installed /\ Sized(t, "ok", "known")
     \/ Sized(t, "failed", "known")
  /\ UNCHANGED <<requests, installed, tasks>>

\* app_inst_util_get_size; by now the title may be gone, and the status has been sent.
GetSize(t) ==
  /\ th[t].pc = "size"
  /\ \/ <<"game", th[t].arg>> \in installed /\ Sized(t, "ok", "known")
     \/ Sized(t, "failed", "unknown")
  /\ UNCHANGED <<requests, installed, tasks>>

\* The answer goes out.
SendAnswer(t) ==
  /\ th[t].pc = "answer"
  /\ th' = [th EXCEPT ![t] = Idle]
  /\ UNCHANGED <<requests, installed, tasks>>

\* An install ends: something appears.
Appears(x) ==
  /\ x \notin installed
  /\ installed' = installed \cup {x}
  /\ UNCHANGED <<th, requests, tasks>>

-------------------------------------------------------------------------------

\* The requests a client can send: a body that is no JSON object, or one with the
\* fields there, absent or of another type.
Body(t, op) ==
  \/ Receive(t, Request(op, "none", Absent, Absent))
  \/ Receive(t, Request(op, "object", Absent, Absent))
  \/ op \in IntOps /\ Receive(t, Request(op, "object", Text(<<"0">>), Absent))
  \/ op \notin IntOps /\ Receive(t, Request(op, "object", Number(0), Absent))
  \/ op \in IntOps /\ \E n \in Numbers : Receive(t, Request(op, "object", Number(n), Absent))
  \/ op \notin IntOps /\ \E s \in Ids : Receive(t, Request(op, "object", Text(s), Absent))
  \/ op = "find_task" /\ \E s \in Ids, n \in Numbers :
       Receive(t, Request(op, "object", Text(s), Number(n)))

Step(t) ==
  \/ Parse(t) \/ Refuse(t)
  \/ InvalidArgument(t) \/ ServiceFails(t)
  \/ Uninstall(t) \/ TaskAction(t) \/ Progress(t) \/ FindTask(t)
  \/ IsExists(t) \/ GetSize(t)
  \/ SendAnswer(t)

Next ==
  \/ \E t \in Threads, op \in Ops : Body(t, op)
  \/ \E t \in Threads : Step(t)
  \/ \E x \in Items : Appears(x)

\* A connection's thread runs, and the services return.
Spec == Init /\ [][Next]_vars /\ \A t \in Threads : WF_vars(Step(t))

-------------------------------------------------------------------------------
(* What the endpoints promise *)

\* The client is told what happened: a refused request has asked the services for
\* nothing, success is told of exactly the calls that succeeded, and an error comes
\* with the code of this request's own call, never with the handler's unset variable.
\* A title is said to exist exactly when its size was asked for, and the size is the
\* service's if that second call succeeded, else the one that stands for "unknown".
AnswerTellsEffect ==
  \A t \in Threads : th[t].pc = "answer" =>
    LET a == th[t].answer
        c == th[t].calls
    IN /\ a.status = 400 => c = <<>>
       /\ a.status = 200 /\ a.ok => c \in {<<"ok">>, <<"ok", "ok">>, <<"ok", "failed">>}
       /\ a.status = 200 /\ ~a.ok => /\ c \in {<<>>, <<"failed">>}
                                     /\ a.code = IF c = <<>> THEN "EINVAL" ELSE "sdk"
       /\ a.exists <=> c \in {<<"ok", "ok">>, <<"ok", "failed">>}
       /\ a.size = "known" <=> c = <<"ok", "ok">>
       /\ a.size = "unknown" <=> c = <<"ok", "failed">>

\* Whether an uninstall with this id names the item x: by its very id, or an add-on by
\* the title id and the label in a content id.
Names(op, id, x) ==
  /\ op \in UninstallOps /\ KindOf(op) = x[1]
  /\ IF x[1] = "ac"
       THEN LET title == SubSeq(x[2], 1, TitleSize)
                label == SubSeq(x[2], TitleSize + 1, Len(x[2]))
            IN \E i \in IndexesOf(id, "-") :
                 /\ \A j \in 1..(i - 1) : id[j] # "-"
                 /\ IsPrefix(title, SubSeq(id, i + 1, Len(id)))
                 /\ IsSuffix(<<"-">> \o label, id)
       ELSE id = x[2]

\* The id is longer than its buffer, the integer wider than an int.
Overlong(r) == Len(r.id.v) > IdSize(r.op)
Wide(n)     == ~(-Half <= n /\ n < Half)

\* Whatever two clients do at once, an item disappears and a task changes only by the
\* request of a client that named it exactly, with two exceptions that are the code's: an
\* id that is longer than its buffer stands for its beginning, and an integer that does
\* not fit an int for the one it is equal to in an int.
OnlyNamedChanges ==
  [][/\ \A x \in installed \ installed' : \E t \in Threads :
          LET r == th[t]
          IN /\ r.pc = "call"
             /\ \/ Names(r.op, r.id.v, x)
                \/ Overlong(r) /\ Names(r.op, Cut(r.id.v, IdSize(r.op)), x)
     /\ \A n \in TaskIds : tasks'[n] # tasks[n] => \E t \in Threads :
          LET m == th[t].id.v[1]
          IN /\ th[t].pc = "call" /\ th[t].op \in TaskOps
             /\ m = n \/ (Wide(m) /\ (m - n) % (2 * Half) = 0)]_vars

\* README: /api/find_task "looks up an existing task for a content id", so the task it
\* answers with is one of the content id the client sent.  Not when the id is cut.
FindsTheContentId ==
  \A t \in Threads : th[t].pc = "answer" /\ th[t].op = "find_task" /\ th[t].answer.ok =>
    ContentOf[th[t].answer.task] = th[t].id.v

\* A content id as the documentation writes it: service, title_version, label.
WellFormed(c) ==
  /\ Len(c) = ContentSize
  /\ \E i, j, k \in 1..ContentSize :
       /\ IndexesOf(c, "-") = {i, k} /\ IndexesOf(c, "_") = {j}
       /\ i < j /\ j < k
       /\ j - i - 1 = TitleSize /\ k - 1 = ServiceSize /\ ContentSize - k = LabelSize

\* The checks of pkg_parse_content_id refuse no content id of the documented form, and
\* what passes them names a title and a label of the right sizes: the add-on call of the
\* SDK gets whole ids.
WellFormedServed ==
  \A t \in Threads : th[t].op = "uninstall_ac" /\ th[t].pc # "parse" =>
    /\ th[t].id.type = "text" /\ WellFormed(th[t].id.v) => th[t].answer.code # "EINVAL"
    /\ th[t].calls # <<>> => /\ Len(TitleOf(th[t].arg)) = TitleSize
                             /\ Len(LabelOf(th[t].arg)) = LabelSize

\* Every variable keeps its type, an answer is true of the calls that were made for it,
\* also when another client uninstalls the title between the two calls of is_exists, and
\* the add-on call of the SDK gets whole ids.
AnswersTrue == TypeOK /\ AnswerTellsEffect /\ WellFormedServed

\* Every request is answered, whatever the services return and whatever other clients
\* remove meanwhile.
RequestsAnswered ==
  \A t \in Threads : th[t].pc # "idle" ~> th[t].pc = "idle"
===============================================================================
