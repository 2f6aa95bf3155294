-------------------------------- MODULE Install --------------------------------
(***************************************************************************)
(* /api/install: install_pieces with pkg_setup_prerequisites, on one       *)
(* connection thread per request, against the files of the working         *)
(* directory, the download service (BGFT) that later fetches them through  *)
(* /static/, and cleanup_temp_files, which runs when the application       *)
(* starts.                                                                 *)
(*                                                                         *)
(* The files of an install are named after the connection: TmpName of the  *)
(* second in which its sb_Stream was created and of the stream's address.  *)
(* A file is what is in it: a package's data, or Cut when it is not all    *)
(* there.                                                                  *)
(***************************************************************************)
EXTENDS Integers, FiniteSets, Functions

CONSTANTS
  Addr,            \* addresses of sb_Stream objects
  Pkgs,            \* packages clients ask to install
  TmpName(_, _),   \* tmp_name from init_time and the stream's address
  StaleAge,        \* CLEANUP_DAY_COUNT, in ticks
  MaxTime,         \* bound: ticks of the clock
  MaxInstalls      \* bound: install requests

ASSUME InstallAssumption ==
  StaleAge \in Nat \ {0} /\ MaxTime \in Nat /\ MaxInstalls \in Nat

None == "none"
Cut  == "cut"

Kinds == {"json", "sfo", "png"}

VARIABLES
  now,       \* the clock
  job,       \* the install a stream serves: [pc, at, pkg, icon, meta, answer]
  requests,  \* how many installs were asked for
  fs,        \* the working directory: <<name, kind>> -> [data, atime]
  tasks,     \* BGFT's tasks: [id, pkg, name, icon, started]
  nextId,    \* the next task id
  installed, \* packages installed on the console
  used,      \* history: names installs were given
  spoilt,    \* history: <<name, cause>>, what happened to a name's files
  handed,    \* history: names of installs that became tasks
  refused,   \* history: names of installs whose registration made no task
  killed     \* history: names of installs a restart cut short

history == <<used, spoilt, handed, refused, killed>>
vars    == <<now, job, requests, fs, tasks, nextId, installed, history>>

\* What can happen to the files of a name: another install gets it, the disk is full
\* when its JSON is written, or nobody reads a file for StaleAge before a start.
Causes == {"reused", "full", "stale"}

Spoilt(name) == {c \in Causes : <<name, c>> \in spoilt}

\* What the client is told: [ok, id, code].
NoAnswer == [ok |-> FALSE, id |-> -1, code |-> None]

Idle == [pc |-> "idle", at |-> 0, pkg |-> None, icon |-> FALSE, meta |-> None,
         answer |-> NoAnswer]

Pcs == {"idle", "lang", "clear", "fetch", "open", "pieces", "sfo", "icon", "close",
        "load", "register", "finish", "err"}

\* tmp_name of the install at address a.
Name(a) == TmpName(job[a].at, a)

\* The type invariant.
TypeOK ==
  /\ now \in 0..MaxTime
  /\ job \in [Addr -> [pc : Pcs, at : 0..MaxTime, pkg : Pkgs \union {None},
                       icon : BOOLEAN, meta : Pkgs \union {None, Cut},
                       answer : [ok : BOOLEAN, id : -1..MaxInstalls,
                                 code : {None, "same", "bgft", "unset"}]]]
  /\ requests \in 0..MaxInstalls
  /\ \A f \in DOMAIN fs : /\ f[2] \in Kinds
                          /\ fs[f].data \in Pkgs \union {Cut}
                          /\ fs[f].atime \in 0..MaxTime
  /\ \A t \in tasks : t.id \in 0..MaxInstalls /\ t.pkg \in Pkgs \union {Cut} /\ t.started \in BOOLEAN
  /\ nextId \in 0..MaxInstalls
  /\ installed \subseteq Pkgs \union {Cut}

Init ==
  /\ now = 0
  /\ job = [a \in Addr |-> Idle]
  /\ requests = 0
  /\ fs = <<>>
  /\ tasks = {}
  /\ nextId = 0
  /\ installed = {}
  /\ used = {}
  /\ spoilt = {}
  /\ handed = {}
  /\ refused = {}
  /\ killed = {}

-------------------------------------------------------------------------------
(* Files *)

Files(name) == {name} \X Kinds

\* The directory with the file f holding data, written now.
Put(f, data) ==
  [g \in DOMAIN fs \union {f} |->
     IF g = f THEN [data |-> data, atime |-> now] ELSE fs[g]]

\* The directory without the files in S.
Without(S) == Restrict(fs, DOMAIN fs \ S)

-------------------------------------------------------------------------------
(* install_pieces, on the thread of the stream at address a *)

Goto(a, label) == job' = [job EXCEPT ![a].pc = label]

\* The registration has ended and the answer is queued.
Answer(a, ans) == job' = [job EXCEPT ![a].pc = "finish", ![a].answer = ans]

\* The connection's stream is created, which fixes its name, and the request is
\* dispatched.  Nothing keeps the name apart from those of other installs.
Request(a) ==
  /\ job[a].pc = "idle"
  /\ requests < MaxInstalls
  /\ requests' = requests + 1
  /\ \E p \in Pkgs : job' = [job EXCEPT ![a] = [Idle EXCEPT !.pc = "lang", !.at = now,
                                                           !.pkg = p]]
  /\ LET name == TmpName(now, a)
     IN /\ used' = used \union {name}
        /\ spoilt' = spoilt \union (IF name \in used THEN {<<name, "reused">>} ELSE {})
  /\ UNCHANGED <<now, fs, tasks, nextId, installed, handed, refused, killed>>

\* get_language_id fails before the paths are known: nothing is unlinked.
GetLanguage(a) ==
  /\ job[a].pc = "lang"
  /\ \/ Goto(a, "clear")
     \/ job' = [job EXCEPT ![a] = Idle]
  /\ UNCHANGED <<now, requests, fs, tasks, nextId, installed, history>>

\* pkg_setup_prerequisites unlinks the three files of the name.
ClearOld(a) ==
  /\ job[a].pc = "clear"
  /\ fs' = Without(Files(Name(a)))
  /\ Goto(a, "fetch")
  /\ UNCHANGED <<now, requests, tasks, nextId, installed, history>>

\* The downloads and checks of the header, the entry table, param.sfo and, when
\* the package has one, the icon.
FetchPackage(a) ==
  /\ job[a].pc = "fetch"
  /\ \/ \E icon \in BOOLEAN :
          job' = [job EXCEPT ![a].pc = "open", ![a].icon = icon]
     \/ Goto(a, "err")
  /\ UNCHANGED <<now, requests, fs, tasks, nextId, installed, history>>

\* fopen of the reference JSON.
OpenJson(a) ==
  /\ job[a].pc = "open"
  /\ \/ Goto(a, "pieces") /\ fs' = Put(<<Name(a), "json">>, Cut)
     \/ Goto(a, "err") /\ UNCHANGED fs
  /\ UNCHANGED <<now, requests, tasks, nextId, installed, history>>

\* The sizes of the other pieces are asked for and the total compared; a failure
\* closes and unlinks everything.
WritePieces(a) ==
  /\ job[a].pc = "pieces"
  /\ \/ Goto(a, "sfo")
     \/ Goto(a, "err")
  /\ UNCHANGED <<now, requests, fs, tasks, nextId, installed, history>>

\* write_file_trunc of param.sfo; a short write is a failure.
WriteSfo(a) ==
  /\ job[a].pc = "sfo"
  /\ \/ /\ fs' = Put(<<Name(a), "sfo">>, job[a].pkg)
        /\ Goto(a, IF job[a].icon THEN "icon" ELSE "close")
     \/ fs' = Put(<<Name(a), "sfo">>, Cut) /\ Goto(a, "err")
  /\ UNCHANGED <<now, requests, tasks, nextId, installed, history>>

\* write_file_trunc of icon0.png
WriteIcon(a) ==
  /\ job[a].pc = "icon"
  /\ \/ fs' = Put(<<Name(a), "png">>, job[a].pkg) /\ Goto(a, "close")
     \/ fs' = Put(<<Name(a), "png">>, Cut) /\ Goto(a, "err")
  /\ UNCHANGED <<now, requests, tasks, nextId, installed, history>>

\* fclose flushes the reference JSON; nobody looks at its result or fprintf's, so an
\* install goes on with a JSON the full disk cut off.
CloseJson(a) ==
  /\ job[a].pc = "close"
  /\ \/ fs' = Put(<<Name(a), "json">>, job[a].pkg) /\ UNCHANGED spoilt
     \/ /\ fs' = Put(<<Name(a), "json">>, Cut)
        /\ spoilt' = spoilt \union {<<Name(a), "full">>}
  /\ Goto(a, "load")
  /\ UNCHANGED <<now, requests, tasks, nextId, installed, used, handed, refused, killed>>

\* sfo_load_from_file and the checks on content type, title and content id: the
\* metadata is whatever the file holds now.
LoadSfo(a) ==
  /\ job[a].pc = "load"
  /\ \/ /\ <<Name(a), "sfo">> \in DOMAIN fs
        /\ job' = [job EXCEPT ![a].pc = "register", ![a].meta = fs[<<Name(a), "sfo">>].data]
     \/ Goto(a, "err")
  /\ UNCHANGED <<now, requests, fs, tasks, nextId, installed, history>>

\* bgft_download_register_package_task registers a task.
RegisterOk(a) ==
  /\ job[a].pc = "register"
  /\ job[a].meta \notin installed
  /\ tasks' = tasks \union {[id |-> nextId, pkg |-> job[a].meta, name |-> Name(a),
                             icon |-> job[a].icon, started |-> FALSE]}
  /\ nextId' = nextId + 1
  /\ handed' = handed \union {Name(a)}
  /\ Answer(a, [ok |-> TRUE, id |-> nextId, code |-> None])
  /\ UNCHANGED <<now, requests, fs, installed, used, spoilt, refused, killed>>

\* The service refuses a package that is installed: that counts as success, with
\* -1 for the task.
RegisterSame(a) ==
  /\ job[a].pc = "register"
  /\ job[a].meta \in installed
  /\ refused' = refused \union {Name(a)}
  /\ Answer(a, [ok |-> TRUE, id |-> -1, code |-> "same"])
  /\ UNCHANGED <<now, requests, fs, tasks, nextId, installed, used, spoilt, handed, killed>>

\* The service refuses the task for another reason or is not even asked, because it
\* is not initialized or the content id does not parse; or the foreground user is
\* unknown, and the error code that is sent back was never set.
RegisterFails(a) ==
  /\ job[a].pc = "register"
  /\ \E code \in {"bgft", "unset"} : Answer(a, [ok |-> FALSE, id |-> -1, code |-> code])
  /\ refused' = refused \union {Name(a)}
  /\ UNCHANGED <<now, requests, fs, tasks, nextId, installed, used, spoilt, handed, killed>>

\* Mutant of Finish: everything goes, the reference JSON and the icon included.
FinishAll(a) ==
  /\ job[a].pc = "finish"
  /\ fs' = Without(Files(Name(a)))
  /\ job' = [job EXCEPT ![a] = Idle]
  /\ UNCHANGED <<now, requests, tasks, nextId, installed, history>>

\* Only param.sfo is unlinked; the thread ends and the stream is freed.
Finish(a) ==
  /\ job[a].pc = "finish"
  /\ fs' = Without({<<Name(a), "sfo">>})
  /\ job' = [job EXCEPT ![a] = Idle]
  /\ UNCHANGED <<now, requests, tasks, nextId, installed, history>>

\* Mutant of Fail: the icon is forgotten.
FailKeepsIcon(a) ==
  /\ job[a].pc = "err"
  /\ fs' = Without(Files(Name(a)) \ {<<Name(a), "png">>})
  /\ job' = [job EXCEPT ![a] = Idle]
  /\ UNCHANGED <<now, requests, tasks, nextId, installed, history>>

\* The error paths unlink whatever the install may have written.
Fail(a) ==
  /\ job[a].pc = "err"
  /\ fs' = Without(Files(Name(a)))
  /\ job' = [job EXCEPT ![a] = Idle]
  /\ UNCHANGED <<now, requests, tasks, nextId, installed, history>>

InstallStep(a) ==
  \/ Request(a) \/ GetLanguage(a) \/ ClearOld(a) \/ FetchPackage(a) \/ OpenJson(a)
  \/ WritePieces(a) \/ WriteSfo(a) \/ WriteIcon(a) \/ CloseJson(a) \/ LoadSfo(a)
  \/ RegisterOk(a) \/ RegisterSame(a) \/ RegisterFails(a) \/ Finish(a) \/ Fail(a)

-------------------------------------------------------------------------------
(* The download service and the task endpoints *)

\* /api/start_task
StartTask ==
  /\ \E t \in tasks :
       /\ ~t.started
       /\ tasks' = (tasks \ {t}) \union {[t EXCEPT !.started = TRUE]}
  /\ UNCHANGED <<now, job, requests, fs, nextId, installed, history>>

\* /api/unregister_task; the files stay for the next cleanup.
UnregisterTask ==
  /\ \E t \in tasks : tasks' = tasks \ {t}
  /\ UNCHANGED <<now, job, requests, fs, nextId, installed, history>>

\* BGFT reads the reference JSON through /static/.
FetchJson ==
  /\ \E t \in tasks :
       /\ t.started
       /\ <<t.name, "json">> \in DOMAIN fs
       /\ fs' = [fs EXCEPT ![<<t.name, "json">>].atime = now]
  /\ UNCHANGED <<now, job, requests, tasks, nextId, installed, history>>

\* The download is complete and the package installed.
CompleteTask ==
  /\ \E t \in tasks :
       /\ t.started
       /\ tasks' = tasks \ {t}
       /\ installed' = installed \union {t.pkg}
  /\ UNCHANGED <<now, job, requests, fs, nextId, history>>

-------------------------------------------------------------------------------
(* Time and restarts *)

Stale(f, time) == time - fs[f].atime >= StaleAge

Tick ==
  /\ now < MaxTime
  /\ now' = now + 1
  /\ UNCHANGED <<job, requests, fs, tasks, nextId, installed, history>>

\* cleanup_temp_files removes the stale files it gets to see: a failing stat ends
\* it early.
CleanupTempFiles(before, after) ==
  /\ after \subseteq before
  /\ \A f \in before \ after : Stale(f, now)

\* The application is closed, which ends the installs wherever they are, and
\* started again: server_start cleans up.  BGFT keeps its tasks.
Restart ==
  /\ job' = [a \in Addr |-> Idle]
  /\ killed' = killed \union {Name(a) : a \in {b \in Addr : job[b].pc # "idle"}}
  /\ spoilt' = spoilt \union {<<f[1], "stale">> : f \in {g \in DOMAIN fs : Stale(g, now)}}
  /\ \E after \in SUBSET DOMAIN fs :
       /\ CleanupTempFiles(DOMAIN fs, after)
       /\ fs' = Restrict(fs, after)
  /\ UNCHANGED <<now, requests, tasks, nextId, installed, used, handed, refused>>

Next ==
  \/ \E a \in Addr : InstallStep(a)
  \/ StartTask \/ UnregisterTask \/ FetchJson \/ CompleteTask
  \/ Tick \/ Restart

Spec == Init /\ [][Next]_vars

-------------------------------------------------------------------------------
(* Properties *)

\* The JSON and the icon a task was registered with are there, complete, and those of
\* its package.
HasFiles(t) ==
  /\ <<t.name, "json">> \in DOMAIN fs /\ fs[<<t.name, "json">>].data = t.pkg
  /\ t.icon => <<t.name, "png">> \in DOMAIN fs /\ fs[<<t.name, "png">>].data = t.pkg

\* "The reference JSON and icon stay behind for BGFT to fetch over /static/"
\* (server.c): as long as a task exists whose name no other install was given, whose
\* JSON was written in full and whose files no start found stale, they are there,
\* whatever becomes of the other installs and tasks.
FilesStayForTask == \A t \in tasks : Spoilt(t.name) = {} => HasFiles(t)

\* The metadata a task is registered with are those of the package the client
\* asked for, though they are read back from a file.
OwnMetadata == \A a \in Addr : job[a].pc = "register" => job[a].meta = job[a].pkg

\* The same of the installs that share their name with no other.
UnsharedMetadata ==
  \A a \in Addr :
    job[a].pc = "register" /\ "reused" \notin Spoilt(Name(a)) => job[a].meta = job[a].pkg

\* A task is the package the client asked for, from its registration to its end: its
\* metadata, and the files BGFT fetches for it, unless one of the Causes befell its own
\* name.  Every variable keeps its type.
TaskIsPackage == TypeOK /\ UnsharedMetadata /\ FilesStayForTask

\* "The reference JSON and icon stay behind for BGFT to fetch" (server.c), though a
\* later install got the same name and nothing else happened.  They do not: that install
\* unlinks them.
StayThoughNameReused == \A t \in tasks : Spoilt(t.name) \subseteq {"reused"} => HasFiles(t)

\* The same, though the task did not read its files for StaleAge.  Nor then.
StayThoughUnread == \A t \in tasks : Spoilt(t.name) \subseteq {"stale"} => HasFiles(t)

\* The same, though the disk was full when the JSON was written.  Nor then.
StayThoughDiskFull == \A t \in tasks : Spoilt(t.name) \subseteq {"full"} => HasFiles(t)

\* Installs clean up after themselves: a file in the directory belongs to an install in
\* progress, to one that a restart cut short, or to one that came to its registration.
\* Of those only the JSON and the icon are left: for BGFT when there is a task, and for
\* nobody when the registration was refused.  An install that fails earlier leaves
\* nothing.
NoStrayFiles ==
  \A f \in DOMAIN fs :
    \/ f[1] \in killed
    \/ f[1] \in handed \union refused /\ f[2] # "sfo"
    \/ \E a \in Addr : job[a].pc \notin {"idle", "lang"} /\ f[1] = Name(a)

\* "The reference JSON and icon stay behind for BGFT to fetch" (server.c): what stays
\* behind of an install that ended was handed to BGFT.  Not after a refused registration.
LeftForBgft ==
  \A f \in DOMAIN fs :
    f[1] \in killed \union handed \union {Name(a) : a \in {b \in Addr : job[b].pc # "idle"}}
===============================================================================
