------------------------------- MODULE Lifecycle -------------------------------
(***************************************************************************)
(* Starting and stopping the application: main with load_modules,          *)
(* app_inst_util_init, bgft_init, net_init, http_init, server_start and    *)
(* sb_new_server, the goto ladders that undo a start that failed half way, *)
(* the ..._fini functions, and the atexit handler.                         *)
(*                                                                         *)
(* Startup lists what the start acquires, in order.  Any of it may fail;   *)
(* todo is then what the code still has to release: the labels it falls    *)
(* through, function by function.  A resource stands for itself in todo, a *)
(* function of the application for a call to it.                           *)
(***************************************************************************)
EXTENDS Integers, Sequences, SequencesExt

\* load_modules: the order of the sceSysmoduleLoadModuleInternal calls.
LoadOrder == <<"SYSCORE", "SYSTEM_SERVICE", "USER_SERVICE", "NETCTL", "NET", "HTTP",
               "SSL", "APP_INST_UTIL", "BGFT", "NP_COMMON">>

\* load_modules: what the labels err_unload_bgft .. err_unload_sys_core unload, in
\* the order in which control falls through them.
LoadLadder == <<"BGFT", "APP_INST_UTIL", "SSL", "HTTP", "NET", "NETCTL",
                "USER_SERVICE", "SYSTEM_SERVICE", "SYSCORE">>

\* load_modules: the ladder a failing load jumps to, by the first module it unloads.
LoadLabel == [SYSTEM_SERVICE |-> "SYSCORE", USER_SERVICE |-> "SYSTEM_SERVICE",
              NETCTL |-> "USER_SERVICE", NET |-> "NETCTL", HTTP |-> "NET",
              SSL |-> "HTTP", APP_INST_UTIL |-> "SSL", BGFT |-> "APP_INST_UTIL",
              NP_COMMON |-> "BGFT"]

\* unload_modules: the order of the sceSysmoduleUnloadModuleInternal calls.
UnloadOrder == <<"NP_COMMON", "BGFT", "APP_INST_UTIL", "SSL", "HTTP", "NET", "NETCTL",
                 "USER_SERVICE", "SYSTEM_SERVICE", "SYSCORE">>

\* What each of the init functions acquires, in order.  "listen" is bind and listen
\* on the socket, and is not held.
app_inst_util_init == <<"appinst">>
bgft_init          == <<"bgft_heap", "bgft">>
net_init           == <<"netctl", "net", "pool">>
http_init          == <<"ssl", "http", "bundle">>
sb_new_server      == <<"srv", "sockfd", "listen", "mutex">>
server_start       == <<"ip_address", "work_dir">> \o sb_new_server

\* Everything main acquires on its way to server_listen.  "user" is the user service;
\* "ipv4" is only asked for.
Startup ==
  <<"jail">> \o LoadOrder \o <<"user">> \o app_inst_util_init \o bgft_init \o net_init
  \o <<"ipv4">> \o http_init \o server_start

\* Acquisitions that may fail without the start failing: libjbc asks the system to
\* close the application and goes on, a missing CA bundle is not an error, and
\* nobody looks at what strdup returns.
Optional == {"jail", "bundle", "ip_address", "work_dir"}

Unheld == {"ipv4", "listen"}

\* main: the calls its labels make, in the order in which control falls through.
MainLadder == <<"server_stop", "http_fini", "net_fini", "bgft_fini",
                "app_inst_util_fini", "user", "exit">>

From(label, ladder) == SubSeq(ladder, CHOOSE i \in DOMAIN ladder : ladder[i] = label, Len(ladder))

-------------------------------------------------------------------------------

VARIABLES
  at,     \* how far the start has come in Startup
  todo,   \* what is still to be released; nonempty once the start has failed
  held,   \* what is acquired and not released
  flags   \* the functions whose ..._initialized (or ..._loaded) static is set

vars == <<at, todo, held, flags>>

Resources == Range(Startup) \ Unheld

Finis == {"server_stop", "http_fini", "net_fini", "bgft_fini", "app_inst_util_fini",
          "unload_modules"}

\* The type invariant.
TypeOK ==
  /\ at \in 1..(Len(Startup) + 1)
  /\ todo \in Seq(Resources \union Finis \union {"exit", "exited", "close_server", "lock_streams"})
  /\ held \subseteq Resources
  /\ flags \subseteq Finis

Init ==
  /\ at = 1
  /\ todo = <<>>
  /\ held = {}
  /\ flags = {}

-------------------------------------------------------------------------------
(* Starting *)

\* The function that is done, and sets its flag, with an acquisition.
DoneWith == [NP_COMMON |-> "unload_modules", appinst |-> "app_inst_util_fini",
             bgft |-> "bgft_fini", pool |-> "net_fini", http |-> "http_fini",
             mutex |-> "server_stop"]

\* net_init: what its labels release when r cannot be had.
NetFails(r) ==
  CASE r = "netctl" -> <<>>
    [] r = "net"    -> <<"netctl">>
    [] r = "pool"   -> <<"net", "netctl">>

\* bgft_init: the heap is malloc'ed, then the service is initialized with it.
BgftFails(r) == IF r = "bgft" THEN <<"bgft_heap">> ELSE <<>>

\* http_init
HttpFails(r) == IF r = "http" THEN <<"ssl">> ELSE <<>>

\* server_start: sb_new_server closes what it has of the server, unless it has not
\* even that, and the two strings are freed.
ServerFails(r) ==
  (IF r = "srv" THEN <<>> ELSE <<"close_server">>) \o <<"work_dir", "ip_address">>

\* Mutant of OnFail: without an address main goes to the label before net_fini's.
OnFailIpv4(r) ==
  CASE r \in Range(LoadOrder) ->
         (IF r \in DOMAIN LoadLabel THEN From(LoadLabel[r], LoadLadder) ELSE <<>>)
           \o From("exit", MainLadder)
    [] r = "user"                       -> From("exit", MainLadder)
    [] r = "appinst"                    -> From("user", MainLadder)
    [] r \in {"bgft_heap", "bgft"}      -> BgftFails(r) \o From("app_inst_util_fini", MainLadder)
    [] r \in {"netctl", "net", "pool"}  -> NetFails(r) \o From("bgft_fini", MainLadder)
    [] r = "ipv4"                       -> From("bgft_fini", MainLadder)
    [] r \in {"ssl", "http"}            -> HttpFails(r) \o From("net_fini", MainLadder)
    [] OTHER                            -> ServerFails(r) \o From("http_fini", MainLadder)

\* Where control goes when r cannot be had: the labels of the function that wanted
\* it, then those of main.
OnFail(r) ==
  CASE r \in Range(LoadOrder) ->
         (IF r \in DOMAIN LoadLabel THEN From(LoadLabel[r], LoadLadder) ELSE <<>>)
           \o From("exit", MainLadder)
    [] r = "user"                       -> From("exit", MainLadder)
    [] r = "appinst"                    -> From("user", MainLadder)
    [] r \in {"bgft_heap", "bgft"}      -> BgftFails(r) \o From("app_inst_util_fini", MainLadder)
    [] r \in {"netctl", "net", "pool"}  -> NetFails(r) \o From("bgft_fini", MainLadder)
    [] r = "ipv4"                       -> From("net_fini", MainLadder)
    [] r \in {"ssl", "http"}            -> HttpFails(r) \o From("net_fini", MainLadder)
    [] OTHER                            -> ServerFails(r) \o From("http_fini", MainLadder)

Starting == todo = <<>> /\ at <= Len(Startup)

\* The next thing is acquired.
Acquire ==
  /\ Starting
  /\ LET r == Startup[at]
     IN /\ held' = held \union ({r} \ Unheld)
        /\ flags' = IF r \in DOMAIN DoneWith THEN flags \union {DoneWith[r]} ELSE flags
  /\ at' = at + 1
  /\ UNCHANGED todo

\* It cannot be had, and the start goes on without it.
DoWithout ==
  /\ Starting
  /\ Startup[at] \in Optional
  /\ at' = at + 1
  /\ UNCHANGED <<todo, held, flags>>

\* It cannot be had, and the start fails.
AcquireFails ==
  /\ Starting
  /\ Startup[at] \notin Optional
  /\ todo' = OnFail(Startup[at])
  /\ UNCHANGED <<at, held, flags>>

-------------------------------------------------------------------------------
(* Stopping *)

\* What the bodies of the ..._fini functions release, in order.
app_inst_util_fini == <<"appinst">>
bgft_fini          == <<"bgft", "bgft_heap">>
net_fini           == <<"pool", "net", "netctl">>
http_fini          == <<"bundle", "http", "ssl">>
server_stop        == <<"close_server", "work_dir", "ip_address">>

Body(f) ==
  CASE f = "unload_modules"     -> UnloadOrder
    [] f = "app_inst_util_fini" -> app_inst_util_fini
    [] f = "bgft_fini"          -> bgft_fini
    [] f = "net_fini"           -> net_fini
    [] f = "http_fini"          -> http_fini
    [] f = "server_stop"        -> server_stop

\* Mutant of Fini: it waits for the initialization instead of returning.
FiniWaits ==
  /\ todo # <<>> /\ Head(todo) \in Finis
  /\ Head(todo) \in flags
  /\ todo' = Body(Head(todo)) \o Tail(todo)
  /\ flags' = flags \ {Head(todo)}
  /\ UNCHANGED <<at, held>>

\* A ..._fini function does nothing unless its init function ended well.
Fini ==
  /\ todo # <<>> /\ Head(todo) \in Finis
  /\ todo' = (IF Head(todo) \in flags THEN Body(Head(todo)) ELSE <<>>) \o Tail(todo)
  /\ flags' = flags \ {Head(todo)}
  /\ UNCHANGED <<at, held>>

\* sb_close_server locks the list of streams, closes the socket if there is one, destroys
\* the mutex and frees the server.  Of the mutex it does not ask whether it was created.
CloseServer ==
  /\ todo # <<>> /\ Head(todo) = "close_server"
  /\ todo' = <<"lock_streams">> \o (IF "sockfd" \in held THEN <<"sockfd">> ELSE <<>>)
             \o <<"mutex", "srv">> \o Tail(todo)
  /\ UNCHANGED <<at, held, flags>>

\* The list, empty before the first connection, is walked under the mutex.  A mutex that
\* was never created is all zeros: the lock takes that for one it creates now, or fails,
\* and the results of lock, unlock and destroy are not looked at.
LockStreams ==
  /\ todo # <<>> /\ Head(todo) = "lock_streams"
  /\ held' \in {held, held \union {"mutex"}}
  /\ todo' = Tail(todo)
  /\ UNCHANGED <<at, flags>>

\* A resource is released; an error is only logged.
Release ==
  /\ todo # <<>> /\ Head(todo) \in Resources
  /\ held' = held \ {Head(todo)}
  /\ todo' = Tail(todo)
  /\ UNCHANGED <<at, flags>>

\* Mutant of Exit: the atexit handler gives the credentials back first.
ExitCredentialsFirst ==
  /\ todo # <<>> /\ Head(todo) = "exit"
  /\ todo' = <<"jail", "unload_modules", "exited">>
  /\ UNCHANGED <<at, held, flags>>

\* exit(0) runs cleanup: unload_modules, then unjailbreak.
Exit ==
  /\ todo # <<>> /\ Head(todo) = "exit"
  /\ todo' = <<"unload_modules", "jail", "exited">>
  /\ UNCHANGED <<at, held, flags>>

Next ==
  \/ Acquire \/ DoWithout \/ AcquireFails
  \/ Fini \/ CloseServer \/ LockStreams \/ Release \/ Exit

\* The main thread runs.  Once in server_listen it stays: s_server_started is only
\* cleared after the loop.
FairSpec == Init /\ [][Next]_vars /\ WF_vars(Next)

-------------------------------------------------------------------------------
(* Properties *)

\* No ladder and no ..._fini function releases what the failed start never got or
\* what is released already; only what the start can do without may be missing.  The one
\* exception is the mutex of a server whose socket, port or mutex could not be had:
\* sb_close_server destroys it all the same, while the memory it is in is still there.
ReleasesWhatItHolds ==
  todo # <<>> /\ Head(todo) \in Resources \ (Optional \union held) =>
    /\ Head(todo) = "mutex" /\ "srv" \in held
    /\ Startup[at] \in {"sockfd", "listen", "mutex"}

\* What needs what: a service the module that provides it, the HTTP library the
\* network pool and the TLS library it was created with, a bundle the library it is
\* registered with, and a mutex the server it is a member of.
Needs ==
  {<<"user", "USER_SERVICE">>, <<"appinst", "APP_INST_UTIL">>, <<"bgft", "BGFT">>,
   <<"bgft", "bgft_heap">>, <<"netctl", "NETCTL">>, <<"net", "NET">>, <<"pool", "net">>,
   <<"ssl", "SSL">>, <<"http", "HTTP">>, <<"http", "pool">>, <<"http", "ssl">>,
   <<"bundle", "http">>, <<"sockfd", "net">>, <<"mutex", "srv">>}

\* Nothing is pulled from under something that still uses it, on the way up, on any
\* error path or on the way down.
UsersGoFirst == \A n \in Needs : n[1] \in held => n[2] \in held

\* The ladders are right at every step: what they release is held, the mutex of a server
\* that never got so far excepted, and nobody uses it any more.
LaddersRelease == TypeOK /\ ReleasesWhatItHolds /\ UsersGoFirst

\* The process does not end before everything is released, however far the start
\* had come; the credentials of the jailbreak are the last to go.
NothingLeft ==
  /\ todo = <<"exited">> => held = {} /\ flags = {}
  /\ todo # <<>> /\ Head(todo) = "jail" => held \subseteq {"jail"}

\* The start ends: the application listens with everything it needs, or the
\* process ends.
StartsOrEnds ==
  <>[] \/ /\ at > Len(Startup) /\ todo = <<>>
          /\ Resources \ Optional \subseteq held
       \/ todo = <<"exited">>
===============================================================================
