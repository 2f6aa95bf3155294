---------------------------- MODULE SandbirdStreams ----------------------------
(***************************************************************************)
(* The connection side of the HTTP server: the accept loop of              *)
(* server_listen/sb_poll_server, which runs on the main thread, and one    *)
(* conn_thread per accepted connection.  They share the heap of sb_Stream  *)
(* objects and the doubly linked list srv->streams, which stream_mtx       *)
(* guards.                                                                 *)
(*                                                                         *)
(* A stream is its address.  A thread is named by the stream it serves:    *)
(* the address can be handed out again by malloc only after that thread    *)
(* has freed it, which is the last thing the thread does.                  *)
(***************************************************************************)
EXTENDS Integers, FiniteSets, Sequences

CONSTANTS
  Addr,        \* the addresses malloc can return for an sb_Stream
  NULL,        \* the null pointer; also "nobody" as the holder of the mutex
  Main,        \* the main thread, as a holder of the mutex
  MaxBacklog   \* bound: clients waiting in the listen queue

ASSUME ConstAssumption ==
  /\ IsFiniteSet(Addr)
  /\ NULL \notin Addr /\ Main \notin Addr /\ NULL # Main
  /\ MaxBacklog \in Nat \ {0}

VARIABLES
  backlog,   \* connections the kernel holds for accept()
  sock,      \* how many accepted sockets are open
  heap,      \* sb_Stream objects allocated and not freed
  next,      \* st->next
  prev,      \* st->prev
  streams,   \* srv->streams, the head of the list
  mtx,       \* holder of srv->stream_mtx
  mpc,       \* where the main thread is
  mst,       \* its local st
  cur,       \* its local st2, in sb_stream_link
  tpc,       \* where the connection thread of a stream is
  tcb,       \* threads whose stack and control block are allocated
  detached   \* running threads pthread_detach was called for

netVars  == <<backlog, sock>>
listVars == <<next, prev, streams>>
mainVars == <<mpc, mst, cur>>
thrVars  == <<tpc, tcb, detached>>
vars     == <<netVars, heap, listVars, mtx, mainVars, thrVars>>

Ptr == Addr \union {NULL}

MainPc == {"accept", "new", "link", "walk", "create", "detach",
           "lock", "unlink", "destroy", "sleep"}

ThreadPc == {"none", "connect", "recv", "send", "lock", "unlink", "destroy"}

\* The type invariant; sock is a Nat, so a socket closed twice shows here.
TypeOK ==
  /\ backlog \in 0..MaxBacklog
  /\ sock \in Nat
  /\ heap \subseteq Addr
  /\ next \in [Addr -> Ptr]
  /\ prev \in [Addr -> Ptr]
  /\ streams \in Ptr
  /\ mtx \in Addr \union {NULL, Main}
  /\ mpc \in MainPc
  /\ mst \in Ptr
  /\ cur \in Ptr
  /\ tpc \in [Addr -> ThreadPc]
  /\ tcb \subseteq Addr
  /\ detached \subseteq Addr

Init ==
  /\ backlog = 0
  /\ sock = 0
  /\ heap = {}
  /\ next = [a \in Addr |-> NULL]
  /\ prev = [a \in Addr |-> NULL]
  /\ streams = NULL
  /\ mtx = NULL
  /\ mpc = "accept"
  /\ mst = NULL
  /\ cur = NULL
  /\ tpc = [a \in Addr |-> "none"]
  /\ tcb = {}
  /\ detached = {}

-------------------------------------------------------------------------------
(* The network *)

\* A client's connection reaches the listen queue.
ClientConnect ==
  /\ backlog < MaxBacklog
  /\ backlog' = backlog + 1
  /\ UNCHANGED <<sock, heap, listVars, mtx, mainVars, thrVars>>

-------------------------------------------------------------------------------
(* List operations, run with stream_mtx held *)

\* The body of sb_stream_unlink: the neighbours of a are joined, and the head
\* moves on when a was the head.  a keeps its own pointers.
UnlinkPtrs(a) ==
  /\ prev' = [b \in Addr |-> IF b = next[a] THEN prev[a] ELSE prev[b]]
  /\ next' = [b \in Addr |-> IF b = prev[a] THEN next[a] ELSE next[b]]
  /\ streams' = IF streams = a THEN next[a] ELSE streams

\* Mutant of AppendAfter: the stream is put right behind the head, wherever
\* the walk stopped.
AppendBehindHead(st2, st) ==
  /\ next' = [next EXCEPT ![streams] = st, ![st] = next[streams]]
  /\ prev' = [b \in Addr |-> IF b = st THEN streams
                             ELSE IF b = next[streams] THEN st ELSE prev[b]]

\* The end of sb_stream_link's walk: st2 is the tail and st goes behind it.
AppendAfter(st2, st) ==
  /\ next' = [next EXCEPT ![st2] = st]
  /\ prev' = [prev EXCEPT ![st] = st2]

-------------------------------------------------------------------------------
(* The main thread: server_listen calling sb_poll_server *)

\* accept() returns a connection.
MainAccept ==
  /\ mpc = "accept"
  /\ backlog > 0
  /\ backlog' = backlog - 1
  /\ sock' = sock + 1
  /\ mpc' = "new"
  /\ UNCHANGED <<heap, listVars, mtx, mst, cur, thrVars>>

\* accept() returns INVALID_SOCKET: nobody is waiting, or the call failed.
\* sb_poll_server returns SB_RES_OK and server_listen sleeps.
MainAcceptNone ==
  /\ mpc = "accept"
  /\ mpc' = "sleep"
  /\ UNCHANGED <<netVars, heap, listVars, mtx, mst, cur, thrVars>>

\* sb_stream_new: malloc returns a free address and memset clears the pointers.
MainNew ==
  /\ mpc = "new"
  /\ \E a \in Addr \ heap :
       /\ heap' = heap \union {a}
       /\ mst' = a
       /\ next' = [next EXCEPT ![a] = NULL]
       /\ prev' = [prev EXCEPT ![a] = NULL]
  /\ mpc' = "link"
  /\ UNCHANGED <<netVars, streams, mtx, cur, thrVars>>

\* sb_stream_new has no memory: st is NULL, so the fail path closes the socket.
MainNewFails ==
  /\ mpc = "new"
  /\ mst' = NULL
  /\ sock' = sock - 1
  /\ mpc' = "sleep"
  /\ UNCHANGED <<backlog, heap, listVars, mtx, cur, thrVars>>

\* sb_stream_link takes the mutex.  An empty list makes st its head at once and
\* the mutex is released; otherwise the walk starts at the head.
MainLink ==
  /\ mpc = "link"
  /\ mtx = NULL
  /\ IF streams = NULL
       THEN /\ streams' = mst
            /\ mpc' = "create"
            /\ UNCHANGED <<mtx, cur>>
       ELSE /\ cur' = streams
            /\ mtx' = Main
            /\ mpc' = "walk"
            /\ UNCHANGED streams
  /\ UNCHANGED <<netVars, heap, next, prev, mst, thrVars>>

\* while (st2->next) st2 = st2->next;
MainWalk ==
  /\ mpc = "walk"
  /\ next[cur] # NULL
  /\ cur' = next[cur]
  /\ UNCHANGED <<netVars, heap, listVars, mtx, mpc, mst, thrVars>>

\* The walk is at the tail: append, release the mutex.
MainAppend ==
  /\ mpc = "walk"
  /\ next[cur] = NULL
  /\ AppendAfter(cur, mst)
  /\ mtx' = NULL
  /\ mpc' = "create"
  /\ UNCHANGED <<netVars, heap, streams, mst, cur, thrVars>>

\* pthread_create succeeds; the thread may run, and even finish, before the
\* main thread does anything else.
MainCreate ==
  /\ mpc = "create"
  /\ tpc' = [tpc EXCEPT ![mst] = "connect"]
  /\ tcb' = tcb \union {mst}
  /\ mpc' = "detach"
  /\ UNCHANGED <<netVars, heap, listVars, mtx, mst, cur, detached>>

\* Mutant of MainCreateFails: the fail path drops the stream without unlinking
\* or destroying it.
MainCreateFailsLeaks ==
  /\ mpc = "create"
  /\ mpc' = "sleep"
  /\ UNCHANGED <<netVars, heap, listVars, mtx, mst, cur, thrVars>>

\* pthread_create fails: the fail path unlinks and destroys the stream.
MainCreateFails ==
  /\ mpc = "create"
  /\ mpc' = "lock"
  /\ UNCHANGED <<netVars, heap, listVars, mtx, mst, cur, thrVars>>

\* Mutant of MainDetach: the thread stays joinable.
MainDetachForgotten ==
  /\ mpc = "detach"
  /\ mpc' = "accept"
  /\ UNCHANGED <<netVars, heap, listVars, mtx, mst, cur, thrVars>>

\* pthread_detach: a thread that is still running will release itself when it
\* exits, one that has exited is released now.
MainDetach ==
  /\ mpc = "detach"
  /\ IF tpc[mst] # "none"
       THEN detached' = detached \union {mst} /\ UNCHANGED tcb
       ELSE tcb' = tcb \ {mst} /\ UNCHANGED detached
  /\ mpc' = "accept"
  /\ UNCHANGED <<netVars, heap, listVars, mtx, mst, cur, tpc>>

\* The fail path of sb_poll_server: sb_stream_unlink takes the mutex ...
MainLock ==
  /\ mpc = "lock"
  /\ mtx = NULL
  /\ mtx' = Main
  /\ mpc' = "unlink"
  /\ UNCHANGED <<netVars, heap, listVars, mst, cur, thrVars>>

\* ... takes the stream out and releases the mutex ...
MainUnlink ==
  /\ mpc = "unlink"
  /\ UnlinkPtrs(mst)
  /\ mtx' = NULL
  /\ mpc' = "destroy"
  /\ UNCHANGED <<netVars, heap, mst, cur, thrVars>>

\* ... and sb_stream_destroy closes the socket the stream owns and frees it.
MainDestroy ==
  /\ mpc = "destroy"
  /\ heap' = heap \ {mst}
  /\ sock' = sock - 1
  /\ mpc' = "sleep"
  /\ UNCHANGED <<backlog, listVars, mtx, mst, cur, thrVars>>

\* sceKernelUsleep in server_listen ends and the next poll begins.
MainSleep ==
  /\ mpc = "sleep"
  /\ mpc' = "accept"
  /\ UNCHANGED <<netVars, heap, listVars, mtx, mst, cur, thrVars>>

MainNext ==
  \/ MainAccept \/ MainAcceptNone \/ MainNew \/ MainNewFails
  \/ MainLink \/ MainWalk \/ MainAppend
  \/ MainCreate \/ MainCreateFails \/ MainDetach
  \/ MainLock \/ MainUnlink \/ MainDestroy \/ MainSleep

-------------------------------------------------------------------------------
(* A connection thread *)

threadFrame == <<backlog, mainVars>>

\* The connect event; event_handler answers SB_RES_OK to anything but a request.
Connect(a) ==
  /\ tpc[a] = "connect"
  /\ tpc' = [tpc EXCEPT ![a] = "recv"]
  /\ UNCHANGED <<threadFrame, sock, heap, listVars, mtx, tcb, detached>>

\* sb_stream_recv returns: with a request answered, or with an error or a closed
\* connection, which end the thread without sending.
Recv(a) ==
  /\ tpc[a] = "recv"
  /\ \E pc \in {"send", "lock"} : tpc' = [tpc EXCEPT ![a] = pc]
  /\ UNCHANGED <<threadFrame, sock, heap, listVars, mtx, tcb, detached>>

\* One round of the send loop: more to send, or sb_stream_send failed or closed
\* the stream.
Send(a) ==
  /\ tpc[a] = "send"
  /\ \E pc \in {"send", "lock"} : tpc' = [tpc EXCEPT ![a] = pc]
  /\ UNCHANGED <<threadFrame, sock, heap, listVars, mtx, tcb, detached>>

\* Mutant of Lock: the list is changed without waiting for the mutex.
LockNoWait(a) ==
  /\ tpc[a] = "lock"
  /\ mtx' = a
  /\ tpc' = [tpc EXCEPT ![a] = "unlink"]
  /\ UNCHANGED <<threadFrame, sock, heap, listVars, tcb, detached>>

\* sb_stream_unlink takes the mutex ...
Lock(a) ==
  /\ tpc[a] = "lock"
  /\ mtx = NULL
  /\ mtx' = a
  /\ tpc' = [tpc EXCEPT ![a] = "unlink"]
  /\ UNCHANGED <<threadFrame, sock, heap, listVars, tcb, detached>>

\* Mutant of Unlink: the branch that moves the head of the list returns without
\* releasing the mutex.
UnlinkHeadKeepsMutex(a) ==
  /\ tpc[a] = "unlink"
  /\ UnlinkPtrs(a)
  /\ mtx' = IF streams = a THEN mtx ELSE NULL
  /\ tpc' = [tpc EXCEPT ![a] = "destroy"]
  /\ UNCHANGED <<threadFrame, sock, heap, tcb, detached>>

\* ... takes the stream out and releases the mutex.
Unlink(a) ==
  /\ tpc[a] = "unlink"
  /\ UnlinkPtrs(a)
  /\ mtx' = NULL
  /\ tpc' = [tpc EXCEPT ![a] = "destroy"]
  /\ UNCHANGED <<threadFrame, sock, heap, tcb, detached>>

\* sb_stream_destroy closes the socket and frees the stream, and the thread
\* exits; its stack and control block go with it only if it is detached.
Destroy(a) ==
  /\ tpc[a] = "destroy"
  /\ heap' = heap \ {a}
  /\ sock' = sock - 1
  /\ tpc' = [tpc EXCEPT ![a] = "none"]
  /\ IF a \in detached
       THEN tcb' = tcb \ {a} /\ detached' = detached \ {a}
       ELSE UNCHANGED <<tcb, detached>>
  /\ UNCHANGED <<threadFrame, listVars, mtx>>

ThreadNext(a) ==
  Connect(a) \/ Recv(a) \/ Send(a) \/ Lock(a) \/ Unlink(a) \/ Destroy(a)

-------------------------------------------------------------------------------

Next == ClientConnect \/ MainNext \/ \E a \in Addr : ThreadNext(a)

(***************************************************************************)
(* The scheduler runs every thread.  While the main thread waits for the   *)
(* mutex no thread is created and each existing one takes the mutex at     *)
(* most once, so weak fairness of the main thread is enough.  A connection *)
(* thread may lose the mutex to newer ones; strong fairness of Lock says   *)
(* that the pthread mutex does not starve a waiter for ever.  Nothing is   *)
(* assumed of Recv and Send: both depend on the client.                    *)
(***************************************************************************)
Fairness ==
  /\ WF_vars(MainNext)
  /\ \A a \in Addr :
       /\ WF_vars(Connect(a) \/ Unlink(a) \/ Destroy(a))
       /\ SF_vars(Lock(a))

Spec == Init /\ [][Next]_vars

FairSpec == Spec /\ Fairness

-------------------------------------------------------------------------------
(* Properties *)

\* The streams the code means to be in the list: linked by the main thread and
\* not yet unlinked by it or by their own thread.
InList ==
  {a \in heap : \/ tpc[a] \in {"connect", "recv", "send", "lock", "unlink"}
                \/ a = mst /\ mpc \in {"create", "lock", "unlink"}}

\* No thread follows a pointer to a freed stream: every pointer the next step of
\* sb_stream_link, sb_stream_unlink, conn_thread or the fail path dereferences
\* points to a live sb_Stream, whatever other threads free meanwhile.
NoUseAfterFree ==
  /\ streams \in heap \union {NULL}
  /\ mpc = "walk" => cur \in heap
  /\ mpc \in {"link", "walk", "create", "lock", "unlink", "destroy"} => mst \in heap
  /\ mpc = "unlink" => {next[mst], prev[mst]} \subseteq heap \union {NULL}
  /\ \A a \in Addr :
       /\ tpc[a] # "none" => a \in heap
       /\ tpc[a] = "unlink" => {next[a], prev[a]} \subseteq heap \union {NULL}

\* Every stream has exactly one owner that will destroy it (its own thread, or
\* the main thread until pthread_create succeeds), and every open socket is a
\* stream's or the one just accepted: no path of sb_poll_server or conn_thread
\* leaks a stream or a socket, or closes one twice.
OwnedOnce ==
  /\ \A a \in Addr :
       a \in heap <=> \/ tpc[a] # "none"
                      \/ a = mst /\ mpc \in {"link", "walk", "create", "lock", "unlink", "destroy"}
  /\ \A a \in Addr :
       ~ (tpc[a] # "none" /\ a = mst
             /\ mpc \in {"link", "walk", "create", "lock", "unlink", "destroy"})
  /\ sock = Cardinality(heap) + (IF mpc = "new" THEN 1 ELSE 0)

\* The comment in sb_poll_server: an exited thread must not hold its stack and
\* control block for the lifetime of the process.  Only the thread the main
\* thread is about to detach may be both finished and unreleased.
ThreadsReclaimed ==
  \A a \in tcb : tpc[a] # "none" \/ (mpc = "detach" /\ a = mst)

\* s is the list from the head along next to its end.
Follows(s) ==
  /\ streams = IF s = <<>> THEN NULL ELSE s[1]
  /\ \A i \in 1..Len(s) : next[s[i]] = IF i = Len(s) THEN NULL ELSE s[i + 1]

\* The list as a sequence of streams.
Chain ==
  CHOOSE s \in UNION {[1..n -> Addr] : n \in 0..Cardinality(Addr)} : Follows(s)

Abs == INSTANCE StreamList WITH list <- Chain

\* The pointers implement the sequence of StreamList: a stream joins at the tail
\* in one step and leaves from its place in one step, though sb_stream_link walks
\* the list a pointer at a time.
ImplementsStreamList == Abs!LSpec

\* The accept loop comes back to accept() for ever: no connection thread, list
\* state or failed pthread_create wedges it.
AcceptLoopLives == []<>(mpc = "accept")

\* A connection thread that is done with its client gets through
\* sb_stream_unlink and sb_stream_destroy.
StreamsReleased == \A a \in Addr : tpc[a] = "lock" ~> tpc[a] = "none"

\* The server stays alive: the accept loop goes on and streams are released, though
\* both wait for stream_mtx.
ServerLives == AcceptLoopLives /\ StreamsReleased
===============================================================================
