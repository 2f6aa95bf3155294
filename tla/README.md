# PS4RPI in TLA+

PS4RPI (`src/RPI`) runs on a console, serves a small HTTP API on the local network, and
has the console's download service (BGFT) fetch and install packages. These modules model
the parts of it whose correctness depends on interleavings, failures, restarts and
ordering; TLC checks them on small instances and TLAPS proves the central properties for
every instance.

Run a model with `tlc -config <file>.cfg <module>` and check proofs with
`tlapm <module>.tla`. `PROJECT.json` lists the runs, the mutants that show that each
property can fail, the lines of the source every definition stands for, the findings, the
hazards and the theorems.

## 1. Inventory

| Component | State | Operations | Interacts with |
|---|---|---|---|
| Connections (`sandbird.c`) | heap of `sb_Stream`, list `srv->streams` under `stream_mtx`, sockets, threads | accept loop, link, unlink, destroy, thread create and detach | one thread per connection runs an exchange |
| Exchange (`sandbird.c`, `server.c`) | a stream's `state`, receive and send buffers, `send_fd` | receive, dispatch, status, header, body, file, send | calls the handlers |
| Outgoing requests (`http.c`) | library handles, download buffer, TLS policy | template, options, connection, request, headers, send, read, delete | used by installs; reads the settings |
| Settings (`http.c`, `server.c`, `util.c`) | unlocked statics: mode, bundle path, data, pem, loaded; `/data/rpi_config.json` | get and set mode, load and unload the bundle, save and load the config | all connection threads; libhttp keeps the bundle |
| Install (`server.c`, `pkg.c`, `installer.c`) | `tmp_*.json`, `.sfo`, `.png` in `/data`, BGFT's tasks | prepare, write files, load metadata, register, clean up | requests, BGFT through `/static/`, cleanup at the next start |
| Start and stop (`main.c`, `net.c`, all `*_init`/`*_fini`) | system modules, contexts, heaps, the `*_initialized` statics | init functions, their error ladders, fini functions, `atexit` | everything |
| Buffers (`sandbird.c`) | memory, capacity and length of a stream's two `sb_Buffer`s | push, format, terminate, shift, reserve | exchange |
| Piece URLs (`server.c`, `pkg.c`) | the array of URLs; a static pool of JSON nodes | check and count, re-encode, free | requests, reference JSON on a host |
| Package and piece table (`pkg.c`) | four downloaded buffers, offsets modulo 2^64 | fetch header, table, `param.sfo`, icon; add up sizes; write | requests, files of the install |
| `param.sfo` (`sfo.c`, `utlist.h`) | a doubly linked list of entries | load, find, free | install |
| `tiny-json.c` | a pool of nodes in the caller's memory | parse in place, look up | handlers, config, reference JSON |
| Task, uninstall and query endpoints | none of their own | take ids from a request, pass them to BGFT or AppInstUtil | console services |
| `util.c` text helpers | none | encode, read and write files | installs, handlers |

What is hard in this code:

* connection threads share the stream list, the TLS settings, the working directory and a
  few statics; only the list has a lock;
* nearly every function is a ladder of `goto` labels over calls that may each fail;
* files written by one request are needed by BGFT, a different process, for days, and the
  application may be closed and restarted at any time;
* a response is put together by calls whose results nobody looks at.

What makes each component correct: a stream is used only while it lives and is released
once, and the accept loop never stops (connections); one status line, then headers, then a
body, whole, under the right status (exchange); every handle and buffer released on every
path, nothing sent unverified that should be verified, success only for the bytes asked
for (requests); the statics, libhttp and the config file agree, and what was confirmed
stays (settings); the files of a task stay until it is done with them (install); whatever
fails, exactly what was acquired is released, users first (start and stop); a text is in
the buffer whole or not at all (buffers); the URLs, the piece table and the metadata of an
install are those of the package that was asked for, and all memory is given back (piece
URLs, package, `param.sfo`); the tree is the text (`tiny-json`); only what a client named
changes, and the answer says whether it did (tasks).

## 2. Modules

Each component module has one action per operation or per step that can interleave or
fail, keeps the names of the source where it can, and carries the mutants of its
definitions next to them. Modules `MC_*` are what TLC runs; a module `*Proofs` has the
inductive invariants, lemmas and theorems of the module it is named after.

| Module | Models |
|---|---|
| `StreamList` | abstract: a sequence of connections, joined at the tail, left from anywhere |
| `SandbirdStreams` | `server_listen`, `sb_poll_server`, `sb_stream_new/link/unlink/destroy`, `conn_thread` |
| `Exchange` | `sb_stream_recv`, `event_handler`, the answers of the handlers, `sb_send_*`, `sb_writef`, `sb_stream_send`, `sb_stream_destroy` |
| `HttpRequest` | `http_download_file`, `http_get_file_size`, `do_request`, `apply_ssl_options`, `download_file_cb` |
| `Settings` | `handle_api_settings`, `http_load_ca_bundle`, `unload_ca_bundle`, `http_save_config`, `http_load_config`, `write_file` |
| `Install` | `install_pieces`, `pkg_setup_prerequisites` (files), `bgft_download_register_package_task`, the task calls, `cleanup_temp_files` |
| `ByteQueue` | abstract: a queue of bytes, appended to whole or not at all |
| `Buffer` | `sb_buffer_init/shift/reserve/push_char/push_str/vwritef/null_terminate` and the read of `sb_stream_send` |
| `TinyJson` | `json_create`, `json_getProperty` |
| `Tasks` | the request helpers, `handle_api_uninstall/is_exists/task_action/get_task_progress/find_task`, the calls of `installer.c`, `pkg_parse_content_id` |
| `PieceUrls` | `handle_api_install_direct`, `handle_api_install_ref_pkg_url`, `pkg_extract_piece_urls_from_ref_pkg_json`, `http_unescape_uri`, `url_encode` |
| `PackagePieces` | `pkg_setup_prerequisites` |
| `SfoTable` | `sfo_alloc`, `sfo_load_from_file`, `sfo_load_from_memory`, `sfo_find_entry`, `sfo_free`, the `DL_` macros they use, the lookups of `install_pieces` |
| `Package` | composition: `install_pieces` from URLs to `sfo_free` |
| `Lifecycle` | `main`, `load_modules`, `unload_modules`, the `*_init` and `*_fini` functions, `sb_new_server`, `sb_close_server`, `cleanup` |

**SandbirdStreams.** A stream is its address; `next`, `prev`, `streams` are the C pointers,
`heap` the allocated addresses, `mtx` the holder of `stream_mtx`. `mpc` is where the main
thread is and `tpc[a]` where the thread of stream `a` is. Walking the list is one step per
pointer; unlinking is one step because the mutex is held. An exchange is `Recv` and `Send`
with an open outcome. `tcb` and `detached` record which threads still hold a stack and
control block, which `pthread_detach` and the end of the thread release in either order.
The listen queue (`ClientConnect`) is the kernel's. `Chain` is the sequence that runs along
`next` from the head (`Follows`); it is what the list of `StreamList` is mapped to (`Abs`).

**Exchange.** A request is what the dispatch looks at: method, endpoint class, length of
the body and of `?data=`, and whether the request line makes sense. A handler is the
sequence of calls it answers with (`calls`); each call is an operator from the stream's
state and buffer to the possible outcomes, so that out-of-memory half way through
`sb_stream_finalize_header` is one of them. A response is a sequence of parts. Query
lengths are measured against `QuerySize` (2048 in the code, 3 in the runs).

**HttpRequest.** `pc` names the next library call; a failure records which step failed and
goes to the label of the ladder. Sizes are numbers up to `MaxLen`, with `NoLen` for
`UINT64_MAX`. The TLS checks of the template and those the connection inherited are
separate, because the order matters. `SetSslVerify` is another thread.

**Settings.** Every access to a static is a step, and the application may be closed
between any two (`KillAnytime`). `registered` is what libhttp references and `heap` what is
allocated. `acked` is a history variable: the values clients sent and had confirmed, until a
request sends others; a failed save takes nothing back from it. `lost` is history too: what
a start of the application had to do without, because it found an empty config file, or
because the bundle could not be read or registered again. Paths that do not fit
`s_ca_bundle_path` are cut (`LongPaths`, `CutPath`).

**Install.** `fs` maps `<name, kind>` to whose data are in the file and when it was last
read. `TmpName` is a parameter; the runs use the program's own, the creation second XOR the
address, with addresses so close that names do collide. Time advances in ticks, `StaleAge`
of which stand for the three days of `CLEANUP_DAY_COUNT`. Nothing is assumed of the clock,
the names or the disk; what befalls a name is history instead: `spoilt` records that it was
given out twice (`"reused"`), that its JSON was cut off by a full disk (`"full"`), or that a
start found a file of it stale (`"stale"`). `handed` has the names that became tasks,
`refused` those whose registration made none, `killed` those a restart cut short. BGFT is
external: it registers, starts, fetches and completes tasks as the code uses it.

**Lifecycle.** `Startup` is the sequence of acquisitions and `todo` what is still to be
released, in the order in which control falls through the labels. The fini functions look
at their statics (`flags`). `sb_close_server` looks only at the socket: it locks, unlocks and
destroys `stream_mtx` of a server whose mutex was never initialized as well. The memory is
zeroed, so the lock may initialize it or fail (`LockStreams`).

**ByteQueue, Buffer.** `mem` is the memory `buf->s` points to, with `Junk` where `realloc`
left a cell unwritten. A push is a step, because each may fail. A format is the text it
produces and the places where the strings it pushes begin: `push_str` and `vwritef` have an
`orig_len` each (`inner`, `orig`). A read from a file may give less than was reserved,
nothing, or -1, which is stored as the length (`ReadFails`); from then on the stream only
calls `send`, which refuses such a length, until it is closed (`Deinit`). `ByteQueue` is what
the users see: the bytes of finished calls.

**TinyJson.** The text is a sequence of lexemes that is revealed as the parser gets to it,
so that texts with the same beginning are explored once. `mem` is the pool; while a node is
open its `sibling` is its parent, as in the code. `nul` is where the text was overwritten.
`Strict` is a reader of JSON as the standard has it, the reference for what must be
accepted; the parser accepts more (commas anywhere, text behind the end).

**Tasks.** A thread takes a request, parses it, makes its call and answers. Ids are
sequences of characters with the sizes of the buffers as constants (a content id is a
service id, a dash and a label, as `pkg.h` has it: 19 + 1 + 16 = 36); integers are cut by
`Narrow`, and the ids of tasks are ints that are not negative. What BGFT and AppInstUtil
hold (`tasks`, `installed`) is external and changes as the names of their calls say; any
call may fail, and items appear when an install ends. `calls` has the result of every call
of a request, the second one of `is_exists` included.

**PieceUrls.** Both ways to the piece URLs, as two passes over a list. A character of a URL
is as it stands or percent-encoded, and `url_encode` keeps the `Safe` ones only. `pool` is
the static pointer and `trees` the pools it was ever set to, with whose text their nodes
point into. Two parsers in one pool are taken to run one after the other, which is less
than can happen.

**PackagePieces.** `pkg_setup_prerequisites` step by step. A size is a word of `W` bits;
the largest one is also `NoLen`. A host may claim any length for a piece; `lens` is history,
the claims. `files` outlives the install that wrote them.

**SfoTable.** The entries are numbered as in the file; `nxt`, `prv` and `head` are utlist's
pointers and `parts` what is allocated of an entry.

**Package.** The three modules in the order of `install_pieces`, with no more URLs than the
piece table has room for (`PackageAssumption`). Only `PieceUrls` has a state per thread, so
the composition is run for one thread; the theorems about it say so (`OneThread`).
`Install` keeps what several installs do to one another. `Kept` says which files an install
leaves.

## 3. What TLC checks

| Run | Instance | Shows |
|---|---|---|
| `streams` | 3 addresses, 1 waiting client | memory safety, ownership, no thread leak, refinement of `StreamList`, the accept loop returns to `accept` and done threads get released (`ServerLives`) |
| `request` | lengths 0..3 and unknown, chunks of 2 | handles, TLS policy, honest success, buffer bounds and ownership, the reported error, for every failing call and a concurrent change of mode |
| `exchange` | every method and endpoint class, bodies and files of up to 2, failing memory, open, read | response grammar, errors under their status, whole answers, closed files, every handled request comes to its end |
| `settings` | one request at a time, 4 paths, one of them too long, 2 buffers, kills and restarts anywhere | statics, libhttp and config file agree; confirmed values stay until a start from a file that a save left empty |
| `install` | 2 addresses whose names meet, 2 packages, 2 installs, 1 tick, restarts anywhere, the disk full or not | files stay for a task and metadata are the package's own unless one of three causes befell its own name; only registrations and kills leave files |
| `buffer` | texts of up to `MaxText` = 3 bytes, at most `MaxLen` = 5 in the buffer | texts whole or not at all (refinement of `ByteQueue`), no unwritten byte below the length, which is right but after a failed read; strings end inside |
| `json` | 9 lexemes, 5 nodes, 2 strings | the tree is the text, valid JSON that fits is accepted, values end, first property of a name, the parser ends |
| `tasks` | 2 threads, 2 requests, 3-bit ints, ids of up to 9 | only what was named changes, but for ids and numbers that are cut; answers tell the effect of every call; well-formed ids are served; requests are answered |
| `package` | lists of up to 2, 3-bit words, 2 table entries, `param.sfo` of up to 3 | URLs, piece table and metadata are the package's; memory safe; two known losses and no other; files only of a registration; the install ends |
| `lifecycle` | no parameters | every failing start is undone, users first, nothing left; nothing is released that was not acquired but the mutex of a half-made server |

Several properties are conjunctions of parts that have a name and a comment of their own:
`ServerLives` (`AcceptLoopLives`, `StreamsReleased`), `SettingsPersist` (`ModePersists`,
`BundlePersists`), `TaskIsPackage` (`UnsharedMetadata`, `FilesStayForTask`), `LaddersRelease`
(`ReleasesWhatItHolds`, `UsersGoFirst`), `HoldsWhatWasWritten` (`NoJunkSent`,
`WrittenSoFar`), `ParsedTree` (`TreeIsText`, `ValuesTerminated`), `AnswersTrue`
(`AnswerTellsEffect`, `WellFormedServed`), `InstallMemorySafe` (`UrlMemorySafe`, `ListLive`)
and `OnlyKnownLosses` (`UrlsLost`, `SetupLeavesClean`, `EntriesLost`). The type
invariant of a module is a conjunct of one of its properties; those of `SandbirdStreams` and
`HttpRequest` are proved instead.

Three addresses are the smallest number at which a stream leaves the middle of the list
while another one is appended. Chunks of 2 and lengths up to 3 give a full chunk, a partial
last chunk, an empty body and an early end. Two installs are what a collision takes, and
with `StaleAge` = 1 a tick is the lifetime of a temporary file; the addresses 2 and 3 and
the seconds 0 and 1 make names meet at one address and across two. Nine lexemes hold a nested
object with a member behind it, a doubled name, and one value more than five nodes. With 3
bits an int wraps at 8 (a client's 8 names task 0) and a word at 8 (`NoLen` and a piece of 1
add up to 0); a piece may have any length of the word. Three entries of a `param.sfo` are the
smallest list with an element that is neither first nor last. In `MC_Buffer` `SizeMax` is any
number beyond what the buffer can hold.

The exceptions the properties make are those of the code, named where they are made; where
one contradicts the repository's own words, the claim is stated as well (below):

* `SettingsPersist`: a value is gone after a start from a file that a save had emptied, and of
  a path only what fits its buffer is kept. The run has one thread; with two,
  `SentModeSaved` fails (below).
* `TaskIsPackage`: the three causes in `spoilt`, each about the task's own name.
* `NoStrayFiles`: what a restart cut short, and the JSON and icon of a refused registration.
* `PiecesTile`: a piece that ends beyond the largest word, which no file does, and a header
  that gives no size.
* `OnlyKnownLosses`: the pool of a reference JSON, and the entries of a `param.sfo` before one
  that cannot be read; how many is part of the property.
* `HoldsWhatWasWritten`: the length after a failed read.
* `OnlyNamedChanges`: ids longer than their buffer and integers wider than an int.
* `LaddersRelease`: the mutex of a server that got no further than its socket or port.
* `ErrorKeepsStatus`: memory that runs out, and a file that cannot be opened after the 200.
* `SuccessIsHonest` bounds a download from above: it may end early, and a 206 is believed to
  start at the offset that was asked for.
* `ConnectionClean` and `HandledIsFinished` rest on `send` refusing `SIZE_MAX` bytes after a
  failed read.

### Disagreements

Runs with `expect: violation` state what the repository says of the program, and TLC finds a
behaviour of the code that contradicts it.

| Run | Claim | What happens |
|---|---|---|
| `settings_uaf` | the registered buffer outlives its use (`http.c`) | two requests load bundles; one frees what the other registered |
| `package_pool` | "nothing here may be static" (`server.c`) | two installs parse reference JSON into one pool; one goes on with the other's URLs |

Further sentences of the repository are stated in the modules as they stand, next to the
property that has the exception. The code does not keep them: TLC refutes each one when it
is listed as an invariant of the configuration named here. They are no runs of their own.

| Definition | Configuration | Claim | What happens |
|---|---|---|---|
| `SentModeSaved` | `MC_Settings.cfg` with two threads | what you send is persisted and survives a restart (README) | a request that sends no mode writes back the one it read, over another client's, which is then not the one saved |
| `SentModeSurvives` | `MC_Settings.cfg` | the same | the config file is emptied before it is written; a kill or a failing write in between, and the next start has the defaults |
| `SentPathSaved` | `MC_Settings.cfg` | the same | a path of 256 characters or more is loaded, confirmed, and saved cut |
| `StayThoughNameReused` | `MC_Install.cfg` | the reference JSON and icon stay behind for BGFT (`server.c`) | a later install gets the same name and unlinks them |
| `StayThoughUnread` | `MC_Install.cfg` | the same | the cleanup does not ask whether a task still needs a file |
| `StayThoughDiskFull` | `MC_Install.cfg` | the same | the results of `fprintf` and `fclose` are ignored, the JSON is cut off |
| `LeftForBgft` | `MC_Install.cfg` | the same | the registration is refused; they stay for nobody |
| `SendsTheChunk` | `MC_Buffer.cfg` | read chunk, write to stream and continue (`sandbird.c`) | after a failed read the length given to `send` is `SIZE_MAX` |
| `FindsTheContentId` | `MC_Tasks.cfg` | looks up a task for a content id (README) | the id is cut, and a task of another content id found |
| `ReservedKept` | `MC_Package.cfg` | reserved characters are left alone (`util.h`) | the `?` of a query is encoded |
| `LengthsRequired` | `MC_Package.cfg` | the host must send a `Content-Length` (README) | a first piece without one is written down with the size `UINT64_MAX` |

Two threads also violate `BundleStateTrue` (both unload, then both load, and two copies are
registered).

Steps of the models that differ from what the repository's README says, without a property
of their own: the answer to `OPTIONS` ends in the middle of its headers (`Exchange`; its
grammar only asks for a blank line before a body); a file of `/static/` that is gone
between `stat` and `open` is answered with the text of the error under 200 (`Exchange`,
`sb_send_file` after the status); without a foreground user the error code was never set
(`Install`, `RegisterFails`); installing what is installed succeeds with `task_id` -1,
which the task endpoints refuse (`Install`, `Tasks`); the example of `find_task` has
`sub_type` 0, which is refused when 0 is the SDK's unknown (`Tasks`). Memory that is lost:
the pool of every reference JSON and the entries before one of a `param.sfo` that cannot be
read (`OnlyKnownLosses`), and one byte per piece of every install (`http_get_file_size`
does not free what its callback allocates; see `Return` of `HttpRequest`). A `?data=` value
that exactly fills its buffer counts as truncated, so the longest one that is accepted has
2046 bytes (`Exchange`, `Truncated`).

### Fairness and deadlock

`SandbirdStreams`: weak fairness of the main thread and of a connection thread's own steps
(the scheduler runs every thread); strong fairness of taking the mutex (a pthread mutex does
not starve a waiter for ever). None of `Recv` and `Send`, which depend on the client.
`Exchange`: weak fairness of the thread once a request is complete, which includes that a
client reads its answer or goes away. `Lifecycle`: weak fairness of the main thread.
`TinyJson`: weak fairness of the parser, which is one call. `Tasks`: weak fairness of each
thread, which includes that the services return. `Package`: weak fairness of the install's
thread, whose downloads end (libhttp's timeouts). Deadlock is checked except where the
system, or its bounded instance, really stops: a connection that has ended, the end of the
start, the end of a parse, and the last request a bound allows (`MaxRequests`,
`MaxInstalls`).

## 4. What is proved

`SandbirdStreamsProofs`, for every finite set of addresses and every backlog:
`TypeCorrect`, `MemorySafe`, `SingleOwner`, `NoThreadLeak`. None of the properties is
inductive. The invariant `IInv` adds: who holds the mutex is determined by where the
threads are (`MtxInv`); on the streams that should be in the list, `next` and `prev` are
inverse to each other and only the head has no predecessor (`Linked`), which is what makes
the two pointer writes of `sb_stream_unlink` enough; the walk stays in the list
(`WalkInv`); heap and sockets are counted by owners (`HeapInv`, `SockInv`); a thread without
its detach is the one the main thread is about to detach (`ThreadInv`). Four lemmas say that
unlinking, appending, the first link and a fresh stream preserve `Linked`.

On top of it `Refinement` shows that the pointers implement `StreamList`. `IInv` does not
exclude a second, cyclic part of the list beside the one the head leads to; `ListInv` does: it
says that some sequence without repetitions runs along the pointers through exactly the
streams that should be in the list. At most one sequence does (two would differ at a least
index, and the one before it determines what is there), so it is what `Chain` chooses. Each
action then is a step of the sequence: unlinking removes an element wherever it is, linking
appends one, and every other action leaves the pointers or the sequence alone. From the same
invariant `WalkReachesTail` shows that the walk of `sb_stream_link` visits the streams in
the order of the list while the list stands still, which it does under the mutex, and that
the new stream comes behind the last one.

`HttpRequestProofs`, for every `MaxLen` and every positive `ChunkSize`: `TypeCorrect`,
`HandlesReleased`, `NeverUnchecked`, `HonestSuccess`, `NoOverrun`, `NoBufferLeak`, and the
action property `ErrorKept`. `IInv` says that the handles held are a function of `pc`
(`HandlesOf`), that a failure leaves the forward path at once (`StatusInv`), that the policy
is the caller's and is passed from template to connection (`PolicyInv`), and what is known
of buffer and answer at each step (`BufferInv`). Two lemmas bound the total size and the
next chunk. `RequestShortens` bounds the library calls of a request by `MaxLen` + 15.

`BufferProofs`, for bytes, texts and reserves of any number and size and reads that fail:
`BytesWritten`, `Terminated`, and the refinement `Refinement`, that a buffer is a
`ByteQueue`. `IInv` adds to the two properties what a call in progress knows: nothing of it
is left over when none is (`CallInv`), and `vwritef` is always inside a string that began
at one of its breaks (`BreakInv`), which is what makes the reset to `orig_len` of the inner
`push_str` land on whole strings. The refinement needs that the bytes of finished calls
(`Settled`) are a prefix of the memory that only `Shift` and the end of a call change.

`ExchangeProofs`, for bodies and files of any length and any set of failures: `OneResponse`,
`StatusOfError`, `WholeAnswer`, `NoDescriptorLeft`. The core of `IInv` is `Phase`: the state
of the stream determines how far the response has come, across what was sent and what is
still in the buffer, so that a call after a failed one is refused or continues the same
response. `Stream` says which descriptor is open, and `Form`, as long as memory lasted and
files could be opened, what is still to come of the handler's calls and how much of a file is
out. `ConnectionShortens`: every step lowers where the thread is or what is left to do there,
in this order; the one call that can make calls more, a failing `sb_send_file`, happens once.

`SettingsProofs`, for any paths, long ones included, and any buffers, with the application
closed anywhere: `RegisteredAlive`, `StaticsTrue`, `ModeSurvives` and `SettingsSurvive`, under
the one hypothesis `Serial` (one settings request at a time). `settings_uaf` and
`SentModeSaved` show that it cannot be dropped. The invariants grow in this order: `BundleInv`
says at each step of `http_load_ca_bundle` what is allocated and what is registered; `ModeInv`
where the confirmed mode is (static, local copy or file), and that the file holds it or
nothing, which is why a failing save loses it only through a later start; `SettingsInv` says
the same of the path, which is in force cut to its buffer.

`InstallProofs`, for any number of addresses, packages, installs and ticks and any naming:
`NothingStray` and `TaskFiles`, without a hypothesis on names, clock or disk. `BaseInv` counts
requests against tasks and pending installs. `TaskInv` adds that a name in use is recorded in
`used` (`Recorded`), so that the next install of that name marks it; that two installs, or
a task and an install under way, have the same name only if it is marked
(`Distinct`, `Apart`); and what an install has written at each step if its name is not
marked, or not spoilt at all (`Written`, `TasksHold`). The steps of other installs then touch
no file of an unmarked name, and a cleanup only those it marks. `MetadataOwn` is stronger
about less: that the metadata given to BGFT are the package's own, also for an install that
gets its name a second time, needs only that different streams never get the same name
(`StreamsApart`), because an install writes its `param.sfo` before it reads it back and a file
that was removed or cut off in between cannot be read as another's (`MetaInv`).

`PackageProofs`, for lists, words, tables and `param.sfo` files of any size, and one install
at a time (`OneThread`): `UrlsOfRequest`, `TableIsPartition`, `MemorySafe`, `LossesAreKnown`,
`Described`. The hypothesis is needed: `package_pool` has two threads. `IInv` has a part for each of
the three modules and one that links them. That of the piece table says that the table so
far tiles `0..offset` as long as no piece ended beyond the largest word (`Table`, `Fits`);
that of the `param.sfo` that the list
runs through the entries read so far in both directions, which is what `DL_DELETE` keeps
while the list is freed from the front. `InstallShortens` counts the steps an install can
still take, over all three parts, and shows that each one lowers the count.

Two more theorems say how far the defect of `package_pool` reaches. With any number of threads
and installs of both kinds at once, an install whose list came with the request keeps its URLs
(`DirectUnharmed`) and neither reads a freed text nor writes behind its array
(`DirectMemorySafe`). Their invariant `ManyInv` asks of the shared pools only that they stay
allocated and hold lists of a bounded length, whoever's they are, and of a direct install
that what it has counted and stored is from its own list (`OwnList`).

`TasksProofs`, for any number of threads, ids and buffers of any size and ints of any width:
`AnswersHold` and the action property `OnlyNamed`. `Inv` says of the record of every thread
what its request made of it (`Good`): the argument of a call is the client's own id, cut to
its buffer if it is too long, and the calls made so far are those the answer tells of
(`Tells`), the second call of `is_exists` too. `OnlyNamed` then
rests on two facts about operators: `Narrowed` (an int differs from what was sent by a
multiple of 2^IntBits) and `AddOnNamed` (what `pkg_parse_content_id` takes for title id and
label are the part behind the first dash and the part behind the last one); `AnswersHold`
on `WellFormedParses`.

Facts by induction (that a non-empty set of naturals has a least element, that a product
grows with its factor) come from `WellFoundedInduction` or are carried along as part of an
invariant. The named assumptions on the constants (`ConstAssumption`, `SizeAssumption`,
`BufferAssumption`, ...) are evaluated by TLC; hypotheses that a theorem states itself
(`Serial`, `OneThread`) hold in the instance its run checks, and
`StreamsApart` is a condition on `TmpName` that the program's naming does not always meet. The
inductive invariants were checked by TLC before they were proved.

Only model-checked:

* liveness and everything under fairness (`ServerLives`, `HandledIsFinished`, `ParserEnds`,
  `RequestsAnswered`, `InstallEnds`, `StartsOrEnds`). For connections and installs the
  measure behind it is proved (`ConnectionShortens`, `InstallShortens`, `WalkReachesTail`);
  that a thread which is not done can always take a step is TLC's part;
* `TinyJson`, whose properties compare the pool with the text by recursive operators, so that
  what they compute for every text is an induction over data;
* `Lifecycle`, which has no parameters: TLC's search is complete.

## 5. Not modelled

* The characters of JSON strings and numbers, the offsets inside a `param.sfo`, digests,
  `rtrim`, suffix tests and time arithmetic: sequential functions of text, abstracted to
  what their callers tell apart.
* What happens inside one pool when two parsers run at the same time: `package_pool` shows
  that they can, and the bytes that result are not defined.
* The text of `s_last_error`, logging, notifications, `module.c` (not called), third-party
  headers apart from the list macros `sfo.c` uses.
* Timeouts: the server sets none, so a silent client keeps its thread; nothing is claimed
  about it.
* The console's services: external, by the calls the program makes.

## 6. Plan

Done, in this order: connections with the abstract list and their proofs; outgoing requests
and their proofs; settings; installs; start and stop; exchange; buffers with the abstract
queue; `tiny-json`; tasks; piece URLs, piece table and `param.sfo`, and their composition.

Then the proofs of buffers, packages, exchange, settings, installs and tasks.

Then the refinement of `StreamList`, the metadata of installs from a weaker hypothesis, direct
installs with any number of threads, and the measures behind the liveness of requests,
connections and installs.

Then the exceptions of the code were taken out of the assumptions and into the properties:
no hypothesis about clock, disk or names in `Install`, kills and long paths in `Settings`,
failed reads in `Buffer`, any claimed length in `PackagePieces`, an uninitialized mutex in
`Lifecycle`; and a definition for each sentence of the repository that they contradict.

What could follow:

1. `Settings`: what is left of `SettingsPersist` with two threads when the statics get a lock.
2. `PieceUrls`: what installs from reference JSON keep when the pool becomes local to the
   call, as the finding suggests; `ManyInv` is most of the invariant.
