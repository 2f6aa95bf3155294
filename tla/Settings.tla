-------------------------------- MODULE Settings --------------------------------
(***************************************************************************)
(* /api/settings: the TLS verification mode and the CA bundle, kept in     *)
(* unlocked statics of http.c, changed by handle_api_settings on           *)
(* connection threads, saved to /data/rpi_config.json and read back by     *)
(* http_init when the application starts.                                  *)
(*                                                                         *)
(* Each access to a static that another thread may also touch is a step of *)
(* its own.  A bundle is the path it was read from and a buffer on the     *)
(* heap; libhttp keeps using the buffers registered with it.               *)
(***************************************************************************)
EXTENDS Integers, FiniteSets, Functions

CONSTANTS
  Threads,      \* connection threads: the settings requests served at once
  Paths,        \* bundle paths a client may send, and what they truncate to
  DefaultPath,  \* HTTP_CA_BUNDLE_PATH
  Readable,     \* the paths that name a readable, nonempty bundle
  LongPaths,    \* the paths that do not fit s_ca_bundle_path[256]
  CutPath,      \* what strlcpy leaves of a long path
  Bufs,         \* heap buffers for bundle text
  KillAnytime   \* whether the application may be closed during a request

Keep  == "keep"    \* a field the client did not send
NoBuf == "NULL"

\* A config file that is missing, empty or cut off: nothing can be read from it.
Torn == [mode |-> "torn", path |-> "torn"]

ASSUME SettingsAssumption ==
  /\ DefaultPath \in Paths /\ CutPath \in Paths
  /\ Readable \subseteq Paths /\ LongPaths \subseteq Paths
  /\ DefaultPath \notin LongPaths /\ CutPath \notin LongPaths
  /\ Keep \notin Paths /\ NoBuf \notin Bufs
  /\ KillAnytime \in BOOLEAN

VARIABLES
  mode,        \* s_ssl_verify_mode
  path,        \* s_ca_bundle_path
  loaded,      \* s_ca_bundle_loaded
  data,        \* s_ca_bundle_data
  pem,         \* s_ca_bundle_pem.ptr
  heap,        \* live buffers, each with the path of the bundle in it
  registered,  \* buffers libhttp references: sceHttpsLoadCert
  cfg,         \* the config file
  pc,          \* where a thread is in handle_api_settings
  loc,         \* its request and locals: [req, verify, buf, snap]
  acked,       \* history: the values clients sent that were answered with success
               \* and that no later request has replaced
  lost         \* history: which of them a start of the application did without

statics == <<mode, path, loaded, data, pem>>
libVars == <<heap, registered>>
history == <<acked, lost>>
vars    == <<statics, libVars, cfg, pc, loc, history>>

Modes == {"on", "off"}

Config == [mode : Modes, path : Paths]

Requests == [verify : Modes \union {Keep, "bad"}, bundle : Paths \union {Keep, "bad"}]

Pcs == {"idle", "read", "set", "bundle", "unload", "free", "assign", "cert",
        "loaded", "save", "open", "write", "reply"}

\* The type invariant.
TypeOK ==
  /\ mode \in Modes
  /\ path \in Paths
  /\ loaded \in BOOLEAN
  /\ data \in Bufs \union {NoBuf}
  /\ pem \in Bufs \union {NoBuf}
  /\ DOMAIN heap \subseteq Bufs
  /\ \A b \in DOMAIN heap : heap[b] \in Paths
  /\ registered \subseteq Bufs
  /\ cfg \in Config \union {Torn}
  /\ pc \in [Threads -> Pcs]
  /\ loc \in [Threads -> [req : Requests, verify : Modes, buf : Bufs \union {NoBuf},
                         snap : Config]]
  /\ acked \in [mode : Modes \union {Keep}, path : Paths \union {Keep}]
  /\ lost \subseteq {"mode", "path", "bundle"}

\* The locals of a thread that serves no request.
NoLocals == [req |-> [verify |-> Keep, bundle |-> Keep], verify |-> "on", buf |-> NoBuf,
             snap |-> [mode |-> "on", path |-> DefaultPath]]

\* s_ca_bundle_path holds 255 characters.
Trunc(p) == IF p \in LongPaths THEN CutPath ELSE p

-------------------------------------------------------------------------------
(* Starting the application *)

\* Mutant of LoadedConfig: the saved mode is not applied.
LoadedConfigPathOnly(c) ==
  [mode |-> "on", path |-> IF c = Torn THEN DefaultPath ELSE c.path]

\* http_load_config: a file that parses sets both values, anything else leaves
\* the compiled-in defaults.
LoadedConfig(c) ==
  IF c = Torn THEN [mode |-> "on", path |-> DefaultPath] ELSE c

\* The statics after http_init: the configuration, and the bundle it names when
\* that can be read and libhttp takes it.
HttpInit(c) ==
  LET conf == LoadedConfig(c)
  IN /\ mode' = conf.mode
     /\ path' = conf.path
     /\ \/ /\ conf.path \in Readable
           /\ \E b \in Bufs :
                /\ loaded' = TRUE
                /\ data' = b /\ pem' = b
                /\ heap' = [x \in {b} |-> conf.path] /\ registered' = {b}
        \/ /\ loaded' = FALSE
           /\ data' = NoBuf /\ pem' = NoBuf
           /\ heap' = <<>> /\ registered' = {}

\* A console on which the application starts for the first time, no bundle yet.
Init ==
  /\ mode = "on"
  /\ path = DefaultPath
  /\ loaded = FALSE
  /\ data = NoBuf
  /\ pem = NoBuf
  /\ heap = <<>>
  /\ registered = {}
  /\ cfg = Torn
  /\ pc = [t \in Threads |-> "idle"]
  /\ loc = [t \in Threads |-> NoLocals]
  /\ acked = [mode |-> Keep, path |-> Keep]
  /\ lost = {}

\* The application is closed, which ends its threads wherever they are, and
\* started again: from nothing when the file is torn, and without a bundle when
\* none could be loaded.
Restart ==
  /\ KillAnytime \/ \A t \in Threads : pc[t] = "idle"
  /\ HttpInit(cfg)
  /\ pc' = [t \in Threads |-> "idle"]
  /\ loc' = [t \in Threads |-> NoLocals]
  /\ lost' = lost \union (IF cfg = Torn THEN {"mode", "path"} ELSE {})
                  \union (IF loaded' THEN {} ELSE {"bundle"})
  /\ UNCHANGED <<cfg, acked>>

-------------------------------------------------------------------------------
(* handle_api_settings *)

\* The thread goes on to its next step; where it changes a local it says so.
Goto(t, label) == pc' = [pc EXCEPT ![t] = label]

\* The handler returns and its locals go with it.
Leave(t) == Goto(t, "idle") /\ loc' = [loc EXCEPT ![t] = NoLocals]

\* Frees a buffer; freeing NULL does nothing.
Free(b) == heap' = Restrict(heap, DOMAIN heap \ {b})

\* A request arrives.
Begin(t) ==
  /\ pc[t] = "idle"
  /\ \E r \in Requests : loc' = [loc EXCEPT ![t].req = r]
  /\ Goto(t, "read")
  /\ UNCHANGED <<statics, libVars, cfg, history>>

\* A field of the wrong type, an unreadable bundle or a failed save: the request
\* is answered with an error.
Reject(t) == Leave(t)

\* verify = http_get_ssl_verify(), then request_bool_opt.
ReadVerify(t) ==
  /\ pc[t] = "read"
  /\ LET sent == loc[t].req.verify
     IN IF sent = "bad"
          THEN Reject(t)
          ELSE /\ loc' = [loc EXCEPT ![t].verify = IF sent = Keep THEN mode ELSE sent]
               /\ Goto(t, "set")
  /\ UNCHANGED <<statics, libVars, cfg, history>>

\* http_set_ssl_verify, before anything else of the request is looked at: a mode
\* the client sent replaces the one in force here, whatever becomes of the request.
SetVerify(t) ==
  /\ pc[t] = "set"
  /\ mode' = loc[t].verify
  /\ acked' = [acked EXCEPT !.mode = IF loc[t].req.verify = Keep THEN @ ELSE Keep]
  /\ CASE loc[t].req.bundle = Keep  -> Goto(t, "save") /\ UNCHANGED loc
       [] loc[t].req.bundle = "bad" -> Reject(t)
       [] OTHER                     -> Goto(t, "bundle") /\ UNCHANGED loc
  /\ UNCHANGED <<path, loaded, data, pem, libVars, cfg, lost>>

\* http_load_ca_bundle reads the file into a fresh buffer.
ReadBundle(t) ==
  /\ pc[t] = "bundle"
  /\ \/ /\ loc[t].req.bundle \in Readable
        /\ \E b \in Bufs \ DOMAIN heap :
             /\ heap' = [x \in DOMAIN heap \union {b} |->
                           IF x = b THEN loc[t].req.bundle ELSE heap[x]]
             /\ loc' = [loc EXCEPT ![t].buf = b]
        /\ Goto(t, "unload")
     \/ Reject(t) /\ UNCHANGED heap
  /\ UNCHANGED <<statics, registered, cfg, history>>

\* Mutant of UnloadCert: the old bundle stays registered with libhttp.
UnloadCertSkipped(t) ==
  /\ pc[t] = "unload"
  /\ loaded' = FALSE
  /\ acked' = [acked EXCEPT !.path = Keep]
  /\ Goto(t, "free")
  /\ UNCHANGED <<mode, path, data, pem, libVars, cfg, loc, lost>>

\* unload_ca_bundle: the old bundle is taken from libhttp, which the client of it
\* can no longer count on ...
UnloadCert(t) ==
  /\ pc[t] = "unload"
  /\ registered' = IF loaded THEN {} ELSE registered
  /\ loaded' = FALSE
  /\ acked' = [acked EXCEPT !.path = Keep]
  /\ Goto(t, "free")
  /\ UNCHANGED <<mode, path, data, pem, heap, cfg, loc, lost>>

\* ... and its buffer is freed.
FreeOld(t) ==
  /\ pc[t] = "free"
  /\ Free(data)
  /\ data' = NoBuf
  /\ pem' = NoBuf
  /\ Goto(t, "assign")
  /\ UNCHANGED <<mode, path, loaded, registered, cfg, loc, history>>

\* The statics point to the new buffer.
AssignNew(t) ==
  /\ pc[t] = "assign"
  /\ data' = loc[t].buf
  /\ pem' = loc[t].buf
  /\ Goto(t, "cert")
  /\ UNCHANGED <<mode, path, loaded, libVars, cfg, loc, history>>

\* Mutant of LoadCert: a bundle libhttp refuses is not freed.
LoadCertLeaks(t) ==
  /\ pc[t] = "cert"
  /\ \/ /\ pem # NoBuf
        /\ registered' = registered \union {pem}
        /\ Goto(t, "loaded")
        /\ UNCHANGED loc
     \/ Reject(t) /\ UNCHANGED registered
  /\ UNCHANGED <<statics, heap, cfg, history>>

\* sceHttpsLoadCert registers whatever the static pem names; when it fails the
\* buffer goes, and the old bundle is gone already.
LoadCert(t) ==
  /\ pc[t] = "cert"
  /\ \/ /\ pem # NoBuf
        /\ registered' = registered \union {pem}
        /\ Goto(t, "loaded")
        /\ UNCHANGED <<data, pem, heap, loc>>
     \/ /\ Free(data)
        /\ data' = NoBuf /\ pem' = NoBuf
        /\ Reject(t)
        /\ UNCHANGED registered
  /\ UNCHANGED <<mode, path, loaded, cfg, history>>

\* The bundle is in force and its path is remembered, cut to the static's size.
SetLoaded(t) ==
  /\ pc[t] = "loaded"
  /\ loaded' = TRUE
  /\ path' = Trunc(loc[t].req.bundle)
  /\ Goto(t, "save")
  /\ UNCHANGED <<mode, data, pem, libVars, cfg, loc, history>>

\* http_save_config formats the statics as they are now, or cannot.
Snapshot(t) ==
  /\ pc[t] = "save"
  /\ \/ /\ loc' = [loc EXCEPT ![t].snap = [mode |-> mode, path |-> path]]
        /\ Goto(t, "open")
     \/ Reject(t)
  /\ UNCHANGED <<statics, libVars, cfg, history>>

\* write_file_trunc opens the file, which empties it, or cannot open it.
OpenConfig(t) ==
  /\ pc[t] = "open"
  /\ \/ cfg' = Torn /\ Goto(t, "write") /\ UNCHANGED loc
     \/ Reject(t) /\ UNCHANGED cfg
  /\ UNCHANGED <<statics, libVars, history>>

\* The bytes are written, or only some of them: then the request fails and the
\* file is cut off, so nothing that was saved before is left either.  Of two
\* writers the later wins: whatever a longer text leaves behind the shorter one is
\* not read back, because json_create stops at the closing brace.
WriteConfig(t) ==
  /\ pc[t] = "write"
  /\ \/ cfg' = loc[t].snap /\ Goto(t, "reply") /\ UNCHANGED loc
     \/ cfg' = Torn /\ Reject(t)
  /\ UNCHANGED <<statics, libVars, history>>

\* write_settings_json: the client is told its values are in force.
Reply(t) ==
  /\ pc[t] = "reply"
  /\ LET r == loc[t].req
     IN /\ acked' = [mode |-> IF r.verify = Keep THEN acked.mode ELSE r.verify,
                     path |-> IF r.bundle = Keep THEN acked.path ELSE r.bundle]
        /\ lost' = lost \ ((IF r.verify = Keep THEN {} ELSE {"mode"}) \union
                           (IF r.bundle = Keep THEN {} ELSE {"path", "bundle"}))
  /\ Leave(t)
  /\ UNCHANGED <<statics, libVars, cfg>>

Handle(t) ==
  \/ Begin(t) \/ ReadVerify(t) \/ SetVerify(t) \/ ReadBundle(t)
  \/ UnloadCert(t) \/ FreeOld(t) \/ AssignNew(t) \/ LoadCert(t) \/ SetLoaded(t)
  \/ Snapshot(t) \/ OpenConfig(t) \/ WriteConfig(t) \/ Reply(t)

Next == Restart \/ \E t \in Threads : Handle(t)

Spec == Init /\ [][Next]_vars

-------------------------------------------------------------------------------
(* Properties *)

Quiet == \A t \in Threads : pc[t] = "idle"

\* "libhttp keeps referencing the buffer, so it must outlive this call" (http.c):
\* no buffer registered with libhttp is ever freed.
BundleOutlivesUse == registered \subseteq DOMAIN heap

\* "a reload cannot leave two copies of the roots registered with libhttp" (http.c).
\* Between requests the statics tell the truth about libhttp: ca_bundle_loaded
\* says whether a bundle is registered, s_ca_bundle_data is that bundle, and no
\* other buffer is left allocated.  Every variable keeps its type.
BundleStateTrue ==
  /\ TypeOK
  /\ Cardinality(registered) <= 1
  /\ Quiet => /\ loaded <=> registered # {}
              /\ loaded => registered = {data}
              /\ DOMAIN heap = registered

\* The mode the server last confirmed to a client is in force, and the config file
\* holds it or holds nothing, until a request that sends another one: other requests,
\* refused ones included, saves that fail or are cut off by the application being
\* closed, and restarts leave it alone.  It is gone for one reason only: the
\* application was started from a file that such a save had emptied.
ModePersists ==
  Quiet /\ acked.mode # Keep /\ "mode" \notin lost =>
    mode = acked.mode /\ (cfg = Torn \/ cfg.mode = acked.mode)

\* The same of the CA bundle: as much of the confirmed path as s_ca_bundle_path
\* holds stays in force, and in the file or nothing is.  The bundle itself stays
\* loaded; after a restart it is the one the saved path names, unless it could not be
\* loaded then.
BundlePersists ==
  Quiet /\ acked.path # Keep /\ "path" \notin lost =>
    /\ path = Trunc(acked.path) /\ (cfg = Torn \/ cfg.path = path)
    /\ "bundle" \notin lost => loaded
    /\ loaded => heap[data] \in {acked.path, path}

\* What a client sent and the server confirmed outlives requests, failures, kills and
\* restarts, but for the losses the two parts name.
SettingsPersist == ModePersists /\ BundlePersists

\* "what you send is persisted ... and survives a restart" (README.md), of the mode:
\* between requests the mode that was confirmed is the one in force.  Not so after a start
\* from a file that a save left empty.
SentModeSurvives == Quiet /\ acked.mode # Keep => mode = acked.mode

\* The same sentence of the file: a config file that holds anything holds the mode that
\* was confirmed.  Not so with two threads, one of which writes back what it read before.
SentModeSaved ==
  Quiet /\ acked.mode # Keep /\ "mode" \notin lost => cfg = Torn \/ cfg.mode = acked.mode

\* And of the bundle: a config file that holds anything holds the path
\* that was confirmed.  Not so of a path that is cut.
SentPathSaved ==
  Quiet /\ acked.path # Keep /\ "path" \notin lost => cfg = Torn \/ cfg.path = acked.path
===============================================================================
