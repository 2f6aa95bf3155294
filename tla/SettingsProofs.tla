----------------------------- MODULE SettingsProofs -----------------------------
(***************************************************************************)
(* Proofs about Settings when one settings request is served at a time,    *)
(* for every set of paths, bundles and buffers: libhttp never references   *)
(* a freed buffer and the statics tell the truth about it, and what the    *)
(* server confirmed lasts, but for a start from an emptied config file,    *)
(* even when the application is closed in the middle of a request.         *)
(*                                                                         *)
(* Bundle says which buffers are allocated and registered at each step of  *)
(* http_load_ca_bundle.  Promise says what is left of the values that were *)
(* confirmed, and of those this request will confirm.                      *)
(***************************************************************************)
EXTENDS Settings, FiniteSetTheorems, TLAPS

\* One settings request at a time.
Serial == \E t : Threads = {t}

\* The type of the history variables.
Told == /\ acked \in [mode : Modes \union {Keep}, path : Paths \union {Keep}]
        /\ lost \subseteq {"mode", "path", "bundle"}

Locals == [req : Requests, verify : Modes, buf : Bufs \union {NoBuf}, snap : Config]

\* The bundle, step by step.
Bundle(t) ==
  LET buf == loc[t].buf IN
  /\ pc[t] \notin {"unload", "free", "assign", "cert", "loaded"} =>
       \/ loaded /\ data \in Bufs /\ pem = data /\ registered = {data} /\ DOMAIN heap = {data}
       \/ ~loaded /\ data = NoBuf /\ pem = NoBuf /\ registered = {} /\ DOMAIN heap = {}
  /\ pc[t] \in {"unload", "free", "assign", "cert", "loaded"} => buf \in Bufs
  /\ pc[t] = "unload" =>
       \/ loaded /\ data \in Bufs /\ data # buf /\ registered = {data} /\ DOMAIN heap = {data, buf}
       \/ ~loaded /\ data = NoBuf /\ registered = {} /\ DOMAIN heap = {buf}
  /\ pc[t] = "free" =>
       ~loaded /\ registered = {} /\ data # buf /\ DOMAIN heap = {data, buf} \ {NoBuf}
  /\ pc[t] = "assign" =>
       ~loaded /\ registered = {} /\ data = NoBuf /\ pem = NoBuf /\ DOMAIN heap = {buf}
  /\ pc[t] = "cert" =>
       ~loaded /\ registered = {} /\ data = buf /\ pem = buf /\ DOMAIN heap = {buf}
  /\ pc[t] = "loaded" =>
       ~loaded /\ registered = {buf} /\ data = buf /\ pem = buf /\ DOMAIN heap = {buf}

\* The fields a request has got past.
Fields(t) ==
  /\ pc[t] \notin {"idle", "read"} => loc[t].req.verify # "bad"
  /\ pc[t] \notin {"idle", "read", "set"} => loc[t].req.bundle # "bad"
  /\ pc[t] \in {"bundle", "unload", "free", "assign", "cert", "loaded"} =>
       loc[t].req.bundle # Keep

BundleInv == TypeOK /\ \A t \in Threads : Fields(t) /\ Bundle(t)

-------------------------------------------------------------------------------
(* Types *)

LEMMA NoLocalsTyped == NoLocals \in Locals
BY SettingsAssumption DEF NoLocals, Locals, Requests, Modes, Config, Keep, NoBuf

LEMMA EmptyHeap == DOMAIN <<>> = {}
OBVIOUS

LEMMA Start == Init => BundleInv
<1>. SUFFICES ASSUME Init PROVE BundleInv
  OBVIOUS
<1>1. TypeOK
  BY NoLocalsTyped, EmptyHeap, SettingsAssumption
     DEF Init, TypeOK, Modes, Pcs, Locals, Config
<1>2. ASSUME NEW t \in Threads PROVE Fields(t) /\ Bundle(t)
  <2>1. pc[t] = "idle"
    BY DEF Init
  <2>. QED
    BY <2>1, EmptyHeap DEF Init, Fields, Bundle
<1>. QED
  BY <1>1, <1>2 DEF BundleInv

LEMMA RestartStep ==
  ASSUME BundleInv, Restart
  PROVE  BundleInv'
<1>1. TypeOK
  BY DEF BundleInv
<1>. DEFINE conf == LoadedConfig(cfg)
<1>2. conf \in Config
  BY <1>1, SettingsAssumption DEF TypeOK, LoadedConfig, Config, Modes
<1>3. conf.mode \in Modes /\ conf.path \in Paths
  BY <1>2 DEF Config
<1>4. /\ mode' = conf.mode /\ path' = conf.path
      /\ pc' = [t \in Threads |-> "idle"] /\ loc' = [t \in Threads |-> NoLocals]
      /\ cfg' = cfg /\ acked' = acked
  BY DEF Restart, HttpInit
<1>9. lost' \subseteq {"mode", "path", "bundle"}
  BY <1>1 DEF Restart, TypeOK
<1>5. \/ \E b \in Bufs : /\ loaded' = TRUE /\ data' = b /\ pem' = b
                         /\ heap' = [x \in {b} |-> conf.path] /\ registered' = {b}
      \/ /\ loaded' = FALSE /\ data' = NoBuf /\ pem' = NoBuf
         /\ heap' = <<>> /\ registered' = {}
  BY DEF Restart, HttpInit
<1>. HIDE DEF conf
<1>6. /\ loaded' \in BOOLEAN /\ data' \in Bufs \union {NoBuf} /\ pem' \in Bufs \union {NoBuf}
      /\ DOMAIN heap' \subseteq Bufs /\ \A b \in DOMAIN heap' : heap'[b] \in Paths
      /\ registered' \subseteq Bufs
      /\ \/ loaded' /\ data' \in Bufs /\ pem' = data' /\ registered' = {data'}
            /\ DOMAIN heap' = {data'}
         \/ ~loaded' /\ data' = NoBuf /\ pem' = NoBuf /\ registered' = {} /\ DOMAIN heap' = {}
  BY <1>3, <1>5, EmptyHeap
<1>7. TypeOK'
  BY <1>1, <1>3, <1>4, <1>6, <1>9, NoLocalsTyped DEF TypeOK, Pcs, Locals
<1>8. ASSUME NEW t \in Threads PROVE Fields(t)' /\ Bundle(t)'
  <2>1. pc'[t] = "idle"
    BY <1>4
  <2>. QED
    BY <1>6, <2>1 DEF Fields, Bundle
<1>. QED
  BY <1>7, <1>8 DEF BundleInv

LEMMA Typed ==
  ASSUME TypeOK, NEW t \in Threads
  PROVE  /\ pc \in [Threads -> Pcs] /\ loc \in [Threads -> Locals] /\ loc[t] \in Locals
         /\ loc[t].req \in Requests /\ loc[t].verify \in Modes
         /\ loc[t].buf \in Bufs \union {NoBuf} /\ loc[t].snap \in Config
         /\ acked.mode \in Modes \union {Keep} /\ acked.path \in Paths \union {Keep}
<1>1. pc \in [Threads -> Pcs] /\ loc \in [Threads -> Locals]
  BY DEF TypeOK, Locals
<1>2. loc[t] \in Locals
  BY <1>1
<1>3. /\ loc[t].req \in Requests /\ loc[t].verify \in Modes
      /\ loc[t].buf \in Bufs \union {NoBuf} /\ loc[t].snap \in Config
  BY <1>2 DEF Locals
<1>4. acked.mode \in Modes \union {Keep} /\ acked.path \in Paths \union {Keep}
  BY DEF TypeOK
<1>. QED
  BY <1>1, <1>2, <1>3, <1>4

LEMMA Goes ==
  ASSUME TypeOK, NEW t \in Threads, NEW label \in Pcs, Goto(t, label)
  PROVE  pc' \in [Threads -> Pcs] /\ pc'[t] = label
BY DEF TypeOK, Goto

LEMMA Leaves ==
  ASSUME TypeOK, NEW t \in Threads, Leave(t)
  PROVE  /\ pc' \in [Threads -> Pcs] /\ pc'[t] = "idle"
         /\ loc' \in [Threads -> Locals] /\ loc'[t] = NoLocals
BY NoLocalsTyped DEF TypeOK, Leave, Goto, Pcs, Locals

-------------------------------------------------------------------------------
(* The bundle *)

\* Steps that touch neither the bundle nor libhttp.
LEMMA BundleAlone ==
  ASSUME BundleInv, NEW t \in Threads, Threads = {t},
         UNCHANGED <<path, loaded, data, pem, heap, registered>>,
         mode' \in Modes, cfg' \in Config \union {Torn},
         Told',
         pc' \in [Threads -> Pcs], loc' \in [Threads -> Locals],
         pc[t] \notin {"unload", "free", "assign", "cert", "loaded"},
         pc'[t] \notin {"unload", "free", "assign", "cert", "loaded"}, Fields(t)'
  PROVE  BundleInv'
<1>1. TypeOK /\ Bundle(t)
  BY DEF BundleInv
<1>2. TypeOK'
  BY <1>1 DEF TypeOK, Told, Locals
<1>3. Bundle(t)'
  <2>1. \/ loaded /\ data \in Bufs /\ pem = data /\ registered = {data} /\ DOMAIN heap = {data}
        \/ ~loaded /\ data = NoBuf /\ pem = NoBuf /\ registered = {} /\ DOMAIN heap = {}
    BY <1>1 DEF Bundle
  <2>. QED
    BY <2>1 DEF Bundle
<1>. QED
  BY <1>2, <1>3 DEF BundleInv

LEMMA BeginStep ==
  ASSUME BundleInv, NEW t \in Threads, Threads = {t}, Begin(t)
  PROVE  BundleInv'
<1>1. TypeOK
  BY DEF BundleInv
<1>2. PICK r \in Requests : loc' = [loc EXCEPT ![t].req = r]
  BY DEF Begin
<1>3. /\ pc[t] = "idle" /\ Goto(t, "read")
      /\ UNCHANGED <<mode, path, loaded, data, pem, heap, registered, cfg, acked, lost>>
  BY DEF Begin, statics, libVars, history
<1>4. pc' \in [Threads -> Pcs] /\ pc'[t] = "read"
  BY <1>1, <1>3, Goes DEF Pcs
<1>5. loc' \in [Threads -> Locals]
  <2>1. loc \in [Threads -> Locals]
    BY <1>1, Typed
  <2>2. [loc[t] EXCEPT !.req = r] \in Locals
    BY <2>1 DEF Locals
  <2>. QED
    BY <1>2, <2>1, <2>2
<1>6. Told'
  BY <1>1, <1>3 DEF TypeOK, Told
<1>7. mode' \in Modes /\ cfg' \in Config \union {Torn}
  BY <1>1, <1>3 DEF TypeOK
<1>8. Fields(t)'
  BY <1>4 DEF Fields
<1>. QED
  BY <1>3, <1>4, <1>5, <1>6, <1>7, <1>8, BundleAlone

LEMMA RejectStep ==
  ASSUME BundleInv, NEW t \in Threads, Threads = {t}, Leave(t),
         pc[t] \notin {"unload", "free", "assign", "cert", "loaded"},
         UNCHANGED <<path, loaded, data, pem, heap, registered>>,
         mode' \in Modes, cfg' \in Config \union {Torn},
         Told'
  PROVE  BundleInv'
<1>1. TypeOK
  BY DEF BundleInv
<1>2. pc' \in [Threads -> Pcs] /\ pc'[t] = "idle" /\ loc' \in [Threads -> Locals]
  BY <1>1, Leaves
<1>3. Fields(t)'
  BY <1>2 DEF Fields
<1>. QED
  BY <1>2, <1>3, BundleAlone

LEMMA ReadVerifyStep ==
  ASSUME BundleInv, NEW t \in Threads, Threads = {t}, ReadVerify(t)
  PROVE  BundleInv'
<1>1. TypeOK
  BY DEF BundleInv
<1>2. /\ pc[t] = "read"
      /\ UNCHANGED <<mode, path, loaded, data, pem, heap, registered, cfg>>
  BY DEF ReadVerify, statics, libVars
<1>3. mode' \in Modes /\ cfg' \in Config \union {Torn}
  BY <1>1, <1>2 DEF TypeOK
<1>4. acked' = acked /\ lost' = lost
  BY DEF ReadVerify, history
<1>5. Told'
  BY <1>1, <1>4 DEF TypeOK, Told
<1>6. CASE loc[t].req.verify = "bad"
  BY <1>2, <1>3, <1>5, <1>6, RejectStep DEF ReadVerify, Reject
<1>7. CASE loc[t].req.verify # "bad"
  <2>. DEFINE v == IF loc[t].req.verify = Keep THEN mode ELSE loc[t].req.verify
  <2>1. loc' = [loc EXCEPT ![t].verify = v] /\ Goto(t, "set")
    BY <1>7 DEF ReadVerify
  <2>2. v \in Modes
    BY <1>1, <1>7, Typed DEF TypeOK, Requests
  <2>. HIDE DEF v
  <2>3. loc' \in [Threads -> Locals]
    <3>1. loc \in [Threads -> Locals]
      BY <1>1, Typed
    <3>2. [loc[t] EXCEPT !.verify = v] \in Locals
      BY <2>2, <3>1 DEF Locals
    <3>. QED
      BY <2>1, <3>1, <3>2
  <2>5. loc'[t].req = loc[t].req
    BY <1>1, <2>1, Typed DEF Locals
  <2>4. pc' \in [Threads -> Pcs] /\ pc'[t] = "set"
    BY <1>1, <2>1, Goes DEF Pcs
  <2>6. Fields(t)'
    BY <1>7, <2>4, <2>5 DEF Fields
  <2>. QED
    BY <1>2, <1>3, <1>5, <2>3, <2>4, <2>6, BundleAlone
<1>. QED
  BY <1>6, <1>7

LEMMA SetVerifyStep ==
  ASSUME BundleInv, NEW t \in Threads, Threads = {t}, SetVerify(t)
  PROVE  BundleInv'
<1>1. TypeOK
  BY DEF BundleInv
<1>2. /\ pc[t] = "set" /\ mode' = loc[t].verify
      /\ UNCHANGED <<path, loaded, data, pem, heap, registered, cfg>>
  BY DEF SetVerify, libVars
<1>3. mode' \in Modes /\ cfg' \in Config \union {Torn}
  BY <1>1, <1>2, Typed DEF TypeOK
<1>4. \/ Reject(t)
      \/ /\ loc[t].req.bundle # "bad"
         /\ \E label \in {"save", "bundle"} :
              /\ label = "bundle" => loc[t].req.bundle # Keep
              /\ Goto(t, label) /\ UNCHANGED loc
  BY DEF SetVerify, Keep
<1>5. Told'
  BY <1>1 DEF SetVerify, TypeOK, Told
<1>6. CASE Reject(t)
  BY <1>2, <1>3, <1>5, <1>6, RejectStep DEF Reject
<1>7. ASSUME NEW label \in {"save", "bundle"}, Goto(t, label), UNCHANGED loc,
             loc[t].req.bundle # "bad", label = "bundle" => loc[t].req.bundle # Keep
      PROVE  BundleInv'
  <2>1. pc' \in [Threads -> Pcs] /\ pc'[t] = label
    BY <1>1, <1>7, Goes DEF Pcs
  <2>2. loc' \in [Threads -> Locals]
    BY <1>1, <1>7, Typed
  <2>3. Fields(t)'
    BY <1>2, <1>7, <2>1 DEF BundleInv, Fields
  <2>. QED
    BY <1>2, <1>3, <1>5, <2>1, <2>2, <2>3, BundleAlone
<1>. QED
  BY <1>4, <1>6, <1>7

LEMMA SnapshotStep ==
  ASSUME BundleInv, NEW t \in Threads, Threads = {t}, Snapshot(t)
  PROVE  BundleInv'
<1>1. TypeOK
  BY DEF BundleInv
<1>2. /\ pc[t] = "save" /\ acked' = acked /\ lost' = lost
      /\ UNCHANGED <<mode, path, loaded, data, pem, heap, registered, cfg>>
  BY DEF Snapshot, Reject, statics, libVars, history
<1>3. /\ mode' \in Modes /\ cfg' \in Config \union {Torn}
      /\ Told'
  BY <1>1, <1>2 DEF TypeOK, Told
<1>4. CASE Reject(t)
  BY <1>2, <1>3, <1>4, RejectStep DEF Reject
<1>5. CASE loc' = [loc EXCEPT ![t].snap = [mode |-> mode, path |-> path]] /\ Goto(t, "open")
  <2>1. pc' \in [Threads -> Pcs] /\ pc'[t] = "open"
    BY <1>1, <1>5, Goes DEF Pcs
  <2>2. loc' \in [Threads -> Locals]
    <3>1. loc \in [Threads -> Locals]
      BY <1>1, Typed
    <3>2. [mode |-> mode, path |-> path] \in Config
      BY <1>1 DEF TypeOK, Config
    <3>3. [loc[t] EXCEPT !.snap = [mode |-> mode, path |-> path]] \in Locals
      BY <3>1, <3>2 DEF Locals
    <3>. QED
      BY <1>5, <3>1, <3>3
  <2>3. loc'[t].req = loc[t].req
    BY <1>1, <1>5, Typed DEF Locals
  <2>4. Fields(t)'
    BY <1>2, <2>1, <2>3 DEF BundleInv, Fields
  <2>. QED
    BY <1>2, <1>3, <2>1, <2>2, <2>4, BundleAlone
<1>. QED
  BY <1>4, <1>5 DEF Snapshot

LEMMA OpenConfigStep ==
  ASSUME BundleInv, NEW t \in Threads, Threads = {t}, OpenConfig(t)
  PROVE  BundleInv'
<1>1. TypeOK
  BY DEF BundleInv
<1>2. /\ pc[t] = "open" /\ acked' = acked /\ lost' = lost /\ cfg' \in {cfg, Torn}
      /\ UNCHANGED <<mode, path, loaded, data, pem, heap, registered>>
  BY DEF OpenConfig, Reject, statics, libVars, history
<1>3. /\ mode' \in Modes /\ cfg' \in Config \union {Torn}
      /\ Told'
  BY <1>1, <1>2 DEF TypeOK, Told
<1>4. CASE Reject(t)
  BY <1>2, <1>3, <1>4, RejectStep DEF Reject
<1>5. CASE Goto(t, "write") /\ UNCHANGED loc
  <2>1. pc' \in [Threads -> Pcs] /\ pc'[t] = "write"
    BY <1>1, <1>5, Goes DEF Pcs
  <2>2. loc' \in [Threads -> Locals]
    BY <1>1, <1>5, Typed
  <2>3. Fields(t)'
    BY <1>2, <1>5, <2>1 DEF BundleInv, Fields
  <2>. QED
    BY <1>2, <1>3, <2>1, <2>2, <2>3, BundleAlone
<1>. QED
  BY <1>4, <1>5 DEF OpenConfig

LEMMA WriteConfigStep ==
  ASSUME BundleInv, NEW t \in Threads, Threads = {t}, WriteConfig(t)
  PROVE  BundleInv'
<1>1. TypeOK
  BY DEF BundleInv
<1>2. /\ pc[t] = "write" /\ cfg' \in {loc[t].snap, Torn}
      /\ UNCHANGED <<mode, path, loaded, data, pem, heap, registered, acked, lost>>
  BY DEF WriteConfig, statics, libVars, history
<1>3. /\ mode' \in Modes /\ cfg' \in Config \union {Torn}
      /\ Told'
  BY <1>1, <1>2, Typed DEF TypeOK, Told
<1>4. CASE Leave(t)
  BY <1>2, <1>3, <1>4, RejectStep
<1>5. CASE Goto(t, "reply") /\ UNCHANGED loc
  <2>1. pc' \in [Threads -> Pcs] /\ pc'[t] = "reply"
    BY <1>1, <1>5, Goes DEF Pcs
  <2>2. loc' \in [Threads -> Locals]
    BY <1>1, <1>5, Typed
  <2>3. Fields(t)'
    BY <1>2, <1>5, <2>1 DEF BundleInv, Fields
  <2>. QED
    BY <1>2, <1>3, <2>1, <2>2, <2>3, BundleAlone
<1>. QED
  BY <1>4, <1>5 DEF WriteConfig, Reject

LEMMA ReplyStep ==
  ASSUME BundleInv, NEW t \in Threads, Threads = {t}, Reply(t)
  PROVE  BundleInv'
<1>1. TypeOK /\ Fields(t)
  BY DEF BundleInv
<1>. DEFINE r == loc[t].req
<1>2. /\ pc[t] = "reply" /\ Leave(t)
      /\ acked' = [mode |-> IF r.verify = Keep THEN acked.mode ELSE r.verify,
                   path |-> IF r.bundle = Keep THEN acked.path ELSE r.bundle]
      /\ UNCHANGED <<mode, path, loaded, data, pem, heap, registered, cfg>>
  BY DEF Reply, statics, libVars
<1>3. r.verify \in Modes \union {Keep} /\ r.bundle \in Paths \union {Keep}
  BY <1>1, <1>2, Typed DEF Fields, Requests
<1>6. lost' \subseteq {"mode", "path", "bundle"}
  BY <1>1 DEF Reply, TypeOK
<1>4. Told'
  BY <1>1, <1>2, <1>3, <1>6, Typed DEF Told
<1>5. mode' \in Modes /\ cfg' \in Config \union {Torn}
  BY <1>1, <1>2 DEF TypeOK
<1>. QED
  BY <1>2, <1>4, <1>5, RejectStep

LEMMA ReadBundleStep ==
  ASSUME BundleInv, NEW t \in Threads, Threads = {t}, ReadBundle(t)
  PROVE  BundleInv'
<1>1. TypeOK /\ Fields(t) /\ Bundle(t)
  BY DEF BundleInv
<1>2. /\ pc[t] = "bundle" /\ acked' = acked /\ lost' = lost
      /\ UNCHANGED <<mode, path, loaded, data, pem, registered, cfg>>
  BY DEF ReadBundle, Reject, statics, history
<1>3. /\ mode' \in Modes /\ cfg' \in Config \union {Torn}
      /\ Told'
  BY <1>1, <1>2 DEF TypeOK, Told
<1>4. CASE Reject(t) /\ UNCHANGED heap
  BY <1>2, <1>3, <1>4, RejectStep DEF Reject
<1>5. ASSUME loc[t].req.bundle \in Readable, NEW b \in Bufs \ DOMAIN heap,
             heap' = [x \in DOMAIN heap \union {b} |->
                        IF x = b THEN loc[t].req.bundle ELSE heap[x]],
             loc' = [loc EXCEPT ![t].buf = b], Goto(t, "unload")
      PROVE  BundleInv'
  <2>1. pc' \in [Threads -> Pcs] /\ pc'[t] = "unload"
    BY <1>1, <1>5, Goes DEF Pcs
  <2>2. loc' \in [Threads -> Locals] /\ loc'[t].buf = b /\ loc'[t].req = loc[t].req
    <3>1. loc \in [Threads -> Locals]
      BY <1>1, Typed
    <3>2. LET l == [loc[t] EXCEPT !.buf = b]
          IN  l \in Locals /\ l.buf = b /\ l.req = loc[t].req
      BY <3>1 DEF Locals
    <3>. QED
      BY <1>5, <3>1, <3>2
  <2>3. DOMAIN heap' = DOMAIN heap \union {b} /\ DOMAIN heap \subseteq Bufs
    BY <1>1, <1>5 DEF TypeOK
  <2>4. \A x \in DOMAIN heap' : heap'[x] \in Paths
    <3>1. loc[t].req.bundle \in Paths /\ \A x \in DOMAIN heap : heap[x] \in Paths
      BY <1>1, <1>5, SettingsAssumption DEF TypeOK
    <3>. QED
      BY <1>5, <2>3, <3>1
  <2>5. TypeOK'
    BY <1>1, <1>2, <1>3, <2>1, <2>2, <2>3, <2>4 DEF TypeOK, Told, Locals
  <2>6. Fields(t)'
    BY <1>1, <1>2, <2>1, <2>2 DEF Fields
  <2>7. Bundle(t)'
    <3>1. \/ loaded /\ data \in Bufs /\ pem = data /\ registered = {data} /\ DOMAIN heap = {data}
          \/ ~loaded /\ data = NoBuf /\ pem = NoBuf /\ registered = {} /\ DOMAIN heap = {}
      BY <1>1, <1>2 DEF Bundle
    <3>2. b \in Bufs /\ b \notin DOMAIN heap
      OBVIOUS
    <3>. QED
      BY <1>2, <2>1, <2>2, <2>3, <3>1, <3>2 DEF Bundle
  <2>. QED
    BY <2>5, <2>6, <2>7 DEF BundleInv
<1>. QED
  BY <1>4, <1>5 DEF ReadBundle

\* Steps inside http_load_ca_bundle that stay on their way.
LEMMA BundleMoves ==
  ASSUME BundleInv, NEW t \in Threads, Threads = {t}, NEW label, Goto(t, label),
         pc[t] \in {"unload", "free", "assign", "cert", "loaded"},
         label \in {"free", "assign", "cert", "loaded", "save"},
         UNCHANGED <<mode, cfg, loc>>, Told', path' \in Paths, loaded' \in BOOLEAN,
         data' \in Bufs \union {NoBuf}, pem' \in Bufs \union {NoBuf}, registered' \subseteq Bufs,
         DOMAIN heap' \subseteq Bufs, \A b \in DOMAIN heap' : heap'[b] \in Paths,
         pc'[t] = label => Bundle(t)'
  PROVE  BundleInv' /\ pc'[t] = label
<1>1. TypeOK /\ Fields(t)
  BY DEF BundleInv
<1>2. pc' \in [Threads -> Pcs] /\ pc'[t] = label
  BY <1>1, Goes DEF Pcs
<1>3. TypeOK'
  BY <1>1, <1>2 DEF TypeOK, Told
<1>4. Fields(t)'
  BY <1>1, <1>2 DEF Fields
<1>. QED
  BY <1>2, <1>3, <1>4 DEF BundleInv

LEMMA UnloadCertStep ==
  ASSUME BundleInv, NEW t \in Threads, Threads = {t}, UnloadCert(t)
  PROVE  BundleInv'
<1>1. TypeOK /\ Bundle(t)
  BY DEF BundleInv
<1>2. /\ pc[t] = "unload" /\ Goto(t, "free") /\ loaded' = FALSE
      /\ registered' = IF loaded THEN {} ELSE registered
      /\ acked' = [acked EXCEPT !.path = Keep] /\ lost' = lost
      /\ UNCHANGED <<mode, path, data, pem, heap, cfg, loc>>
  BY DEF UnloadCert
<1>3. /\ loc[t].buf \in Bufs
      /\ \/ loaded /\ data \in Bufs /\ data # loc[t].buf /\ registered = {data}
            /\ DOMAIN heap = {data, loc[t].buf}
         \/ ~loaded /\ data = NoBuf /\ registered = {} /\ DOMAIN heap = {loc[t].buf}
  BY <1>1, <1>2 DEF Bundle
<1>4. pc'[t] = "free" => Bundle(t)'
  BY <1>2, <1>3, SettingsAssumption DEF Bundle
<1>5. registered' \subseteq Bufs /\ path' \in Paths /\ loaded' \in BOOLEAN
      /\ data' \in Bufs \union {NoBuf} /\ pem' \in Bufs \union {NoBuf}
      /\ DOMAIN heap' \subseteq Bufs /\ \A b \in DOMAIN heap' : heap'[b] \in Paths
  BY <1>1, <1>2 DEF TypeOK
<1>6. Told'
  BY <1>1, <1>2 DEF TypeOK, Told
<1>. QED
  BY <1>2, <1>4, <1>5, <1>6, BundleMoves

LEMMA Freed ==
  ASSUME TypeOK, NEW b, Free(b)
  PROVE  /\ DOMAIN heap' = DOMAIN heap \ {b} /\ DOMAIN heap' \subseteq Bufs
         /\ \A x \in DOMAIN heap' : heap'[x] = heap[x] /\ heap'[x] \in Paths
BY DEF TypeOK, Free, Restrict

LEMMA FreeOldStep ==
  ASSUME BundleInv, NEW t \in Threads, Threads = {t}, FreeOld(t)
  PROVE  BundleInv'
<1>1. TypeOK /\ Bundle(t)
  BY DEF BundleInv
<1>2. /\ pc[t] = "free" /\ Goto(t, "assign") /\ Free(data) /\ data' = NoBuf /\ pem' = NoBuf
      /\ UNCHANGED <<mode, path, loaded, registered, cfg, loc, acked, lost>>
  BY DEF FreeOld, history
<1>3. /\ loc[t].buf \in Bufs /\ ~loaded /\ registered = {} /\ data # loc[t].buf
      /\ DOMAIN heap = {data, loc[t].buf} \ {NoBuf}
  BY <1>1, <1>2 DEF Bundle
<1>4. /\ DOMAIN heap' = DOMAIN heap \ {data} /\ DOMAIN heap' \subseteq Bufs
      /\ \A x \in DOMAIN heap' : heap'[x] \in Paths
  BY <1>1, <1>2, Freed
<1>5. DOMAIN heap' = {loc[t].buf}
  BY <1>3, <1>4, SettingsAssumption
<1>6. pc'[t] = "assign" => Bundle(t)'
  BY <1>2, <1>3, <1>5 DEF Bundle
<1>7. path' \in Paths /\ loaded' \in BOOLEAN /\ registered' \subseteq Bufs /\ Told'
  BY <1>1, <1>2 DEF TypeOK, Told
<1>. QED
  BY <1>2, <1>4, <1>6, <1>7, BundleMoves

LEMMA AssignNewStep ==
  ASSUME BundleInv, NEW t \in Threads, Threads = {t}, AssignNew(t)
  PROVE  BundleInv'
<1>1. TypeOK /\ Bundle(t)
  BY DEF BundleInv
<1>2. /\ pc[t] = "assign" /\ Goto(t, "cert") /\ data' = loc[t].buf /\ pem' = loc[t].buf
      /\ UNCHANGED <<mode, path, loaded, heap, registered, cfg, loc, acked, lost>>
  BY DEF AssignNew, libVars, history
<1>3. loc[t].buf \in Bufs /\ ~loaded /\ registered = {} /\ DOMAIN heap = {loc[t].buf}
  BY <1>1, <1>2 DEF Bundle
<1>4. pc'[t] = "cert" => Bundle(t)'
  BY <1>2, <1>3 DEF Bundle
<1>5. /\ registered' \subseteq Bufs /\ path' \in Paths /\ loaded' \in BOOLEAN
      /\ DOMAIN heap' \subseteq Bufs /\ \A b \in DOMAIN heap' : heap'[b] \in Paths /\ Told'
  BY <1>1, <1>2 DEF TypeOK, Told
<1>. QED
  BY <1>2, <1>3, <1>4, <1>5, BundleMoves

LEMMA LoadCertStep ==
  ASSUME BundleInv, NEW t \in Threads, Threads = {t}, LoadCert(t)
  PROVE  BundleInv'
<1>1. TypeOK /\ Bundle(t) /\ Fields(t)
  BY DEF BundleInv
<1>2. /\ pc[t] = "cert" /\ UNCHANGED <<mode, path, loaded, cfg, acked, lost>>
  BY DEF LoadCert, history
<1>6. Told'
  BY <1>1, <1>2 DEF TypeOK, Told
<1>3. /\ loc[t].buf \in Bufs /\ ~loaded /\ registered = {} /\ DOMAIN heap = {loc[t].buf}
      /\ data = loc[t].buf /\ pem = loc[t].buf
  BY <1>1, <1>2 DEF Bundle
<1>4. ASSUME registered' = registered \union {pem}, Goto(t, "loaded"),
             UNCHANGED <<data, pem, heap, loc>>
      PROVE  BundleInv'
  <2>1. pc'[t] = "loaded" => Bundle(t)'
    BY <1>2, <1>3, <1>4 DEF Bundle
  <2>2. /\ registered' \subseteq Bufs /\ path' \in Paths /\ loaded' \in BOOLEAN
        /\ data' \in Bufs \union {NoBuf} /\ pem' \in Bufs \union {NoBuf}
        /\ DOMAIN heap' \subseteq Bufs /\ \A b \in DOMAIN heap' : heap'[b] \in Paths
    BY <1>1, <1>2, <1>3, <1>4 DEF TypeOK
  <2>. QED
    BY <1>2, <1>4, <1>6, <2>1, <2>2, BundleMoves
<1>5. ASSUME Free(data), data' = NoBuf, pem' = NoBuf, Reject(t), UNCHANGED registered
      PROVE  BundleInv'
  <2>1. /\ pc' \in [Threads -> Pcs] /\ pc'[t] = "idle"
        /\ loc' \in [Threads -> Locals]
    BY <1>1, <1>5, Leaves DEF Reject
  <2>2. /\ DOMAIN heap' = DOMAIN heap \ {data} /\ DOMAIN heap' \subseteq Bufs
        /\ \A x \in DOMAIN heap' : heap'[x] \in Paths
    BY <1>1, <1>5, Freed
  <2>3. DOMAIN heap' = {}
    BY <1>3, <2>2
  <2>4. TypeOK'
    BY <1>1, <1>2, <1>5, <1>6, <2>1, <2>2 DEF TypeOK, Told, Locals
  <2>5. Fields(t)'
    BY <2>1 DEF Fields
  <2>6. Bundle(t)'
    BY <1>2, <1>3, <1>5, <2>1, <2>3 DEF Bundle
  <2>. QED
    BY <2>4, <2>5, <2>6 DEF BundleInv
<1>. QED
  BY <1>4, <1>5 DEF LoadCert

LEMMA SetLoadedStep ==
  ASSUME BundleInv, NEW t \in Threads, Threads = {t}, SetLoaded(t)
  PROVE  BundleInv'
<1>1. TypeOK /\ Bundle(t) /\ Fields(t)
  BY DEF BundleInv
<1>2. /\ pc[t] = "loaded" /\ Goto(t, "save") /\ loaded' = TRUE
      /\ path' = Trunc(loc[t].req.bundle)
      /\ UNCHANGED <<mode, data, pem, heap, registered, cfg, loc, acked, lost>>
  BY DEF SetLoaded, libVars, history
<1>3. /\ loc[t].buf \in Bufs /\ registered = {loc[t].buf} /\ DOMAIN heap = {loc[t].buf}
      /\ data = loc[t].buf /\ pem = loc[t].buf
  BY <1>1, <1>2 DEF Bundle
<1>4. pc'[t] = "save" => Bundle(t)'
  BY <1>2, <1>3 DEF Bundle
<1>5. loc[t].req.bundle \in Paths
  BY <1>1, <1>2, Typed DEF Fields, Requests
<1>6. path' \in Paths
  BY <1>2, <1>5, SettingsAssumption DEF Trunc
<1>7. /\ registered' \subseteq Bufs /\ loaded' \in BOOLEAN /\ Told'
      /\ data' \in Bufs \union {NoBuf} /\ pem' \in Bufs \union {NoBuf}
      /\ DOMAIN heap' \subseteq Bufs /\ \A b \in DOMAIN heap' : heap'[b] \in Paths
  BY <1>1, <1>2 DEF TypeOK, Told
<1>. QED
  BY <1>2, <1>4, <1>6, <1>7, BundleMoves

LEMMA BundleInductive ==
  ASSUME Serial, BundleInv, [Next]_vars
  PROVE  BundleInv'
<1>1. PICK t : Threads = {t}
  BY DEF Serial
<1>2. t \in Threads
  BY <1>1
<1>3. CASE UNCHANGED vars
  BY <1>3 DEF vars, statics, libVars, history, BundleInv, TypeOK, Fields, Bundle
<1>4. CASE Restart
  BY <1>4, RestartStep
<1>5. CASE Handle(t)
  BY <1>1, <1>2, <1>5, BeginStep, ReadVerifyStep, SetVerifyStep, ReadBundleStep,
     UnloadCertStep, FreeOldStep, AssignNewStep, LoadCertStep, SetLoadedStep, SnapshotStep,
     OpenConfigStep, WriteConfigStep, ReplyStep DEF Handle
<1>. QED
  BY <1>1, <1>3, <1>4, <1>5 DEF Next

LEMMA BundleHolds ==
  ASSUME Serial, BundleInv
  PROVE  BundleOutlivesUse /\ BundleStateTrue
<1>1. PICK t : Threads = {t}
  BY DEF Serial
<1>2. TypeOK /\ Bundle(t) /\ pc[t] \in Pcs
  BY <1>1 DEF BundleInv, TypeOK
<1>3. registered \subseteq DOMAIN heap
  BY <1>2 DEF Bundle, Pcs
<1>4. registered = {} \/ \E b : registered = {b}
  BY <1>2 DEF Bundle, Pcs
<1>5. Cardinality(registered) <= 1
  <2>1. Cardinality(registered) = 0 \/ Cardinality(registered) = 1
    BY <1>4, FS_EmptySet, FS_Singleton
  <2>. QED
    BY <2>1
<1>6. Quiet => /\ loaded <=> registered # {}
               /\ loaded => registered = {data}
               /\ DOMAIN heap = registered
  <2>1. SUFFICES ASSUME Quiet PROVE /\ loaded <=> registered # {}
                                    /\ loaded => registered = {data}
                                    /\ DOMAIN heap = registered
    OBVIOUS
  <2>2. pc[t] = "idle"
    BY <1>1, <2>1 DEF Quiet
  <2>. QED
    BY <1>2, <2>2 DEF Bundle
<1>. QED
  BY <1>2, <1>3, <1>5, <1>6 DEF BundleOutlivesUse, BundleStateTrue

-------------------------------------------------------------------------------
(* The mode that was confirmed *)

\* A mode was confirmed and the application has not been started without it.
ModeOwed == acked.mode # Keep /\ "mode" \notin lost

ModePromise(t) ==
  LET r == loc[t].req IN
  /\ ModeOwed =>
       /\ mode = acked.mode
       /\ cfg = Torn \/ cfg.mode = acked.mode
  /\ pc[t] = "set" => loc[t].verify = IF r.verify = Keep THEN mode ELSE r.verify
  /\ pc[t] \notin {"idle", "read", "set"} /\ r.verify # Keep =>
       acked.mode = Keep /\ mode = r.verify
  /\ pc[t] \in {"open", "write", "reply"} => loc[t].snap.mode = mode
  /\ pc[t] = "reply" => cfg.mode = mode

\* A request that ends with an error.
LEMMA ModeLeft ==
  ASSUME TypeOK, NEW t \in Threads, Leave(t),
         ModeOwed' => mode' = acked'.mode /\ (cfg' = Torn \/ cfg'.mode = acked'.mode)
  PROVE  ModePromise(t)'
<1>1. pc'[t] = "idle"
  BY Leaves
<1>. QED
  BY <1>1 DEF ModePromise

\* A request that goes on, and keeps its fields.
LEMMA ModeGoes ==
  ASSUME TypeOK, NEW t \in Threads, ModePromise(t), NEW label \in Pcs, Goto(t, label),
         UNCHANGED <<mode, cfg, lost, loc>>, acked'.mode = acked.mode,
         pc[t] \in {"bundle", "unload", "free", "assign", "cert", "loaded"},
         label \in {"unload", "free", "assign", "cert", "loaded", "save"}
  PROVE  ModePromise(t)'
<1>1. pc'[t] = label
  BY Goes
<1>. QED
  BY <1>1 DEF ModePromise, ModeOwed

LEMMA ModeStep ==
  ASSUME BundleInv, NEW t \in Threads, ModePromise(t), Handle(t)
  PROVE  ModePromise(t)'
<1>0. TypeOK /\ Fields(t)
  BY DEF BundleInv
<1>1. loc \in [Threads -> Locals] /\ loc[t] \in Locals
  BY <1>0, Typed
<1>2. CASE Begin(t)
  <2>1. pc'[t] = "read" /\ UNCHANGED <<mode, cfg, acked, lost>>
    BY <1>0, <1>2, Goes DEF Begin, Pcs, statics, history
  <2>. QED
    BY <2>1 DEF ModePromise, ModeOwed
<1>3. CASE ReadVerify(t)
  <2>1. pc[t] = "read" /\ UNCHANGED <<mode, cfg, acked, lost>>
    BY <1>3 DEF ReadVerify, statics, history
  <2>2. CASE loc[t].req.verify = "bad"
    BY <1>0, <1>3, <2>1, <2>2, ModeLeft DEF ReadVerify, Reject, ModePromise, ModeOwed
  <2>3. CASE loc[t].req.verify # "bad"
    <3>. DEFINE v == IF loc[t].req.verify = Keep THEN mode ELSE loc[t].req.verify
    <3>1. loc' = [loc EXCEPT ![t].verify = v] /\ Goto(t, "set")
      BY <1>3, <2>3 DEF ReadVerify
    <3>2. pc'[t] = "set"
      BY <1>0, <3>1, Goes DEF Pcs
    <3>3. loc'[t].req = loc[t].req /\ loc'[t].verify = v
      BY <1>1, <3>1 DEF Locals
    <3>. QED
      BY <2>1, <3>2, <3>3 DEF ModePromise, ModeOwed
  <2>. QED
    BY <2>2, <2>3
<1>4. CASE SetVerify(t)
  <2>1. /\ pc[t] = "set" /\ mode' = loc[t].verify /\ cfg' = cfg /\ lost' = lost
        /\ acked' = [acked EXCEPT !.mode = IF loc[t].req.verify = Keep THEN @ ELSE Keep]
        /\ \/ Leave(t)
           \/ (Goto(t, "save") \/ Goto(t, "bundle")) /\ loc' = loc
    BY <1>4 DEF SetVerify, Reject
  <2>4. acked'.mode = IF loc[t].req.verify = Keep THEN acked.mode ELSE Keep
    BY <1>0, <2>1 DEF TypeOK
  <2>5. mode' = IF loc[t].req.verify = Keep THEN mode ELSE loc[t].req.verify
    BY <2>1 DEF ModePromise
  <2>6. ModeOwed' => mode' = acked'.mode /\ (cfg' = Torn \/ cfg'.mode = acked'.mode)
    BY <2>1, <2>4, <2>5 DEF ModePromise, ModeOwed
  <2>2. CASE Leave(t)
    BY <1>0, <2>2, <2>6, ModeLeft
  <2>3. CASE (Goto(t, "save") \/ Goto(t, "bundle")) /\ loc' = loc
    <3>1. pc'[t] \in {"save", "bundle"}
      BY <1>0, <2>3, Goes DEF Pcs
    <3>. QED
      BY <2>3, <2>4, <2>5, <2>6, <3>1 DEF ModePromise
  <2>. QED
    BY <2>1, <2>2, <2>3
<1>5. CASE ReadBundle(t)
  <2>1. pc[t] = "bundle" /\ UNCHANGED <<mode, cfg, acked, lost>>
    BY <1>5 DEF ReadBundle, statics, history
  <2>2. CASE Reject(t)
    BY <1>0, <2>1, <2>2, ModeLeft DEF Reject, ModePromise, ModeOwed
  <2>3. ASSUME NEW b, loc' = [loc EXCEPT ![t].buf = b], Goto(t, "unload")
        PROVE  ModePromise(t)'
    <3>1. pc'[t] = "unload"
      BY <1>0, <2>3, Goes DEF Pcs
    <3>2. loc'[t].req = loc[t].req
      BY <1>1, <2>3 DEF Locals
    <3>. QED
      BY <2>1, <3>1, <3>2 DEF ModePromise, ModeOwed
  <2>. QED
    BY <1>5, <2>2, <2>3 DEF ReadBundle
<1>6. CASE UnloadCert(t) \/ FreeOld(t) \/ AssignNew(t) \/ SetLoaded(t)
  <2>1. \E label \in {"free", "assign", "cert", "save"} : Goto(t, label)
    BY <1>6 DEF UnloadCert, FreeOld, AssignNew, SetLoaded
  <2>2. /\ UNCHANGED <<mode, cfg, lost, loc>>
        /\ pc[t] \in {"unload", "free", "assign", "loaded"}
    BY <1>6 DEF UnloadCert, FreeOld, AssignNew, SetLoaded, history
  <2>3. acked'.mode = acked.mode
    BY <1>0, <1>6 DEF UnloadCert, FreeOld, AssignNew, SetLoaded, history, TypeOK
  <2>. QED
    BY <1>0, <2>1, <2>2, <2>3, ModeGoes DEF Pcs
<1>7. CASE LoadCert(t)
  <2>1. pc[t] = "cert" /\ UNCHANGED <<mode, cfg, acked, lost>>
    BY <1>7 DEF LoadCert, history
  <2>2. CASE Reject(t)
    BY <1>0, <2>1, <2>2, ModeLeft DEF Reject, ModePromise, ModeOwed
  <2>3. CASE Goto(t, "loaded") /\ loc' = loc
    BY <1>0, <2>1, <2>3, ModeGoes DEF Pcs
  <2>. QED
    BY <1>7, <2>2, <2>3 DEF LoadCert
<1>8. CASE Snapshot(t)
  <2>1. pc[t] = "save" /\ UNCHANGED <<mode, cfg, acked, lost>>
    BY <1>8 DEF Snapshot, statics, history
  <2>2. CASE Reject(t)
    BY <1>0, <2>1, <2>2, ModeLeft DEF Reject, ModePromise, ModeOwed
  <2>3. CASE loc' = [loc EXCEPT ![t].snap = [mode |-> mode, path |-> path]] /\ Goto(t, "open")
    <3>1. pc'[t] = "open"
      BY <1>0, <2>3, Goes DEF Pcs
    <3>2. loc'[t].req = loc[t].req /\ loc'[t].snap.mode = mode
      BY <1>1, <2>3 DEF Locals
    <3>. QED
      BY <2>1, <3>1, <3>2 DEF ModePromise, ModeOwed
  <2>. QED
    BY <1>8, <2>2, <2>3 DEF Snapshot
<1>9. CASE OpenConfig(t)
  <2>1. pc[t] = "open" /\ UNCHANGED <<mode, acked, lost>> /\ cfg' \in {cfg, Torn}
    BY <1>9 DEF OpenConfig, statics, history
  <2>2. CASE Reject(t)
    BY <1>0, <2>1, <2>2, ModeLeft DEF Reject, ModePromise, ModeOwed
  <2>3. CASE Goto(t, "write") /\ loc' = loc
    <3>1. pc'[t] = "write"
      BY <1>0, <2>3, Goes DEF Pcs
    <3>. QED
      BY <2>1, <2>3, <3>1 DEF ModePromise, ModeOwed
  <2>. QED
    BY <1>9, <2>2, <2>3 DEF OpenConfig
<1>10. CASE WriteConfig(t)
  <2>1. pc[t] = "write" /\ UNCHANGED <<mode, acked, lost>>
    BY <1>10 DEF WriteConfig, statics, history
  <2>2. CASE cfg' = Torn /\ Leave(t)
    BY <1>0, <2>1, <2>2, ModeLeft DEF ModePromise, ModeOwed
  <2>3. CASE cfg' = loc[t].snap /\ Goto(t, "reply") /\ loc' = loc
    <3>1. pc'[t] = "reply"
      BY <1>0, <2>3, Goes DEF Pcs
    <3>. QED
      BY <2>1, <2>3, <3>1 DEF ModePromise, ModeOwed
  <2>. QED
    BY <1>10, <2>2, <2>3 DEF WriteConfig, Reject
<1>11. CASE Reply(t)
  <2>. DEFINE kept == loc[t].req.verify = Keep
  <2>1. /\ pc[t] = "reply" /\ mode' = mode /\ cfg' = cfg /\ Leave(t)
        /\ acked'.mode = IF kept THEN acked.mode ELSE loc[t].req.verify
        /\ kept => ("mode" \in lost' <=> "mode" \in lost)
    BY <1>11 DEF Reply, statics
  <2>2. ModeOwed' => mode' = acked'.mode /\ (cfg' = Torn \/ cfg'.mode = acked'.mode)
    BY <2>1 DEF ModePromise, ModeOwed
  <2>. QED
    BY <1>0, <2>1, <2>2, ModeLeft
<1>. QED
  BY <1>2, <1>3, <1>4, <1>5, <1>6, <1>7, <1>8, <1>9, <1>10, <1>11 DEF Handle

LEMMA ModeRestarts ==
  ASSUME BundleInv, NEW t \in Threads, ModePromise(t), Restart
  PROVE  ModePromise(t)'
<1>1. pc'[t] = "idle" /\ acked' = acked /\ cfg' = cfg
  BY DEF Restart
<1>2. mode' = LoadedConfig(cfg).mode
  BY DEF Restart, HttpInit
<1>3. ModeOwed' => ModeOwed /\ cfg # Torn
  BY <1>1 DEF Restart, ModeOwed
<1>4. ModeOwed' => mode' = acked.mode /\ cfg.mode = acked.mode
  BY <1>2, <1>3 DEF LoadedConfig, ModePromise
<1>. QED
  BY <1>1, <1>4 DEF ModePromise

ModeInv == BundleInv /\ \A t \in Threads : ModePromise(t)

LEMMA ModeInductive ==
  ASSUME Serial, ModeInv, [Next]_vars
  PROVE  ModeInv'
<1>1. PICK t : Threads = {t}
  BY DEF Serial
<1>2. t \in Threads /\ BundleInv /\ ModePromise(t)
  BY <1>1 DEF ModeInv
<1>3. BundleInv'
  BY <1>2, BundleInductive
<1>4. CASE UNCHANGED vars
  <2>1. ModePromise(t)'
    BY <1>2, <1>4 DEF vars, statics, libVars, history, ModePromise, ModeOwed
  <2>. QED
    BY <1>1, <1>3, <2>1 DEF ModeInv
<1>5. CASE Restart
  BY <1>1, <1>2, <1>3, <1>5, ModeRestarts DEF ModeInv
<1>6. CASE Handle(t)
  BY <1>1, <1>2, <1>3, <1>6, ModeStep DEF ModeInv
<1>. QED
  BY <1>1, <1>4, <1>5, <1>6 DEF Next

LEMMA ModeStart == Init => ModeInv
<1>. SUFFICES ASSUME Init PROVE ModeInv
  OBVIOUS
<1>1. ASSUME NEW t \in Threads PROVE ModePromise(t)
  BY DEF Init, ModePromise, ModeOwed
<1>. QED
  BY <1>1, Start DEF ModeInv

LEMMA ModeHolds ==
  ASSUME Serial, ModeInv
  PROVE  ModePersists
<1>1. PICK t : Threads = {t}
  BY DEF Serial
<1>2. ModePromise(t) /\ (Quiet => pc[t] = "idle")
  BY <1>1 DEF ModeInv, Quiet
<1>. QED
  BY <1>2 DEF ModePromise, ModeOwed, ModePersists

-------------------------------------------------------------------------------
(* The bundle that was confirmed *)

\* A path was confirmed and the application has not been started without it.
PathOwed == acked.path # Keep /\ "path" \notin lost

\* The path in force is what fits of p, and the bundle is p or what that names.
InForce(p) ==
  /\ path = Trunc(p)
  /\ "bundle" \notin lost => loaded
  /\ loaded => heap[data] \in {p, path}

\* The config file holds the path in force, or nothing.
Saved == cfg = Torn \/ cfg.path = path

PathPromise(t) ==
  LET r == loc[t].req IN
  /\ PathOwed => InForce(acked.path) /\ Saved
  /\ pc[t] \in {"free", "assign", "cert", "loaded"} => acked.path = Keep
  /\ pc[t] \in {"unload", "free", "assign", "cert", "loaded"} => heap[loc[t].buf] = r.bundle
  /\ pc[t] \in {"save", "open", "write", "reply"} /\ r.bundle # Keep =>
       acked.path = Keep /\ path = Trunc(r.bundle) /\ loaded /\ heap[data] = r.bundle
  /\ pc[t] \in {"open", "write", "reply"} => loc[t].snap.path = path
  /\ pc[t] = "reply" => cfg.path = path

\* A request that ends, with an error or an answer.
LEMMA PathLeft ==
  ASSUME TypeOK, NEW t \in Threads, Leave(t),
         PathOwed' => InForce(acked.path)' /\ Saved'
  PROVE  PathPromise(t)'
<1>1. pc'[t] = "idle"
  BY Leaves
<1>. QED
  BY <1>1 DEF PathPromise

\* What is owed stays so while a step leaves the bundle and the confirmed values alone
\* and the file holds what it held or nothing.
LEMMA PathKept ==
  ASSUME NEW t \in Threads, PathPromise(t), cfg' \in {cfg, Torn},
         UNCHANGED <<path, loaded, data, lost>>, acked'.path = acked.path,
         loaded => heap'[data] = heap[data]
  PROVE  PathOwed' => InForce(acked.path)' /\ Saved'
<1>1. PathOwed' => PathOwed
  BY DEF PathOwed
<1>2. PathOwed => InForce(acked.path) /\ Saved
  BY DEF PathPromise
<1>. QED
  BY <1>1, <1>2 DEF InForce, Saved

\* A request that goes on without touching the bundle.
LEMMA PathGoes ==
  ASSUME TypeOK, NEW t \in Threads, PathPromise(t), NEW label \in Pcs, Goto(t, label),
         UNCHANGED <<path, loaded, data, heap, lost>>, acked'.path = acked.path,
         loc'[t].req = loc[t].req, cfg' \in {cfg, Torn},
         pc[t] \in {"idle", "read", "set", "save", "open"},
         label \in {"read", "set", "bundle", "save", "open", "write"},
         label \in {"save", "open", "write"} /\ loc[t].req.bundle # Keep => pc[t] \in {"save", "open"},
         label \in {"open", "write"} => loc'[t].snap.path = path
  PROVE  PathPromise(t)'
<1>1. pc'[t] = label
  BY Goes
<1>2. PathOwed' => InForce(acked.path)' /\ Saved'
  BY PathKept
<1>3. pc[t] \in {"save", "open"} /\ loc[t].req.bundle # Keep =>
        /\ acked.path = Keep /\ path = Trunc(loc[t].req.bundle)
        /\ loaded /\ heap[data] = loc[t].req.bundle
  BY DEF PathPromise
<1>. QED
  BY <1>1, <1>2, <1>3 DEF PathPromise

\* A request in the middle of loading its bundle: the old one is no longer owed.
LEMMA PathLoads ==
  ASSUME BundleInv, NEW t \in Threads, PathPromise(t), NEW label \in Pcs, Goto(t, label),
         pc[t] \in {"unload", "free", "assign", "cert"},
         label \in {"free", "assign", "cert", "loaded"},
         loc' = loc, acked'.path = Keep, heap'[loc[t].buf] = heap[loc[t].buf]
  PROVE  PathPromise(t)'
<1>1. pc'[t] = label
  BY Goes DEF BundleInv
<1>. QED
  BY <1>1 DEF PathPromise, PathOwed

LEMMA PathStep ==
  ASSUME BundleInv, NEW t \in Threads, PathPromise(t), Handle(t)
  PROVE  PathPromise(t)'
<1>0. TypeOK /\ Fields(t) /\ Bundle(t)
  BY DEF BundleInv
<1>1. loc \in [Threads -> Locals] /\ loc[t] \in Locals
  BY <1>0, Typed
<1>2. CASE Begin(t)
  <2>1. /\ pc[t] = "idle" /\ pc'[t] = "read"
        /\ UNCHANGED <<path, loaded, data, heap, cfg, acked, lost>>
    BY <1>0, <1>2, Goes DEF Begin, Pcs, statics, libVars, history
  <2>2. PathOwed' => InForce(acked.path)' /\ Saved'
    BY <2>1, PathKept
  <2>. QED
    BY <2>1, <2>2 DEF PathPromise
<1>3. CASE ReadVerify(t)
  <2>1. pc[t] = "read" /\ UNCHANGED <<path, loaded, data, heap, cfg, acked, lost>>
    BY <1>3 DEF ReadVerify, statics, libVars, history
  <2>2. CASE loc[t].req.verify = "bad"
    BY <1>0, <1>3, <2>1, <2>2, PathKept, PathLeft DEF ReadVerify, Reject
  <2>3. CASE loc[t].req.verify # "bad"
    <3>. DEFINE v == IF loc[t].req.verify = Keep THEN mode ELSE loc[t].req.verify
    <3>1. loc' = [loc EXCEPT ![t].verify = v] /\ Goto(t, "set")
      BY <1>3, <2>3 DEF ReadVerify
    <3>2. loc'[t].req = loc[t].req
      BY <1>1, <3>1 DEF Locals
    <3>. QED
      BY <1>0, <2>1, <3>1, <3>2, PathGoes DEF Pcs
  <2>. QED
    BY <2>2, <2>3
<1>4. CASE SetVerify(t)
  <2>1. /\ pc[t] = "set" /\ UNCHANGED <<path, loaded, data, heap, cfg, lost>>
        /\ \/ Leave(t)
           \/ loc[t].req.bundle = Keep /\ Goto(t, "save") /\ loc' = loc
           \/ Goto(t, "bundle") /\ loc' = loc
    BY <1>4 DEF SetVerify, Reject, libVars, Keep
  <2>5. acked'.path = acked.path
    BY <1>0, <1>4 DEF SetVerify, TypeOK
  <2>2. CASE Leave(t)
    BY <1>0, <2>1, <2>2, <2>5, PathKept, PathLeft
  <2>3. CASE loc[t].req.bundle = Keep /\ Goto(t, "save") /\ loc' = loc
    BY <1>0, <2>1, <2>3, <2>5, PathGoes DEF Pcs
  <2>4. CASE Goto(t, "bundle") /\ loc' = loc
    BY <1>0, <2>1, <2>4, <2>5, PathGoes DEF Pcs
  <2>. QED
    BY <2>1, <2>2, <2>3, <2>4
<1>5. CASE ReadBundle(t)
  <2>1. pc[t] = "bundle" /\ UNCHANGED <<path, loaded, data, cfg, acked, lost>>
    BY <1>5 DEF ReadBundle, statics, history
  <2>2. CASE Reject(t) /\ heap' = heap
    BY <1>0, <2>1, <2>2, PathKept, PathLeft DEF Reject
  <2>3. ASSUME NEW b \in Bufs \ DOMAIN heap,
               heap' = [x \in DOMAIN heap \union {b} |->
                          IF x = b THEN loc[t].req.bundle ELSE heap[x]],
               loc' = [loc EXCEPT ![t].buf = b], Goto(t, "unload")
        PROVE  PathPromise(t)'
    <3>1. pc'[t] = "unload"
      BY <1>0, <2>3, Goes DEF Pcs
    <3>2. loc'[t].req = loc[t].req /\ loc'[t].buf = b
      BY <1>1, <2>3 DEF Locals
    <3>3. loaded => data \in DOMAIN heap
      BY <1>0, <2>1 DEF Bundle
    <3>4. heap'[b] = loc[t].req.bundle /\ (loaded => heap'[data] = heap[data])
      BY <2>3, <3>3
    <3>5. PathOwed' => InForce(acked.path)' /\ Saved'
      BY <2>1, <3>4, PathKept
    <3>. QED
      BY <3>1, <3>2, <3>4, <3>5 DEF PathPromise
  <2>. QED
    BY <1>5, <2>2, <2>3 DEF ReadBundle
<1>6. CASE UnloadCert(t)
  <2>1. acked'.path = Keep
    BY <1>0, <1>6 DEF UnloadCert, TypeOK
  <2>. QED
    BY <1>6, <2>1, PathLoads DEF UnloadCert, Pcs
<1>7. CASE FreeOld(t)
  <2>1. pc[t] = "free" /\ Goto(t, "assign") /\ Free(data) /\ UNCHANGED <<acked, loc>>
    BY <1>7 DEF FreeOld, history
  <2>2. loc[t].buf \in DOMAIN heap \ {data}
    BY <1>0, <2>1, SettingsAssumption DEF Bundle
  <2>3. heap'[loc[t].buf] = heap[loc[t].buf]
    BY <1>0, <2>1, <2>2, Freed
  <2>4. acked'.path = Keep
    BY <2>1 DEF PathPromise
  <2>. QED
    BY <2>1, <2>3, <2>4, PathLoads DEF Pcs
<1>8. CASE AssignNew(t)
  <2>1. acked'.path = Keep
    BY <1>8 DEF AssignNew, history, PathPromise
  <2>. QED
    BY <1>8, <2>1, PathLoads DEF AssignNew, libVars, Pcs
<1>9. CASE LoadCert(t)
  <2>1. pc[t] = "cert" /\ acked' = acked
    BY <1>9 DEF LoadCert, history
  <2>4. acked'.path = Keep
    BY <2>1 DEF PathPromise
  <2>2. CASE Reject(t)
    BY <1>0, <2>2, <2>4, PathLeft DEF Reject, PathOwed
  <2>3. CASE Goto(t, "loaded") /\ UNCHANGED <<data, pem, heap, loc>>
    BY <2>1, <2>3, <2>4, PathLoads DEF Pcs
  <2>. QED
    BY <1>9, <2>2, <2>3 DEF LoadCert
<1>10. CASE SetLoaded(t)
  <2>1. /\ pc[t] = "loaded" /\ loaded' = TRUE /\ path' = Trunc(loc[t].req.bundle)
        /\ Goto(t, "save") /\ UNCHANGED <<data, heap, loc, acked>>
    BY <1>10 DEF SetLoaded, libVars, history
  <2>2. pc'[t] = "save"
    BY <1>0, <2>1, Goes DEF Pcs
  <2>3. acked.path = Keep /\ data = loc[t].buf /\ heap[data] = loc[t].req.bundle
    BY <1>0, <2>1 DEF Bundle, PathPromise
  <2>. QED
    BY <2>1, <2>2, <2>3 DEF PathPromise, PathOwed
<1>11. CASE Snapshot(t)
  <2>1. pc[t] = "save" /\ UNCHANGED <<path, loaded, data, heap, cfg, acked, lost>>
    BY <1>11 DEF Snapshot, statics, libVars, history
  <2>2. CASE Reject(t)
    BY <1>0, <2>1, <2>2, PathKept, PathLeft DEF Reject
  <2>3. CASE loc' = [loc EXCEPT ![t].snap = [mode |-> mode, path |-> path]] /\ Goto(t, "open")
    <3>1. loc'[t].req = loc[t].req /\ loc'[t].snap.path = path
      BY <1>1, <2>3 DEF Locals
    <3>. QED
      BY <1>0, <2>1, <2>3, <3>1, PathGoes DEF Pcs
  <2>. QED
    BY <1>11, <2>2, <2>3 DEF Snapshot
<1>12. CASE OpenConfig(t)
  <2>1. /\ pc[t] = "open" /\ UNCHANGED <<path, loaded, data, heap, acked, lost>>
        /\ cfg' \in {cfg, Torn}
    BY <1>12 DEF OpenConfig, statics, libVars, history
  <2>2. CASE Reject(t)
    BY <1>0, <2>1, <2>2, PathKept, PathLeft DEF Reject
  <2>3. CASE Goto(t, "write") /\ loc' = loc
    <3>1. loc[t].snap.path = path
      BY <2>1 DEF PathPromise
    <3>. QED
      BY <1>0, <2>1, <2>3, <3>1, PathGoes DEF Pcs
  <2>. QED
    BY <1>12, <2>2, <2>3 DEF OpenConfig
<1>13. CASE WriteConfig(t)
  <2>1. pc[t] = "write" /\ UNCHANGED <<path, loaded, data, heap, acked, lost>>
    BY <1>13 DEF WriteConfig, statics, libVars, history
  <2>2. CASE cfg' = Torn /\ Leave(t)
    BY <1>0, <2>1, <2>2, PathKept, PathLeft
  <2>3. CASE cfg' = loc[t].snap /\ Goto(t, "reply") /\ loc' = loc
    <3>1. pc'[t] = "reply"
      BY <1>0, <2>3, Goes DEF Pcs
    <3>2. cfg'.path = path /\ loc[t].snap.path = path
      BY <2>1, <2>3 DEF PathPromise
    <3>3. PathOwed' => InForce(acked.path)'
      BY <2>1 DEF PathPromise, PathOwed, InForce
    <3>4. Saved'
      BY <2>1, <3>2 DEF Saved
    <3>5. loc[t].req.bundle # Keep =>
            /\ acked.path = Keep /\ path = Trunc(loc[t].req.bundle)
            /\ loaded /\ heap[data] = loc[t].req.bundle
      BY <2>1 DEF PathPromise
    <3>. QED
      BY <2>1, <2>3, <3>1, <3>2, <3>3, <3>4, <3>5 DEF PathPromise
  <2>. QED
    BY <1>13, <2>2, <2>3 DEF WriteConfig, Reject
<1>14. CASE Reply(t)
  <2>. DEFINE kept == loc[t].req.bundle = Keep
  <2>1. /\ pc[t] = "reply" /\ UNCHANGED <<path, loaded, data, heap, cfg>> /\ Leave(t)
        /\ acked'.path = IF kept THEN acked.path ELSE loc[t].req.bundle
        /\ kept => /\ "path" \in lost' <=> "path" \in lost
                   /\ "bundle" \in lost' <=> "bundle" \in lost
    BY <1>14 DEF Reply, statics, libVars
  <2>2. Saved'
    BY <2>1 DEF PathPromise, Saved
  <2>3. CASE kept
    <3>1. PathOwed' => PathOwed
      BY <2>1, <2>3 DEF PathOwed
    <3>2. PathOwed => InForce(acked.path)
      BY DEF PathPromise
    <3>3. PathOwed' => InForce(acked.path)'
      BY <2>1, <2>3, <3>1, <3>2 DEF InForce
    <3>. QED
      BY <1>0, <2>1, <2>2, <3>3, PathLeft
  <2>4. CASE ~kept
    <3>1. path = Trunc(loc[t].req.bundle) /\ loaded /\ heap[data] = loc[t].req.bundle
      BY <2>1, <2>4 DEF PathPromise
    <3>2. InForce(acked.path)'
      BY <2>1, <2>4, <3>1 DEF InForce
    <3>. QED
      BY <1>0, <2>1, <2>2, <3>2, PathLeft
  <2>. QED
    BY <2>3, <2>4
<1>. QED
  BY <1>2, <1>3, <1>4, <1>5, <1>6, <1>7, <1>8, <1>9, <1>10, <1>11, <1>12, <1>13, <1>14 DEF Handle

LEMMA PathRestarts ==
  ASSUME BundleInv, NEW t \in Threads, PathPromise(t), Restart
  PROVE  PathPromise(t)'
<1>1. pc'[t] = "idle" /\ acked' = acked /\ cfg' = cfg
  BY DEF Restart
<1>2. PathOwed' => PathOwed /\ cfg # Torn
  BY <1>1 DEF Restart, PathOwed
<1>3. PathOwed' => cfg.path = Trunc(acked.path) /\ LoadedConfig(cfg) = cfg
  BY <1>2 DEF PathPromise, InForce, Saved, LoadedConfig
<1>4. path' = LoadedConfig(cfg).path
  BY DEF Restart, HttpInit
<1>5. loaded' => heap'[data'] = LoadedConfig(cfg).path
  BY DEF Restart, HttpInit
<1>6. "bundle" \notin lost' => loaded'
  BY DEF Restart
<1>7. PathOwed' => InForce(acked.path)' /\ Saved'
  BY <1>1, <1>3, <1>4, <1>5, <1>6 DEF InForce, Saved
<1>. QED
  BY <1>1, <1>7 DEF PathPromise

SettingsInv == ModeInv /\ \A t \in Threads : PathPromise(t)

LEMMA SettingsInductive ==
  ASSUME Serial, SettingsInv, [Next]_vars
  PROVE  SettingsInv'
<1>1. PICK t : Threads = {t}
  BY DEF Serial
<1>2. t \in Threads /\ BundleInv /\ PathPromise(t)
  BY <1>1 DEF SettingsInv, ModeInv
<1>3. ModeInv'
  BY ModeInductive DEF SettingsInv
<1>4. CASE UNCHANGED vars
  <2>1. PathPromise(t)'
    BY <1>2, <1>4 DEF vars, statics, libVars, history, PathPromise, PathOwed, InForce, Saved
  <2>. QED
    BY <1>1, <1>3, <2>1 DEF SettingsInv
<1>5. CASE Restart
  BY <1>1, <1>2, <1>3, <1>5, PathRestarts DEF SettingsInv
<1>6. CASE Handle(t)
  BY <1>1, <1>2, <1>3, <1>6, PathStep DEF SettingsInv
<1>. QED
  BY <1>1, <1>4, <1>5, <1>6 DEF Next

LEMMA SettingsStart == Init => SettingsInv
<1>. SUFFICES ASSUME Init PROVE SettingsInv
  OBVIOUS
<1>1. ASSUME NEW t \in Threads PROVE PathPromise(t)
  <2>1. pc[t] = "idle" /\ acked.path = Keep
    BY DEF Init
  <2>. QED
    BY <2>1 DEF PathPromise, PathOwed
<1>. QED
  BY <1>1, ModeStart DEF SettingsInv

LEMMA SettingsHold ==
  ASSUME Serial, SettingsInv
  PROVE  SettingsPersist
<1>1. PICK t : Threads = {t}
  BY DEF Serial
<1>2. PathPromise(t) /\ (Quiet => pc[t] = "idle")
  BY <1>1 DEF SettingsInv, Quiet
<1>3. BundlePersists
  BY <1>2 DEF PathPromise, PathOwed, InForce, Saved, BundlePersists
<1>. QED
  BY <1>3, ModeHolds DEF SettingsInv, SettingsPersist

-------------------------------------------------------------------------------
(* Theorems *)

\* The buffers that are allocated and registered at each step of
\* http_load_ca_bundle, while settings requests come one at a time: whatever fails,
\* wherever the application is closed, and however long the paths are.
THEOREM BundleInvariant == ASSUME Serial PROVE Spec => []BundleInv
<1>1. Init => BundleInv
  BY Start
<1>2. BundleInv /\ [Next]_vars => BundleInv'
  BY BundleInductive
<1>. QED
  BY <1>1, <1>2, PTL DEF Spec

\* "libhttp keeps referencing the buffer, so it must outlive this call" (http.c):
\* one request at a time never frees a buffer that is registered.
THEOREM RegisteredAlive == ASSUME Serial PROVE Spec => []BundleOutlivesUse
<1>1. BundleInv => BundleOutlivesUse
  BY BundleHolds
<1>. QED
  BY <1>1, BundleInvariant, PTL

\* "a reload cannot leave two copies of the roots registered with libhttp" (http.c),
\* and ca_bundle_loaded tells between requests whether one is registered.
THEOREM StaticsTrue == ASSUME Serial PROVE Spec => []BundleStateTrue
<1>1. BundleInv => BundleStateTrue
  BY BundleHolds
<1>. QED
  BY <1>1, BundleInvariant, PTL

\* The verification mode the server confirmed stays in force through every request
\* that sends none, every failing save, every kill and every restart, until the
\* application is started from a config file a failing save has emptied: whether or
\* not it may be killed during a request, and for paths of any length.
THEOREM ModeSurvives == ASSUME Serial PROVE Spec => []ModePersists
<1>1. Init => ModeInv
  BY ModeStart
<1>2. ModeInv /\ [Next]_vars => ModeInv'
  BY ModeInductive
<1>3. ModeInv => ModePersists
  BY ModeHolds
<1>. QED
  BY <1>1, <1>2, <1>3, PTL DEF Spec

\* The same of the CA bundle: what fits of its path stays in force and in the file, and
\* the bundle stays loaded until a start that cannot load it.
THEOREM SettingsSurvive == ASSUME Serial PROVE Spec => []SettingsPersist
<1>1. Init => SettingsInv
  BY SettingsStart
<1>2. SettingsInv /\ [Next]_vars => SettingsInv'
  BY SettingsInductive
<1>3. SettingsInv => SettingsPersist
  BY SettingsHold
<1>. QED
  BY <1>1, <1>2, <1>3, PTL DEF Spec
=================================================================================
