----------------------------- MODULE BootProofs -----------------------------
(***************************************************************************)
(* The stored config and the device's name through any number of           *)
(* instances, restarts, options and documents.                             *)
(***************************************************************************)
EXTENDS Boot, TLAPS

Config == [Field -> Text]
NoOptions == [f \in {} |-> ""]
Complete(c) == \A f \in Required : c[f] # ""

\* The uuid an instance ends up with that finds the document d.
Fill(u) == IF u = "" THEN "default" ELSE u
Uuid(d) == IF d = NoDocument THEN "default" ELSE Fill(json_parse(d)["uuid"])
-----------------------------------------------------------------------------
(***************************************************************************)
(* The inductive invariant.                                                *)
(***************************************************************************)
TypeInv ==
    /\ pc \in [Proc -> {"off", "exists", "load", "configure", "store", "server",
                        "announce", "running"}]
    /\ options \in [Proc -> Options \union {NoOptions}]
    /\ config \in [Proc -> Config]
    /\ server \in [Proc -> Config]
    /\ namespaces \in [Proc -> [uuid : Text, location : Text \X Text]]
    /\ saved \in [Proc -> BOOLEAN]
    /\ reboot \in [Proc -> BOOLEAN]
    /\ misread \in SUBSET Proc
    /\ db \in Documents \union Config
    /\ stored \in BOOLEAN

\* What is stored is a whole config.
StoredInv == stored => db \in Config /\ Complete(db)

\* A config that was loaded or validated is there, and an instance that is to
\* store or has stored one has a complete one.
MainInv(p) ==
    /\ saved[p] \/ reboot[p] => stored
    /\ pc[p] = "load" => db # NoDocument
    /\ pc[p] \in {"off", "exists", "load"} => config[p] = Empty
    /\ pc[p] = "store" => Complete(config[p])

\* Unless somebody has missed a config, every instance has the uuid that the
\* document stands for, or will have it after validate().
UuidInv(p) ==
    misread = {} =>
        /\ pc[p] = "configure" => Fill(config[p]["uuid"]) = Uuid(db)
        /\ pc[p] \in {"store", "server", "announce", "running"} =>
               config[p]["uuid"] = Uuid(db)
        /\ pc[p] \in {"announce", "running"} /\ saved[p] =>
               server[p]["uuid"] = Uuid(db)

\* After a reboot nothing is left for validate() to fill in, and so what is
\* advertised is what is configured.
RebootInv(p) ==
    reboot[p] /\ p \notin misread =>
        /\ pc[p] = "configure" => Complete(config[p])
        /\ pc[p] \in {"store", "server", "announce", "running"} =>
               namespaces[p] = Advertised(config[p])

IInv ==
    /\ TypeInv
    /\ StoredInv
    /\ \A p \in Proc : MainInv(p) /\ UuidInv(p) /\ RebootInv(p)
-----------------------------------------------------------------------------
(***************************************************************************)
(* config.h                                                                *)
(***************************************************************************)
\* Reading a document gives a config, and a stored one comes back as it was.
LEMMA ParseProperties ==
  ASSUME NEW d \in Documents \union Config, d # NoDocument
  PROVE  /\ json_parse(d) \in Config
         /\ d \in Config => json_parse(d) = d
  BY BootConstants DEF json_parse, Config

LEMMA WriteProperties ==
  ASSUME NEW c \in Config
  PROVE  json_write(c) = c /\ c # NoDocument
  BY BootConstants DEF json_write, Config

\* The command line overrides no uuid and empties no field.
LEMMA OverrideProperties ==
  ASSUME NEW c \in Config, NEW o \in Options \union {NoOptions}
  PROVE  /\ Override(c, o) \in Config
         /\ Override(c, o)["uuid"] = c["uuid"]
         /\ Complete(c) => Complete(Override(c, o))
<1>1. /\ DOMAIN o \subseteq Field \ {"uuid"}
      /\ \A f \in DOMAIN o : o[f] \in Text \ {""}
  BY BootConstants DEF NoOptions
<1> QED
  BY <1>1 DEF Override, Config, Complete, Required, Field

\* validate() completes a config, gives an empty uuid its default, and leaves
\* a complete config as it is but for cds_uri, whose default is empty.
LEMMA ValidateProperties ==
  ASSUME NEW c \in Config, NEW ip \in Ip
  PROVE  /\ validate(c, ip) \in Config
         /\ Complete(validate(c, ip))
         /\ validate(c, ip)["uuid"] = Fill(c["uuid"])
         /\ Complete(c) => validate(c, ip) = c
<1>1. ip \in Text /\ ip # ""
  BY BootConstants
<1>2. Default(ip) \in Config /\ Default(ip)["cds_uri"] = "" /\ Complete(Default(ip))
  BY <1>1, BootConstants DEF Default, Config, Complete, Required, Field
<1>3. validate(c, ip) \in Config /\ Complete(validate(c, ip))
  BY <1>2 DEF validate, Config, Complete, Required
<1>4. Default(ip)["uuid"] = "default"
  BY DEF Default, Field
<1>5. validate(c, ip)["uuid"] = Fill(c["uuid"])
  BY <1>4 DEF validate, Fill, Field
<1>6. ASSUME Complete(c) PROVE validate(c, ip) = c
  <2>1. \A f \in Field : validate(c, ip)[f] = c[f]
    BY <1>2, <1>6 DEF validate, Complete, Required, Field
  <2> QED
    BY <2>1, <1>3 DEF Config
<1> QED
  BY <1>3, <1>5, <1>6
-----------------------------------------------------------------------------
(***************************************************************************)
(* The invariant holds in every state.                                     *)
(***************************************************************************)
LEMMA InvInit == Init => IInv
<1> SUFFICES ASSUME Init PROVE IInv
  OBVIOUS
<1>1. Empty \in Config
  BY BootConstants DEF Empty, Config
<1>2. Advertised(Empty) \in [uuid : Text, location : Text \X Text]
  BY BootConstants DEF Advertised, Empty, Field
<1>3. TypeInv
  BY <1>1, <1>2 DEF Init, TypeInv, NoOptions
<1>4. StoredInv /\ \A p \in Proc : MainInv(p) /\ UuidInv(p) /\ RebootInv(p)
  BY DEF Init, StoredInv, MainInv, UuidInv, RebootInv
<1> QED
  BY <1>3, <1>4 DEF IInv

\* Steps that leave the documents and the uuids alone: starting, looking for a
\* config, a store that fails, announcing and dying.
LEMMA QuietStep ==
  ASSUME IInv, NEW p \in Proc,
         \/ Launch(p) \/ config_exists(p) \/ ConfigExistsFails(p)
         \/ StoreFails(p) \/ Announce(p) \/ Die(p)
  PROVE  IInv'
<1> USE DEF IInv
<1>1. CASE Launch(p)
  <2>1. TypeInv' /\ StoredInv'
    BY <1>1 DEF Launch, Goto, TypeInv, StoredInv
  <2>2. ASSUME NEW q \in Proc PROVE (MainInv(q) /\ UuidInv(q) /\ RebootInv(q))'
    BY <1>1 DEF Launch, Goto, TypeInv, MainInv, UuidInv, RebootInv
  <2> QED
    BY <2>1, <2>2
<1>2. CASE config_exists(p)
  <2>1. TypeInv' /\ StoredInv'
    BY <1>2 DEF config_exists, Goto, TypeInv, StoredInv
  <2>2. stored => db # NoDocument
    BY BootConstants DEF StoredInv, Config
  <2>3. Fill(Empty["uuid"]) = "default"
    BY DEF Fill, Empty, Field
  <2>4. ASSUME NEW q \in Proc PROVE (MainInv(q) /\ UuidInv(q) /\ RebootInv(q))'
    BY <1>2, <2>2, <2>3 DEF config_exists, Goto, TypeInv, MainInv, UuidInv, RebootInv, Uuid
  <2> QED
    BY <2>1, <2>4
<1>3. CASE ConfigExistsFails(p)
  <2>1. TypeInv' /\ StoredInv'
    BY <1>3 DEF ConfigExistsFails, Goto, TypeInv, StoredInv
  <2>2. stored => db # NoDocument
    BY BootConstants DEF StoredInv, Config
  <2>3. Fill(Empty["uuid"]) = "default"
    BY DEF Fill, Empty, Field
  <2>4. ASSUME NEW q \in Proc PROVE (MainInv(q) /\ UuidInv(q) /\ RebootInv(q))'
    BY <1>3, <2>2, <2>3 DEF ConfigExistsFails, Goto, TypeInv, MainInv, UuidInv, RebootInv, Uuid
  <2> QED
    BY <2>1, <2>4
<1>4. CASE StoreFails(p) \/ Announce(p)
  <2>1. TypeInv' /\ StoredInv'
    BY <1>4 DEF StoreFails, Announce, Goto, TypeInv, StoredInv
  <2>2. ASSUME NEW q \in Proc PROVE (MainInv(q) /\ UuidInv(q) /\ RebootInv(q))'
    BY <1>4 DEF StoreFails, Announce, Goto, TypeInv, MainInv, UuidInv, RebootInv
  <2> QED
    BY <2>1, <2>2
<1>5. CASE Die(p)
  <2>1. Empty \in Config /\ Advertised(Empty) \in [uuid : Text, location : Text \X Text]
    BY BootConstants DEF Advertised, Empty, Field, Config
  <2>2. TypeInv' /\ StoredInv'
    BY <1>5, <2>1 DEF Die, TypeInv, StoredInv, NoOptions
  <2>3. ASSUME NEW q \in Proc PROVE (MainInv(q) /\ UuidInv(q) /\ RebootInv(q))'
    BY <1>5 DEF Die, TypeInv, MainInv, UuidInv, RebootInv
  <2> QED
    BY <2>2, <2>3
<1> QED
  BY <1>1, <1>2, <1>3, <1>4, <1>5

\* Loading gives the config of the document, complete if it was stored.
LEMMA LoadStep == ASSUME IInv, NEW p \in Proc, Load(p) PROVE IInv'
<1> USE DEF IInv
<1>1. db \in Documents \union Config /\ db # NoDocument
  BY DEF Load, Goto, TypeInv, MainInv
<1>2. json_parse(db) \in Config /\ (db \in Config => json_parse(db) = db)
  BY <1>1, ParseProperties
<1>3. TypeInv' /\ StoredInv'
  BY <1>2 DEF Load, Goto, TypeInv, StoredInv
<1>4. ASSUME NEW q \in Proc PROVE (MainInv(q) /\ UuidInv(q) /\ RebootInv(q))'
  BY <1>1, <1>2 DEF Load, Goto, TypeInv, StoredInv, MainInv, UuidInv, RebootInv, Uuid
<1> QED
  BY <1>3, <1>4

\* The options and validate() keep the uuid, but for the empty one.
LEMMA ConfigureStep == ASSUME IInv, NEW p \in Proc, Configure(p) PROVE IInv'
<1> USE DEF IInv
<1> DEFINE c == Override(config[p], options[p])
<1>1. config[p] \in Config /\ options[p] \in Options \union {NoOptions}
  BY DEF TypeInv
<1>2. /\ c \in Config /\ c["uuid"] = config[p]["uuid"]
      /\ Complete(config[p]) => Complete(c)
  BY <1>1, OverrideProperties
<1>3. PICK ip \in Ip : config' = [config EXCEPT ![p] = validate(c, ip)]
  BY DEF Configure
<1> DEFINE v == validate(c, ip)
<1>4. /\ v \in Config /\ Complete(v) /\ v["uuid"] = Fill(c["uuid"])
      /\ Complete(c) => v = c
  BY <1>2, ValidateProperties
<1>5. Advertised(c) \in [uuid : Text, location : Text \X Text]
  BY <1>2 DEF Advertised, Config, Field
<1>6. namespaces' = [namespaces EXCEPT ![p] = Advertised(c)]
  BY DEF Configure
<1> HIDE DEF c, v
<1>7. config' = [config EXCEPT ![p] = v]
  BY <1>3 DEF v
<1>8. TypeInv' /\ StoredInv'
  BY <1>4, <1>5, <1>6, <1>7 DEF Configure, Goto, TypeInv, StoredInv
<1>9. ASSUME NEW q \in Proc PROVE (MainInv(q) /\ UuidInv(q) /\ RebootInv(q))'
  BY <1>2, <1>4, <1>6, <1>7 DEF Configure, Goto, TypeInv, MainInv, UuidInv, RebootInv
<1> QED
  BY <1>8, <1>9

\* A store replaces the document by a complete one, with the same uuid unless
\* somebody has missed a config.
LEMMA StoreChanges ==
  ASSUME IInv, NEW p \in Proc, Store(p)
  PROVE  /\ db' = config[p] /\ db' \in Config /\ Complete(db')
         /\ misread = {} => Uuid(db') = Uuid(db)
<1> USE DEF IInv
<1>1. config[p] \in Config /\ Complete(config[p])
  BY DEF TypeInv, MainInv, Store, Goto
<1>2. db' = config[p] /\ db' # NoDocument
  BY <1>1, WriteProperties DEF Store
<1>3. json_parse(db') = config[p]
  BY <1>1, <1>2, ParseProperties
<1>4. config[p]["uuid"] # ""
  BY <1>1 DEF Complete, Required, Field
<1>5. Uuid(db') = config[p]["uuid"]
  BY <1>2, <1>3, <1>4 DEF Uuid, Fill
<1>6. misread = {} => config[p]["uuid"] = Uuid(db)
  BY DEF UuidInv, Store, Goto
<1> QED
  BY <1>1, <1>2, <1>5, <1>6

LEMMA StoreStep == ASSUME IInv, NEW p \in Proc, Store(p) PROVE IInv'
<1> USE DEF IInv
<1>1. /\ db' = config[p] /\ db' \in Config /\ Complete(db')
      /\ misread = {} => Uuid(db') = Uuid(db)
  BY StoreChanges
<1>2. db' # NoDocument
  BY <1>1, WriteProperties
<1>3. TypeInv' /\ StoredInv'
  BY <1>1 DEF Store, Goto, TypeInv, StoredInv
<1>4. ASSUME NEW q \in Proc PROVE (MainInv(q) /\ UuidInv(q) /\ RebootInv(q))'
  BY <1>1, <1>2 DEF Store, Goto, TypeInv, MainInv, UuidInv, RebootInv
<1> QED
  BY <1>3, <1>4

\* The server reads back the uuid of the stored document.
LEMMA ServerStep == ASSUME IInv, NEW p \in Proc, MakeServer(p) PROVE IInv'
<1> USE DEF IInv
<1>1. db \in Documents \union Config /\ db # NoDocument
  BY DEF MakeServer, TypeInv
<1>2. json_parse(db) \in Config /\ (db \in Config => json_parse(db) = db)
  BY <1>1, ParseProperties
<1>3. saved[p] => json_parse(db)["uuid"] = Uuid(db)
  <2> SUFFICES ASSUME saved[p] PROVE json_parse(db)["uuid"] # ""
    BY <1>1 DEF Uuid, Fill
  <2>1. db \in Config /\ Complete(db)
    BY DEF MainInv, StoredInv
  <2> QED
    BY <1>2, <2>1 DEF Complete, Required, Field
<1>4. TypeInv' /\ StoredInv'
  BY <1>2 DEF MakeServer, Goto, TypeInv, StoredInv
<1>5. ASSUME NEW q \in Proc PROVE (MainInv(q) /\ UuidInv(q) /\ RebootInv(q))'
  BY <1>3 DEF MakeServer, Goto, TypeInv, MainInv, UuidInv, RebootInv
<1> QED
  BY <1>4, <1>5

LEMMA InvStep == IInv /\ [Next]_vars => IInv'
<1> SUFFICES ASSUME IInv, [Next]_vars PROVE IInv'
  OBVIOUS
<1>1. CASE UNCHANGED vars
  BY <1>1 DEF vars, IInv, TypeInv, StoredInv, MainInv, UuidInv, RebootInv
<1>2. ASSUME NEW p \in Proc,
             \/ Launch(p) \/ config_exists(p) \/ ConfigExistsFails(p) \/ Load(p)
             \/ Configure(p) \/ Store(p) \/ StoreFails(p) \/ MakeServer(p)
             \/ Announce(p) \/ Die(p)
      PROVE  IInv'
  BY <1>2, QuietStep, LoadStep, ConfigureStep, StoreStep, ServerStep
<1> QED
  BY <1>1, <1>2 DEF Next

LEMMA Invariance == Spec => []IInv
  BY InvInit, InvStep, PTL DEF Spec
-----------------------------------------------------------------------------
(***************************************************************************)
(* The properties.                                                         *)
(***************************************************************************)
\* The document the program has stored lacks no field it needs, for any
\* options and earlier documents of the instances that take turns.
THEOREM NothingMissing == Spec => []StoredComplete
<1>1. IInv => StoredComplete
  BY DEF IInv, StoredInv, StoredComplete, Complete, Required, Config
<1> QED
  BY <1>1, Invariance, PTL

\* The UDN of the description and the USN of the announcements agree.
THEOREM OneName == Spec => []UdnMatchesUsn
<1>1. IInv => UdnMatchesUsn
  BY DEF IInv, UuidInv, UdnMatchesUsn, Running
<1> QED
  BY <1>1, Invariance, PTL

\* A reboot advertises what it is configured with.
THEOREM Healed == Spec => []RebootHeals
<1>1. IInv => RebootHeals
  BY DEF IInv, RebootInv, RebootHeals, Running
<1> QED
  BY <1>1, Invariance, PTL

\* The stored uuid survives every step of every instance.
THEOREM NameSurvives == Spec => UdnSurvives
<1>1. ASSUME IInv, IInv', [Next]_vars
      PROVE  [stored /\ misread' = {} =>
                 json_parse(db')["uuid"] = json_parse(db)["uuid"]]_vars
  <2>1. ASSUME NEW p \in Proc, Store(p), stored, misread' = {}
        PROVE  json_parse(db')["uuid"] = json_parse(db)["uuid"]
    <3>1. misread = {} /\ Uuid(db') = Uuid(db)
      BY <1>1, <2>1, StoreChanges DEF Store
    <3>2. db \in Config /\ Complete(db) /\ db' \in Config /\ Complete(db')
      BY <1>1, <2>1, StoreChanges DEF IInv, StoredInv
    <3>3. /\ db # NoDocument /\ db' # NoDocument
          /\ json_parse(db) = db /\ json_parse(db') = db'
      BY <3>2, WriteProperties, ParseProperties
    <3>4. db["uuid"] # "" /\ db'["uuid"] # ""
      BY <3>2 DEF Complete, Required, Field
    <3> QED
      BY <3>1, <3>3, <3>4 DEF Uuid, Fill
  <2>2. ASSUME NEW p \in Proc,
               \/ Launch(p) \/ config_exists(p) \/ ConfigExistsFails(p) \/ Load(p)
               \/ Configure(p) \/ StoreFails(p) \/ MakeServer(p) \/ Announce(p) \/ Die(p)
        PROVE  db' = db
    BY <2>2 DEF Launch, config_exists, ConfigExistsFails, Load, Configure, StoreFails,
                MakeServer, Announce, Die
  <2> QED
    BY <1>1, <2>1, <2>2 DEF Next, vars
<1> QED
  BY <1>1, Invariance, PTL DEF Spec, UdnSurvives
=============================================================================
