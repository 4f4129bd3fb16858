-------------------------------- MODULE Boot --------------------------------
(***************************************************************************)
(* From main() to a running device: the configuration is loaded from the   *)
(* database, overridden by the command line, turned into the namespaces to *)
(* advertise, validated, stored, and read back by upnp::Server.  Instances *)
(* may share the database, and may be killed and started again.            *)
(***************************************************************************)
EXTENDS Naturals

CONSTANTS Proc,      \* instances of the program
          Text,      \* texts of fields
          Options,   \* command lines: functions from some of the fields
          Documents, \* what the database may hold at first: functions from
                     \* some of the fields, or
          NoDocument,
          Ip         \* addresses _get_ip() may find

\* The fields of Config.
Field == {"listen_address", "http_port", "multicast_address",
          "multicast_port", "name", "cds_uri", "uuid"}

\* A document that is absent is none of the documents the program writes.
ASSUME BootConstants ==
    /\ {"", "default"} \subseteq Text
    /\ \A o \in Options : /\ DOMAIN o \subseteq Field \ {"uuid"}
                          /\ \A f \in DOMAIN o : o[f] \in Text \ {""}
    /\ \A d \in Documents \ {NoDocument} :
           DOMAIN d \subseteq Field /\ \A f \in DOMAIN d : d[f] \in Text
    /\ NoDocument \notin [Field -> Text]
    /\ Ip \subseteq Text \ {""}

VARIABLES
    pc,          \* where each instance is in main()
    options,     \* its command line
    config,      \* its Container's config
    namespaces,  \* what it will advertise: the uuid and the location
    server,      \* the config its upnp::Server has read
    saved,       \* whether its config reached the database
    reboot,      \* started when the database held a config the program stored
    misread,     \* instances ever told that there is no config when there is
    db,          \* key config:cds
    stored       \* some instance's config has reached the database

vars == <<pc, options, config, namespaces, server, saved, reboot, misread, db, stored>>

Empty == [f \in Field |-> ""]
-----------------------------------------------------------------------------
(***************************************************************************)
(* config.h                                                                *)
(***************************************************************************)
\* Writing a config makes a string member of every field; reading leaves the
\* fields empty that are absent or not strings (modelled alike).
json_write(c) == [f \in Field |-> c[f]]

\* Mutant: a member is forgotten.
json_parse_NoListen(d) ==
    [f \in Field |-> IF f \in DOMAIN d \ {"listen_address"} THEN d[f] ELSE ""]
json_parse(d) == [f \in Field |-> IF f \in DOMAIN d THEN d[f] ELSE ""]

\* Mutant: the uuid is made up by the instance.
Default_OwnUuid(ip) ==
    [f \in Field |-> IF f = "cds_uri" THEN "" ELSE
                     IF f \in {"listen_address", "uuid"} THEN ip ELSE "default"]
Default(ip) ==
    [f \in Field |-> IF f = "cds_uri" THEN "" ELSE
                     IF f = "listen_address" THEN ip ELSE "default"]

\* Mutant: nothing is filled in.
validate_Nothing(c, ip) == c
validate(c, ip) == [f \in Field |-> IF c[f] = "" THEN Default(ip)[f] ELSE c[f]]

Override(c, o) == [f \in Field |-> IF f \in DOMAIN o THEN o[f] ELSE c[f]]

\* device_uri_ and the two entries of _namespaces made from the uuid.
Advertised(c) == [uuid |-> c["uuid"],
                  location |-> <<c["listen_address"], c["http_port"]>>]
-----------------------------------------------------------------------------
Init ==
    /\ pc = [p \in Proc |-> "off"]
    /\ options \in [Proc -> {[f \in {} |-> ""]}]
    /\ config = [p \in Proc |-> Empty]
    /\ namespaces = [p \in Proc |-> Advertised(Empty)]
    /\ server = [p \in Proc |-> Empty]
    /\ saved = [p \in Proc |-> FALSE]
    /\ reboot = [p \in Proc |-> FALSE]
    /\ misread = {}
    /\ db \in Documents
    /\ stored = FALSE

Goto(p, from, to) == pc[p] = from /\ pc' = [pc EXCEPT ![p] = to]

\* A new process starts from an empty Config.
Launch(p) ==
    /\ Goto(p, "off", "exists")
    /\ \E o \in Options : options' = [options EXCEPT ![p] = o]
    /\ reboot' = [reboot EXCEPT ![p] = stored]
    /\ UNCHANGED <<config, namespaces, server, saved, misread, db, stored>>

config_exists(p) ==
    /\ Goto(p, "exists", IF db = NoDocument THEN "configure" ELSE "load")
    /\ UNCHANGED <<options, config, namespaces, server, saved, reboot, misread, db, stored>>

\* A failed EXISTS reads as `no'.
ConfigExistsFails(p) ==
    /\ Goto(p, "exists", "configure")
    /\ misread' = IF db = NoDocument THEN misread ELSE misread \union {p}
    /\ UNCHANGED <<options, config, namespaces, server, saved, reboot, db, stored>>

Load(p) ==
    /\ Goto(p, "load", "configure")
    /\ config' = [config EXCEPT ![p] = json_parse(db)]
    /\ UNCHANGED <<options, namespaces, server, saved, reboot, misread, db, stored>>

\* The namespaces are made from the config before it is validated.
Configure(p) ==
    /\ Goto(p, "configure", "store")
    /\ LET c == Override(config[p], options[p])
       IN  /\ namespaces' = [namespaces EXCEPT ![p] = Advertised(c)]
           /\ \E ip \in Ip : config' = [config EXCEPT ![p] = validate(c, ip)]
    /\ UNCHANGED <<options, server, saved, reboot, misread, db, stored>>

Store(p) ==
    /\ Goto(p, "store", "server")
    /\ db' = json_write(config[p])
    /\ saved' = [saved EXCEPT ![p] = TRUE]
    /\ stored' = TRUE
    /\ UNCHANGED <<options, config, namespaces, server, reboot, misread>>

\* The result of redis->set() is ignored.
StoreFails(p) ==
    /\ Goto(p, "store", "server")
    /\ UNCHANGED <<options, config, namespaces, server, saved, reboot, misread, db, stored>>

\* Mutant: the constructor leaves its config empty.
MakeServer_NoConfig(p) ==
    /\ Goto(p, "server", "announce")
    /\ server' = [server EXCEPT ![p] = Empty]
    /\ UNCHANGED <<options, config, namespaces, saved, reboot, misread, db, stored>>

\* The Server constructor reads the config back on its own connection.
MakeServer(p) ==
    /\ Goto(p, "server", "announce")
    /\ db # NoDocument
    /\ server' = [server EXCEPT ![p] = json_parse(db)]
    /\ UNCHANGED <<options, config, namespaces, saved, reboot, misread, db, stored>>

\* The web server is bound and the SSDP server announces.
Announce(p) ==
    /\ Goto(p, "announce", "running")
    /\ UNCHANGED <<options, config, namespaces, server, saved, reboot, misread, db, stored>>

\* The process and its memory are gone, by a signal or an exception nothing
\* catches: the database cannot be reached, the config is not there to be read
\* back, an address cannot be bound.
Die(p) ==
    /\ pc[p] # "off"
    /\ pc' = [pc EXCEPT ![p] = "off"]
    /\ options' = [options EXCEPT ![p] = [f \in {} |-> ""]]
    /\ config' = [config EXCEPT ![p] = Empty]
    /\ namespaces' = [namespaces EXCEPT ![p] = Advertised(Empty)]
    /\ server' = [server EXCEPT ![p] = Empty]
    /\ saved' = [saved EXCEPT ![p] = FALSE]
    /\ reboot' = [reboot EXCEPT ![p] = FALSE]
    /\ UNCHANGED <<misread, db, stored>>

Next == \E p \in Proc :
    \/ Launch(p) \/ config_exists(p) \/ ConfigExistsFails(p) \/ Load(p) \/ Configure(p)
    \/ Store(p) \/ StoreFails(p) \/ MakeServer(p) \/ Announce(p) \/ Die(p)

Spec == Init /\ [][Next]_vars
-----------------------------------------------------------------------------
Running(p) == pc[p] = "running"
Required == Field \ {"cds_uri"}

\* Once the program has stored its config no field it needs is empty there,
\* also when instances with other options, or older documents, take turns.
StoredComplete == stored => \A f \in Required : f \in DOMAIN db /\ db[f] # ""

\* The uuid in the database never changes once it is stored, by reboots or by
\* concurrent first boots of instances with other options, as long as nobody
\* misses the stored config.
UdnSurvives ==
    [][stored /\ misread' = {} => json_parse(db')["uuid"] = json_parse(db)["uuid"]]_vars

\* The description's UDN, from the config the Server has read back, names the
\* same device as the USN of the discovery messages, from main's config, even
\* if another instance has overwritten the document in between.
UdnMatchesUsn ==
    \A p \in Proc : Running(p) /\ saved[p] /\ misread = {} =>
                       server[p]["uuid"] = config[p]["uuid"]

\* An instance started after a config was stored advertises its uuid and the
\* address its web server listens on, whatever the command line overrides.
RebootHeals ==
    \A p \in Proc : Running(p) /\ reboot[p] /\ p \notin misread =>
                       namespaces[p] = Advertised(config[p])

\* What Device says of the UDN: it "shall match the field value of the NT
\* header field in device discovery messages".  The NT of a first boot is made
\* before validate() has given the device its uuid.
UdnMatchesNt ==
    \A p \in Proc : Running(p) /\ saved[p] => namespaces[p].uuid = server[p]["uuid"]
=============================================================================
