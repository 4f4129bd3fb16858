-------------------------- MODULE DeviceDescription --------------------------
(***************************************************************************)
(* A control point built on this library and the device it describes: the  *)
(* server answers /root.xml from its config, the control point parses the  *)
(* document into a Device and uses the URLs in it against the routes       *)
(* main() binds.                                                           *)
(*                                                                         *)
(* A document is its elements in document order, each a pair of name and   *)
(* text; texts that are constant in the source are abbreviated, URLs are   *)
(* sequences of their parts.                                               *)
(***************************************************************************)
EXTENDS Integers, Sequences, SequencesExt, FiniteSets

CONSTANTS Name,       \* names the server is started with
          Other,      \* documents of a server that is not this one
          MaxList,    \* bound: icons, and services, in a document
          MaxParses   \* bound: documents parsed into one Device

ASSUME DescriptionConstants ==
    /\ MaxParses \in Nat
    /\ MaxList \in Nat /\ 3 <= MaxList
    /\ \A d \in Other :
           /\ d.elements \in Seq(Range(d.elements))
           /\ \A list \in {"iconList", "serviceList"} :
                  /\ d[list] \in Seq(Range(d[list])) /\ Len(d[list]) <= MaxList
                  /\ \A k \in DOMAIN d[list] : d[list][k] \in Seq(Range(d[list][k]))

VARIABLES
    ours,     \* the device is this server, not another one
    name,     \* config_->name of the server
    text,     \* the fetched document: <<>> or <<document>>
    cut,      \* it has been parsed: rapidxml writes its terminators into it
    device,   \* the Device
    result,   \* of the last parse: "none", "ok" or "error"
    current,  \* the server has not restarted since text was fetched
    seen      \* the documents parsed

vars == <<ours, name, text, cut, device, result, current, seen>>
-----------------------------------------------------------------------------
(***************************************************************************)
(* The description.                                                        *)
(***************************************************************************)
icon(px) == << <<"mimetype", "image/png">>, <<"width", px>>, <<"height", px>>,
               <<"depth", "24">>, <<"url", <<"squawk", px>> >> >>

service(s) == << <<"serviceType", <<"service", s>> >>, <<"serviceId", <<"serviceId", s>> >>,
                 <<"controlURL", <<"ctl", s>> >>, <<"eventSubURL", <<"ctl", s>> >>,
                 <<"SCPDURL", <<s, "xml">> >> >>

\* Mutant: the name is a constant.
description_NoConfig(n) ==
    [elements |-> << <<"friendlyName", "Squawk">> >>, iconList |-> <<>>, serviceList |-> <<>>]
description(n) ==
    [elements |->
        << <<"major", "1">>, <<"minor", "0">>, <<"deviceType", "MediaServer">>,
           <<"friendlyName", n>>, <<"manufacturer", "loudlabs">>,
           <<"manufacturerURL", "github">>, <<"modelDescription", "Squawk">>,
           <<"modelName", "Squawk">>, <<"modelNumber", "0">>, <<"modelURL", "github">>,
           <<"serialNumber", "0">>, <<"UDN", "uuid">>, <<"X_DLNADOC", "DMS-1.50">>,
           <<"presentationURL", "/">> >>,
     iconList |-> <<icon("48"), icon("64"), icon("128")>>,
     serviceList |-> <<service("cds"), service("cms")>>]

atoi(t) == CASE t = "1" -> 1 [] t = "16" -> 16 [] t = "24" -> 24 [] t = "32" -> 32
             [] t = "48" -> 48 [] t = "64" -> 64 [] t = "120" -> 120 [] t = "128" -> 128
             [] OTHER -> 0

\* Mutant: the routes of the two service descriptions are confused.
handler_Confused(url) ==
    CASE url \in {<<s, "xml">> : s \in {"cds", "cms"}} -> <<"scpd", "cds">>
      [] url \in {<<"ctl", s>> : s \in {"cds", "cms"}} -> <<"control", url[2]>>
      [] url[1] = "squawk" -> <<"png", atoi(url[2])>>
      [] OTHER -> <<"none">>
\* What main() has bound to a URL, and for an image how many pixels wide it is:
\* any number but those is given the smallest.
handler(url) ==
    CASE url = <<"root", "xml">> -> <<"description">>
      [] url = <<"config">> -> <<"config">>
      [] url \in {<<s, "xml">> : s \in {"cds", "cms"}} -> <<"scpd", url[1]>>
      [] url \in {<<"ctl", s>> : s \in {"cds", "cms"}} -> <<"control", url[2]>>
      [] url[1] = "squawk" ->
             <<"png", IF url[2] \in {"120", "64", "48", "32"} THEN atoi(url[2]) ELSE 16>>
      [] OTHER -> <<"none">>
-----------------------------------------------------------------------------
(***************************************************************************)
(* The Device and its parts, by the elements that set their members.       *)
(***************************************************************************)
Icon == [width |-> 0, height |-> 0, depth |-> 0, mimetype |-> "", url |-> <<>>]

Service == [serviceType |-> <<>>, serviceId |-> <<>>, SCPDURL |-> <<>>,
            controlURL |-> <<>>, eventSubURL |-> <<>>]

\* Not initialised: any number.
Version == [major |-> -1, minor |-> -1]

TextMembers == {"deviceType", "friendlyName", "manufacturer", "manufacturerURL",
                "modelDescription", "modelName", "modelNumber", "modelURL",
                "serialNumber", "UDN", "UPC", "presentationURL"}
Members == TextMembers \union {"urlBase"}

\* The elements that set a member; the base is looked for in two places.
\* parse() knows no element for modelURL and UPC.
Setting(m) == CASE m = "urlBase" -> {"urlBase", "URLBase"}
                [] m \in {"modelURL", "UPC"} -> {}
                [] OTHER -> {m}

Number == {"width", "height", "depth", "major", "minor"}

\* What a text sets a member to.
value(m, t) == IF m \in Number THEN atoi(t) ELSE t

\* Where the elements for a member are.
At(m, elements) == {i \in DOMAIN elements : elements[i][1] \in Setting(m)}

\* FOR visits the children in document order: an element that is known sets
\* its member, so that the last one for it decides; the others are passed over.
FOR(object, elements) ==
    [m \in DOMAIN object |->
        LET at == At(m, elements)
        IN  IF at = {} THEN object[m] ELSE value(m, elements[Max(at)][2])]

Lists(d, doc) ==
    [d EXCEPT !.images = @ \o [i \in DOMAIN doc.iconList |-> FOR(Icon, doc.iconList[i])],
              !.services = @ \o [i \in DOMAIN doc.serviceList |->
                                     FOR(Service, doc.serviceList[i])]]

\* Mutants: the lists get an entry for every element of it, or the members
\* that the document does not have are emptied.
parse_PerElement(doc, d) ==
    Lists(Lists([d EXCEPT !.version = FOR(@, doc.elements),
                          !.members = FOR(@, doc.elements)], doc), doc)
parse_Emptied(doc, d) ==
    Lists([d EXCEPT !.version = FOR(@, doc.elements),
                    !.members = FOR([m \in Members |-> ""], doc.elements)], doc)
parse(doc, d) ==
    Lists([d EXCEPT !.version = FOR(@, doc.elements),
                    !.members = FOR(@, doc.elements)], doc)

Device == [version |-> Version, members |-> [m \in Members |-> ""],
           images |-> <<>>, services |-> <<>>]
-----------------------------------------------------------------------------
Document == {description(n) : n \in Name} \union Other

TypeOK ==
    /\ ours \in BOOLEAN /\ cut \in BOOLEAN /\ current \in BOOLEAN
    /\ name \in Name
    /\ text \in {<<>>} \union {<<d>> : d \in Document}
    /\ result \in {"none", "ok", "error"}
    /\ seen \in Seq(Document) /\ Len(seen) <= MaxParses
    /\ DOMAIN device.members = Members
    /\ Len(device.images) <= MaxList * Len(seen)
    /\ Len(device.services) <= MaxList * Len(seen)

Init ==
    /\ ours \in BOOLEAN
    /\ name \in Name
    /\ text = <<>> /\ cut = FALSE /\ current = FALSE
    /\ device = Device
    /\ result = "none"
    /\ seen = <<>>

\* The server is started again with another name.
Restart(n) ==
    /\ name' = n
    /\ current' = FALSE
    /\ UNCHANGED <<ours, text, cut, device, result, seen>>

\* GET /root.xml.
Fetch ==
    /\ text' \in {<<d>> : d \in IF ours THEN {description(name)} ELSE Other}
    /\ cut' = FALSE
    /\ current' = TRUE
    /\ UNCHANGED <<ours, name, device, result, seen>>

Parse ==
    /\ text # <<>> /\ ~cut
    /\ Len(seen) < MaxParses
    /\ device' = parse(text[1], device)
    /\ seen' = Append(seen, text[1])
    /\ cut' = TRUE
    /\ result' = "ok"
    /\ UNCHANGED <<ours, name, text, current>>

\* The text of a document that was parsed is no document any more.
ParseAgain ==
    /\ text # <<>> /\ cut
    /\ result' = "error"
    /\ UNCHANGED <<ours, name, text, cut, device, current, seen>>

Next ==
    \/ \E n \in Name : Restart(n)
    \/ Fetch \/ Parse \/ ParseAgain

Spec == Init /\ [][Next]_vars
-----------------------------------------------------------------------------
\* v is what the last of the elements for m says.
IsGiven(v, m, elements) ==
    \E k \in At(m, elements) :
        /\ v = value(m, elements[k][2])
        /\ \A j \in At(m, elements) : j <= k

\* v is what the elements say for m, and what it was before if they say nothing.
IsUpdated(v, before, m, elements) ==
    IF At(m, elements) = {} THEN v = before ELSE IsGiven(v, m, elements)

\* v is what the last document with an element for m gives for it, and what it
\* was at first if none has one.
IsLatest(v, m, first, docs) ==
    \/ v = first /\ \A i \in DOMAIN docs : At(m, docs[i].elements) = {}
    \/ \E i \in DOMAIN docs :
           /\ IsGiven(v, m, docs[i].elements)
           /\ \A j \in DOMAIN docs : j > i => At(m, docs[j].elements) = {}

\* list holds the entries of that list of all documents, one document after
\* the other, each with what it says itself and nothing of the one before.
Joined(list, which, object, docs) ==
    \E end \in [0..Len(docs) -> 0..Len(list)] :
        /\ end[0] = 0 /\ end[Len(docs)] = Len(list)
        /\ \A i \in DOMAIN docs :
               LET entries == docs[i][which]
               IN  /\ end[i] = end[i - 1] + Len(entries)
                   /\ \A k \in DOMAIN entries, m \in DOMAIN object :
                          IsUpdated(list[end[i - 1] + k][m], object[m], m, entries[k])

\* However often documents are parsed into one Device, and whatever they
\* leave out or say twice, its members are those of the last element for them
\* in the last document that had one, and its lists hold the entries of all
\* documents, in order.
LatestValues ==
    /\ \A m \in Members : IsLatest(device.members[m], m, "", seen)
    /\ \A v \in DOMAIN Version : IsLatest(device.version[v], v, Version[v], seen)
    /\ Joined(device.images, "iconList", Icon, seen)
    /\ Joined(device.services, "serviceList", Service, seen)

\* What the URLs of a Device are for.
Purpose(d) ==
    {<<s.controlURL, <<"control", s.serviceId[2]>> >> : s \in Range(d.services)}
    \union {<<s.eventSubURL, <<"control", s.serviceId[2]>> >> : s \in Range(d.services)}
    \union {<<s.SCPDURL, <<"scpd", s.serviceId[2]>> >> : s \in Range(d.services)}
    \union {<<i.url, <<"png", i.width>> >> : i \in Range(d.images)}
    \union {<< <<page>>, <<"page">> >> : page \in {d.members["presentationURL"]} \ {""}}

\* URLs of the description that are not served as described: nothing is bound
\* to the presentation page, and the route for images has 120 pixels, not 128.
Unserved == {<<"/">>, <<"squawk", "128">>}

\* Every URL a control point can have taken from this server, also before its
\* last restart, is bound to what the description has it for: each service's
\* to that service, an icon's to an image as wide as described. The two
\* Unserved ones are not, and they are the only ones.
UrlsRouted ==
    ours => \A u \in Purpose(device) : handler(u[1]) # u[2] <=> u[1] \in Unserved

\* The name shown is the server's, if its document was fetched after the last
\* restart and could be parsed.
NameCurrent == ours /\ current /\ cut => device.members["friendlyName"] = name
=============================================================================
