----------------------- MODULE DeviceDescriptionProofs -----------------------
(***************************************************************************)
(* The Device of a control point, for any documents and any number of      *)
(* them.                                                                   *)
(***************************************************************************)
EXTENDS DeviceDescription, SequenceTheorems, WellFoundedInduction, TLAPS

IsSeq(s) == \E S : s \in Seq(S)

\* The entries of a list, as parse() adds them to the Device.
Entries(object, list) == [i \in DOMAIN list |-> FOR(object, list[i])]

\* The parts of a Device d into which doc was parsed, p being the result.
Parsed(p, doc, d) ==
    /\ p.version = FOR(d.version, doc.elements)
    /\ p.members = FOR(d.members, doc.elements)
    /\ p.images = d.images \o Entries(Icon, doc.iconList)
    /\ p.services = d.services \o Entries(Service, doc.serviceList)

\* The elements of entry k of a list that starts behind base are in it.
HoldsEntries(list, base, object, entries) ==
    \A k \in DOMAIN entries, m \in DOMAIN object :
        IsUpdated(list[base + k][m], object[m], m, entries[k])

\* joined is list with the entries of new added.
Added(joined, object, list, new) ==
    /\ IsSeq(joined) /\ Len(joined) = Len(list) + Len(new)
    /\ Len(list) \in Nat /\ Len(new) \in Nat /\ DOMAIN new = 1..Len(new)
    /\ \A i \in 1..Len(list) : joined[i] = list[i]
    /\ \A k \in 1..Len(new) : joined[Len(list) + k] = FOR(object, new[k])

Fields == {"version", "members", "images", "services"}
Shape(d) == d = [f \in Fields |-> d[f]]
-----------------------------------------------------------------------------
(***************************************************************************)
(* The inductive invariant.                                                *)
(***************************************************************************)
DeviceInv ==
    /\ Shape(device)
    /\ DOMAIN device.members = Members /\ DOMAIN device.version = DOMAIN Version
    /\ IsSeq(device.images) /\ Len(device.images) <= MaxList * Len(seen)
    /\ IsSeq(device.services) /\ Len(device.services) <= MaxList * Len(seen)

HttpInv ==
    /\ ours \in BOOLEAN /\ cut \in BOOLEAN /\ current \in BOOLEAN
    /\ name \in Name
    /\ text \in {<<>>} \union {<<d>> : d \in Document}
    /\ result \in {"none", "ok", "error"}
    /\ seen \in Seq(Document) /\ Len(seen) <= MaxParses

\* All that comes from this server is from one of its descriptions.
OursInv == ours =>
    /\ text # <<>> => \E n \in Name : text[1] = description(n)
    /\ current => text = <<description(name)>>
    /\ cut => text # <<>> /\ \E n \in Name : /\ text[1] = description(n)
                                              /\ device.members["friendlyName"] = n
    /\ device.members["presentationURL"] \in {"", "/"}
    /\ \A i \in 1..Len(device.services) :
           \E s \in {"cds", "cms"} : device.services[i] = FOR(Service, service(s))
    /\ \A i \in 1..Len(device.images) :
           \E px \in {"48", "64", "128"} : device.images[i] = FOR(Icon, icon(px))

IInv == HttpInv /\ DeviceInv /\ OursInv /\ LatestValues
-----------------------------------------------------------------------------
(***************************************************************************)
(* The parser.                                                             *)
(***************************************************************************)
\* A set of positions has a last one.
LEMMA Greatest ==
    ASSUME NEW n \in Nat, NEW S \in SUBSET (1..n), S # {}
    PROVE  \E i \in S : \A j \in S : j <= i
<1> DEFINE T == {n - i : i \in S}
           R == {ss \in Nat \X Nat : ss[1] < ss[2]}
<1>1. IsWellFoundedOn(R, Nat)
  BY NatLessThanWellFounded, Zenon DEF OpToRel
<1>2. T \subseteq Nat /\ T # {}
  <2>1. \A i \in S : i \in 1..n /\ n - i \in Nat
    OBVIOUS
  <2> QED
    BY <2>1
<1>3. \E x \in T : \A y \in T : ~ (<<y, x>> \in R)
  <2> HIDE DEF T, R
  <2> QED
    BY <1>1, <1>2, WFMin
<1>4. PICK x \in T : \A y \in T : ~ (y < x)
  <2>1. PICK x \in T : \A y \in T : ~ (<<y, x>> \in R)
    BY <1>3
  <2>2. \A y \in T : y \in Nat
    BY <1>2
  <2> HIDE DEF T
  <2> QED
    BY <2>1, <2>2
<1>5. PICK i \in S : x = n - i
  OBVIOUS
<1>6. \A j \in S : n - j \in T
  OBVIOUS
<1> HIDE DEF T
<1> QED
  BY <1>4, <1>5, <1>6

\* A member keeps its value or gets that of the last element for it.
LEMMA ForProperties ==
    ASSUME NEW object, NEW elements, IsSeq(elements)
    PROVE  /\ DOMAIN FOR(object, elements) = DOMAIN object
           /\ \A m \in DOMAIN object :
                  IsUpdated(FOR(object, elements)[m], object[m], m, elements)
<1>1. DOMAIN FOR(object, elements) = DOMAIN object
  BY DEF FOR
<1>2. ASSUME NEW m \in DOMAIN object
      PROVE  IsUpdated(FOR(object, elements)[m], object[m], m, elements)
  <2> DEFINE at == At(m, elements)
             n == Len(elements)
  <2>1. FOR(object, elements)[m] = IF at = {} THEN object[m]
                                   ELSE value(m, elements[Max(at)][2])
    BY DEF FOR
  <2>2. n \in Nat /\ at \in SUBSET (1..n)
    <3>1. PICK S : elements \in Seq(S)
      BY DEF IsSeq
    <3>2. n \in Nat /\ DOMAIN elements = 1..n
      BY <3>1, LenProperties
    <3> QED
      BY <3>2 DEF At
  <2> HIDE DEF at, n
  <2>3. ASSUME at # {} PROVE Max(at) \in at /\ \A j \in at : j <= Max(at)
    <3>1. \E i \in at : \A j \in at : j <= i
      BY <2>2, <2>3, Greatest
    <3>2. \E i \in at : \A j \in at : i >= j
      BY <3>1, <2>2
    <3>3. Max(at) \in at /\ \A j \in at : Max(at) >= j
      BY <3>2, Zenon DEF Max
    <3> QED
      BY <3>3, <2>2
  <2> QED
    BY <2>1, <2>3 DEF IsUpdated, IsGiven, at
<1> QED
  BY <1>1, <1>2

\* The only element for a member sets it.
LEMMA ForSets ==
    ASSUME NEW object, NEW elements, IsSeq(elements), NEW m \in DOMAIN object,
           NEW k, At(m, elements) = {k}
    PROVE  FOR(object, elements)[m] = value(m, elements[k][2])
<1>1. IsUpdated(FOR(object, elements)[m], object[m], m, elements)
  BY ForProperties
<1> QED
  BY <1>1 DEF IsUpdated, IsGiven

\* Concatenation, whatever the entries are.
LEMMA JoinSeq ==
    ASSUME NEW s, NEW t, IsSeq(s), IsSeq(t)
    PROVE  /\ IsSeq(s \o t) /\ Len(s \o t) = Len(s) + Len(t)
           /\ Len(s) \in Nat /\ Len(t) \in Nat
           /\ \A i \in 1..Len(s) : (s \o t)[i] = s[i]
           /\ \A i \in 1..Len(t) : (s \o t)[Len(s) + i] = t[i]
<1>1. PICK S : s \in Seq(S)
  BY DEF IsSeq
<1>2. PICK T : t \in Seq(T)
  BY DEF IsSeq
<1>3. s \in Seq(S \union T) /\ t \in Seq(S \union T)
  BY <1>1, <1>2, SeqMonotonic
<1>4. /\ s \o t \in Seq(S \union T) /\ Len(s \o t) = Len(s) + Len(t)
      /\ Len(s) \in Nat /\ Len(t) \in Nat
      /\ \A i \in 1 .. Len(s) + Len(t) :
             (s \o t)[i] = IF i <= Len(s) THEN s[i] ELSE t[i - Len(s)]
  BY <1>3, ConcatProperties, LenProperties
<1>5. \A i \in 1..Len(s) : (s \o t)[i] = s[i]
  BY <1>4
<1>6. ASSUME NEW i \in 1..Len(t) PROVE (s \o t)[Len(s) + i] = t[i]
  <2>1. Len(s) + i \in 1..Len(s) + Len(t) /\ ~(Len(s) + i <= Len(s))
        /\ (Len(s) + i) - Len(s) = i
    BY <1>4
  <2> QED
    BY <1>4, <2>1
<1> QED
  BY <1>4, <1>5, <1>6 DEF IsSeq

LEMMA EntriesSeq ==
    ASSUME NEW object, NEW list, IsSeq(list)
    PROVE  /\ IsSeq(Entries(object, list)) /\ Len(Entries(object, list)) = Len(list)
           /\ Len(list) \in Nat /\ DOMAIN list = 1..Len(list)
           /\ \A i \in 1..Len(list) : Entries(object, list)[i] = FOR(object, list[i])
<1>1. PICK S : list \in Seq(S)
  BY DEF IsSeq
<1>2. Len(list) \in Nat /\ DOMAIN list = 1..Len(list)
  BY <1>1, LenProperties
<1> DEFINE T == {FOR(object, list[i]) : i \in 1..Len(list)}
<1>3. /\ Entries(object, list) = [i \in 1..Len(list) |-> FOR(object, list[i])]
      /\ Entries(object, list) \in [1..Len(list) -> T]
  BY <1>2 DEF Entries
<1>4. Entries(object, list) \in Seq(T) /\ Len(Entries(object, list)) = Len(list)
  <2> HIDE DEF T
  <2> QED
    BY <1>2, <1>3
<1> QED
  BY <1>2, <1>3, <1>4 DEF IsSeq

\* A list with the entries of another one added.
LEMMA AddEntries ==
    ASSUME NEW object, NEW list, IsSeq(list), NEW new, IsSeq(new)
    PROVE  Added(list \o Entries(object, new), object, list, new)
BY JoinSeq, EntriesSeq DEF Added

\* The elements and the lists of every document are sequences, the lists
\* within the bound.
Wellformed(d) ==
    /\ IsSeq(d.elements)
    /\ IsSeq(d.iconList) /\ Len(d.iconList) <= MaxList
    /\ \A k \in DOMAIN d.iconList : IsSeq(d.iconList[k])
    /\ IsSeq(d.serviceList) /\ Len(d.serviceList) <= MaxList
    /\ \A k \in DOMAIN d.serviceList : IsSeq(d.serviceList[k])

LEMMA OursSeq ==
    /\ \A px : icon(px) \in Seq(Range(icon(px)))
    /\ \A s : service(s) \in Seq(Range(service(s)))
    /\ \A n : description(n).elements \in Seq(Range(description(n).elements))
<1>1. ASSUME NEW px PROVE icon(px) \in Seq(Range(icon(px)))
  BY DEF icon, Range
<1>2. ASSUME NEW s PROVE service(s) \in Seq(Range(service(s)))
  BY DEF service, Range
<1>3. ASSUME NEW n
      PROVE  description(n).elements \in Seq(Range(description(n).elements))
  BY DEF description, Range
<1> QED
  BY <1>1, <1>2, <1>3

LEMMA DocumentLists ==
    ASSUME NEW d \in Document
    PROVE  Wellformed(d)
<1>1. CASE d \in Other
  BY <1>1, DescriptionConstants DEF IsSeq, Wellformed
<1>2. ASSUME NEW n \in Name, d = description(n)
      PROVE  Wellformed(d)
  <2>1. /\ d.iconList = <<icon("48"), icon("64"), icon("128")>>
        /\ d.serviceList = <<service("cds"), service("cms")>>
    BY <1>2 DEF description
  <2>2. /\ d.iconList \in Seq({icon("48"), icon("64"), icon("128")})
        /\ d.serviceList \in Seq({service("cds"), service("cms")})
        /\ Len(d.iconList) = 3 /\ Len(d.serviceList) = 2
        /\ \A k \in DOMAIN d.iconList : \E px : d.iconList[k] = icon(px)
        /\ \A k \in DOMAIN d.serviceList : \E s : d.serviceList[k] = service(s)
    BY <2>1
  <2>3. /\ IsSeq(d.elements) /\ \A k \in DOMAIN d.iconList : IsSeq(d.iconList[k])
        /\ \A k \in DOMAIN d.serviceList : IsSeq(d.serviceList[k])
    <3>1. \A px, s : IsSeq(icon(px)) /\ IsSeq(service(s))
      BY OursSeq, Zenon DEF IsSeq
    <3>2. IsSeq(d.elements)
      BY <1>2, OursSeq, Zenon DEF IsSeq
    <3> QED
      BY <2>2, <3>1, <3>2
  <2>4. IsSeq(d.iconList) /\ IsSeq(d.serviceList)
    BY <2>2, Zenon DEF IsSeq
  <2> QED
    BY <2>2, <2>3, <2>4, DescriptionConstants DEF Wellformed
<1> QED
  BY <1>1, <1>2 DEF Document

\* parse() touches the version, the members and the lists.
LEMMA ParseProperties ==
    ASSUME NEW d, Shape(d), NEW doc
    PROVE  Shape(parse(doc, d)) /\ Parsed(parse(doc, d), doc, d)
<1> DEFINE v == FOR(d.version, doc.elements)
           m == FOR(d.members, doc.elements)
           i == d.images \o Entries(Icon, doc.iconList)
           s == d.services \o Entries(Service, doc.serviceList)
<1>1. parse(doc, d) = [[d EXCEPT !.version = v, !.members = m]
                          EXCEPT !.images = i, !.services = s]
  BY DEF Shape, parse, Lists, Entries
<1> HIDE DEF v, m, i, s
<1> DEFINE e == [d EXCEPT !.version = v, !.members = m]
<1>2. /\ Shape(e) /\ e.version = v /\ e.members = m /\ e.images = d.images
      /\ e.services = d.services
  BY DEF Shape, Fields
<1> HIDE DEF e
<1>3. parse(doc, d) = [e EXCEPT !.images = i, !.services = s]
  BY <1>1 DEF e
<1> QED
  BY <1>2, <1>3 DEF Shape, Fields, Parsed, v, m, i, s
\* What atoi() makes of the numbers that are used.
LEMMA Numerals == atoi("128") = 128 /\ atoi("16") = 16
BY DEF atoi

\* The elements of this server's documents, each the only one for its member.
LEMMA OurElements ==
    /\ \A n : /\ At("friendlyName", description(n).elements) = {4}
              /\ value("friendlyName", description(n).elements[4][2]) = n
              /\ At("presentationURL", description(n).elements) = {14}
              /\ value("presentationURL", description(n).elements[14][2]) = "/"
    /\ \A s : /\ At("serviceId", service(s)) = {2}
              /\ value("serviceId", service(s)[2][2]) = <<"serviceId", s>>
              /\ At("controlURL", service(s)) = {3}
              /\ value("controlURL", service(s)[3][2]) = <<"ctl", s>>
              /\ At("eventSubURL", service(s)) = {4}
              /\ value("eventSubURL", service(s)[4][2]) = <<"ctl", s>>
              /\ At("SCPDURL", service(s)) = {5}
              /\ value("SCPDURL", service(s)[5][2]) = <<s, "xml">>
    /\ \A px : /\ At("width", icon(px)) = {2} /\ value("width", icon(px)[2][2]) = atoi(px)
               /\ At("url", icon(px)) = {5} /\ value("url", icon(px)[5][2]) = <<"squawk", px>>
<1>1. /\ Setting("friendlyName") = {"friendlyName"}
      /\ Setting("presentationURL") = {"presentationURL"}
      /\ Setting("serviceId") = {"serviceId"} /\ Setting("controlURL") = {"controlURL"}
      /\ Setting("eventSubURL") = {"eventSubURL"} /\ Setting("SCPDURL") = {"SCPDURL"}
      /\ Setting("width") = {"width"} /\ Setting("url") = {"url"}
  BY DEF Setting
<1>2. ASSUME NEW n
      PROVE  /\ At("friendlyName", description(n).elements) = {4}
             /\ value("friendlyName", description(n).elements[4][2]) = n
             /\ At("presentationURL", description(n).elements) = {14}
             /\ value("presentationURL", description(n).elements[14][2]) = "/"
  BY <1>1 DEF At, description, value, Number
<1>3. ASSUME NEW s
      PROVE  /\ At("serviceId", service(s)) = {2}
             /\ value("serviceId", service(s)[2][2]) = <<"serviceId", s>>
             /\ At("controlURL", service(s)) = {3}
             /\ value("controlURL", service(s)[3][2]) = <<"ctl", s>>
             /\ At("eventSubURL", service(s)) = {4}
             /\ value("eventSubURL", service(s)[4][2]) = <<"ctl", s>>
             /\ At("SCPDURL", service(s)) = {5}
             /\ value("SCPDURL", service(s)[5][2]) = <<s, "xml">>
  BY <1>1 DEF At, service, value, Number
<1>4. ASSUME NEW px
      PROVE  /\ At("width", icon(px)) = {2} /\ value("width", icon(px)[2][2]) = atoi(px)
             /\ At("url", icon(px)) = {5} /\ value("url", icon(px)[5][2]) = <<"squawk", px>>
  BY <1>1 DEF At, icon, value, Number
<1> QED
  BY <1>2, <1>3, <1>4
-----------------------------------------------------------------------------
(***************************************************************************)
(* Init.                                                                   *)
(***************************************************************************)
LEMMA InvInit == Init => IInv
<1> SUFFICES ASSUME Init PROVE IInv
  OBVIOUS
<1>0. seen = <<>> /\ Len(seen) = 0 /\ DOMAIN seen = {} /\ seen \in Seq(Document)
  BY EmptySeq DEF Init
<1>1. HttpInv
  <2>1. /\ text = <<>> /\ name \in Name /\ ours \in BOOLEAN /\ cut = FALSE
        /\ current = FALSE /\ result = "none"
    BY DEF Init
  <2>2. 0 <= MaxParses
    BY DescriptionConstants
  <2> QED
    BY <1>0, <2>1, <2>2 DEF HttpInv
<1>2. DeviceInv
  <2>1. /\ device.images = <<>> /\ device.services = <<>>
        /\ DOMAIN device.members = Members /\ device.version = Version
    BY DEF Init, Device
  <2>2. Shape(device)
    BY DEF Init, Device, Shape, Fields
  <2>3. IsSeq(<<>>) /\ Len(<<>>) = 0
    BY EmptySeq DEF IsSeq
  <2>4. 0 <= MaxList * 0
    BY DescriptionConstants
  <2> QED
    BY <1>0, <2>1, <2>2, <2>3, <2>4 DEF DeviceInv
<1>4. OursInv
  <2>1. /\ device.images = <<>> /\ device.services = <<>>
        /\ text = <<>> /\ cut = FALSE /\ current = FALSE
        /\ device.members["presentationURL"] = ""
    BY DEF Init, Device, Members, TextMembers
  <2>2. 1..Len(<<>>) = {}
    OBVIOUS
  <2> QED
    BY <2>1, <2>2 DEF OursInv
<1>5. LatestValues
  <2>1. \A m \in Members : device.members[m] = ""
    BY DEF Init, Device
  <2>2. device.version = Version /\ device.images = <<>> /\ device.services = <<>>
    BY DEF Init, Device
  <2>3. \A which, object : Joined(<<>>, which, object, seen)
    <3> TAKE which, object
    <3> DEFINE end == [i \in 0..Len(seen) |-> 0]
    <3>1. end \in [0..Len(seen) -> 0..Len(<<>>)] /\ end[0] = 0 /\ end[Len(seen)] = Len(<<>>)
      BY <1>0
    <3> HIDE DEF end
    <3> QED
      BY <3>1, <1>0 DEF Joined
  <2> QED
    BY <1>0, <2>1, <2>2, <2>3 DEF LatestValues, IsLatest
<1> QED
  BY <1>1, <1>2, <1>4, <1>5 DEF IInv
-----------------------------------------------------------------------------
(***************************************************************************)
(* Parsing a document.                                                     *)
(***************************************************************************)
LEMMA Appending ==
    ASSUME NEW docs \in Seq(Document), NEW doc \in Document
    PROVE  LET n == Len(docs)
               more == Append(docs, doc)
           IN  /\ n \in Nat /\ DOMAIN docs = 1..n /\ DOMAIN more = 1..(n + 1)
               /\ Len(more) = n + 1 /\ more \in Seq(Document)
               /\ \A i \in 1..n : more[i] = docs[i]
               /\ more[n + 1] = doc
BY LenProperties

\* What is latest before stays so if the next document has no element for m,
\* and otherwise is what that element says.
LEMMA LatestStep ==
    ASSUME NEW docs \in Seq(Document), NEW doc \in Document,
           NEW m, NEW first, NEW v, NEW w, IsLatest(v, m, first, docs),
           IsUpdated(w, v, m, doc.elements)
    PROVE  IsLatest(w, m, first, Append(docs, doc))
<1> DEFINE n == Len(docs)
           more == Append(docs, doc)
           G == At(m, doc.elements)
<1>1. /\ n \in Nat /\ DOMAIN docs = 1..n /\ DOMAIN more = 1..(n + 1)
      /\ \A i \in 1..n : more[i] = docs[i]
      /\ more[n + 1] = doc
  BY Appending
<1>2. \A i \in 1..n : more[i].elements = docs[i].elements
  BY <1>1
<1>3. At(m, more[n + 1].elements) = G
  BY <1>1
<1>4. CASE G # {}
  <2>1. IsGiven(w, m, more[n + 1].elements)
    BY <1>1, <1>4 DEF IsUpdated
  <2> HIDE DEF n, G, more
  <2>2. n + 1 \in DOMAIN more /\ \A j \in DOMAIN more : ~(j > n + 1)
    BY <1>1
  <2> QED
    BY <2>1, <2>2 DEF IsLatest, more
<1>5. CASE G = {}
  <2>0. w = v
    BY <1>5 DEF IsUpdated
  <2> HIDE DEF n, G, more
  <2>1. CASE v = first /\ \A i \in DOMAIN docs : At(m, docs[i].elements) = {}
    <3>1. \A i \in DOMAIN more : At(m, more[i].elements) = {}
      <4> TAKE i \in DOMAIN more
      <4>1. CASE i = n + 1
        BY <4>1, <1>3, <1>5
      <4>2. CASE i \in 1..n
        BY <4>2, <1>1, <1>2, <2>1
      <4> QED
        BY <4>1, <4>2, <1>1
    <3> QED
      BY <3>1, <2>0, <2>1 DEF IsLatest, more
  <2>2. ASSUME NEW i \in DOMAIN docs, IsGiven(v, m, docs[i].elements),
               \A j \in DOMAIN docs : j > i => At(m, docs[j].elements) = {}
        PROVE  IsLatest(w, m, first, more)
    <3>1. i \in DOMAIN more /\ IsGiven(w, m, more[i].elements)
      BY <1>1, <1>2, <2>0, <2>2
    <3>2. ASSUME NEW j \in DOMAIN more, j > i PROVE At(m, more[j].elements) = {}
      <4>1. CASE j = n + 1
        BY <4>1, <1>3, <1>5
      <4>2. CASE j \in 1..n
        BY <4>2, <3>2, <1>1, <1>2, <2>2
      <4> QED
        BY <4>1, <4>2, <1>1
    <3> QED
      BY <3>1, <3>2 DEF IsLatest
  <2> QED
    BY <2>1, <2>2 DEF IsLatest, more
<1> QED
  BY <1>4, <1>5

\* The entries of the next document come after those of all before.
LEMMA JoinedStep ==
    ASSUME NEW docs \in Seq(Document), NEW doc \in Document,
           NEW object, NEW list, IsSeq(list), NEW which, IsSeq(doc[which]),
           \A k \in DOMAIN doc[which] : IsSeq(doc[which][k]),
           \A d \in Document : IsSeq(d[which]),
           Joined(list, which, object, docs)
    PROVE  Joined(list \o Entries(object, doc[which]), which, object, Append(docs, doc))
<1> DEFINE n == Len(docs)
           more == Append(docs, doc)
           new == doc[which]
           joined == list \o Entries(object, new)
<1>1. /\ n \in Nat /\ DOMAIN docs = 1..n /\ DOMAIN more = 1..(n + 1)
      /\ Len(more) = n + 1
      /\ \A i \in 1..n : more[i] = docs[i] /\ docs[i] \in Document
      /\ more[n + 1] = doc
  BY Appending, ElementOfSeq
<1>2. /\ Len(joined) = Len(list) + Len(new) /\ Len(list) \in Nat /\ Len(new) \in Nat
      /\ DOMAIN new = 1..Len(new)
      /\ \A i \in 1..Len(list) : joined[i] = list[i]
      /\ \A k \in 1..Len(new) : joined[Len(list) + k] = FOR(object, new[k])
  <2>1. Added(joined, object, list, new)
    BY AddEntries
  <2> HIDE DEF joined, new
  <2> QED
    BY <2>1 DEF Added
<1>3. PICK end \in [0..n -> 0..Len(list)] :
        /\ end[0] = 0 /\ end[n] = Len(list)
        /\ \A i \in DOMAIN docs :
               /\ end[i] = end[i - 1] + Len(docs[i][which])
               /\ HoldsEntries(list, end[i - 1], object, docs[i][which])
  BY DEF Joined, HoldsEntries
<1> DEFINE end2 == [i \in 0..(n + 1) |-> IF i <= n THEN end[i] ELSE Len(list) + Len(new)]
<1> HIDE DEF joined, new, n, more
<1>4. end2 \in [0..(n + 1) -> 0..Len(joined)]
  BY <1>1, <1>2, <1>3
<1>5. /\ end2[0] = 0 /\ end2[n + 1] = Len(joined) /\ end2[n] = Len(list)
      /\ \A i \in 0..n : end2[i] = end[i]
  BY <1>1, <1>2, <1>3
<1> HIDE DEF end2
<1>6. ASSUME NEW i \in 1..n
      PROVE  /\ end2[i] = end2[i - 1] + Len(more[i][which])
             /\ HoldsEntries(joined, end2[i - 1], object, more[i][which])
  <2>1. i \in 0..n /\ i - 1 \in 0..n /\ more[i] = docs[i] /\ IsSeq(docs[i][which])
    BY <1>1
  <2>2. end2[i] = end[i] /\ end2[i - 1] = end[i - 1]
    BY <2>1, <1>5
  <2>3. end[i] = end[i - 1] + Len(docs[i][which])
    BY <1>1, <1>3
  <2>4. ASSUME NEW k \in DOMAIN docs[i][which]
        PROVE  joined[end[i - 1] + k] = list[end[i - 1] + k]
    <3>1. k \in 1..Len(docs[i][which]) /\ Len(docs[i][which]) \in Nat
      BY <2>1, EntriesSeq
    <3>2. end[i] \in 0..Len(list) /\ end[i - 1] \in 0..Len(list)
      BY <2>1, <1>3
    <3>3. end[i - 1] + k \in 1..Len(list)
      <4> DEFINE a == end[i - 1]
                 b == end[i]
                 l == Len(list)
                 e == Len(docs[i][which])
      <4>1. a \in 0..l /\ b \in 0..l /\ b = a + e /\ k \in 1..e /\ l \in Nat /\ e \in Nat
        BY <3>1, <3>2, <2>3, <1>2
      <4> HIDE DEF a, b, l, e
      <4>2. a + k \in 1..l
        BY <4>1
      <4> QED
        BY <4>2 DEF a, l
    <3> QED
      BY <3>3, <1>2
  <2>5. HoldsEntries(list, end[i - 1], object, docs[i][which])
    BY <1>1, <1>3
  <2>6. HoldsEntries(joined, end[i - 1], object, docs[i][which])
    BY <2>4, <2>5 DEF HoldsEntries
  <2> QED
    BY <2>1, <2>2, <2>3, <2>6
<1>7. /\ end2[n + 1] = end2[n] + Len(more[n + 1][which])
      /\ HoldsEntries(joined, end2[n], object, more[n + 1][which])
  <2>1. more[n + 1][which] = new
    BY <1>1 DEF new
  <2>2. ASSUME NEW k \in DOMAIN new, NEW m \in DOMAIN object
        PROVE  IsUpdated(joined[Len(list) + k][m], object[m], m, new[k])
    <3>1. joined[Len(list) + k] = FOR(object, new[k]) /\ IsSeq(new[k])
      BY <1>2 DEF new
    <3> QED
      BY <3>1, ForProperties
  <2> QED
    BY <2>1, <2>2, <1>2, <1>5 DEF HoldsEntries
<1>8. ASSUME NEW i \in 1..(n + 1)
      PROVE  /\ end2[i] = end2[i - 1] + Len(more[i][which])
             /\ HoldsEntries(joined, end2[i - 1], object, more[i][which])
  <2>1. CASE i \in 1..n
    BY <2>1, <1>6
  <2>2. CASE i = n + 1
    <3>1. i - 1 = n
      BY <2>2, <1>1
    <3> QED
      BY <2>2, <3>1, <1>7
  <2> QED
    BY <2>1, <2>2, <1>1
<1>9. Joined(joined, which, object, more)
  <2>1. /\ end2 \in [0..Len(more) -> 0..Len(joined)]
        /\ end2[0] = 0 /\ end2[Len(more)] = Len(joined)
    BY <1>1, <1>4, <1>5
  <2>2. \A i \in DOMAIN more :
            /\ end2[i] = end2[i - 1] + Len(more[i][which])
            /\ HoldsEntries(joined, end2[i - 1], object, more[i][which])
    BY <1>1, <1>8
  <2> QED
    BY <2>1, <2>2, Zenon DEF Joined, HoldsEntries
<1> QED
  BY <1>9 DEF joined, more, new

\* The document that has been fetched.
LEMMA Fetched == HttpInv /\ text # <<>> => text[1] \in Document
BY DEF HttpInv

LEMMA ParseStep == ASSUME IInv, Parse PROVE IInv'
<1> DEFINE doc == text[1]
<1>1. /\ text # <<>> /\ doc \in Document /\ ~cut /\ Len(seen) < MaxParses
      /\ device' = parse(doc, device) /\ seen' = Append(seen, doc)
      /\ cut' = TRUE /\ result' = "ok"
      /\ UNCHANGED <<ours, name, text, current>>
  BY Fetched DEF IInv, Parse
<1>2. Shape(device') /\ Parsed(device', doc, device)
  <2>1. Shape(device)
    BY DEF IInv, DeviceInv
  <2>2. Shape(parse(doc, device)) /\ Parsed(parse(doc, device), doc, device)
    BY <2>1, ParseProperties
  <2> QED
    BY <1>1, <2>2
<1>3. /\ seen \in Seq(Document) /\ seen' \in Seq(Document) /\ Len(seen) \in Nat
      /\ Len(seen') = Len(seen) + 1
  BY <1>1, Appending DEF IInv, HttpInv
<1> HIDE DEF doc
<1>4. HttpInv'
  <2>1. MaxParses \in Nat
    BY DescriptionConstants
  <2>2. Len(seen') <= MaxParses
    BY <1>1, <1>3, <2>1
  <2> QED
    BY <1>1, <1>3, <2>2 DEF IInv, HttpInv
<1>5. /\ IsSeq(device.images) /\ IsSeq(device.services) /\ IsSeq(doc.elements)
      /\ IsSeq(doc.iconList) /\ Len(doc.iconList) <= MaxList
      /\ IsSeq(doc.serviceList) /\ Len(doc.serviceList) <= MaxList
  BY <1>1, DocumentLists DEF IInv, DeviceInv, Wellformed
<1>6. Added(device'.images, Icon, device.images, doc.iconList)
  BY <1>2, <1>5, AddEntries DEF Parsed
<1>7. Added(device'.services, Service, device.services, doc.serviceList)
  BY <1>2, <1>5, AddEntries DEF Parsed
<1>8. DeviceInv'
  <2>1. DOMAIN device'.members = Members /\ DOMAIN device'.version = DOMAIN Version
    BY <1>2, <1>5, ForProperties DEF IInv, DeviceInv, Parsed
  <2>2. /\ MaxList \in Nat
        /\ MaxList * Len(seen') = MaxList * Len(seen) + MaxList
        /\ MaxList * Len(seen) \in Nat
    <3>1. MaxList \in Nat
      BY DescriptionConstants
    <3> QED
      BY <3>1, <1>3
  <2>3. /\ Len(device.images) <= MaxList * Len(seen)
        /\ Len(device.services) <= MaxList * Len(seen)
    BY DEF IInv, DeviceInv
  <2> DEFINE b == MaxList * Len(seen)
             c == MaxList * Len(seen')
  <2>4. /\ b \in Nat /\ c = b + MaxList
        /\ Len(device.images) <= b /\ Len(device.services) <= b
    BY <2>2, <2>3
  <2> HIDE DEF b, c
  <2>5. Len(device'.images) <= c /\ Len(device'.services) <= c
    <3>1. \A x, y, z : x \in Nat /\ y \in Nat /\ x <= b /\ y <= MaxList /\ z = x + y
                      => z <= c
      BY <2>2, <2>4
    <3> QED
      BY <3>1, <1>5, <1>6, <1>7, <2>4 DEF Added
  <2> QED
    BY <1>2, <1>6, <1>7, <2>1, <2>5 DEF IInv, DeviceInv, Parsed, Added, c
<1>10. OursInv'
  <2> SUFFICES ASSUME ours PROVE OursInv'
    BY <1>1 DEF OursInv
  <2>1. /\ \E n \in Name : doc = description(n)
        /\ current => text = <<description(name)>>
        /\ \A i \in 1..Len(device.services) :
               \E s \in {"cds", "cms"} : device.services[i] = FOR(Service, service(s))
        /\ \A i \in 1..Len(device.images) :
               \E px \in {"48", "64", "128"} : device.images[i] = FOR(Icon, icon(px))
    BY <1>1 DEF IInv, OursInv, doc
  <2>2. PICK n \in Name : doc = description(n)
    BY <2>1
  <2>6. device'.members["friendlyName"] = n /\ device'.members["presentationURL"] = "/"
    <3>1. \A m \in {"friendlyName", "presentationURL"} : m \in DOMAIN device.members
      BY DEF IInv, DeviceInv, Members, TextMembers
    <3>2. /\ device'.members = FOR(device.members, doc.elements)
          /\ At("friendlyName", doc.elements) = {4}
          /\ value("friendlyName", doc.elements[4][2]) = n
          /\ At("presentationURL", doc.elements) = {14}
          /\ value("presentationURL", doc.elements[14][2]) = "/"
      BY <2>2, <1>2, OurElements DEF Parsed
    <3> QED
      BY <3>1, <3>2, <1>5, ForSets
  <2>3. ASSUME NEW i \in 1..Len(device'.services)
        PROVE  \E s \in {"cds", "cms"} : device'.services[i] = FOR(Service, service(s))
    <3>1. CASE i \in 1..Len(device.services)
      BY <3>1, <2>1, <1>7 DEF Added
    <3>2. ASSUME i = Len(device.services) + (i - Len(device.services)),
                 i - Len(device.services) \in 1..Len(doc.serviceList)
          PROVE  \E s \in {"cds", "cms"} : device'.services[i] = FOR(Service, service(s))
      <4> DEFINE k == i - Len(device.services)
      <4>1. doc.serviceList = <<service("cds"), service("cms")>>
        BY <2>1 DEF description
      <4>2. k \in 1..2 /\ doc.serviceList[k] \in {service("cds"), service("cms")}
        BY <3>2, <4>1
      <4>3. device'.services[i] = FOR(Service, doc.serviceList[k])
        BY <3>2, <1>7 DEF Added
      <4> QED
        BY <4>2, <4>3
    <3>3. \/ i \in 1..Len(device.services)
          \/ /\ i = Len(device.services) + (i - Len(device.services))
             /\ i - Len(device.services) \in 1..Len(doc.serviceList)
      <4> DEFINE a == Len(device.services) b == Len(doc.serviceList)
      <4>1. a \in Nat /\ b \in Nat /\ i \in 1..(a + b)
        BY <1>7 DEF Added
      <4> HIDE DEF a, b
      <4>2. i \in 1..a \/ (i = a + (i - a) /\ i - a \in 1..b)
        BY <4>1
      <4> QED
        BY <4>2 DEF a, b
    <3> QED
      BY <3>1, <3>2, <3>3
  <2>4. ASSUME NEW i \in 1..Len(device'.images)
        PROVE  \E px \in {"48", "64", "128"} : device'.images[i] = FOR(Icon, icon(px))
    <3>1. CASE i \in 1..Len(device.images)
      BY <3>1, <2>1, <1>6 DEF Added
    <3>2. ASSUME i = Len(device.images) + (i - Len(device.images)),
                 i - Len(device.images) \in 1..Len(doc.iconList)
          PROVE  \E px \in {"48", "64", "128"} : device'.images[i] = FOR(Icon, icon(px))
      <4> DEFINE k == i - Len(device.images)
      <4>1. doc.iconList = <<icon("48"), icon("64"), icon("128")>>
        BY <2>1 DEF description
      <4>2. k \in 1..3 /\ doc.iconList[k] \in {icon("48"), icon("64"), icon("128")}
        BY <3>2, <4>1
      <4>3. device'.images[i] = FOR(Icon, doc.iconList[k])
        BY <3>2, <1>6 DEF Added
      <4> QED
        BY <4>2, <4>3
    <3>3. \/ i \in 1..Len(device.images)
          \/ /\ i = Len(device.images) + (i - Len(device.images))
             /\ i - Len(device.images) \in 1..Len(doc.iconList)
      <4> DEFINE a == Len(device.images) b == Len(doc.iconList)
      <4>1. a \in Nat /\ b \in Nat /\ i \in 1..(a + b)
        BY <1>6 DEF Added
      <4> HIDE DEF a, b
      <4>2. i \in 1..a \/ (i = a + (i - a) /\ i - a \in 1..b)
        BY <4>1
      <4> QED
        BY <4>2 DEF a, b
    <3> QED
      BY <3>1, <3>2, <3>3
  <2>5. text' # <<>> /\ text'[1] = doc
    BY <1>1 DEF doc
  <2> QED
    BY <1>1, <2>1, <2>2, <2>3, <2>4, <2>5, <2>6 DEF OursInv
<1>11. LatestValues'
  <2>1. \A m \in Members : IsLatest(device'.members[m], m, "", seen')
    <3> TAKE m \in Members
    <3>1. IsLatest(device.members[m], m, "", seen) /\ m \in DOMAIN device.members
      BY DEF IInv, LatestValues, DeviceInv
    <3>2. IsUpdated(device'.members[m], device.members[m], m, doc.elements)
      BY <3>1, <1>2, <1>5, ForProperties DEF Parsed
    <3> QED
      BY <3>1, <3>2, <1>1, <1>3, LatestStep
  <2>2. \A v \in DOMAIN Version : IsLatest(device'.version[v], v, Version[v], seen')
    <3> TAKE v \in DOMAIN Version
    <3>1. IsLatest(device.version[v], v, Version[v], seen) /\ v \in DOMAIN device.version
      BY DEF IInv, LatestValues, DeviceInv
    <3>2. IsUpdated(device'.version[v], device.version[v], v, doc.elements)
      BY <3>1, <1>2, <1>5, ForProperties DEF Parsed
    <3> QED
      BY <3>1, <3>2, <1>1, <1>3, LatestStep
  <2>3. /\ \A d \in Document : IsSeq(d["iconList"]) /\ IsSeq(d["serviceList"])
        /\ \A k \in DOMAIN doc["iconList"] : IsSeq(doc["iconList"][k])
        /\ \A k \in DOMAIN doc["serviceList"] : IsSeq(doc["serviceList"][k])
    BY <1>1, DocumentLists DEF Wellformed
  <2>4. Joined(device'.images, "iconList", Icon, seen')
    <3>1. Joined(device.images, "iconList", Icon, seen)
      BY DEF IInv, LatestValues
    <3> QED
      BY <3>1, <2>3, <1>1, <1>2, <1>3, <1>5, JoinedStep DEF Parsed
  <2>5. Joined(device'.services, "serviceList", Service, seen')
    <3>1. Joined(device.services, "serviceList", Service, seen)
      BY DEF IInv, LatestValues
    <3> QED
      BY <3>1, <2>3, <1>1, <1>2, <1>3, <1>5, JoinedStep DEF Parsed
  <2> QED
    BY <2>1, <2>2, <2>4, <2>5 DEF LatestValues
<1> QED
  BY <1>4, <1>8, <1>10, <1>11 DEF IInv
-----------------------------------------------------------------------------
(***************************************************************************)
(* The other steps.                                                        *)
(***************************************************************************)
\* Restarts, fetches and errors leave the Device alone.
LEMMA HttpStep ==
    ASSUME IInv, HttpInv', OursInv', UNCHANGED <<device, seen>>
    PROVE  IInv'
<1>1. DeviceInv' /\ LatestValues'
  BY DEF IInv, DeviceInv, LatestValues
<1> QED
  BY <1>1 DEF IInv

LEMMA RestartStep == ASSUME IInv, NEW n \in Name, Restart(n) PROVE IInv'
<1>1. /\ name' = n /\ current' = FALSE
      /\ UNCHANGED <<ours, text, cut, device, result, seen>>
  BY DEF Restart
<1>2. HttpInv' /\ OursInv'
  BY <1>1 DEF IInv, HttpInv, OursInv
<1> QED
  BY <1>1, <1>2, HttpStep

LEMMA FetchStep == ASSUME IInv, Fetch PROVE IInv'
<1>1. PICK d \in IF ours THEN {description(name)} ELSE Other : text' = <<d>>
  BY DEF Fetch
<1>2. /\ cut' = FALSE /\ current' = TRUE
      /\ UNCHANGED <<ours, name, device, result, seen>>
  BY DEF Fetch
<1>3. HttpInv'
  <2>1. name \in Name /\ d \in Document
    BY <1>1 DEF IInv, HttpInv, Document
  <2> QED
    BY <1>1, <1>2, <2>1 DEF IInv, HttpInv
<1>4. OursInv'
  BY <1>1, <1>2 DEF IInv, HttpInv, OursInv
<1> QED
  BY <1>2, <1>3, <1>4, HttpStep

LEMMA ParseAgainStep == ASSUME IInv, ParseAgain PROVE IInv'
<1>1. /\ result' = "error"
      /\ UNCHANGED <<ours, name, text, cut, device, current, seen>>
  BY DEF ParseAgain
<1>2. HttpInv' /\ OursInv'
  BY <1>1 DEF IInv, HttpInv, OursInv
<1> QED
  BY <1>1, <1>2, HttpStep

LEMMA InvStep == IInv /\ [Next]_vars => IInv'
<1> SUFFICES ASSUME IInv, [Next]_vars PROVE IInv'
  OBVIOUS
<1>1. ASSUME NEW n \in Name, Restart(n) PROVE IInv'
  BY <1>1, RestartStep
<1>2. CASE Fetch \/ Parse \/ ParseAgain
  BY <1>2, FetchStep, ParseStep, ParseAgainStep
<1>5. CASE UNCHANGED vars
  <2>1. HttpInv' /\ OursInv' /\ UNCHANGED <<device, seen>>
    BY <1>5 DEF IInv, HttpInv, OursInv, vars
  <2> QED
    BY <2>1, HttpStep
<1> QED
  BY <1>1, <1>2, <1>5 DEF Next

LEMMA Invariance == Spec => []IInv
BY InvInit, InvStep, PTL DEF Spec
-----------------------------------------------------------------------------
\* The Device and the document at hand are well-formed; the lists
\* of the Device have no more entries than the documents parsed.
THEOREM TypeCorrect == Spec => []TypeOK
<1>1. IInv => TypeOK
  BY DEF IInv, HttpInv, DeviceInv, TypeOK
<1> QED
  BY <1>1, Invariance, PTL

\* Whatever documents are parsed into a Device, its members are those of the
\* last document that had them, its lists the lists of all of them in order.
THEOREM LastDocumentWins == Spec => []LatestValues
<1>1. IInv => LatestValues
  BY DEF IInv
<1> QED
  BY <1>1, Invariance, PTL

\* Over any number of restarts of the server and of parses, each URL of its
\* services leads to that service's handlers and each icon's to an image as
\* wide as described, but for the 128 pixel icon and the presentation page,
\* which do not.
THEOREM Routed == Spec => []UrlsRouted
<1> DEFINE Fine(u) == handler(u[1]) # u[2] <=> u[1] \in Unserved
<1>1. ASSUME NEW s \in {"cds", "cms"}
      PROVE  LET f == FOR(Service, service(s))
             IN  /\ f.serviceId[2] = s
                 /\ f.controlURL = <<"ctl", s>> /\ f.eventSubURL = <<"ctl", s>>
                 /\ f.SCPDURL = <<s, "xml">>
  <2>1. \A m \in {"serviceId", "controlURL", "eventSubURL", "SCPDURL"} : m \in DOMAIN Service
    BY DEF Service
  <2>2. IsSeq(service(s))
    BY OursSeq, Zenon DEF IsSeq
  <2> QED
    BY <2>1, <2>2, ForSets, OurElements
<1>2. ASSUME NEW px \in {"48", "64", "128"}
      PROVE  LET f == FOR(Icon, icon(px))
             IN  f.url = <<"squawk", px>> /\ f.width = atoi(px)
  <2>1. "url" \in DOMAIN Icon /\ "width" \in DOMAIN Icon
    BY DEF Icon
  <2>2. IsSeq(icon(px))
    BY OursSeq, Zenon DEF IsSeq
  <2> QED
    BY <2>1, <2>2, ForSets, OurElements
<1>3. /\ \A s \in {"cds", "cms"} : /\ Fine(<< <<"ctl", s>>, <<"control", s>> >>)
                                  /\ Fine(<< <<s, "xml">>, <<"scpd", s>> >>)
      /\ \A px \in {"48", "64", "128"} :
             Fine(<< <<"squawk", px>>, <<"png", atoi(px)>> >>)
      /\ Fine(<< <<"/">>, <<"page">> >>)
  <2>1. ASSUME NEW s \in {"cds", "cms"}
        PROVE  /\ Fine(<< <<"ctl", s>>, <<"control", s>> >>)
               /\ Fine(<< <<s, "xml">>, <<"scpd", s>> >>)
    <3>1. handler(<<"ctl", s>>) = <<"control", s>> /\ handler(<<s, "xml">>) = <<"scpd", s>>
      BY DEF handler
    <3>2. <<"ctl", s>> \notin Unserved /\ <<s, "xml">> \notin Unserved
      BY DEF Unserved
    <3> QED
      BY <3>1, <3>2
  <2>2. \A px \in {"48", "64"} : Fine(<< <<"squawk", px>>, <<"png", atoi(px)>> >>)
    BY DEF handler, Unserved
  <2>3. Fine(<< <<"squawk", "128">>, <<"png", atoi("128")>> >>)
    <3>1. atoi("128") = 128
      BY Numerals
    <3>2. handler(<<"squawk", "128">>) = <<"png", 16>>
      BY DEF handler
    <3> QED
      BY <3>1, <3>2 DEF Unserved
  <2>4. Fine(<< <<"/">>, <<"page">> >>)
    <3>1. handler(<<"/">>) = <<"none">>
      BY DEF handler
    <3> QED
      BY <3>1 DEF Unserved
  <2> QED
    BY <2>1, <2>2, <2>3, <2>4
<1>4. IInv => UrlsRouted
  <2> SUFFICES ASSUME IInv, ours, NEW u \in Purpose(device) PROVE Fine(u)
    BY DEF UrlsRouted
  <2>1. /\ DOMAIN device.services = 1..Len(device.services)
        /\ DOMAIN device.images = 1..Len(device.images)
    BY EntriesSeq DEF IInv, DeviceInv
  <2>2. /\ \A f \in Range(device.services) :
               \E s \in {"cds", "cms"} : f = FOR(Service, service(s))
        /\ \A f \in Range(device.images) :
               \E px \in {"48", "64", "128"} : f = FOR(Icon, icon(px))
        /\ device.members["presentationURL"] \in {"", "/"}
    BY <2>1 DEF IInv, OursInv, Range
  <2>3. CASE \E f \in Range(device.services) :
               \/ u = <<f.controlURL, <<"control", f.serviceId[2]>> >>
               \/ u = <<f.eventSubURL, <<"control", f.serviceId[2]>> >>
               \/ u = <<f.SCPDURL, <<"scpd", f.serviceId[2]>> >>
    <3> HIDE DEF Fine
    <3>1. PICK s \in {"cds", "cms"} :
            LET f == FOR(Service, service(s))
            IN  \/ u = <<f.controlURL, <<"control", f.serviceId[2]>> >>
                \/ u = <<f.eventSubURL, <<"control", f.serviceId[2]>> >>
                \/ u = <<f.SCPDURL, <<"scpd", f.serviceId[2]>> >>
      BY <2>2, <2>3
    <3>2. u = << <<"ctl", s>>, <<"control", s>> >> \/ u = << <<s, "xml">>, <<"scpd", s>> >>
      BY <1>1, <3>1
    <3> QED
      BY <1>3, <3>2
  <2>4. CASE \E f \in Range(device.images) : u = <<f.url, <<"png", f.width>> >>
    <3> HIDE DEF Fine
    <3> QED
      BY <1>2, <1>3, <2>2, <2>4
  <2>5. CASE u = << <<"/">>, <<"page">> >>
    BY <1>3, <2>5
  <2>6. \/ \E f \in Range(device.services) :
               \/ u = <<f.controlURL, <<"control", f.serviceId[2]>> >>
               \/ u = <<f.eventSubURL, <<"control", f.serviceId[2]>> >>
               \/ u = <<f.SCPDURL, <<"scpd", f.serviceId[2]>> >>
        \/ \E f \in Range(device.images) : u = <<f.url, <<"png", f.width>> >>
        \/ u = << <<"/">>, <<"page">> >>
    BY <2>2, Zenon DEF Purpose
  <2> QED
    BY <2>3, <2>4, <2>5, <2>6
<1> QED
  BY <1>4, Invariance, PTL

\* A control point that parsed what it fetched after the last restart shows
\* the server's name.
THEOREM NameShown == Spec => []NameCurrent
<1>1. IInv => NameCurrent
  <2> SUFFICES ASSUME IInv, ours, current, cut
               PROVE  device.members["friendlyName"] = name
    BY DEF NameCurrent
  <2>1. PICK n \in Name : /\ text[1] = description(n)
                          /\ device.members["friendlyName"] = n
    BY DEF IInv, OursInv
  <2>2. text[1] = description(name)
    <3>1. text = <<description(name)>>
      BY DEF IInv, OursInv
    <3> HIDE DEF description
    <3> QED
      BY <3>1
  <2>3. \A k : description(k).elements[4][2] = k
    BY DEF description
  <2> QED
    BY <2>1, <2>2, <2>3
<1> QED
  BY <1>1, Invariance, PTL
=============================================================================
