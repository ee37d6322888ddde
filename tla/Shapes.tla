------------------------------- MODULE Shapes -------------------------------
(* How the generated models turn an object into JSON and JSON into an      *)
(* object: the Greengrass IPC shapes (SerializeToJsonObject and            *)
(* s_loadFromJsonView) and the MQTT service shapes (SerializeToObject and  *)
(* LoadFromObject).  A shape lists its members and their kinds.            *)
(*                                                                         *)
(* An object is [members |-> the optional members that have a value,       *)
(* chosen |-> the tag of a union].  A JSON object is a function from the   *)
(* members present to typed JSON values.  An object within an object is a  *)
(* value here: it is converted by its own shape.                           *)
EXTENDS Integers, Sequences

None == "none"

(* The enumerator -1 that a marshaller returns for a string it does not    *)
(* know, and the string it makes of that enumerator.                       *)
Unrecognised == "enumerator -1"
UnknownValue == "UNKNOWN_VALUE"

(***************************************************************************)
(* Kinds of members.  An Enum is kept as its wire string and compared when *)
(* it is read; a Marshalled enumeration is converted when it is loaded.    *)
(* An empty Blob is not written, an empty Bytes is.                        *)
(***************************************************************************)
Scalar(kind, json) == [kind |-> kind, json |-> json]
Str == Scalar("string", "string")
Int32 == Scalar("int", "number")
Int64 == Scalar("int", "number")
Double == Scalar("double", "number")
Timestamp == Scalar("milliseconds", "number")
Bool == Scalar("bool", "bool")
Document == Scalar("document", "object")
Nested(name) == Scalar("object", "object")
Blob == Scalar("blob", "string")
Bytes == Scalar("bytes", "string")
Enum(wire) == [kind |-> "enum", json |-> "string", wire |-> wire]
Marshalled(wire) == [kind |-> "marshalled", json |-> "string", wire |-> wire]
ListOf(item) == [kind |-> "list", json |-> "array", item |-> item]
MapOf(item) == [kind |-> "map", json |-> "object", item |-> item]
MarshalledMapOf(wire, item) ==
    [kind |-> "marshalledMap", json |-> "object", item |-> item, wire |-> wire]

NoMembers == << >>
Structure(name, members) == [name |-> name, members |-> members, order |-> << >>]
Union(name, order, members) == [name |-> name, members |-> members, order |-> order]
IsUnion(s) == s.order # << >>

(***************************************************************************)
(* One value to JSON and back.                                             *)
(***************************************************************************)
Json(kind, v) == [json |-> kind.json, of |-> v]

\* ToString and FromString of an enumeration's marshaller.  Both end in assert(0)
\* for what they do not know, and these are their values with NDEBUG; without it see
\* FailsAssertion.  The code compares hashes, and no unknown string has a known one.
ToString(v) == IF v = Unrecognised THEN UnknownValue ELSE v
FromStringFirst(wire, str) ==  \* mutant: an unknown string is some enumerator
    IF str \in wire THEN str ELSE CHOOSE e \in wire : TRUE
FromString(wire, str) == IF str \in wire THEN str ELSE Unrecognised

\* a map whose keys are enumerators: emplace keeps the first of equal keys
KeysToJson(v) == [k \in {ToString(e) : e \in DOMAIN v} |->
                     v[CHOOSE e \in DOMAIN v : ToString(e) = k]]
KeysFromJson(wire, j) == [e \in {FromString(wire, k) : k \in DOMAIN j} |->
                             j[CHOOSE k \in DOMAIN j : FromString(wire, k) = e]]

ItemsToJson(item, v) == [i \in DOMAIN v |-> Json(item, v[i])]
ItemsFromJson(j) == [i \in DOMAIN j |-> j[i].of]

ToJson(kind, v) ==
    Json(kind, CASE kind.kind = "marshalled" -> ToString(v)
                 [] kind.kind \in {"list", "map"} -> ItemsToJson(kind.item, v)
                 [] kind.kind = "marshalledMap" -> KeysToJson(ItemsToJson(kind.item, v))
                 [] OTHER -> v)

FromJson(kind, j) ==
    CASE kind.kind = "marshalled" -> FromString(kind.wire, j.of)
      [] kind.kind \in {"list", "map"} -> ItemsFromJson(j.of)
      [] kind.kind = "marshalledMap" -> KeysFromJson(kind.wire, ItemsFromJson(j.of))
      [] OTHER -> j.of

\* the size() > 0 around a blob on both sides
Empty(kind, v) == kind.kind = "blob" /\ v = << >>

(***************************************************************************)
(* Objects.                                                                *)
(***************************************************************************)
\* A constructor leaves the tag of a union uninitialised: any enumerator of
\* ChosenMember, or a value that is none of them.
New(s) == [members : {NoMembers},
           chosen : {None} \cup {s.order[i] : i \in DOMAIN s.order}]

Without(f, m) == [x \in DOMAIN f \ {m} |-> f[x]]
With(f, m, v) == [x \in DOMAIN f \cup {m} |-> IF x = m THEN v ELSE f[x]]

\* The setter of a member; that of a union's member chooses it.
Set(s, o, m, v) ==
    [members |-> With(o.members, m, v),
     chosen |-> IF IsUnion(s) THEN m ELSE o.chosen]

\* A getter: nothing or the one value.
Get(s, o, m) ==
    IF m \in DOMAIN o.members /\ (IsUnion(s) => o.chosen = m) THEN {o.members[m]} ELSE {}

\* The getter of an Enum answers only with an enumerator.
GetEnum(s, o, m) == Get(s, o, m) \cap s.members[m].wire

\* operator= : memberwise for a structure; a union copies the member its
\* source has chosen, set or not, and nothing when the tag is no member's.
Assign(s, o, source) ==
    IF ~IsUnion(s) THEN source
    ELSE IF source.chosen = None THEN o
    ELSE LET m == source.chosen
         IN  [members |-> IF m \in DOMAIN source.members
                          THEN With(o.members, m, source.members[m])
                          ELSE Without(o.members, m),
              chosen |-> m]

SentAll(s, o) == DOMAIN o.members  \* mutant: a union writes every member ever set
\* The members serialisation looks at: for a union the chosen one, if it is set.
Sent(s, o) == IF IsUnion(s) THEN {o.chosen} \cap DOMAIN o.members ELSE DOMAIN o.members

SerializeToJsonObject(s, o) ==
    [m \in {m \in Sent(s, o) : ~Empty(s.members[m], o.members[m])} |->
        ToJson(s.members[m], o.members[m])]

\* The member of a union that loading chooses: the first one present.
FirstPresent(s, json) ==
    LET present == {i \in DOMAIN s.order : s.order[i] \in DOMAIN json}
    IN  IF present = {} THEN {}
        ELSE {s.order[CHOOSE i \in present : \A j \in present : i <= j]}

Looked(s, json) ==
    IF IsUnion(s) THEN FirstPresent(s, json) ELSE DOMAIN s.members \cap DOMAIN json

\* the strings of an enumeration that FromString has a branch for
Known(kind, j) ==
    CASE kind.kind = "marshalled" -> j.of \in kind.wire
      [] kind.kind = "marshalledMap" -> DOMAIN j.of \subseteq kind.wire
      [] OTHER -> TRUE

\* Loading gets to the assert(0) of FromString.
FailsAssertion(s, json) == \E m \in Looked(s, json) : ~Known(s.members[m], json[m])

\* s_loadFromJsonView into the new object o.
Load(s, o, json) ==
    [members |-> [m \in {m \in Looked(s, json) : ~Empty(s.members[m], json[m].of)} |->
                     FromJson(s.members[m], json[m])],
     chosen |-> IF IsUnion(s) /\ Looked(s, json) # {}
                THEN CHOOSE m \in Looked(s, json) : TRUE ELSE o.chosen]
=============================================================================
