----------------------- MODULE ShapeConversionProofs -----------------------
(***************************************************************************)
(* Theorems about ShapeConversion for any shapes that satisfy              *)
(* ShapesAssumption: what was sent arrives, what was loaded is sent on.    *)
(* The lemmas about the conversions hold of any value of a kind, lists and *)
(* maps of any size included.                                              *)
(***************************************************************************)
EXTENDS ShapeConversion, WellFoundedInduction, TLAPS

-----------------------------------------------------------------------------
(* The inductive invariant.                                                *)

IsFunction(f) == f = [x \in DOMAIN f |-> f[x]]
Collection(kind) == kind.kind \in {"list", "map", "marshalledMap"}

(* What a member of this kind may hold, and what JSON may say of it.       *)
Sendable(kind, v) ==
    /\ kind.kind \in {"enum", "marshalled"} => v \in kind.wire
    /\ Collection(kind) => IsFunction(v)
    /\ kind.kind = "marshalledMap" => DOMAIN v \subseteq kind.wire
Readable(kind, j) ==
    /\ j = Json(kind, j.of)
    /\ Collection(kind) =>
          /\ IsFunction(j.of)
          /\ \A i \in DOMAIN j.of : j.of[i] = Json(kind.item, j.of[i].of)

(* Every value an object holds is one of its member's kind.                *)
Holds(s, o) ==
    /\ \A m \in DOMAIN o.members :
          m \in DOMAIN s.members /\ Sendable(s.members[m], o.members[m])
    /\ o.chosen \in {None} \cup DOMAIN s.members

(* What the code keeps of an object is what the application knows: all of  *)
(* a structure, the chosen member of a union, whatever is left of others.  *)
Remembers(s, o, known) ==
    IF ~known.specified THEN IsUnion(s) /\ known.members = NoMembers
    ELSE IF ~IsUnion(s) THEN known.members = o.members
    ELSE \/ known.members = NoMembers /\ o.members = NoMembers
         \/ /\ o.chosen \in DOMAIN o.members
            /\ known.members = With(NoMembers, o.chosen, o.members[o.chosen])

ObjectsInv ==
    /\ DOMAIN objects = Objects /\ DOMAIN latest = Objects
    /\ \A o \in Objects : Holds(shape, objects[o]) /\ Remembers(shape, objects[o], latest[o])

(* The payload says of each member what its kind may say; one that was     *)
(* sent is what one of the objects is written as.                          *)
WireInv ==
    /\ \A m \in DOMAIN wire :
          m \in DOMAIN shape.members /\ Readable(shape.members[m], wire[m])
    /\ phase = "building" => wire = NoMembers
    /\ phase \in {"building", "peer"} => ~sent.specified
    /\ phase = "sent" => \E o \in Objects :
          wire = SerializeToJsonObject(shape, objects[o]) /\ sent = latest[o]

ShapeInv ==
    /\ shape \in ModelShapes
    /\ asserts \in BOOLEAN
    /\ phase \in {"building", "peer", "sent", "loaded", "aborted"}
    /\ ObjectsInv /\ WireInv
    /\ phase # "loaded" => received.members = NoMembers
    /\ SentAsBuilt /\ LoadedAsSaid
-----------------------------------------------------------------------------
(* One value to JSON and back.                                             *)

LEMMA NothingIsEmpty == DOMAIN NoMembers = {}
BY DEF NoMembers

LEMMA EmptyIsNoMembers == ASSUME NEW f, IsFunction(f), DOMAIN f = {} PROVE f = NoMembers
BY DEF IsFunction, NoMembers

LEMMA JsonFields == \A kind, v : Json(kind, v).of = v /\ Json(kind, v) = Json(kind, Json(kind, v).of)
BY DEF Json

(* Lists and maps of any size.                                             *)
LEMMA ItemsThere ==
    ASSUME NEW item, NEW v
    PROVE  /\ IsFunction(ItemsToJson(item, v))
           /\ DOMAIN ItemsToJson(item, v) = DOMAIN v
           /\ \A i \in DOMAIN v : ItemsToJson(item, v)[i] = Json(item, v[i])
BY DEF ItemsToJson, IsFunction

LEMMA ItemsBack ==
    ASSUME NEW j
    PROVE  /\ IsFunction(ItemsFromJson(j))
           /\ DOMAIN ItemsFromJson(j) = DOMAIN j
           /\ \A i \in DOMAIN j : ItemsFromJson(j)[i] = j[i].of
BY DEF ItemsFromJson, IsFunction

LEMMA ItemsThereAndBack ==
    ASSUME NEW item, NEW v, IsFunction(v)
    PROVE  ItemsFromJson(ItemsToJson(item, v)) = v
BY JsonFields DEF ItemsFromJson, ItemsToJson, IsFunction

LEMMA ItemsBackAndThere ==
    ASSUME NEW item, NEW j, IsFunction(j), \A i \in DOMAIN j : j[i] = Json(item, j[i].of)
    PROVE  ItemsToJson(item, ItemsFromJson(j)) = j
BY DEF ItemsFromJson, ItemsToJson, IsFunction

(* A marshaller's strings.                                                 *)
LEMMA KnownString ==
    ASSUME NEW strings, strings \cap {Unrecognised, UnknownValue} = {}, NEW e \in strings
    PROVE  /\ ToString(e) = e /\ FromString(strings, e) = e
           /\ \A x \in strings \cup {Unrecognised} : ToString(x) = e <=> x = e
           /\ \A x : FromString(strings, x) = e <=> x = e
BY DEF ToString, FromString, Unrecognised, UnknownValue

(* A map whose keys are a marshaller's: those it knows keep their entries, *)
(* also beside one it does not know.                                       *)
LEMMA KeysThere ==
    ASSUME NEW strings, strings \cap {Unrecognised, UnknownValue} = {},
           NEW v, DOMAIN v \subseteq strings \cup {Unrecognised},
           NEW k \in DOMAIN v \cap strings
    PROVE  k \in DOMAIN KeysToJson(v) /\ KeysToJson(v)[k] = v[k]
<1>1. \A e \in DOMAIN v : ToString(e) = k <=> e = k
  BY KnownString
<1>2. k \in {ToString(e) : e \in DOMAIN v}
  BY <1>1
<1>3. (CHOOSE e \in DOMAIN v : ToString(e) = k) = k
  BY <1>1
<1> QED
  BY <1>2, <1>3 DEF KeysToJson

LEMMA KeysBack ==
    ASSUME NEW strings, strings \cap {Unrecognised, UnknownValue} = {}, NEW j
    PROVE  /\ DOMAIN KeysFromJson(strings, j) \subseteq strings \cup {Unrecognised}
           /\ \A k \in DOMAIN j \cap strings :
                 k \in DOMAIN KeysFromJson(strings, j) /\ KeysFromJson(strings, j)[k] = j[k]
<1>1. DOMAIN KeysFromJson(strings, j) \subseteq strings \cup {Unrecognised}
  BY DEF KeysFromJson, FromString
<1>2. ASSUME NEW k \in DOMAIN j \cap strings
      PROVE  k \in DOMAIN KeysFromJson(strings, j) /\ KeysFromJson(strings, j)[k] = j[k]
  <2>1. \A x \in DOMAIN j : FromString(strings, x) = k <=> x = k
    BY KnownString
  <2>2. k \in {FromString(strings, x) : x \in DOMAIN j}
    BY <2>1
  <2>3. (CHOOSE x \in DOMAIN j : FromString(strings, x) = k) = k
    BY <2>1
  <2> QED
    BY <2>2, <2>3 DEF KeysFromJson
<1> QED
  BY <1>1, <1>2

LEMMA KnownKeys ==
    ASSUME NEW strings, strings \cap {Unrecognised, UnknownValue} = {},
           NEW v, IsFunction(v), DOMAIN v \subseteq strings
    PROVE  KeysToJson(v) = v /\ KeysFromJson(strings, v) = v
<1>1. \A e \in DOMAIN v : ToString(e) = e /\ FromString(strings, e) = e
  BY KnownString
<1>2. DOMAIN KeysToJson(v) = DOMAIN v
  <2>1. {ToString(e) : e \in DOMAIN v} = DOMAIN v
    BY <1>1
  <2> QED
    BY <2>1 DEF KeysToJson
<1>3. DOMAIN KeysFromJson(strings, v) = DOMAIN v
  <2>1. {FromString(strings, k) : k \in DOMAIN v} = DOMAIN v
    BY <1>1
  <2> QED
    BY <2>1 DEF KeysFromJson
<1>4. /\ \A k \in DOMAIN v : KeysToJson(v)[k] = v[k]
      /\ \A k \in DOMAIN v : KeysFromJson(strings, v)[k] = v[k]
  <2>1. ASSUME NEW k \in DOMAIN v
        PROVE  KeysToJson(v)[k] = v[k] /\ KeysFromJson(strings, v)[k] = v[k]
    <3>1. k \in DOMAIN v \cap strings /\ DOMAIN v \subseteq strings \cup {Unrecognised}
      OBVIOUS
    <3> QED
      BY <3>1, KeysThere, KeysBack
  <2> QED
    BY <2>1
<1>5. IsFunction(KeysToJson(v)) /\ IsFunction(KeysFromJson(strings, v))
  BY DEF IsFunction, KeysToJson, KeysFromJson
<1> QED
  BY <1>2, <1>3, <1>4, <1>5 DEF IsFunction

(* What ToJson and FromJson do with each kind.                             *)
LEMMA ToJsonOf ==
    ASSUME NEW kind, NEW v
    PROVE  /\ ToJson(kind, v) = Json(kind, ToJson(kind, v).of)
           /\ kind.kind = "marshalled" => ToJson(kind, v).of = ToString(v)
           /\ kind.kind \in {"list", "map"} => ToJson(kind, v).of = ItemsToJson(kind.item, v)
           /\ kind.kind = "marshalledMap" =>
                 ToJson(kind, v).of = KeysToJson(ItemsToJson(kind.item, v))
           /\ kind.kind # "marshalled" /\ ~Collection(kind) => ToJson(kind, v).of = v
BY JsonFields, Zenon DEF ToJson, Collection

LEMMA FromJsonOf ==
    ASSUME NEW kind, NEW j
    PROVE  /\ kind.kind = "marshalled" => FromJson(kind, j) = FromString(kind.wire, j.of)
           /\ kind.kind \in {"list", "map"} => FromJson(kind, j) = ItemsFromJson(j.of)
           /\ kind.kind = "marshalledMap" =>
                 FromJson(kind, j) = KeysFromJson(kind.wire, ItemsFromJson(j.of))
           /\ kind.kind # "marshalled" /\ ~Collection(kind) => FromJson(kind, j) = j.of
BY DEF FromJson, Collection

-----------------------------------------------------------------------------
(* The conversions are inverse to each other where they should be.         *)

(* What an object holds is written as its kind's JSON, and is the same     *)
(* when it is read again (ToString and FromString of the marshallers,      *)
(* SerializeToJsonObject and s_loadFromJsonView of the lists and maps).    *)
LEMMA ThereAndBack ==
    ASSUME NEW kind, Marshalling(kind), NEW v, Sendable(kind, v)
    PROVE  Readable(kind, ToJson(kind, v)) /\ FromJson(kind, ToJson(kind, v)) = v
<1>1. ToJson(kind, v) = Json(kind, ToJson(kind, v).of)
  BY ToJsonOf
<1>2. CASE kind.kind = "marshalled"
  <2>1. v \in kind.wire /\ kind.wire \cap {Unrecognised, UnknownValue} = {}
    BY <1>2 DEF Sendable, Marshalling
  <2>2. ToString(v) = v /\ FromString(kind.wire, v) = v
    BY <2>1, KnownString
  <2> QED
    BY <1>1, <1>2, <2>2, ToJsonOf, FromJsonOf DEF Readable, Collection
<1>3. CASE Collection(kind)
  <2> DEFINE items == ItemsToJson(kind.item, v)
  <2>1. IsFunction(v)
    BY <1>3 DEF Sendable
  <2>2. /\ IsFunction(items) /\ DOMAIN items = DOMAIN v
        /\ \A i \in DOMAIN items : items[i] = Json(kind.item, items[i].of)
    BY ItemsThere, JsonFields
  <2>3. ItemsFromJson(items) = v
    BY <2>1, ItemsThereAndBack
  <2>4. CASE kind.kind = "marshalledMap"
    <3>1. DOMAIN items \subseteq kind.wire /\ kind.wire \cap {Unrecognised, UnknownValue} = {}
      BY <2>2, <2>4 DEF Sendable, Marshalling
    <3>2. KeysToJson(items) = items /\ KeysFromJson(kind.wire, v) = v
      BY <2>1, <2>2, <3>1, KnownKeys
    <3>3. ToJson(kind, v).of = items
      BY <2>4, <3>2, ToJsonOf
    <3> HIDE DEF items
    <3>4. FromJson(kind, ToJson(kind, v)) = v
      BY <2>3, <2>4, <3>2, <3>3, FromJsonOf
    <3> QED
      BY <1>1, <2>2, <3>3, <3>4 DEF Readable
  <2>5. CASE kind.kind \in {"list", "map"}
    <3>1. ToJson(kind, v).of = items
      BY <2>5, ToJsonOf
    <3> HIDE DEF items
    <3>2. FromJson(kind, ToJson(kind, v)) = v
      BY <2>3, <2>5, <3>1, FromJsonOf
    <3> QED
      BY <1>1, <2>2, <3>1, <3>2 DEF Readable
  <2> QED
    BY <1>3, <2>4, <2>5 DEF Collection
<1>4. CASE kind.kind # "marshalled" /\ ~Collection(kind)
  BY <1>1, <1>4, ToJsonOf, FromJsonOf DEF Readable
<1> QED
  BY <1>2, <1>3, <1>4

(* What an object holds trips no assertion when it is loaded.              *)
LEMMA SendableIsKnown ==
    ASSUME NEW kind, Marshalling(kind), NEW v, Sendable(kind, v)
    PROVE  Known(kind, ToJson(kind, v))
<1>1. CASE kind.kind = "marshalled"
  <2>1. v \in kind.wire /\ kind.wire \cap {Unrecognised, UnknownValue} = {}
    BY <1>1 DEF Sendable, Marshalling
  <2>2. ToJson(kind, v).of = v
    BY <1>1, <2>1, KnownString, ToJsonOf
  <2> QED
    BY <1>1, <2>1, <2>2 DEF Known
<1>2. CASE kind.kind = "marshalledMap"
  <2> DEFINE items == ItemsToJson(kind.item, v)
  <2>1. /\ IsFunction(items) /\ DOMAIN items \subseteq kind.wire
        /\ kind.wire \cap {Unrecognised, UnknownValue} = {}
    BY <1>2, ItemsThere DEF Sendable, Marshalling
  <2>2. KeysToJson(items) = items
    BY <2>1, KnownKeys
  <2>3. ToJson(kind, v).of = items
    BY <1>2, <2>2, ToJsonOf
  <2> HIDE DEF items
  <2> QED
    BY <1>2, <2>1, <2>3 DEF Known
<1>3. CASE kind.kind \notin {"marshalled", "marshalledMap"}
  BY <1>3 DEF Known
<1> QED
  BY <1>1, <1>2, <1>3

(* What JSON says is written again as it was said, but for what the        *)
(* marshaller does not know.                                               *)
LEMMA BackAndThere ==
    ASSUME NEW kind, Marshalling(kind), NEW j, Readable(kind, j),
           NEW again, again = ToJson(kind, FromJson(kind, j))
    PROVE  /\ Known(kind, j) => again = j
           /\ kind.kind = "marshalled" /\ ~Known(kind, j) => again.of = UnknownValue
           /\ kind.kind = "marshalledMap" =>
                 \A k \in DOMAIN j.of \cap kind.wire :
                     k \in DOMAIN again.of /\ again.of[k] = j.of[k]
<1>1. again = Json(kind, again.of) /\ j = Json(kind, j.of)
  BY ToJsonOf DEF Readable
<1>2. CASE kind.kind = "marshalled"
  <2>1. kind.wire \cap {Unrecognised, UnknownValue} = {}
    BY <1>2 DEF Marshalling
  <2>2. again.of = ToString(FromString(kind.wire, j.of))
    BY <1>2, ToJsonOf, FromJsonOf
  <2>3. Known(kind, j) <=> j.of \in kind.wire
    BY <1>2 DEF Known
  <2>4. j.of \in kind.wire => again.of = j.of
    BY <2>1, <2>2, KnownString
  <2>5. j.of \notin kind.wire => again.of = UnknownValue
    BY <2>2 DEF FromString, ToString
  <2> QED
    BY <1>1, <1>2, <2>3, <2>4, <2>5
<1>3. CASE kind.kind \in {"list", "map"}
  <2>1. IsFunction(j.of) /\ \A i \in DOMAIN j.of : j.of[i] = Json(kind.item, j.of[i].of)
    BY <1>3 DEF Readable, Collection
  <2>2. again.of = ItemsToJson(kind.item, ItemsFromJson(j.of))
    BY <1>3, ToJsonOf, FromJsonOf
  <2>3. again.of = j.of
    BY <2>1, <2>2, ItemsBackAndThere
  <2> QED
    BY <1>1, <1>3, <2>3
<1>4. CASE kind.kind = "marshalledMap"
  <2> DEFINE items == ItemsFromJson(j.of)
             keys == KeysFromJson(kind.wire, items)
             written == ItemsToJson(kind.item, keys)
  <2>1. /\ IsFunction(j.of)
        /\ \A i \in DOMAIN j.of : j.of[i] = Json(kind.item, j.of[i].of)
        /\ kind.wire \cap {Unrecognised, UnknownValue} = {}
    BY <1>4 DEF Readable, Collection, Marshalling
  <2>2. again.of = KeysToJson(written)
    BY <1>4, ToJsonOf, FromJsonOf
  <2>3. ASSUME NEW k \in DOMAIN j.of \cap kind.wire
        PROVE  k \in DOMAIN again.of /\ again.of[k] = j.of[k]
    <3>1. k \in DOMAIN items \cap kind.wire /\ items[k] = j.of[k].of
      BY ItemsBack
    <3>2. /\ DOMAIN keys \subseteq kind.wire \cup {Unrecognised}
          /\ k \in DOMAIN keys /\ keys[k] = j.of[k].of
      <4>1. /\ DOMAIN keys \subseteq kind.wire \cup {Unrecognised}
            /\ \A x \in DOMAIN items \cap kind.wire :
                  x \in DOMAIN keys /\ keys[x] = items[x]
        BY <2>1, KeysBack, ZenonT(60)
      <4> HIDE DEF items, keys
      <4> QED
        BY <3>1, <4>1
    <3>3. DOMAIN written = DOMAIN keys /\ written[k] = Json(kind.item, j.of[k].of)
      BY <3>2, ItemsThere
    <3> HIDE DEF items, keys, written
    <3>4. k \in DOMAIN written \cap kind.wire /\ DOMAIN written \subseteq kind.wire \cup {Unrecognised}
      BY <3>2, <3>3
    <3>5. k \in DOMAIN KeysToJson(written) /\ KeysToJson(written)[k] = written[k]
      BY <2>1, <3>4, KeysThere
    <3> QED
      BY <2>1, <2>2, <3>3, <3>5
  <2>4. ASSUME Known(kind, j)
        PROVE  again = j
    <3>1. DOMAIN j.of \subseteq kind.wire
      BY <1>4, <2>4 DEF Known
    <3>2. IsFunction(items) /\ DOMAIN items \subseteq kind.wire
      BY <3>1, ItemsBack
    <3>3. keys = items
      BY <2>1, <3>2, KnownKeys
    <3>4. written = j.of
      BY <2>1, <3>3, ItemsBackAndThere
    <3>5. KeysToJson(written) = j.of
      BY <2>1, <3>1, <3>4, KnownKeys
    <3> HIDE DEF written
    <3> QED
      BY <1>1, <2>2, <3>5
  <2> QED
    BY <1>4, <2>3, <2>4
<1>5. CASE kind.kind # "marshalled" /\ ~Collection(kind)
  BY <1>1, <1>5, ToJsonOf, FromJsonOf DEF Collection
<1> QED
  BY <1>2, <1>3, <1>4, <1>5 DEF Collection

-----------------------------------------------------------------------------
(* The values an application sets and the JSON a peer writes.              *)

LEMMA KeyedIsFunction ==
    ASSUME NEW K, NEW S, NEW v \in Keyed(K, S)
    PROVE  IsFunction(v) /\ DOMAIN v \subseteq K
BY DEF Keyed, IsFunction

LEMMA ListIsFunction == ASSUME NEW S, NEW v \in Lists(S) PROVE IsFunction(v)
<1>1. CASE v = << >>
  BY <1>1 DEF IsFunction
<1>2. CASE \E x \in S : v = <<x>>
  BY <1>2 DEF IsFunction
<1>3. CASE v \in S \X S
  <2>1. PICK x \in S, y \in S : v = <<x, y>>
    BY <1>3
  <2> QED
    BY <2>1 DEF IsFunction
<1> QED
  BY <1>1, <1>2, <1>3 DEF Lists

LEMMA ValuesSendable ==
    ASSUME NEW kind, NEW v \in Values(kind)
    PROVE  Sendable(kind, v)
<1>1. CASE kind.kind \in {"enum", "marshalled"}
  <2>1. Values(kind) = kind.wire
    BY <1>1 DEF Values
  <2> QED
    BY <1>1, <2>1 DEF Sendable, Collection
<1>2. CASE kind.kind = "list"
  <2>1. v \in Lists(Items(kind.item))
    BY <1>2 DEF Values
  <2> QED
    BY <1>2, <2>1, ListIsFunction DEF Sendable
<1>3. CASE kind.kind = "map"
  <2>1. v \in Keyed({"k"}, Items(kind.item))
    BY <1>3 DEF Values
  <2> QED
    BY <1>3, <2>1, KeyedIsFunction DEF Sendable
<1>4. CASE kind.kind = "marshalledMap"
  <2>1. v \in Keyed(kind.wire, {<<"x">>})
    BY <1>4 DEF Values
  <2> QED
    BY <1>4, <2>1, KeyedIsFunction DEF Sendable
<1> QED
  BY <1>1, <1>2, <1>3, <1>4 DEF Sendable, Collection

LEMMA PayloadsReadable ==
    ASSUME NEW kind, Marshalling(kind), NEW j \in Payloads(kind)
    PROVE  Readable(kind, j)
<1>1. CASE kind.kind \in {"enum", "marshalled"}
  <2>1. PICK v \in Wire(kind) : j = Json(kind, v)
    BY <1>1 DEF Payloads
  <2> QED
    BY <1>1, <2>1, JsonFields DEF Readable, Collection
<1>2. CASE kind.kind = "marshalledMap"
  <2>1. PICK K \in SUBSET Wire(kind) : j = Json(kind, [k \in K |-> Json(kind.item, <<"x">>)])
    BY <1>2 DEF Payloads
  <2>2. j.of = [k \in K |-> Json(kind.item, <<"x">>)] /\ j = Json(kind, j.of)
    BY <2>1, JsonFields
  <2>3. \A k \in K : j.of[k] = Json(kind.item, j.of[k].of)
    BY <2>2, JsonFields
  <2> QED
    BY <2>2, <2>3 DEF Readable, IsFunction
<1>3. CASE kind.kind \notin {"enum", "marshalled", "marshalledMap"}
  <2>1. PICK v \in Values(kind) : j = ToJson(kind, v)
    BY <1>3 DEF Payloads
  <2> QED
    BY <2>1, ThereAndBack, ValuesSendable
<1> QED
  BY <1>1, <1>2, <1>3

-----------------------------------------------------------------------------
(* Setters and operator=.                                                  *)

LEMMA SetKeeps ==
    ASSUME NEW o, Holds(shape, o), NEW m \in DOMAIN shape.members, NEW v,
           Sendable(shape.members[m], v), NEW new, new = Set(shape, o, m, v)
    PROVE  Holds(shape, new)
<1>1. new.members = With(o.members, m, v) /\ new.chosen \in {m, o.chosen}
  BY DEF Set
<1>2. DOMAIN new.members = DOMAIN o.members \cup {m} /\ new.members[m] = v
  BY <1>1 DEF With
<1>3. \A x \in DOMAIN o.members : x # m => new.members[x] = o.members[x]
  BY <1>1 DEF With
<1> QED
  BY <1>1, <1>2, <1>3 DEF Holds

LEMMA AssignKeeps ==
    ASSUME NEW o, Holds(shape, o), NEW source, Holds(shape, source), NEW new, new = Assign(shape, o, source)
    PROVE  Holds(shape, new)
<1> DEFINE m == source.chosen
<1>1. CASE ~IsUnion(shape) \/ m = None
  BY <1>1 DEF Assign
<1>2. CASE IsUnion(shape) /\ m # None
  <2>1. m \in DOMAIN shape.members /\ new.chosen = m
    BY <1>2 DEF Holds, Assign
  <2>2. CASE m \in DOMAIN source.members
    <3>1. new.members = With(o.members, m, source.members[m])
      BY <1>2, <2>2 DEF Assign
    <3>2. /\ DOMAIN new.members = DOMAIN o.members \cup {m}
          /\ new.members[m] = source.members[m]
          /\ \A x \in DOMAIN o.members : x # m => new.members[x] = o.members[x]
      BY <3>1 DEF With
    <3> QED
      BY <2>1, <2>2, <3>2 DEF Holds
  <2>3. CASE m \notin DOMAIN source.members
    <3>1. new.members = Without(o.members, m)
      BY <1>2, <2>3 DEF Assign
    <3>2. /\ DOMAIN new.members = DOMAIN o.members \ {m}
          /\ \A x \in DOMAIN new.members : new.members[x] = o.members[x]
      BY <3>1 DEF Without
    <3> QED
      BY <2>1, <3>2 DEF Holds
  <2> QED
    BY <2>2, <2>3
<1> QED
  BY <1>1, <1>2

(* What is remembered of an object after a setter.                         *)
LEMMA SetRemembered ==
    ASSUME NEW o, NEW known, Remembers(shape, o, known), NEW m, NEW v,
           NEW new, new = Set(shape, o, m, v),
           NEW made, made = Made(IF IsUnion(shape) THEN With(NoMembers, m, v)
                                 ELSE With(known.members, m, v))
    PROVE  Remembers(shape, new, made)
<1>1. new.members = With(o.members, m, v) /\ made.specified
  BY DEF Set, Made
<1>2. CASE IsUnion(shape)
  <2>1. new.chosen = m /\ m \in DOMAIN new.members /\ new.members[m] = v
    BY <1>1, <1>2 DEF Set, With
  <2>2. made.members = With(NoMembers, m, v)
    BY <1>2 DEF Made
  <2> QED
    BY <1>1, <1>2, <2>1, <2>2 DEF Remembers
<1>3. CASE ~IsUnion(shape)
  <2>1. known.members = o.members
    BY <1>3 DEF Remembers
  <2>2. made.members = new.members
    BY <1>1, <1>3, <2>1 DEF Made
  <2> QED
    BY <1>1, <1>3, <2>2 DEF Remembers
<1> QED
  BY <1>2, <1>3

(* And after a copy: what is remembered of the source, unless nobody ever  *)
(* chose a member of it.                                                   *)
LEMMA AssignRemembered ==
    ASSUME shape \in ModelShapes, NEW o, NEW source, Holds(shape, source),
           NEW known, Remembers(shape, source, known), NEW new, new = Assign(shape, o, source)
    PROVE  Remembers(shape, new,
                     IF IsUnion(shape) /\ known.members = NoMembers THEN Unspecified ELSE known)
<1>1. CASE ~IsUnion(shape)
  BY <1>1 DEF Assign
<1>2. CASE IsUnion(shape) /\ known.members = NoMembers
  BY <1>2 DEF Unspecified, Remembers
<1>3. CASE IsUnion(shape) /\ known.members # NoMembers
  <2> DEFINE m == source.chosen
  <2>1. /\ known.specified /\ m \in DOMAIN source.members
        /\ known.members = With(NoMembers, m, source.members[m])
    BY <1>3 DEF Remembers
  <2>2. m # None
    BY <2>1, ShapesAssumption DEF Holds
  <2>3. new.members = With(o.members, m, source.members[m]) /\ new.chosen = m
    BY <1>3, <2>1, <2>2 DEF Assign
  <2>4. m \in DOMAIN new.members /\ new.members[m] = source.members[m]
    BY <2>3 DEF With
  <2> QED
    BY <1>3, <2>1, <2>3, <2>4 DEF Remembers
<1> QED
  BY <1>1, <1>2, <1>3

-----------------------------------------------------------------------------
(* Building objects.                                                       *)

LEMMA ObjectsStay ==
    ASSUME ObjectsInv, UNCHANGED <<shape, objects, latest>>
    PROVE  ObjectsInv'
BY DEF ObjectsInv

LEMMA SetMemberBuilds ==
    ASSUME ShapeInv, NEW o \in Objects, NEW m \in DOMAIN shape.members, SetMember(o, m)
    PROVE  ObjectsInv'
<1>1. PICK v \in Values(shape.members[m]) :
          /\ objects' = [objects EXCEPT ![o] = Set(shape, @, m, v)]
          /\ latest' = [latest EXCEPT ![o] =
                          Made(IF IsUnion(shape) THEN With(NoMembers, m, v)
                               ELSE With(@.members, m, v))]
          /\ shape' = shape
  BY DEF SetMember
<1>2. /\ DOMAIN objects = Objects /\ DOMAIN latest = Objects
      /\ \A x \in Objects : Holds(shape, objects[x]) /\ Remembers(shape, objects[x], latest[x])
  BY DEF ShapeInv, ObjectsInv
<1>3. /\ DOMAIN objects' = Objects /\ DOMAIN latest' = Objects
      /\ \A x \in Objects : x # o => objects'[x] = objects[x] /\ latest'[x] = latest[x]
      /\ objects'[o] = Set(shape, objects[o], m, v)
      /\ latest'[o] = Made(IF IsUnion(shape) THEN With(NoMembers, m, v)
                           ELSE With(latest[o].members, m, v))
  BY <1>1, <1>2
<1>4. Holds(shape, objects'[o])
  BY <1>2, <1>3, SetKeeps, ValuesSendable
<1>5. Remembers(shape, objects'[o], latest'[o])
  BY <1>2, <1>3, SetRemembered
<1> QED
  BY <1>1, <1>2, <1>3, <1>4, <1>5 DEF ObjectsInv

LEMMA CopyBuilds ==
    ASSUME ShapeInv, NEW o \in Objects, NEW source \in Objects, Copy(o, source)
    PROVE  ObjectsInv'
<1> DEFINE known == IF IsUnion(shape) /\ latest[source].members = NoMembers
                    THEN Unspecified ELSE latest[source]
<1>1. /\ objects' = [objects EXCEPT ![o] = Assign(shape, @, objects[source])]
      /\ latest' = [latest EXCEPT ![o] = known]
      /\ shape' = shape
  BY DEF Copy
<1>2. /\ DOMAIN objects = Objects /\ DOMAIN latest = Objects /\ shape \in ModelShapes
      /\ \A x \in Objects : Holds(shape, objects[x]) /\ Remembers(shape, objects[x], latest[x])
  BY DEF ShapeInv, ObjectsInv
<1>3. Remembers(shape, Assign(shape, objects[o], objects[source]), known)
  BY <1>2, AssignRemembered
<1>4. Holds(shape, Assign(shape, objects[o], objects[source]))
  BY <1>2, AssignKeeps
<1> HIDE DEF known
<1>5. /\ DOMAIN objects' = Objects /\ DOMAIN latest' = Objects
      /\ \A x \in Objects : x # o => objects'[x] = objects[x] /\ latest'[x] = latest[x]
      /\ objects'[o] = Assign(shape, objects[o], objects[source]) /\ latest'[o] = known
  BY <1>1, <1>2
<1> QED
  BY <1>1, <1>2, <1>3, <1>4, <1>5 DEF ObjectsInv

-----------------------------------------------------------------------------
(* The payload.                                                            *)

LEMMA Written ==
    ASSUME shape \in ModelShapes, NEW o, Holds(shape, o),
           NEW w, w = SerializeToJsonObject(shape, o)
    PROVE  /\ IsFunction(w)
           /\ DOMAIN w = {m \in Sent(shape, o) : ~Empty(shape.members[m], o.members[m])}
           /\ \A m \in DOMAIN w :
                 /\ m \in DOMAIN o.members /\ m \in DOMAIN shape.members
                 /\ Marshalling(shape.members[m]) /\ Sendable(shape.members[m], o.members[m])
                 /\ w[m] = ToJson(shape.members[m], o.members[m])
<1>1. /\ IsFunction(w)
      /\ DOMAIN w = {m \in Sent(shape, o) : ~Empty(shape.members[m], o.members[m])}
      /\ \A m \in DOMAIN w : w[m] = ToJson(shape.members[m], o.members[m])
  BY DEF SerializeToJsonObject, IsFunction
<1>2. Sent(shape, o) \subseteq DOMAIN o.members
  BY DEF Sent
<1>3. \A m \in DOMAIN o.members :
          m \in DOMAIN shape.members /\ Sendable(shape.members[m], o.members[m])
  BY DEF Holds
<1>4. \A m \in DOMAIN shape.members : Marshalling(shape.members[m])
  BY ShapesAssumption
<1> QED
  BY <1>1, <1>2, <1>3, <1>4

(* What loading reads of a payload, and where.                             *)
LEMMA Least ==
    ASSUME NEW S \in SUBSET Nat, S # {}
    PROVE  \E i \in S : \A j \in S : i <= j
<1>1. PICK i \in S : \A j \in S : ~(<<j, i>> \in OpToRel(<, Nat))
  BY NatLessThanWellFounded, WFMin
<1>2. \A j \in S : ~(j < i)
  BY <1>1 DEF OpToRel
<1> QED
  BY <1>2

LEMMA UnionLooksForFirst ==
    ASSUME NEW s \in ModelShapes, IsUnion(s), NEW json, DOMAIN json \subseteq DOMAIN s.members
    PROVE  \/ Looked(s, json) = {} /\ DOMAIN json = {}
           \/ \E m \in DOMAIN json : Looked(s, json) = {m}
<1> DEFINE present == {i \in DOMAIN s.order : s.order[i] \in DOMAIN json}
<1>1. /\ s.order \in Seq(DOMAIN s.members)
      /\ \A m \in DOMAIN s.members : \E i \in DOMAIN s.order : s.order[i] = m
  BY ShapesAssumption DEF LooksForAll
<1>2. present \in SUBSET Nat
  BY <1>1
<1>3. CASE present = {}
  <2>1. Looked(s, json) = {}
    BY <1>3 DEF Looked, FirstPresent
  <2>2. DOMAIN json = {}
    BY <1>1, <1>3
  <2> QED
    BY <2>1, <2>2
<1>4. CASE present # {}
  <2> DEFINE first == CHOOSE i \in present : \A j \in present : i <= j
  <2>1. \E i \in present : \A j \in present : i <= j
    BY <1>2, <1>4, Least
  <2>2. first \in present
    BY <2>1
  <2>3. Looked(s, json) = {s.order[first]}
    BY <1>4 DEF Looked, FirstPresent
  <2> QED
    BY <2>2, <2>3
<1> QED
  BY <1>3, <1>4

LEMMA EmptyAsJson ==
    ASSUME NEW kind
    PROVE  /\ \A v : Empty(kind, ToJson(kind, v).of) <=> Empty(kind, v)
           /\ \A j : Empty(kind, FromJson(kind, j)) <=> Empty(kind, j.of)
<1>1. CASE kind.kind = "blob"
  <2>1. \A v : ToJson(kind, v).of = v
    BY <1>1, ToJsonOf DEF Collection
  <2>2. \A j : FromJson(kind, j) = j.of
    BY <1>1, FromJsonOf DEF Collection
  <2> QED
    BY <2>1, <2>2
<1>2. CASE kind.kind # "blob"
  BY <1>2 DEF Empty
<1> QED
  BY <1>1, <1>2

LEMMA Loaded ==
    ASSUME shape \in ModelShapes, DOMAIN wire \subseteq DOMAIN shape.members,
           NEW r, r = Load(shape, received, wire)
    PROVE  /\ DOMAIN r.members =
                  {m \in Looked(shape, wire) : ~Empty(shape.members[m], wire[m].of)}
           /\ \A m \in DOMAIN r.members : r.members[m] = FromJson(shape.members[m], wire[m])
           /\ Looked(shape, wire) \subseteq DOMAIN wire
           /\ ~IsUnion(shape) => Looked(shape, wire) = DOMAIN wire
           /\ IsUnion(shape) => \/ Looked(shape, wire) = {} /\ DOMAIN wire = {}
                                \/ Looked(shape, wire) = {r.chosen}
<1>1. /\ DOMAIN r.members =
             {m \in Looked(shape, wire) : ~Empty(shape.members[m], wire[m].of)}
      /\ \A m \in DOMAIN r.members : r.members[m] = FromJson(shape.members[m], wire[m])
  BY DEF Load
<1>2. CASE ~IsUnion(shape)
  BY <1>1, <1>2 DEF Looked
<1>3. CASE IsUnion(shape)
  <2>1. \/ Looked(shape, wire) = {} /\ DOMAIN wire = {}
        \/ \E m \in DOMAIN wire : Looked(shape, wire) = {m}
    BY <1>3, UnionLooksForFirst
  <2>2. ASSUME NEW m \in DOMAIN wire, Looked(shape, wire) = {m}
        PROVE  r.chosen = m
    <3>1. r.chosen = CHOOSE x \in Looked(shape, wire) : TRUE
      BY <1>3, <2>2 DEF Load
    <3> QED
      BY <2>2, <3>1
  <2> QED
    BY <1>1, <1>3, <2>1, <2>2
<1> QED
  BY <1>2, <1>3

(* An object that was sent is loaded with the members the application      *)
(* knows of, less the empty blobs.                                         *)
LEMMA SentIsKnown ==
    ASSUME NEW o, NEW known, Remembers(shape, o, known), known.specified
    PROVE  /\ DOMAIN known.members = Sent(shape, o)
           /\ \A m \in Sent(shape, o) : known.members[m] = o.members[m]
<1>1. CASE ~IsUnion(shape)
  BY <1>1 DEF Remembers, Sent
<1>2. CASE IsUnion(shape) /\ known.members = NoMembers /\ o.members = NoMembers
  BY <1>2, NothingIsEmpty DEF Sent
<1>3. CASE /\ IsUnion(shape) /\ o.chosen \in DOMAIN o.members
           /\ known.members = With(NoMembers, o.chosen, o.members[o.chosen])
  <2>1. Sent(shape, o) = {o.chosen}
    BY <1>3 DEF Sent
  <2>2. /\ DOMAIN known.members = {o.chosen}
        /\ known.members[o.chosen] = o.members[o.chosen]
    BY <1>3, NothingIsEmpty DEF With
  <2> QED
    BY <2>1, <2>2
<1> QED
  BY <1>1, <1>2, <1>3 DEF Remembers

LEMMA ReceivedAsSent ==
    ASSUME ShapeInv, phase = "sent", sent.specified,
           NEW r, r = Load(shape, received, wire)
    PROVE  /\ DOMAIN r.members =
                  {m \in DOMAIN sent.members : ~Empty(shape.members[m], sent.members[m])}
           /\ \A m \in DOMAIN r.members :
                 /\ r.members[m] = sent.members[m]
                 /\ IsUnion(shape) => r.chosen = m
                 /\ Sendable(shape.members[m], sent.members[m])
<1>1. PICK o \in Objects : wire = SerializeToJsonObject(shape, objects[o]) /\ sent = latest[o]
  BY DEF ShapeInv, WireInv
<1>2. /\ shape \in ModelShapes /\ DOMAIN wire \subseteq DOMAIN shape.members
      /\ Holds(shape, objects[o]) /\ Remembers(shape, objects[o], sent)
  BY <1>1 DEF ShapeInv, WireInv, ObjectsInv
<1> DEFINE obj == objects[o]
<1>3. /\ DOMAIN wire = {m \in Sent(shape, obj) : ~Empty(shape.members[m], obj.members[m])}
      /\ \A m \in DOMAIN wire :
            /\ Marshalling(shape.members[m]) /\ Sendable(shape.members[m], obj.members[m])
            /\ wire[m] = ToJson(shape.members[m], obj.members[m])
  BY <1>1, <1>2, Written, SMTT(30)
<1>4. /\ DOMAIN sent.members = Sent(shape, obj)
      /\ \A m \in Sent(shape, obj) : sent.members[m] = obj.members[m]
  BY <1>2, SentIsKnown
<1>5. \A m \in DOMAIN wire : FromJson(shape.members[m], wire[m]) = obj.members[m]
  BY <1>3, ThereAndBack
<1>6. \A m \in DOMAIN wire : ~Empty(shape.members[m], wire[m].of)
  BY <1>3, EmptyAsJson
<1>7. Looked(shape, wire) = DOMAIN wire
  <2>1. CASE IsUnion(shape)
    <3>1. \A m, n \in DOMAIN wire : m = n
      BY <1>3, <2>1 DEF Sent
    <3> QED
      BY <1>2, <2>1, <3>1, Loaded
  <2> QED
    BY <1>2, <2>1, Loaded
<1>8. /\ DOMAIN r.members = DOMAIN wire
      /\ \A m \in DOMAIN wire : r.members[m] = obj.members[m]
      /\ IsUnion(shape) => \A m \in DOMAIN wire : r.chosen = m
  BY <1>2, <1>5, <1>6, <1>7, Loaded
<1> HIDE DEF obj
<1> QED
  BY <1>3, <1>4, <1>8

-----------------------------------------------------------------------------
(* Receiving.                                                              *)

LEMMA ReceivesWhatWasSent ==
    ASSUME ShapeInv, Receive
    PROVE  SentAsBuilt'
<1>1. SUFFICES ASSUME sent.specified, NEW m \in DOMAIN shape.members
               PROVE  Read(received', m) = {sent.members[x] : x \in
                          {x \in {m} \cap DOMAIN sent.members :
                              ~Empty(shape.members[x], sent.members[x])}}
  <2>1. shape' = shape /\ sent' = sent /\ phase' = "loaded"
    BY DEF Receive
  <2> QED
    BY <2>1, Zenon DEF SentAsBuilt, Read
<1>2. phase = "sent" /\ received' = Load(shape, received, wire)
  BY <1>1 DEF Receive, ShapeInv, WireInv
<1> DEFINE r == received'
           kind == shape.members[m]
<1>3. /\ DOMAIN r.members =
             {x \in DOMAIN sent.members : ~Empty(shape.members[x], sent.members[x])}
      /\ \A x \in DOMAIN r.members :
            /\ r.members[x] = sent.members[x]
            /\ IsUnion(shape) => r.chosen = x
            /\ Sendable(shape.members[x], sent.members[x])
  BY <1>1, <1>2, ReceivedAsSent
<1> HIDE DEF r
<1>4. CASE m \in DOMAIN r.members
  <2>1. {x \in {m} \cap DOMAIN sent.members : ~Empty(shape.members[x], sent.members[x])} = {m}
    BY <1>3, <1>4
  <2>2. Get(shape, r, m) = {sent.members[m]}
    BY <1>3, <1>4 DEF Get
  <2>3. Read(r, m) = {sent.members[m]}
    <3>1. CASE kind.kind = "enum"
      <4>1. sent.members[m] \in kind.wire
        BY <1>3, <1>4, <3>1 DEF Sendable
      <4>2. Read(r, m) = Get(shape, r, m) \cap kind.wire
        BY <3>1 DEF Read, GetEnum
      <4> QED
        BY <2>2, <4>1, <4>2
    <3>2. CASE kind.kind # "enum"
      BY <2>2, <3>2 DEF Read
    <3> QED
      BY <3>1, <3>2
  <2> QED
    BY <2>1, <2>3 DEF r
<1>5. CASE m \notin DOMAIN r.members
  <2>1. {x \in {m} \cap DOMAIN sent.members : ~Empty(shape.members[x], sent.members[x])} = {}
    BY <1>3, <1>5
  <2>2. Get(shape, r, m) = {}
    BY <1>5 DEF Get
  <2>3. Read(r, m) = {}
    BY <2>2 DEF Read, GetEnum
  <2> QED
    BY <2>1, <2>3 DEF r
<1> QED
  BY <1>4, <1>5

LEMMA ForwardsWhatWasSaid ==
    ASSUME ShapeInv, Receive
    PROVE  LoadedAsSaid'
<1> DEFINE r == received'
           again == SerializeToJsonObject(shape, r)
<1>1. /\ shape \in ModelShapes /\ shape' = shape /\ wire' = wire
      /\ r = Load(shape, received, wire)
      /\ \A m \in DOMAIN wire :
            m \in DOMAIN shape.members /\ Readable(shape.members[m], wire[m])
  BY DEF Receive, ShapeInv, WireInv
<1>2. \A m \in DOMAIN wire : Marshalling(shape.members[m])
  BY <1>1, ShapesAssumption
<1>3. /\ DOMAIN r.members = {m \in Looked(shape, wire) : ~Empty(shape.members[m], wire[m].of)}
      /\ \A m \in DOMAIN r.members : r.members[m] = FromJson(shape.members[m], wire[m])
      /\ Looked(shape, wire) \subseteq DOMAIN wire
      /\ IsUnion(shape) => \/ Looked(shape, wire) = {} \/ Looked(shape, wire) = {r.chosen}
  BY <1>1, Loaded
<1> HIDE DEF r
<1>4. Sent(shape, r) = DOMAIN r.members
  BY <1>3 DEF Sent
<1>5. /\ DOMAIN again = {m \in DOMAIN r.members : ~Empty(shape.members[m], r.members[m])}
      /\ \A m \in DOMAIN again : again[m] = ToJson(shape.members[m], r.members[m])
  BY <1>4 DEF SerializeToJsonObject
<1>6. \A m \in DOMAIN r.members : ~Empty(shape.members[m], r.members[m])
  BY <1>3, EmptyAsJson
<1>7. DOMAIN again = {m \in Looked(shape, wire) : ~Empty(shape.members[m], wire[m].of)}
  BY <1>3, <1>5, <1>6
<1>8. ASSUME NEW m \in DOMAIN again
      PROVE  LET kind == shape.members[m] IN
             /\ Known(kind, wire[m]) => again[m] = wire[m]
             /\ kind.kind = "marshalled" /\ ~Known(kind, wire[m]) => again[m].of = UnknownValue
             /\ kind.kind = "marshalledMap" =>
                    \A k \in DOMAIN wire[m].of \cap kind.wire :
                        k \in DOMAIN again[m].of /\ again[m].of[k] = wire[m].of[k]
  <2>1. /\ m \in DOMAIN wire /\ m \in DOMAIN r.members
        /\ again[m] = ToJson(shape.members[m], FromJson(shape.members[m], wire[m]))
    BY <1>3, <1>5
  <2> HIDE DEF again
  <2> QED
    BY <1>1, <1>2, <2>1, BackAndThere
<1>9. Forwarded' = again
  BY <1>1 DEF Forwarded, r
<1>10. asserts' => \A m \in Looked(shape, wire) : Known(shape.members[m], wire[m])
  BY DEF Receive, FailsAssertion
<1> HIDE DEF again
<1> QED
  BY <1>1, <1>7, <1>8, <1>9, <1>10 DEF LoadedAsSaid

(* An object that was sent trips no assertion.                             *)
LEMMA OnlyPeersAbort == ASSUME ShapeInv, Abort PROVE phase = "peer"
<1>1. SUFFICES ASSUME phase = "sent" PROVE FALSE
  BY DEF Abort
<1>2. PICK o \in Objects : wire = SerializeToJsonObject(shape, objects[o])
  BY <1>1 DEF ShapeInv, WireInv
<1>3. /\ shape \in ModelShapes /\ DOMAIN wire \subseteq DOMAIN shape.members
      /\ Holds(shape, objects[o])
  BY DEF ShapeInv, WireInv, ObjectsInv
<1>4. \A m \in DOMAIN wire :
          /\ Marshalling(shape.members[m]) /\ Sendable(shape.members[m], objects[o].members[m])
          /\ wire[m] = ToJson(shape.members[m], objects[o].members[m])
  BY <1>2, <1>3, Written
<1>5. \A m \in DOMAIN wire : Known(shape.members[m], wire[m])
  BY <1>4, SendableIsKnown
<1>6. Looked(shape, wire) \subseteq DOMAIN wire
  BY <1>3, Loaded
<1> QED
  BY <1>5, <1>6 DEF Abort, FailsAssertion

-----------------------------------------------------------------------------
(* The invariant holds.                                                    *)

LEMMA InitShape == Init => ShapeInv
<1> SUFFICES ASSUME Init PROVE ShapeInv
  OBVIOUS
<1>1. \A o \in New(shape) : o.members = NoMembers /\ o.chosen \in {None} \cup DOMAIN shape.members
  <2>1. CASE IsUnion(shape)
    BY <2>1, ShapesAssumption DEF Init, New, LooksForAll
  <2>2. CASE ~IsUnion(shape)
    BY <2>2 DEF New, IsUnion
  <2> QED
    BY <2>1, <2>2
<1>2. \A o \in Objects : objects[o] \in New(shape) /\ latest[o] = Made(NoMembers)
  BY DEF Init
<1>3. \A o \in Objects : Holds(shape, objects[o])
  BY <1>1, <1>2, NothingIsEmpty DEF Holds
<1>4. \A o \in Objects : Remembers(shape, objects[o], latest[o])
  BY <1>1, <1>2 DEF Remembers, Made
<1>5. ObjectsInv
  BY <1>3, <1>4 DEF Init, ObjectsInv
<1>6. WireInv
  BY NothingIsEmpty DEF Init, WireInv, Unspecified
<1> QED
  BY <1>1, <1>5, <1>6 DEF Init, ShapeInv, SentAsBuilt, LoadedAsSaid

(* Before anything is received there is nothing to say of it.              *)
LEMMA NotYetReceived ==
    ASSUME ShapeInv, phase' \in {"building", "peer", "sent"}, phase # "loaded",
           UNCHANGED <<asserts, shape, received>>, ObjectsInv', WireInv'
    PROVE  ShapeInv'
BY DEF ShapeInv, SentAsBuilt, LoadedAsSaid

LEMMA SendWrites ==
    ASSUME ShapeInv, NEW o \in Objects, Send(o)
    PROVE  ShapeInv'
<1>1. /\ phase' = "sent" /\ wire' = SerializeToJsonObject(shape, objects[o])
      /\ sent' = latest[o] /\ UNCHANGED <<asserts, shape, objects, latest, received>>
      /\ phase = "building"
  BY DEF Send
<1>2. shape \in ModelShapes /\ Holds(shape, objects[o])
  BY DEF ShapeInv, ObjectsInv
<1>3. \A m \in DOMAIN wire' :
          /\ m \in DOMAIN shape.members /\ Marshalling(shape.members[m])
          /\ Sendable(shape.members[m], objects[o].members[m])
          /\ wire'[m] = ToJson(shape.members[m], objects[o].members[m])
  BY <1>1, <1>2, Written
<1>4. \A m \in DOMAIN wire' : Readable(shape.members[m], wire'[m])
  BY <1>3, ThereAndBack
<1>5. WireInv'
  BY <1>1, <1>3, <1>4 DEF WireInv
<1>6. ObjectsInv'
  BY <1>1, ObjectsStay DEF ShapeInv
<1> QED
  BY <1>1, <1>5, <1>6, NotYetReceived

LEMMA PeerSays ==
    ASSUME ShapeInv, NEW m \in DOMAIN shape.members, PeerWrites(m)
    PROVE  ShapeInv'
<1>1. /\ phase \in {"peer", "building"} /\ phase' = "peer"
      /\ UNCHANGED <<asserts, shape, objects, latest, sent, received>>
      /\ \E j \in Payloads(shape.members[m]) : wire' = With(wire, m, j)
  BY DEF PeerWrites
<1>2. PICK j \in Payloads(shape.members[m]) : wire' = With(wire, m, j)
  BY <1>1
<1>3. Readable(shape.members[m], j)
  BY PayloadsReadable, ShapesAssumption DEF ShapeInv
<1>4. \A x \in DOMAIN wire : x \in DOMAIN shape.members /\ Readable(shape.members[x], wire[x])
  BY DEF ShapeInv, WireInv
<1>5. /\ DOMAIN wire' = DOMAIN wire \cup {m} /\ wire'[m] = j
      /\ \A x \in DOMAIN wire : x # m => wire'[x] = wire[x]
  BY <1>2 DEF With
<1>6. \A x \in DOMAIN wire' : x \in DOMAIN shape.members /\ Readable(shape.members[x], wire'[x])
  BY <1>3, <1>4, <1>5
<1>7. WireInv'
  BY <1>1, <1>6 DEF WireInv, ShapeInv
<1>8. ObjectsInv'
  BY <1>1, ObjectsStay DEF ShapeInv
<1> QED
  BY <1>1, <1>7, <1>8, NotYetReceived

LEMMA NextShape == ShapeInv /\ [Next]_vars => ShapeInv'
<1> SUFFICES ASSUME ShapeInv, [Next]_vars PROVE ShapeInv'
  OBVIOUS
<1>1. ASSUME NEW o \in Objects, NEW m \in DOMAIN shape.members, SetMember(o, m)
      PROVE  ShapeInv'
  <2>1. phase = "building" /\ UNCHANGED <<asserts, shape, phase, wire, sent, received>>
    BY <1>1 DEF SetMember
  <2>2. WireInv'
    BY <2>1 DEF WireInv, ShapeInv
  <2> QED
    BY <1>1, <2>1, <2>2, SetMemberBuilds, NotYetReceived
<1>2. ASSUME NEW o \in Objects, NEW source \in Objects, Copy(o, source)
      PROVE  ShapeInv'
  <2>1. phase = "building" /\ UNCHANGED <<asserts, shape, phase, wire, sent, received>>
    BY <1>2 DEF Copy
  <2>2. WireInv'
    BY <2>1 DEF WireInv, ShapeInv
  <2> QED
    BY <1>2, <2>1, <2>2, CopyBuilds, NotYetReceived
<1>3. CASE Receive
  <2>1. /\ phase \in {"sent", "peer"} /\ phase' = "loaded"
        /\ UNCHANGED <<asserts, shape, objects, latest, wire, sent>>
    BY <1>3 DEF Receive
  <2>2. SentAsBuilt' /\ LoadedAsSaid'
    BY <1>3, ReceivesWhatWasSent, ForwardsWhatWasSaid
  <2>3. ObjectsInv'
    BY <2>1, ObjectsStay DEF ShapeInv
  <2>4. WireInv'
    BY <2>1 DEF WireInv, ShapeInv
  <2> QED
    BY <2>1, <2>2, <2>3, <2>4 DEF ShapeInv
<1>6. CASE Abort
  <2>1. /\ phase = "peer" /\ phase' = "aborted"
        /\ UNCHANGED <<asserts, shape, objects, latest, wire, sent, received>>
    BY <1>6, OnlyPeersAbort DEF Abort
  <2>2. ObjectsInv'
    BY <2>1, ObjectsStay DEF ShapeInv
  <2>3. WireInv' /\ ~sent.specified
    BY <2>1 DEF WireInv, ShapeInv
  <2> QED
    BY <2>1, <2>2, <2>3 DEF ShapeInv, SentAsBuilt, LoadedAsSaid
<1>4. CASE UNCHANGED vars
  BY <1>4 DEF vars, ShapeInv, ObjectsInv, WireInv, SentAsBuilt, LoadedAsSaid, Read, Forwarded
<1>5. "a" \in Objects /\ "b" \in Objects
  BY DEF Objects
<1> QED
  BY <1>1, <1>2, <1>3, <1>4, <1>5, <1>6, SendWrites, PeerSays DEF Next

LEMMA ShapeInvHolds == Spec => []ShapeInv
BY InitShape, NextShape, PTL DEF Spec

(* Whatever an application builds with setters and operator=, whatever a   *)
(* union's tag was before it was set, and in every build: the receiver     *)
(* reads every member as it was last set or copied, and no other, but for  *)
(* empty blobs, and no marshaller's assertion fails                        *)
(* (SerializeToJsonObject, s_loadFromJsonView and the getters).            *)
THEOREM WhatIsSentArrives == Spec => []SentAsBuilt
<1>1. ShapeInv => SentAsBuilt
  BY DEF ShapeInv
<1> QED
  BY <1>1, ShapeInvHolds, PTL

(* Whatever a peer writes: an object that was loaded and is sent on says   *)
(* what it said.  Where assert(0) is compiled in, nothing is loaded of a   *)
(* payload with an enumerator this version does not know; with NDEBUG that *)
(* becomes UNKNOWN_VALUE and displaces no known entry of a map             *)
(* (s_loadFromJsonView, FromString and ToString of the marshallers).       *)
THEOREM WhatIsSaidIsForwarded == Spec => []LoadedAsSaid
<1>1. ShapeInv => LoadedAsSaid
  BY DEF ShapeInv
<1> QED
  BY <1>1, ShapeInvHolds, PTL
=============================================================================
