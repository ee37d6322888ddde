--------------------------- MODULE ShapeConversion ---------------------------
(* An application builds objects of one shape with setters and operator=,  *)
(* sends one, and the receiver loads it; or a peer sends a payload of its  *)
(* own, also one this version of the model does not know all of.           *)
EXTENDS Shapes, FiniteSets

CONSTANTS
    ModelShapes,    \* the shapes of the generated models
    MaxMembers      \* bound: members set in the objects of a structure

(* What the generated code takes for granted of a shape: a marshaller's    *)
(* strings are not the ones it makes of an unknown enumerator, and a union *)
(* looks for each of its members when it is loaded.                        *)
Marshalling(kind) ==
    kind.kind \in {"marshalled", "marshalledMap"} =>
        kind.wire \cap {Unrecognised, UnknownValue} = {}
LooksForAll(s) ==
    /\ s.order \in Seq(DOMAIN s.members)
    /\ \A m \in DOMAIN s.members : \E i \in DOMAIN s.order : s.order[i] = m

ASSUME ShapesAssumption ==
    /\ MaxMembers \in Nat
    /\ \A s \in ModelShapes :
        /\ None \notin DOMAIN s.members
        /\ \A m \in DOMAIN s.members : Marshalling(s.members[m])
        /\ IsUnion(s) => LooksForAll(s)

VARIABLES
    asserts,    \* the receiver is built without NDEBUG, as a Debug build is
    shape,      \* the shape of this behaviour's objects
    objects,    \* the objects as the code keeps them
    latest,     \* history: what the application last made of each
    phase,      \* building objects, a peer writing a payload, sent, loaded or aborted
    wire,       \* the payload
    sent,       \* history: what the application sent
    received    \* the object loaded from the payload
vars == <<asserts, shape, objects, latest, phase, wire, sent, received>>

Objects == {"a", "b"}

(* An object as the application knows it; a copy of a union nobody chose a *)
(* member of is not specified.                                             *)
Made(members) == [specified |-> TRUE, members |-> members]
Unspecified == [specified |-> FALSE, members |-> NoMembers]

Wire(kind) == kind.wire \cup {"NOT_KNOWN_YET", "NOT_KNOWN_EITHER"}

Items(kind) == IF kind.kind \in {"string", "object", "document"} THEN {"x", "y"} ELSE {1, 2}
Lists(S) == {<< >>} \cup {<<x>> : x \in S} \cup (S \X S)
Keyed(K, S) == UNION {[J -> S] : J \in {J \in SUBSET K : Cardinality(J) <= 2}}

\* the values an application gives a member of this kind
Values(kind) ==
    CASE kind.kind \in {"enum", "marshalled"} -> kind.wire
      [] kind.kind = "bool" -> BOOLEAN
      [] kind.kind = "milliseconds" -> {1000, 1500}
      [] kind.kind \in {"blob", "bytes"} -> {<< >>, <<1>>}
      [] kind.kind = "list" -> Lists(Items(kind.item))
      [] kind.kind = "map" -> Keyed({"k"}, Items(kind.item))
      [] kind.kind = "marshalledMap" -> Keyed(kind.wire, {<<"x">>})
      [] OTHER -> Items(kind)

\* the JSON a peer may put there
Payloads(kind) ==
    CASE kind.kind \in {"enum", "marshalled"} -> {Json(kind, v) : v \in Wire(kind)}
      [] kind.kind = "marshalledMap" ->
            {Json(kind, [k \in K |-> Json(kind.item, <<"x">>)]) :
                K \in {K \in SUBSET Wire(kind) : Cardinality(K) <= 3}}
      [] OTHER -> {ToJson(kind, v) : v \in Values(kind)}

MembersSet == Cardinality(DOMAIN objects["a"].members) + Cardinality(DOMAIN objects["b"].members)

Init ==
    /\ asserts \in BOOLEAN
    /\ shape \in ModelShapes
    /\ objects \in [Objects -> New(shape)]
    /\ latest = [o \in Objects |-> Made(NoMembers)]
    /\ phase = "building"
    /\ wire = NoMembers
    /\ sent = Unspecified
    /\ received \in New(shape)

SetMember(o, m) ==
    /\ phase = "building"
    /\ IsUnion(shape) \/ MembersSet < MaxMembers
    /\ \E v \in Values(shape.members[m]) :
        /\ objects' = [objects EXCEPT ![o] = Set(shape, @, m, v)]
        /\ latest' = [latest EXCEPT ![o] =
                        Made(IF IsUnion(shape) THEN With(NoMembers, m, v)
                             ELSE With(@.members, m, v))]
    /\ UNCHANGED <<asserts, shape, phase, wire, sent, received>>

Copy(o, source) ==
    /\ phase = "building"
    /\ objects' = [objects EXCEPT ![o] = Assign(shape, @, objects[source])]
    /\ latest' = [latest EXCEPT ![o] =
                    IF IsUnion(shape) /\ latest[source].members = NoMembers THEN Unspecified
                    ELSE latest[source]]
    /\ UNCHANGED <<asserts, shape, phase, wire, sent, received>>

Send(o) ==
    /\ phase = "building"
    /\ phase' = "sent"
    /\ wire' = SerializeToJsonObject(shape, objects[o])
    /\ sent' = latest[o]
    /\ UNCHANGED <<asserts, shape, objects, latest, received>>

PeerWrites(m) ==
    /\ phase = "peer" \/ (phase = "building" /\ MembersSet = 0)
    /\ Cardinality(DOMAIN wire) < MaxMembers
    /\ phase' = "peer"
    /\ \E j \in Payloads(shape.members[m]) : wire' = With(wire, m, j)
    /\ UNCHANGED <<asserts, shape, objects, latest, sent, received>>

Receive ==
    /\ phase \in {"sent", "peer"}
    /\ ~(asserts /\ FailsAssertion(shape, wire))
    /\ phase' = "loaded"
    /\ received' = Load(shape, received, wire)
    /\ UNCHANGED <<asserts, shape, objects, latest, wire, sent>>

(* The assertion of a marshaller ends the receiver's process.              *)
Abort ==
    /\ phase \in {"sent", "peer"}
    /\ asserts /\ FailsAssertion(shape, wire)
    /\ phase' = "aborted"
    /\ UNCHANGED <<asserts, shape, objects, latest, wire, sent, received>>

Next ==
    \/ \E o \in Objects, m \in DOMAIN shape.members : SetMember(o, m)
    \/ Copy("a", "b") \/ Copy("b", "a")
    \/ \E o \in Objects : Send(o)
    \/ \E m \in DOMAIN shape.members : PeerWrites(m)
    \/ Receive \/ Abort

Spec == Init /\ [][Next]_vars

-----------------------------------------------------------------------------
(* What an application reads from an object: its getters.                  *)
Read(o, m) ==
    IF shape.members[m].kind = "enum" THEN GetEnum(shape, o, m) ELSE Get(shape, o, m)

(* In every build, the receiver of an object reads each member as the      *)
(* application last set or copied it, and no other, and no assertion fails; *)
(* only an empty blob does not arrive, and a copy of a union nobody chose  *)
(* a member of is not specified (setters, operator=, SerializeToJsonObject *)
(* and s_loadFromJsonView of every shape).                                 *)
SentAsBuilt ==
    phase \in {"loaded", "aborted"} /\ sent.specified =>
        /\ phase = "loaded"
        /\ \A m \in DOMAIN shape.members :
             Read(received, m) = {sent.members[x] : x \in
                 {x \in {m} \cap DOMAIN sent.members :
                     ~Empty(shape.members[x], sent.members[x])}}

(* An object loaded from any payload and sent on says what the payload     *)
(* said: the first member in the order of a union, every member of a       *)
(* structure, less the empty blobs.  A payload with an enumerator this     *)
(* model does not know is loaded only with NDEBUG: it becomes              *)
(* UNKNOWN_VALUE, and a known key keeps its own entry beside unknown ones; *)
(* without NDEBUG it aborts the receiver (s_loadFromJsonView then          *)
(* SerializeToJsonObject; FromString then ToString of the marshallers).    *)
Forwarded == SerializeToJsonObject(shape, received)
LoadedAsSaid ==
    phase = "loaded" =>
        /\ asserts => \A m \in Looked(shape, wire) : Known(shape.members[m], wire[m])
        /\ DOMAIN Forwarded = {m \in Looked(shape, wire) : ~Empty(shape.members[m], wire[m].of)}
        /\ \A m \in DOMAIN Forwarded :
            LET kind == shape.members[m] IN
            /\ Known(kind, wire[m]) => Forwarded[m] = wire[m]
            /\ kind.kind = "marshalled" /\ ~Known(kind, wire[m]) =>
                    Forwarded[m].of = UnknownValue
            /\ kind.kind = "marshalledMap" =>
                    \A k \in DOMAIN wire[m].of \cap kind.wire :
                        k \in DOMAIN Forwarded[m].of /\ Forwarded[m].of[k] = wire[m].of[k]
=============================================================================
