------------------------- MODULE DeviceServicesProofs -------------------------
(***************************************************************************)
(* Theorems about DeviceServices: who owns and who hears of a native       *)
(* tunnel, for any number of objects and tunnels, and whose answer a       *)
(* request of a service client gets, for any operations and messages.      *)
(***************************************************************************)
EXTENDS DeviceServices, FiniteSetTheorems, TLAPS

-----------------------------------------------------------------------------
(* The secure tunnel: the inductive invariant.                             *)

TunnelTypes ==
    /\ object \in [Objects -> {"none", "alive", "destroyed"}]
    /\ handle \in [Objects -> SUBSET Tunnels]
    /\ callbacks \in [Objects -> SUBSET AllCallbacks]
    /\ native \in [Tunnels -> {"none", "stopped", "connecting", "connected", "stopping", "gone"}]
    /\ released \in [Tunnels -> BOOLEAN]
    /\ userData \in [Tunnels -> SUBSET Objects]
    /\ registered \in [Tunnels -> SUBSET AllCallbacks]

(* A tunnel that exists and was not released is in the hands of one living *)
(* object, any other in nobody's.                                          *)
HandlesOfLiving ==
    /\ \A o \in Objects : handle[o] = {} \/ \E c \in Tunnels : handle[o] = {c}
    /\ \A o \in Objects : handle[o] # {} => object[o] = "alive"
    /\ \A o, p \in Objects : handle[o] = handle[p] /\ handle[o] # {} => o = p
OwnedOrOver ==
    \A c \in Tunnels :
        /\ (\E o \in Objects : handle[o] = {c}) <=> native[c] # "none" /\ ~released[c]
        /\ released[c] => native[c] # "none"
Ownership == HandlesOfLiving /\ OwnedOrOver

(* The callbacks follow the tunnel, except OnStreamStopped, which stays    *)
(* with the object the tunnel was built with.                              *)
CallbacksFollow ==
    /\ \A c \in Tunnels, o \in Objects : o \in userData[c] =>
           /\ userData[c] = {o} /\ object[o] # "none" /\ native[c] # "none"
           /\ "OnStreamStopped" \in callbacks[o] <=> "OnStreamStopped" \in registered[c]
    /\ \A c \in Tunnels, o \in Objects : handle[o] = {c} =>
           callbacks[o] \ {"OnStreamStopped"} = registered[c] \ {"OnStreamStopped"}

(* What the owner a tunnel was built with is told, by a function that no   *)
(* assignment destroyed.                                                   *)
ToldAsAsked ==
    \A t \in told, o \in Objects :
        LET asked == Called(t.event, registered[t.tunnel])
        IN  userData[t.tunnel] = {o} /\ handle[o] = {t.tunnel} /\ asked \cap stale[o] = {} =>
                t.called = asked

TunnelInv == TunnelTypes /\ Ownership /\ CallbacksFollow /\ ToldAsAsked

-----------------------------------------------------------------------------
LEMMA InitTunnel == ASSUME TunnelInit PROVE TunnelInv
BY DEF TunnelInit, TunnelInv, TunnelTypes, Ownership, HandlesOfLiving, OwnedOrOver, CallbacksFollow, ToldAsAsked

(* Steps that leave objects, owners and callbacks alone, and do not make   *)
(* or unmake a tunnel.                                                     *)
LEMMA QuietTunnel ==
    ASSUME TunnelInv,
           UNCHANGED <<object, handle, callbacks, released, userData, registered>>,
           native' \in [Tunnels -> {"none", "stopped", "connecting", "connected",
                                    "stopping", "gone"}],
           \A c \in Tunnels : native'[c] = "none" <=> native[c] = "none",
           ToldAsAsked'
    PROVE  TunnelInv'
BY DEF TunnelInv, TunnelTypes, Ownership, HandlesOfLiving, OwnedOrOver, CallbacksFollow

LEMMA SilentTold == ASSUME Silent PROVE ToldAsAsked'
BY DEF Silent, ToldAsAsked

LEMMA NotificationSteps ==
    ASSUME TunnelInv, SubscribeToTunnelsNotify \/ SubscribeCompletes \/ Notified
    PROVE  TunnelInv'
<1>1. /\ UNCHANGED <<object, handle, callbacks, native, released, userData, registered>>
      /\ Silent
  BY DEF SubscribeToTunnelsNotify, SubscribeCompletes, Notified
<1> QED
  BY <1>1, QuietTunnel, SilentTold DEF TunnelInv, TunnelTypes

LEMMA CallSteps ==
    ASSUME TunnelInv, NEW o \in Objects, Start(o) \/ Stop(o) \/ Send(o)
    PROVE  TunnelInv'
<1>1. /\ UNCHANGED <<object, handle, callbacks, released, userData, registered>>
      /\ Silent
  BY DEF Start, Stop, Send
<1>2. CASE Start(o) \/ Stop(o)
  <2>1. PICK c \in Tunnels : \E s \in {"connecting", "stopping"} :
            native[c] # "none" /\ native' = [native EXCEPT ![c] = s]
    BY <1>2 DEF Start, Stop, TunnelInv, TunnelTypes
  <2> QED
    BY <1>1, <2>1, QuietTunnel, SilentTold DEF TunnelInv, TunnelTypes
<1>3. CASE Send(o)
  BY <1>1, <1>3, QuietTunnel, SilentTold DEF Send, TunnelInv, TunnelTypes
<1> QED
  BY <1>2, <1>3

(* A new object, with a tunnel of its own or without one.                  *)
LEMMA RegistrationType == ASSUME NEW set \in Registrations PROVE set \subseteq AllCallbacks
<1>1. AllCallbacks \subseteq AllCallbacks /\ {} \subseteq AllCallbacks
  OBVIOUS
<1>2. Deprecated \subseteq AllCallbacks
  BY DEF Deprecated, AllCallbacks, Preference, ToSet
<1> QED
  BY <1>1, <1>2 DEF Registrations

LEMMA ConstructStep ==
    ASSUME TunnelInv, NEW o \in Objects, NEW set \in Registrations, Construct(o, set)
    PROVE  TunnelInv'
<1>1. /\ object[o] = "none" /\ callbacks' = [callbacks EXCEPT ![o] = set]
      /\ set \subseteq AllCallbacks
      /\ UNCHANGED released
      /\ ToldAsAsked'
  BY SilentTold, RegistrationType DEF Construct
<1>2. handle[o] = {} /\ \A c \in Tunnels : o \notin userData[c]
  BY <1>1 DEF TunnelInv, Ownership, HandlesOfLiving, OwnedOrOver, CallbacksFollow
<1>3. CASE UNCHANGED <<native, userData, registered, handle>>
  <2>1. \E s \in {"alive", "destroyed"} : object' = [object EXCEPT ![o] = s]
    BY <1>3 DEF Construct
  <2>2. TunnelTypes'
    BY <1>1, <1>3, <2>1 DEF TunnelInv, TunnelTypes
  <2>4. Ownership'
    BY <1>1, <1>2, <1>3, <2>1 DEF TunnelInv, TunnelTypes, Ownership, HandlesOfLiving, OwnedOrOver
  <2>3. CallbacksFollow'
    BY ZenonT(60), <1>1, <1>2, <1>3, <2>1 DEF TunnelInv, TunnelTypes, CallbacksFollow
  <2> QED
    BY <1>1, <2>2, <2>3, <2>4 DEF TunnelInv
<1>4. CASE \E c \in Tunnels :
             /\ native[c] = "none"
             /\ native' = [native EXCEPT ![c] = "stopped"]
             /\ userData' = [userData EXCEPT ![c] = {o}]
             /\ registered' = [registered EXCEPT ![c] = set]
             /\ handle' = [handle EXCEPT ![o] = {c}]
             /\ object' = [object EXCEPT ![o] = "alive"]
  <2>1. PICK c \in Tunnels :
             /\ native[c] = "none"
             /\ native' = [native EXCEPT ![c] = "stopped"]
             /\ userData' = [userData EXCEPT ![c] = {o}]
             /\ registered' = [registered EXCEPT ![c] = set]
             /\ handle' = [handle EXCEPT ![o] = {c}]
             /\ object' = [object EXCEPT ![o] = "alive"]
    BY <1>4
  <2>2. \A p \in Objects : handle[p] # {c}
    BY <2>1 DEF TunnelInv, Ownership, HandlesOfLiving, OwnedOrOver
  <2>3. TunnelTypes'
    BY <1>1, <2>1 DEF TunnelInv, TunnelTypes
  <2>4. Ownership'
    <3>1. handle'[o] = {c} /\ \A p \in Objects \ {o} : handle'[p] = handle[p]
      BY <1>1, <1>2, <2>1, <2>2 DEF TunnelInv, TunnelTypes
    <3>2. HandlesOfLiving'
      BY <1>1, <1>2, <2>1, <2>2, <3>1 DEF TunnelInv, TunnelTypes, Ownership, HandlesOfLiving
    <3>3. OwnedOrOver'
      <4>1. \A d \in Tunnels \ {c} : native'[d] = native[d]
        BY <2>1 DEF TunnelInv, TunnelTypes
      <4>2. native'[c] = "stopped" /\ ~released'[c] /\ handle'[o] = {c}
        <5>1. ~released[c]
          BY <2>1 DEF TunnelInv, Ownership, OwnedOrOver
        <5> QED
          BY <1>1, <2>1, <3>1, <5>1 DEF TunnelInv, TunnelTypes
      <4>3. ASSUME NEW d \in Tunnels, d # c
            PROVE  (\E p \in Objects : handle'[p] = {d}) <=> (\E p \in Objects : handle[p] = {d})
        BY <1>2, <3>1, <4>3
      <4> QED
        BY <1>1, <4>1, <4>2, <4>3 DEF TunnelInv, Ownership, OwnedOrOver
    <3> QED
      BY <3>2, <3>3 DEF Ownership
  <2>5. CallbacksFollow'
    BY <1>1, <1>2, <2>1, <2>2 DEF TunnelInv, TunnelTypes, CallbacksFollow
  <2> QED
    BY <1>1, <2>3, <2>4, <2>5 DEF TunnelInv
<1> QED
  BY <1>3, <1>4 DEF Construct

LEMMA DestroyStep ==
    ASSUME TunnelInv, NEW o \in Objects, Destroy(o) PROVE TunnelInv'
<1>1. /\ object[o] = "alive" /\ object' = [object EXCEPT ![o] = "destroyed"]
      /\ handle' = [handle EXCEPT ![o] = {}]
      /\ released' = [c \in Tunnels |-> released[c] \/ c \in handle[o]]
      /\ UNCHANGED <<callbacks, native, userData, registered>>
      /\ ToldAsAsked'
  BY SilentTold DEF Destroy
<1>2. TunnelTypes'
  BY <1>1 DEF TunnelInv, TunnelTypes
<1>3. Ownership'
  <2>1. handle'[o] = {} /\ \A p \in Objects \ {o} : handle'[p] = handle[p]
    BY <1>1 DEF TunnelInv, TunnelTypes
  <2>2. HandlesOfLiving'
    BY <1>1, <2>1 DEF TunnelInv, TunnelTypes, Ownership, HandlesOfLiving
  <2>3. OwnedOrOver'
    <3> SUFFICES ASSUME NEW c \in Tunnels
                 PROVE  /\ (\E p \in Objects : handle'[p] = {c})
                               <=> native[c] # "none" /\ ~(released[c] \/ c \in handle[o])
                        /\ released[c] \/ c \in handle[o] => native[c] # "none"
      BY <1>1 DEF OwnedOrOver
    <3>1. CASE c \in handle[o]
      <4>1. handle[o] = {c} /\ \A p \in Objects \ {o} : handle[p] # {c}
        BY <3>1 DEF TunnelInv, Ownership, HandlesOfLiving
      <4>2. native[c] # "none"
        BY <4>1 DEF TunnelInv, Ownership, OwnedOrOver
      <4> QED
        BY <2>1, <3>1, <4>1, <4>2
    <3>2. CASE c \notin handle[o]
      <4>1. (\E p \in Objects : handle'[p] = {c}) <=> (\E p \in Objects : handle[p] = {c})
        BY <2>1, <3>2
      <4> QED
        BY <3>2, <4>1 DEF TunnelInv, Ownership, OwnedOrOver
    <3> QED
      BY <3>1, <3>2
  <2> QED
    BY <2>2, <2>3 DEF Ownership
<1>4. CallbacksFollow'
  BY <1>1 DEF TunnelInv, TunnelTypes, CallbacksFollow
<1> QED
  BY <1>1, <1>2, <1>3, <1>4 DEF TunnelInv

LEMMA MoveConstructStep ==
    ASSUME TunnelInv, NEW o \in Objects, NEW other \in Objects, MoveConstruct(o, other)
    PROVE  TunnelInv'
<1>1. /\ object[o] = "none" /\ object[other] = "alive" /\ o # other
      /\ object' = [object EXCEPT ![o] = "alive"]
      /\ handle' = [handle EXCEPT ![o] = handle[other], ![other] = {}]
      /\ callbacks' = [callbacks EXCEPT
             ![o] = callbacks[other] \ {"OnStreamStopped"},
             ![other] = callbacks[other] \ (callbacks[other] \ {"OnStreamStopped"})]
      /\ UNCHANGED <<native, released, userData, registered>>
      /\ ToldAsAsked'
  BY SilentTold DEF MoveConstruct, HandleAfterMove, Movable
<1>2. handle[o] = {} /\ \A c \in Tunnels : o \notin userData[c]
  BY <1>1 DEF TunnelInv, Ownership, HandlesOfLiving, OwnedOrOver, CallbacksFollow
<1>3. TunnelTypes'
  BY <1>1 DEF TunnelInv, TunnelTypes
<1>4. Ownership'
  BY ZenonT(60), <1>1, <1>2 DEF TunnelInv, TunnelTypes, Ownership, HandlesOfLiving, OwnedOrOver
<1>5. CallbacksFollow'
  BY <1>1, <1>2 DEF TunnelInv, TunnelTypes, CallbacksFollow
<1> QED
  BY <1>1, <1>3, <1>4, <1>5 DEF TunnelInv

LEMMA MoveAssignStep ==
    ASSUME TunnelInv, NEW o \in Objects, NEW other \in Objects, MoveAssign(o, other)
    PROVE  TunnelInv'
<1>1. /\ object[o] = "alive" /\ object[other] = "alive" /\ o # other
      /\ released' = [c \in Tunnels |-> released[c] \/ c \in handle[o]]
      /\ handle' = [handle EXCEPT ![o] = handle[other], ![other] = {}]
      /\ callbacks' = [callbacks EXCEPT
             ![o] = (callbacks[other] \ {"OnStreamStopped"})
                      \cup (callbacks[o] \ (callbacks[o] \ {"OnStreamStopped"})),
             ![other] = callbacks[other] \ (callbacks[other] \ {"OnStreamStopped"})]
      /\ UNCHANGED <<object, native, userData, registered>>
      /\ ToldAsAsked'
  BY SilentTold DEF MoveAssign, HandleAfterMove, Movable
<1>2. TunnelTypes'
  BY <1>1 DEF TunnelInv, TunnelTypes
<1>3. Ownership'
  <2>1. /\ handle'[o] = handle[other] /\ handle'[other] = {}
        /\ \A p \in Objects \ {o, other} : handle'[p] = handle[p]
    BY <1>1 DEF TunnelInv, TunnelTypes
  <2>2. HandlesOfLiving'
    BY <1>1, <2>1 DEF TunnelInv, TunnelTypes, Ownership, HandlesOfLiving
  <2>3. OwnedOrOver'
    <3> SUFFICES ASSUME NEW c \in Tunnels
                 PROVE  /\ (\E p \in Objects : handle'[p] = {c})
                               <=> native[c] # "none" /\ ~(released[c] \/ c \in handle[o])
                        /\ released[c] \/ c \in handle[o] => native[c] # "none"
      BY <1>1 DEF OwnedOrOver
    <3>1. CASE c \in handle[o]
      <4>1. handle[o] = {c} /\ \A p \in Objects \ {o} : handle[p] # {c}
        BY <3>1 DEF TunnelInv, Ownership, HandlesOfLiving
      <4>2. native[c] # "none"
        BY <4>1 DEF TunnelInv, Ownership, OwnedOrOver
      <4> QED
        BY <2>1, <3>1, <4>1, <4>2
    <3>2. CASE c \notin handle[o]
      <4>1. (\E p \in Objects : handle'[p] = {c}) <=> (\E p \in Objects : handle[p] = {c})
        BY <2>1, <3>2
      <4> QED
        BY <3>2, <4>1 DEF TunnelInv, Ownership, OwnedOrOver
    <3> QED
      BY <3>1, <3>2
  <2> QED
    BY <2>2, <2>3 DEF Ownership
<1>4. CallbacksFollow'
  BY <1>1 DEF TunnelInv, TunnelTypes, CallbacksFollow
<1> QED
  BY <1>1, <1>2, <1>3, <1>4 DEF TunnelInv

(* A callback is one step of the native tunnel: it asks the object it was  *)
(* built with, whose callbacks are the ones registered if it owns it.      *)
LEMMA CallbackStep ==
    ASSUME TunnelInv, NEW c \in Tunnels, NEW event \in DOMAIN Preference, Callback(c, event)
    PROVE  TunnelInv'
<1>1. /\ UNCHANGED <<object, handle, callbacks, stale, released, userData, registered>>
      /\ \E next \in AfterEvent(c, event) : native' = [native EXCEPT ![c] = next]
  BY DEF Callback
<1>2. PICK o \in userData[c] :
          told' = {[tunnel |-> c, event |-> event, called |-> Invoked(o, event)]}
  BY DEF Callback
<1>3. o \in Objects /\ native[c] # "none"
  BY DEF TunnelInv, TunnelTypes, CallbacksFollow
<1>4. \A next \in AfterEvent(c, event) :
          next \in {native[c], "stopped", "connecting", "connected", "stopping", "gone"}
  BY DEF AfterEvent
<1>5. /\ native' \in [Tunnels -> {"none", "stopped", "connecting", "connected",
                                  "stopping", "gone"}]
      /\ \A d \in Tunnels : native'[d] = "none" <=> native[d] = "none"
  BY <1>1, <1>3, <1>4 DEF TunnelInv, TunnelTypes
<1>6. ToldAsAsked'
  <2> SUFFICES ASSUME NEW t \in told', NEW p \in Objects,
                      userData[t.tunnel] = {p}, handle[p] = {t.tunnel},
                      Called(t.event, registered[t.tunnel]) \cap stale[p] = {}
               PROVE  t.called = Called(t.event, registered[t.tunnel])
    BY <1>1 DEF ToldAsAsked
  <2>1. /\ t.tunnel = c /\ t.event = event
        /\ t.called = Invoked(o, event)
    BY <1>2
  <2>2. p = o /\ handle[o] = {c} /\ userData[c] = {o}
    BY <2>1
  <2>3. object[o] = "alive" /\ callbacks[o] = registered[c]
    <3>1. object[o] = "alive"
      BY <1>3, <2>2 DEF TunnelInv, Ownership, HandlesOfLiving, OwnedOrOver
    <3>2. "OnStreamStopped" \in callbacks[o] <=> "OnStreamStopped" \in registered[c]
      BY <1>3, <2>2 DEF TunnelInv, CallbacksFollow
    <3>3. callbacks[o] \ {"OnStreamStopped"} = registered[c] \ {"OnStreamStopped"}
      BY <1>3, <2>2 DEF TunnelInv, CallbacksFollow
    <3>4. \A f : f \in callbacks[o] <=> f \in registered[c]
      BY <3>2, <3>3
    <3> QED
      BY <3>1, <3>4
  <2> QED
    BY <2>1, <2>2, <2>3 DEF Invoked
<1> QED
  BY <1>1, <1>5, <1>6, QuietTunnel

LEMMA TerminatesStep ==
    ASSUME TunnelInv, NEW c \in Tunnels, Terminates(c) PROVE TunnelInv'
BY QuietTunnel, SilentTold DEF Terminates, TunnelInv, TunnelTypes

LEMMA NextTunnel == ASSUME TunnelInv, TunnelNext PROVE TunnelInv'
BY NotificationSteps, CallSteps, ConstructStep, DestroyStep, MoveConstructStep,
   MoveAssignStep, CallbackStep, TerminatesStep
DEF TunnelNext

LEMMA TunnelInvariant == Spec => []TunnelInv
<1>1. Init => TunnelInv
  BY InitTunnel DEF Init
<1>2. TunnelInv /\ [Next]_vars => TunnelInv'
  <2> SUFFICES ASSUME TunnelInv, [Next]_vars PROVE TunnelInv'
    OBVIOUS
  <2>1. CASE TunnelNext
    BY <2>1, NextTunnel
  <2>2. CASE UNCHANGED tunnelVars
    BY <2>2 DEF tunnelVars, TunnelInv, TunnelTypes, Ownership, HandlesOfLiving, OwnedOrOver, CallbacksFollow, ToldAsAsked
  <2> QED
    BY <2>1, <2>2 DEF Next, vars
<1> QED
  BY <1>1, <1>2, PTL DEF Spec

(* Over any sequence of constructions, moves, assignments and destructions *)
(* a tunnel that exists and was not released has one owner, another none,  *)
(* and the object it was built with is told what it asked for while it     *)
(* owns the tunnel, unless by a function that an assignment to that object *)
(* destroyed (SecureTunnel's constructors, operator= and destructor, the   *)
(* s_On... handlers).                                                      *)
THEOREM OwnersAreTold == Spec => []OwnerIsTold
<1>1. TunnelInv => OwnerIsTold
  <2> SUFFICES ASSUME TunnelInv PROVE OwnerIsTold
    OBVIOUS
  <2>1. ASSUME NEW c \in Tunnels
        PROVE  LET owners == {o \in Objects : object[o] = "alive" /\ handle[o] = {c}}
               IN  Cardinality(owners) = IF native[c] = "none" \/ released[c] THEN 0 ELSE 1
    <3> DEFINE owners == {o \in Objects : object[o] = "alive" /\ handle[o] = {c}}
    <3>1. CASE native[c] = "none" \/ released[c]
      <4>1. owners = {}
        BY <3>1 DEF TunnelInv, Ownership, HandlesOfLiving, OwnedOrOver
      <4> QED
        BY <3>1, <4>1, FS_EmptySet
    <3>2. CASE ~(native[c] = "none" \/ released[c])
      <4>1. PICK o \in Objects : handle[o] = {c}
        BY <3>2 DEF TunnelInv, Ownership, HandlesOfLiving, OwnedOrOver
      <4>2. owners = {o}
        BY <4>1 DEF TunnelInv, Ownership, HandlesOfLiving, OwnedOrOver
      <4> QED
        BY <3>2, <4>2, FS_Singleton
    <3> QED
      BY <3>1, <3>2
  <2> QED
    BY <2>1 DEF OwnerIsTold, TunnelInv, ToldAsAsked
<1> QED
  BY <1>1, TunnelInvariant, PTL
-----------------------------------------------------------------------------
(* The request-response clients: the inductive invariant.                  *)

Active == {r \in Requests : request[r] \in {"pending", "completed"}}

RRTypes ==
    /\ operation \in [Requests -> Operations]
    /\ request \in [Requests -> {"idle", "refused", "pending", "completed"}]
    /\ DOMAIN token = Requests /\ DOMAIN results = Requests

(* The token of a request is its own and stays once it has been submitted. *)
OwnToken ==
    \A r \in Requests : token[r] = IF operation[r].token /\ r \in Active THEN {r} ELSE {}

(* One result, an answer to the request, once it is completed.             *)
Answers(r, result) ==
    result.kind # "unmodeled" =>
        /\ result.from.parses
        /\ result.from.topic = IF result.kind = "response"
                               THEN ServiceTopic(operation[r].publish, "accepted")
                               ELSE ServiceTopic(operation[r].publish, "rejected")
        /\ operation[r].token => result.from.about = {r}
OneResult ==
    \A r \in Requests :
        IF request[r] = "completed"
        THEN results[r] = <<results[r][1]>> /\ Answers(r, results[r][1])
        ELSE results[r] = <<>>

(* A message with the token of a request answers it, or a stream hears it; *)
(* one about a request is an answer with its token; a message a command    *)
(* stream hears is about the execution its topic names.                    *)
TokenMeansAnswer(m) == \A r \in Requests : m.token = {r} => m.about = {r} \/ m.topic \in Streams
AboutRequest(m) ==
    \A r \in Requests : r \in m.about =>
        r \in Active /\ m.topic \in Paths(r) /\ (m.parses => m.token = token[r])
AboutExecution(m) ==
    \A s \in Streams : s[2] = "commands" /\ Matches(s, m.topic) => m.about = {m.topic[6]}
OnWire == \A m \in wire : TokenMeansAnswer(m) /\ AboutRequest(m) /\ AboutExecution(m)

ExecutionsFit ==
    /\ DOMAIN events = Streams
    /\ \A s \in Streams : s[2] = "commands" => \A e \in events[s] : e.execution = e.from.about

RRInv == RRTypes /\ OwnToken /\ OneResult /\ OnWire /\ ExecutionsFit

-----------------------------------------------------------------------------
LEMMA InitRR == ASSUME RRInit PROVE RRInv
BY DEF RRInit, RRInv, RRTypes, OwnToken, OneResult, OnWire, ExecutionsFit, Active

(* What the topics assumption says of one operation and one stream.        *)
LEMMA PathsOfOperations ==
    ASSUME RRTypes, NEW r \in Requests
    PROVE  /\ operation[r].token \in BOOLEAN
           /\ operation[r].accepted = ServiceTopic(operation[r].publish, "accepted")
           /\ operation[r].rejected = ServiceTopic(operation[r].publish, "rejected")
           /\ Paths(r) = {operation[r].accepted, operation[r].rejected}
           /\ \A path \in Paths(r) : \E f \in operation[r].filters : Matches(f, path)
           /\ \A q \in Requests :
                  operation[r].token # operation[q].token => Paths(r) \cap Paths(q) = {}
           /\ \A s \in Streams : \A path \in Paths(r) : ~Matches(s, path)
BY TopicsAssumption DEF RRTypes, Answered, ResponsePaths, Apart, Unanswering, Paths

LEMMA StreamMatchesItself ==
    ASSUME NEW s \in Streams
    PROVE  /\ Matches(s, s)
           /\ \A t \in Streams : s[2] # "commands" /\ Matches(t, s) => t[2] # "commands"
<1>1. /\ s \in Seq(STRING) /\ Len(s) >= 2
      /\ \A t \in Streams : t \in Seq(STRING) /\ Len(t) >= 2
  BY TopicsAssumption DEF EventFilter
<1>2. Matches(s, s)
  BY <1>1 DEF Matches
<1>3. ASSUME NEW t \in Streams, Matches(t, s), t[2] = "commands" PROVE s[2] = "commands"
  BY <1>1, <1>3 DEF Matches
<1> QED
  BY <1>2, <1>3

LEMMA NoStreamIsPath ==
    ASSUME RRTypes, NEW r \in Requests PROVE Paths(r) \cap Streams = {}
BY PathsOfOperations, StreamMatchesItself

(* Publishing adds one message and changes nothing else.                   *)
LEMMA PublishStep ==
    ASSUME RRInv, NEW m, Publish(m), TokenMeansAnswer(m), AboutRequest(m), AboutExecution(m)
    PROVE  RRInv'
<1>1. /\ UNCHANGED <<operation, request, token, results, stream, events>>
      /\ wire' = wire \cup {m}
  BY DEF Publish
<1>2. \A n : /\ TokenMeansAnswer(n)' <=> TokenMeansAnswer(n)
             /\ AboutRequest(n)' <=> AboutRequest(n)
             /\ AboutExecution(n)' <=> AboutExecution(n)
  BY <1>1 DEF TokenMeansAnswer, AboutRequest, AboutExecution, Active, Paths
<1>3. OnWire'
  BY <1>1, <1>2 DEF RRInv, OnWire
<1> QED
  BY <1>1, <1>3 DEF RRInv, RRTypes, OwnToken, OneResult, ExecutionsFit, Answers, Active

LEMMA ServiceAnswersStep ==
    ASSUME RRInv, NEW r \in Requests, ServiceAnswers(r) PROVE RRInv'
<1>1. PICK reply \in {"accepted", "rejected"}, parses \in BOOLEAN :
          Publish(Message(ServiceTopic(operation[r].publish, reply),
                          IF parses THEN token[r] ELSE {}, parses, {r}))
  BY DEF ServiceAnswers
<1> DEFINE m == Message(ServiceTopic(operation[r].publish, reply),
                        IF parses THEN token[r] ELSE {}, parses, {r})
<1>2. r \in Active /\ m.topic \in Paths(r) /\ m.about = {r}
      /\ m.token = (IF parses THEN token[r] ELSE {}) /\ m.parses = parses
  BY PathsOfOperations DEF ServiceAnswers, Active, Message, RRInv
<1>3. TokenMeansAnswer(m)
  BY <1>2 DEF TokenMeansAnswer, RRInv, OwnToken
<1>4. AboutRequest(m)
  BY <1>2 DEF AboutRequest
<1>5. AboutExecution(m)
  BY <1>2, PathsOfOperations DEF AboutExecution, RRInv
<1> QED
  BY <1>1, <1>3, <1>4, <1>5, PublishStep

LEMMA OtherClientStep == ASSUME RRInv, OtherClientAnswered PROVE RRInv'
<1>1. PICK r \in Pending, answer \in SUBSET {"other"} : \E topic \in Paths(r) :
          Publish(Message(topic, answer, TRUE, {}))
  BY DEF OtherClientAnswered
<1>2. PICK topic \in Paths(r) : Publish(Message(topic, answer, TRUE, {}))
  BY <1>1
<1> DEFINE m == Message(topic, answer, TRUE, {})
<1>3. r \in Requests /\ m.topic \in Paths(r) /\ m.about = {} /\ m.token \subseteq {"other"}
  BY <1>2 DEF Pending, Message
<1>4. TokenMeansAnswer(m)
  BY <1>3, RequestsAssumption DEF TokenMeansAnswer
<1>5. AboutRequest(m)
  BY <1>3 DEF AboutRequest
<1>6. AboutExecution(m)
  <2>1. \A s \in Streams : ~Matches(s, m.topic)
    <3>1. RRTypes
      BY DEF RRInv
    <3> HIDE DEF m
    <3> QED
      BY <1>3, <3>1, PathsOfOperations
  <2> QED
    BY <2>1 DEF AboutExecution
<1> QED
  BY <1>2, <1>4, <1>5, <1>6, PublishStep

LEMMA EventPublishedStep ==
    ASSUME RRInv, NEW s \in Streams, EventPublished(s) PROVE RRInv'
<1>1. CASE s[2] = "commands"
  <2>1. PICK e \in Executions : Publish(Message([s EXCEPT ![6] = e], {}, TRUE, {e}))
    BY <1>1 DEF EventPublished
  <2> DEFINE m == Message([s EXCEPT ![6] = e], {}, TRUE, {e})
  <2>2. m.topic[6] = e
    <3>1. s \in Seq(STRING) /\ Len(s) >= 6
      BY <1>1, TopicsAssumption DEF EventFilter
    <3> QED
      BY <3>1 DEF Message
  <2>3. m.token = {} /\ m.about = {e}
    BY DEF Message
  <2>4. TokenMeansAnswer(m) /\ AboutRequest(m) /\ AboutExecution(m)
    BY <2>2, <2>3, RequestsAssumption DEF TokenMeansAnswer, AboutRequest, AboutExecution
  <2> QED
    BY <2>1, <2>4, PublishStep
<1>2. CASE s[2] # "commands"
  <2>1. PICK parses \in BOOLEAN, cause \in {{}} \cup {token[r] : r \in Pending} :
            Publish(Message(s, IF parses THEN cause ELSE {}, parses, {}))
    BY <1>2 DEF EventPublished
  <2> DEFINE m == Message(s, IF parses THEN cause ELSE {}, parses, {})
  <2>2. m.topic = s /\ m.about = {}
    BY DEF Message
  <2>3. TokenMeansAnswer(m) /\ AboutRequest(m) /\ AboutExecution(m)
    BY <1>2, <2>2, StreamMatchesItself DEF TokenMeansAnswer, AboutRequest, AboutExecution
  <2> QED
    BY <2>1, <2>3, PublishStep
<1> QED
  BY <1>1, <1>2

(* A request that is submitted or ends: the messages stay what they are,   *)
(* because an active request stays active with its token.                  *)
LEMMA WireStays ==
    ASSUME RRInv, UNCHANGED operation, wire' \subseteq wire,
           \A r \in Active : r \in Active' /\ token'[r] = token[r]
    PROVE  OnWire'
BY DEF RRInv, OnWire, TokenMeansAnswer, AboutRequest, AboutExecution, Paths, ResponsePaths

LEMMA SubmitStep ==
    ASSUME RRInv, NEW r \in Requests, Submit(r) PROVE RRInv'
<1>1. /\ request[r] = "idle"
      /\ UNCHANGED <<operation, results, events, wire>>
      /\ \/ /\ request' = [request EXCEPT ![r] = "pending"]
            /\ token' = [token EXCEPT ![r] = IF operation[r].token THEN {r} ELSE {}]
         \/ /\ request' = [request EXCEPT ![r] = "refused"]
            /\ UNCHANGED token
  BY DEF Submit, ClientToken
<1>2. RRTypes'
  BY <1>1 DEF RRInv, RRTypes
<1>3. OwnToken'
  BY <1>1 DEF RRInv, RRTypes, OwnToken, Active
<1>4. OneResult'
  BY <1>1 DEF RRInv, RRTypes, OneResult, Answers
<1>5. OnWire'
  BY <1>1, WireStays DEF RRInv, RRTypes, Active
<1>6. ExecutionsFit'
  BY <1>1 DEF RRInv, ExecutionsFit
<1> QED
  BY <1>2, <1>3, <1>4, <1>5, <1>6 DEF RRInv

LEMMA CompletionStep ==
    ASSUME RRInv, NEW r \in Pending, NEW result, Answers(r, result),
           request' = [request EXCEPT ![r] = "completed"],
           results' = [results EXCEPT ![r] = results[r] \o <<result>>],
           UNCHANGED <<operation, token>>, wire' \subseteq wire, ExecutionsFit'
    PROVE  RRInv'
<1>1. r \in Requests /\ request[r] = "pending" /\ results[r] = <<>>
  BY DEF Pending, RRInv, OneResult
<1>2. RRTypes'
  BY <1>1 DEF RRInv, RRTypes
<1>3. OwnToken'
  BY <1>1 DEF RRInv, RRTypes, OwnToken, Active
<1>4. OneResult'
  <2>1. results'[r] = <<result>>
    BY <1>1 DEF RRInv, RRTypes
  <2>2. \A q \in Requests \ {r} : results'[q] = results[q] /\ request'[q] = request[q]
    BY DEF RRInv, RRTypes
  <2>3. request'[r] = "completed"
    BY <1>1 DEF RRInv, RRTypes
  <2>4. \A q, a : Answers(q, a)' <=> Answers(q, a)
    BY DEF Answers
  <2>5. ASSUME NEW q \in Requests, q # r
        PROVE  IF request'[q] = "completed"
               THEN results'[q] = <<results'[q][1]>> /\ Answers(q, results'[q][1])
               ELSE results'[q] = <<>>
    BY <2>2, <2>5 DEF RRInv, OneResult
  <2>6. results'[r] = <<results'[r][1]>> /\ Answers(r, results'[r][1])
    BY <2>1
  <2> QED
    BY <2>3, <2>4, <2>5, <2>6 DEF OneResult
<1>5. OnWire'
  BY <1>1, WireStays DEF RRInv, RRTypes, Active
<1> QED
  BY <1>2, <1>3, <1>4, <1>5 DEF RRInv

LEMMA RequestFailsStep ==
    ASSUME RRInv, NEW r \in Requests, RequestFails(r) PROVE RRInv'
<1> DEFINE result == [kind |-> "unmodeled", from |-> Message(<<>>, {}, FALSE, {})]
<1>1. r \in Pending /\ results[r] = <<>>
  BY DEF RequestFails, Pending, RRInv, OneResult
<1>2. Answers(r, result)
  BY DEF Answers
<1>3. Append(results[r], result) = results[r] \o <<result>>
  BY <1>1
<1>4. ExecutionsFit'
  BY DEF RequestFails, RRInv, ExecutionsFit
<1> QED
  BY <1>1, <1>2, <1>3, <1>4, CompletionStep DEF RequestFails

-----------------------------------------------------------------------------
(* The delivery of a message.                                              *)

(* A request a message completes is answered by it.                        *)
LEMMA CompletesAnswers ==
    ASSUME RRInv, NEW m \in wire, NEW r \in Completes(m)
    PROVE  /\ r \in Pending
           /\ \E result : ResponseHandler(r, m) = <<result>> /\ Answers(r, result)
<1>1. r \in Pending /\ r \in Requests /\ r \in Active
  BY DEF Completes, Pending, Active
<1>2. operation[r].token => m.about = {r}
  <2> SUFFICES ASSUME operation[r].token PROVE m.about = {r}
    OBVIOUS
  <2>1. token[r] = {r}
    BY <1>1 DEF RRInv, OwnToken
  <2>2. m.token = {r} /\ \E q \in Pending : m.topic \in Paths(q)
    BY <2>1 DEF Completes
  <2>3. m.topic \notin Streams
    BY <2>2, NoStreamIsPath DEF Pending, RRInv
  <2> QED
    BY <1>1, <2>2, <2>3 DEF RRInv, OnWire, TokenMeansAnswer
<1>3. ASSUME ~m.parses
      PROVE  \E result : ResponseHandler(r, m) = <<result>> /\ Answers(r, result)
  BY <1>3 DEF ResponseHandler, Answers
<1>4. ASSUME m.parses
      PROVE  \E result : ResponseHandler(r, m) = <<result>> /\ Answers(r, result)
  <2>1. CASE m.topic = operation[r].accepted
    BY <1>1, <1>2, <1>4, <2>1, PathsOfOperations DEF ResponseHandler, Answers, RRInv
  <2>2. CASE m.topic # operation[r].accepted /\ m.topic = operation[r].rejected
    <3> DEFINE result == [kind |-> "modeled error", from |-> m]
    <3>1. ResponseHandler(r, m) = <<result>>
      BY <1>4, <2>2 DEF ResponseHandler
    <3>2. result.kind # "response" /\ result.from = m
      OBVIOUS
    <3>3. m.topic = ServiceTopic(operation[r].publish, "rejected")
      BY <1>1, <2>2, PathsOfOperations DEF RRInv
    <3> QED
      BY <1>2, <1>4, <3>1, <3>2, <3>3 DEF Answers
  <2>3. CASE m.topic # operation[r].accepted /\ m.topic # operation[r].rejected
    <3> DEFINE result == [kind |-> "unmodeled", from |-> m]
    <3>1. ResponseHandler(r, m) = <<result>>
      BY <1>4, <2>3 DEF ResponseHandler
    <3> QED
      BY <3>1 DEF Answers
  <2> QED
    BY <2>1, <2>2, <2>3
<1> QED
  BY <1>1, <1>3, <1>4

LEMMA DeliverStep ==
    ASSUME RRInv, NEW m \in wire, Deliver(m) PROVE RRInv'
<1>1. wire' \subseteq wire /\ UNCHANGED <<operation, token>>
  BY DEF Deliver
<1>2. ExecutionsFit'
  <2>1. events' = [s \in Streams |->
            IF stream[s] = "open" /\ Matches(s, m.topic)
            THEN events[s] \cup ModeledEvent(m) ELSE events[s]]
    BY DEF Deliver
  <2>2. ASSUME NEW s \in Streams, s[2] = "commands", NEW e \in events'[s]
        PROVE  e.execution = e.from.about
    <3>1. CASE e \in events[s]
      BY <2>2, <3>1 DEF RRInv, ExecutionsFit
    <3>2. CASE e \notin events[s]
      <4>1. Matches(s, m.topic) /\ e \in ModeledEvent(m)
        BY <2>1, <2>2, <3>2
      <4>2. m.topic[2] = "commands"
        <5>1. s \in Seq(STRING) /\ Len(s) >= 2
          BY TopicsAssumption DEF EventFilter
        <5> QED
          BY <2>2, <4>1, <5>1 DEF Matches
      <4>3. e.from = m /\ e.execution = {m.topic[6]}
        BY <4>1, <4>2 DEF ModeledEvent
      <4>4. m.about = {m.topic[6]}
        BY <2>2, <4>1 DEF RRInv, OnWire, AboutExecution
      <4> QED
        BY <4>3, <4>4
    <3> QED
      BY <3>1, <3>2
  <2> QED
    BY <2>1, <2>2 DEF ExecutionsFit
<1>3. CASE UNCHANGED <<request, results>>
  <2>1. OnWire'
    BY <1>1, <1>3, WireStays DEF Active
  <2> QED
    BY <1>1, <1>2, <1>3, <2>1 DEF RRInv, RRTypes, OwnToken, OneResult, Answers, Active
<1>4. CASE \E r \in Completes(m) :
               /\ request' = [request EXCEPT ![r] = "completed"]
               /\ results' = [results EXCEPT ![r] = results[r] \o ResponseHandler(r, m)]
  <2>1. PICK r \in Completes(m) :
               /\ request' = [request EXCEPT ![r] = "completed"]
               /\ results' = [results EXCEPT ![r] = results[r] \o ResponseHandler(r, m)]
    BY <1>4
  <2>2. PICK result : ResponseHandler(r, m) = <<result>> /\ Answers(r, result)
    BY CompletesAnswers
  <2> QED
    BY <1>1, <1>2, <2>1, <2>2, CompletesAnswers, CompletionStep
<1> QED
  BY <1>3, <1>4 DEF Deliver

LEMMA StreamSteps ==
    ASSUME RRInv, NEW s \in Streams, CreateStream(s) \/ OpenStream(s) PROVE RRInv'
<1>1. UNCHANGED <<operation, request, token, results, events, wire>>
  BY DEF CreateStream, OpenStream
<1>2. OnWire'
  BY <1>1, WireStays DEF Active
<1> QED
  BY <1>1, <1>2 DEF RRInv, RRTypes, OwnToken, OneResult, Answers, ExecutionsFit, Active

LEMMA NextRR == ASSUME RRInv, RRNext PROVE RRInv'
BY SubmitStep, ServiceAnswersStep, RequestFailsStep, StreamSteps, EventPublishedStep,
   OtherClientStep, DeliverStep
DEF RRNext

LEMMA RRInvariant == Spec => []RRInv
<1>1. Init => RRInv
  BY InitRR DEF Init
<1>2. RRInv /\ [Next]_vars => RRInv'
  <2> SUFFICES ASSUME RRInv, [Next]_vars PROVE RRInv'
    OBVIOUS
  <2>1. CASE RRNext
    BY <2>1, NextRR
  <2>2. CASE UNCHANGED rrVars
    <3>1. UNCHANGED <<operation, request, token, results, stream, events, wire>>
      BY <2>2 DEF rrVars
    <3>2. OnWire'
      BY <3>1, WireStays DEF Active
    <3> QED
      BY <3>1, <3>2 DEF RRInv, RRTypes, OwnToken, OneResult, Answers, ExecutionsFit, Active
  <2> QED
    BY <2>1, <2>2 DEF Next, vars
<1> QED
  BY <1>1, <1>2, PTL DEF Spec

(* A handler gets one result, never for a refused request, and an answer   *)
(* it gets is the one to its own request when the operation has a token,   *)
(* for any operations and streams whose topics are as assumed (the clients *)
(* wrap every handler, replace the token and compare the response topic).  *)
THEOREM ResultsAreAnswers == Spec => []ResultIsAnswer
<1>1. RRInv => ResultIsAnswer
  <2> SUFFICES ASSUME RRInv PROVE ResultIsAnswer
    OBVIOUS
  <2>1. ASSUME NEW r \in Requests
        PROVE  /\ Len(results[r]) = IF request[r] = "completed" THEN 1 ELSE 0
               /\ \A i \in DOMAIN results[r] : Answers(r, results[r][i])
    <3>1. CASE request[r] = "completed"
      <4>1. PICK a : results[r] = <<a>> /\ Answers(r, a)
        BY <3>1 DEF RRInv, OneResult
      <4> QED
        BY <3>1, <4>1
    <3>2. CASE request[r] # "completed"
      <4>1. results[r] = <<>>
        BY <3>2 DEF RRInv, OneResult
      <4> QED
        BY <3>2, <4>1
    <3> QED
      BY <3>1, <3>2
  <2> QED
    BY <2>1 DEF ResultIsAnswer, Answers, RRInv, ExecutionsFit
<1> QED
  BY <1>1, RRInvariant, PTL

(* A parsable answer to a pending request completes a pending request when *)
(* it is delivered, that request itself when its operation has a token     *)
(* (the subscribed filters, response paths and tokens the operations give  *)
(* to the request-response client).                                        *)
LEMMA DeliveryHeard ==
    ASSUME RRInv, NEW m \in wire, Deliver(m), NEW r \in m.about \cap Pending, m.parses
    PROVE  \E q \in Pending : /\ Len(results'[q]) > Len(results[q])
                              /\ operation[r].token => q = r
<1>1. r \in Requests /\ m.topic \in Paths(r) /\ m.token = token[r]
  BY DEF RRInv, OnWire, AboutRequest, Pending
<1>2. \E f \in Subscribed : Matches(f, m.topic)
  BY <1>1, PathsOfOperations DEF RRInv, Subscribed
<1> DEFINE carries == \E q \in Pending : m.topic \in Paths(q) /\ operation[q].token
<1>3. carries <=> operation[r].token
  BY <1>1, PathsOfOperations DEF RRInv, Pending
<1>4. token[r] = IF operation[r].token THEN {r} ELSE {}
  BY <1>1 DEF RRInv, OwnToken, Active, Pending
<1>5. r \in Completes(m)
  BY <1>1, <1>3, <1>4 DEF Completes
<1>6. PICK q \in Completes(m) :
          results' = [results EXCEPT ![q] = results[q] \o ResponseHandler(q, m)]
  BY <1>2, <1>5 DEF Deliver
<1>7. q \in Pending /\ q \in Requests
  BY DEF Completes, Pending
<1>8. PICK result : ResponseHandler(q, m) = <<result>>
  BY CompletesAnswers
<1>9. Len(results'[q]) > Len(results[q])
  <2>1. results[q] = <<>>
    BY <1>7 DEF RRInv, OneResult, Pending
  <2>2. results'[q] = results[q] \o <<result>>
    BY <1>6, <1>7, <1>8 DEF RRInv, RRTypes
  <2> QED
    BY <2>1, <2>2
<1>10. operation[r].token => q = r
  <2> SUFFICES ASSUME operation[r].token PROVE q = r
    OBVIOUS
  <2>1. token[q] = {r}
    BY <1>1, <1>3, <1>4 DEF Completes
  <2> QED
    BY <1>7, <2>1 DEF RRInv, OwnToken
<1> QED
  BY <1>7, <1>9, <1>10

LEMMA StepsHear ==
    ASSUME RRInv, [Next]_vars, NEW m \in wire \ wire', NEW r \in m.about \cap Pending, m.parses
    PROVE  \E q \in Pending : /\ Len(results'[q]) > Len(results[q])
                              /\ operation[r].token => q = r
<1>1. RRNext
  BY DEF Next, vars, rrVars
<1>2. PICK n \in wire : Deliver(n)
  BY <1>1 DEF RRNext, Submit, ServiceAnswers, RequestFails, CreateStream, OpenStream,
              EventPublished, OtherClientAnswered, Publish
<1>3. n = m
  BY <1>2 DEF Deliver
<1> QED
  BY <1>2, <1>3, DeliveryHeard

(* As above, of every step: no answer to a pending request is overlooked.  *)
THEOREM AnswersAreHeard == Spec => AnswerHeard
<1>1. RRInv /\ [Next]_vars =>
        [\A m \in wire \ wire' : \A r \in m.about \cap Pending :
          m.parses =>
             \E q \in Pending : /\ Len(results'[q]) > Len(results[q])
                                /\ operation[r].token => q = r]_rrVars
  BY StepsHear
<1> QED
  BY <1>1, RRInvariant, PTL DEF Spec, AnswerHeard
=============================================================================
