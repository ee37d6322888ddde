---------------------------- MODULE SecureTunnel ----------------------------
(***************************************************************************)
(* The secure tunnel of a device: a notification on the thing's tunnel     *)
(* topic carries an access token, the application builds a SecureTunnel    *)
(* from it, starts and stops it, sends on it, moves and destroys it.  The  *)
(* object owns one reference to a native tunnel, which calls back with the *)
(* address the object had when it was constructed.  The native tunnel is   *)
(* external: it connects, reconnects, streams and stops on its own, and    *)
(* may go on calling for a while after its last reference is released.     *)
(***************************************************************************)
EXTENDS Naturals, Sequences, FiniteSets, SequencesExt

CONSTANTS
    Objects,        \* the SecureTunnel objects there ever are
    Tunnels         \* the native tunnels there ever are

ASSUME ObjectsAssumption == IsFiniteSet(Objects) /\ IsFiniteSet(Tunnels)

VARIABLES
    notification,   \* "none", "subscribing", "subscribed" or "offered" (a token)
    object,         \* "none", "alive" or "destroyed"
    handle,         \* m_secure_tunnel: {} or {tunnel}
    callbacks,      \* the m_On... functions of an object that are set
    stale,          \* those of its functions that operator= destroyed
    native,         \* the state of a native tunnel
    released,       \* its reference was given back
    userData,       \* config.user_data: the set of the object it was created by
    registered,     \* the callbacks it was created with (history)
    sending,        \* a send operation has not completed yet
    told            \* the callback of the last step: {} or {[tunnel, event, called]}

tunnelVars == <<notification, object, handle, callbacks, stale, native, released,
                userData, registered, sending, told>>

----------------------------------------------------------------------------
(* The callbacks a handler of the native tunnel's events looks for, in     *)
(* order: the deprecated one only serves when the new one is not set.      *)
Preference ==
    [connected         |-> <<"OnConnectionSuccess", "OnConnectionComplete">>,
     connectFailed     |-> <<"OnConnectionFailure">>,
     shutdown          |-> <<"OnConnectionShutdown">>,
     sent              |-> <<"OnSendMessageComplete", "OnSendDataComplete">>,
     message           |-> <<"OnMessageReceived", "OnDataReceive">>,
     streamStarted     |-> <<"OnStreamStarted", "OnStreamStart">>,
     streamFailed      |-> <<>>,
     streamStopped     |-> <<"OnStreamStopped", "OnStreamReset">>,
     connectionStarted |-> <<"OnConnectionStarted">>,
     connectionFailed  |-> <<>>,
     connectionReset   |-> <<"OnConnectionReset">>,
     sessionReset      |-> <<"OnSessionReset">>,
     stopped           |-> <<"OnStopped">>]

AllCallbacks == UNION {ToSet(Preference[e]) : e \in DOMAIN Preference}

\* What the deprecated constructors can set.
Deprecated == {"OnConnectionComplete", "OnConnectionShutdown", "OnSendDataComplete",
               "OnDataReceive", "OnStreamStart", "OnStreamReset", "OnSessionReset"}

\* What an application registers: the new ones, the old ones, all or none.
Registrations == {AllCallbacks \ (Deprecated \ {"OnConnectionShutdown", "OnSessionReset"}),
            Deprecated, AllCallbacks, {}}

\* The callbacks an event's handler calls on an object with some set.
Called(event, set) ==
    LET preferred == SelectSeq(Preference[event], LAMBDA f : f \in set)
    IN  IF preferred = <<>> THEN {} ELSE {Head(preferred)}

Silent == told' = {}

----------------------------------------------------------------------------
(* The notification client.                                                *)

SubscribeToTunnelsNotify ==
    /\ notification = "none"
    /\ notification' = "subscribing"
    /\ Silent
    /\ UNCHANGED <<object, handle, callbacks, stale, native, released, userData, registered, sending>>

\* onSubscribeComplete: an error goes to the handler as well as to onSubAck.
SubscribeCompletes ==
    /\ notification = "subscribing"
    /\ notification' \in {"subscribed", "none"}
    /\ Silent
    /\ UNCHANGED <<object, handle, callbacks, stale, native, released, userData, registered, sending>>

\* onSubscribePublish: the handler gets a response whatever the payload is;
\* only one that parses has a token to build a tunnel from.
Notified ==
    /\ notification = "subscribed"
    /\ \E parses \in BOOLEAN : notification' = IF parses THEN "offered" ELSE notification
    /\ Silent
    /\ UNCHANGED <<object, handle, callbacks, stale, native, released, userData, registered, sending>>

----------------------------------------------------------------------------
(* The object.                                                             *)

\* Build, or a deprecated constructor, with the token at hand: an object
\* without a native tunnel is destroyed by Build and kept by a constructor.
Construct(o, set) ==
    /\ notification = "offered" /\ notification' = "subscribed"
    /\ object[o] = "none"
    /\ callbacks' = [callbacks EXCEPT ![o] = set]
    /\ \/ \E c \in Tunnels :
             /\ native[c] = "none"
             /\ native' = [native EXCEPT ![c] = "stopped"]
             /\ userData' = [userData EXCEPT ![c] = {o}]
             /\ registered' = [registered EXCEPT ![c] = set]
             /\ handle' = [handle EXCEPT ![o] = {c}]
             /\ object' = [object EXCEPT ![o] = "alive"]
       \/ /\ \/ object' = [object EXCEPT ![o] = "destroyed"]
             \/ set \subseteq Deprecated /\ object' = [object EXCEPT ![o] = "alive"]
          /\ UNCHANGED <<native, userData, registered, handle>>
    /\ Silent
    /\ UNCHANGED <<stale, released, sending>>

\* mutant: the moved-from object keeps its pointer.
HandleAfterMoveKept(o) == handle[o]

\* What other.m_secure_tunnel is set to once it has been moved from.
HandleAfterMove(o) == {}

\* The functions a move takes along: OnStreamStopped stays where it is.
Movable(o) == callbacks[o] \ {"OnStreamStopped"}

\* A new object made of another; the native tunnel still calls the old one.
MoveConstruct(o, other) ==
    /\ object[o] = "none" /\ object[other] = "alive"
    /\ object' = [object EXCEPT ![o] = "alive"]
    /\ handle' = [handle EXCEPT ![o] = handle[other], ![other] = HandleAfterMove(other)]
    /\ callbacks' = [callbacks EXCEPT ![o] = Movable(other), ![other] = @ \ Movable(other)]
    /\ stale' = [stale EXCEPT ![o] = stale[other] \ {"OnStreamStopped"}]
    /\ Silent
    /\ UNCHANGED <<notification, native, released, userData, registered, sending>>

\* The functions of an object that its destructor leaves unusable, though they
\* are then assigned to: none that owns no memory, or all, as one that does is
\* destroyed twice.  OnStreamStopped is not assigned to.
Destroyed(o) ==
    {callbacks[o] \cap {"OnStreamStopped"}} \cup (IF Movable(o) = {} THEN {} ELSE {AllCallbacks})

\* The assignment runs its own destructor first.
MoveAssign(o, other) ==
    /\ o # other /\ object[o] = "alive" /\ object[other] = "alive"
    /\ released' = [c \in Tunnels |-> released[c] \/ c \in handle[o]]
    /\ handle' = [handle EXCEPT ![o] = handle[other], ![other] = HandleAfterMove(other)]
    /\ callbacks' = [callbacks EXCEPT
          ![o] = Movable(other) \cup (@ \ Movable(o)), ![other] = @ \ Movable(other)]
    /\ \E lost \in Destroyed(o) :
          stale' = [stale EXCEPT ![o] = lost \cup (stale[other] \ {"OnStreamStopped"})]
    /\ Silent
    /\ UNCHANGED <<notification, object, native, userData, registered, sending>>

Destroy(o) ==
    /\ object[o] = "alive"
    /\ object' = [object EXCEPT ![o] = "destroyed"]
    /\ released' = [c \in Tunnels |-> released[c] \/ c \in handle[o]]
    /\ handle' = [handle EXCEPT ![o] = {}]
    /\ Silent
    /\ UNCHANGED <<notification, callbacks, stale, native, userData, registered, sending>>

\* Start, Connect.
Start(o) ==
    /\ \E c \in handle[o] :
          /\ native[c] = "stopped"
          /\ native' = [native EXCEPT ![c] = "connecting"]
    /\ Silent
    /\ UNCHANGED <<notification, object, handle, callbacks, stale, released, userData, registered, sending>>

\* Stop, Close, Shutdown.
Stop(o) ==
    /\ \E c \in handle[o] :
          /\ native[c] \in {"connecting", "connected"}
          /\ native' = [native EXCEPT ![c] = "stopping"]
    /\ Silent
    /\ UNCHANGED <<notification, object, handle, callbacks, stale, released, userData, registered, sending>>

\* SendMessage, SendData, SendStreamStart, SendConnectionStart and
\* SendStreamReset: one operation of the native tunnel, refused or queued.
Send(o) ==
    /\ \E c \in handle[o] :
          /\ ~sending[c]
          /\ \E accepted \in BOOLEAN : sending' = [sending EXCEPT ![c] = accepted]
    /\ Silent
    /\ UNCHANGED <<notification, object, handle, callbacks, stale, native, released, userData, registered>>

----------------------------------------------------------------------------
(* The native tunnel.                                                      *)

\* Where the tunnel is after an event it may report in its state.
AfterEvent(c, event) ==
    CASE event = "connected"     -> IF native[c] = "connecting" THEN {"connected"} ELSE {}
      [] event = "connectFailed" -> IF native[c] = "connecting" THEN {"connecting"} ELSE {}
      [] event = "shutdown"      -> CASE native[c] = "connected" -> {"connecting"}
                                      [] native[c] = "stopping"  -> {"stopping"}
                                      [] OTHER                   -> {}
      [] event = "sent"          -> IF sending[c] THEN {native[c]} ELSE {}
      [] event = "stopped"       -> IF native[c] = "stopping" /\ ~sending[c]
                                    THEN {"stopped"} ELSE {}
      [] OTHER                   -> IF native[c] = "connected" THEN {"connected"} ELSE {}

\* What the handler of an event calls on an object.  Behind a destroyed object,
\* or in the place of a destroyed function, there is nothing to call: what the
\* handler does is undefined, and the step says so.
Invoked(o, event) ==
    LET called == Called(event, callbacks[o])
    IN  IF object[o] = "alive" /\ called \cap stale[o] = {} THEN called ELSE {"undefined"}

\* An s_On... handler: the object behind user_data is asked for its callback.
Callback(c, event) ==
    /\ \E next \in AfterEvent(c, event) : native' = [native EXCEPT ![c] = next]
    /\ sending' = [sending EXCEPT ![c] = @ /\ event # "sent"]
    /\ \E o \in userData[c] :
          told' = {[tunnel |-> c, event |-> event, called |-> Invoked(o, event)]}
    /\ UNCHANGED <<notification, object, handle, callbacks, stale, released, userData, registered>>

\* The native tunnel is gone once it was released: no more callbacks.
Terminates(c) ==
    /\ released[c] /\ native[c] \notin {"none", "gone"}
    /\ native' = [native EXCEPT ![c] = "gone"]
    /\ sending' = [sending EXCEPT ![c] = FALSE]
    /\ Silent
    /\ UNCHANGED <<notification, object, handle, callbacks, stale, released, userData, registered>>

----------------------------------------------------------------------------
TunnelInit ==
    /\ notification = "none"
    /\ object = [o \in Objects |-> "none"]
    /\ handle = [o \in Objects |-> {}]
    /\ callbacks = [o \in Objects |-> {}]
    /\ stale = [o \in Objects |-> {}]
    /\ native = [c \in Tunnels |-> "none"]
    /\ released = [c \in Tunnels |-> FALSE]
    /\ userData = [c \in Tunnels |-> {}]
    /\ registered = [c \in Tunnels |-> {}]
    /\ sending = [c \in Tunnels |-> FALSE]
    /\ told = {}

TunnelNext ==
    \/ SubscribeToTunnelsNotify \/ SubscribeCompletes \/ Notified
    \/ \E o \in Objects, set \in Registrations : Construct(o, set)
    \/ \E o, other \in Objects : MoveConstruct(o, other) \/ MoveAssign(o, other)
    \/ \E o \in Objects : Destroy(o) \/ Start(o) \/ Stop(o) \/ Send(o)
    \/ \E c \in Tunnels, event \in DOMAIN Preference : Callback(c, event)
    \/ \E c \in Tunnels : Terminates(c)

----------------------------------------------------------------------------
(* Over any sequence of constructions, moves, assignments and destructions *)
(* a native tunnel that exists and was not released has exactly one owner, *)
(* a released one has none.  Its events are told as the application asked  *)
(* when it was built, one call each and the deprecated callback only for   *)
(* want of the new one, as long as the owner is the object it was built    *)
(* with, also after a move away and back, unless the function to call is   *)
(* one that an assignment to the owner destroyed: OnStreamStopped always,  *)
(* the others if they own memory.  Elsewhere nothing is promised: the      *)
(* moves leave user_data at the old object, destroyed or emptied.          *)
OwnerIsTold ==
    /\ \A c \in Tunnels :
          LET owners == {o \in Objects : object[o] = "alive" /\ handle[o] = {c}}
          IN  Cardinality(owners) = IF native[c] = "none" \/ released[c] THEN 0 ELSE 1
    /\ \A t \in told, o \in Objects :
          LET asked == Called(t.event, registered[t.tunnel])
          IN  userData[t.tunnel] = {o} /\ handle[o] = {t.tunnel} /\ asked \cap stale[o] = {} =>
                  t.called = asked
=============================================================================
