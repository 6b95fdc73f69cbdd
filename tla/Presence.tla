------------------------------ MODULE Presence ------------------------------
(***************************************************************************)
(* Who is connected: the tables of sockets that WaitingRoomGateway and     *)
(* PaymentEventsGateway keep, each in its namespace, for one event and one *)
(* order; and the clean-up of the queue after a user went away.            *)
(*                                                                         *)
(* server.sockets of a gateway in a namespace is the map of its sockets    *)
(* itself, so that server.sockets.sockets.get throws: whoever looks up a   *)
(* socket gets no answer but an exception.                                 *)
(*                                                                         *)
(* A gateway files a socket under the subject of its token.  The token     *)
(* that registration signs names the user; every token that login signs    *)
(* has the same subject.  The queue holds users by the id in the token,    *)
(* which only the token of login has.                                      *)
(***************************************************************************)
EXTENDS Naturals, Sequences, FiniteSets, SequencesExt

CONSTANTS
    Visitors,
    SignedBy,       \* what signed a visitor's token: "login" or "register"
    Sockets,        \* bound: connections that may be opened
    Owner, Space,   \* the visitor and the namespace of a socket
    MaxConnections

ASSUME PresenceAssumption ==
    /\ SignedBy \in [Visitors -> {"login", "register"}]
    /\ Owner \in [Sockets -> Visitors]
    /\ Space \in [Sockets -> {"waiting-room", "payment-events"}]
    /\ MaxConnections \in Nat \ {0, 1}

VARIABLES
    conn,     \* state of each connection
    filed,    \* userSockets of each gateway, in the order of insertion
    room,     \* sockets in the room of the event, or of the order
    waiting,  \* wr:queue
    cleanup   \* clean-up messages, named by the socket that went

presenceVars == <<conn, filed, room, waiting, cleanup>>

Spaces == {"waiting-room", "payment-events"}
Tag(u) == IF SignedBy[u] = "login" THEN "token login" ELSE u
Name(u) == IF SignedBy[u] = "login" THEN u ELSE "undefined"
Tags == {Tag(u) : u \in Visitors}
TagOf(s) == Tag(Owner[s])

\* "left" went while the token was verified, and is a "ghost" when it is filed
\* all the same; "closed" is over.
Conn == {"away", "verifying", "left", "open", "ghost", "closed"}

PresenceTypeOK ==
    /\ conn \in [Sockets -> Conn]
    /\ filed \in [Spaces -> [Tags -> Seq(Sockets)]]
    /\ room \subseteq Sockets
    /\ waiting \subseteq {Name(u) : u \in Visitors}
    /\ cleanup \subseteq Sockets

PresenceInit ==
    /\ conn = [s \in Sockets |-> "away"]
    /\ filed = [n \in Spaces |-> [t \in Tags |-> <<>>]]
    /\ room = {} /\ waiting = {} /\ cleanup = {}

-----------------------------------------------------------------------------
(* Connections                                                             *)

\* isUserConnected: not connected if no socket is filed under the tag; it
\* throws at the first one otherwise.
NotConnected(t) == filed["waiting-room"][t] = <<>>

\* Set.delete: the others keep their order.
Without(list, s) ==
    IF s \in ToSet(list) THEN RemoveAt(list, CHOOSE i \in DOMAIN list : list[i] = s) ELSE list

\* The client calls; its token goes to be verified.
Dial(s) ==
    /\ conn[s] = "away"
    /\ conn' = [conn EXCEPT ![s] = "verifying"]
    /\ UNCHANGED <<filed, room, waiting, cleanup>>

\* There is no token, or it is not valid.
Rejected(s) ==
    /\ conn[s] = "verifying"
    /\ conn' = [conn EXCEPT ![s] = "closed"]
    /\ room' = room \ {s}
    /\ UNCHANGED <<filed, waiting, cleanup>>

\* The client goes before it is filed: handleDisconnect finds no user.
GoneEarly(s) ==
    /\ conn[s] = "verifying"
    /\ conn' = [conn EXCEPT ![s] = "left"]
    /\ room' = room \ {s}
    /\ UNCHANGED <<filed, waiting, cleanup>>

\* The token is valid and the list is not full: the socket is filed, also one
\* that has left by now.
Accepted(s) ==
    /\ conn[s] \in {"verifying", "left"}
    /\ Len(filed[Space[s]][TagOf(s)]) < MaxConnections
    /\ conn' = [conn EXCEPT ![s] = IF @ = "left" THEN "ghost" ELSE "open"]
    /\ filed' = [filed EXCEPT ![Space[s]][TagOf(s)] = Append(@, s)]
    /\ UNCHANGED <<room, waiting, cleanup>>

\* The list is full: the lookup of the oldest socket, which was to be
\* disconnected, throws, and the new one is disconnected.
TurnedAway(s) ==
    /\ conn[s] \in {"verifying", "left"}
    /\ Len(filed[Space[s]][TagOf(s)]) >= MaxConnections
    /\ conn' = [conn EXCEPT ![s] = "closed"]
    /\ room' = room \ {s}
    /\ UNCHANGED <<filed, waiting, cleanup>>

\* Mutant: the socket stays in the list.
DisconnectedOnly(s) ==
    /\ conn[s] = "open" /\ Space[s] = "waiting-room"
    /\ conn' = [conn EXCEPT ![s] = "closed"]
    /\ room' = room \ {s}
    /\ UNCHANGED <<filed, waiting, cleanup>>

\* handleDisconnect of the waiting room: a clean-up message is sent when the
\* tag has no socket left; with others left the lookup throws, and there is
\* no message.
Disconnected(s) ==
    /\ conn[s] = "open" /\ Space[s] = "waiting-room"
    /\ conn' = [conn EXCEPT ![s] = "closed"]
    /\ filed' = [filed EXCEPT !["waiting-room"][TagOf(s)] = Without(@, s)]
    /\ room' = room \ {s}
    /\ cleanup' = IF s \in room /\ NotConnected(TagOf(s))' THEN cleanup \cup {s} ELSE cleanup
    /\ UNCHANGED waiting

\* handleDisconnect of the payment events.
Unsubscribed(s) ==
    /\ conn[s] = "open" /\ Space[s] = "payment-events"
    /\ conn' = [conn EXCEPT ![s] = "closed"]
    /\ filed' = [filed EXCEPT !["payment-events"][TagOf(s)] = Without(@, s)]
    /\ room' = room \ {s}
    /\ UNCHANGED <<waiting, cleanup>>

-----------------------------------------------------------------------------
(* Rooms and the queue                                                     *)

JoinRoom(s) ==
    /\ Space[s] = "waiting-room" /\ conn[s] = "open"
    /\ room' = room \cup {s}
    /\ UNCHANGED <<conn, filed, waiting, cleanup>>

LeaveRoom(s) ==
    /\ Space[s] = "waiting-room" /\ conn[s] = "open"
    /\ room' = room \ {s}
    /\ UNCHANGED <<conn, filed, waiting, cleanup>>

\* The rooms of the payment events do not ask who the socket belongs to.
Subscribe(s) ==
    /\ Space[s] = "payment-events" /\ conn[s] \in {"verifying", "open"}
    /\ \/ room' = room \cup {s}
       \/ room' = room \ {s}
    /\ UNCHANGED <<conn, filed, waiting, cleanup>>

\* The request that joins the queue (module WaitingRoom) names the user.
Enqueue(u) ==
    /\ waiting' = waiting \cup {Name(u)}
    /\ UNCHANGED <<conn, filed, room, cleanup>>

\* WrDisconnectConsumer, a minute later: the tag is taken out of the queue.
CleanUp(s) ==
    /\ s \in cleanup
    /\ NotConnected(TagOf(s))
    /\ cleanup' = cleanup \ {s}
    /\ waiting' = waiting \ {TagOf(s)}
    /\ UNCHANGED <<conn, filed, room>>

\* A socket is filed by then: the lookup throws, the message is published
\* again, and it is given up when that goes on (module Delivery).
CleanUpGivenUp(s) ==
    /\ s \in cleanup
    /\ ~NotConnected(TagOf(s))
    /\ cleanup' = cleanup \ {s}
    /\ UNCHANGED <<conn, filed, room, waiting>>

PresenceNext ==
    \/ \E s \in Sockets :
          \/ Dial(s) \/ Rejected(s) \/ GoneEarly(s) \/ Accepted(s) \/ TurnedAway(s)
          \/ Disconnected(s) \/ Unsubscribed(s)
          \/ JoinRoom(s) \/ LeaveRoom(s) \/ Subscribe(s)
          \/ CleanUp(s) \/ CleanUpGivenUp(s)
    \/ \E u \in Visitors : Enqueue(u)

PresenceSpec == PresenceInit /\ [][PresenceNext]_presenceVars

-----------------------------------------------------------------------------
(* Properties *)

\* A list holds the open sockets of its tag and namespace, and those that had
\* left before they were filed, and never more than MaxConnections: no other
\* socket keeps a newcomer out, whatever was refused and whoever went.
ConnectionsBounded ==
    \A n \in Spaces, t \in Tags :
        /\ Len(filed[n][t]) <= MaxConnections
        /\ ToSet(filed[n][t]) =
              {s \in Sockets : Space[s] = n /\ TagOf(s) = t /\ conn[s] \in {"open", "ghost"}}

=============================================================================
