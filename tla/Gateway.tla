------------------------------ MODULE Gateway -------------------------------
(***************************************************************************)
(* WebsocketsGateway: a connection proves who its user is, joins the       *)
(* user's room and is told so; the queue emits events to the room.         *)
(* handleConnection awaits the token and the user, meanwhile the client    *)
(* may go, events are emitted and users are deleted.  A reconnecting       *)
(* client is a socket of its own.  Every instance of the server has rooms  *)
(* of its own (the Redis adapter that would join them is never installed). *)
(***************************************************************************)
EXTENDS Naturals, Sequences

CONSTANTS
  Socket,    \* connections
  User,
  Event,     \* what is emitted to a room
  Instance,  \* running servers
  BadToken,  \* an authorization that is missing or not valid
  MaxEvents  \* bound: events emitted to one room

BadTokenAssumption == BadToken \notin User
MaxEventsAssumption == MaxEvents \in Nat

VARIABLES
  users,      \* the users that are not deleted
  handler,    \* where handleConnection is, for each socket
  token,      \* the user of each socket's token
  server,     \* the instance each socket is connected to
  connected,  \* sockets whose transport is open
  room,       \* socket.io's rooms: each instance's sockets of each user
  sent,       \* history: the events emitted to each room
  got,        \* history: the events each socket was sent
  since       \* history: how many events its room had had when it was welcomed

vars == <<users, handler, token, server, connected, room, sent, got, since>>

Init ==
  /\ users = User
  /\ handler = [s \in Socket |-> "new"]
  /\ token = [s \in Socket |-> BadToken]
  /\ server \in [Socket -> Instance]
  /\ connected = {}
  /\ room = [i \in Instance |-> [u \in User |-> {}]]
  /\ sent = [u \in User |-> <<>>]
  /\ got = [s \in Socket |-> <<>>]
  /\ since = [s \in Socket |-> 0]

Goto(s, at) == handler' = [handler EXCEPT ![s] = at]

-----------------------------------------------------------------------------
(* handleConnection *)

Connect(s, t) ==
  /\ handler[s] = "new"
  /\ Goto(s, "verify")
  /\ token' = [token EXCEPT ![s] = t]
  /\ connected' = connected \union {s}
  /\ UNCHANGED <<users, server, room, sent, got, since>>

\* Socket.io takes a socket that closes out of its rooms, and handleDisconnect
\* out of its user's.
LeaveOnly(s) == \* faulty: its transport stays open
  room' = [i \in Instance |-> [u \in User |-> room[i][u] \ {s}]] /\ UNCHANGED connected
Close(s) ==
  /\ connected' = connected \ {s}
  /\ room' = [i \in Instance |-> [u \in User |-> room[i][u] \ {s}]]

\* handleSocketError: the client is told, and disconnected.
Refuse(s) ==
  /\ Goto(s, "refused")
  /\ Close(s)
  /\ UNCHANGED <<users, token, server, sent, got, since>>

VerifyQuietly(s) == \* faulty: an invalid token is not answered
  /\ handler[s] = "verify" /\ token[s] # BadToken
  /\ Goto(s, "find")
  /\ UNCHANGED <<users, token, server, connected, room, sent, got, since>>
\* verifyTokenAndSetUser.
VerifyToken(s) ==
  /\ handler[s] = "verify"
  /\ IF token[s] = BadToken THEN Refuse(s)
     ELSE /\ Goto(s, "find")
          /\ UNCHANGED <<users, token, server, connected, room, sent, got, since>>

FindAnyUser(s) == \* faulty: deleted users are found
  /\ handler[s] = "find"
  /\ Goto(s, "join")
  /\ UNCHANGED <<users, token, server, connected, room, sent, got, since>>
FindUser(s) ==
  /\ handler[s] = "find"
  /\ IF token[s] \notin users THEN Refuse(s)
     ELSE /\ Goto(s, "join")
          /\ UNCHANGED <<users, token, server, connected, room, sent, got, since>>

FindUserFails(s) == handler[s] = "find" /\ Refuse(s)

JoinForgotten(s) == \* faulty: welcomed without joining
  /\ handler[s] = "join"
  /\ Goto(s, "welcome")
  /\ UNCHANGED <<users, token, server, connected, room, sent, got, since>>
JoinAnyway(s) == \* faulty: also a socket that has closed
  /\ handler[s] = "join"
  /\ room' = [room EXCEPT ![server[s]][token[s]] = @ \union {s}]
  /\ Goto(s, "welcome")
  /\ UNCHANGED <<users, token, server, connected, sent, got, since>>
\* Socket.io's join does nothing for a socket that has closed.
Join(s) ==
  /\ handler[s] = "join"
  /\ room' = [room EXCEPT ![server[s]][token[s]] = IF s \in connected THEN @ \union {s} ELSE @]
  /\ Goto(s, "welcome")
  /\ UNCHANGED <<users, token, server, connected, sent, got, since>>

\* The client is told 'connected'; one that has closed hears nothing.
Welcome(s) ==
  /\ handler[s] = "welcome"
  /\ Goto(s, "welcomed")
  /\ since' = [since EXCEPT ![s] = Len(sent[token[s]])]
  /\ UNCHANGED <<users, token, server, connected, room, sent, got>>

-----------------------------------------------------------------------------
\* The client goes, its network does, or it answers no ping: handleDisconnect.
ClientLeaves(s) ==
  /\ s \in connected
  /\ Close(s)
  /\ UNCHANGED <<users, handler, token, server, sent, got, since>>

\* Deleting a user leaves the user's sockets alone.
DeleteUser(u) ==
  /\ u \in users
  /\ users' = users \ {u}
  /\ UNCHANGED <<handler, token, server, connected, room, sent, got, since>>

EmitSwapped(i, u, e) == \* faulty: emits the room's name
  /\ Len(sent[u]) < MaxEvents
  /\ sent' = [sent EXCEPT ![u] = Append(@, e)]
  /\ got' = [s \in Socket |-> IF s \in room[i][u] THEN Append(got[s], u) ELSE got[s]]
  /\ UNCHANGED <<users, handler, token, server, connected, room, since>>
EmitToRoom(i, u, e) ==
  /\ Len(sent[u]) < MaxEvents
  /\ sent' = [sent EXCEPT ![u] = Append(@, e)]
  /\ got' = [s \in Socket |-> IF s \in room[i][u] THEN Append(got[s], e) ELSE got[s]]
  /\ UNCHANGED <<users, handler, token, server, connected, room, since>>

-----------------------------------------------------------------------------
HandleConnection(s) ==
  \/ VerifyToken(s)
  \/ FindUser(s)
  \/ FindUserFails(s)
  \/ Join(s)
  \/ Welcome(s)

SocketNext ==
  \/ \E s \in Socket : \/ \E t \in User \union {BadToken} : Connect(s, t)
                       \/ HandleConnection(s)
                       \/ ClientLeaves(s)
  \/ \E u \in User : DeleteUser(u)

Next == SocketNext \/ \E i \in Instance, u \in User, e \in Event : EmitToRoom(i, u, e)

\* What handleConnection awaits returns.
Fairness == \A s \in Socket : WF_vars(HandleConnection(s))

Spec == Init /\ [][Next]_vars /\ Fairness

-----------------------------------------------------------------------------
TypeOK ==
  /\ users \subseteq User
  /\ handler \in [Socket -> {"new", "verify", "find", "join", "welcome",
                             "welcomed", "refused"}]
  /\ token \in [Socket -> User \union {BadToken}]
  /\ connected \subseteq Socket
  /\ server \in [Socket -> Instance]
  /\ room \in [Instance -> [User -> SUBSET Socket]]
  /\ sent \in [User -> Seq(Event)]
  /\ got \in [Socket -> Seq(Event)]
  /\ since \in [Socket -> Nat]

(* A room holds open sockets of its user only, though a client may leave   *)
(* at any point of handleConnection, which then goes on to join.           *)
RoomsHoldTheirOwn ==
  \A i \in Instance, u \in User : \A s \in room[i][u] :
    s \in connected /\ token[s] = u /\ server[s] = i

Welcomed(s) == handler[s] = "welcomed" /\ s \in connected

(* A client that was told 'connected' and still is has been sent every     *)
(* event of its user's room since, in order and with none of another's; it *)
(* may have been sent some that came while it was being told.              *)
NothingMissed ==
  \A s \in Socket : Welcomed(s) =>
    LET all == sent[token[s]]
    IN \E from \in 1..(since[s] + 1) : got[s] = SubSeq(all, from, Len(all))

(* A connection is answered only by 'connected' or, if refused, by an end  *)
(* to it: a refused socket is closed and never hears an event.             *)
RefusedIsShut ==
  \A s \in Socket : handler[s] = "refused" => s \notin connected /\ got[s] = <<>>

\* A connection of a user that is deleted.
OfDeleted(s) == handler[s] = "verify" /\ token[s] \notin users

(* A user that was deleted before a connection began is not welcomed.      *)
DeletedComesNoMore == \A s \in Socket : [](OfDeleted(s) => []~Welcomed(s))

(* Every connection attempt is answered, or its client has gone.           *)
EveryConnectionIsAnswered ==
  \A s \in Socket :
    (handler[s] # "new") ~> (handler[s] \in {"welcomed", "refused"})
=============================================================================
