---------------------------- MODULE GatewayProofs ----------------------------
(***************************************************************************)
(* For any sockets, users and events: rooms hold open sockets of their     *)
(* user, who is refused hears nothing, who was deleted is not welcomed     *)
(* and, on one server, who is welcomed misses nothing.                     *)
(***************************************************************************)
EXTENDS Gateway, SequenceTheorems, TLAPS

(* An instance emits to its own rooms only, so that with several a socket  *)
(* misses what the others emit: the code is run as one instance.           *)
OneInstance == \A i, j \in Instance : i = j

Outside(s) == \A i \in Instance, u \in User : s \notin room[i][u]
Verified(s) == handler[s] \in {"find", "join", "welcome", "welcomed"}
Joined(s) == handler[s] \in {"welcome", "welcomed"}

(* Until it has joined a socket is in no room and was sent nothing, and so *)
(* is one that is refused.                                                 *)
SocketOK(s) ==
  /\ handler[s] \in {"new", "refused"} => s \notin connected
  /\ Verified(s) => token[s] \in User
  /\ ~Joined(s) => Outside(s) /\ got[s] = <<>>

IInv ==
  /\ TypeOK
  /\ RoomsHoldTheirOwn
  /\ \A s \in Socket : SocketOK(s)

LEMMA InitIInv == Init => IInv
PROOF
<1> SUFFICES ASSUME Init PROVE IInv
  OBVIOUS
<1>1. TypeOK
  <2>1. <<>> \in Seq(Event)
    BY EmptySeq
  <2> QED
    BY <2>1 DEF Init, TypeOK
<1>2. RoomsHoldTheirOwn
  BY DEF Init, RoomsHoldTheirOwn
<1>3. \A s \in Socket : SocketOK(s)
  BY DEF Init, SocketOK, Outside, Verified, Joined
<1> QED
  BY <1>1, <1>2, <1>3 DEF IInv

(* Taking a socket out of the rooms.                                       *)
LEMMA Closed ==
  ASSUME IInv, NEW s \in Socket, Close(s)
  PROVE  /\ connected' \subseteq Socket /\ s \notin connected'
         /\ room' \in [Instance -> [User -> SUBSET Socket]]
         /\ \A i \in Instance, u \in User : room'[i][u] = room[i][u] \ {s}
BY DEF IInv, TypeOK, Close

LEMMA RefuseKeeps ==
  ASSUME IInv, NEW s \in Socket, handler[s] \in {"verify", "find"}, Refuse(s)
  PROVE  IInv'
PROOF
<1>1. /\ connected' = connected \ {s}
      /\ room' \in [Instance -> [User -> SUBSET Socket]]
      /\ \A i \in Instance, u \in User : room'[i][u] = room[i][u] \ {s}
  BY Closed DEF Refuse, Close
<1>2. UNCHANGED <<users, token, server, sent, got, since>>
  BY DEF Refuse
<1>3. \A r \in Socket : handler'[r] = IF r = s THEN "refused" ELSE handler[r]
  BY DEF Refuse, Goto, IInv, TypeOK
<1>4. TypeOK'
  BY <1>1, <1>2 DEF Refuse, Goto, IInv, TypeOK
<1>5. RoomsHoldTheirOwn'
  BY <1>1, <1>2 DEF IInv, RoomsHoldTheirOwn
<1>6. \A r \in Socket : SocketOK(r)'
  BY <1>1, <1>2, <1>3 DEF IInv, SocketOK, Outside, Verified, Joined
<1> QED
  BY <1>4, <1>5, <1>6 DEF IInv

LEMMA ConnectKeeps ==
  ASSUME IInv, NEW s \in Socket, NEW t \in User \union {BadToken}, Connect(s, t)
  PROVE  IInv'
PROOF
<1>1. /\ handler[s] = "new" /\ connected' = connected \union {s}
      /\ UNCHANGED <<users, server, room, sent, got, since>>
  BY DEF Connect
<1>2. \A r \in Socket : /\ handler'[r] = IF r = s THEN "verify" ELSE handler[r]
                        /\ token'[r] = IF r = s THEN t ELSE token[r]
  BY DEF Connect, Goto, IInv, TypeOK
<1>3. TypeOK'
  BY <1>1 DEF Connect, Goto, IInv, TypeOK
<1>4. Outside(s)
  BY <1>1 DEF IInv, SocketOK, Joined
<1>5. RoomsHoldTheirOwn'
  <2>1. \A i \in Instance, u \in User : s \notin room[i][u] /\ room[i][u] \subseteq Socket
    BY <1>4 DEF Outside, IInv, TypeOK
  <2> QED
    BY <1>1, <1>2, <2>1 DEF IInv, RoomsHoldTheirOwn
<1>6. \A r \in Socket : SocketOK(r)'
  BY <1>1, <1>2 DEF IInv, SocketOK, Outside, Verified, Joined
<1> QED
  BY <1>3, <1>5, <1>6 DEF IInv

LEMMA LookupKeeps ==
  ASSUME IInv, NEW s \in Socket, VerifyToken(s) \/ FindUser(s) \/ FindUserFails(s)
  PROVE  IInv'
PROOF
<1>1. CASE Refuse(s)
  BY <1>1, RefuseKeeps DEF VerifyToken, FindUser, FindUserFails
<1>2. ASSUME NEW at \in {"find", "join"}, Goto(s, at), token[s] \in User,
             handler[s] \in {"verify", "find"},
             UNCHANGED <<users, token, server, connected, room, sent, got, since>>
      PROVE  IInv'
  <2>1. \A r \in Socket : handler'[r] = IF r = s THEN at ELSE handler[r]
    BY <1>2 DEF Goto, IInv, TypeOK
  <2>2. TypeOK' /\ RoomsHoldTheirOwn'
    BY <1>2 DEF Goto, IInv, TypeOK, RoomsHoldTheirOwn
  <2>3. \A r \in Socket : SocketOK(r)'
    BY <1>2, <2>1 DEF IInv, SocketOK, Outside, Verified, Joined
  <2> QED
    BY <2>2, <2>3 DEF IInv
<1>3. users \subseteq User /\ (handler[s] = "verify" => token[s] \in User \union {BadToken})
  BY DEF IInv, TypeOK
<1> QED
  BY <1>1, <1>2, <1>3 DEF VerifyToken, FindUser, FindUserFails

LEMMA JoinMoves ==
  ASSUME IInv, NEW s \in Socket, Join(s)
  PROVE  /\ \A r \in Socket : handler'[r] = IF r = s THEN "welcome" ELSE handler[r]
         /\ room' \in [Instance -> [User -> SUBSET Socket]]
         /\ token[s] \in User /\ server[s] \in Instance
         /\ \A i \in Instance, u \in User :
              room'[i][u] = IF s \in connected /\ i = server[s] /\ u = token[s]
                            THEN room[i][u] \union {s} ELSE room[i][u]
PROOF
<1>1. token[s] \in User /\ server[s] \in Instance
  BY DEF IInv, TypeOK, SocketOK, Verified, Join
<1>2. room \in [Instance -> [User -> SUBSET Socket]]
  BY DEF IInv, TypeOK
<1>3. \A r \in Socket : handler'[r] = IF r = s THEN "welcome" ELSE handler[r]
  BY DEF Join, Goto, IInv, TypeOK
<1>4. CASE s \in connected
  <2>1. room' = [room EXCEPT ![server[s]][token[s]] = room[server[s]][token[s]] \union {s}]
    BY <1>4 DEF Join
  <2>2. room' \in [Instance -> [User -> SUBSET Socket]]
    BY <1>1, <1>2, <2>1
  <2>3. \A i \in Instance, u \in User :
          room'[i][u] = IF i = server[s] /\ u = token[s] THEN room[i][u] \union {s} ELSE room[i][u]
    BY <1>1, <1>2, <2>1
  <2> QED
    BY <1>1, <1>3, <1>4, <2>2, <2>3
<1>5. CASE s \notin connected
  <2>1. room' = room
    BY <1>1, <1>2, <1>5 DEF Join
  <2> QED
    BY <1>1, <1>2, <1>3, <1>5, <2>1
<1> QED
  BY <1>4, <1>5

LEMMA JoinKeeps ==
  ASSUME IInv, NEW s \in Socket, Join(s)
  PROVE  IInv'
PROOF
<1>1. UNCHANGED <<users, token, server, connected, sent, got, since>>
  BY DEF Join
<1>2. TypeOK'
  BY <1>1, JoinMoves DEF Join, Goto, IInv, TypeOK
<1>3. \A i \in Instance, u \in User : \A r \in room'[i][u] :
        r \in room[i][u] \/ (r = s /\ s \in connected /\ i = server[s] /\ u = token[s])
  <2>1. \A i \in Instance, u \in User :
          room'[i][u] = IF s \in connected /\ i = server[s] /\ u = token[s]
                        THEN room[i][u] \union {s} ELSE room[i][u]
    BY JoinMoves
  <2>2. ASSUME NEW i \in Instance, NEW u \in User
        PROVE  room'[i][u] = room[i][u] \/
               (room'[i][u] = room[i][u] \union {s} /\ s \in connected /\ i = server[s] /\ u = token[s])
    BY <2>1
  <2> QED
    BY <2>2
<1>4. RoomsHoldTheirOwn'
  BY <1>1, <1>3 DEF IInv, RoomsHoldTheirOwn
<1>5. \A r \in Socket : SocketOK(r)'
  <2>1. \A r \in Socket : r # s => (Outside(r) => Outside(r)')
    BY <1>3 DEF Outside
  <2>2. \A r \in Socket : handler'[r] = IF r = s THEN "welcome" ELSE handler[r]
    BY JoinMoves
  <2>3. handler[s] = "join"
    BY DEF Join
  <2> QED
    BY <1>1, <2>1, <2>2, <2>3 DEF IInv, SocketOK, Verified, Joined
<1> QED
  BY <1>2, <1>4, <1>5 DEF IInv

LEMMA WelcomeKeeps ==
  ASSUME IInv, NEW s \in Socket, Welcome(s)
  PROVE  IInv'
PROOF
<1>1. /\ handler[s] = "welcome"
      /\ UNCHANGED <<users, token, server, connected, room, sent, got>>
      /\ \A r \in Socket : handler'[r] = IF r = s THEN "welcomed" ELSE handler[r]
  BY DEF Welcome, Goto, IInv, TypeOK
<1>2. sent[token[s]] \in Seq(Event) /\ Len(sent[token[s]]) \in Nat
  BY <1>1 DEF IInv, TypeOK, SocketOK, Verified
<1>3. TypeOK'
  BY <1>1, <1>2 DEF Welcome, Goto, IInv, TypeOK
<1>4. RoomsHoldTheirOwn'
  BY <1>1 DEF IInv, RoomsHoldTheirOwn
<1>5. \A r \in Socket : SocketOK(r)'
  BY <1>1 DEF IInv, SocketOK, Outside, Verified, Joined
<1> QED
  BY <1>3, <1>4, <1>5 DEF IInv

LEMMA ClientLeavesKeeps ==
  ASSUME IInv, NEW s \in Socket, ClientLeaves(s)
  PROVE  IInv'
PROOF
<1>1. /\ connected' = connected \ {s}
      /\ room' \in [Instance -> [User -> SUBSET Socket]]
      /\ \A i \in Instance, u \in User : room'[i][u] = room[i][u] \ {s}
  BY Closed DEF ClientLeaves, Close
<1>2. UNCHANGED <<users, handler, token, server, sent, got, since>>
  BY DEF ClientLeaves
<1>3. TypeOK' /\ RoomsHoldTheirOwn'
  BY <1>1, <1>2 DEF IInv, TypeOK, RoomsHoldTheirOwn
<1>4. \A r \in Socket : SocketOK(r)'
  BY <1>1, <1>2 DEF IInv, SocketOK, Outside, Verified, Joined
<1> QED
  BY <1>3, <1>4 DEF IInv

LEMMA DeleteUserKeeps ==
  ASSUME IInv, NEW u \in User, DeleteUser(u)
  PROVE  IInv'
BY DEF DeleteUser, IInv, TypeOK, RoomsHoldTheirOwn, SocketOK, Outside, Verified, Joined

LEMMA EmitMoves ==
  ASSUME IInv, NEW i \in Instance, NEW u \in User, NEW e \in Event, EmitToRoom(i, u, e)
  PROVE  /\ sent' \in [User -> Seq(Event)] /\ got' \in [Socket -> Seq(Event)]
         /\ \A v \in User : sent'[v] = IF v = u THEN Append(sent[v], e) ELSE sent[v]
         /\ \A s \in Socket : got'[s] = IF s \in room[i][u] THEN Append(got[s], e) ELSE got[s]
PROOF
<1>1. sent \in [User -> Seq(Event)] /\ got \in [Socket -> Seq(Event)]
  BY DEF IInv, TypeOK
<1>2. /\ \A v \in User : Append(sent[v], e) \in Seq(Event)
      /\ \A s \in Socket : Append(got[s], e) \in Seq(Event)
  BY <1>1, AppendProperties
<1> QED
  BY <1>1, <1>2 DEF EmitToRoom

LEMMA EmitKeeps ==
  ASSUME IInv, NEW i \in Instance, NEW u \in User, NEW e \in Event, EmitToRoom(i, u, e)
  PROVE  IInv'
PROOF
<1>1. UNCHANGED <<users, handler, token, server, connected, room, since>>
  BY DEF EmitToRoom
<1>2. TypeOK' /\ RoomsHoldTheirOwn'
  BY <1>1, EmitMoves DEF IInv, TypeOK, RoomsHoldTheirOwn
<1>3. \A s \in Socket : SocketOK(s)'
  BY <1>1, EmitMoves DEF IInv, SocketOK, Outside, Verified, Joined
<1> QED
  BY <1>2, <1>3 DEF IInv

LEMMA NextKeeps == IInv /\ [Next]_vars => IInv'
PROOF
<1>1. IInv /\ UNCHANGED vars => IInv'
  BY DEF vars, IInv, TypeOK, RoomsHoldTheirOwn, SocketOK, Outside, Verified, Joined
<1> QED
  BY <1>1, ConnectKeeps, LookupKeeps, JoinKeeps, WelcomeKeeps, ClientLeavesKeeps,
     DeleteUserKeeps, EmitKeeps
  DEF Next, SocketNext, HandleConnection

THEOREM Inductive == Spec => []IInv
PROOF
<1> QED
  BY InitIInv, NextKeeps, PTL DEF Spec

(* The sets and histories have their types.                                *)
THEOREM TypeCorrect == Spec => []TypeOK
BY Inductive, PTL DEF IInv

(* A room holds open sockets of its user only, wherever a client leaves.   *)
THEOREM RoomsAreTheirOwn == Spec => []RoomsHoldTheirOwn
BY Inductive, PTL DEF IInv

(* A refused socket is closed and was sent no event.                       *)
THEOREM RefusedHearNothing == Spec => []RefusedIsShut
PROOF
<1>1. IInv => RefusedIsShut
  BY DEF IInv, SocketOK, Joined, RefusedIsShut
<1> QED
  BY <1>1, Inductive, PTL

-----------------------------------------------------------------------------
(* What a socket in its room was sent. *)

Sent(s) == sent[token[s]]

\* The events of its room from the next after `from`-1 on.
Follows(s, from) == got[s] = SubSeq(Sent(s), from, Len(Sent(s)))

(* From its joining on an open socket is in its room, and has been sent    *)
(* every event since then; it is welcomed later than it joins.             *)
UpToDate(s) ==
  /\ s \in room[server[s]][token[s]]
  /\ \E from \in 1..(Len(Sent(s)) + 1) :
       Follows(s, from) /\ (handler[s] = "welcomed" => from <= since[s] + 1)

HistoryInv == IInv /\ \A s \in Socket : Joined(s) /\ s \in connected => UpToDate(s)

LEMMA JoinedHasSent ==
  ASSUME IInv, NEW s \in Socket, Joined(s)
  PROVE  /\ token[s] \in User /\ server[s] \in Instance
         /\ Sent(s) \in Seq(Event) /\ Len(Sent(s)) \in Nat /\ since[s] \in Nat
BY DEF IInv, TypeOK, SocketOK, Verified, Joined, Sent

LEMMA SuffixGrows ==
  ASSUME NEW all \in Seq(Event), NEW e \in Event, NEW from \in 1..(Len(all) + 1)
  PROVE  Append(SubSeq(all, from, Len(all)), e) = SubSeq(Append(all, e), from, Len(all) + 1)
PROOF
<1> DEFINE n == Len(all)
           part == SubSeq(all, from, n)
           later == Append(all, e)
<1>1. n \in Nat /\ from \in Nat /\ 1 <= from /\ from <= n + 1
  OBVIOUS
<1>2. /\ part \in Seq(Event) /\ Len(part) = n + 1 - from
      /\ \A k \in 1..(n + 1 - from) : part[k] = all[from + k - 1]
  BY <1>1
<1>3. /\ later \in Seq(Event) /\ Len(later) = n + 1
      /\ \A k \in 1..(n + 1) : later[k] = IF k = n + 1 THEN e ELSE all[k]
  BY <1>1
<1>4. /\ SubSeq(later, from, n + 1) \in Seq(Event) /\ Len(SubSeq(later, from, n + 1)) = n + 2 - from
      /\ \A k \in 1..(n + 2 - from) : SubSeq(later, from, n + 1)[k] = later[from + k - 1]
  BY <1>1, <1>3
<1>5. /\ Append(part, e) \in Seq(Event) /\ Len(Append(part, e)) = n + 2 - from
      /\ \A k \in 1..(n + 2 - from) : Append(part, e)[k] = IF k = n + 2 - from THEN e ELSE part[k]
  BY <1>1, <1>2
<1> HIDE DEF n, part, later
<1>6. ASSUME NEW k \in 1..(n + 2 - from)
      PROVE  Append(part, e)[k] = SubSeq(later, from, n + 1)[k]
  <2>1. k \in Nat /\ from + k - 1 \in 1..(n + 1) /\ (from + k - 1 = n + 1 <=> k = n + 2 - from)
    BY <1>1
  <2>2. k # n + 2 - from => k \in 1..(n + 1 - from)
    BY <1>1
  <2> QED
    BY <1>2, <1>3, <1>4, <1>5, <2>1, <2>2
<1>7. Append(part, e) = SubSeq(later, from, n + 1)
  BY <1>4, <1>5, <1>6, SeqEqual
<1> QED
  BY <1>7 DEF n, part, later

(* A step that is not about a socket leaves it up to date.                 *)
LEMMA UnmovedIsUpToDate ==
  ASSUME UNCHANGED <<server, sent, got>>, NEW r \in Socket, UpToDate(r),
         token'[r] = token[r], since'[r] = since[r], handler'[r] = handler[r],
         r \in room[server[r]][token[r]] => r \in room'[server[r]][token[r]]
  PROVE  UpToDate(r)'
PROOF
<1>1. Sent(r)' = Sent(r)
  BY DEF Sent
<1>2. \A from : Follows(r, from)' <=> Follows(r, from)
  BY <1>1 DEF Follows
<1> QED
  BY <1>1, <1>2 DEF UpToDate

LEMMA SocketStepIsUpToDate ==
  ASSUME HistoryInv, NEW s \in Socket,
         UNCHANGED <<users, server, sent, got>>,
         \A r \in Socket \ {s} :
           /\ handler'[r] = handler[r] /\ token'[r] = token[r] /\ since'[r] = since[r]
           /\ r \in connected' => r \in connected
           /\ \A i \in Instance, u \in User : r \in room[i][u] => r \in room'[i][u],
         Joined(s)' /\ s \in connected' => UpToDate(s)',
         IInv'
  PROVE  HistoryInv'
PROOF
<1>1. ASSUME NEW r \in Socket, Joined(r)', r \in connected', r # s PROVE UpToDate(r)'
  <2>1. UpToDate(r) /\ token[r] \in User /\ server[r] \in Instance
    BY <1>1, JoinedHasSent DEF HistoryInv, Joined
  <2> QED
    BY <1>1, <2>1, UnmovedIsUpToDate
<1> QED
  BY <1>1 DEF HistoryInv

LEMMA ConnectIsUpToDate ==
  ASSUME HistoryInv, NEW s \in Socket, NEW t \in User \union {BadToken}, Connect(s, t)
  PROVE  HistoryInv'
PROOF
<1>1. IInv /\ IInv'
  BY ConnectKeeps DEF HistoryInv
<1>2. \A r \in Socket : /\ handler'[r] = IF r = s THEN "verify" ELSE handler[r]
                        /\ token'[r] = IF r = s THEN t ELSE token[r]
  BY <1>1 DEF Connect, Goto, IInv, TypeOK
<1>3. UNCHANGED <<users, server, sent, got, since, room>> /\ connected' = connected \union {s}
  BY DEF Connect
<1> QED
  BY <1>1, <1>2, <1>3, SocketStepIsUpToDate DEF Joined

LEMMA LookupIsUpToDate ==
  ASSUME HistoryInv, NEW s \in Socket, VerifyToken(s) \/ FindUser(s) \/ FindUserFails(s)
  PROVE  HistoryInv'
PROOF
<1>1. IInv /\ IInv'
  BY LookupKeeps DEF HistoryInv
<1>2. CASE Refuse(s)
  <2>1. /\ \A r \in Socket : handler'[r] = IF r = s THEN "refused" ELSE handler[r]
        /\ connected' = connected \ {s}
        /\ \A i \in Instance, u \in User : room'[i][u] = room[i][u] \ {s}
        /\ UNCHANGED <<users, token, server, sent, got, since>>
    BY <1>1, <1>2, Closed DEF Refuse, Goto, Close, IInv, TypeOK
  <2> QED
    BY <1>1, <2>1, SocketStepIsUpToDate DEF Joined
<1>3. ASSUME NEW at \in {"find", "join"}, Goto(s, at),
             UNCHANGED <<users, token, server, connected, room, sent, got, since>>
      PROVE  HistoryInv'
  <2>1. \A r \in Socket : handler'[r] = IF r = s THEN at ELSE handler[r]
    BY <1>1, <1>3 DEF Goto, IInv, TypeOK
  <2> QED
    BY <1>1, <1>3, <2>1, SocketStepIsUpToDate DEF Joined
<1> QED
  BY <1>2, <1>3 DEF VerifyToken, FindUser, FindUserFails

LEMMA JoinIsUpToDate ==
  ASSUME HistoryInv, NEW s \in Socket, Join(s)
  PROVE  HistoryInv'
PROOF
<1>1. IInv /\ IInv'
  BY JoinKeeps DEF HistoryInv
<1>2. UNCHANGED <<users, token, server, connected, sent, got, since>>
  BY DEF Join
<1>3. /\ \A r \in Socket : handler'[r] = IF r = s THEN "welcome" ELSE handler[r]
      /\ token[s] \in User /\ server[s] \in Instance
      /\ \A i \in Instance, u \in User :
           room'[i][u] = IF s \in connected /\ i = server[s] /\ u = token[s]
                         THEN room[i][u] \union {s} ELSE room[i][u]
  BY <1>1, JoinMoves
<1>4. ASSUME s \in connected PROVE UpToDate(s)'
  <2>1. s \in room'[server[s]][token[s]]
    BY <1>3, <1>4
  <2>2. got[s] = <<>>
    BY <1>1 DEF IInv, SocketOK, Joined, Join
  <2>3. Sent(s) \in Seq(Event) /\ Len(Sent(s)) \in Nat /\ Sent(s)' = Sent(s)
    BY <1>1, <1>2, <1>3 DEF IInv, TypeOK, Sent
  <2>4. Follows(s, Len(Sent(s)) + 1)'
    <3>1. SubSeq(Sent(s), Len(Sent(s)) + 1, Len(Sent(s))) = <<>>
      BY <2>3
    <3> QED
      BY <1>2, <2>2, <2>3, <3>1 DEF Follows
  <2>5. handler'[s] # "welcomed"
    BY <1>3
  <2>6. Len(Sent(s)) + 1 \in 1..(Len(Sent(s)) + 1)
    BY <2>3
  <2> QED
    BY <1>2, <2>1, <2>3, <2>4, <2>5, <2>6 DEF UpToDate
<1>5. \A r \in Socket : \A i \in Instance, u \in User : r \in room[i][u] => r \in room'[i][u]
  <2>1. ASSUME NEW i \in Instance, NEW u \in User
        PROVE  room'[i][u] = room[i][u] \/ room'[i][u] = room[i][u] \union {s}
    BY <1>3
  <2> QED
    BY <2>1
<1>6. \A r \in Socket \ {s} : handler'[r] = handler[r]
  BY <1>3
<1> QED
  BY <1>1, <1>2, <1>4, <1>5, <1>6, SocketStepIsUpToDate

LEMMA WelcomeIsUpToDate ==
  ASSUME HistoryInv, NEW s \in Socket, Welcome(s)
  PROVE  HistoryInv'
PROOF
<1>1. IInv /\ IInv'
  BY WelcomeKeeps DEF HistoryInv
<1>2. UNCHANGED <<users, token, server, connected, room, sent, got>> /\ handler[s] = "welcome"
  BY DEF Welcome
<1>3. \A r \in Socket : /\ handler'[r] = IF r = s THEN "welcomed" ELSE handler[r]
                        /\ since'[r] = IF r = s THEN Len(Sent(s)) ELSE since[r]
  BY <1>1 DEF Welcome, Goto, IInv, TypeOK, Sent
<1>4. ASSUME s \in connected PROVE UpToDate(s)'
  <2>1. UpToDate(s) /\ Len(Sent(s)) \in Nat
    BY <1>1, <1>2, <1>4, JoinedHasSent DEF HistoryInv, Joined
  <2>2. PICK from \in 1..(Len(Sent(s)) + 1) : Follows(s, from)
    BY <2>1 DEF UpToDate
  <2>3. Sent(s)' = Sent(s) /\ Follows(s, from)'
    BY <1>2, <2>2 DEF Sent, Follows
  <2>4. from <= since'[s] + 1
    BY <1>3, <2>1, <2>2
  <2> QED
    BY <1>2, <2>1, <2>2, <2>3, <2>4 DEF UpToDate
<1> QED
  BY <1>1, <1>2, <1>3, <1>4, SocketStepIsUpToDate

LEMMA ClientLeavesIsUpToDate ==
  ASSUME HistoryInv, NEW s \in Socket, ClientLeaves(s)
  PROVE  HistoryInv'
PROOF
<1>1. IInv /\ IInv'
  BY ClientLeavesKeeps DEF HistoryInv
<1>2. /\ connected' = connected \ {s}
      /\ \A i \in Instance, u \in User : room'[i][u] = room[i][u] \ {s}
      /\ UNCHANGED <<users, handler, token, server, sent, got, since>>
  BY <1>1, Closed DEF ClientLeaves, Close
<1> QED
  BY <1>1, <1>2, SocketStepIsUpToDate

LEMMA EmitIsUpToDate ==
  ASSUME OneInstance, HistoryInv, NEW i \in Instance, NEW u \in User, NEW e \in Event,
         EmitToRoom(i, u, e)
  PROVE  HistoryInv'
PROOF
<1>1. IInv /\ IInv'
  BY EmitKeeps DEF HistoryInv
<1>2. UNCHANGED <<users, handler, token, server, connected, room, since>>
  BY DEF EmitToRoom
<1>3. ASSUME NEW s \in Socket, Joined(s), s \in connected PROVE UpToDate(s)'
  <2> DEFINE all == Sent(s)
  <2>1. /\ token[s] \in User /\ server[s] = i /\ since[s] \in Nat
        /\ all \in Seq(Event) /\ Len(all) \in Nat
        /\ s \in room[server[s]][token[s]]
    BY <1>1, <1>3, JoinedHasSent DEF OneInstance, HistoryInv, UpToDate
  <2>2. PICK from \in 1..(Len(all) + 1) :
          Follows(s, from) /\ (handler[s] = "welcomed" => from <= since[s] + 1)
    BY <1>3 DEF HistoryInv, UpToDate
  <2>3. \A v \in User : sent'[v] = IF v = u THEN Append(sent[v], e) ELSE sent[v]
    BY <1>1, EmitMoves
  <2>4. got'[s] = IF s \in room[i][u] THEN Append(got[s], e) ELSE got[s]
    BY <1>1, EmitMoves
  <2>5. CASE token[s] = u
    <3>1. Sent(s)' = Append(all, e) /\ got'[s] = Append(got[s], e)
      BY <1>2, <2>1, <2>3, <2>4, <2>5 DEF Sent
    <3>2. Len(Append(all, e)) = Len(all) + 1
      BY <2>1
    <3>3. Follows(s, from)'
      BY <2>1, <2>2, <3>1, <3>2, SuffixGrows DEF Follows
    <3>4. from \in 1..(Len(Sent(s)') + 1)
      BY <2>1, <3>1, <3>2
    <3> QED
      BY <1>2, <2>1, <2>2, <3>3, <3>4 DEF UpToDate
  <2>6. CASE token[s] # u
    <3>1. s \notin room[i][u]
      BY <1>1, <2>6 DEF IInv, RoomsHoldTheirOwn
    <3>2. Sent(s)' = all /\ got'[s] = got[s]
      BY <1>2, <2>1, <2>3, <2>4, <2>6, <3>1 DEF Sent
    <3>3. Follows(s, from)'
      BY <2>2, <3>2 DEF Follows
    <3> QED
      BY <1>2, <2>1, <2>2, <3>2, <3>3 DEF UpToDate
  <2> QED
    BY <2>5, <2>6
<1> QED
  BY <1>1, <1>2, <1>3 DEF HistoryInv, Joined

LEMMA SameIsUpToDate ==
  ASSUME HistoryInv, IInv',
         UNCHANGED <<handler, token, server, connected, room, sent, got, since>>
  PROVE  HistoryInv'
PROOF
<1>1. \A s \in Socket : UpToDate(s) => UpToDate(s)'
  BY UnmovedIsUpToDate
<1> QED
  BY <1>1 DEF HistoryInv, Joined

LEMMA NextIsUpToDate == OneInstance /\ HistoryInv /\ [Next]_vars => HistoryInv'
PROOF
<1>1. ASSUME HistoryInv, UNCHANGED vars \/ \E u \in User : DeleteUser(u) PROVE HistoryInv'
  <2>1. IInv'
    BY <1>1, NextKeeps DEF HistoryInv, Next, SocketNext
  <2> QED
    BY <1>1, <2>1, SameIsUpToDate DEF vars, DeleteUser
<1> QED
  BY <1>1, ConnectIsUpToDate, LookupIsUpToDate, JoinIsUpToDate, WelcomeIsUpToDate,
     ClientLeavesIsUpToDate, EmitIsUpToDate
  DEF Next, SocketNext, HandleConnection

LEMMA InitHistory == Init => HistoryInv
BY InitIInv DEF HistoryInv, Init, Joined

LEMMA HistoryMissesNothing == HistoryInv => NothingMissed
PROOF
<1> SUFFICES ASSUME HistoryInv, NEW s \in Socket, Welcomed(s)
             PROVE  \E from \in 1..(since[s] + 1) :
                      got[s] = SubSeq(sent[token[s]], from, Len(sent[token[s]]))
  BY DEF NothingMissed
<1>1. Joined(s) /\ s \in connected /\ handler[s] = "welcomed"
  BY DEF Welcomed, Joined
<1>2. UpToDate(s) /\ since[s] \in Nat /\ Len(Sent(s)) \in Nat
  BY <1>1, JoinedHasSent DEF HistoryInv
<1>3. PICK from \in 1..(Len(Sent(s)) + 1) : Follows(s, from) /\ from <= since[s] + 1
  BY <1>1, <1>2 DEF UpToDate
<1>4. from \in 1..(since[s] + 1)
  BY <1>2, <1>3
<1> QED
  BY <1>3, <1>4 DEF Follows, Sent

(* On one server, whoever was told 'connected' and still is has been sent  *)
(* every event of its room since, in order: it is in the room before it is *)
(* told, and only its own end takes it out.                                *)
THEOREM WelcomedMissNothing ==
  ASSUME OneInstance
  PROVE  Spec => []NothingMissed
PROOF
<1>1. HistoryInv /\ [Next]_vars => HistoryInv'
  BY NextIsUpToDate
<1> QED
  BY <1>1, InitHistory, HistoryMissesNothing, PTL DEF Spec

-----------------------------------------------------------------------------
\* A connection whose user's deletion the lookup is sure to notice.
Doomed(s) == handler[s] \in {"verify", "find", "refused"} /\ token[s] \notin users

LEMMA DoomedStays ==
  ASSUME NEW s \in Socket, IInv, Doomed(s), [Next]_vars
  PROVE  Doomed(s)'
PROOF
<1>1. /\ handler \in [Socket -> {"new", "verify", "find", "join", "welcome",
                                 "welcomed", "refused"}]
      /\ token \in [Socket -> User \union {BadToken}]
  BY DEF IInv, TypeOK
<1>2. users' \subseteq users
  BY DEF Next, SocketNext, HandleConnection, Connect, VerifyToken, FindUser, FindUserFails,
         Refuse, Join, Welcome, ClientLeaves, DeleteUser, EmitToRoom, vars
<1>3. token'[s] = token[s]
  BY <1>1 DEF Doomed, Next, SocketNext, HandleConnection, Connect, VerifyToken, FindUser,
              FindUserFails, Refuse, Join, Welcome, ClientLeaves, DeleteUser, EmitToRoom, vars
<1>4. handler'[s] \in {"verify", "find", "refused"}
  BY <1>1 DEF Doomed, Next, SocketNext, HandleConnection, Connect, VerifyToken, FindUser,
              FindUserFails, Refuse, Join, Welcome, ClientLeaves, DeleteUser, EmitToRoom,
              Goto, vars
<1> QED
  BY <1>2, <1>3, <1>4 DEF Doomed

(* A connection that begins after its user's deletion is never welcomed.   *)
THEOREM DeletedAreNotWelcomed == Spec => DeletedComesNoMore
PROOF
<1>1. ASSUME NEW s \in Socket PROVE Spec => [](OfDeleted(s) => []~Welcomed(s))
  <2>1. OfDeleted(s) => Doomed(s)
    BY DEF OfDeleted, Doomed
  <2>2. IInv /\ Doomed(s) /\ [Next]_vars => Doomed(s)'
    BY DoomedStays
  <2>3. Doomed(s) => ~Welcomed(s)
    BY DEF Doomed, Welcomed
  <2> QED
    BY <2>1, <2>2, <2>3, Inductive, PTL DEF Spec
<1> QED
  BY <1>1 DEF DeletedComesNoMore
=============================================================================
