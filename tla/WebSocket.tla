------------------------------ MODULE WebSocket -----------------------------
(***************************************************************************)
(* The registry of WebSocket connections, rooms and counters               *)
(* (inspector_websocket.go).  The application calls it from the goroutine  *)
(* of each connection, in any order and also for ids it never registered   *)
(* or has removed.  Every call and every tool holds wsMu throughout.       *)
(***************************************************************************)
EXTENDS Integers, Sequences, FiniteSets, GoData

CONSTANTS WsIds,        \* connection ids
          WsRooms,      \* room names
          Sizes,        \* sizes of messages, in bytes
          MaxConnects,  \* bound: registrations
          MaxMessages   \* bound: messages sent or received

ASSUME SizesAssumption == Sizes \subseteq Nat

NoRoom == "no room"

VARIABLES
    wsConnections,  \* by id, of the registered ones
    wsRooms,        \* members and subscribers of the rooms that exist
    wsGlobal,       \* the totals
    departed        \* ids that left and were not heard of since (auxiliary)

wsVars == <<wsConnections, wsRooms, wsGlobal, departed>>

WsInit ==
    /\ wsConnections = <<>>
    /\ wsRooms = <<>>
    /\ wsGlobal = [connections |-> 0, active |-> 0, sent |-> 0, recv |-> 0,
                   bytesSent |-> 0, bytesRecv |-> 0]
    /\ departed = {}

Fresh == [sent |-> 0, recv |-> 0, bytesSent |-> 0, bytesRecv |-> 0, room |-> NoRoom]

-----------------------------------------------------------------------------
\* An id that is registered already starts anew; it stays in its rooms.
RegisterWSConnection(id) ==
    /\ wsGlobal.connections < MaxConnects
    /\ wsConnections' = Put(wsConnections, id, Fresh)
    /\ wsGlobal' = [wsGlobal EXCEPT !.connections = @ + 1,
                                    !.active = Cardinality(DOMAIN wsConnections')]
    /\ departed' = departed \ {id}
    /\ UNCHANGED wsRooms

Without(members, id) == Filtered(members, {i \in DOMAIN members : members[i] # id})

\* Mutant: only the room the connection last joined is told.
WithoutMember_LastRoom(id) ==
    [r \in DOMAIN wsRooms |->
       IF id \in DOMAIN wsConnections /\ wsConnections[id].room = r
       THEN LET rest == Without(wsRooms[r].members, id)
            IN  [members |-> rest, subscribers |-> Len(rest)]
       ELSE wsRooms[r]]

WithoutMember(id) ==
    [r \in DOMAIN wsRooms |->
       LET rest == Without(wsRooms[r].members, id)
       IN  [members |-> rest, subscribers |-> Len(rest)]]

UnregisterWSConnection(id) ==
    /\ wsConnections' = Drop(wsConnections, id)
    /\ wsGlobal' = [wsGlobal EXCEPT !.active = Cardinality(DOMAIN wsConnections')]
    /\ wsRooms' = WithoutMember(id)
    /\ departed' = departed \cup {id}

\* Mutant: a message counts for its connection only, a byte for both.
CountSent_NoTotal(bytes) == [wsGlobal EXCEPT !.bytesSent = @ + bytes]

CountSent(bytes) == [wsGlobal EXCEPT !.sent = @ + 1, !.bytesSent = @ + bytes]

\* The totals count messages of unknown connections too.
WSIncrementSent(id, bytes) ==
    /\ wsGlobal.sent + wsGlobal.recv < MaxMessages
    /\ wsConnections' = [x \in DOMAIN wsConnections |->
                           IF x = id
                           THEN [wsConnections[x] EXCEPT !.sent = @ + 1, !.bytesSent = @ + bytes]
                           ELSE wsConnections[x]]
    /\ wsGlobal' = CountSent(bytes)
    /\ UNCHANGED <<wsRooms, departed>>

WSIncrementRecv(id, bytes) ==
    /\ wsGlobal.sent + wsGlobal.recv < MaxMessages
    /\ wsConnections' = [x \in DOMAIN wsConnections |->
                           IF x = id
                           THEN [wsConnections[x] EXCEPT !.recv = @ + 1, !.bytesRecv = @ + bytes]
                           ELSE wsConnections[x]]
    /\ wsGlobal' = [wsGlobal EXCEPT !.recv = @ + 1, !.bytesRecv = @ + bytes]
    /\ UNCHANGED <<wsRooms, departed>>

MembersOf(r) == IF r \in DOMAIN wsRooms THEN wsRooms[r].members ELSE <<>>

IsMember(id, r) == \E i \in DOMAIN MembersOf(r) : MembersOf(r)[i] = id

\* A member that joins again changes nothing, not even the room that its
\* connection names.
WSJoinRoomAgain(r, id) ==
    /\ IsMember(id, r)
    /\ departed' = departed \ {id}
    /\ UNCHANGED <<wsConnections, wsRooms, wsGlobal>>

\* A connection stays in the rooms it joined before; an unknown id may join.
WSJoinRoom(r, id) ==
    /\ ~IsMember(id, r)
    /\ LET members == Append(MembersOf(r), id)
       IN  wsRooms' = Put(wsRooms, r, [members |-> members, subscribers |-> Len(members)])
    /\ wsConnections' = [x \in DOMAIN wsConnections |->
                           IF x = id THEN [wsConnections[x] EXCEPT !.room = r]
                                     ELSE wsConnections[x]]
    /\ departed' = departed \ {id}
    /\ UNCHANGED wsGlobal

WsNext ==
    \E id \in WsIds :
       \/ RegisterWSConnection(id) \/ UnregisterWSConnection(id)
       \/ \E b \in Sizes : WSIncrementSent(id, b) \/ WSIncrementRecv(id, b)
       \/ \E r \in WsRooms : WSJoinRoom(r, id) \/ WSJoinRoomAgain(r, id)

WsSpec == WsInit /\ [][WsNext]_wsVars

-----------------------------------------------------------------------------
(* What the tools report.                                                  *)

GetWsConnections == wsConnections

GetWsRooms == wsRooms

\* What each connection reports.
Counts(field) == [c \in DOMAIN wsConnections |-> wsConnections[c][field]]

\* get_ws_stats, in whole numbers; the averages per connection are there when
\* a connection is.
GetWsStats ==
    LET messages == wsGlobal.sent + wsGlobal.recv
        bytes    == wsGlobal.bytesSent + wsGlobal.bytesRecv
        n        == Cardinality(DOMAIN wsConnections)
    IN  [active  |-> wsGlobal.active,
         avgSize |-> IF messages > 0 THEN bytes \div messages ELSE 0,
         avgSent |-> IF n > 0 THEN Total(Counts("sent")) \div n ELSE 0,
         avgRecv |-> IF n > 0 THEN Total(Counts("recv")) \div n ELSE 0]

-----------------------------------------------------------------------------
(* Properties.                                                             *)

WsTypeOK ==
    /\ DOMAIN wsConnections \subseteq WsIds
    /\ \A c \in DOMAIN wsConnections : wsConnections[c] \in
          [sent : Nat, recv : Nat, bytesSent : Nat, bytesRecv : Nat, room : WsRooms \cup {NoRoom}]
    /\ DOMAIN wsRooms \subseteq WsRooms
    /\ \A r \in DOMAIN wsRooms : wsRooms[r] \in [members : Seq(WsIds), subscribers : Nat]
    /\ wsGlobal \in [{"connections", "active", "sent", "recv", "bytesSent", "bytesRecv"} -> Nat]
    /\ departed \subseteq WsIds

\* Rooms and connections agree whatever the order of the calls: a connection is
\* a member of the room it names, nobody is a member twice, subscribers are
\* members, and who has left is in no room, however many it had joined.
RoomsAgree ==
    /\ \A c \in DOMAIN GetWsConnections :
          GetWsConnections[c].room # NoRoom => IsMember(c, GetWsConnections[c].room)
    /\ \A r \in DOMAIN GetWsRooms :
          LET room == GetWsRooms[r]
          IN  /\ room.subscribers = Len(room.members)
              /\ \A i, j \in DOMAIN room.members : room.members[i] = room.members[j] => i = j
              /\ \A i \in DOMAIN room.members : room.members[i] \notin departed

\* The totals cover what the connections report, the number of active ones is
\* theirs, and an average message is no larger than a message can be, through
\* messages of unknown ids and ids that are registered twice.
CountersAgree ==
    /\ wsGlobal.active = Cardinality(DOMAIN wsConnections)
    /\ wsGlobal.active <= wsGlobal.connections
    /\ Total(Counts("sent")) <= wsGlobal.sent
    /\ Total(Counts("recv")) <= wsGlobal.recv
    /\ Total(Counts("bytesSent")) <= wsGlobal.bytesSent
    /\ Total(Counts("bytesRecv")) <= wsGlobal.bytesRecv
    /\ wsGlobal.sent + wsGlobal.recv > 0 =>
          \E small, large \in Sizes : GetWsStats.avgSize \in small..large

\* Rooms, connections and totals are told consistently.
SocketsAgree == RoomsAgree /\ CountersAgree
=============================================================================
