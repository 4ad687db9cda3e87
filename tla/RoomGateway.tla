----------------------------- MODULE RoomGateway -----------------------------
(***************************************************************************)
(* The WebSocket gateway of the rooms (room.gateway.ts) and the stream of  *)
(* server-sent events it replaces, which is still served                   *)
(* (rooms.controller.ts), with the presence keys both keep in Redis        *)
(* (presence.service.ts).                                                  *)
(*                                                                         *)
(* The gateway keeps three maps in memory: one relay of room events per    *)
(* room with the number of clients that use it, a heartbeat per client,    *)
(* and the last messages per room.  Handlers run to completion except      *)
(* join_room, which awaits the room's row between entering the Socket.IO   *)
(* room and filling the maps: meanwhile its client may send more events,   *)
(* or be gone.  The stream's route awaits the same row before it listens   *)
(* for the close of its request.                                           *)
(*                                                                         *)
(* Left out: typing, which keeps no state, and handleUserDisconnect's work *)
(* on the study session, which is Leave of RoomMembership.                 *)
(***************************************************************************)
EXTENDS Naturals, FiniteSets, SequencesExt

CONSTANTS
  Users,
  Clients,      \* socket ids; a reconnect is a client of its own
  Rooms,
  Joins,        \* bound: the join_room events that may be sent
  Streams,      \* requests for a stream of events
  Messages,     \* messages that may be sent
  MaxMessages,  \* MAX_MESSAGES
  None          \* undefined

ASSUME MaxMessagesAssumption == MaxMessages \in Nat \ {0}
ASSUME NoneAssumption == None \notin Rooms
ASSUME JoinsAssumption == IsFiniteSet(Joins)

VARIABLES
  client,      \* sockets
  join,        \* join_room events and their handlers
  listeners,   \* activeRoomListeners: clientCount, 0 for no entry
  heartbeat,   \* heartbeatIntervals: the room each one reports
  presence,    \* presence:user keys: the room
  chat,        \* roomChats
  seen,        \* messages each client has been sent
  stream,      \* requests for a stream, and their intervals while open
  disturbed,   \* history: joins that did not run undisturbed
  adrift       \* history: users whose key no command has settled since one was
               \* rejected or the server died

vars == <<client, join, listeners, heartbeat, presence, chat, seen, stream, disturbed, adrift>>

\* room: client.roomId, and while ready the Socket.IO room.  connected: it was
\* sent 'connected' since it entered.
Client == [st : {"verifying", "ready", "gone"}, user : Users,
           room : Rooms \cup {None}, connected : BOOLEAN]

Join == [st : {"unsent", "done"}] \cup [st : {"awaiting"}, client : Clients, room : Rooms]

\* gone: the client closed the request before its handler listened.
Stream == [st : {"unsent", "done"}]
          \cup [st : {"awaiting", "open"}, user : Users, room : Rooms, gone : BOOLEAN]
          \cup [st : {"closed"}, user : Users]

TypeOK ==
  /\ client \in [Clients -> Client]
  /\ join \in [Joins -> Join]
  /\ listeners \in [Rooms -> 0..Cardinality(Joins)]
  /\ heartbeat \in [Clients -> Rooms \cup {None}]
  /\ presence \in [Users -> Rooms \cup {None}]
  /\ \A r \in Rooms : ToSet(chat[r]) \subseteq Messages /\ Len(chat[r]) <= MaxMessages
  /\ seen \in [Clients -> SUBSET Messages]
  /\ stream \in [Streams -> Stream]
  /\ disturbed \subseteq Clients \X Rooms
  /\ adrift \subseteq Users

Init ==
  /\ client \in [Clients -> [st : {"verifying"}, user : Users, room : {None}, connected : {FALSE}]]
  /\ join = [j \in Joins |-> [st |-> "unsent"]]
  /\ listeners = [r \in Rooms |-> 0]
  /\ heartbeat = [c \in Clients |-> None]
  /\ presence = [u \in Users |-> None]
  /\ chat = [r \in Rooms |-> << >>]
  /\ seen = [c \in Clients |-> {}]
  /\ stream = [s \in Streams |-> [st |-> "unsent"]]
  /\ disturbed = {}
  /\ adrift = {}

Ready(c) == client[c].st = "ready"
Awaiting(j) == join[j].st = "awaiting"
Pending(c) == {j \in Joins : Awaiting(j) /\ join[j].client = c}

\* History: what c does now overtakes the joins it still waits for.
Overtaken(c) == {<<c, join[j].room>> : j \in Pending(c)}

\* A command on u's key reaches Redis, or it is rejected and may have reached it all
\* the same.  Every caller catches the rejection, logs it and goes on.
Command(u, key) ==
  LET settled == [presence EXCEPT ![u] = key] IN
    \/ presence' = settled /\ adrift' = adrift \ {u}
    \/ presence' \in {presence, settled} /\ adrift' = adrift \cup {u}

\* setOnline and setOffline.
SetOnline(u, r) == Command(u, r)
SetOffline(u) == Command(u, None)

\* ensureRoomListener.
Increment(r) == [listeners EXCEPT ![r] = @ + 1]

\* Mutant: the entry is kept.
DecrementToOne(r) == [listeners EXCEPT ![r] = IF @ <= 1 THEN @ ELSE @ - 1]

\* decrementRoomListener.
Decrement(r) == [listeners EXCEPT ![r] = IF @ = 0 THEN 0 ELSE @ - 1]

-----------------------------------------------------------------------------

\* handleConnection: the token is good...
Authenticate(c) ==
  /\ client[c].st = "verifying"
  /\ client' = [client EXCEPT ![c].st = "ready"]
  /\ UNCHANGED <<join, listeners, heartbeat, presence, chat, seen, stream, disturbed, adrift>>

\* ... or not, or the client is gone before it is verified.
Drop(c) ==
  /\ client[c].st = "verifying"
  /\ client' = [client EXCEPT ![c].st = "gone"]
  /\ UNCHANGED <<join, listeners, heartbeat, presence, chat, seen, stream, disturbed, adrift>>

\* handleJoinRoom up to the await.
JoinStart(c, r, j) ==
  /\ Ready(c)
  /\ join[j].st = "unsent"
  /\ LET previous == client[c].room IN
       /\ listeners' = IF previous \in Rooms \ {r} THEN Decrement(previous) ELSE listeners
       /\ client' = [client EXCEPT ![c].room = r,
                                   ![c].connected = @ /\ previous = r]
       /\ disturbed' = disturbed \cup Overtaken(c)
                         \cup (IF previous = r THEN {<<c, r>>} ELSE {})
  /\ join' = [join EXCEPT ![j] = [st |-> "awaiting", client |-> c, room |-> r]]
  /\ UNCHANGED <<heartbeat, presence, chat, seen, stream, adrift>>

\* Mutant: the history is sent only to a client that is alone.
JoinFoundNoHistory(j) ==
  /\ Awaiting(j)
  /\ LET c == join[j].client
         r == join[j].room
     IN /\ SetOnline(client[c].user, r)
        /\ heartbeat' = [heartbeat EXCEPT ![c] = r]
        /\ listeners' = Increment(r)
        /\ client' = [client EXCEPT ![c].connected = @ \/ (Ready(c) /\ client[c].room = r)]
  /\ join' = [join EXCEPT ![j] = [st |-> "done"]]
  /\ UNCHANGED <<chat, seen, stream, disturbed>>

\* findOne found the room; the client may have moved on, or be gone.
JoinFound(j) ==
  /\ Awaiting(j)
  /\ LET c == join[j].client
         r == join[j].room
     IN /\ SetOnline(client[c].user, r)
        /\ heartbeat' = [heartbeat EXCEPT ![c] = r]
        /\ listeners' = Increment(r)
        /\ client' = [client EXCEPT ![c].connected = @ \/ (Ready(c) /\ client[c].room = r)]
        /\ seen' = [seen EXCEPT ![c] = IF Ready(c) THEN @ \cup ToSet(chat[r]) ELSE @]
  /\ join' = [join EXCEPT ![j] = [st |-> "done"]]
  /\ UNCHANGED <<chat, stream, disturbed>>

\* There is no such room, or findOne rejects.
JoinFails(j) ==
  /\ Awaiting(j)
  /\ disturbed' = disturbed \cup {<<join[j].client, join[j].room>>}
  /\ join' = [join EXCEPT ![j] = [st |-> "done"]]
  /\ UNCHANGED <<client, listeners, heartbeat, presence, chat, seen, stream, adrift>>

\* handleLeaveRoom.
LeaveRoom(c) ==
  /\ Ready(c)
  /\ client[c].room # None
  /\ listeners' = Decrement(client[c].room)
  /\ heartbeat' = [heartbeat EXCEPT ![c] = None]
  /\ SetOffline(client[c].user)
  /\ client' = [client EXCEPT ![c].room = None, ![c].connected = FALSE]
  /\ disturbed' = disturbed \cup Overtaken(c)
  /\ UNCHANGED <<join, chat, seen, stream>>

\* Mutant: the heartbeat is not cleared.
DisconnectBeating(c) ==
  /\ Ready(c)
  /\ listeners' = IF client[c].room = None THEN listeners ELSE Decrement(client[c].room)
  /\ SetOffline(client[c].user)
  /\ client' = [client EXCEPT ![c].st = "gone", ![c].connected = FALSE]
  /\ disturbed' = disturbed \cup Overtaken(c)
  /\ UNCHANGED <<join, heartbeat, chat, seen, stream>>

\* handleDisconnect.
Disconnect(c) ==
  /\ Ready(c)
  /\ listeners' = IF client[c].room = None THEN listeners ELSE Decrement(client[c].room)
  /\ heartbeat' = [heartbeat EXCEPT ![c] = None]
  /\ SetOffline(client[c].user)
  /\ client' = [client EXCEPT ![c].st = "gone", ![c].connected = FALSE]
  /\ disturbed' = disturbed \cup Overtaken(c)
  /\ UNCHANGED <<join, chat, seen, stream>>

InRoom(r) == {c \in Clients : Ready(c) /\ client[c].room = r}

\* Mutant: the history is not trimmed.
SendMessageUnbounded(c, m) ==
  /\ Ready(c)
  /\ \A r \in Rooms : m \notin ToSet(chat[r])
  /\ \A d \in Clients : m \notin seen[d]
  /\ \E r \in Rooms :
       /\ r = client[c].room
       /\ chat' = [chat EXCEPT ![r] = Append(chat[r], m)]
       /\ seen' = [d \in Clients |-> IF d \in InRoom(r) THEN seen[d] \cup {m} ELSE seen[d]]
  /\ UNCHANGED <<client, join, listeners, heartbeat, presence, stream, disturbed, adrift>>

\* handleSendMessage; a message is sent once.
SendMessage(c, m) ==
  /\ Ready(c)
  /\ \A r \in Rooms : m \notin ToSet(chat[r])
  /\ \A d \in Clients : m \notin seen[d]
  /\ \E r \in Rooms :
       /\ r = client[c].room
       /\ LET longer == Append(chat[r], m) IN
            chat' = [chat EXCEPT ![r] = IF Len(longer) > MaxMessages THEN Tail(longer) ELSE longer]
       /\ seen' = [d \in Clients |-> IF d \in InRoom(r) THEN seen[d] \cup {m} ELSE seen[d]]
  /\ UNCHANGED <<client, join, listeners, heartbeat, presence, stream, disturbed, adrift>>

-----------------------------------------------------------------------------
(* The stream of server-sent events.                                       *)

\* connectToRoom up to the await.
StreamStart(s, u, r) ==
  /\ stream[s].st = "unsent"
  /\ stream' = [stream EXCEPT ![s] = [st |-> "awaiting", user |-> u, room |-> r, gone |-> FALSE]]
  /\ UNCHANGED <<client, join, listeners, heartbeat, presence, chat, seen, disturbed, adrift>>

\* The client closes the request while the row is read.
StreamAbandon(s) ==
  /\ stream[s].st = "awaiting"
  /\ stream' = [stream EXCEPT ![s].gone = TRUE]
  /\ UNCHANGED <<client, join, listeners, heartbeat, presence, chat, seen, disturbed, adrift>>

\* findOne found the room.
StreamFound(s) ==
  /\ stream[s].st = "awaiting"
  /\ SetOnline(stream[s].user, stream[s].room)
  /\ stream' = [stream EXCEPT ![s].st = "open"]
  /\ UNCHANGED <<client, join, listeners, heartbeat, chat, seen, disturbed>>

\* There is no such room: room!.id throws; or findOne rejects.
StreamFails(s) ==
  /\ stream[s].st = "awaiting"
  /\ stream' = [stream EXCEPT ![s] = [st |-> "done"]]
  /\ UNCHANGED <<client, join, listeners, heartbeat, presence, chat, seen, disturbed, adrift>>

\* Mutant: the presence key is left to expire.
StreamCloseQuietly(s) ==
  /\ stream[s].st = "open" /\ ~stream[s].gone
  /\ stream' = [stream EXCEPT ![s] = [st |-> "closed", user |-> stream[s].user]]
  /\ UNCHANGED <<client, join, listeners, heartbeat, presence, chat, seen, disturbed, adrift>>

\* The request closes.  One that closed before the handler listened is not heard of.
StreamClose(s) ==
  /\ stream[s].st = "open" /\ ~stream[s].gone
  /\ SetOffline(stream[s].user)
  /\ stream' = [stream EXCEPT ![s] = [st |-> "closed", user |-> stream[s].user]]
  /\ UNCHANGED <<client, join, listeners, heartbeat, chat, seen, disturbed>>

StreamBeat(s) ==
  /\ stream[s].st = "open"
  /\ SetOnline(stream[s].user, stream[s].room)
  /\ UNCHANGED <<client, join, listeners, heartbeat, chat, seen, stream, disturbed>>

-----------------------------------------------------------------------------
(* Presence.                                                               *)

OpenStreams(u) == {s \in Streams : stream[s].st = "open" /\ stream[s].user = u}

\* The rooms the intervals that run for u report.
Reported(u) == ({heartbeat[c] : c \in {d \in Clients : client[d].user = u}} \ {None})
                 \cup {stream[s].room : s \in OpenStreams(u)}

\* getPresence.
IsOnline(u) == presence[u] # None

\* The interval of a client sets its user online once more.
Beat(c) ==
  /\ heartbeat[c] # None
  /\ SetOnline(client[c].user, heartbeat[c])
  /\ UNCHANGED <<client, join, listeners, heartbeat, chat, seen, stream, disturbed>>

\* Redis drops a key that was not set for 60 seconds; an interval sets it every 30,
\* unless its commands are rejected.
Expire(u) ==
  /\ IsOnline(u)
  /\ Reported(u) = {} \/ u \in adrift
  /\ presence' = [presence EXCEPT ![u] = None]
  /\ UNCHANGED <<client, join, listeners, heartbeat, chat, seen, stream, disturbed, adrift>>

\* The server restarts: its memory is empty and no socket is left.
Restart ==
  /\ (\E c \in Clients : Ready(c)) \/ (\E s \in Streams : stream[s].st \in {"awaiting", "open"})
  /\ client' = [c \in Clients |-> [client[c] EXCEPT !.st = "gone", !.connected = FALSE]]
  /\ join' = [j \in Joins |-> IF Awaiting(j) THEN [st |-> "done"] ELSE join[j]]
  /\ listeners' = [r \in Rooms |-> 0]
  /\ heartbeat' = [c \in Clients |-> None]
  /\ chat' = [r \in Rooms |-> << >>]
  /\ stream' = [s \in Streams |->
       IF stream[s].st = "awaiting" THEN [st |-> "done"]
       ELSE IF stream[s].st = "open" THEN [st |-> "closed", user |-> stream[s].user] ELSE stream[s]]
  /\ adrift' = adrift \cup {u \in Users : IsOnline(u)}
  /\ UNCHANGED <<presence, seen, disturbed>>

Next ==
  \/ \E c \in Clients :
       \/ Authenticate(c) \/ Drop(c)
       \/ \E r \in Rooms, j \in Joins : JoinStart(c, r, j)
       \/ LeaveRoom(c) \/ Disconnect(c)
       \/ \E m \in Messages : SendMessage(c, m)
       \/ Beat(c)
  \/ \E j \in Joins : JoinFound(j) \/ JoinFails(j)
  \/ \E s \in Streams :
       \/ \E u \in Users, r \in Rooms : StreamStart(s, u, r)
       \/ StreamAbandon(s) \/ StreamFound(s) \/ StreamFails(s)
       \/ StreamBeat(s) \/ StreamClose(s)
  \/ \E u \in Users : Expire(u)
  \/ Restart

Spec == Init /\ [][Next]_vars

-----------------------------------------------------------------------------
(* Properties.                                                             *)

Connected(r) == {c \in InRoom(r) : client[c].connected}

\* A room's relay counts exactly the clients that entered it, so it lives as
\* long as one of them and no longer, if every join of that room completed
\* before its client's next event and none was repeated.
ListenerAccounting ==
  \A r \in Rooms : (\A c \in Clients : <<c, r>> \notin disturbed)
                     => listeners[r] = Cardinality(Connected(r))

\* A client whose joins were undisturbed has a heartbeat exactly while it is in
\* a room; it reports that room, and so does the presence key of a user who has
\* used no other socket and no stream, once a command about him has reached Redis
\* since the last one that was rejected.
PresenceTracksRoom ==
  \A c \in Clients :
    Pending(c) = {} /\ (\A r \in Rooms : <<c, r>> \notin disturbed) =>
      /\ heartbeat[c] = IF client[c].connected THEN client[c].room ELSE None
      /\ client[c].connected /\ client[c].user \notin adrift
           /\ (\A d \in Clients \ {c} : client[d].user = client[c].user
                                            => client[d].st = "verifying")
           /\ (\A s \in Streams : stream[s].st \in {"open", "closed"}
                                    => stream[s].user # client[c].user)
         => presence[client[c].user] = client[c].room

\* Whatever overtakes what: a friend who reads that a user is online in a room
\* reads what some interval still reports, a socket's or a stream's, so nobody
\* is shown in a room that none of his connections brought him to last.  A rejected
\* command and the death of the server leave a key that may be wrong, but only
\* until the next command about that user that reaches Redis.
OnlineIsReported ==
  \A u \in Users \ adrift : IsOnline(u) => presence[u] \in Reported(u)

\* Whatever overtakes what: a client that was sent 'connected' for the room it
\* is in has been sent every message the room still keeps; the await between
\* entering and the history leaves no gap.
HistoryHasNoGap ==
  \A r \in Rooms : \A c \in Connected(r) : ToSet(chat[r]) \subseteq seen[c]
=============================================================================
