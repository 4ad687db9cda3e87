-------------------------- MODULE RoomGatewayProofs --------------------------
(* Proofs about RoomGateway, for any number of users, clients, rooms,      *)
(* streams and messages, any length of the history and finitely many       *)
(* joins.                                                                  *)
EXTENDS RoomGateway, FiniteSetTheorems, TLAPS

(***************************************************************************)
(* Type correctness.  The bound on a relay's count is inductive only with  *)
(* the joins that are over: each of them counts once, at most.             *)
(***************************************************************************)

TypedMemory ==
  /\ client \in [Clients -> Client]
  /\ join \in [Joins -> Join]
  /\ heartbeat \in [Clients -> Rooms \cup {None}]
  /\ presence \in [Users -> Rooms \cup {None}]
  /\ stream \in [Streams -> Stream]

TypedChat ==
  /\ chat \in [Rooms -> Seq(Messages)]
  /\ \A r \in Rooms : Len(chat[r]) <= MaxMessages
  /\ seen \in [Clients -> SUBSET Messages]

TypedHistory ==
  /\ disturbed \subseteq Clients \X Rooms
  /\ adrift \subseteq Users

Over == {j \in Joins : join[j].st = "done"}

CountBounded ==
  /\ listeners \in [Rooms -> Nat]
  /\ \A r \in Rooms : listeners[r] <= Cardinality(Over)

Typed == TypedMemory /\ TypedChat /\ TypedHistory /\ CountBounded

LEMMA OverIsFinite == IsFiniteSet(Over) /\ Cardinality(Over) \in Nat
                        /\ Cardinality(Over) <= Cardinality(Joins)
  <1>1. Over \subseteq Joins
    BY DEF Over
  <1> QED BY <1>1, JoinsAssumption, FS_Subset, FS_CardinalityType

LEMMA TypedIsTypeOK == Typed => TypeOK
  <1> SUFFICES ASSUME Typed PROVE TypeOK
    OBVIOUS
  <1>1. listeners \in [Rooms -> 0..Cardinality(Joins)]
    <2>1. Cardinality(Joins) \in Nat
      BY JoinsAssumption, FS_CardinalityType
    <2> QED BY <2>1, OverIsFinite DEF Typed, CountBounded
  <1>2. ASSUME NEW r \in Rooms
        PROVE ToSet(chat[r]) \subseteq Messages /\ Len(chat[r]) <= MaxMessages
    BY DEF Typed, TypedChat, ToSet
  <1> QED BY <1>1, <1>2 DEF Typed, TypedMemory, TypedChat, TypedHistory, TypeOK

\* What the record of a join or of a stream says while it waits.
LEMMA AwaitedJoin ==
  ASSUME TypedMemory, NEW j \in Joins, Awaiting(j)
  PROVE join[j].client \in Clients /\ join[j].room \in Rooms
  BY DEF TypedMemory, Join, Awaiting

LEMMA LiveStream ==
  ASSUME TypedMemory, NEW s \in Streams, stream[s].st \in {"awaiting", "open"}
  PROVE stream[s] \in [st : {"awaiting", "open"}, user : Users, room : Rooms, gone : BOOLEAN]
  BY DEF TypedMemory, Stream

\* What a command on u's key does, whether or not it reaches Redis.
LEMMA CommandDoes ==
  ASSUME TypedMemory, NEW u \in Users, NEW key, Command(u, key)
  PROVE  /\ u \notin adrift' => presence'[u] = key
         /\ adrift' \subseteq adrift \cup {u}
         /\ key \in Rooms \cup {None} => presence' \in [Users -> Rooms \cup {None}]
  <1> DEFINE settled == [presence EXCEPT ![u] = key]
  <1>1. \/ presence' = settled /\ adrift' = adrift \ {u}
        \/ presence' \in {presence, settled} /\ adrift' = adrift \cup {u}
    BY DEF Command
  <1>2. settled[u] = key
    BY DEF TypedMemory
  <1>3. key \in Rooms \cup {None} => settled \in [Users -> Rooms \cup {None}]
    BY DEF TypedMemory
  <1> HIDE DEF settled
  <1> QED BY <1>1, <1>2, <1>3 DEF TypedMemory

\* It is about u, and settles his key unless it sets him adrift.
LEMMA CommandAside ==
  ASSUME TypedMemory, NEW u \in Users, NEW key, Command(u, key), NEW v \in Users, v # u
  PROVE  presence'[v] = presence[v] /\ (v \in adrift' <=> v \in adrift)
  BY DEF Command, TypedMemory

LEMMA CommandSettles ==
  ASSUME TypedMemory, NEW u \in Users, NEW key, Command(u, key), u \notin adrift'
  PROVE  presence'[u] = key
  BY CommandDoes

LEMMA OvertakenType ==
  ASSUME TypedMemory, NEW c \in Clients
  PROVE Overtaken(c) \subseteq Clients \X Rooms
  <1>1. \A j \in Pending(c) : join[j].room \in Rooms
    BY AwaitedJoin DEF Pending
  <1> QED BY <1>1 DEF Overtaken

LEMMA InitTyped == Init => Typed
  <1> SUFFICES ASSUME Init PROVE Typed
    OBVIOUS
  <1>1. TypedMemory
    <2>1. client \in [Clients -> Client]
      BY DEF Init, Client
    <2> QED BY <2>1 DEF Init, TypedMemory, Join, Stream
  <1>2. TypedChat
    BY MaxMessagesAssumption DEF Init, TypedChat
  <1>3. CountBounded
    BY OverIsFinite DEF Init, CountBounded
  <1> QED BY <1>1, <1>2, <1>3 DEF Init, Typed, TypedHistory

(* Memory: sockets, joins, heartbeats, keys and streams.                   *)

LEMMA MemoryNext == Typed /\ [Next]_vars => TypedMemory'
  <1> SUFFICES ASSUME Typed, [Next]_vars PROVE TypedMemory'
    OBVIOUS
  <1>0. TypedMemory
    BY DEF Typed
  <1> USE DEF TypedMemory
  <1>1. ASSUME NEW c \in Clients, Authenticate(c) \/ Drop(c) PROVE TypedMemory'
    BY <1>0, <1>1 DEF Authenticate, Drop, Client
  <1>2. ASSUME NEW c \in Clients, NEW r \in Rooms, NEW j \in Joins, JoinStart(c, r, j)
        PROVE TypedMemory'
    <2> DEFINE still == client[c].connected /\ client[c].room = r
    <2>1. client' = [client EXCEPT ![c].room = r, ![c].connected = still]
      BY <1>2 DEF JoinStart
    <2>2. still \in BOOLEAN
      OBVIOUS
    <2>3. client' \in [Clients -> Client]
      <3> HIDE DEF still
      <3> QED BY ZenonT(30), <1>0, <2>1, <2>2 DEF Client
    <2>4. join' \in [Joins -> Join]
      BY <1>0, <1>2 DEF JoinStart, Join
    <2> QED BY <1>0, <1>2, <2>3, <2>4 DEF JoinStart
  <1>3. ASSUME NEW j \in Joins, JoinFound(j) PROVE TypedMemory'
    <2> DEFINE c == join[j].client
               r == join[j].room
               entered == client[c].connected \/ (Ready(c) /\ client[c].room = r)
    <2>1. c \in Clients /\ r \in Rooms
      BY <1>0, <1>3, AwaitedJoin DEF JoinFound
    <2>2. client' = [client EXCEPT ![c].connected = entered]
      BY <1>3 DEF JoinFound
    <2>3. entered \in BOOLEAN
      OBVIOUS
    <2>4. client' \in [Clients -> Client]
      <3> HIDE DEF entered, c
      <3> QED BY <1>0, <2>1, <2>2, <2>3 DEF Client
    <2>5. client[c].user \in Users
      BY <1>0, <2>1 DEF Client
    <2>6. join' \in [Joins -> Join]
      BY <1>0, <1>3 DEF JoinFound, Join
    <2>7. heartbeat' \in [Clients -> Rooms \cup {None}]
      BY <1>0, <1>3, <2>1 DEF JoinFound
    <2>8. presence' \in [Users -> Rooms \cup {None}]
      <3>1. Command(client[c].user, r)
        BY <1>3 DEF JoinFound, SetOnline
      <3> HIDE DEF c, r
      <3> QED BY <1>0, <2>1, <2>5, <3>1, CommandDoes
    <2> QED BY <1>0, <1>3, <2>4, <2>6, <2>7, <2>8 DEF JoinFound
  <1>4. ASSUME NEW j \in Joins, JoinFails(j) PROVE TypedMemory'
    BY <1>0, <1>4 DEF JoinFails, Join
  <1>5. ASSUME NEW c \in Clients, LeaveRoom(c) \/ Disconnect(c) PROVE TypedMemory'
    <2>1. client' \in [Clients -> Client]
      <3>1. CASE LeaveRoom(c)
        BY ZenonT(30), <1>0, <3>1 DEF LeaveRoom, Client
      <3>2. CASE Disconnect(c)
        BY ZenonT(30), <1>0, <3>2 DEF Disconnect, Client
      <3> QED BY <1>5, <3>1, <3>2
    <2>2. heartbeat' \in [Clients -> Rooms \cup {None}]
      BY <1>0, <1>5 DEF LeaveRoom, Disconnect
    <2>3. presence' \in [Users -> Rooms \cup {None}]
      <3>1. Command(client[c].user, None) /\ client[c].user \in Users
        BY <1>0, <1>5 DEF LeaveRoom, Disconnect, SetOffline, Client
      <3> QED BY <1>0, <3>1, CommandDoes
    <2> QED BY <1>0, <1>5, <2>1, <2>2, <2>3 DEF LeaveRoom, Disconnect
  <1>6. ASSUME NEW c \in Clients, NEW m \in Messages, SendMessage(c, m) PROVE TypedMemory'
    BY <1>0, <1>6 DEF SendMessage
  <1>7. ASSUME NEW c \in Clients, Beat(c) PROVE TypedMemory'
    <2>1. client[c].user \in Users
      BY <1>0 DEF Client
    <2>2. Command(client[c].user, heartbeat[c]) /\ heartbeat[c] \in Rooms \cup {None}
      BY <1>0, <1>7 DEF Beat, SetOnline
    <2>3. presence' \in [Users -> Rooms \cup {None}]
      BY <1>0, <2>1, <2>2, CommandDoes
    <2> QED BY <1>0, <1>7, <2>3 DEF Beat
  <1>8. ASSUME NEW s \in Streams, NEW u \in Users, NEW r \in Rooms, StreamStart(s, u, r)
        PROVE TypedMemory'
    BY <1>0, <1>8 DEF StreamStart, Stream
  <1>9. ASSUME NEW s \in Streams, StreamAbandon(s) \/ StreamFound(s) PROVE TypedMemory'
    <2>1. stream[s] \in [st : {"awaiting", "open"}, user : Users, room : Rooms, gone : BOOLEAN]
      BY <1>0, <1>9, LiveStream DEF StreamAbandon, StreamFound
    <2>2. stream' \in [Streams -> Stream]
      <3>1. CASE StreamAbandon(s)
        BY <1>0, <2>1, <3>1 DEF StreamAbandon, Stream
      <3>2. CASE StreamFound(s)
        BY <1>0, <2>1, <3>2 DEF StreamFound, Stream
      <3> QED BY <1>9, <3>1, <3>2
    <2>3. presence' \in [Users -> Rooms \cup {None}]
      <3>1. CASE StreamAbandon(s)
        BY <1>0, <3>1 DEF StreamAbandon
      <3>2. CASE StreamFound(s)
        BY <1>0, <2>1, <3>2, CommandDoes DEF StreamFound, SetOnline
      <3> QED BY <1>9, <3>1, <3>2
    <2> QED BY <1>0, <1>9, <2>2, <2>3 DEF StreamAbandon, StreamFound
  <1>10. ASSUME NEW s \in Streams, StreamFails(s) \/ StreamClose(s) \/ StreamBeat(s)
         PROVE TypedMemory'
    <2>1. stream[s] \in [st : {"awaiting", "open"}, user : Users, room : Rooms, gone : BOOLEAN]
      BY <1>0, <1>10, LiveStream DEF StreamFails, StreamClose, StreamBeat
    <2>2. stream' \in [Streams -> Stream]
      BY <1>0, <1>10, <2>1 DEF StreamFails, StreamClose, StreamBeat, Stream
    <2>3. presence' \in [Users -> Rooms \cup {None}]
      <3>1. CASE StreamFails(s)
        BY <1>0, <3>1 DEF StreamFails
      <3>2. CASE StreamClose(s)
        BY <1>0, <2>1, <3>2, CommandDoes DEF StreamClose, SetOffline
      <3>3. CASE StreamBeat(s)
        BY <1>0, <2>1, <3>3, CommandDoes DEF StreamBeat, SetOnline
      <3> QED BY <1>10, <3>1, <3>2, <3>3
    <2> QED BY <1>0, <1>10, <2>2, <2>3 DEF StreamFails, StreamClose, StreamBeat
  <1>11. ASSUME NEW u \in Users, Expire(u) PROVE TypedMemory'
    BY <1>0, <1>11 DEF Expire
  <1>12. ASSUME Restart PROVE TypedMemory'
    <2>1. client' \in [Clients -> Client]
      BY ZenonT(30), <1>0, <1>12 DEF Restart, Client
    <2>2. join' \in [Joins -> Join]
      BY <1>0, <1>12 DEF Restart, Join
    <2>3. stream' \in [Streams -> Stream]
      <3> SUFFICES ASSUME NEW s \in Streams PROVE stream'[s] \in Stream
        BY <1>12 DEF Restart
      <3>1. CASE stream[s].st = "open"
        BY <1>0, <1>12, <3>1, LiveStream DEF Restart, Stream
      <3>2. CASE stream[s].st # "open"
        BY <1>0, <1>12, <3>2 DEF Restart, Stream
      <3> QED BY <3>1, <3>2
    <2> QED BY <1>0, <1>12, <2>1, <2>2, <2>3 DEF Restart
  <1>13. CASE UNCHANGED vars
    BY <1>0, <1>13 DEF vars
  <1> QED BY <1>1, <1>2, <1>3, <1>4, <1>5, <1>6, <1>7, <1>8, <1>9, <1>10, <1>11, <1>12, <1>13
          DEF Next

(* Messages.                                                               *)

\* A message appended to a history, with or without the first one dropped.
LEMMA Kept ==
  ASSUME NEW s \in Seq(Messages), NEW m \in Messages
  PROVE /\ Append(s, m) \in Seq(Messages)
        /\ Len(Append(s, m)) = Len(s) + 1
        /\ ToSet(Append(s, m)) \subseteq ToSet(s) \cup {m}
        /\ Tail(Append(s, m)) \in Seq(Messages)
        /\ Len(Tail(Append(s, m))) = Len(s)
        /\ ToSet(Tail(Append(s, m))) \subseteq ToSet(s) \cup {m}
  <1> DEFINE t == Append(s, m)
  <1>1. t \in Seq(Messages) /\ Len(t) = Len(s) + 1 /\ t # << >>
    <2>1. t \in Seq(Messages) /\ Len(t) = Len(s) + 1 /\ Len(s) \in Nat
      OBVIOUS
    <2>2. Len(t) # 0
      BY <2>1
    <2> HIDE DEF t
    <2> QED BY <2>1, <2>2
  <1>2. \A i \in 1..Len(t) : t[i] \in ToSet(s) \cup {m}
    BY DEF ToSet
  <1>3. Tail(t) \in Seq(Messages) /\ Len(Tail(t)) = Len(s)
    <2> HIDE DEF t
    <2> QED BY <1>1
  <1>4. \A i \in 1..Len(s) : Tail(t)[i] = t[i + 1]
    <2> HIDE DEF t
    <2> QED BY <1>1
  <1>5. ToSet(t) \subseteq ToSet(s) \cup {m}
    <2> HIDE DEF t
    <2> QED BY <1>1, <1>2 DEF ToSet
  <1>6. ToSet(Tail(t)) \subseteq ToSet(s) \cup {m}
    <2>1. ASSUME NEW i \in 1..Len(s) PROVE Tail(t)[i] \in ToSet(s) \cup {m}
      <3>1. i + 1 \in 1..Len(t)
        BY <1>1
      <3> HIDE DEF t
      <3> QED BY <1>2, <1>4, <3>1
    <2>2. DOMAIN Tail(t) = 1..Len(s)
      <3> HIDE DEF t
      <3> QED BY <1>3
    <2> HIDE DEF t
    <2> QED BY <2>1, <2>2 DEF ToSet
  <1> QED BY <1>1, <1>3, <1>5, <1>6

\* What a room keeps is of its history and of the message just sent.
LEMMA Trimmed ==
  ASSUME TypedChat, NEW c \in Clients, NEW m \in Messages, SendMessage(c, m)
  PROVE /\ chat' \in [Rooms -> Seq(Messages)]
        /\ \A r \in Rooms : Len(chat'[r]) <= MaxMessages
        /\ \A r \in Rooms : ToSet(chat'[r]) \subseteq
             ToSet(chat[r]) \cup (IF r = client[c].room THEN {m} ELSE {})
  <1>1. PICK r \in Rooms :
          /\ r = client[c].room
          /\ chat' = [chat EXCEPT ![r] = IF Len(Append(chat[r], m)) > MaxMessages
                                           THEN Tail(Append(chat[r], m)) ELSE Append(chat[r], m)]
    BY DEF SendMessage
  <1> DEFINE new == IF Len(Append(chat[r], m)) > MaxMessages
                      THEN Tail(Append(chat[r], m)) ELSE Append(chat[r], m)
  <1>2. chat[r] \in Seq(Messages) /\ Len(chat[r]) <= MaxMessages
    BY DEF TypedChat
  <1>3. new \in Seq(Messages) /\ ToSet(new) \subseteq ToSet(chat[r]) \cup {m}
    BY <1>2, Kept
  <1>4. Len(new) <= MaxMessages
    <2>1. Len(chat[r]) \in Nat
      BY <1>2
    <2> QED BY <1>2, <2>1, Kept, MaxMessagesAssumption
  <1>5. chat' = [chat EXCEPT ![r] = new]
    BY <1>1
  <1> HIDE DEF new
  <1>6. chat' \in [Rooms -> Seq(Messages)]
    BY <1>1, <1>3, <1>5 DEF TypedChat
  <1>7. ASSUME NEW q \in Rooms
        PROVE  /\ Len(chat'[q]) <= MaxMessages
               /\ ToSet(chat'[q]) \subseteq
                    ToSet(chat[q]) \cup (IF q = client[c].room THEN {m} ELSE {})
    <2>1. CASE q = r
      BY <1>1, <1>3, <1>4, <1>5, <2>1 DEF TypedChat
    <2>2. CASE q # r
      BY <1>5, <2>2 DEF TypedChat
    <2> QED BY <2>1, <2>2
  <1> QED BY <1>6, <1>7

LEMMA ChatNext == Typed /\ [Next]_vars => TypedChat'
  <1> SUFFICES ASSUME Typed, [Next]_vars PROVE TypedChat'
    OBVIOUS
  <1>0. TypedMemory /\ TypedChat
    BY DEF Typed
  <1>1. ASSUME NEW c \in Clients, NEW m \in Messages, SendMessage(c, m) PROVE TypedChat'
    <2>1. seen' \in [Clients -> SUBSET Messages]
      BY <1>0, <1>1 DEF SendMessage, TypedChat
    <2> QED BY <1>0, <1>1, <2>1, Trimmed DEF TypedChat
  <1>2. ASSUME NEW j \in Joins, JoinFound(j) PROVE TypedChat'
    <2>1. join[j].client \in Clients /\ join[j].room \in Rooms
      BY <1>0, <1>2, AwaitedJoin DEF JoinFound
    <2>2. ToSet(chat[join[j].room]) \subseteq Messages
      BY <1>0, <2>1 DEF TypedChat, ToSet
    <2>3. chat' = chat
      BY <1>2 DEF JoinFound
    <2>4. seen' = [seen EXCEPT ![join[j].client] =
                     IF Ready(join[j].client) THEN @ \cup ToSet(chat[join[j].room]) ELSE @]
      BY <1>2 DEF JoinFound
    <2>5. seen' \in [Clients -> SUBSET Messages]
      BY <1>0, <2>1, <2>2, <2>4 DEF TypedChat
    <2> QED BY <1>0, <2>3, <2>5 DEF TypedChat
  <1>3. ASSUME Restart PROVE TypedChat'
    <2>1. chat' = [r \in Rooms |-> << >>] /\ seen' = seen
      BY <1>3 DEF Restart
    <2>2. chat' \in [Rooms -> Seq(Messages)] /\ \A r \in Rooms : Len(chat'[r]) = 0
      BY <2>1
    <2> QED BY <1>0, <2>1, <2>2, MaxMessagesAssumption DEF TypedChat
  <1>4. CASE UNCHANGED <<chat, seen>>
    BY <1>0, <1>4 DEF TypedChat
  <1>5. \/ \E c \in Clients, m \in Messages : SendMessage(c, m)
        \/ \E j \in Joins : JoinFound(j)
        \/ Restart
        \/ UNCHANGED <<chat, seen>>
    BY ZenonT(30)
       DEF Next, vars, Authenticate, Drop, JoinStart, JoinFails, LeaveRoom, Disconnect, Beat,
           StreamStart, StreamAbandon, StreamFound, StreamFails, StreamClose, StreamBeat, Expire
  <1> QED BY <1>1, <1>2, <1>3, <1>4, <1>5

(* History variables.                                                      *)

LEMMA HistoryNext == Typed /\ [Next]_vars => TypedHistory'
  <1> SUFFICES ASSUME Typed, [Next]_vars PROVE TypedHistory'
    OBVIOUS
  <1>0. TypedMemory /\ TypedHistory
    BY DEF Typed
  <1> USE DEF TypedHistory
  <1>1. ASSUME NEW c \in Clients, NEW r \in Rooms, NEW j \in Joins, JoinStart(c, r, j)
        PROVE TypedHistory'
    BY <1>0, <1>1, OvertakenType DEF JoinStart
  <1>2. ASSUME NEW c \in Clients, LeaveRoom(c) \/ Disconnect(c) PROVE TypedHistory'
    <2>1. Command(client[c].user, None) /\ client[c].user \in Users
      BY <1>0, <1>2 DEF LeaveRoom, Disconnect, SetOffline, TypedMemory, Client
    <2>2. adrift' \subseteq Users
      BY <1>0, <2>1, CommandDoes
    <2> QED BY <1>0, <1>2, <2>2, OvertakenType DEF LeaveRoom, Disconnect
  <1>3. ASSUME NEW j \in Joins, JoinFails(j) PROVE TypedHistory'
    BY <1>0, <1>3, AwaitedJoin DEF JoinFails
  <1>4. ASSUME Restart PROVE TypedHistory'
    BY <1>0, <1>4 DEF Restart
  <1>5. CASE UNCHANGED <<disturbed, adrift>>
    BY <1>0, <1>5
  <1>6. ASSUME NEW u, NEW key, u \in Users, Command(u, key), disturbed' = disturbed
        PROVE TypedHistory'
    BY <1>0, <1>6, CommandDoes
  <1>7. ASSUME NEW j \in Joins, JoinFound(j) PROVE TypedHistory'
    <2>1. PICK c \in Clients : c = join[j].client
      BY <1>0, <1>7, AwaitedJoin DEF JoinFound
    <2>2. client[c].user \in Users /\ Command(client[c].user, join[j].room) /\ disturbed' = disturbed
      BY <1>0, <1>7, <2>1 DEF JoinFound, SetOnline, TypedMemory, Client
    <2> QED BY <1>6, <2>2
  <1>8. ASSUME NEW c \in Clients, Beat(c) PROVE TypedHistory'
    <2>1. client[c].user \in Users /\ Command(client[c].user, heartbeat[c]) /\ disturbed' = disturbed
      BY <1>0, <1>8 DEF Beat, SetOnline, TypedMemory, Client
    <2> QED BY <1>6, <2>1
  <1>9. ASSUME NEW s \in Streams, StreamFound(s) \/ StreamBeat(s) \/ StreamClose(s)
        PROVE TypedHistory'
    <2>1. stream[s].user \in Users
      BY <1>0, <1>9, LiveStream DEF StreamFound, StreamBeat, StreamClose
    <2>2. disturbed' = disturbed /\ \E key : Command(stream[s].user, key)
      BY <1>9 DEF StreamFound, StreamBeat, StreamClose, SetOnline, SetOffline
    <2> QED BY <1>6, <2>1, <2>2
  <1>10. \/ \E c \in Clients, r \in Rooms, j \in Joins : JoinStart(c, r, j)
         \/ \E c \in Clients : LeaveRoom(c) \/ Disconnect(c) \/ Beat(c)
         \/ \E j \in Joins : JoinFound(j) \/ JoinFails(j)
         \/ \E s \in Streams : StreamFound(s) \/ StreamBeat(s) \/ StreamClose(s)
         \/ Restart
         \/ UNCHANGED <<disturbed, adrift>>
    BY DEF Next, vars, Authenticate, Drop, SendMessage,
           StreamStart, StreamAbandon, StreamFails, Expire
  <1> QED BY <1>1, <1>2, <1>3, <1>4, <1>5, <1>7, <1>8, <1>9, <1>10

(* Relays.                                                                 *)

\* A relay's count only falls, and no join that is over starts again.
LEMMA CountFalls ==
  ASSUME Typed, Over \subseteq Over', IsFiniteSet(Over'), Cardinality(Over') \in Nat,
         listeners' \in [Rooms -> Nat],
         \A r \in Rooms : listeners'[r] <= listeners[r]
  PROVE CountBounded'
  <1>1. Cardinality(Over) <= Cardinality(Over')
    BY FS_Subset
  <1>2. ASSUME NEW r \in Rooms PROVE listeners'[r] <= Cardinality(Over')
    <2>1. listeners[r] <= Cardinality(Over) /\ listeners[r] \in Nat /\ listeners'[r] \in Nat
      BY DEF Typed, CountBounded
    <2> QED BY <1>1, <2>1, OverIsFinite
  <1> QED BY <1>2 DEF CountBounded

LEMMA CountNext == Typed /\ [Next]_vars => CountBounded'
  <1> SUFFICES ASSUME Typed, [Next]_vars PROVE CountBounded'
    OBVIOUS
  <1>0. TypedMemory /\ listeners \in [Rooms -> Nat]
    BY DEF Typed, CountBounded
  <1>a. Over' \subseteq Joins
    BY DEF Over
  <1>b. IsFiniteSet(Over') /\ Cardinality(Over') \in Nat
    BY <1>a, JoinsAssumption, FS_Subset, FS_CardinalityType
  <1>c. ASSUME NEW r \in Rooms
        PROVE /\ Decrement(r) \in [Rooms -> Nat]
              /\ \A q \in Rooms : Decrement(r)[q] <= listeners[q]
    BY <1>0 DEF Decrement
  <1>1. ASSUME NEW c \in Clients, NEW r \in Rooms, NEW j \in Joins, JoinStart(c, r, j)
        PROVE CountBounded'
    <2>1. Over \subseteq Over'
      BY <1>0, <1>1 DEF JoinStart, Over, TypedMemory
    <2>2. /\ listeners' \in [Rooms -> Nat]
          /\ \A q \in Rooms : listeners'[q] <= listeners[q]
      BY <1>0, <1>1, <1>c DEF JoinStart
    <2> QED BY <1>b, <2>1, <2>2, CountFalls
  <1>2. ASSUME NEW j \in Joins, JoinFound(j) PROVE CountBounded'
    <2>1. Over' = Over \cup {j} /\ j \notin Over
      BY <1>0, <1>2 DEF JoinFound, Awaiting, Over, TypedMemory
    <2>2. Cardinality(Over') = Cardinality(Over) + 1
      BY <2>1, OverIsFinite, FS_AddElement
    <2>3. listeners' = Increment(join[j].room) /\ join[j].room \in Rooms
      BY <1>0, <1>2, AwaitedJoin DEF JoinFound
    <2>4. listeners' \in [Rooms -> Nat] /\ \A q \in Rooms : listeners'[q] <= listeners[q] + 1
      BY <1>0, <2>3 DEF Increment
    <2>5. ASSUME NEW q \in Rooms PROVE listeners'[q] <= Cardinality(Over')
      <3>1. listeners[q] <= Cardinality(Over) /\ listeners[q] \in Nat /\ listeners'[q] \in Nat
        BY <2>4 DEF Typed, CountBounded
      <3> QED BY <2>2, <2>4, <3>1, OverIsFinite
    <2> QED BY <2>4, <2>5 DEF CountBounded
  <1>3. ASSUME NEW c \in Clients, LeaveRoom(c) \/ Disconnect(c) PROVE CountBounded'
    <2>1. Over \subseteq Over'
      BY <1>3 DEF LeaveRoom, Disconnect, Over
    <2>2. client[c].room \in Rooms \cup {None}
      BY <1>0 DEF TypedMemory, Client
    <2>3. listeners' = listeners \/ \E r \in Rooms : listeners' = Decrement(r)
      BY <1>3, <2>2 DEF LeaveRoom, Disconnect
    <2>4. /\ listeners' \in [Rooms -> Nat]
          /\ \A q \in Rooms : listeners'[q] <= listeners[q]
      BY <1>0, <1>c, <2>3
    <2> QED BY <1>b, <2>1, <2>4, CountFalls
  <1>4. ASSUME NEW j \in Joins, JoinFails(j) PROVE CountBounded'
    <2>1. Over \subseteq Over'
      BY <1>0, <1>4 DEF JoinFails, Over, TypedMemory
    <2>2. listeners' = listeners
      BY <1>4 DEF JoinFails
    <2> QED BY <1>0, <1>b, <2>1, <2>2, CountFalls
  <1>5. ASSUME Restart PROVE CountBounded'
    <2>1. Over \subseteq Over'
      BY <1>5 DEF Restart, Over, Awaiting
    <2>2. listeners' = [r \in Rooms |-> 0]
      BY <1>5 DEF Restart
    <2>3. listeners' \in [Rooms -> Nat] /\ \A q \in Rooms : listeners'[q] <= listeners[q]
      BY <1>0, <2>2
    <2> QED BY <1>b, <2>1, <2>3, CountFalls
  <1>6. CASE UNCHANGED <<join, listeners>>
    <2>1. Over \subseteq Over'
      BY <1>6 DEF Over
    <2> QED BY <1>0, <1>6, <1>b, <2>1, CountFalls
  <1>7. \/ \E c \in Clients, r \in Rooms, j \in Joins : JoinStart(c, r, j)
        \/ \E j \in Joins : JoinFound(j) \/ JoinFails(j)
        \/ \E c \in Clients : LeaveRoom(c) \/ Disconnect(c)
        \/ Restart
        \/ UNCHANGED <<join, listeners>>
    BY DEF Next, vars, Authenticate, Drop, SendMessage, Beat,
           StreamStart, StreamAbandon, StreamFound, StreamFails, StreamClose, StreamBeat, Expire
  <1> QED BY <1>1, <1>2, <1>3, <1>4, <1>5, <1>6, <1>7

LEMMA TypedAlways == Spec => []Typed
  <1>1. Typed /\ [Next]_vars => Typed'
    BY MemoryNext, ChatNext, HistoryNext, CountNext DEF Typed
  <1> QED BY <1>1, InitTyped, PTL DEF Spec

\* Sockets, joins, relays, keys, histories and streams keep their types; in
\* particular no room keeps more than MAX_MESSAGES messages and no relay counts
\* more clients than joins have completed.
THEOREM GatewayTypeCorrect == Spec => []TypeOK
  BY TypedAlways, TypedIsTypeOK, PTL

(***************************************************************************)
(* Presence.  OnlineIsReported is inductive with the types: whatever       *)
(* writes a key either starts the interval that reports it or is that      *)
(* interval, whatever stops one deletes the key, and neither touches the   *)
(* intervals of another user; a command that is rejected sets its user     *)
(* adrift, and one that reaches Redis settles his key.                     *)
(***************************************************************************)

\* The interval that reports a key, named.
LEMMA ReportedBy ==
  ASSUME NEW u, NEW p
  PROVE p \in Reported(u) <=>
          \/ p # None /\ \E c \in Clients : client[c].user = u /\ heartbeat[c] = p
          \/ \E s \in Streams : stream[s].st = "open" /\ stream[s].user = u /\ stream[s].room = p
  BY DEF Reported, OpenStreams

LEMMA UsersStay ==
  ASSUME Typed, [Next]_vars, NEW c \in Clients
  PROVE client'[c].user = client[c].user
  <1>0. TypedMemory
    BY DEF Typed
  <1> USE DEF TypedMemory
  <1>1. ASSUME NEW d \in Clients, Authenticate(d) \/ Drop(d) PROVE client'[c].user = client[c].user
    BY <1>0, <1>1 DEF Authenticate, Drop, Client
  <1>2. ASSUME NEW d \in Clients, NEW r \in Rooms, NEW j \in Joins, JoinStart(d, r, j)
        PROVE client'[c].user = client[c].user
    BY <1>0, <1>2 DEF JoinStart, Client
  <1>3. ASSUME NEW j \in Joins, JoinFound(j) PROVE client'[c].user = client[c].user
    BY <1>0, <1>3 DEF JoinFound, Client
  <1>4. ASSUME NEW d \in Clients, LeaveRoom(d) \/ Disconnect(d)
        PROVE client'[c].user = client[c].user
    BY <1>0, <1>4 DEF LeaveRoom, Disconnect, Client
  <1>5. ASSUME Restart PROVE client'[c].user = client[c].user
    BY <1>0, <1>5 DEF Restart, Client
  <1>6. CASE UNCHANGED client
    BY <1>6
  <1>7. \/ \E d \in Clients : Authenticate(d) \/ Drop(d)
        \/ \E d \in Clients, r \in Rooms, j \in Joins : JoinStart(d, r, j)
        \/ \E j \in Joins : JoinFound(j)
        \/ \E d \in Clients : LeaveRoom(d) \/ Disconnect(d)
        \/ Restart
        \/ UNCHANGED client
    BY DEF Next, vars, SendMessage, Beat, JoinFails, StreamStart, StreamAbandon, StreamFound,
           StreamFails, StreamClose, StreamBeat, Expire
  <1> QED BY <1>1, <1>2, <1>3, <1>4, <1>5, <1>6, <1>7

LEMMA OnlineNext == Typed /\ OnlineIsReported /\ [Next]_vars => OnlineIsReported'
  <1> SUFFICES ASSUME Typed, OnlineIsReported, [Next]_vars,
                      NEW u \in Users, u \notin adrift', presence'[u] # None
               PROVE (presence[u] \in Reported(u))'
    BY DEF OnlineIsReported, IsOnline
  <1>0. TypedMemory
    BY DEF Typed
  <1>a. \A c \in Clients : client'[c].user = client[c].user
    BY UsersStay
  <1>b. /\ presence[u] # None /\ u \notin adrift
           => \/ \E c \in Clients : client[c].user = u /\ heartbeat[c] = presence[u]
              \/ \E s \in Streams :
                   stream[s].st = "open" /\ stream[s].user = u /\ stream[s].room = presence[u]
    BY ReportedBy DEF OnlineIsReported, IsOnline
  \* It is enough to show an interval that reports the key in the next state.
  <1>c. ASSUME NEW c \in Clients, client[c].user = u, heartbeat'[c] = presence'[u]
        PROVE (presence[u] \in Reported(u))'
    BY <1>a, <1>c DEF Reported, OpenStreams
  <1>d. ASSUME NEW s \in Streams, stream'[s].st = "open", stream'[s].user = u,
               stream'[s].room = presence'[u]
        PROVE (presence[u] \in Reported(u))'
    BY <1>d DEF Reported, OpenStreams
  \* A step that leaves the key and u's intervals alone.
  <1>e. ASSUME presence'[u] = presence[u], u \notin adrift,
               \A c \in Clients : client[c].user = u => heartbeat'[c] = heartbeat[c],
               \A s \in Streams : stream[s].st = "open" /\ stream[s].user = u
                 => /\ stream'[s].st = "open" /\ stream'[s].user = u
                    /\ stream'[s].room = stream[s].room
        PROVE (presence[u] \in Reported(u))'
    <2>1. CASE \E c \in Clients : client[c].user = u /\ heartbeat[c] = presence[u]
      BY <1>c, <1>e, <2>1
    <2>2. CASE \E s \in Streams :
                 stream[s].st = "open" /\ stream[s].user = u /\ stream[s].room = presence[u]
      BY <1>d, <1>e, <2>2
    <2> QED BY <1>b, <1>e, <2>1, <2>2
  <1>1. ASSUME NEW j \in Joins, JoinFound(j) PROVE (presence[u] \in Reported(u))'
    <2> DEFINE c == join[j].client
    <2>1. c \in Clients /\ join[j].room \in Rooms
      BY <1>0, <1>1, AwaitedJoin DEF JoinFound
    <2>2. /\ Command(client[c].user, join[j].room)
          /\ heartbeat' = [heartbeat EXCEPT ![c] = join[j].room]
          /\ stream' = stream
      BY <1>1 DEF JoinFound, SetOnline
    <2> HIDE DEF c
    <2>0. client[c].user \in Users
      BY <1>0, <2>1 DEF TypedMemory, Client
    <2>3. CASE client[c].user = u
      <3>1. heartbeat'[c] = join[j].room /\ presence'[u] = join[j].room
        BY <1>0, <2>0, <2>1, <2>2, <2>3, CommandSettles DEF TypedMemory
      <3> QED BY <1>c, <2>1, <2>3, <3>1
    <2>4. CASE client[c].user # u
      <3>1. presence'[u] = presence[u] /\ u \notin adrift
        BY <1>0, <2>0, <2>2, <2>4, CommandAside
      <3>2. \A d \in Clients : client[d].user = u => heartbeat'[d] = heartbeat[d]
        BY <1>0, <2>2, <2>4 DEF TypedMemory
      <3> QED BY <1>e, <2>2, <3>1, <3>2
    <2> QED BY <2>3, <2>4
  <1>2. ASSUME NEW c \in Clients, LeaveRoom(c) \/ Disconnect(c)
        PROVE (presence[u] \in Reported(u))'
    <2>0. client[c].user \in Users
      BY <1>0 DEF TypedMemory, Client
    <2>1. /\ Command(client[c].user, None)
          /\ heartbeat' = [heartbeat EXCEPT ![c] = None]
          /\ stream' = stream
      BY <1>2 DEF LeaveRoom, Disconnect, SetOffline
    <2>2. client[c].user # u /\ presence'[u] = presence[u] /\ u \notin adrift
      <3>1. client[c].user # u
        BY <1>0, <2>0, <2>1, CommandSettles
      <3> QED BY <1>0, <2>0, <2>1, <3>1, CommandAside
    <2>3. \A d \in Clients : client[d].user = u => heartbeat'[d] = heartbeat[d]
      BY <1>0, <2>1, <2>2 DEF TypedMemory
    <2> QED BY <1>e, <2>1, <2>2, <2>3
  <1>3. ASSUME NEW c \in Clients, Beat(c) PROVE (presence[u] \in Reported(u))'
    <2>0. client[c].user \in Users
      BY <1>0 DEF TypedMemory, Client
    <2>1. /\ Command(client[c].user, heartbeat[c])
          /\ heartbeat' = heartbeat /\ stream' = stream
      BY <1>3 DEF Beat, SetOnline
    <2>2. CASE client[c].user = u
      <3>1. presence'[u] = heartbeat'[c]
        BY <1>0, <2>0, <2>1, <2>2, CommandSettles
      <3> QED BY <1>c, <2>2, <3>1
    <2>3. CASE client[c].user # u
      <3>1. presence'[u] = presence[u] /\ u \notin adrift
        BY <1>0, <2>0, <2>1, <2>3, CommandAside
      <3> QED BY <1>e, <2>1, <3>1
    <2> QED BY <2>2, <2>3
  <1>4. ASSUME NEW s \in Streams, NEW v \in Users, NEW r \in Rooms, StreamStart(s, v, r)
        PROVE (presence[u] \in Reported(u))'
    <2>1. /\ presence' = presence /\ heartbeat' = heartbeat /\ adrift' = adrift
          /\ stream[s].st = "unsent"
          /\ \A t \in Streams \ {s} : stream'[t] = stream[t]
      BY <1>0, <1>4 DEF StreamStart, TypedMemory
    <2> QED BY <1>e, <2>1
  <1>5. ASSUME NEW s \in Streams, StreamAbandon(s) \/ StreamFails(s)
        PROVE (presence[u] \in Reported(u))'
    <2>1. /\ presence' = presence /\ heartbeat' = heartbeat /\ adrift' = adrift
          /\ stream[s].st = "awaiting"
          /\ \A t \in Streams \ {s} : stream'[t] = stream[t]
      BY <1>0, <1>5 DEF StreamAbandon, StreamFails, TypedMemory
    <2> QED BY <1>e, <2>1
  <1>6. ASSUME NEW s \in Streams, StreamFound(s) \/ StreamBeat(s)
        PROVE (presence[u] \in Reported(u))'
    <2> DEFINE v == stream[s].user
    <2>1. stream[s] \in [st : {"awaiting", "open"}, user : Users, room : Rooms, gone : BOOLEAN]
      BY <1>0, <1>6, LiveStream DEF StreamFound, StreamBeat
    <2>2. Command(v, stream[s].room) /\ heartbeat' = heartbeat /\ v \in Users
      BY <1>6, <2>1 DEF StreamFound, StreamBeat, SetOnline
    <2>3. /\ stream'[s].st = "open" /\ stream'[s].user = v /\ stream'[s].room = stream[s].room
          /\ \A t \in Streams \ {s} : stream'[t] = stream[t]
      <3>1. CASE StreamFound(s)
        BY <1>0, <2>1, <3>1 DEF StreamFound, TypedMemory
      <3>2. CASE StreamBeat(s)
        BY <3>2 DEF StreamBeat
      <3> QED BY <1>6, <3>1, <3>2
    <2>4. CASE v = u
      <3>1. presence'[u] = stream'[s].room
        BY <1>0, <2>2, <2>3, <2>4, CommandSettles
      <3> QED BY <1>d, <2>3, <2>4, <3>1
    <2>5. CASE v # u
      <3>1. presence'[u] = presence[u] /\ u \notin adrift
        BY <1>0, <2>2, <2>5, CommandAside
      <3> QED BY <1>e, <2>2, <2>3, <2>5, <3>1
    <2> QED BY <2>4, <2>5
  <1>7. ASSUME NEW s \in Streams, StreamClose(s) PROVE (presence[u] \in Reported(u))'
    <2>0. stream[s].user \in Users
      BY <1>0, <1>7, LiveStream DEF StreamClose
    <2>1. /\ Command(stream[s].user, None) /\ heartbeat' = heartbeat
          /\ \A t \in Streams \ {s} : stream'[t] = stream[t]
      BY <1>0, <1>7 DEF StreamClose, SetOffline, TypedMemory
    <2>2. stream[s].user # u /\ presence'[u] = presence[u] /\ u \notin adrift
      <3>1. stream[s].user # u
        BY <1>0, <2>0, <2>1, CommandSettles
      <3> QED BY <1>0, <2>0, <2>1, <3>1, CommandAside
    <2> QED BY <1>e, <2>1, <2>2
  <1>8. ASSUME NEW v \in Users, Expire(v) PROVE (presence[u] \in Reported(u))'
    <2>1. /\ presence' = [presence EXCEPT ![v] = None]
          /\ heartbeat' = heartbeat /\ adrift' = adrift /\ stream' = stream
      BY <1>8 DEF Expire
    <2>2. presence'[u] = presence[u]
      BY <1>0, <2>1 DEF TypedMemory
    <2> QED BY <1>e, <2>1, <2>2
  <1>9. ASSUME Restart PROVE (presence[u] \in Reported(u))'
    <2>1. adrift' = adrift \cup {v \in Users : IsOnline(v)} /\ presence' = presence
      BY <1>9 DEF Restart
    <2> QED BY <2>1 DEF IsOnline
  <1>10. CASE UNCHANGED <<presence, heartbeat, stream, adrift>>
    BY <1>e, <1>10
  <1>11. \/ \E j \in Joins : JoinFound(j)
         \/ \E c \in Clients : LeaveRoom(c) \/ Disconnect(c) \/ Beat(c)
         \/ \E s \in Streams :
              \/ \E v \in Users, r \in Rooms : StreamStart(s, v, r)
              \/ StreamAbandon(s) \/ StreamFails(s) \/ StreamFound(s) \/ StreamBeat(s)
              \/ StreamClose(s)
         \/ \E v \in Users : Expire(v)
         \/ Restart
         \/ UNCHANGED <<presence, heartbeat, stream, adrift>>
    BY ZenonT(30) DEF Next, vars, Authenticate, Drop, SendMessage, JoinStart, JoinFails
  <1> QED BY <1>1, <1>2, <1>3, <1>4, <1>5, <1>6, <1>7, <1>8, <1>9, <1>10, <1>11

\* getPresence answers what some interval reports, for every interleaving of
\* sockets, streams, expiries, restarts and commands that Redis rejects; only the key
\* of a user about whom no command has reached Redis since the last one that was
\* rejected, or since the server died, may differ.
THEOREM PresenceIsReported == Spec => []OnlineIsReported
  <1>1. Init => OnlineIsReported
    BY DEF Init, OnlineIsReported, IsOnline
  <1> QED BY <1>1, OnlineNext, TypedAlways, PTL DEF Spec

(***************************************************************************)
(* The history.  A client enters the Socket.IO room before the await, so   *)
(* what is sent meanwhile reaches it, and what was sent before is in the   *)
(* history it gets after.  Inductive with the types and the fact that only *)
(* a verified client is ever sent 'connected'.                             *)
(***************************************************************************)

VerifiedFirst == \A c \in Clients : client[c].st # "ready" => ~client[c].connected

\* c is a client that was sent 'connected' for the room r it is in.
In(c, r) == client[c].st = "ready" /\ client[c].room = r /\ client[c].connected

LEMMA NoGapMeans ==
  HistoryHasNoGap <=>
    \A r \in Rooms, c \in Clients : In(c, r) => ToSet(chat[r]) \subseteq seen[c]
  BY DEF HistoryHasNoGap, Connected, InRoom, Ready, In

\* What each step does to the place of a client.
LEMMA PlaceNext ==
  ASSUME Typed, VerifiedFirst, [Next]_vars, NEW c \in Clients
  PROVE /\ client'[c].st # "ready" => ~client'[c].connected
        /\ \A r \in Rooms : In(c, r)' => \/ In(c, r)
                                         \/ \E j \in Joins : /\ JoinFound(j)
                                                             /\ join[j].client = c
                                                             /\ join[j].room = r
                                                             /\ Ready(c)
  <1>0. TypedMemory
    BY DEF Typed
  <1>v. client[c].st # "ready" => ~client[c].connected
    BY DEF VerifiedFirst
  <1> DEFINE Stays == /\ client'[c].st # "ready" => ~client'[c].connected
                      /\ \A r \in Rooms : In(c, r)' => In(c, r)
  <1>1. ASSUME NEW d \in Clients, Authenticate(d) \/ Drop(d) PROVE Stays
    <2>1. CASE c = d
      BY <1>0, <1>1, <1>v, <2>1 DEF Authenticate, Drop, In, TypedMemory, Client
    <2>2. CASE c # d
      BY <1>0, <1>1, <1>v, <2>2 DEF Authenticate, Drop, In, TypedMemory
    <2> QED BY <2>1, <2>2
  <1>2. ASSUME NEW d \in Clients, NEW q \in Rooms, NEW j \in Joins, JoinStart(d, q, j) PROVE Stays
    <2>1. CASE c = d
      <3>1. client[c].st = "ready" /\ client'[c].st = client[c].st /\ client'[c].room = q
        BY <1>0, <1>2, <2>1 DEF JoinStart, Ready, TypedMemory, Client
      <3>2. client'[c].connected = (client[c].connected /\ client[c].room = q)
        BY <1>0, <1>2, <2>1 DEF JoinStart, TypedMemory, Client
      <3> QED BY <3>1, <3>2 DEF In
    <2>2. CASE c # d
      <3>1. client'[c] = client[c]
        BY <1>0, <1>2, <2>2 DEF JoinStart, TypedMemory
      <3> QED BY <1>v, <3>1 DEF In
    <2> QED BY <2>1, <2>2
  <1>3. ASSUME NEW d \in Clients, LeaveRoom(d) \/ Disconnect(d) PROVE Stays
    <2>1. CASE c = d
      <3>1. CASE LeaveRoom(d)
        BY <1>0, <2>1, <3>1 DEF LeaveRoom, In, TypedMemory, Client
      <3>2. CASE Disconnect(d)
        BY <1>0, <2>1, <3>2 DEF Disconnect, In, TypedMemory, Client
      <3> QED BY <1>3, <3>1, <3>2
    <2>2. CASE c # d
      <3>1. client'[c] = client[c]
        BY <1>0, <1>3, <2>2 DEF LeaveRoom, Disconnect, TypedMemory
      <3> QED BY <1>v, <3>1 DEF In
    <2> QED BY <2>1, <2>2
  <1>4. ASSUME Restart PROVE Stays
    <2>1. client' = [d \in Clients |-> [client[d] EXCEPT !.st = "gone", !.connected = FALSE]]
      BY <1>4 DEF Restart
    <2>2. client'[c].connected = FALSE
      BY <1>0, <2>1 DEF TypedMemory, Client
    <2> QED BY <2>2 DEF In
  <1>5. CASE UNCHANGED client
    BY <1>5, <1>v DEF In
  <1>6. ASSUME NEW j \in Joins, JoinFound(j)
        PROVE /\ client'[c].st # "ready" => ~client'[c].connected
              /\ \A r \in Rooms : In(c, r)' => \/ In(c, r)
                                               \/ /\ join[j].client = c
                                                  /\ join[j].room = r
                                                  /\ Ready(c)
    <2>1. CASE c = join[j].client
      <3>1. client'[c].st = client[c].st /\ client'[c].room = client[c].room
        BY <1>0, <1>6, <2>1 DEF JoinFound, TypedMemory, Client
      <3>2. client'[c].connected =
              (client[c].connected \/ (Ready(c) /\ client[c].room = join[j].room))
        BY <1>0, <1>6, <2>1 DEF JoinFound, TypedMemory, Client
      <3> QED BY <1>v, <2>1, <3>1, <3>2 DEF In, Ready
    <2>2. CASE c # join[j].client
      <3>1. client'[c] = client[c]
        BY <1>0, <1>6, <2>2 DEF JoinFound, TypedMemory
      <3> QED BY <1>v, <3>1 DEF In
    <2> QED BY <2>1, <2>2
  <1>7. \/ \E d \in Clients : Authenticate(d) \/ Drop(d)
        \/ \E d \in Clients, q \in Rooms, j \in Joins : JoinStart(d, q, j)
        \/ \E d \in Clients : LeaveRoom(d) \/ Disconnect(d)
        \/ Restart
        \/ UNCHANGED client
        \/ \E j \in Joins : JoinFound(j)
    BY DEF Next, vars, SendMessage, Beat, JoinFails, StreamStart, StreamAbandon, StreamFound,
           StreamFails, StreamClose, StreamBeat, Expire
  <1> QED BY <1>1, <1>2, <1>3, <1>4, <1>5, <1>6, <1>7

LEMMA GapNext == Typed /\ VerifiedFirst /\ HistoryHasNoGap /\ [Next]_vars => HistoryHasNoGap'
  <1> SUFFICES ASSUME Typed, VerifiedFirst, HistoryHasNoGap, [Next]_vars,
                      NEW r \in Rooms, NEW c \in Clients, In(c, r)'
               PROVE ToSet(chat[r])' \subseteq seen'[c]
    BY DEF HistoryHasNoGap, Connected, InRoom, Ready, In
  <1>0. TypedMemory /\ TypedChat
    BY DEF Typed
  <1>a. In(c, r) => ToSet(chat[r]) \subseteq seen[c]
    BY NoGapMeans
  <1>1. ASSUME NEW j \in Joins, JoinFound(j), join[j].client = c, join[j].room = r, Ready(c)
        PROVE ToSet(chat[r])' \subseteq seen'[c]
    <2>1. seen'[c] = seen[c] \cup ToSet(chat[r]) /\ chat' = chat
      BY <1>0, <1>1 DEF JoinFound, TypedChat
    <2> QED BY <2>1 DEF ToSet
  <1>2. CASE In(c, r)
    <2>1. ASSUME NEW j \in Joins, JoinFound(j) PROVE ToSet(chat[r])' \subseteq seen'[c]
      <3>1. chat' = chat /\ seen[c] \subseteq seen'[c]
        BY <1>0, <2>1 DEF JoinFound, TypedChat
      <3> QED BY <1>a, <1>2, <3>1 DEF ToSet
    <2>2. ASSUME NEW d \in Clients, NEW m \in Messages, SendMessage(d, m)
          PROVE ToSet(chat[r])' \subseteq seen'[c]
      <3>1. ToSet(chat'[r]) \subseteq ToSet(chat[r]) \cup (IF r = client[d].room THEN {m} ELSE {})
        BY <1>0, <2>2, Trimmed
      <3>2. r = client[d].room => seen'[c] = seen[c] \cup {m}
        BY <1>2, <2>2 DEF SendMessage, InRoom, In, Ready
      <3>3. seen[c] \subseteq seen'[c]
        BY <2>2 DEF SendMessage
      <3>4. ToSet(chat[r])' = ToSet(chat'[r])
        BY DEF ToSet
      <3> QED BY <1>a, <1>2, <3>1, <3>2, <3>3, <3>4
    <2>3. ASSUME Restart PROVE ToSet(chat[r])' \subseteq seen'[c]
      <3>1. chat' = [q \in Rooms |-> << >>]
        BY <2>3 DEF Restart
      <3>2. chat'[r] = << >>
        BY <3>1
      <3> QED BY <3>2 DEF ToSet
    <2>4. CASE UNCHANGED <<chat, seen>>
      BY <1>a, <1>2, <2>4 DEF ToSet
    <2>5. \/ \E j \in Joins : JoinFound(j)
          \/ \E d \in Clients, m \in Messages : SendMessage(d, m)
          \/ Restart
          \/ UNCHANGED <<chat, seen>>
      BY ZenonT(30)
         DEF Next, vars, Authenticate, Drop, JoinStart, JoinFails, LeaveRoom, Disconnect, Beat,
             StreamStart, StreamAbandon, StreamFound, StreamFails, StreamClose, StreamBeat, Expire
    <2> QED BY <2>1, <2>2, <2>3, <2>4, <2>5
  <1> QED BY <1>1, <1>2, PlaceNext

\* Nobody who is told 'connected' misses a message the room still keeps, for any
\* interleaving of joins, messages, disconnects and restarts and any length of
\* the history.
THEOREM NoMessageIsMissed == Spec => []HistoryHasNoGap
  <1>1. Init => VerifiedFirst /\ HistoryHasNoGap
    BY DEF Init, VerifiedFirst, HistoryHasNoGap, Connected, InRoom, Ready
  <1>2. Typed /\ VerifiedFirst /\ [Next]_vars => VerifiedFirst'
    BY PlaceNext DEF VerifiedFirst
  <1> QED BY <1>1, <1>2, GapNext, TypedAlways, PTL DEF Spec

(***************************************************************************)
(* What undisturbed joins guarantee.  A client's record, its joins that    *)
(* await and the joins that were disturbed are kept in step: a fresh join  *)
(* finds its client in the room it entered, and a client that is in a room *)
(* and was not sent 'connected' waits for a join of it, unless one of it   *)
(* was disturbed.                                                          *)
(***************************************************************************)

Fresh(D, c, r) == <<c, r>> \notin D

Settled(c) ==
  /\ client[c].st = "verifying" => client[c].room = None /\ heartbeat[c] = None /\ Pending(c) = {}
  /\ client[c].connected => client[c].st = "ready" /\ client[c].room \in Rooms
  /\ \A j \in Pending(c) : Fresh(disturbed, c, join[j].room) =>
       /\ client[c].st = "ready" /\ client[c].room = join[j].room /\ ~ client[c].connected
       /\ \A k \in Pending(c) : Fresh(disturbed, c, join[k].room) => k = j
  /\ client[c].st = "ready" /\ client[c].room # None /\ ~ client[c].connected =>
       ~ Fresh(disturbed, c, client[c].room) \/ \E j \in Pending(c) : join[j].room = client[c].room
  /\ Pending(c) = {} /\ (\A r \in Rooms : Fresh(disturbed, c, r)) =>
       heartbeat[c] = IF client[c].connected THEN client[c].room ELSE None

\* A step of the client d touches no other client.
Aside(d) ==
  \A c \in Clients \ {d} :
    /\ client'[c] = client[c] /\ heartbeat'[c] = heartbeat[c] /\ Pending(c)' = Pending(c)
    /\ \A j \in Pending(c) : join'[j] = join[j]
    /\ \A r \in Rooms : Fresh(disturbed', c, r) <=> Fresh(disturbed, c, r)

LEMMA PendingJoins ==
  ASSUME TypedMemory, NEW c \in Clients, NEW j \in Pending(c)
  PROVE  j \in Joins /\ Awaiting(j) /\ join[j].client = c /\ join[j].room \in Rooms
  BY AwaitedJoin DEF Pending

LEMMA SettledAside ==
  ASSUME TypedMemory, NEW d \in Clients, Aside(d), NEW c \in Clients \ {d}, Settled(c)
  PROVE  Settled(c)'
  <1>1. /\ client'[c] = client[c] /\ heartbeat'[c] = heartbeat[c] /\ Pending(c)' = Pending(c)
        /\ \A j \in Pending(c) : join'[j] = join[j]
        /\ \A r \in Rooms : Fresh(disturbed', c, r) <=> Fresh(disturbed, c, r)
    BY DEF Aside
  <1>2. client[c].room \in Rooms \cup {None} /\ \A j \in Pending(c) : join[j].room \in Rooms
    BY PendingJoins DEF TypedMemory, Client
  <1>3. client'[c].st = "verifying" =>
          client'[c].room = None /\ heartbeat'[c] = None /\ Pending(c)' = {}
    BY <1>1 DEF Settled
  <1>4. client'[c].connected => client'[c].st = "ready" /\ client'[c].room \in Rooms
    BY <1>1 DEF Settled
  <1>5. \A j \in Pending(c)' : Fresh(disturbed', c, join'[j].room) =>
          /\ client'[c].st = "ready" /\ client'[c].room = join'[j].room /\ ~ client'[c].connected
          /\ \A k \in Pending(c)' : Fresh(disturbed', c, join'[k].room) => k = j
    BY <1>1, <1>2 DEF Settled
  <1>6. client'[c].st = "ready" /\ client'[c].room # None /\ ~ client'[c].connected =>
          \/ ~ Fresh(disturbed', c, client'[c].room)
          \/ \E j \in Pending(c)' : join'[j].room = client'[c].room
    BY <1>1, <1>2 DEF Settled
  <1>7. Pending(c)' = {} /\ (\A r \in Rooms : Fresh(disturbed', c, r)) =>
          heartbeat'[c] = IF client'[c].connected THEN client'[c].room ELSE None
    BY <1>1 DEF Settled
  <1> QED BY <1>3, <1>4, <1>5, <1>6, <1>7 DEF Settled

(* What the steps of a client do to it.                                    *)

LEMMA Verifies ==
  ASSUME TypedMemory, NEW c \in Clients, Authenticate(c) \/ Drop(c)
  PROVE  /\ client[c].st = "verifying" /\ client'[c].st \in {"ready", "gone"}
         /\ client'[c].room = client[c].room /\ client'[c].connected = client[c].connected
         /\ client'[c].user = client[c].user
         /\ heartbeat' = heartbeat /\ join' = join /\ disturbed' = disturbed
         /\ listeners' = listeners /\ UNCHANGED <<presence, stream, adrift>>
         /\ Pending(c)' = Pending(c) /\ Aside(c)
  BY DEF Authenticate, Drop, TypedMemory, Client, Aside, Pending, Awaiting, Fresh

LEMMA Starts ==
  ASSUME TypedMemory, NEW c \in Clients, NEW r \in Rooms, NEW j \in Joins, JoinStart(c, r, j)
  PROVE  /\ client[c].st = "ready" /\ client'[c].st = "ready"
         /\ client'[c].room = r
         /\ client'[c].connected = (client[c].connected /\ client[c].room = r)
         /\ client'[c].user = client[c].user
         /\ heartbeat' = heartbeat /\ UNCHANGED <<presence, stream, adrift>>
         /\ Pending(c)' = Pending(c) \cup {j} /\ join'[j].room = r
         /\ \A k \in Pending(c) : join'[k] = join[k] /\ ~ Fresh(disturbed', c, join[k].room)
         /\ client[c].room = r => ~ Fresh(disturbed', c, r)
         /\ \A q \in Rooms : Fresh(disturbed', c, q) => Fresh(disturbed, c, q)
         /\ Aside(c)
  <1>1. client'[c] = [client[c] EXCEPT !.room = r, !.connected = @ /\ client[c].room = r]
          /\ \A d \in Clients \ {c} : client'[d] = client[d]
    BY DEF JoinStart, TypedMemory
  <1>2. /\ client'[c].st = client[c].st /\ client'[c].room = r /\ client'[c].user = client[c].user
        /\ client'[c].connected = (client[c].connected /\ client[c].room = r)
    BY <1>1 DEF TypedMemory, Client
  <1>3. /\ join'[j].st = "awaiting" /\ join'[j].client = c /\ join'[j].room = r
        /\ \A k \in Joins \ {j} : join'[k] = join[k]
        /\ join[j].st = "unsent"
    BY DEF JoinStart, TypedMemory
  <1>4. Pending(c)' = Pending(c) \cup {j} /\ \A d \in Clients \ {c} : Pending(d)' = Pending(d)
    BY <1>3 DEF Pending, Awaiting
  <1>5. \A d \in Clients : \A k \in Pending(d) : join'[k] = join[k]
    BY <1>3 DEF Pending, Awaiting
  <1>6. disturbed' = disturbed \cup {<<c, join[k].room>> : k \in Pending(c)}
                       \cup (IF client[c].room = r THEN {<<c, r>>} ELSE {})
    BY DEF JoinStart, Overtaken
  <1>7. /\ \A k \in Pending(c) : ~ Fresh(disturbed', c, join[k].room)
        /\ client[c].room = r => ~ Fresh(disturbed', c, r)
        /\ \A q \in Rooms : Fresh(disturbed', c, q) => Fresh(disturbed, c, q)
    BY <1>6 DEF Fresh
  <1>8. \A d \in Clients \ {c}, q \in Rooms : Fresh(disturbed', d, q) <=> Fresh(disturbed, d, q)
    BY <1>6 DEF Fresh
  <1>9. Aside(c)
    BY <1>1, <1>4, <1>5, <1>8 DEF Aside, JoinStart
  <1> QED BY <1>2, <1>3, <1>4, <1>5, <1>7, <1>9 DEF JoinStart, Ready

LEMMA Founds ==
  ASSUME TypedMemory, NEW j \in Joins, JoinFound(j), NEW c, c = join[j].client
  PROVE  /\ c \in Clients /\ j \in Pending(c) /\ join[j].room \in Rooms
         /\ client'[c].st = client[c].st /\ client'[c].room = client[c].room
         /\ client'[c].user = client[c].user
         /\ client'[c].connected = (client[c].connected \/
                                    (client[c].st = "ready" /\ client[c].room = join[j].room))
         /\ heartbeat'[c] = join[j].room /\ stream' = stream
         /\ Command(client[c].user, join[j].room)
         /\ listeners' = [listeners EXCEPT ![join[j].room] = @ + 1]
         /\ Pending(c)' = Pending(c) \ {j} /\ disturbed' = disturbed
         /\ \A k \in Pending(c)' : join'[k] = join[k]
         /\ Aside(c)
  <1>1. c \in Clients /\ join[j].room \in Rooms /\ j \in Pending(c)
    BY AwaitedJoin DEF JoinFound, Pending
  <1>2. client' = [client EXCEPT ![c].connected = @ \/ (Ready(c) /\ client[c].room = join[j].room)]
    BY DEF JoinFound
  <1>3. /\ client'[c].st = client[c].st /\ client'[c].room = client[c].room
        /\ client'[c].user = client[c].user
        /\ client'[c].connected = (client[c].connected \/
                                   (Ready(c) /\ client[c].room = join[j].room))
        /\ \A d \in Clients \ {c} : client'[d] = client[d]
    BY <1>1, <1>2 DEF TypedMemory, Client
  <1>4. join'[j].st = "done" /\ \A k \in Joins \ {j} : join'[k] = join[k]
    BY DEF JoinFound, TypedMemory
  <1>5. Pending(c)' = Pending(c) \ {j} /\ \A d \in Clients \ {c} : Pending(d)' = Pending(d)
    BY <1>4 DEF Pending, Awaiting
  <1>6. \A d \in Clients : \A k \in Pending(d) \ {j} : join'[k] = join[k]
    BY <1>4 DEF Pending
  <1>7. \A d \in Clients \ {c} : j \notin Pending(d)
    BY DEF Pending
  <1>8. heartbeat'[c] = join[j].room /\ \A d \in Clients \ {c} : heartbeat'[d] = heartbeat[d]
    BY <1>1 DEF JoinFound, TypedMemory
  <1>9. Aside(c)
    <2>1. \A d \in Clients \ {c} : \A k \in Pending(d) : join'[k] = join[k]
      BY <1>6, <1>7
    <2>2. disturbed' = disturbed
      BY DEF JoinFound
    <2> QED BY <1>3, <1>5, <1>8, <2>1, <2>2 DEF Aside
  <1> QED BY <1>1, <1>3, <1>5, <1>6, <1>8, <1>9 DEF JoinFound, Ready, SetOnline, Increment

LEMMA FindsNothing ==
  ASSUME TypedMemory, NEW j \in Joins, JoinFails(j), NEW c, c = join[j].client
  PROVE  /\ c \in Clients /\ j \in Pending(c) /\ join[j].room \in Rooms
         /\ client' = client /\ heartbeat' = heartbeat /\ listeners' = listeners
         /\ UNCHANGED <<presence, stream, adrift>>
         /\ Pending(c)' = Pending(c) \ {j} /\ \A k \in Pending(c)' : join'[k] = join[k]
         /\ ~ Fresh(disturbed', c, join[j].room)
         /\ \A q \in Rooms : Fresh(disturbed', c, q) => Fresh(disturbed, c, q)
         /\ \A q \in Rooms : Fresh(disturbed, c, q) /\ q # join[j].room => Fresh(disturbed', c, q)
         /\ Aside(c)
  <1>1. c \in Clients /\ join[j].room \in Rooms /\ j \in Pending(c)
    BY AwaitedJoin DEF JoinFails, Pending
  <1>2. join'[j].st = "done" /\ \A k \in Joins \ {j} : join'[k] = join[k]
    BY DEF JoinFails, TypedMemory
  <1>3. Pending(c)' = Pending(c) \ {j} /\ \A d \in Clients \ {c} : Pending(d)' = Pending(d)
    BY <1>2 DEF Pending, Awaiting
  <1>4. \A d \in Clients : \A k \in Pending(d) \ {j} : join'[k] = join[k]
    BY <1>2 DEF Pending
  <1>5. \A d \in Clients \ {c} : j \notin Pending(d)
    BY DEF Pending
  <1>6. /\ ~ Fresh(disturbed', c, join[j].room)
        /\ \A q \in Rooms : Fresh(disturbed', c, q) => Fresh(disturbed, c, q)
        /\ \A q \in Rooms : Fresh(disturbed, c, q) /\ q # join[j].room => Fresh(disturbed', c, q)
        /\ \A d \in Clients \ {c}, q \in Rooms : Fresh(disturbed', d, q) <=> Fresh(disturbed, d, q)
    BY DEF JoinFails, Fresh
  <1>7. Aside(c)
    BY <1>3, <1>4, <1>5, <1>6 DEF Aside, JoinFails
  <1> QED BY <1>1, <1>3, <1>4, <1>6, <1>7 DEF JoinFails

LEMMA Departs ==
  ASSUME TypedMemory, NEW c \in Clients, LeaveRoom(c) \/ Disconnect(c)
  PROVE  /\ client[c].st = "ready" /\ client'[c].st \in {"ready", "gone"}
         /\ client'[c].st = "ready" => client'[c].room = None
         /\ client'[c].room \in Rooms \cup {None} /\ client'[c].connected = FALSE
         /\ client'[c].user = client[c].user
         /\ heartbeat'[c] = None /\ stream' = stream
         /\ Command(client[c].user, None)
         /\ listeners' = IF client[c].room = None THEN listeners ELSE Decrement(client[c].room)
         /\ Pending(c)' = Pending(c) /\ join' = join
         /\ \A k \in Pending(c) : ~ Fresh(disturbed', c, join[k].room)
         /\ \A q \in Rooms : Fresh(disturbed', c, q) => Fresh(disturbed, c, q)
         /\ Aside(c)
  <1>1. disturbed' = disturbed \cup {<<c, join[k].room>> : k \in Pending(c)}
    BY DEF LeaveRoom, Disconnect, Overtaken
  <1>2. /\ \A k \in Pending(c) : ~ Fresh(disturbed', c, join[k].room)
        /\ \A q \in Rooms : Fresh(disturbed', c, q) => Fresh(disturbed, c, q)
        /\ \A d \in Clients \ {c}, q \in Rooms : Fresh(disturbed', d, q) <=> Fresh(disturbed, d, q)
    BY <1>1 DEF Fresh
  <1>3. join' = join /\ \A d \in Clients : Pending(d)' = Pending(d)
    BY DEF LeaveRoom, Disconnect, Pending, Awaiting
  <1>4. /\ client'[c].st \in {"ready", "gone"} /\ client'[c].connected = FALSE
        /\ client'[c].st = "ready" => client'[c].room = None
        /\ client'[c].room \in Rooms \cup {None} /\ client'[c].user = client[c].user
        /\ \A d \in Clients \ {c} : client'[d] = client[d]
    <2>1. CASE LeaveRoom(c)
      BY <2>1 DEF LeaveRoom, TypedMemory, Client, Ready
    <2>2. CASE Disconnect(c)
      BY <2>2 DEF Disconnect, TypedMemory, Client, Ready
    <2> QED BY <2>1, <2>2
  <1>5. heartbeat'[c] = None /\ \A d \in Clients \ {c} : heartbeat'[d] = heartbeat[d]
    BY DEF LeaveRoom, Disconnect, TypedMemory
  <1>6. Aside(c)
    BY <1>2, <1>3, <1>4, <1>5 DEF Aside
  <1>7. listeners' = IF client[c].room = None THEN listeners ELSE Decrement(client[c].room)
    BY DEF LeaveRoom, Disconnect
  <1>8. client[c].st = "ready" /\ Command(client[c].user, None)
          /\ stream' = stream
    BY DEF LeaveRoom, Disconnect, Ready, SetOffline
  <1> QED BY <1>2, <1>3, <1>4, <1>5, <1>6, <1>7, <1>8

\* Every step leaves every client settled.
LEMMA SettledNext ==
  ASSUME Typed, \A c \in Clients : Settled(c), [Next]_vars
  PROVE  \A c \in Clients : Settled(c)'
  <1>0. TypedMemory /\ TypedMemory'
    BY MemoryNext DEF Typed
  <1>n. None \notin Rooms
    BY NoneAssumption
  <1>1. ASSUME NEW d \in Clients, Authenticate(d) \/ Drop(d)
        PROVE  \A c \in Clients : Settled(c)'
    <2>1. Settled(d) /\ Aside(d)
      BY <1>0, <1>1, Verifies
    <2>2. /\ client[d].st = "verifying" /\ client'[d].st \in {"ready", "gone"}
          /\ client'[d].room = client[d].room /\ client'[d].connected = client[d].connected
          /\ heartbeat' = heartbeat /\ Pending(d)' = Pending(d)
      BY <1>0, <1>1, Verifies
    <2>3. /\ client'[d].room = None /\ ~ client'[d].connected
          /\ Pending(d)' = {} /\ heartbeat'[d] = None
      BY <2>1, <2>2 DEF Settled
    <2>4. Settled(d)'
      BY <2>2, <2>3 DEF Settled
    <2> QED BY <1>0, <2>1, <2>4, SettledAside
  <1>2. ASSUME NEW d \in Clients, NEW r \in Rooms, NEW j \in Joins, JoinStart(d, r, j)
        PROVE  \A c \in Clients : Settled(c)'
    <2>1. Settled(d) /\ Aside(d)
      BY <1>0, <1>2, Starts
    <2>2. /\ client[d].st = "ready" /\ client'[d].st = "ready" /\ client'[d].room = r
          /\ client'[d].connected = (client[d].connected /\ client[d].room = r)
          /\ Pending(d)' = Pending(d) \cup {j} /\ join'[j].room = r
          /\ \A k \in Pending(d) : join'[k] = join[k] /\ ~ Fresh(disturbed', d, join[k].room)
          /\ client[d].room = r => ~ Fresh(disturbed', d, r)
      BY <1>0, <1>2, Starts
    <2>3. \A k \in Pending(d)' : Fresh(disturbed', d, join'[k].room) =>
            k = j /\ ~ client'[d].connected
      BY <2>2
    <2>4. j \in Pending(d)' /\ join'[j].room = client'[d].room
      BY <2>2
    <2>5. Settled(d)'
      BY <2>2, <2>3, <2>4 DEF Settled
    <2> QED BY <1>0, <2>1, <2>5, SettledAside
  <1>3. ASSUME NEW j \in Joins, JoinFound(j)
        PROVE  \A c \in Clients : Settled(c)'
    <2>1. PICK d \in Clients : d = join[j].client
      BY <1>0, <1>3, Founds
    <2>2. Settled(d) /\ Aside(d)
      BY <1>0, <1>3, <2>1, Founds
    <2>3. /\ j \in Pending(d) /\ join[j].room \in Rooms
          /\ client'[d].st = client[d].st /\ client'[d].room = client[d].room
          /\ client'[d].connected = (client[d].connected \/
                                     (client[d].st = "ready" /\ client[d].room = join[j].room))
          /\ heartbeat'[d] = join[j].room
          /\ Pending(d)' = Pending(d) \ {j} /\ disturbed' = disturbed
          /\ \A k \in Pending(d)' : join'[k] = join[k]
      BY <1>0, <1>3, <2>1, Founds
    <2>4. client[d].st # "verifying"
      BY <2>2, <2>3 DEF Settled
    <2>5. client'[d].connected => client'[d].st = "ready" /\ client'[d].room \in Rooms
      BY <2>2, <2>3 DEF Settled
    <2>6. ASSUME NEW k \in Pending(d)', Fresh(disturbed', d, join'[k].room)
          PROVE  /\ client'[d].st = "ready" /\ client'[d].room = join'[k].room
                 /\ ~ client'[d].connected
                 /\ \A i \in Pending(d)' : Fresh(disturbed', d, join'[i].room) => i = k
      <3>1. /\ k \in Pending(d) /\ k # j /\ join'[k] = join[k]
            /\ Fresh(disturbed, d, join[k].room)
        BY <2>3, <2>6
      <3>2. /\ client[d].st = "ready" /\ client[d].room = join[k].room /\ ~ client[d].connected
            /\ \A i \in Pending(d) : Fresh(disturbed, d, join[i].room) => i = k
        BY <2>2, <3>1 DEF Settled
      <3>3. client[d].room # join[j].room
        BY <2>3, <3>1, <3>2
      <3> QED BY <2>3, <3>1, <3>2, <3>3
    <2>7. ASSUME client'[d].st = "ready", client'[d].room # None, ~ client'[d].connected
          PROVE  ~ Fresh(disturbed', d, client'[d].room)
                 \/ \E k \in Pending(d)' : join'[k].room = client'[d].room
      <3>1. client[d].st = "ready" /\ client[d].room # None /\ ~ client[d].connected
              /\ client[d].room # join[j].room
        BY <2>3, <2>7
      <3>2. ~ Fresh(disturbed, d, client[d].room)
              \/ \E k \in Pending(d) : join[k].room = client[d].room
        BY <2>2, <3>1 DEF Settled
      <3> QED BY <2>3, <3>1, <3>2
    <2>8. ASSUME \A r \in Rooms : Fresh(disturbed', d, r)
          PROVE  heartbeat'[d] = IF client'[d].connected THEN client'[d].room ELSE None
      <3>1. client[d].st = "ready" /\ client[d].room = join[j].room
        BY <2>2, <2>3, <2>8 DEF Settled
      <3> QED BY <2>3, <3>1
    <2>9. Settled(d)'
      BY <2>3, <2>4, <2>5, <2>6, <2>7, <2>8 DEF Settled
    <2> QED BY <1>0, <2>2, <2>9, SettledAside
  <1>4. ASSUME NEW j \in Joins, JoinFails(j)
        PROVE  \A c \in Clients : Settled(c)'
    <2>1. PICK d \in Clients : d = join[j].client
      BY <1>0, <1>4, FindsNothing
    <2>2. Settled(d) /\ Aside(d)
      BY <1>0, <1>4, <2>1, FindsNothing
    <2>3. /\ j \in Pending(d) /\ join[j].room \in Rooms
          /\ client' = client /\ heartbeat' = heartbeat
          /\ Pending(d)' = Pending(d) \ {j} /\ \A k \in Pending(d)' : join'[k] = join[k]
          /\ ~ Fresh(disturbed', d, join[j].room)
          /\ \A q \in Rooms : Fresh(disturbed', d, q) => Fresh(disturbed, d, q)
      BY <1>0, <1>4, <2>1, FindsNothing
    <2>4. \A k \in Pending(d) : join[k].room \in Rooms
      BY <1>0, PendingJoins
    <2>5. client[d].st # "verifying"
      BY <2>2, <2>3 DEF Settled
    <2>6. \A k \in Pending(d)' : Fresh(disturbed', d, join'[k].room) =>
            /\ client'[d].st = "ready" /\ client'[d].room = join'[k].room
            /\ ~ client'[d].connected
            /\ \A i \in Pending(d)' : Fresh(disturbed', d, join'[i].room) => i = k
      BY <2>2, <2>3, <2>4 DEF Settled
    <2>7. ASSUME client'[d].st = "ready", client'[d].room # None, ~ client'[d].connected
          PROVE  ~ Fresh(disturbed', d, client'[d].room)
                 \/ \E k \in Pending(d)' : join'[k].room = client'[d].room
      <3>1. client[d].room \in Rooms
        BY <1>0, <2>3, <2>7 DEF TypedMemory, Client
      <3>2. ~ Fresh(disturbed, d, client[d].room)
              \/ \E k \in Pending(d) : join[k].room = client[d].room
        BY <2>2, <2>3, <2>7 DEF Settled
      <3> QED BY <2>3, <3>1, <3>2
    <2>8. ~ \A r \in Rooms : Fresh(disturbed', d, r)
      BY <2>3
    <2>9. client'[d].connected => client'[d].st = "ready" /\ client'[d].room \in Rooms
      BY <2>2, <2>3 DEF Settled
    <2>10. Settled(d)'
      BY <2>3, <2>5, <2>6, <2>7, <2>8, <2>9 DEF Settled
    <2> QED BY <1>0, <2>2, <2>10, SettledAside
  <1>5. ASSUME NEW d \in Clients, LeaveRoom(d) \/ Disconnect(d)
        PROVE  \A c \in Clients : Settled(c)'
    <2>1. Settled(d) /\ Aside(d)
      BY <1>0, <1>5, Departs
    <2>2. /\ client'[d].st \in {"ready", "gone"}
          /\ client'[d].st = "ready" => client'[d].room = None
          /\ client'[d].connected = FALSE /\ heartbeat'[d] = None
          /\ Pending(d)' = Pending(d) /\ join' = join
          /\ \A k \in Pending(d) : ~ Fresh(disturbed', d, join[k].room)
      BY <1>0, <1>5, Departs
    <2>3. Settled(d)'
      BY <2>2 DEF Settled
    <2> QED BY <1>0, <2>1, <2>3, SettledAside
  <1>6. ASSUME Restart PROVE \A c \in Clients : Settled(c)'
    <2>a. client' = [c \in Clients |-> [client[c] EXCEPT !.st = "gone", !.connected = FALSE]]
            /\ heartbeat' = [c \in Clients |-> None]
      BY <1>6 DEF Restart
    <2>b. ASSUME NEW c \in Clients PROVE client'[c].st = "gone" /\ client'[c].connected = FALSE
      <3>1. client'[c] = [client[c] EXCEPT !.st = "gone", !.connected = FALSE]
        BY <2>a
      <3>2. client[c] \in Client
        BY <1>0 DEF TypedMemory
      <3> QED BY <3>1, <3>2 DEF Client
    <2>1. \A c \in Clients : /\ client'[c].st = "gone" /\ client'[c].connected = FALSE
                             /\ heartbeat'[c] = None
      BY <2>a, <2>b
    <2>2. \A c \in Clients : Pending(c)' = {}
      BY <1>0, <1>6 DEF Restart, Pending, Awaiting, TypedMemory, Join
    <2> QED BY <2>1, <2>2 DEF Settled
  <1>7. ASSUME UNCHANGED <<client, join, heartbeat, disturbed>>
        PROVE  \A c \in Clients : Settled(c)'
    BY <1>7 DEF Settled, Pending, Awaiting
  <1>8. \/ \E d \in Clients : Authenticate(d) \/ Drop(d)
        \/ \E d \in Clients, r \in Rooms, j \in Joins : JoinStart(d, r, j)
        \/ \E j \in Joins : JoinFound(j) \/ JoinFails(j)
        \/ \E d \in Clients : LeaveRoom(d) \/ Disconnect(d)
        \/ Restart
        \/ UNCHANGED <<client, join, heartbeat, disturbed>>
    BY DEF Next, vars, SendMessage, Beat, StreamStart, StreamAbandon, StreamFound,
           StreamFails, StreamClose, StreamBeat, Expire
  <1> QED BY <1>1, <1>2, <1>3, <1>4, <1>5, <1>6, <1>7, <1>8

(***************************************************************************)
(* The count of a relay.  Where no join of the room was disturbed, a       *)
(* client that enters was not counted, and one that moves on or goes was:  *)
(* it had no join of the room left that awaited.                           *)
(***************************************************************************)

Undisturbed(D, r) == \A c \in Clients : Fresh(D, c, r)

Counted(r) ==
  /\ IsFiniteSet(Connected(r))
  /\ Undisturbed(disturbed, r) => listeners[r] = Cardinality(Connected(r))

\* What a step does to the clients a room counts, told client by client.
LEMMA CountsAre ==
  ASSUME NEW r, NEW c
  PROVE  c \in Connected(r) <=> c \in Clients /\ In(c, r)
  BY DEF Connected, InRoom, Ready, In

\* The count of a room from which c goes, if it was there.
LEMMA CountWithout ==
  ASSUME Typed, NEW r \in Rooms, Counted(r), NEW c \in Clients,
         Undisturbed(disturbed, r), c \in Connected(r)
  PROVE  /\ IsFiniteSet(Connected(r) \ {c})
         /\ Decrement(r)[r] = Cardinality(Connected(r) \ {c})
  <1>1. IsFiniteSet(Connected(r)) /\ listeners[r] = Cardinality(Connected(r))
    BY DEF Counted
  <1>2. Cardinality(Connected(r)) \in Nat
    BY <1>1, FS_CardinalityType
  <1>3. /\ IsFiniteSet(Connected(r) \ {c})
        /\ Cardinality(Connected(r) \ {c}) = Cardinality(Connected(r)) - 1
    BY <1>1, FS_RemoveElement
  <1>4. Cardinality(Connected(r) \ {c}) \in Nat
    BY <1>3, FS_CardinalityType
  <1>5. listeners[r] # 0
    BY <1>1, <1>2, <1>3, <1>4
  <1>6. Decrement(r)[r] = listeners[r] - 1
    BY <1>5 DEF Decrement, Typed, CountBounded
  <1> QED BY <1>1, <1>3, <1>6

\* In a room none of whose joins was disturbed everyone was told 'connected',
\* or waits to be.
LEMMA ThereOrWaiting ==
  ASSUME NEW r \in Rooms, NEW c \in Clients, Settled(c), Fresh(disturbed, c, r),
         client[c].st = "ready", client[c].room = r
  PROVE  c \in Connected(r) \/ \E j \in Pending(c) : join[j].room = r
  BY NoneAssumption DEF Settled, Connected, InRoom, Ready

\* A step that leaves a room's clients alone, and its count.
LEMMA CountStays ==
  ASSUME NEW r \in Rooms, Counted(r), Connected(r)' = Connected(r),
         listeners'[r] = listeners[r],
         Undisturbed(disturbed', r) => Undisturbed(disturbed, r)
  PROVE  Counted(r)'
  <1>1. IsFiniteSet(Connected(r)')
    BY DEF Counted
  <1>2. Undisturbed(disturbed', r) => listeners'[r] = Cardinality(Connected(r)')
    BY DEF Counted
  <1> QED BY <1>1, <1>2 DEF Counted, Undisturbed, Fresh

\* A step that takes c away from a room, and counts it out if the room is
\* still undisturbed.
LEMMA CountFallsByOne ==
  ASSUME Typed, NEW r \in Rooms, Counted(r), NEW c \in Clients,
         Connected(r)' = Connected(r) \ {c},
         Undisturbed(disturbed', r) =>
           /\ Undisturbed(disturbed, r)
           /\ \/ c \in Connected(r) /\ listeners' = Decrement(r)
              \/ c \notin Connected(r) /\ listeners'[r] = listeners[r]
  PROVE  Counted(r)'
  <1>1. IsFiniteSet(Connected(r)')
    BY FS_RemoveElement DEF Counted
  <1>2. ASSUME Undisturbed(disturbed', r)
        PROVE  listeners'[r] = Cardinality(Connected(r)')
    <2>1. CASE c \in Connected(r) /\ listeners' = Decrement(r)
      BY <1>2, <2>1, CountWithout
    <2>2. CASE c \notin Connected(r) /\ listeners'[r] = listeners[r]
      BY <1>2, <2>2 DEF Counted
    <2> QED BY <1>2, <2>1, <2>2
  <1> QED BY <1>1, <1>2 DEF Counted, Undisturbed, Fresh

\* A step of d leaves the other clients where they are.
LEMMA ConnectedAside ==
  ASSUME NEW d \in Clients, Aside(d), NEW r
  PROVE  /\ Connected(r)' \ {d} = Connected(r) \ {d}
         /\ d \in Connected(r)' <=> /\ client'[d].st = "ready" /\ client'[d].room = r
                                    /\ client'[d].connected
  BY DEF Aside, Connected, InRoom, Ready

LEMMA DecrementElsewhere ==
  ASSUME NEW p, NEW r \in Rooms, p # r, listeners \in [Rooms -> Nat]
  PROVE  Decrement(p)[r] = listeners[r]
  BY DEF Decrement

LEMMA CountedNext ==
  ASSUME Typed, \A c \in Clients : Settled(c), [Next]_vars, NEW r \in Rooms, Counted(r)
  PROVE  Counted(r)'
  <1>0. TypedMemory /\ listeners \in [Rooms -> Nat]
    BY DEF Typed, CountBounded
  <1>1. ASSUME NEW d \in Clients, Authenticate(d) \/ Drop(d) PROVE Counted(r)'
    <2>1. Settled(d) /\ Aside(d)
      BY <1>0, <1>1, Verifies
    <2>2. /\ client[d].st = "verifying" /\ client'[d].connected = client[d].connected
          /\ listeners' = listeners /\ disturbed' = disturbed
      BY <1>0, <1>1, Verifies
    <2>3. d \notin Connected(r) /\ d \notin Connected(r)'
      BY <2>1, <2>2 DEF Settled, Connected, InRoom, Ready
    <2>4. Connected(r)' = Connected(r)
      BY <2>1, <2>3, ConnectedAside
    <2> QED BY <2>2, <2>4, CountStays
  <1>2. ASSUME NEW d \in Clients, NEW q \in Rooms, NEW j \in Joins, JoinStart(d, q, j)
        PROVE  Counted(r)'
    <2>1. Settled(d) /\ Aside(d)
      BY <1>0, <1>2, Starts
    <2>2. /\ client[d].st = "ready" /\ client'[d].st = "ready" /\ client'[d].room = q
          /\ client'[d].connected = (client[d].connected /\ client[d].room = q)
          /\ \A k \in Pending(d) : ~ Fresh(disturbed', d, join[k].room)
          /\ client[d].room = q => ~ Fresh(disturbed', d, q)
          /\ \A p \in Rooms : Fresh(disturbed', d, p) => Fresh(disturbed, d, p)
      BY <1>0, <1>2, Starts
    <2>3. Undisturbed(disturbed', r) => Undisturbed(disturbed, r)
      BY <2>1, <2>2 DEF Undisturbed, Aside
    <2>4. listeners' = IF client[d].room \in Rooms \ {q} THEN Decrement(client[d].room)
                                                         ELSE listeners
      BY <1>2 DEF JoinStart
    <2>5. CASE r = q
      <3>1. d \in Connected(r)' <=> d \in Connected(r)
        BY <2>1, <2>2, <2>5, ConnectedAside DEF Connected, InRoom, Ready
      <3>2. Connected(r)' = Connected(r)
        BY <2>1, <3>1, ConnectedAside
      <3>3. listeners'[r] = listeners[r]
        BY <1>0, <2>4, <2>5, DecrementElsewhere
      <3> QED BY <2>3, <3>2, <3>3, CountStays
    <2>6. CASE r # q
      <3>1. d \notin Connected(r)'
        BY <2>1, <2>2, <2>6, ConnectedAside
      <3>2. Connected(r)' = Connected(r) \ {d}
        BY <2>1, <3>1, ConnectedAside
      <3>3. ASSUME Undisturbed(disturbed', r)
            PROVE  \/ d \in Connected(r) /\ listeners' = Decrement(r)
                   \/ d \notin Connected(r) /\ listeners'[r] = listeners[r]
        <4>1. CASE client[d].room = r
          <5>1. Fresh(disturbed, d, r) /\ Fresh(disturbed', d, r)
            BY <2>3, <3>3 DEF Undisturbed
          <5>2. ~ \E k \in Pending(d) : join[k].room = r
            BY <2>2, <5>1
          <5>3. d \in Connected(r)
            BY <2>1, <2>2, <4>1, <5>1, <5>2, ThereOrWaiting
          <5> QED BY <2>4, <2>6, <4>1, <5>3
        <4>2. CASE client[d].room # r
          <5>1. d \notin Connected(r)
            BY <4>2 DEF Connected, InRoom
          <5>2. listeners'[r] = listeners[r]
            BY <1>0, <2>4, <4>2, DecrementElsewhere
          <5> QED BY <5>1, <5>2
        <4> QED BY <4>1, <4>2
      <3> QED BY <2>3, <3>2, <3>3, CountFallsByOne
    <2> QED BY <2>5, <2>6
  <1>3. ASSUME NEW j \in Joins, JoinFound(j) PROVE Counted(r)'
    <2>1. PICK d \in Clients : d = join[j].client
      BY <1>0, <1>3, Founds
    <2>2. Settled(d) /\ Aside(d)
      BY <1>0, <1>3, <2>1, Founds
    <2>3. /\ j \in Pending(d) /\ join[j].room \in Rooms
          /\ client'[d].st = client[d].st /\ client'[d].room = client[d].room
          /\ client'[d].connected = (client[d].connected \/
                                     (client[d].st = "ready" /\ client[d].room = join[j].room))
          /\ listeners' = [listeners EXCEPT ![join[j].room] = @ + 1]
          /\ disturbed' = disturbed
      BY <1>0, <1>3, <2>1, Founds
    <2>4. client[d].connected => client[d].st = "ready"
      BY <2>2 DEF Settled
    <2>5. CASE r # join[j].room
      <3>1. d \in Connected(r)' <=> d \in Connected(r)
        BY <2>2, <2>3, <2>5, ConnectedAside DEF Connected, InRoom, Ready
      <3>2. Connected(r)' = Connected(r)
        BY <2>2, <3>1, ConnectedAside
      <3>3. listeners'[r] = listeners[r]
        BY <1>0, <2>3, <2>5
      <3> QED BY <2>3, <3>2, <3>3, CountStays
    <2>6. CASE r = join[j].room
      <3>1. IsFiniteSet(Connected(r)) /\ Connected(r)' \subseteq Connected(r) \cup {d}
        BY <2>2, ConnectedAside DEF Counted
      <3>2. IsFiniteSet(Connected(r)')
        BY <3>1, FS_AddElement, FS_Subset
      <3>3. ASSUME Undisturbed(disturbed', r)
            PROVE  listeners'[r] = Cardinality(Connected(r)')
        <4>1. Undisturbed(disturbed, r) /\ Fresh(disturbed, d, r)
          BY <2>3, <3>3 DEF Undisturbed
        <4>2. client[d].st = "ready" /\ client[d].room = r /\ ~ client[d].connected
          BY <2>2, <2>3, <2>6, <4>1 DEF Settled
        <4>3. d \notin Connected(r) /\ d \in Connected(r)'
          BY <2>2, <2>3, <2>6, <4>2, ConnectedAside DEF Connected
        <4>4. Connected(r)' = Connected(r) \cup {d}
          BY <2>2, <4>3, ConnectedAside
        <4>5. Cardinality(Connected(r) \cup {d}) = Cardinality(Connected(r)) + 1
          BY <3>1, <4>3, FS_AddElement
        <4>6. listeners'[r] = listeners[r] + 1
          BY <1>0, <2>3, <2>6
        <4> QED BY <4>1, <4>4, <4>5, <4>6 DEF Counted
      <3> QED BY <3>2, <3>3 DEF Counted, Undisturbed, Fresh
    <2> QED BY <2>5, <2>6
  <1>4. ASSUME NEW j \in Joins, JoinFails(j) PROVE Counted(r)'
    <2>1. PICK d \in Clients : d = join[j].client
      BY <1>0, <1>4, FindsNothing
    <2>2. Aside(d) /\ client' = client /\ listeners' = listeners
            /\ \A p \in Rooms : Fresh(disturbed', d, p) => Fresh(disturbed, d, p)
      BY <1>0, <1>4, <2>1, FindsNothing
    <2>3. Undisturbed(disturbed', r) => Undisturbed(disturbed, r)
      BY <2>2 DEF Undisturbed, Aside
    <2>4. Connected(r)' = Connected(r)
      BY <2>2 DEF Connected, InRoom, Ready
    <2> QED BY <2>2, <2>3, <2>4, CountStays
  <1>5. ASSUME NEW d \in Clients, LeaveRoom(d) \/ Disconnect(d) PROVE Counted(r)'
    <2>1. Settled(d) /\ Aside(d)
      BY <1>0, <1>5, Departs
    <2>2. /\ client[d].st = "ready" /\ client'[d].connected = FALSE
          /\ listeners' = IF client[d].room = None THEN listeners ELSE Decrement(client[d].room)
          /\ \A k \in Pending(d) : ~ Fresh(disturbed', d, join[k].room)
          /\ \A p \in Rooms : Fresh(disturbed', d, p) => Fresh(disturbed, d, p)
      BY <1>0, <1>5, Departs
    <2>3. Undisturbed(disturbed', r) => Undisturbed(disturbed, r)
      BY <2>1, <2>2 DEF Undisturbed, Aside
    <2>4. Connected(r)' = Connected(r) \ {d}
      BY <2>1, <2>2, ConnectedAside
    <2>5. ASSUME Undisturbed(disturbed', r)
          PROVE  \/ d \in Connected(r) /\ listeners' = Decrement(r)
                 \/ d \notin Connected(r) /\ listeners'[r] = listeners[r]
      <3>1. CASE client[d].room = r
        <4>1. Fresh(disturbed, d, r) /\ Fresh(disturbed', d, r)
          BY <2>3, <2>5 DEF Undisturbed
        <4>2. ~ \E k \in Pending(d) : join[k].room = r
          BY <2>2, <4>1
        <4>3. d \in Connected(r)
          BY <2>1, <2>2, <3>1, <4>1, <4>2, ThereOrWaiting
        <4> QED BY <2>2, <3>1, <4>3, NoneAssumption
      <3>2. CASE client[d].room # r
        <4>1. d \notin Connected(r)
          BY <3>2 DEF Connected, InRoom
        <4>2. listeners'[r] = listeners[r]
          BY <1>0, <2>2, <3>2, DecrementElsewhere
        <4> QED BY <4>1, <4>2
      <3> QED BY <3>1, <3>2
    <2> QED BY <2>3, <2>4, <2>5, CountFallsByOne
  <1>6. ASSUME Restart PROVE Counted(r)'
    <2>1. \A c \in Clients : client'[c].connected = FALSE
      BY <1>0, <1>6 DEF Restart, TypedMemory, Client
    <2>2. Connected(r)' = {}
      BY <2>1 DEF Connected, InRoom
    <2>3. listeners'[r] = 0
      BY <1>6 DEF Restart
    <2> QED BY <2>2, <2>3, FS_EmptySet DEF Counted
  <1>7. CASE UNCHANGED <<client, listeners, disturbed>>
    <2>1. Connected(r)' = Connected(r)
      BY <1>7 DEF Connected, InRoom, Ready
    <2> QED BY <1>7, <2>1, CountStays
  <1>8. \/ \E d \in Clients : Authenticate(d) \/ Drop(d)
        \/ \E d \in Clients, q \in Rooms, j \in Joins : JoinStart(d, q, j)
        \/ \E j \in Joins : JoinFound(j) \/ JoinFails(j)
        \/ \E d \in Clients : LeaveRoom(d) \/ Disconnect(d)
        \/ Restart
        \/ UNCHANGED <<client, listeners, disturbed>>
    BY DEF Next, vars, SendMessage, Beat, StreamStart, StreamAbandon, StreamFound,
           StreamFails, StreamClose, StreamBeat, Expire
  <1> QED BY <1>1, <1>2, <1>3, <1>4, <1>5, <1>6, <1>7, <1>8

LEMMA SettledAlways == Spec => [](\A c \in Clients : Settled(c))
  <1>1. Init => \A c \in Clients : Settled(c)
    <2> SUFFICES ASSUME Init, NEW c \in Clients PROVE Settled(c)
      OBVIOUS
    <2>1. /\ client[c].st = "verifying" /\ client[c].room = None /\ client[c].connected = FALSE
          /\ heartbeat[c] = None /\ Pending(c) = {}
      BY DEF Init, Pending, Awaiting
    <2> QED BY <2>1 DEF Settled
  <1>2. Typed /\ (\A c \in Clients : Settled(c)) /\ [Next]_vars => (\A c \in Clients : Settled(c))'
    BY SettledNext
  <1> QED BY <1>1, <1>2, TypedAlways, PTL DEF Spec

\* A relay of room events counts the clients in the room, for any number of
\* joins, leaves, disconnects and restarts in any order, unless a join of that
\* room was overtaken by its client's next event, repeated, or failed.
THEOREM RelaysCountClients == Spec => []ListenerAccounting
  <1>1. Init => \A r \in Rooms : Counted(r)
    <2> SUFFICES ASSUME Init, NEW r \in Rooms PROVE Counted(r)
      OBVIOUS
    <2>1. Connected(r) = {} /\ listeners[r] = 0
      BY DEF Init, Connected, InRoom, Ready
    <2> QED BY <2>1, FS_EmptySet DEF Counted
  <1>2. Typed /\ (\A c \in Clients : Settled(c)) /\ (\A r \in Rooms : Counted(r)) /\ [Next]_vars
          => (\A r \in Rooms : Counted(r))'
    BY CountedNext
  <1>3. (\A r \in Rooms : Counted(r)) => ListenerAccounting
    BY DEF Counted, ListenerAccounting, Undisturbed, Fresh
  <1> QED BY <1>1, <1>2, <1>3, TypedAlways, SettledAlways, PTL DEF Spec

(***************************************************************************)
(* The presence key.  Who uses no other socket and no stream has one       *)
(* interval, the heartbeat of his client; whatever writes his key is that  *)
(* client or its heartbeat, and both name the room it is in.               *)
(***************************************************************************)

\* The other sockets of c's user have done nothing yet.
Alone(c) == \A d \in Clients \ {c} : client[d].user = client[c].user => client[d].st = "verifying"

NoStream(u) == \A s \in Streams : stream[s].st \in {"open", "closed"} => stream[s].user # u

\* c is in a room, brought there by joins that ran undisturbed, and its user
\* uses nothing else.
Sole(c) ==
  /\ Pending(c) = {} /\ (\A r \in Rooms : Fresh(disturbed, c, r))
  /\ client[c].connected /\ Alone(c) /\ NoStream(client[c].user)

Tracked(c) ==
  Sole(c) /\ client[c].user \notin adrift => presence[client[c].user] = client[c].room

LEMMA SoleBeats ==
  ASSUME NEW c \in Clients, Settled(c), Sole(c)
  PROVE  heartbeat[c] = client[c].room /\ client[c].room \in Rooms
  BY DEF Settled, Sole

\* A stream that was opened stays one of its user's.
LEMMA StreamsStay ==
  ASSUME TypedMemory, [Next]_vars, NEW s \in Streams, stream[s].st \in {"open", "closed"}
  PROVE  stream'[s].st \in {"open", "closed"} /\ stream'[s].user = stream[s].user
  <1>0. stream \in [Streams -> Stream]
    BY DEF TypedMemory
  <1>1. ASSUME NEW t \in Streams, StreamClose(t)
        PROVE  stream'[s].st \in {"open", "closed"} /\ stream'[s].user = stream[s].user
    BY <1>0, <1>1 DEF StreamClose
  <1>2. ASSUME Restart
        PROVE  stream'[s].st \in {"open", "closed"} /\ stream'[s].user = stream[s].user
    BY <1>2 DEF Restart
  <1>4. \/ \E t \in Streams : StreamClose(t)
        \/ Restart
        \/ \E t \in Streams : \/ \E v \in Users, r \in Rooms : StreamStart(t, v, r)
                              \/ StreamAbandon(t) \/ StreamFound(t) \/ StreamFails(t)
        \/ stream' = stream
    BY DEF Next, vars, Authenticate, Drop, JoinStart, JoinFound, JoinFails, LeaveRoom, Disconnect,
           SendMessage, Beat, StreamBeat, Expire
  <1>5. CASE stream' = stream
    BY <1>5
  <1>6. CASE \E t \in Streams : \/ \E v \in Users, r \in Rooms : StreamStart(t, v, r)
                             \/ StreamAbandon(t) \/ StreamFound(t) \/ StreamFails(t)
    <2>1. PICK t \in Streams : \/ \E v \in Users, r \in Rooms : StreamStart(t, v, r)
                              \/ StreamAbandon(t) \/ StreamFound(t) \/ StreamFails(t)
      BY <1>6
    <2> QED BY <1>0, <2>1 DEF StreamStart, StreamAbandon, StreamFound, StreamFails, Stream
  <1> QED BY <1>1, <1>2, <1>4, <1>5, <1>6

\* A step of another client d, which must be another user's.
LEMMA TrackedAside ==
  ASSUME TypedMemory, NEW c \in Clients, NEW d \in Clients \ {c}, Aside(d), Tracked(c), Sole(c)',
         client'[d].user = client[d].user, stream' = stream, client'[c].user \notin adrift',
         client[d].user # client[c].user \/ client[d].st = "verifying",
         client[d].user # client[c].user =>
           /\ presence'[client[c].user] = presence[client[c].user]
           /\ client[c].user \in adrift' <=> client[c].user \in adrift,
         client[d].user = client[c].user => UNCHANGED <<presence, adrift>>
  PROVE  presence'[client'[c].user] = client'[c].room
  <1>1. client'[c] = client[c] /\ Pending(c)' = Pending(c)
          /\ \A r \in Rooms : Fresh(disturbed', c, r) <=> Fresh(disturbed, c, r)
    BY DEF Aside
  <1>2. \A e \in Clients \ {c} : client'[e].user = client[e].user
          /\ (e # d => client'[e].st = client[e].st)
    BY DEF Aside
  <1>3. Alone(c)
    BY <1>1, <1>2 DEF Sole, Alone
  <1>4. NoStream(client[c].user)
    BY <1>1 DEF Sole, NoStream
  <1>5. Pending(c) = {} /\ client[c].connected /\ \A r \in Rooms : Fresh(disturbed, c, r)
    BY <1>1 DEF Sole, Fresh
  <1>6. presence[client[c].user] = client[c].room
    BY <1>1, <1>3, <1>4, <1>5 DEF Sole, Tracked
  <1> QED BY <1>1, <1>6

LEMMA TrackedNext ==
  ASSUME Typed, \A c \in Clients : Settled(c), [Next]_vars, NEW c \in Clients, Tracked(c)
  PROVE  Tracked(c)'
  <1> SUFFICES ASSUME Sole(c)', client'[c].user \notin adrift'
               PROVE  presence'[client'[c].user] = client'[c].room
    BY DEF Tracked
  <1>0. TypedMemory
    BY DEF Typed
  <1>a. client'[c].connected /\ Pending(c)' = {} /\ (\A r \in Rooms : Fresh(disturbed', c, r))
    BY DEF Sole, Fresh
  <1>b. \A d \in Clients \ {c} : client[d].user = client[c].user => client'[d].st = "verifying"
    BY UsersStay DEF Sole, Alone
  <1>u. \A d \in Clients : client'[d].user = client[d].user /\ client[d].user \in Users
    BY <1>0, UsersStay DEF TypedMemory, Client
  <1>n. \A s \in Streams : stream'[s].st \in {"open", "closed"} => stream'[s].user # client[c].user
    BY <1>u DEF Sole, NoStream
  <1>c. NoStream(client[c].user)
    BY <1>0, <1>n, StreamsStay DEF NoStream
  <1>v. client[c].user \notin adrift'
    BY <1>u
  <1>s. Settled(c)
    OBVIOUS
  \* A step of no client: c was alone before.
  <1>d. ASSUME UNCHANGED <<client, join, disturbed>>
        PROVE  Sole(c) /\ (client[c].user \notin adrift => presence[client[c].user] = client[c].room)
    <2>1. Pending(c) = {} /\ (\A r \in Rooms : Fresh(disturbed, c, r)) /\ client[c].connected
      BY <1>a, <1>d DEF Pending, Awaiting
    <2>2. Alone(c)
      BY <1>b, <1>d DEF Alone
    <2> QED BY <1>c, <2>1, <2>2 DEF Sole, Tracked
  \* A command about another user.
  <1>w. ASSUME NEW v \in Users, NEW key, Command(v, key), v # client[c].user
        PROVE  /\ presence'[client[c].user] = presence[client[c].user]
               /\ client[c].user \in adrift' <=> client[c].user \in adrift
    BY <1>0, <1>u, <1>w, CommandAside
  <1>1. ASSUME NEW d \in Clients, Authenticate(d) \/ Drop(d)
        PROVE  presence'[client'[c].user] = client'[c].room
    <2>1. /\ client[d].st = "verifying" /\ client'[d].connected = client[d].connected
          /\ UNCHANGED <<presence, stream, adrift>> /\ Aside(d)
      BY <1>0, <1>1, Verifies
    <2>2. CASE d = c
      BY <1>a, <1>s, <2>1, <2>2 DEF Settled
    <2>3. CASE d # c
      BY <1>0, <1>u, <2>1, <2>3, TrackedAside
    <2> QED BY <2>2, <2>3
  <1>2. ASSUME NEW d \in Clients, NEW q \in Rooms, NEW j \in Joins, JoinStart(d, q, j)
        PROVE  presence'[client'[c].user] = client'[c].room
    <2>1. /\ client'[d].st = "ready" /\ UNCHANGED <<presence, stream, adrift>>
          /\ j \in Pending(d)' /\ Aside(d)
      BY <1>0, <1>2, Starts
    <2>2. d # c
      BY <1>a, <2>1
    <2>3. client[d].user # client[c].user
      BY <1>b, <2>1, <2>2
    <2> QED BY <1>0, <1>u, <2>1, <2>2, <2>3, TrackedAside
  <1>3. ASSUME NEW j \in Joins, JoinFound(j)
        PROVE  presence'[client'[c].user] = client'[c].room
    <2>1. PICK d \in Clients : d = join[j].client
      BY <1>0, <1>3, Founds
    <2>2. Settled(d) /\ Aside(d)
      BY <1>0, <1>3, <2>1, Founds
    <2>3. /\ j \in Pending(d) /\ join[j].room \in Rooms
          /\ client'[d].st = client[d].st /\ client'[d].room = client[d].room
          /\ stream' = stream /\ disturbed' = disturbed
          /\ Command(client[d].user, join[j].room)
      BY <1>0, <1>3, <2>1, Founds
    <2>4. CASE d = c
      <3>1. client[c].room = join[j].room
        BY <1>a, <2>2, <2>3, <2>4 DEF Settled
      <3>2. presence'[client[c].user] = join[j].room
        BY <1>0, <1>u, <1>v, <2>3, <2>4, CommandSettles
      <3> QED BY <1>u, <2>3, <2>4, <3>1, <3>2
    <2>5. CASE d # c
      <3>1. client[d].st # "verifying"
        BY <2>2, <2>3 DEF Settled
      <3>2. client[d].user # client[c].user
        BY <1>b, <2>3, <2>5, <3>1
      <3>3. /\ presence'[client[c].user] = presence[client[c].user]
            /\ client[c].user \in adrift' <=> client[c].user \in adrift
        BY <1>u, <1>w, <2>3, <3>2
      <3> QED BY <1>0, <1>u, <2>2, <2>3, <2>5, <3>2, <3>3, TrackedAside
    <2> QED BY <2>4, <2>5
  <1>4. ASSUME NEW j \in Joins, JoinFails(j)
        PROVE  presence'[client'[c].user] = client'[c].room
    <2>1. PICK d \in Clients : d = join[j].client
      BY <1>0, <1>4, FindsNothing
    <2>2. /\ j \in Pending(d) /\ join[j].room \in Rooms /\ Aside(d) /\ Settled(d)
          /\ client' = client /\ UNCHANGED <<presence, stream, adrift>>
          /\ ~ Fresh(disturbed', d, join[j].room)
      BY <1>0, <1>4, <2>1, FindsNothing
    <2>3. d # c
      BY <1>a, <2>2
    <2>4. client[d].st # "verifying"
      BY <2>2 DEF Settled
    <2>5. client[d].user # client[c].user
      BY <1>b, <2>2, <2>3, <2>4
    <2> QED BY <1>0, <1>u, <2>2, <2>3, <2>5, TrackedAside
  <1>5. ASSUME NEW d \in Clients, LeaveRoom(d) \/ Disconnect(d)
        PROVE  presence'[client'[c].user] = client'[c].room
    <2>1. /\ client'[d].st \in {"ready", "gone"} /\ client'[d].connected = FALSE
          /\ Command(client[d].user, None)
          /\ stream' = stream /\ Aside(d)
      BY <1>0, <1>5, Departs
    <2>2. d # c
      BY <1>a, <2>1
    <2>3. client[d].user # client[c].user
      BY <1>b, <2>1, <2>2
    <2>4. /\ presence'[client[c].user] = presence[client[c].user]
          /\ client[c].user \in adrift' <=> client[c].user \in adrift
      BY <1>u, <1>w, <2>1, <2>3
    <2> QED BY <1>0, <1>u, <2>1, <2>2, <2>3, <2>4, TrackedAside
  <1>6. ASSUME NEW d \in Clients, Beat(d)
        PROVE  presence'[client'[c].user] = client'[c].room
    <2>1. /\ UNCHANGED <<client, join, stream, disturbed>> /\ heartbeat[d] # None
          /\ Command(client[d].user, heartbeat[d])
      BY <1>6 DEF Beat, SetOnline
    <2>2. Sole(c) /\ (client[c].user \notin adrift => presence[client[c].user] = client[c].room)
      BY <1>d, <2>1
    <2>3. CASE d = c
      <3>1. heartbeat[c] = client[c].room
        BY <1>s, <2>2, SoleBeats
      <3> QED BY <1>0, <1>u, <1>v, <2>1, <2>3, <3>1, CommandSettles
    <2>4. CASE d # c
      <3>1. client[d].user # client[c].user
        <4>1. Settled(d)
          OBVIOUS
        <4> QED BY <1>b, <2>1, <2>4, <4>1 DEF Settled
      <3> QED BY <1>u, <1>v, <1>w, <2>1, <2>2, <3>1
    <2> QED BY <2>3, <2>4
  <1>7. ASSUME NEW s \in Streams,
               \/ \E v \in Users, r \in Rooms : StreamStart(s, v, r)
               \/ StreamAbandon(s) \/ StreamFails(s)
        PROVE  presence'[client'[c].user] = client'[c].room
    <2>1. UNCHANGED <<client, join, presence, disturbed, adrift>>
      BY <1>7 DEF StreamStart, StreamAbandon, StreamFails
    <2> QED BY <1>d, <1>v, <2>1
  <1>8. ASSUME NEW s \in Streams, StreamFound(s) \/ StreamClose(s) \/ StreamBeat(s)
        PROVE  presence'[client'[c].user] = client'[c].room
    <2>1. stream[s] \in [st : {"awaiting", "open"}, user : Users, room : Rooms, gone : BOOLEAN]
      BY <1>0, <1>8, LiveStream DEF StreamFound, StreamClose, StreamBeat
    <2>2. stream'[s].st \in {"open", "closed"} /\ stream'[s].user = stream[s].user
      <3>1. CASE StreamFound(s)
        BY <1>0, <2>1, <3>1 DEF StreamFound, TypedMemory
      <3>2. CASE StreamClose(s)
        BY <1>0, <3>2 DEF StreamClose, TypedMemory
      <3>3. CASE StreamBeat(s)
        BY <3>3 DEF StreamBeat
      <3> QED BY <1>8, <3>1, <3>2, <3>3
    <2>3. stream[s].user \in Users /\ stream[s].user # client[c].user
      BY <1>n, <2>1, <2>2
    <2>4. UNCHANGED <<client, join, disturbed>> /\ \E key : Command(stream[s].user, key)
      BY <1>8 DEF StreamFound, StreamClose, StreamBeat, SetOnline, SetOffline
    <2>5. /\ presence'[client[c].user] = presence[client[c].user]
          /\ client[c].user \in adrift' <=> client[c].user \in adrift
      BY <1>w, <2>3, <2>4
    <2> QED BY <1>d, <1>v, <2>4, <2>5
  <1>9. ASSUME NEW v \in Users, Expire(v)
        PROVE  presence'[client'[c].user] = client'[c].room
    <2>1. /\ UNCHANGED <<client, join, disturbed, adrift>> /\ (Reported(v) = {} \/ v \in adrift)
          /\ presence' = [presence EXCEPT ![v] = None]
      BY <1>9 DEF Expire
    <2>2. Sole(c) /\ client[c].user \notin adrift /\ presence[client[c].user] = client[c].room
      BY <1>d, <1>v, <2>1
    <2>3. heartbeat[c] = client[c].room /\ client[c].room \in Rooms
      BY <1>s, <2>2, SoleBeats
    <2>4. heartbeat[c] \in Reported(client[c].user)
      BY <2>3, ReportedBy, NoneAssumption
    <2>5. v # client[c].user
      BY <2>1, <2>2, <2>4
    <2> QED BY <1>0, <1>u, <2>1, <2>2, <2>5 DEF TypedMemory
  <1>10. ASSUME Restart PROVE FALSE
    BY <1>0, <1>10, <1>a DEF Restart, TypedMemory, Client
  <1>11. CASE UNCHANGED <<client, join, disturbed, presence, adrift>>
    BY <1>d, <1>v, <1>11
  <1>12. \/ \E d \in Clients : Authenticate(d) \/ Drop(d)
         \/ \E d \in Clients, q \in Rooms, j \in Joins : JoinStart(d, q, j)
         \/ \E j \in Joins : JoinFound(j) \/ JoinFails(j)
         \/ \E d \in Clients : LeaveRoom(d) \/ Disconnect(d) \/ Beat(d)
         \/ \E s \in Streams :
              \/ \E v \in Users, r \in Rooms : StreamStart(s, v, r)
              \/ StreamAbandon(s) \/ StreamFound(s) \/ StreamFails(s)
              \/ StreamClose(s) \/ StreamBeat(s)
         \/ \E v \in Users : Expire(v)
         \/ Restart
         \/ UNCHANGED <<client, join, disturbed, presence, adrift>>
    BY DEF Next, vars, SendMessage
  <1> QED BY <1>1, <1>2, <1>3, <1>4, <1>5, <1>6, <1>7, <1>8, <1>9, <1>10, <1>11, <1>12

LEMMA TrackedMeans ==
  ASSUME \A c \in Clients : Settled(c) /\ Tracked(c)
  PROVE  PresenceTracksRoom
  <1> SUFFICES ASSUME NEW c \in Clients, Pending(c) = {},
                      \A r \in Rooms : <<c, r>> \notin disturbed
               PROVE  /\ heartbeat[c] = IF client[c].connected THEN client[c].room ELSE None
                      /\ client[c].connected /\ client[c].user \notin adrift
                           /\ (\A d \in Clients \ {c} : client[d].user = client[c].user
                                                            => client[d].st = "verifying")
                           /\ (\A s \in Streams : stream[s].st \in {"open", "closed"}
                                                    => stream[s].user # client[c].user)
                         => presence[client[c].user] = client[c].room
    BY DEF PresenceTracksRoom
  <1>1. heartbeat[c] = IF client[c].connected THEN client[c].room ELSE None
    BY DEF Settled, Fresh
  <1>2. client[c].connected /\ Alone(c) /\ NoStream(client[c].user) /\ client[c].user \notin adrift
          => presence[client[c].user] = client[c].room
    BY DEF Tracked, Sole, Fresh
  <1> QED BY <1>1, <1>2 DEF Alone, NoStream

\* A client whose joins ran undisturbed has a heartbeat exactly while it is in a
\* room, for that room; and the key of a user who used nothing else names that
\* room, whatever else happens on the server, once a command about him has reached
\* Redis since the last one that was rejected.
THEOREM PresenceFollowsRoom == Spec => []PresenceTracksRoom
  <1>1. Init => \A c \in Clients : Tracked(c)
    BY DEF Init, Tracked, Sole
  <1>2. Typed /\ (\A c \in Clients : Settled(c)) /\ (\A c \in Clients : Tracked(c)) /\ [Next]_vars
          => (\A c \in Clients : Tracked(c))'
    BY TrackedNext
  <1>3. (\A c \in Clients : Settled(c)) /\ (\A c \in Clients : Tracked(c)) => PresenceTracksRoom
    BY TrackedMeans
  <1> QED BY <1>1, <1>2, <1>3, TypedAlways, SettledAlways, PTL DEF Spec
=============================================================================
