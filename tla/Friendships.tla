---------------------------- MODULE Friendships -----------------------------
(***************************************************************************)
(* Friend requests (friendships.service.ts), the direct messages they      *)
(* permit (dm-chat.gateway.ts, direct-messages.service.ts), and the stream *)
(* that tells a user of his friends' presence (friendships.controller.ts). *)
(*                                                                         *)
(* A handler reads a row, decides, and saves the entity; the ORM's save    *)
(* looks the row up once more, then inserts it if it is gone and updates   *)
(* the columns that differ if not.  A member of Calls is one handler in    *)
(* flight.  A request that is refused writes nothing and is no step here.  *)
(*                                                                         *)
(* Left out: BLOCKED, which no code ever sets, typing_dm, replies, and the *)
(* pages and the order of the lists.                                       *)
(***************************************************************************)
EXTENDS Naturals, FiniteSets

CONSTANTS
  Users,
  Strangers,  \* users without a row in this instance, whom a client may name all the same
  Ids,        \* friendship ids; one nobody refers to any more may be drawn again
  Calls,      \* handlers in flight at the same time
  Messages,   \* message ids
  None        \* null

VARIABLES
  row,         \* friendship rows
  message,     \* direct_messages: sender, receiver, who wrote the text last, and the
               \* history of who was sent a text of it and which others an edit named
  live,        \* per user, the friendIdsSet of his stream, or None
  call,        \* the locals of each handler
  wanted,      \* history: per friendship, those who asked for it and did not withdraw
  asked,       \* history: <<u, v>> once u asked for v's friendship or accepted it
  overtaken,   \* history: friendships saved by a handler whose read was stale
  crossed      \* history: pairs whose row was inserted while another handler saved theirs

history == <<wanted, asked, overtaken, crossed>>
vars == <<row, message, live, call, wanted, asked, overtaken, crossed>>

Friendship == [requester : Users, addressee : Users,
               status : {"PENDING", "ACCEPTED", "REJECTED"}]

\* Whom a client may name as the receiver of an edit.
Named == Users \cup Strangers

Message == [sender : Users, receiver : Users, text : Users,
            reached : SUBSET Named, named : SUBSET Named]

\* read: the row the handler decided on.  found: the row save looked up.
Call == [pc : {"save"}, user : Users, id : Ids, read : Friendship \cup {None}, entity : Friendship]
        \cup [pc : {"write"}, user : Users, id : Ids, read : Friendship \cup {None},
              entity : Friendship, found : Friendship \cup {None}]
        \cup [pc : {"delete"}, user : Users, id : Ids]
        \cup [pc : {"deliver"}, user : Users, receiver : Users]

ASSUME NoneAssumption == None \notin Users \cup Ids \cup Friendship \cup Message \cup Call

TypeOK ==
  /\ row \in [Ids -> Friendship \cup {None}]
  /\ message \in [Messages -> Message \cup {None}]
  /\ live \in [Users -> (SUBSET Users) \cup {None}]
  /\ call \in [Calls -> Call \cup {None}]
  /\ wanted \in [Ids -> SUBSET Users]
  /\ asked \subseteq Users \X Users
  /\ overtaken \subseteq Ids
  /\ crossed \subseteq SUBSET Users
  /\ \A i, j \in Ids : row[i] # None /\ row[j] # None /\ row[i].requester = row[j].requester
                         /\ row[i].addressee = row[j].addressee => i = j

Init ==
  /\ row = [i \in Ids |-> None]
  /\ message = [m \in Messages |-> None]
  /\ live = [u \in Users |-> None]
  /\ call = [c \in Calls |-> None]
  /\ wanted = [i \in Ids |-> {}]
  /\ asked = {}
  /\ overtaken = {}
  /\ crossed = {}

Pair(f) == {f.requester, f.addressee}

\* Mutant: only the direction the query was asked in is looked at.
BetweenDirected(u, v) == {i \in Ids : row[i] # None /\ row[i].requester = u /\ row[i].addressee = v}

\* The rows a query in either direction finds.
Between(u, v) == {i \in Ids : row[i] # None /\ Pair(row[i]) = {u, v}}

Fresh == {i \in Ids : row[i] = None /\ \A c \in Calls :
            call[c] # None /\ call[c].pc # "deliver" => call[c].id # i}

Begin(c, locals) ==
  /\ call[c] = None
  /\ call' = [call EXCEPT ![c] = locals]
  /\ UNCHANGED <<row, message, live, history>>

Save(c, u, i, entity) ==
  Begin(c, [pc |-> "save", user |-> u, id |-> i, read |-> row[i], entity |-> entity])

-----------------------------------------------------------------------------
(* The lists and the status.                                               *)

In(status) == {i \in Ids : row[i] # None /\ row[i].status = status}

Friends(u) == {v \in Users : \E i \in In("ACCEPTED") : v # u /\ Pair(row[i]) = {u, v}}
PendingRequests(u) == {row[i].requester : i \in {j \in In("PENDING") : row[j].addressee = u}}
SentRequests(u) == {row[i].addressee : i \in {j \in In("PENDING") : row[j].requester = u}}

\* A request that was rejected still reads as pending.
Told(u, f) ==
  IF f.status = "ACCEPTED" THEN "FRIENDS"
  ELSE IF f.requester = u THEN "PENDING_SENT" ELSE "PENDING_RECEIVED"

\* getFriendshipStatus: findOne returns any one of the rows between the two.
Status(u, v) ==
  IF Between(u, v) = {} THEN {"NOT_FRIENDS"} ELSE {Told(u, row[i]) : i \in Between(u, v)}

\* streamFriendEvents: the friends are read once, when the stream is opened.
OpenLive(u) ==
  /\ live[u] = None
  /\ live' = [live EXCEPT ![u] = Friends(u)]
  /\ UNCHANGED <<row, message, call, history>>

CloseLive(u) ==
  /\ live[u] # None
  /\ live' = [live EXCEPT ![u] = None]
  /\ UNCHANGED <<row, message, call, history>>

-----------------------------------------------------------------------------
(* sendRequest, from u to v.                                               *)

SendNew(c, u, v) ==
  /\ u # v
  /\ Between(u, v) = {}
  /\ \E i \in Fresh :
       Save(c, u, i, [requester |-> u, addressee |-> v, status |-> "PENDING"])

\* Mutant: whoever asks for a friendship that is pending accepts it.
SendAcceptsOwn(c, u, v) ==
  /\ u # v
  /\ \E i \in Between(u, v) :
       /\ row[i].status = "PENDING"
       /\ Save(c, u, i, [row[i] EXCEPT !.status = "ACCEPTED"])

\* The other user has asked already.
SendAccepts(c, u, v) ==
  /\ u # v
  /\ \E i \in Between(u, v) :
       /\ row[i].status = "PENDING" /\ row[i].addressee = u
       /\ Save(c, u, i, [row[i] EXCEPT !.status = "ACCEPTED"])

\* After a rejection either of the two may ask again.
SendAgain(c, u, v) ==
  /\ u # v
  /\ \E i \in Between(u, v) :
       /\ row[i].status = "REJECTED"
       /\ Save(c, u, i, [requester |-> u, addressee |-> v, status |-> "PENDING"])

-----------------------------------------------------------------------------
(* respondToRequest and removeFriendship.                                  *)

RespondToRequest(c, u) ==
  \E i \in Ids :
    /\ row[i] # None
    /\ row[i].addressee = u /\ row[i].status = "PENDING"
    /\ \E answer \in {"ACCEPTED", "REJECTED"} :
         Save(c, u, i, [row[i] EXCEPT !.status = answer])

RemoveFriendship(c, u) ==
  \E i \in Ids :
    /\ row[i] # None
    /\ u \in Pair(row[i])
    /\ Begin(c, [pc |-> "delete", user |-> u, id |-> i])

Delete(c) ==
  /\ call[c] # None /\ call[c].pc = "delete"
  /\ row' = [row EXCEPT ![call[c].id] = None]
  /\ wanted' = [wanted EXCEPT ![call[c].id] = {}]
  /\ crossed' = IF row[call[c].id] = None THEN crossed
                ELSE {p \in crossed : \E i \in Ids \ {call[c].id} : row[i] # None /\ Pair(row[i]) = p}
  /\ call' = [call EXCEPT ![c] = None]
  /\ UNCHANGED <<message, live, asked, overtaken>>

-----------------------------------------------------------------------------
(* save.                                                                   *)

LookUp(c) ==
  /\ call[c] # None /\ call[c].pc = "save"
  /\ LET l == call[c] IN
       call' = [call EXCEPT ![c] = [pc |-> "write", user |-> l.user, id |-> l.id,
                  read |-> l.read, entity |-> l.entity, found |-> row[l.id]]]
  /\ UNCHANGED <<row, message, live, history>>

Column(new, found, current) == IF new = found THEN current ELSE new

\* The columns in which the entity differs from the row that was found.
Updated(l) ==
  [requester |-> Column(l.entity.requester, l.found.requester, row[l.id].requester),
   addressee |-> Column(l.entity.addressee, l.found.addressee, row[l.id].addressee),
   status    |-> Column(l.entity.status, l.found.status, row[l.id].status)]

\* Mutant: no index.
FreeAlways(i, f) == TRUE

\* The unique index covers one direction.
Free(i, f) ==
  \A j \in Ids \ {i} : row[j] # None =>
    <<row[j].requester, row[j].addressee>> # <<f.requester, f.addressee>>

\* History: the handler's user wants the friendship, or no longer does.
Wanting(l) ==
  IF l.entity.status = "REJECTED" THEN wanted[l.id] \ {l.user} ELSE wanted[l.id] \cup {l.user}

\* History: the row is no longer the one the decision was about.
Overtaking(l) ==
  IF l.read # l.found \/ l.found # row[l.id] THEN overtaken \cup {l.id}
  ELSE IF l.read = None THEN overtaken \ {l.id} ELSE overtaken

\* History: while c inserts f, another handler is about to save a row of the two.
Crossing(c, f) ==
  \E d \in Calls \ {c} : /\ call[d] # None /\ call[d].pc \in {"save", "write"}
                          /\ Pair(call[d].entity) = Pair(f)

Put(c, f) ==
  LET l == call[c] IN
  /\ Free(l.id, f)
  /\ row' = [row EXCEPT ![l.id] = f]
  /\ wanted' = [wanted EXCEPT ![l.id] = Wanting(l)]
  /\ asked' = asked \cup {<<l.user, v>> : v \in IF l.entity.status = "REJECTED" THEN {}
                                                 ELSE Pair(f) \ {l.user}}
  /\ overtaken' = Overtaking(l)
  /\ crossed' = IF l.found = None /\ Crossing(c, f) THEN crossed \cup {Pair(f)} ELSE crossed
  /\ call' = [call EXCEPT ![c] = None]
  /\ UNCHANGED <<message, live>>

Writing(c) == call[c] # None /\ call[c].pc = "write"

Insert(c) ==
  /\ Writing(c)
  /\ call[c].found = None /\ row[call[c].id] = None
  /\ Put(c, call[c].entity)

Update(c) ==
  /\ Writing(c)
  /\ call[c].found # None /\ row[call[c].id] # None
  /\ Put(c, Updated(call[c]))

\* The row was removed after it was found: the update affects no row.
UpdateNothing(c) ==
  /\ Writing(c)
  /\ call[c].found # None /\ row[call[c].id] = None
  /\ call' = [call EXCEPT ![c] = None]
  /\ UNCHANGED <<row, message, live, history>>

\* A statement rejects, on the unique index or otherwise.
Fail(c) ==
  /\ call[c] # None
  /\ call' = [call EXCEPT ![c] = None]
  /\ UNCHANGED <<row, message, live, history>>

-----------------------------------------------------------------------------
(* Direct messages.                                                        *)

\* Mutant: anyone the status does not call NOT_FRIENDS may be written to.
SendDmToAnyRow(c, u, v) ==
  /\ u # v
  /\ Status(u, v) # {"NOT_FRIENDS"}
  /\ Begin(c, [pc |-> "deliver", user |-> u, receiver |-> v])

\* handleSendDm.
SendDm(c, u, v) ==
  /\ u # v
  /\ "FRIENDS" \in Status(u, v)
  /\ Begin(c, [pc |-> "deliver", user |-> u, receiver |-> v])

\* getConversation; who is not told FRIENDS is refused.
Conversation(u, v) ==
  {m \in Messages : /\ message[m] # None /\ {message[m].sender, message[m].receiver} = {u, v}
                    /\ "FRIENDS" \in Status(u, v)}

Deliver(c, m) ==
  /\ call[c] # None /\ call[c].pc = "deliver"
  /\ message[m] = None
  /\ message' = [message EXCEPT ![m] =
       [sender |-> call[c].user, receiver |-> call[c].receiver, text |-> call[c].user,
        reached |-> {call[c].user, call[c].receiver}, named |-> {}]]
  /\ call' = [call EXCEPT ![c] = None]
  /\ UNCHANGED <<row, live, history>>

\* handleEditDm.  updateMessage reads and saves a row that only the sender edits
\* and nobody removes; the edited text then goes to the sender and to the receiver
\* v that the client names, who need be neither the message's receiver nor a friend.
EditMessage(m, u, v) ==
  /\ message[m] # None
  /\ message[m].sender = u
  /\ message' = [message EXCEPT ![m] =
       [sender |-> u, receiver |-> message[m].receiver, text |-> u,
        reached |-> message[m].reached \cup {u, v},
        named |-> message[m].named \cup ({v} \ {u, message[m].receiver})]]
  /\ UNCHANGED <<row, live, call, history>>

Next ==
  \/ \E c \in Calls :
       \/ \E u, v \in Users : \/ SendNew(c, u, v) \/ SendAccepts(c, u, v) \/ SendAgain(c, u, v)
                              \/ SendDm(c, u, v)
       \/ \E u \in Users : RespondToRequest(c, u) \/ RemoveFriendship(c, u)
       \/ LookUp(c) \/ Insert(c) \/ Update(c) \/ UpdateNothing(c) \/ Delete(c) \/ Fail(c)
       \/ \E m \in Messages : Deliver(c, m)
  \/ \E m \in Messages, u \in Users, v \in Named : EditMessage(m, u, v)
  \/ \E u \in Users : OpenLive(u) \/ CloseLive(u)

Spec == Init /\ [][Next]_vars

-----------------------------------------------------------------------------
(* Properties.                                                             *)

\* Whatever handlers overlap: the requester of a row wants it, in a friendship
\* both do, and neither withdrew since, except where a handler saved a decision
\* about a row that had changed meanwhile.
FriendsWantIt ==
  \A i \in Ids \ overtaken : row[i] # None =>
    /\ row[i].requester \in wanted[i]
    /\ row[i].status = "ACCEPTED" => row[i].addressee \in wanted[i]

\* A user sees another in at most one of the lists of friends, requests received
\* and requests sent, the status says which, and two users read the same
\* conversation, except between two whose requests crossed (the unique index
\* covers one direction only).
InOneList ==
  \A u, v \in Users : u # v /\ {u, v} \notin crossed =>
    /\ Cardinality(Status(u, v)) = 1
    /\ v \in Friends(u) <=> "FRIENDS" \in Status(u, v)
    /\ ~ (v \in PendingRequests(u) /\ v \in SentRequests(u))
    /\ Conversation(u, v) = Conversation(v, u)

\* Whatever handlers overlap, stale saves included: friends have both asked for
\* the friendship or accepted it, now or earlier, and so have the two ends of a
\* message, whose text only its sender ever wrote, whoever was sent the text, and
\* whoever is told of the other's presence.  An edit is no part of the promise:
\* it also sends the text to anyone its sender's client names.
NobodyIsForced ==
  /\ \A i \in Ids : row[i] # None /\ row[i].status = "ACCEPTED" =>
       /\ <<row[i].requester, row[i].addressee>> \in asked
       /\ <<row[i].addressee, row[i].requester>> \in asked
  /\ \A m \in Messages : message[m] # None =>
       /\ message[m].text = message[m].sender
       /\ \A v \in {message[m].receiver} \cup (message[m].reached \ message[m].named) :
            v # message[m].sender =>
              <<message[m].sender, v>> \in asked /\ <<v, message[m].sender>> \in asked
  /\ \A u \in Users : live[u] # None =>
       \A v \in live[u] : <<u, v>> \in asked /\ <<v, u>> \in asked
=============================================================================
