------------------------- MODULE FriendshipsProofs --------------------------
(* Proofs about Friendships, for any users, ids, messages and any number   *)
(* of handlers in flight.                                                  *)
EXTENDS Friendships, FiniteSetTheorems, TLAPS

(***************************************************************************)
(* The inductive invariant.                                                *)
(***************************************************************************)

Shape ==
  /\ row \in [Ids -> Friendship \cup {None}]
  /\ message \in [Messages -> Message \cup {None}]
  /\ live \in [Users -> (SUBSET Users) \cup {None}]
  /\ call \in [Calls -> Call \cup {None}]
  /\ wanted \in [Ids -> SUBSET Users]
  /\ asked \subseteq Users \X Users
  /\ overtaken \subseteq Ids
  /\ crossed \subseteq SUBSET Users

\* The index keeps two rows apart that go the same way.
Unique ==
  \A i, j \in Ids : row[i] # None /\ row[j] # None /\ row[i].requester = row[j].requester
                      /\ row[i].addressee = row[j].addressee => i = j

\* A handler that is about to write a row.
Deciding(c) == call[c] # None /\ call[c].pc \in {"save", "write"}

Both(u, v) == <<u, v>> \in asked /\ <<v, u>> \in asked

\* The requester asked; if it is accepted, so did the addressee.
Asked(f) ==
  /\ f.requester # f.addressee
  /\ <<f.requester, f.addressee>> \in asked
  /\ f.status = "ACCEPTED" => <<f.addressee, f.requester>> \in asked

\* What the handler with locals l will save is a request of its user's, or its
\* user's answer to the request he read.
Fair(l) ==
  /\ l.entity.requester # l.entity.addressee
  /\ \/ l.entity.status = "PENDING" /\ l.entity.requester = l.user
     \/ /\ l.read # None /\ l.read.status = "PENDING"
        /\ l.entity.status \in {"ACCEPTED", "REJECTED"}
        /\ l.entity.requester = l.read.requester
        /\ l.entity.addressee = l.read.addressee /\ l.entity.addressee = l.user
        /\ <<l.entity.requester, l.entity.addressee>> \in asked
  /\ l.pc = "write" /\ l.found # None =>
       Pair(l.found) = Pair(l.entity) /\ l.found.requester # l.found.addressee

\* Handlers and the row that work on one id are about the same two users.
Same ==
  /\ \A c \in Calls : Deciding(c) /\ row[call[c].id] # None =>
       Pair(row[call[c].id]) = Pair(call[c].entity)
  /\ \A c, d \in Calls : Deciding(c) /\ Deciding(d) /\ call[c].id = call[d].id =>
       Pair(call[c].entity) = Pair(call[d].entity)

\* Between two whose requests did not cross there is one row, and whoever is about
\* to write a row of the two writes that one.
OneRow ==
  \A i \in Ids : row[i] # None /\ Pair(row[i]) \notin crossed =>
    /\ \A j \in Ids : row[j] # None /\ Pair(row[j]) = Pair(row[i]) => i = j
    /\ \A c \in Calls : Deciding(c) /\ Pair(call[c].entity) = Pair(row[i]) => call[c].id = i

\* A message is its sender's, to someone who agreed, and was sent to nobody else
\* but whom an edit named.
Honest(d) ==
  /\ d.text = d.sender /\ Both(d.sender, d.receiver)
  /\ d.reached \ d.named \subseteq {d.sender, d.receiver}

Consent ==
  /\ \A i \in Ids : row[i] # None => Asked(row[i])
  /\ \A c \in Calls : Deciding(c) => Fair(call[c])
  /\ \A c \in Calls : call[c] # None /\ call[c].pc = "deliver" =>
       Both(call[c].user, call[c].receiver)
  /\ \A m \in Messages : message[m] # None => Honest(message[m])
  /\ \A u \in Users : live[u] # None => \A v \in live[u] : Both(u, v)

Good == Shape /\ Unique /\ Consent /\ Same /\ OneRow /\ FriendsWantIt

(***************************************************************************)
(* Types.                                                                  *)
(***************************************************************************)

LEMMA NothingIsNull ==
  /\ None \notin Users /\ None \notin Ids /\ None \notin Friendship /\ None \notin Message
  /\ None \notin Call
  BY NoneAssumption

LEMMA CallTypes ==
  ASSUME NEW l \in Call
  PROVE  /\ l.pc \in {"save", "write", "delete", "deliver"} /\ l.user \in Users
         /\ l.pc \in {"save", "write"} =>
              l.id \in Ids /\ l.entity \in Friendship /\ l.read \in Friendship \cup {None}
         /\ l.pc = "write" => l.found \in Friendship \cup {None}
         /\ l.pc = "delete" => l.id \in Ids
         /\ l.pc = "deliver" => l.receiver \in Users
  BY DEF Call

LEMMA Locals ==
  ASSUME Shape, NEW c \in Calls, call[c] # None
  PROVE  call[c] \in Call
  BY DEF Shape

\* Between two users rows go one way or the other.
LEMMA TwoWays ==
  ASSUME NEW f, NEW g, f.requester # f.addressee, Pair(f) = Pair(g)
  PROVE  /\ g.requester # g.addressee
         /\ \/ f.requester = g.requester /\ f.addressee = g.addressee
            \/ f.requester = g.addressee /\ f.addressee = g.requester
  BY DEF Pair

LEMMA GoodInit == Init => Good
  <1> SUFFICES ASSUME Init PROVE Good
    OBVIOUS
  <1>1. Shape
    BY NothingIsNull DEF Init, Shape
  <1>2. \A c \in Calls : ~ Deciding(c)
    BY DEF Init, Deciding
  <1>3. Unique /\ Same /\ OneRow /\ FriendsWantIt
    BY <1>2 DEF Init, Unique, Same, OneRow, FriendsWantIt
  <1>4. Consent
    BY <1>2 DEF Init, Consent
  <1> QED BY <1>1, <1>3, <1>4 DEF Good

(***************************************************************************)
(* A handler goes on, or ends, and writes nothing.                         *)
(***************************************************************************)

\* A handler with locals l fits the rows and the other handlers.
Fits(l) ==
  /\ row[l.id] # None => Pair(row[l.id]) = Pair(l.entity)
  /\ \A d \in Calls : Deciding(d) /\ call[d].id = l.id => Pair(call[d].entity) = Pair(l.entity)
  /\ \A i \in Ids : row[i] # None /\ Pair(row[i]) \notin crossed /\ Pair(l.entity) = Pair(row[i])
                     => l.id = i

LEMMA GoesOn ==
  ASSUME Good, NEW c \in Calls, NEW l \in Call, call' = [call EXCEPT ![c] = l],
         UNCHANGED <<row, message, live, history>>,
         l.pc \in {"save", "write"} => Fair(l) /\ Fits(l),
         l.pc = "deliver" => Both(l.user, l.receiver)
  PROVE  Good'
  <1>0. Shape /\ Unique /\ Consent /\ Same /\ OneRow /\ FriendsWantIt
    BY DEF Good
  <1>1. l # None /\ call'[c] = l /\ \A d \in Calls \ {c} : call'[d] = call[d]
    BY <1>0, NothingIsNull DEF Shape
  <1>2. UNCHANGED <<row, message, live, wanted, asked, overtaken, crossed>>
    BY DEF history
  <1>3. Shape'
    BY <1>0, <1>2 DEF Shape
  <1>4. Unique' /\ FriendsWantIt'
    BY <1>0, <1>2 DEF Unique, FriendsWantIt
  <1>5. \A d \in Calls \ {c} : Deciding(d)' <=> Deciding(d)
    BY <1>1 DEF Deciding
  <1>6. Deciding(c)' <=> l.pc \in {"save", "write"}
    BY <1>1 DEF Deciding
  <1>7. Consent'
    <2>1. \A d \in Calls : Deciding(d)' => Fair(call[d])'
      <3>1. Deciding(c)' => Fair(call[c])'
        BY <1>1, <1>2, <1>6 DEF Fair
      <3>2. \A d \in Calls \ {c} : Deciding(d)' => Fair(call[d])'
        BY <1>0, <1>1, <1>2, <1>5 DEF Consent, Fair
      <3> QED BY <3>1, <3>2
    <2>2. \A d \in Calls : call'[d] # None /\ call'[d].pc = "deliver" =>
            Both(call'[d].user, call'[d].receiver)
      BY <1>0, <1>1 DEF Consent
    <2> QED BY <1>0, <1>2, <2>1, <2>2 DEF Consent, Both, Asked, Honest
  <1>8. Same'
    <2>1. \A d \in Calls : Deciding(d)' /\ row[call'[d].id] # None =>
            Pair(row[call'[d].id]) = Pair(call'[d].entity)
      BY <1>0, <1>1, <1>5, <1>6 DEF Same, Fits
    <2>2. \A d, k \in Calls : Deciding(d)' /\ Deciding(k)' /\ call'[d].id = call'[k].id =>
            Pair(call'[d].entity) = Pair(call'[k].entity)
      BY <1>0, <1>1, <1>5, <1>6 DEF Same, Fits
    <2> QED BY <1>2, <2>1, <2>2 DEF Same, Pair
  <1>9. OneRow'
    <2>1. ASSUME NEW i \in Ids, row[i] # None, Pair(row[i]) \notin crossed,
                 NEW d \in Calls, Deciding(d)', Pair(call'[d].entity) = Pair(row[i])
          PROVE  call'[d].id = i
      <3>1. CASE d = c
        BY <1>1, <1>6, <2>1, <3>1 DEF Fits
      <3>2. CASE d # c
        BY <1>0, <1>1, <1>5, <2>1, <3>2 DEF OneRow
      <3> QED BY <3>1, <3>2
    <2>2. ASSUME NEW i \in Ids, (row[i] # None /\ Pair(row[i]) \notin crossed)'
          PROVE  (/\ \A j \in Ids : row[j] # None /\ Pair(row[j]) = Pair(row[i]) => i = j
                  /\ \A d \in Calls : Deciding(d) /\ Pair(call[d].entity) = Pair(row[i])
                                         => call[d].id = i)'
      <3>1. row[i] # None /\ Pair(row[i]) \notin crossed
        BY <1>2, <2>2 DEF Pair
      <3>2. \A j \in Ids : row[j] # None /\ Pair(row[j]) = Pair(row[i]) => i = j
        BY <1>0, <3>1 DEF OneRow
      <3>3. \A d \in Calls : Deciding(d)' /\ Pair(call'[d].entity) = Pair(row[i])
                               => call'[d].id = i
        BY <2>1, <3>1
      <3> QED BY <1>2, <3>2, <3>3 DEF Pair
    <2> QED BY <2>2 DEF OneRow
  <1> QED BY <1>3, <1>4, <1>7, <1>8, <1>9 DEF Good

LEMMA Ends ==
  ASSUME Good, NEW c \in Calls, call' = [call EXCEPT ![c] = None],
         UNCHANGED <<row, message, live, history>>
  PROVE  Good'
  <1>0. Shape /\ Unique /\ Consent /\ Same /\ OneRow /\ FriendsWantIt
    BY DEF Good
  <1>1. call'[c] = None /\ \A d \in Calls \ {c} : call'[d] = call[d]
    BY <1>0 DEF Shape
  <1>2. UNCHANGED <<row, message, live, wanted, asked, overtaken, crossed>>
    BY DEF history
  <1>3. Shape'
    BY <1>0, <1>2 DEF Shape
  <1>4. Unique' /\ FriendsWantIt'
    BY <1>0, <1>2 DEF Unique, FriendsWantIt
  <1>5. \A d \in Calls : Deciding(d)' => Deciding(d) /\ call'[d] = call[d]
    BY <1>1 DEF Deciding
  <1>6. \A d \in Calls : Deciding(d)' => Fair(call[d])'
    BY <1>0, <1>2, <1>5 DEF Consent, Fair
  <1>7. Consent'
    BY <1>0, <1>1, <1>2, <1>6 DEF Consent, Both, Asked, Honest
  <1>8. Same'
    <2>1. \A d \in Calls : Deciding(d)' /\ row[call'[d].id] # None =>
            Pair(row[call'[d].id]) = Pair(call'[d].entity)
      BY <1>0, <1>5 DEF Same
    <2>2. \A d, k \in Calls : Deciding(d)' /\ Deciding(k)' /\ call'[d].id = call'[k].id =>
            Pair(call'[d].entity) = Pair(call'[k].entity)
      BY <1>0, <1>5 DEF Same
    <2> QED BY <1>2, <2>1, <2>2 DEF Same, Pair
  <1>9. OneRow'
    <2>1. \A i \in Ids : row[i] # None /\ Pair(row[i]) \notin crossed =>
            \A d \in Calls : Deciding(d)' /\ Pair(call'[d].entity) = Pair(row[i])
                                 => call'[d].id = i
      BY <1>0, <1>5 DEF OneRow
    <2>2. ASSUME NEW i \in Ids, (row[i] # None /\ Pair(row[i]) \notin crossed)'
          PROVE  (/\ \A j \in Ids : row[j] # None /\ Pair(row[j]) = Pair(row[i]) => i = j
                  /\ \A d \in Calls : Deciding(d) /\ Pair(call[d].entity) = Pair(row[i])
                                         => call[d].id = i)'
      <3>1. row[i] # None /\ Pair(row[i]) \notin crossed
        BY <1>2, <2>2 DEF Pair
      <3>2. \A j \in Ids : row[j] # None /\ Pair(row[j]) = Pair(row[i]) => i = j
        BY <1>0, <3>1 DEF OneRow
      <3>3. \A d \in Calls : Deciding(d)' /\ Pair(call'[d].entity) = Pair(row[i])
                               => call'[d].id = i
        BY <2>1, <3>1
      <3> QED BY <1>2, <3>2, <3>3 DEF Pair
    <2> QED BY <2>2 DEF OneRow
  <1> QED BY <1>3, <1>4, <1>7, <1>8, <1>9 DEF Good

(***************************************************************************)
(* The handlers that begin.                                                *)
(***************************************************************************)

LEMMA SaveNewIsGood ==
  ASSUME Good, NEW c \in Calls, NEW u \in Users, NEW v \in Users, SendNew(c, u, v)
  PROVE  Good'
  <1>0. Shape /\ Same /\ OneRow
    BY DEF Good
  <1>1. PICK i \in Fresh :
          Save(c, u, i, [requester |-> u, addressee |-> v, status |-> "PENDING"])
    BY DEF SendNew
  <1>2. PICK e \in Friendship : e = [requester |-> u, addressee |-> v, status |-> "PENDING"]
    BY DEF Friendship
  <1>3. /\ i \in Ids /\ row[i] = None /\ u # v /\ Between(u, v) = {}
        /\ \A d \in Calls : Deciding(d) => call[d].id # i
    BY <1>1 DEF Fresh, SendNew, Deciding
  <1>4. PICK l \in Call : l = [pc |-> "save", user |-> u, id |-> i, read |-> None, entity |-> e]
    BY <1>2, <1>3 DEF Call
  <1>5. call' = [call EXCEPT ![c] = l] /\ UNCHANGED <<row, message, live, history>>
    BY <1>1, <1>2, <1>3, <1>4 DEF Save, Begin
  <1>6. l.pc = "save" /\ l.id = i /\ l.entity = e /\ l.user = u
    BY <1>4
  <1>7. e.status = "PENDING" /\ e.requester = u /\ e.addressee = v /\ Pair(e) = {u, v}
    BY <1>2 DEF Pair
  <1>8. Fair(l)
    BY <1>3, <1>6, <1>7 DEF Fair
  <1>9. \A j \in Ids : row[j] # None => Pair(row[j]) # Pair(e)
    BY <1>3, <1>7 DEF Between
  <1>10. Fits(l)
    BY <1>3, <1>6, <1>9 DEF Fits
  <1> QED BY <1>5, <1>6, <1>8, <1>10, GoesOn

\* The handlers that decide on a row they read.
LEMMA SaveReadIsGood ==
  ASSUME Good, NEW c \in Calls, NEW u \in Users, NEW i \in Ids, row[i] # None,
         NEW e \in Friendship, Save(c, u, i, e), Pair(e) = Pair(row[i]),
         \/ e.status = "PENDING" /\ e.requester = u
         \/ /\ row[i].status = "PENDING" /\ e.status \in {"ACCEPTED", "REJECTED"}
            /\ e.requester = row[i].requester
            /\ e.addressee = row[i].addressee /\ e.addressee = u
  PROVE  Good'
  <1>0. Shape /\ Consent /\ Same /\ OneRow
    BY DEF Good
  <1>1. row[i] \in Friendship /\ Asked(row[i])
    BY <1>0 DEF Shape, Consent
  <1>2. PICK l \in Call : l = [pc |-> "save", user |-> u, id |-> i, read |-> row[i], entity |-> e]
    BY <1>1 DEF Call
  <1>3. call' = [call EXCEPT ![c] = l] /\ UNCHANGED <<row, message, live, history>>
    BY <1>2 DEF Save, Begin
  <1>4. l.pc = "save" /\ l.id = i /\ l.entity = e /\ l.user = u /\ l.read = row[i]
    BY <1>2
  <1>5. row[i].requester # row[i].addressee /\ e.requester # e.addressee
    BY <1>1, TwoWays DEF Asked
  <1>6. Fair(l)
    BY <1>1, <1>4, <1>5 DEF Fair, Asked
  <1>7. \A d \in Calls : Deciding(d) /\ call[d].id = i => Pair(call[d].entity) = Pair(e)
    BY <1>0 DEF Same
  <1>8. \A j \in Ids : row[j] # None /\ Pair(row[j]) \notin crossed /\ Pair(e) = Pair(row[j])
          => i = j
    BY <1>0 DEF OneRow
  <1>9. Fits(l)
    BY <1>4, <1>7, <1>8 DEF Fits
  <1> QED BY <1>3, <1>4, <1>6, <1>9, GoesOn

LEMMA BeginIsGood ==
  ASSUME Good, NEW c \in Calls, NEW u \in Users, NEW v \in Users,
         \/ SendNew(c, u, v) \/ SendAccepts(c, u, v) \/ SendAgain(c, u, v)
         \/ SendDm(c, u, v) \/ RespondToRequest(c, u) \/ RemoveFriendship(c, u)
  PROVE  Good'
  <1>0. Shape /\ Consent
    BY DEF Good
  <1>1. CASE SendNew(c, u, v)
    BY <1>1, SaveNewIsGood
  <1>2. CASE SendAccepts(c, u, v)
    <2>1. PICK i \in Between(u, v) :
            /\ row[i].status = "PENDING" /\ row[i].addressee = u
            /\ Save(c, u, i, [row[i] EXCEPT !.status = "ACCEPTED"])
      BY <1>2 DEF SendAccepts
    <2>2. i \in Ids /\ row[i] # None /\ row[i] \in Friendship
      BY <1>0 DEF Between, Shape
    <2>3. PICK e \in Friendship : e = [row[i] EXCEPT !.status = "ACCEPTED"]
      BY <2>2 DEF Friendship
    <2>4. e.requester = row[i].requester /\ e.addressee = row[i].addressee /\ e.status = "ACCEPTED"
      BY <2>2, <2>3 DEF Friendship
    <2>5. Pair(e) = Pair(row[i])
      BY <2>4 DEF Pair
    <2> QED BY <2>1, <2>2, <2>3, <2>4, <2>5, SaveReadIsGood
  <1>3. CASE SendAgain(c, u, v)
    <2>1. PICK i \in Between(u, v) :
             Save(c, u, i, [requester |-> u, addressee |-> v, status |-> "PENDING"])
      BY <1>3 DEF SendAgain
    <2>2. i \in Ids /\ row[i] # None /\ Pair(row[i]) = {u, v}
      BY DEF Between
    <2>3. PICK e \in Friendship : e = [requester |-> u, addressee |-> v, status |-> "PENDING"]
      BY DEF Friendship
    <2>4. e.requester = u /\ e.status = "PENDING" /\ Pair(e) = {u, v}
      BY <2>3 DEF Pair
    <2> QED BY <2>1, <2>2, <2>3, <2>4, SaveReadIsGood
  <1>4. CASE SendDm(c, u, v)
    <2>1. PICK l \in Call : l = [pc |-> "deliver", user |-> u, receiver |-> v]
      BY DEF Call
    <2>2. /\ call' = [call EXCEPT ![c] = l] /\ UNCHANGED <<row, message, live, history>>
          /\ "FRIENDS" \in Status(u, v)
      BY <1>4, <2>1 DEF SendDm, Begin
    <2>3. PICK i \in Between(u, v) : row[i].status = "ACCEPTED"
      BY <2>2 DEF Status, Told
    <2>4. Asked(row[i]) /\ Pair(row[i]) = {u, v}
      BY <1>0 DEF Between, Consent
    <2>5. Both(u, v)
      BY <2>3, <2>4 DEF Asked, Both, Pair
    <2>6. l.pc = "deliver" /\ l.user = u /\ l.receiver = v
      BY <2>1
    <2> QED BY <2>2, <2>5, <2>6, GoesOn
  <1>5. CASE RespondToRequest(c, u)
    <2>1. PICK i \in Ids : /\ row[i] # None
                           /\ row[i].addressee = u /\ row[i].status = "PENDING"
                           /\ \E answer \in {"ACCEPTED", "REJECTED"} :
                                Save(c, u, i, [row[i] EXCEPT !.status = answer])
      BY <1>5 DEF RespondToRequest
    <2>2. PICK answer \in {"ACCEPTED", "REJECTED"} :
             Save(c, u, i, [row[i] EXCEPT !.status = answer])
      BY <2>1
    <2>3. row[i] \in Friendship
      BY <1>0, <2>1 DEF Shape
    <2>4. PICK e \in Friendship : e = [row[i] EXCEPT !.status = answer]
      BY <2>3 DEF Friendship
    <2>5. e.requester = row[i].requester /\ e.addressee = row[i].addressee /\ e.status = answer
      BY <2>3, <2>4 DEF Friendship
    <2>6. Pair(e) = Pair(row[i])
      BY <2>5 DEF Pair
    <2> QED BY <2>1, <2>2, <2>4, <2>5, <2>6, SaveReadIsGood
  <1>6. CASE RemoveFriendship(c, u)
    <2>1. PICK i \in Ids : Begin(c, [pc |-> "delete", user |-> u, id |-> i])
      BY <1>6 DEF RemoveFriendship
    <2>2. PICK l \in Call : l = [pc |-> "delete", user |-> u, id |-> i]
      BY DEF Call
    <2>3. call' = [call EXCEPT ![c] = l] /\ UNCHANGED <<row, message, live, history>>
      BY <2>1, <2>2 DEF Begin
    <2>4. l.pc = "delete"
      BY <2>2
    <2> QED BY <2>3, <2>4, GoesOn
  <1> QED BY <1>1, <1>2, <1>3, <1>4, <1>5, <1>6

LEMMA LookUpIsGood ==
  ASSUME Good, NEW c \in Calls, LookUp(c)
  PROVE  Good'
  <1>0. Shape /\ Consent /\ Same /\ OneRow
    BY DEF Good
  <1>1. PICK k : k = call[c]
    OBVIOUS
  <1>2. k # None /\ k.pc = "save" /\ k \in Call /\ Deciding(c)
    BY <1>0, <1>1, Locals DEF LookUp, Deciding
  <1>3. k.user \in Users /\ k.id \in Ids /\ k.entity \in Friendship /\ k.read \in Friendship \cup {None}
    BY <1>2, CallTypes
  <1>4. row[k.id] \in Friendship \cup {None}
    BY <1>0, <1>3 DEF Shape
  <1>5. PICK l \in Call : l = [pc |-> "write", user |-> k.user, id |-> k.id, read |-> k.read,
                               entity |-> k.entity, found |-> row[k.id]]
    BY <1>3, <1>4 DEF Call
  <1>6. call' = [call EXCEPT ![c] = l] /\ UNCHANGED <<row, message, live, history>>
    BY <1>1, <1>5 DEF LookUp
  <1>7. /\ l.pc = "write" /\ l.user = k.user /\ l.id = k.id /\ l.read = k.read
        /\ l.entity = k.entity /\ l.found = row[k.id]
    BY <1>5
  <1>8. Fair(k) /\ Fits(k)
    <2>1. Fair(k)
      BY <1>0, <1>1, <1>2 DEF Consent
    <2>2. row[k.id] # None => Pair(row[k.id]) = Pair(k.entity)
      BY <1>0, <1>1, <1>2 DEF Same
    <2>3. \A d \in Calls : Deciding(d) /\ call[d].id = k.id => Pair(call[d].entity) = Pair(k.entity)
      BY <1>0, <1>1, <1>2 DEF Same
    <2>4. ASSUME NEW i \in Ids, row[i] # None, Pair(row[i]) \notin crossed,
                 Pair(k.entity) = Pair(row[i])
          PROVE  k.id = i
      BY <1>0, <1>1, <1>2, <2>4 DEF OneRow
    <2> QED BY <2>1, <2>2, <2>3, <2>4 DEF Fits
  <1>r. row[k.id] # None => row[k.id].requester # row[k.id].addressee
    BY <1>0, <1>3 DEF Consent, Asked
  <1>9. Fair(l)
    BY <1>7, <1>8, <1>r DEF Fair, Fits
  <1>10. Fits(l)
    BY <1>7, <1>8 DEF Fits
  <1> QED BY <1>6, <1>9, <1>10, <1>7, GoesOn

(***************************************************************************)
(* A handler writes the row.                                               *)
(***************************************************************************)

LEMMA PutIsGood ==
  ASSUME Good, NEW c \in Calls, NEW k, k = call[c], k # None, k.pc = "write",
         NEW f \in Friendship, Put(c, f), Pair(f) = Pair(k.entity),
         (k.found = None) <=> (row[k.id] = None),
         Asked(f)',
         k.id \notin overtaken' => /\ f.requester \in wanted'[k.id]
                                   /\ f.status = "ACCEPTED" => f.addressee \in wanted'[k.id]
  PROVE  Good'
  <1>0. Shape /\ Unique /\ Consent /\ Same /\ OneRow /\ FriendsWantIt
    BY DEF Good
  <1>1. k \in Call /\ Deciding(c)
    BY <1>0, Locals DEF Deciding
  <1>2. k.user \in Users /\ k.id \in Ids /\ k.entity \in Friendship
    BY <1>1, CallTypes
  <1>3. PICK i \in Ids : i = k.id
    BY <1>2
  <1>4. /\ row' = [row EXCEPT ![i] = f] /\ wanted' = [wanted EXCEPT ![i] = Wanting(k)]
        /\ asked' = asked \cup {<<k.user, v>> : v \in IF k.entity.status = "REJECTED" THEN {}
                                                      ELSE Pair(f) \ {k.user}}
        /\ overtaken' = Overtaking(k)
        /\ crossed' = IF k.found = None /\ Crossing(c, f) THEN crossed \cup {Pair(f)} ELSE crossed
        /\ call' = [call EXCEPT ![c] = None]
        /\ message' = message /\ live' = live
        /\ Free(i, f)
    BY <1>3 DEF Put
  <1>5. /\ row'[i] = f /\ \A j \in Ids \ {i} : row'[j] = row[j] /\ wanted'[j] = wanted[j]
        /\ call'[c] = None /\ \A d \in Calls \ {c} : call'[d] = call[d]
        /\ f # None
    BY <1>0, <1>4, NothingIsNull DEF Shape
  <1>6. asked \subseteq asked' /\ crossed \subseteq crossed'
    BY <1>4
  <1>7. f.requester \in Users /\ f.addressee \in Users /\ Pair(f) \subseteq Users
    BY DEF Friendship, Pair
  <1>8. Shape'
    <2>1. row' \in [Ids -> Friendship \cup {None}] /\ call' \in [Calls -> Call \cup {None}]
      BY <1>0, <1>4 DEF Shape
    <2>2. wanted' \in [Ids -> SUBSET Users]
      BY <1>0, <1>2, <1>3, <1>4 DEF Shape, Wanting
    <2>3. asked' \subseteq Users \X Users
      BY <1>0, <1>2, <1>4, <1>7 DEF Shape
    <2>4. overtaken' \subseteq Ids
      BY <1>0, <1>2, <1>4 DEF Shape, Overtaking
    <2>5. crossed' \subseteq SUBSET Users
      BY <1>0, <1>4, <1>7 DEF Shape
    <2> QED BY <1>0, <1>4, <2>1, <2>2, <2>3, <2>4, <2>5 DEF Shape
  <1>9. Unique'
    BY <1>0, <1>4, <1>5 DEF Unique, Free
  <1>10. \A d \in Calls : Deciding(d)' => d # c /\ Deciding(d) /\ call'[d] = call[d]
    BY <1>5 DEF Deciding
  <1>11. Consent'
    <2>1. \A j \in Ids : row'[j] # None => Asked(row[j])'
      BY <1>0, <1>5, <1>6 DEF Consent, Asked
    <2>2. \A d \in Calls : Deciding(d)' => Fair(call[d])'
      BY <1>0, <1>6, <1>10 DEF Consent, Fair
    <2>3. \A d \in Calls : call'[d] # None /\ call'[d].pc = "deliver" =>
            Both(call[d].user, call[d].receiver)'
      BY <1>0, <1>5, <1>6 DEF Consent, Both
    <2>4. \A m \in Messages : message'[m] # None => Honest(message[m])'
      BY <1>0, <1>4, <1>6 DEF Consent, Both, Honest
    <2>5. \A u \in Users : live'[u] # None => \A v \in live'[u] : Both(u, v)'
      BY <1>0, <1>4, <1>6 DEF Consent, Both
    <2> QED BY <2>1, <2>2, <2>3, <2>4, <2>5 DEF Consent
  <1>12. Same'
    <2>1. ASSUME NEW d \in Calls, Deciding(d)', row'[call'[d].id] # None
          PROVE  Pair(row'[call'[d].id]) = Pair(call'[d].entity)
      <3>1. Deciding(d) /\ call'[d] = call[d] /\ call[d].id \in Ids
        BY <1>0, <1>10, <2>1, Locals, CallTypes DEF Deciding
      <3>2. CASE call[d].id = i
        <4>1. Pair(call[d].entity) = Pair(k.entity)
          BY <1>0, <1>1, <1>3, <3>1, <3>2 DEF Same
        <4> QED BY <1>5, <3>1, <3>2, <4>1
      <3>3. CASE call[d].id # i
        BY <1>0, <1>5, <2>1, <3>1, <3>3 DEF Same
      <3> QED BY <3>2, <3>3
    <2>2. \A d, g \in Calls : Deciding(d)' /\ Deciding(g)' /\ call'[d].id = call'[g].id =>
            Pair(call'[d].entity) = Pair(call'[g].entity)
      BY <1>0, <1>10 DEF Same
    <2> QED BY <2>1, <2>2 DEF Same, Pair
  <1>13. OneRow'
    <2>1. ASSUME NEW j \in Ids \ {i}, row[j] # None, Pair(row[j]) = Pair(f)
          PROVE  Pair(f) \in crossed
      BY <1>0, <1>1, <1>3, <2>1 DEF OneRow
    <2>2. ASSUME Pair(f) \notin crossed', NEW d \in Calls \ {c}, Deciding(d),
                 Pair(call[d].entity) = Pair(f)
          PROVE  call[d].id = i
      <3>1. CASE k.found = None
        BY <1>4, <2>2, <3>1 DEF Crossing, Deciding
      <3>2. CASE k.found # None
        <4>1. row[i] # None /\ Pair(row[i]) = Pair(f)
          BY <1>0, <1>1, <1>3, <3>2 DEF Same
        <4> QED BY <1>0, <1>6, <2>2, <4>1 DEF OneRow
      <3> QED BY <3>1, <3>2
    <2>3. ASSUME NEW j \in Ids, row'[j] # None, Pair(row'[j]) \notin crossed'
          PROVE  /\ \A g \in Ids : row'[g] # None /\ Pair(row'[g]) = Pair(row'[j]) => j = g
                 /\ \A d \in Calls : Deciding(d)' /\ Pair(call'[d].entity) = Pair(row'[j])
                                       => call'[d].id = j
      <3>1. CASE j = i
        BY <1>5, <1>6, <1>10, <2>1, <2>2, <2>3, <3>1
      <3>2. CASE j # i
        <4>1. row[j] # None /\ Pair(row[j]) \notin crossed /\ row'[j] = row[j]
          BY <1>5, <1>6, <2>3, <3>2
        <4>2. Pair(f) # Pair(row[j])
          BY <2>1, <3>2, <4>1
        <4>3. \A g \in Ids : row'[g] # None /\ Pair(row'[g]) = Pair(row'[j]) => j = g
          BY <1>0, <1>5, <4>1, <4>2 DEF OneRow
        <4>4. \A d \in Calls : Deciding(d)' /\ Pair(call'[d].entity) = Pair(row'[j])
                                       => call'[d].id = j
          BY <1>0, <1>10, <4>1 DEF OneRow
        <4> QED BY <4>3, <4>4
      <3> QED BY <3>1, <3>2
    <2> QED BY <2>3 DEF OneRow, Pair
  <1>14. FriendsWantIt'
    <2>1. ASSUME NEW j \in Ids \ overtaken', row'[j] # None
          PROVE  /\ row'[j].requester \in wanted'[j]
                 /\ row'[j].status = "ACCEPTED" => row'[j].addressee \in wanted'[j]
      <3>1. CASE j = i
        BY <1>3, <1>5, <2>1, <3>1
      <3>2. CASE j # i
        <4>1. j \notin overtaken
          BY <1>3, <1>4, <2>1, <3>2 DEF Overtaking
        <4> QED BY <1>0, <1>5, <2>1, <3>2, <4>1 DEF FriendsWantIt
      <3> QED BY <3>1, <3>2
    <2> QED BY <2>1 DEF FriendsWantIt
  <1> QED BY <1>8, <1>9, <1>11, <1>12, <1>13, <1>14 DEF Good

\* What is asked for once the handler with locals k has saved.
LEMMA AskedFor ==
  ASSUME Good, NEW c \in Calls, NEW k, k = call[c], k # None, k.pc = "write",
         NEW f, Put(c, f), Pair(f) = Pair(k.entity)
  PROVE  /\ <<k.entity.requester, k.entity.addressee>> \in asked'
         /\ k.entity.status = "ACCEPTED" =>
              <<k.entity.addressee, k.entity.requester>> \in asked'
  <1>1. Fair(k)
    BY DEF Good, Consent, Deciding
  <1>2. asked' = asked \cup {<<k.user, v>> : v \in IF k.entity.status = "REJECTED" THEN {}
                                                    ELSE Pair(k.entity) \ {k.user}}
    BY DEF Put
  <1>3. CASE k.entity.status = "PENDING" /\ k.entity.requester = k.user
    <2>1. k.entity.addressee \in Pair(k.entity) \ {k.user}
      BY <1>1, <1>3 DEF Fair, Pair
    <2> QED BY <1>2, <1>3, <2>1
  <1>4. CASE /\ <<k.entity.requester, k.entity.addressee>> \in asked
             /\ k.entity.status \in {"ACCEPTED", "REJECTED"} /\ k.entity.addressee = k.user
    <2>1. k.entity.requester \in Pair(k.entity) \ {k.user}
      BY <1>1, <1>4 DEF Fair, Pair
    <2> QED BY <1>2, <1>4, <2>1
  <1> QED BY <1>1, <1>3, <1>4 DEF Fair

LEMMA InsertIsGood ==
  ASSUME Good, NEW c \in Calls, Insert(c)
  PROVE  Good'
  <1>0. Shape /\ Consent
    BY DEF Good
  <1>1. PICK k : k = call[c]
    OBVIOUS
  <1>2. k # None /\ k.pc = "write" /\ k \in Call /\ k.found = None /\ row[k.id] = None
    BY <1>0, <1>1, Locals DEF Insert, Writing
  <1>3. k.id \in Ids /\ k.entity \in Friendship /\ k.user \in Users
    BY <1>2, CallTypes
  <1>4. PICK f \in Friendship : f = k.entity
    BY <1>3
  <1>5. Put(c, f) /\ Pair(f) = Pair(k.entity)
    BY <1>1, <1>4 DEF Insert
  <1>6. Fair(k)
    BY <1>0, <1>1, <1>2 DEF Consent, Deciding
  <1>7. Asked(f)'
    <2>1. <<f.requester, f.addressee>> \in asked'
            /\ (f.status = "ACCEPTED" => <<f.addressee, f.requester>> \in asked')
      BY <1>1, <1>2, <1>4, <1>5, AskedFor
    <2> QED BY <1>4, <1>6, <2>1 DEF Asked, Fair
  <1>8. ASSUME k.id \notin overtaken'
        PROVE  /\ f.requester \in wanted'[k.id]
               /\ f.status = "ACCEPTED" => f.addressee \in wanted'[k.id]
    <2>1. overtaken' = Overtaking(k) /\ wanted' = [wanted EXCEPT ![k.id] = Wanting(k)]
      BY <1>1, <1>5 DEF Put
    <2>2. k.read = None
      BY <1>2, <1>8, <2>1 DEF Overtaking
    <2>3. f.status = "PENDING" /\ f.requester = k.user
      BY <1>4, <1>6, <2>2 DEF Fair
    <2>4. wanted'[k.id] = wanted[k.id] \cup {k.user}
      BY <1>0, <1>3, <1>4, <2>1, <2>3 DEF Shape, Wanting
    <2> QED BY <2>3, <2>4
  <1> QED BY <1>1, <1>2, <1>5, <1>7, <1>8, PutIsGood

LEMMA UpdateIsGood ==
  ASSUME Good, NEW c \in Calls, Update(c)
  PROVE  Good'
  <1>0. Shape /\ Consent /\ Same /\ FriendsWantIt
    BY DEF Good
  <1>1. PICK k : k = call[c]
    OBVIOUS
  <1>2. k # None /\ k.pc = "write" /\ k \in Call /\ k.found # None /\ row[k.id] # None
    BY <1>0, <1>1, Locals DEF Update, Writing
  <1>3. /\ k.id \in Ids /\ k.entity \in Friendship /\ k.user \in Users /\ k.found \in Friendship
        /\ row[k.id] \in Friendship
    BY <1>0, <1>2, CallTypes DEF Shape
  <1>4. PICK e, g, r \in Friendship : e = k.entity /\ g = k.found /\ r = row[k.id]
    BY <1>3
  <1>5. /\ Fair(k) /\ Asked(r)
        /\ Pair(r) = Pair(e) /\ Pair(g) = Pair(e) /\ e.requester # e.addressee
    <2>1. Deciding(c)
      BY <1>1, <1>2 DEF Deciding
    <2>2. Fair(k) /\ Asked(r)
      BY <1>0, <1>1, <1>2, <1>3, <1>4, <2>1 DEF Consent
    <2>3. Pair(r) = Pair(e)
      BY <1>0, <1>1, <1>2, <1>4, <2>1 DEF Same
    <2> QED BY <1>2, <1>4, <2>2, <2>3 DEF Fair
  <1>6. PICK f \in Friendship :
          /\ f = Updated(k)
          /\ \/ f.requester = e.requester /\ f.addressee = e.addressee
             \/ f.requester = r.requester /\ f.addressee = r.addressee
          /\ f.status = e.status \/ f.status = r.status
          /\ g = r => /\ f.requester = e.requester /\ f.addressee = e.addressee
                      /\ f.status = e.status
    <2>1. Updated(k) = [requester |-> Column(e.requester, g.requester, r.requester),
                        addressee |-> Column(e.addressee, g.addressee, r.addressee),
                        status |-> Column(e.status, g.status, r.status)]
      BY <1>4 DEF Updated
    <2>2. PICK f : f = Updated(k)
      OBVIOUS
    <2>3. /\ f \in Friendship
          /\ f.requester = Column(e.requester, g.requester, r.requester)
          /\ f.addressee = Column(e.addressee, g.addressee, r.addressee)
          /\ f.status = Column(e.status, g.status, r.status)
      BY <2>1, <2>2 DEF Column, Friendship
    <2>4. \/ g.requester = e.requester /\ g.addressee = e.addressee
          \/ g.requester = e.addressee /\ g.addressee = e.requester
      BY <1>5, TwoWays
    <2> QED BY <1>5, <2>2, <2>3, <2>4 DEF Column
  <1>7. /\ r.requester # r.addressee
        /\ \/ e.requester = r.requester /\ e.addressee = r.addressee
           \/ e.requester = r.addressee /\ e.addressee = r.requester
    BY <1>5, TwoWays
  <1>8. Put(c, f) /\ Pair(f) = Pair(k.entity)
    BY <1>1, <1>4, <1>5, <1>6 DEF Update, Pair
  <1>9. Asked(f)'
    <2>1. <<e.requester, e.addressee>> \in asked'
            /\ (e.status = "ACCEPTED" => <<e.addressee, e.requester>> \in asked')
      BY <1>1, <1>2, <1>4, <1>8, AskedFor
    <2>2. asked \subseteq asked'
      BY <1>8 DEF Put
    <2>3. <<r.requester, r.addressee>> \in asked'
            /\ (r.status = "ACCEPTED" => <<r.addressee, r.requester>> \in asked')
      BY <1>5, <2>2 DEF Asked
    <2>4. f.requester # f.addressee /\ <<f.requester, f.addressee>> \in asked'
      BY <1>5, <1>6, <1>7, <2>1, <2>3
    <2>5. ASSUME f.status = "ACCEPTED" PROVE <<f.addressee, f.requester>> \in asked'
      <3>1. CASE e.status = "ACCEPTED"
        BY <1>6, <1>7, <2>1, <3>1
      <3>2. CASE r.status = "ACCEPTED"
        BY <1>6, <1>7, <2>3, <3>2
      <3> QED BY <1>6, <2>5, <3>1, <3>2
    <2> QED BY <2>4, <2>5 DEF Asked
  <1>10. ASSUME k.id \notin overtaken'
         PROVE  /\ f.requester \in wanted'[k.id]
                /\ f.status = "ACCEPTED" => f.addressee \in wanted'[k.id]
    <2>1. overtaken' = Overtaking(k) /\ wanted'[k.id] = Wanting(k)
      BY <1>0, <1>1, <1>3, <1>8 DEF Put, Shape
    <2>2. k.read = r /\ g = r /\ k.id \notin overtaken
      BY <1>2, <1>4, <1>10, <2>1 DEF Overtaking
    <2>3. f.requester = e.requester /\ f.addressee = e.addressee /\ f.status = e.status
      BY <1>6, <2>2
    <2>4. r.requester \in wanted[k.id]
      BY <1>0, <1>2, <1>3, <1>4, <2>2 DEF FriendsWantIt
    <2>5. CASE e.status = "PENDING" /\ e.requester = k.user
      BY <1>4, <2>1, <2>3, <2>5 DEF Wanting
    <2>6. CASE /\ e.status \in {"ACCEPTED", "REJECTED"} /\ e.requester = r.requester
               /\ e.addressee = k.user
      BY <1>4, <1>5, <2>1, <2>3, <2>4, <2>6 DEF Wanting
    <2> QED BY <1>4, <1>5, <2>2, <2>5, <2>6 DEF Fair
  <1>11. (k.found = None) <=> (row[k.id] = None)
    BY <1>2
  <1> QED BY <1>1, <1>2, <1>8, <1>9, <1>10, <1>11, PutIsGood

LEMMA DeleteIsGood ==
  ASSUME Good, NEW c \in Calls, Delete(c)
  PROVE  Good'
  <1>0. Shape /\ Unique /\ Consent /\ Same /\ OneRow /\ FriendsWantIt
    BY DEF Good
  <1>1. PICK i \in Ids : i = call[c].id
    BY <1>0, Locals, CallTypes DEF Delete
  <1>2. /\ row' = [row EXCEPT ![i] = None] /\ wanted' = [wanted EXCEPT ![i] = {}]
        /\ crossed' = IF row[i] = None THEN crossed
                      ELSE {p \in crossed : \E j \in Ids \ {i} : row[j] # None /\ Pair(row[j]) = p}
        /\ call' = [call EXCEPT ![c] = None]
        /\ UNCHANGED <<message, live, asked, overtaken>>
    BY <1>1 DEF Delete
  <1>3. /\ row'[i] = None /\ \A j \in Ids \ {i} : row'[j] = row[j] /\ wanted'[j] = wanted[j]
        /\ call'[c] = None /\ \A d \in Calls \ {c} : call'[d] = call[d]
    BY <1>0, <1>2 DEF Shape
  <1>4. Shape'
    BY <1>0, <1>2 DEF Shape
  <1>5. \A d \in Calls : Deciding(d)' => Deciding(d) /\ call'[d] = call[d]
    BY <1>3 DEF Deciding
  <1>6. \A j \in Ids : row'[j] # None => j # i /\ row'[j] = row[j] /\ wanted'[j] = wanted[j]
    BY <1>3
  <1>7. Unique' /\ FriendsWantIt'
    BY <1>0, <1>2, <1>6 DEF Unique, FriendsWantIt
  <1>8. Consent'
    <2>1. \A d \in Calls : Deciding(d)' => Fair(call[d])'
      BY <1>0, <1>2, <1>5 DEF Consent, Fair
    <2>2. \A j \in Ids : row'[j] # None => Asked(row[j])'
      BY <1>0, <1>2, <1>6 DEF Consent, Asked
    <2> QED BY <1>0, <1>2, <1>3, <2>1, <2>2 DEF Consent, Both, Honest
  <1>9. Same'
    <2>1. ASSUME NEW d \in Calls, Deciding(d)', row'[call'[d].id] # None
          PROVE  Pair(row'[call'[d].id]) = Pair(call'[d].entity)
      <3>1. Deciding(d) /\ call'[d] = call[d] /\ call[d].id \in Ids
        BY <1>0, <1>5, <2>1, Locals, CallTypes DEF Deciding
      <3> QED BY <1>0, <1>6, <2>1, <3>1 DEF Same
    <2>2. \A d, g \in Calls : Deciding(d)' /\ Deciding(g)' /\ call'[d].id = call'[g].id =>
            Pair(call'[d].entity) = Pair(call'[g].entity)
      BY <1>0, <1>5 DEF Same
    <2> QED BY <2>1, <2>2 DEF Same, Pair
  <1>10. OneRow'
    <2>1. ASSUME NEW j \in Ids, row'[j] # None, Pair(row'[j]) \notin crossed'
          PROVE  /\ \A g \in Ids : row'[g] # None /\ Pair(row'[g]) = Pair(row'[j]) => j = g
                 /\ \A d \in Calls : Deciding(d)' /\ Pair(call'[d].entity) = Pair(row'[j])
                                       => call'[d].id = j
      <3>1. j # i /\ row'[j] = row[j] /\ row[j] # None
        BY <1>6, <2>1
      <3>2. Pair(row[j]) \notin crossed
        BY <1>2, <2>1, <3>1
      <3>3. \A g \in Ids : row'[g] # None /\ Pair(row'[g]) = Pair(row'[j]) => j = g
        BY <1>0, <1>6, <3>1, <3>2 DEF OneRow
      <3>4. \A d \in Calls : Deciding(d)' /\ Pair(call'[d].entity) = Pair(row'[j])
                                       => call'[d].id = j
        BY <1>0, <1>5, <3>1, <3>2 DEF OneRow
      <3> QED BY <3>3, <3>4
    <2> QED BY <2>1 DEF OneRow, Pair
  <1> QED BY <1>4, <1>7, <1>8, <1>9, <1>10 DEF Good

(***************************************************************************)
(* Messages and streams.                                                   *)
(***************************************************************************)

\* A step that changes neither the rows nor a handler that decides on one.
LEMMA RowsStay ==
  ASSUME Good, UNCHANGED <<row, history>>,
         \A d \in Calls : Deciding(d)' => Deciding(d) /\ call'[d] = call[d],
         \A d \in Calls : call'[d] # None => call'[d] = call[d],
         message' \in [Messages -> Message \cup {None}],
         live' \in [Users -> (SUBSET Users) \cup {None}],
         call' \in [Calls -> Call \cup {None}],
         \A m \in Messages : message'[m] # None => Honest(message'[m]),
         \A u \in Users : live'[u] # None => \A v \in live'[u] : Both(u, v)
  PROVE  Good'
  <1>0. Shape /\ Unique /\ Consent /\ Same /\ OneRow /\ FriendsWantIt
    BY DEF Good
  <1>1. UNCHANGED <<row, wanted, asked, overtaken, crossed>>
    BY DEF history
  <1>2. Shape' /\ Unique' /\ FriendsWantIt'
    BY <1>0, <1>1 DEF Shape, Unique, FriendsWantIt
  <1>3. Consent'
    <2>1. \A d \in Calls : Deciding(d)' => Fair(call[d])'
      BY <1>0, <1>1 DEF Consent, Fair
    <2>2. \A i \in Ids : row'[i] # None => Asked(row[i])'
      BY <1>0, <1>1 DEF Consent, Asked
    <2> QED BY <1>0, <1>1, <2>1, <2>2 DEF Consent, Both, Honest
  <1>4. Same'
    <2>1. \A d \in Calls : Deciding(d)' /\ row[call'[d].id] # None =>
            Pair(row[call'[d].id]) = Pair(call'[d].entity)
      BY <1>0 DEF Same
    <2>2. \A d, k \in Calls : Deciding(d)' /\ Deciding(k)' /\ call'[d].id = call'[k].id =>
            Pair(call'[d].entity) = Pair(call'[k].entity)
      BY <1>0 DEF Same
    <2> QED BY <1>1, <2>1, <2>2 DEF Same, Pair
  <1>5. OneRow'
    <2>1. \A i \in Ids : row[i] # None /\ Pair(row[i]) \notin crossed =>
            \A d \in Calls : Deciding(d)' /\ Pair(call'[d].entity) = Pair(row[i])
                                 => call'[d].id = i
      BY <1>0 DEF OneRow
    <2>2. \A i \in Ids : row[i] # None /\ Pair(row[i]) \notin crossed =>
            \A j \in Ids : row[j] # None /\ Pair(row[j]) = Pair(row[i]) => i = j
      BY <1>0 DEF OneRow
    <2>3. SUFFICES ASSUME NEW i \in Ids, row'[i] # None, Pair(row[i])' \notin crossed'
                   PROVE  /\ \A j \in Ids : row'[j] # None /\ Pair(row[j])' = Pair(row[i])' => i = j
                          /\ \A d \in Calls : Deciding(d)' /\ Pair(call[d].entity)' = Pair(row[i])'
                                                 => call'[d].id = i
      BY DEF OneRow
    <2>4. row[i] # None /\ Pair(row[i]) \notin crossed
      BY <1>1, <2>3 DEF Pair
    <2>5. \A j \in Ids : row'[j] # None /\ Pair(row[j])' = Pair(row[i])' => i = j
      BY <1>1, <2>2, <2>4 DEF Pair
    <2>6. \A d \in Calls : Deciding(d)' /\ Pair(call[d].entity)' = Pair(row[i])'
                             => call'[d].id = i
      BY <1>1, <2>1, <2>4 DEF Pair
    <2> QED BY <2>5, <2>6
  <1> QED BY <1>2, <1>3, <1>4, <1>5 DEF Good

LEMMA MessagesAreGood ==
  ASSUME Good, NEW m \in Messages,
         (\E c \in Calls : Deliver(c, m)) \/ (\E u \in Users, v \in Named : EditMessage(m, u, v))
  PROVE  Good'
  <1>0. Shape /\ Consent
    BY DEF Good
  <1>1. ASSUME NEW c \in Calls, Deliver(c, m) PROVE Good'
    <2>1. call[c] # None /\ call[c].pc = "deliver" /\ call[c] \in Call
      BY <1>0, <1>1, Locals DEF Deliver
    <2>2. PICK u, v \in Users : u = call[c].user /\ v = call[c].receiver
      BY <2>1, CallTypes
    <2>3. PICK d \in Message : d = [sender |-> u, receiver |-> v, text |-> u,
                                    reached |-> {u, v}, named |-> {}]
      BY <2>2 DEF Message, Named
    <2>4. /\ message' = [message EXCEPT ![m] = d] /\ call' = [call EXCEPT ![c] = None]
          /\ UNCHANGED <<row, live, history>>
      BY <1>1, <2>2, <2>3 DEF Deliver
    <2>5. Honest(d)
      <3>1. Both(u, v)
        BY <1>0, <2>1, <2>2 DEF Consent
      <3>2. d.sender = u /\ d.receiver = v /\ d.text = u /\ d.reached = {u, v}
        BY <2>3
      <3> QED BY <3>1, <3>2 DEF Honest
    <2>6. /\ call'[c] = None /\ \A g \in Calls \ {c} : call'[g] = call[g]
          /\ call' \in [Calls -> Call \cup {None}]
          /\ message' \in [Messages -> Message \cup {None}]
          /\ message'[m] = d /\ \A n \in Messages \ {m} : message'[n] = message[n]
      BY <1>0, <2>4 DEF Shape
    <2>7. \A g \in Calls : Deciding(g)' => Deciding(g) /\ call'[g] = call[g]
      BY <2>6 DEF Deciding
    <2>8. \A n \in Messages : message'[n] # None => Honest(message'[n])
      BY <1>0, <2>5, <2>6 DEF Consent
    <2>9. /\ live' \in [Users -> (SUBSET Users) \cup {None}]
          /\ \A x \in Users : live'[x] # None => \A y \in live'[x] : Both(x, y)
      BY <1>0, <2>4 DEF Shape, Consent
    <2> QED BY <2>4, <2>6, <2>7, <2>8, <2>9, RowsStay
  <1>2. ASSUME NEW u \in Users, NEW v \in Named, EditMessage(m, u, v) PROVE Good'
    <2>1. /\ message[m] # None /\ message[m].sender = u
          /\ UNCHANGED <<row, live, call, history>>
          /\ message' = [message EXCEPT ![m] = [sender |-> u, receiver |-> message[m].receiver,
               text |-> u, reached |-> message[m].reached \cup {u, v},
               named |-> message[m].named \cup ({v} \ {u, message[m].receiver})]]
      BY <1>2 DEF EditMessage
    <2>2. message[m] \in Message /\ Honest(message[m])
      BY <1>0, <2>1 DEF Shape, Consent
    <2>3. PICK d \in Message : /\ d.sender = u /\ d.receiver = message[m].receiver /\ d.text = u
                               /\ d.reached = message[m].reached \cup {u, v}
                               /\ d.named = message[m].named \cup ({v} \ {u, message[m].receiver})
                               /\ message' = [message EXCEPT ![m] = d]
      <3>1. PICK d : d = [sender |-> u, receiver |-> message[m].receiver, text |-> u,
                          reached |-> message[m].reached \cup {u, v},
                          named |-> message[m].named \cup ({v} \ {u, message[m].receiver})]
        OBVIOUS
      <3>2. d \in Message
        BY <2>2, <3>1 DEF Message, Named
      <3>3. message' = [message EXCEPT ![m] = d]
        BY <2>1, <3>1
      <3> QED BY <3>1, <3>2, <3>3
    <2>4. Honest(d)
      BY <2>1, <2>2, <2>3 DEF Honest
    <2>5. /\ message' \in [Messages -> Message \cup {None}]
          /\ \A n \in Messages : message'[n] # None => Honest(message'[n])
      BY <1>0, <2>3, <2>4 DEF Shape, Consent
    <2>6. /\ live' \in [Users -> (SUBSET Users) \cup {None}] /\ call' \in [Calls -> Call \cup {None}]
          /\ \A x \in Users : live'[x] # None => \A y \in live'[x] : Both(x, y)
          /\ \A g \in Calls : Deciding(g)' => Deciding(g) /\ call'[g] = call[g]
      BY <1>0, <2>1 DEF Shape, Consent, Deciding
    <2> QED BY <2>1, <2>5, <2>6, RowsStay
  <1> QED BY <1>1, <1>2

LEMMA StreamsAreGood ==
  ASSUME Good, NEW u \in Users, OpenLive(u) \/ CloseLive(u)
  PROVE  Good'
  <1>0. Shape /\ Consent
    BY DEF Good
  <1>1. \A v \in Friends(u) : v \in Users /\ Both(u, v)
    <2> SUFFICES ASSUME NEW v \in Friends(u) PROVE v \in Users /\ Both(u, v)
      OBVIOUS
    <2>1. PICK i \in In("ACCEPTED") : v # u /\ Pair(row[i]) = {u, v}
      BY DEF Friends
    <2>2. Asked(row[i]) /\ row[i].status = "ACCEPTED"
      BY <1>0 DEF In, Consent
    <2> QED BY <2>1, <2>2 DEF Friends, Asked, Both, Pair
  <1>2. /\ live' \in [Users -> (SUBSET Users) \cup {None}]
        /\ \A w \in Users \ {u} : live'[w] = live[w]
        /\ live'[u] # None => live'[u] = Friends(u)
        /\ UNCHANGED <<row, message, call, history>>
    BY <1>0, <1>1 DEF OpenLive, CloseLive, Shape
  <1>3. \A x \in Users : live'[x] # None => \A y \in live'[x] : Both(x, y)
    BY <1>0, <1>1, <1>2 DEF Consent
  <1>4. /\ message' \in [Messages -> Message \cup {None}] /\ call' \in [Calls -> Call \cup {None}]
        /\ \A g \in Calls : Deciding(g)' => Deciding(g) /\ call'[g] = call[g]
        /\ \A n \in Messages : message'[n] # None => Honest(message'[n])
    BY <1>0, <1>2 DEF Shape, Consent, Deciding
  <1> QED BY <1>2, <1>3, <1>4, RowsStay

(***************************************************************************)
(* The theorems.                                                           *)
(***************************************************************************)

LEMMA GoodNext == Good /\ [Next]_vars => Good'
  <1> SUFFICES ASSUME Good, [Next]_vars PROVE Good'
    OBVIOUS
  <1>1. CASE UNCHANGED vars
    <2>1. /\ UNCHANGED <<row, message, live, call, history>>
          /\ \A d \in Calls : Deciding(d)' => Deciding(d) /\ call'[d] = call[d]
      BY <1>1 DEF vars, history, Deciding
    <2> QED BY <2>1, RowsStay DEF Good, Shape, Consent
  <1>2. ASSUME NEW c \in Calls, UpdateNothing(c) \/ Fail(c) PROVE Good'
    BY <1>2, Ends DEF UpdateNothing, Fail
  <1>3. CASE Next
    BY <1>2, <1>3, BeginIsGood, LookUpIsGood, InsertIsGood, UpdateIsGood, DeleteIsGood,
       MessagesAreGood, StreamsAreGood DEF Next
  <1> QED BY <1>1, <1>3

LEMMA GoodAlways == Spec => []Good
  BY GoodInit, GoodNext, PTL DEF Spec

\* Whatever handlers overlap, rows, messages, streams and locals keep their types, and
\* two rows never go the same way between the same users.
THEOREM FriendshipTypes == Spec => []TypeOK
  <1>1. Good => TypeOK
    BY DEF Good, Shape, Unique, TypeOK
  <1> QED BY <1>1, GoodAlways, PTL

\* Outside the rows a stale handler saved, a friendship is wanted by both and a
\* request by its requester, for any number of overlapping handlers.
THEOREM FriendshipsAreWanted == Spec => []FriendsWantIt
  <1>1. Good => FriendsWantIt
    BY DEF Good
  <1> QED BY <1>1, GoodAlways, PTL

\* Stale saves included, nobody becomes a friend or has his presence told to somebody
\* without having asked for it or accepted it, and nobody else is sent a message,
\* except whom an edit of its sender named.
THEOREM NobodyForced == Spec => []NobodyIsForced
  <1> SUFFICES ASSUME Good PROVE NobodyIsForced
    BY GoodAlways, PTL
  <1>1. \A m \in Messages : message[m] # None =>
          /\ message[m].text = message[m].sender
          /\ \A v \in {message[m].receiver} \cup (message[m].reached \ message[m].named) :
               v # message[m].sender => Both(message[m].sender, v)
    BY DEF Good, Consent, Honest
  <1> QED BY <1>1 DEF Good, Consent, Asked, Both, NobodyIsForced

\* Two users whose requests did not cross see one relation: one status, one list, and
\* the same conversation.
THEOREM OneRelation == Spec => []InOneList
  <1> SUFFICES ASSUME Good PROVE InOneList
    BY GoodAlways, PTL
  <1> SUFFICES ASSUME NEW u \in Users, NEW v \in Users, u # v, {u, v} \notin crossed
               PROVE  /\ Cardinality(Status(u, v)) = 1
                      /\ v \in Friends(u) <=> "FRIENDS" \in Status(u, v)
                      /\ ~ (v \in PendingRequests(u) /\ v \in SentRequests(u))
                      /\ Conversation(u, v) = Conversation(v, u)
    BY DEF InOneList
  <1>0. Shape /\ OneRow /\ Consent
    BY DEF Good
  <1>1. \A i, j \in Between(u, v) : i = j
    BY <1>0 DEF Between, OneRow
  <1>2. {u, v} = {v, u}
    OBVIOUS
  <1>3. Between(v, u) = Between(u, v)
    BY <1>2 DEF Between
  <1>4. \A i \in Between(u, v) : /\ row[i] # None /\ i \in Ids /\ Pair(row[i]) = {u, v}
                                 /\ row[i].requester # row[i].addressee
    BY <1>0 DEF Between, Consent, Asked
  <1>5. Cardinality(Status(u, v)) = 1
    <2>1. CASE Between(u, v) = {}
      BY <2>1, FS_Singleton DEF Status
    <2>2. CASE Between(u, v) # {}
      <3>1. PICK i \in Between(u, v) : TRUE
        BY <2>2
      <3>2. Status(u, v) = {Told(u, row[i])}
        BY <1>1, <2>2, <3>1 DEF Status
      <3> QED BY <3>2, FS_Singleton
    <2> QED BY <2>1, <2>2
  <1>6. \A x, y : "FRIENDS" \in Status(x, y)
                    <=> \E i \in Between(x, y) : row[i].status = "ACCEPTED"
    BY DEF Status, Told
  <1>7. v \in Friends(u) <=> "FRIENDS" \in Status(u, v)
    BY <1>6 DEF Friends, In, Between
  <1>8. ASSUME v \in PendingRequests(u), v \in SentRequests(u) PROVE FALSE
    <2>1. PICK i \in Ids : row[i] # None /\ row[i].addressee = u /\ row[i].requester = v
      BY <1>8 DEF PendingRequests, In
    <2>2. PICK j \in Ids : row[j] # None /\ row[j].requester = u /\ row[j].addressee = v
      BY <1>8 DEF SentRequests, In
    <2>3. i \in Between(u, v) /\ j \in Between(u, v)
      BY <2>1, <2>2 DEF Between, Pair
    <2> QED BY <1>1, <2>1, <2>2, <2>3
  <1>9. Conversation(u, v) = Conversation(v, u)
    BY <1>2, <1>3, <1>6 DEF Conversation
  <1> QED BY <1>5, <1>7, <1>8, <1>9

=============================================================================
