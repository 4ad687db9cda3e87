------------------------ MODULE RoomMembershipProofs ------------------------
(* Proofs about RoomMembership, and about RoomHost that composes it with   *)
(* the host's saves, for any number of users, rooms, sessions and savers   *)
(* and finitely many concurrent requests.                                  *)
EXTENDS RoomHost, FiniteSetTheorems, TLAPS

(***************************************************************************)
(* Type correctness.                                                       *)
(***************************************************************************)

LEMMA IdleType == Idle \in CallState
  BY DEF Idle, CallState, PCs

LEMMA TypeInit == Init => TypeOK
  <1> SUFFICES ASSUME Init PROVE TypeOK
    OBVIOUS
  <1>1. room \in [Rooms -> RoomRow]
    BY DEF Init, RoomRow
  <1>2. session \in [Sessions -> SessionRow]
    BY DEF Init, SessionRow
  <1>3. completions \in [Sessions -> Nat]
    BY DEF Init
  <1>4. call \in [Calls -> CallState]
    BY IdleType DEF Init
  <1> QED BY <1>1, <1>2, <1>3, <1>4 DEF TypeOK

LEMMA TypeNext == TypeOK /\ [Next]_vars => TypeOK'
  <1> SUFFICES ASSUME TypeOK, [Next]_vars PROVE TypeOK'
    OBVIOUS
  <1> USE DEF TypeOK
  <1>1. ASSUME NEW r \in Rooms, CreateRoom(r) PROVE TypeOK'
    BY <1>1 DEF CreateRoom, RoomRow
  <1>2. ASSUME NEW r \in Rooms, SoftDeleteRoom(r) PROVE TypeOK'
    BY <1>2 DEF SoftDeleteRoom, RoomRow
  <1>3. ASSUME NEW c \in Calls, NEW u \in Users, NEW r \in Rooms, JoinRead(c, u, r)
        PROVE TypeOK'
    <2>1. room[r].capacity \in Nat /\ room[r].participants \in Int
      <3>1. room[r].capacity \in Capacities /\ room[r].participants \in Int
        BY DEF RoomRow
      <3> QED BY <3>1, CapacitiesAssumption
    <2>2. room[r].capacity - room[r].participants \in Int
      BY <2>1
    <2> QED BY <1>3, <2>2 DEF JoinRead, CallState, PCs
  <1>4. ASSUME NEW c \in Calls, JoinAdmit(c) PROVE TypeOK'
    BY ZenonT(30), <1>4 DEF JoinAdmit, Goto, CallState, PCs
  <1>5. ASSUME NEW c \in Calls, JoinTurnAway(c) PROVE TypeOK'
    BY <1>5, IdleType DEF JoinTurnAway, Return
  <1>6. ASSUME NEW c \in Calls, JoinInsert(c) PROVE TypeOK'
    <2>1. call' \in [Calls -> CallState]
      BY <1>6 DEF JoinInsert, Goto, CallState, PCs
    <2>2. [status |-> "ACTIVE", user |-> call[c].user, room |-> call[c].room]
            \in SessionRow
      BY DEF SessionRow, CallState
    <2> QED BY <1>6, <2>1, <2>2 DEF JoinInsert
  <1>7. ASSUME NEW c \in Calls, JoinIncrement(c) PROVE TypeOK'
    <2>1. \A r \in Rooms : room[r].participants + 1 \in Int
      BY DEF RoomRow
    <2>2. room' \in [Rooms -> RoomRow]
      BY <1>7, <2>1 DEF JoinIncrement, RoomRow
    <2> QED BY <1>7, <2>2, IdleType DEF JoinIncrement, Return
  <1>8. ASSUME NEW c \in Calls, NEW u \in Users, LeaveFind(c, u) PROVE TypeOK'
    <2>1. PICK s \in Sessions :
            call' = [call EXCEPT ![c] = [pc |-> "close", user |-> u,
                       room |-> session[s].room, session |-> s, places |-> 0]]
      BY <1>8 DEF LeaveFind, ActiveOf
    <2>2. session[s].room \in Rooms \cup {None}
      BY DEF SessionRow
    <2> QED BY <1>8, <2>1, <2>2 DEF LeaveFind, CallState, PCs
  <1>9. ASSUME NEW c \in Calls, LeaveClose(c) PROVE TypeOK'
    <2>1. session' \in [Sessions -> SessionRow]
      BY ZenonT(30), <1>9 DEF LeaveClose, SessionRow
    <2> QED BY <1>9, <2>1 DEF LeaveClose, Goto, CallState, PCs
  <1>10. ASSUME NEW c \in Calls, LeaveLostRace(c) PROVE TypeOK'
    BY <1>10, IdleType DEF LeaveLostRace, Return
  <1>11. ASSUME NEW c \in Calls, LeaveQueue(c) PROVE TypeOK'
    <2>1. completions' \in [Sessions -> Nat]
      <3>1. \A s \in Sessions : completions[s] + 1 \in Nat
        OBVIOUS
      <3> QED BY <1>11, <3>1 DEF LeaveQueue
    <2> QED BY <1>11, <2>1 DEF LeaveQueue, Goto, CallState, PCs
  <1>12. ASSUME NEW c \in Calls, LeaveDecrement(c) PROVE TypeOK'
    <2>1. \A r \in Rooms : room[r].participants - 1 \in Int
      BY DEF RoomRow
    <2>2. room' \in [Rooms -> RoomRow]
      BY <1>12, <2>1 DEF LeaveDecrement, RoomRow
    <2> QED BY <1>12, <2>2, IdleType DEF LeaveDecrement, Return
  <1>13. ASSUME NEW c \in Calls, FailBeforeWriting(c) PROVE TypeOK'
    BY <1>13, IdleType DEF FailBeforeWriting, Return
  <1>14. ASSUME NEW c \in Calls, FailHalfway(c) PROVE TypeOK'
    BY <1>14 DEF FailHalfway, Goto, CallState, PCs
  <1>15. CASE UNCHANGED vars
    BY <1>15 DEF vars
  <1> QED
    BY <1>1, <1>2, <1>3, <1>4, <1>5, <1>6, <1>7, <1>8, <1>9, <1>10, <1>11, <1>12,
       <1>13, <1>14, <1>15 DEF Next, Step

\* Every variable keeps its type (RoomMembership's rows, jobs and requests).
THEOREM TypeCorrect == Spec => []TypeOK
  BY TypeInit, TypeNext, PTL DEF Spec
(***************************************************************************)
(* What the locals of a request refer to.  The accounting needs that a     *)
(* request about to adjust a counter names the room of the session it      *)
(* wrote, and that a request about to report a session has closed it.      *)
(***************************************************************************)

Joining == {"check", "insert", "increment", "lostIncrement"}
Closed  == {"queue", "decrement", "lostStats", "lostDecrement"}

SessionRefs ==
  \A s \in Sessions : session[s].status # "none" =>
    session[s].user \in Users /\ session[s].room \in Rooms

CallRefs ==
  \A c \in Calls :
    /\ call[c].pc \in Joining => call[c].user \in Users /\ call[c].room \in Rooms
    /\ call[c].pc = "insert" => call[c].places > 0
    /\ call[c].pc \in Closed \cup {"close"} =>
         /\ call[c].session \in Sessions
         /\ session[call[c].session].status # "none"
         /\ session[call[c].session].room = call[c].room
    /\ call[c].pc \in Closed => session[call[c].session].status = "COMPELETED"

Refs == TypeOK /\ SessionRefs /\ CallRefs

LEMMA RefsInit == Init => Refs
  <1> SUFFICES ASSUME Init PROVE Refs
    OBVIOUS
  <1>1. TypeOK
    BY TypeInit
  <1>2. SessionRefs
    BY DEF Init, SessionRefs
  <1>3. CallRefs
    BY DEF Init, Idle, CallRefs, Joining, Closed
  <1> QED BY <1>1, <1>2, <1>3 DEF Refs

LEMMA RefsNext == Refs /\ [Next]_vars => Refs'
  <1> SUFFICES ASSUME Refs, [Next]_vars PROVE Refs'
    OBVIOUS
  <1>0. TypeOK /\ TypeOK'
    BY TypeNext DEF Refs
  <1> USE <1>0 DEF Joining, Closed
  <1> SUFFICES SessionRefs' /\ CallRefs'
    BY DEF Refs
  <1>a. ASSUME NEW c \in Calls, Return(c), UNCHANGED session
        PROVE  SessionRefs' /\ CallRefs'
    BY <1>a DEF Refs, SessionRefs, CallRefs, Return, Idle, TypeOK
  <1>1. ASSUME NEW r \in Rooms, CreateRoom(r) \/ SoftDeleteRoom(r)
        PROVE SessionRefs' /\ CallRefs'
    BY <1>1 DEF CreateRoom, SoftDeleteRoom, Refs, SessionRefs, CallRefs
  <1>2. ASSUME NEW c \in Calls, NEW u \in Users, NEW r \in Rooms, JoinRead(c, u, r)
        PROVE SessionRefs' /\ CallRefs'
    BY <1>2 DEF JoinRead, Refs, SessionRefs, CallRefs, TypeOK
  <1>3. ASSUME NEW c \in Calls, JoinAdmit(c) PROVE SessionRefs' /\ CallRefs'
    BY <1>3 DEF JoinAdmit, At, Goto, Refs, SessionRefs, CallRefs, TypeOK, CallState
  <1>4. ASSUME NEW c \in Calls, JoinInsert(c) PROVE SessionRefs' /\ CallRefs'
    <2>1. PICK s \in Sessions :
            /\ session[s].status = "none"
            /\ session' = [session EXCEPT ![s] =
                 [status |-> "ACTIVE", user |-> call[c].user, room |-> call[c].room]]
      BY <1>4 DEF JoinInsert
    <2>2. call[c].user \in Users /\ call[c].room \in Rooms
      BY <1>4 DEF JoinInsert, At, Refs, CallRefs
    <2>3. SessionRefs'
      BY <2>1, <2>2 DEF Refs, SessionRefs, TypeOK
    <2>4. \A d \in Calls : call[d].pc \in Closed \cup {"close"} => call[d].session # s
      BY <2>1 DEF Refs, CallRefs
    <2>5. CallRefs'
      BY <1>4, <2>1, <2>2, <2>4 DEF JoinInsert, At, Goto, Refs, CallRefs, TypeOK, CallState
    <2> QED BY <2>3, <2>5
  <1>5. ASSUME NEW c \in Calls, NEW u \in Users, LeaveFind(c, u)
        PROVE SessionRefs' /\ CallRefs'
    BY <1>5 DEF LeaveFind, ActiveOf, Refs, SessionRefs, CallRefs, TypeOK
  <1>6. ASSUME NEW c \in Calls, LeaveClose(c) PROVE SessionRefs' /\ CallRefs'
    <2> DEFINE s == call[c].session
    <2>1. s \in Sessions /\ session' = [session EXCEPT ![s].status = "COMPELETED"]
      BY <1>6 DEF LeaveClose, At, Refs, CallRefs
    <2>2. \A t \in Sessions : /\ session'[t].room = session[t].room
                              /\ session'[t].user = session[t].user
                              /\ session'[t].status # session[t].status =>
                                   t = s
                              /\ session'[s].status = "COMPELETED"
      BY <2>1 DEF TypeOK, SessionRow
    <2>3. session[s].status = "ACTIVE"
      BY <1>6 DEF LeaveClose
    <2>4. SessionRefs'
      BY <2>2, <2>3 DEF Refs, SessionRefs
    <2>5. /\ \A d \in Calls \ {c} : call'[d] = call[d]
          /\ call'[c].pc = "queue"
          /\ call'[c].session = s
          /\ call'[c].room = call[c].room
      BY <1>6 DEF LeaveClose, Goto, TypeOK, CallState
    <2>6. CallRefs'
      BY <1>6, <2>1, <2>2, <2>3, <2>5 DEF LeaveClose, At, Refs, CallRefs
    <2> QED BY <2>4, <2>6
  <1>7. ASSUME NEW c \in Calls, LeaveQueue(c) PROVE SessionRefs' /\ CallRefs'
    BY <1>7 DEF LeaveQueue, At, Goto, Refs, SessionRefs, CallRefs, TypeOK, CallState
  <1>8. ASSUME NEW c \in Calls, FailHalfway(c) PROVE SessionRefs' /\ CallRefs'
    BY <1>8 DEF FailHalfway, At, Goto, Refs, SessionRefs, CallRefs, TypeOK, CallState
  <1>9. CASE UNCHANGED vars
    BY <1>9 DEF vars, Refs, SessionRefs, CallRefs
  <1> QED
    BY <1>a, <1>1, <1>2, <1>3, <1>4, <1>5, <1>6, <1>7, <1>8, <1>9
    DEF Next, Step, JoinTurnAway, JoinIncrement, LeaveLostRace, LeaveDecrement,
        FailBeforeWriting

(***************************************************************************)
(* Counting.  A step inserts a session, counts it, closes it, uncounts it, *)
(* or is quiet: it changes none of the sets the counter is the balance of. *)
(***************************************************************************)

LEMMA CallSets ==
  ASSUME NEW S \in SUBSET Calls
  PROVE  IsFiniteSet(S) /\ Cardinality(S) \in Nat /\ Cardinality(S) <= Cardinality(Calls)
  BY CallsAssumption, FS_Subset, FS_CardinalityType

LEMMA CallsNat == Cardinality(Calls) \in Nat
  BY CallSets

Quiet ==
  \A r \in Rooms :
    /\ Active(r)' = Active(r)
    /\ Uncounted(r)' = Uncounted(r)
    /\ Unreleased(r)' = Unreleased(r)
    /\ room'[r].participants = room[r].participants

QuietStep(c) ==
  \/ \E u \in Users, r \in Rooms : JoinRead(c, u, r)
  \/ JoinAdmit(c) \/ JoinTurnAway(c)
  \/ \E u \in Users : LeaveFind(c, u)
  \/ LeaveLostRace(c) \/ LeaveQueue(c)
  \/ FailBeforeWriting(c) \/ FailHalfway(c)

LEMMA QuietCalls ==
  ASSUME Refs, NEW c \in Calls, QuietStep(c)
  PROVE  Quiet
  <1>1. session' = session /\ room' = room
    BY DEF QuietStep, JoinRead, JoinAdmit, JoinTurnAway, LeaveFind, LeaveLostRace,
           LeaveQueue, FailBeforeWriting, FailHalfway
  <1>2. \A d \in Calls \ {c} : call'[d] = call[d]
    BY DEF QuietStep, JoinRead, JoinAdmit, JoinTurnAway, LeaveFind, LeaveLostRace,
           LeaveQueue, FailBeforeWriting, FailHalfway, Goto, Return, Refs, TypeOK
  <1>3. \/ /\ call[c].pc \in {"idle", "check", "insert", "close"}
          /\ call'[c].pc \in {"idle", "check", "insert", "close"}
       \/ /\ call[c].pc \in {"queue", "decrement"}
          /\ call'[c].pc \in {"decrement", "lostStats", "lostDecrement"}
          /\ call'[c].room = call[c].room
       \/ /\ call[c].pc = "increment"
          /\ call'[c].pc = "lostIncrement"
          /\ call'[c].room = call[c].room
    <2> USE DEF Goto, Return, At, Refs, TypeOK, CallState, Idle
    <2>1. CASE \E u \in Users, r \in Rooms : JoinRead(c, u, r)
      BY <2>1 DEF JoinRead
    <2>2. CASE JoinAdmit(c) \/ JoinTurnAway(c)
      BY <2>2 DEF JoinAdmit, JoinTurnAway
    <2>3. CASE \E u \in Users : LeaveFind(c, u)
      BY <2>3 DEF LeaveFind
    <2>4. CASE LeaveLostRace(c) \/ LeaveQueue(c)
      BY <2>4 DEF LeaveLostRace, LeaveQueue
    <2>5. CASE FailBeforeWriting(c)
      BY <2>5 DEF FailBeforeWriting
    <2>6. CASE FailHalfway(c)
      BY <2>6 DEF FailHalfway
    <2> QED BY <2>1, <2>2, <2>3, <2>4, <2>5, <2>6 DEF QuietStep
  <1> QED BY <1>1, <1>2, <1>3 DEF Quiet, Active, Uncounted, Unreleased

LEMMA QuietRooms ==
  ASSUME Refs, NEW r \in Rooms, CreateRoom(r) \/ SoftDeleteRoom(r)
  PROVE  Quiet
  BY DEF CreateRoom, SoftDeleteRoom, Quiet, Active, Uncounted, Unreleased, Refs,
         TypeOK, RoomRow

LEMMA InsertSets ==
  ASSUME Refs, NEW c \in Calls, JoinInsert(c)
  PROVE  \E s \in Sessions :
           /\ session[s].status = "none"
           /\ \A r \in Rooms :
                /\ Active(r)' = IF r = call[c].room THEN Active(r) \cup {s} ELSE Active(r)
                /\ Uncounted(r)' = IF r = call[c].room THEN Uncounted(r) \cup {c}
                                                      ELSE Uncounted(r)
                /\ Unreleased(r)' = Unreleased(r)
           /\ \A u \in Users :
                ActiveOf(u)' = IF u = call[c].user THEN ActiveOf(u) \cup {s}
                                                   ELSE ActiveOf(u)
  <1>1. PICK s \in Sessions :
          /\ session[s].status = "none"
          /\ session' = [session EXCEPT ![s] =
               [status |-> "ACTIVE", user |-> call[c].user, room |-> call[c].room]]
    BY DEF JoinInsert
  <1>2. /\ \A t \in Sessions \ {s} : session'[t] = session[t]
        /\ session'[s].status = "ACTIVE"
        /\ session'[s].user = call[c].user
        /\ session'[s].room = call[c].room
    BY <1>1 DEF Refs, TypeOK
  <1>3. /\ \A d \in Calls \ {c} : call'[d] = call[d]
        /\ call[c].pc = "insert" /\ call'[c].pc = "increment"
        /\ call'[c].room = call[c].room
    BY DEF JoinInsert, At, Goto, Refs, TypeOK, CallState
  <1>4. \A r \in Rooms :
          Active(r)' = IF r = call[c].room THEN Active(r) \cup {s} ELSE Active(r)
    BY <1>1, <1>2 DEF Active
  <1>5. \A u \in Users :
          ActiveOf(u)' = IF u = call[c].user THEN ActiveOf(u) \cup {s} ELSE ActiveOf(u)
    BY <1>1, <1>2 DEF ActiveOf
  <1>6. \A r \in Rooms :
          /\ Uncounted(r)' = IF r = call[c].room THEN Uncounted(r) \cup {c}
                                                ELSE Uncounted(r)
          /\ Unreleased(r)' = Unreleased(r)
    BY <1>3 DEF Uncounted, Unreleased
  <1> QED BY <1>1, <1>4, <1>5, <1>6

LEMMA CloseSets ==
  ASSUME Refs, NEW c \in Calls, LeaveClose(c)
  PROVE  LET s == call[c].session IN
         /\ s \in Active(call[c].room)
         /\ \A r \in Rooms :
              /\ Active(r)' = IF r = call[c].room THEN Active(r) \ {s} ELSE Active(r)
              /\ Uncounted(r)' = Uncounted(r)
              /\ Unreleased(r)' = IF r = call[c].room THEN Unreleased(r) \cup {c}
                                                     ELSE Unreleased(r)
         /\ \A u \in Users : ActiveOf(u)' \subseteq ActiveOf(u)
  <1> DEFINE s == call[c].session
  <1>1. /\ s \in Sessions /\ session[s].status = "ACTIVE"
        /\ session[s].room = call[c].room
        /\ session' = [session EXCEPT ![s].status = "COMPELETED"]
    BY DEF LeaveClose, At, Refs, CallRefs
  <1>2. /\ \A t \in Sessions \ {s} : session'[t] = session[t]
        /\ session'[s].status = "COMPELETED"
    BY <1>1 DEF Refs, TypeOK, SessionRow
  <1>3. /\ \A d \in Calls \ {c} : call'[d] = call[d]
        /\ call[c].pc = "close" /\ call'[c].pc = "queue"
        /\ call'[c].room = call[c].room
    BY DEF LeaveClose, At, Goto, Refs, TypeOK, CallState
  <1>4. s \in Active(call[c].room)
    BY <1>1 DEF Active
  <1>5. \A r \in Rooms :
          Active(r)' = IF r = call[c].room THEN Active(r) \ {s} ELSE Active(r)
    BY <1>1, <1>2 DEF Active
  <1>6. \A u \in Users : ActiveOf(u)' \subseteq ActiveOf(u)
    BY <1>1, <1>2 DEF ActiveOf
  <1>7. \A r \in Rooms :
          /\ Uncounted(r)' = Uncounted(r)
          /\ Unreleased(r)' = IF r = call[c].room THEN Unreleased(r) \cup {c}
                                                 ELSE Unreleased(r)
    BY <1>3 DEF Uncounted, Unreleased
  <1> QED BY <1>4, <1>5, <1>6, <1>7

LEMMA IncrementSets ==
  ASSUME Refs, NEW c \in Calls, JoinIncrement(c)
  PROVE  \A r \in Rooms :
           /\ Active(r)' = Active(r)
           /\ Unreleased(r)' = Unreleased(r)
           /\ r = call[c].room =>
                /\ c \in Uncounted(r) /\ Uncounted(r)' = Uncounted(r) \ {c}
                /\ room'[r].participants = room[r].participants + 1
           /\ r # call[c].room =>
                /\ Uncounted(r)' = Uncounted(r)
                /\ room'[r].participants = room[r].participants
  <1>1. /\ \A d \in Calls \ {c} : call'[d] = call[d]
        /\ call[c].pc = "increment" /\ call'[c].pc = "idle"
    BY DEF JoinIncrement, At, Return, Idle, Refs, TypeOK
  <1>2. /\ session' = session
        /\ room' = [room EXCEPT ![call[c].room].participants = @ + 1]
    BY DEF JoinIncrement
  <1>3. \A r \in Rooms :
          /\ r = call[c].room => room'[r].participants = room[r].participants + 1
          /\ r # call[c].room => room'[r].participants = room[r].participants
    BY <1>2 DEF Refs, TypeOK, RoomRow
  <1> QED BY <1>1, <1>2, <1>3 DEF Active, Uncounted, Unreleased

LEMMA DecrementSets ==
  ASSUME Refs, NEW c \in Calls, LeaveDecrement(c)
  PROVE  \A r \in Rooms :
           /\ Active(r)' = Active(r)
           /\ Uncounted(r)' = Uncounted(r)
           /\ r = call[c].room =>
                /\ c \in Unreleased(r) /\ Unreleased(r)' = Unreleased(r) \ {c}
                /\ room'[r].participants = room[r].participants - 1
           /\ r # call[c].room =>
                /\ Unreleased(r)' = Unreleased(r)
                /\ room'[r].participants = room[r].participants
  <1>1. /\ \A d \in Calls \ {c} : call'[d] = call[d]
        /\ call[c].pc = "decrement" /\ call'[c].pc = "idle"
    BY DEF LeaveDecrement, At, Return, Idle, Refs, TypeOK
  <1>2. /\ session' = session
        /\ room' = [room EXCEPT ![call[c].room].participants = @ - 1]
    BY DEF LeaveDecrement
  <1>3. \A r \in Rooms :
          /\ r = call[c].room => room'[r].participants = room[r].participants - 1
          /\ r # call[c].room => room'[r].participants = room[r].participants
    BY <1>2 DEF Refs, TypeOK, RoomRow
  <1> QED BY <1>1, <1>2, <1>3 DEF Active, Uncounted, Unreleased

FiniteActive == \A r \in Rooms : IsFiniteSet(Active(r))

Accounting == Refs /\ FiniteActive /\ CounterAccounting

LEMMA AccountingInit == Init => Accounting
  <1> SUFFICES ASSUME Init PROVE Accounting
    OBVIOUS
  <1>1. \A r \in Rooms : Active(r) = {} /\ Uncounted(r) = {} /\ Unreleased(r) = {}
    BY DEF Init, Active, Uncounted, Unreleased, Idle
  <1>2. \A r \in Rooms : room[r].participants = 0
    BY DEF Init
  <1>3. FiniteActive /\ CounterAccounting
    BY <1>1, <1>2, FS_EmptySet DEF FiniteActive, CounterAccounting
  <1> QED BY <1>3, RefsInit DEF Accounting

\* No step of a request changes by how much a counter is wrong.
LEMMA DriftNext ==
  ASSUME Refs, FiniteActive, [Next]_vars, NEW r \in Rooms
  PROVE  IsFiniteSet(Active(r)') /\ Drift(r)' = Drift(r)
  <1> DEFINE Goal == IsFiniteSet(Active(r)') /\ Drift(r)' = Drift(r)
  <1>a. Refs /\ IsFiniteSet(Active(r)) /\ Cardinality(Active(r)) \in Nat
    BY FS_CardinalityType DEF FiniteActive
  <1>b. /\ IsFiniteSet(Uncounted(r)) /\ Cardinality(Uncounted(r)) \in Nat
        /\ IsFiniteSet(Unreleased(r)) /\ Cardinality(Unreleased(r)) \in Nat
    BY CallSets, Uncounted(r) \in SUBSET Calls, Unreleased(r) \in SUBSET Calls
    DEF Uncounted, Unreleased
  <1>c. room[r].participants \in Int
    BY DEF Refs, TypeOK, RoomRow
  <1>1. CASE Quiet
    BY <1>1, <1>a, <1>c DEF Quiet, Drift
  <1>2. ASSUME NEW c \in Calls, JoinInsert(c) PROVE Goal
    <2>1. PICK s \in Sessions :
            /\ session[s].status = "none"
            /\ Active(r)' = IF r = call[c].room THEN Active(r) \cup {s} ELSE Active(r)
            /\ Uncounted(r)' = IF r = call[c].room THEN Uncounted(r) \cup {c}
                                                  ELSE Uncounted(r)
            /\ Unreleased(r)' = Unreleased(r)
      BY <1>2, <1>a, InsertSets
    <2>2. s \notin Active(r) /\ c \notin Uncounted(r)
      BY <1>2, <2>1 DEF Active, Uncounted, JoinInsert, At
    <2>3. room' = room
      BY <1>2 DEF JoinInsert
    <2>4. CASE r = call[c].room
      <3>1. Active(r)' = Active(r) \cup {s} /\ Uncounted(r)' = Uncounted(r) \cup {c}
        BY <2>1, <2>4
      <3>2. /\ IsFiniteSet(Active(r)')
            /\ Cardinality(Active(r)') = Cardinality(Active(r)) + 1
        BY <3>1, <2>2, <1>a, FS_AddElement
      <3>3. Cardinality(Uncounted(r)') = Cardinality(Uncounted(r)) + 1
        BY <3>1, <2>2, <1>b, FS_AddElement
      <3> QED BY <3>2, <3>3, <2>1, <2>3, <1>a, <1>b, <1>c DEF Drift
    <2>5. CASE r # call[c].room
      BY <2>5, <2>1, <2>3, <1>a, <1>c DEF Drift
    <2> QED BY <2>4, <2>5
  <1>3. ASSUME NEW c \in Calls, JoinIncrement(c) PROVE Goal
    <2>1. CASE r = call[c].room
      <3>1. Cardinality(Uncounted(r)') = Cardinality(Uncounted(r)) - 1
        BY <1>3, <2>1, <1>a, <1>b, IncrementSets, FS_RemoveElement
      <3> QED BY <3>1, <1>3, <2>1, <1>a, <1>b, <1>c, IncrementSets DEF Drift
    <2>2. CASE r # call[c].room
      BY <1>3, <2>2, <1>a, <1>c, IncrementSets DEF Drift
    <2> QED BY <2>1, <2>2
  <1>4. ASSUME NEW c \in Calls, LeaveClose(c) PROVE Goal
    <2> DEFINE s == call[c].session
    <2>1. /\ s \in Active(call[c].room)
          /\ Active(r)' = IF r = call[c].room THEN Active(r) \ {s} ELSE Active(r)
          /\ Uncounted(r)' = Uncounted(r)
          /\ Unreleased(r)' = IF r = call[c].room THEN Unreleased(r) \cup {c}
                                                 ELSE Unreleased(r)
      BY <1>4, <1>a, CloseSets
    <2>2. c \notin Unreleased(r) /\ room' = room
      BY <1>4 DEF Unreleased, LeaveClose, At
    <2>3. CASE r = call[c].room
      <3>1. /\ IsFiniteSet(Active(r)')
            /\ Cardinality(Active(r)') = Cardinality(Active(r)) - 1
        <4>1. Active(r)' = Active(r) \ {s} /\ s \in Active(r)
          BY <2>1, <2>3
        <4> HIDE DEF s
        <4> QED BY <4>1, <1>a, FS_RemoveElement
      <3>2. Cardinality(Unreleased(r)') = Cardinality(Unreleased(r)) + 1
        BY <2>1, <2>2, <2>3, <1>b, FS_AddElement
      <3> QED BY <3>1, <3>2, <2>1, <2>2, <1>a, <1>b, <1>c DEF Drift
    <2>4. CASE r # call[c].room
      BY <2>4, <2>1, <2>2, <1>a, <1>c DEF Drift
    <2> QED BY <2>3, <2>4
  <1>5. ASSUME NEW c \in Calls, LeaveDecrement(c) PROVE Goal
    <2>1. CASE r = call[c].room
      <3>1. Cardinality(Unreleased(r)') = Cardinality(Unreleased(r)) - 1
        BY <1>5, <2>1, <1>a, <1>b, DecrementSets, FS_RemoveElement
      <3> QED BY <3>1, <1>5, <2>1, <1>a, <1>b, <1>c, DecrementSets DEF Drift
    <2>2. CASE r # call[c].room
      BY <1>5, <2>2, <1>a, <1>c, DecrementSets DEF Drift
    <2> QED BY <2>1, <2>2
  <1>6. CASE UNCHANGED vars
    BY <1>6, <1>a, <1>c DEF vars, Active, Uncounted, Unreleased, Drift
  <1>7. CASE \E q \in Rooms : CreateRoom(q) \/ SoftDeleteRoom(q)
    BY <1>7, <1>1, <1>a, QuietRooms
  <1>8. ASSUME NEW c \in Calls, Step(c) PROVE Goal
    <2>1. CASE QuietStep(c)
      BY <2>1, <1>1, <1>a, QuietCalls
    <2> QED BY <1>8, <2>1, <1>2, <1>3, <1>4, <1>5 DEF Step, QuietStep
  <1> QED BY <1>6, <1>7, <1>8 DEF Next

LEMMA AccountingNext == Accounting /\ [Next]_vars => Accounting'
  <1> SUFFICES ASSUME Accounting, [Next]_vars PROVE Accounting'
    OBVIOUS
  <1>1. Refs /\ FiniteActive /\ CounterAccounting
    BY DEF Accounting
  <1>2. Refs'
    BY <1>1, RefsNext
  <1>3. \A r \in Rooms : IsFiniteSet(Active(r)') /\ Drift(r)' = Drift(r)
    BY <1>1, DriftNext
  <1>4. FiniteActive'
    BY <1>3 DEF FiniteActive
  <1>5. ASSUME NEW r \in Rooms
        PROVE  room'[r].participants = Cardinality(Active(r)') - Cardinality(Uncounted(r)')
                                                               + Cardinality(Unreleased(r)')
    <2>1. /\ Uncounted(r) \in SUBSET Calls /\ Unreleased(r) \in SUBSET Calls
          /\ Uncounted(r)' \in SUBSET Calls /\ Unreleased(r)' \in SUBSET Calls
      BY DEF Uncounted, Unreleased
    <2>2. /\ Cardinality(Uncounted(r)) \in Nat /\ Cardinality(Unreleased(r)) \in Nat
          /\ Cardinality(Uncounted(r)') \in Nat /\ Cardinality(Unreleased(r)') \in Nat
      BY <2>1, CallSets
    <2>3. Cardinality(Active(r)) \in Nat /\ Cardinality(Active(r)') \in Nat
      BY <1>1, <1>3, FS_CardinalityType DEF FiniteActive
    <2>4. room[r].participants \in Int /\ room'[r].participants \in Int
      BY <1>1, <1>2 DEF Refs, TypeOK, RoomRow
    <2>5. Drift(r) = 0
      BY <1>1, <2>2, <2>3, <2>4 DEF CounterAccounting, Drift
    <2>6. Drift(r)' = 0
      BY <1>3, <2>5
    <2>7. room'[r].participants - Cardinality(Active(r)') + Cardinality(Uncounted(r)')
            - Cardinality(Unreleased(r)') = 0
      BY <2>6 DEF Drift
    <2> QED BY <2>2, <2>3, <2>4, <2>7
  <1> QED BY <1>2, <1>4, <1>5 DEF Accounting, CounterAccounting

\* The participant counter of every room is its number of ACTIVE sessions,
\* corrected by the requests between a session write and its counter update,
\* whatever the number of users, rooms, sessions and concurrent requests.
THEOREM CounterIsAccounted == Spec => []CounterAccounting
  <1>1. Accounting => CounterAccounting
    BY DEF Accounting
  <1> QED BY <1>1, AccountingInit, AccountingNext, PTL DEF Spec

(***************************************************************************)
(* Overbooking.  A join that read free places may still insert: the bound  *)
(* is inductive only when those joins are counted with the sessions.       *)
(***************************************************************************)

Hopeful(r) == {c \in Calls : /\ call[c].pc \in {"check", "insert"}
                             /\ call[c].room = r
                             /\ call[c].places > 0}

Admission ==
  /\ Accounting
  /\ \A r \in Rooms : Cardinality(Active(r)) + Cardinality(Hopeful(r))
                         <= room[r].capacity - 1 + Cardinality(Calls)

LEMMA AdmissionInit == Init => Admission
  <1> SUFFICES ASSUME Init PROVE Admission
    OBVIOUS
  <1>1. ASSUME NEW r \in Rooms
        PROVE Cardinality(Active(r)) + Cardinality(Hopeful(r))
                <= room[r].capacity - 1 + Cardinality(Calls)
    <2>1. Active(r) = {} /\ Hopeful(r) = {}
      BY DEF Init, Active, Hopeful, Idle
    <2>2. room[r].capacity \in Nat \ {0}
      BY CapacitiesAssumption DEF Init
    <2> QED BY <2>1, <2>2, CallsNat, FS_EmptySet
  <1> QED BY <1>1, AccountingInit DEF Admission

LEMMA CapacityKept ==
  ASSUME TypeOK, Next
  PROVE  \A r \in Rooms : room'[r].capacity = room[r].capacity
  <1>1. ASSUME NEW q \in Rooms, CreateRoom(q) \/ SoftDeleteRoom(q)
        PROVE \A r \in Rooms : room'[r].capacity = room[r].capacity
    BY <1>1 DEF CreateRoom, SoftDeleteRoom, TypeOK, RoomRow
  <1>2. ASSUME NEW c \in Calls, JoinIncrement(c) \/ LeaveDecrement(c)
        PROVE \A r \in Rooms : room'[r].capacity = room[r].capacity
    BY <1>2 DEF JoinIncrement, LeaveDecrement, TypeOK, RoomRow
  <1>3. ASSUME NEW c \in Calls, Step(c), ~JoinIncrement(c), ~LeaveDecrement(c)
        PROVE room' = room
    BY <1>3 DEF Step, JoinRead, JoinAdmit, JoinTurnAway, JoinInsert, LeaveFind,
       LeaveClose, LeaveLostRace, LeaveQueue, FailBeforeWriting, FailHalfway
  <1> QED BY <1>1, <1>2, <1>3 DEF Next

LEMMA AdmissionNext == Admission /\ [Next]_vars => Admission'
  <1> SUFFICES ASSUME Admission, Next,
                      NEW r \in Rooms
               PROVE  Cardinality(Active(r)') + Cardinality(Hopeful(r)')
                        <= room'[r].capacity - 1 + Cardinality(Calls)
    <2>1. CASE UNCHANGED vars
      BY <2>1, AccountingNext DEF vars, Admission, Active, Hopeful
    <2> QED BY <2>1, AccountingNext DEF Admission
  <1> DEFINE Goal == Cardinality(Active(r)') + Cardinality(Hopeful(r)')
                       <= room'[r].capacity - 1 + Cardinality(Calls)
  <1>a. /\ Refs /\ CallRefs /\ TypeOK /\ IsFiniteSet(Active(r))
        /\ Cardinality(Active(r)) \in Nat /\ Cardinality(Calls) \in Nat
    BY FS_CardinalityType, CallsNat DEF Admission, Accounting, FiniteActive, Refs
  <1>b. IsFiniteSet(Hopeful(r)) /\ Cardinality(Hopeful(r)) \in Nat
    BY CallSets, Hopeful(r) \in SUBSET Calls DEF Hopeful
  <1>c. room'[r].capacity = room[r].capacity /\ room[r].capacity \in Nat
    <2>1. room[r].capacity \in Capacities
      BY <1>a DEF TypeOK, RoomRow
    <2> QED BY <2>1, <1>a, CapacityKept, CapacitiesAssumption
  <1>d. Cardinality(Active(r)) + Cardinality(Hopeful(r))
          <= room[r].capacity - 1 + Cardinality(Calls)
    BY DEF Admission
  <1>1. CASE /\ Active(r)' \subseteq Active(r)
             /\ Hopeful(r)' \subseteq Hopeful(r)
    <2>1. /\ Cardinality(Active(r)') \in Nat
          /\ Cardinality(Active(r)') <= Cardinality(Active(r))
      BY <1>1, <1>a, FS_Subset, FS_CardinalityType
    <2>2. /\ Cardinality(Hopeful(r)') \in Nat
          /\ Cardinality(Hopeful(r)') <= Cardinality(Hopeful(r))
      BY <1>1, <1>b, FS_Subset, FS_CardinalityType
    <2> QED BY <2>1, <2>2, <1>a, <1>b, <1>c, <1>d
  <1>2. ASSUME NEW c \in Calls, NEW u \in Users, NEW q \in Rooms, JoinRead(c, u, q)
        PROVE Goal
    <2>1. /\ Active(r)' = Active(r)
          /\ \A d \in Calls \ {c} : call'[d] = call[d]
          /\ call[c].pc = "idle" /\ call'[c].pc = "check" /\ call'[c].room = q
          /\ call'[c].places = room[q].capacity - room[q].participants
      BY <1>2, <1>a DEF JoinRead, Active, At, TypeOK
    <2>2. CASE r = q /\ room[r].participants < room[r].capacity
      <3>1. room[r].participants \in Int
        BY <1>a DEF TypeOK, RoomRow
      <3>2. Hopeful(r)' = Hopeful(r) \cup {c} /\ c \notin Hopeful(r)
        BY <2>1, <2>2, <3>1, <1>c DEF Hopeful
      <3>3. Cardinality(Hopeful(r)') = Cardinality(Hopeful(r)) + 1
        BY <3>2, <1>b, FS_AddElement
      <3>4. /\ IsFiniteSet(Uncounted(r)) /\ Cardinality(Uncounted(r)) \in Nat
            /\ Cardinality(Unreleased(r)) \in Nat
        BY CallSets, Uncounted(r) \in SUBSET Calls, Unreleased(r) \in SUBSET Calls
        DEF Uncounted, Unreleased
      <3>5. Cardinality(Active(r)) <= room[r].capacity - 1 + Cardinality(Uncounted(r))
        BY <2>2, <3>1, <3>4, <1>a, <1>c DEF Admission, Accounting, CounterAccounting
      <3>6. Cardinality(Hopeful(r)') + Cardinality(Uncounted(r)) <= Cardinality(Calls)
        <4> DEFINE H == Hopeful(r) \cup {c}
                   U == Uncounted(r)
        <4>1. H \cap U = {} /\ H \cup U \in SUBSET Calls
          BY <2>1 DEF Hopeful, Uncounted
        <4>2. IsFiniteSet(H) /\ IsFiniteSet(U)
          BY <1>b, <3>4, FS_AddElement
        <4> HIDE DEF H, U
        <4>3. Cardinality(H \cup U) = Cardinality(H) + Cardinality(U) - Cardinality(H \cap U)
          BY <4>2, FS_Union
        <4>4. Cardinality(H \cup U) <= Cardinality(Calls)
          BY <4>1, CallSets
        <4>5. Cardinality(H) \in Nat /\ Cardinality(U) \in Nat /\ Cardinality(H \cap U) = 0
          BY <4>1, <4>2, FS_CardinalityType, FS_EmptySet
        <4>6. Cardinality(H) + Cardinality(U) <= Cardinality(Calls)
          BY <4>3, <4>4, <4>5
        <4> QED BY <4>6, <3>2 DEF H, U
      <3> QED BY <2>1, <3>3, <3>4, <3>5, <3>6, <1>a, <1>b, <1>c
    <2>3. CASE ~(r = q /\ room[r].participants < room[r].capacity)
      <3>1. room[r].participants \in Int
        BY <1>a DEF TypeOK, RoomRow
      <3>2. Hopeful(r)' \subseteq Hopeful(r)
        BY <2>1, <2>3, <3>1, <1>c DEF Hopeful
      <3> QED BY <2>1, <3>2, <1>1
    <2> QED BY <2>2, <2>3
  <1>3. ASSUME NEW c \in Calls, JoinInsert(c) PROVE Goal
    <2>1. PICK s \in Sessions :
            /\ session[s].status = "none"
            /\ Active(r)' = IF r = call[c].room THEN Active(r) \cup {s} ELSE Active(r)
      BY <1>3, <1>a, InsertSets
    <2>2. /\ \A d \in Calls \ {c} : call'[d] = call[d]
          /\ call[c].pc = "insert" /\ call[c].places > 0 /\ call'[c].pc = "increment"
      BY <1>3, <1>a DEF JoinInsert, At, Goto, TypeOK, CallState, CallRefs
    <2>3. CASE r = call[c].room
      <3>1. /\ Active(r)' = Active(r) \cup {s} /\ s \notin Active(r)
            /\ Hopeful(r)' = Hopeful(r) \ {c} /\ c \in Hopeful(r)
        BY <2>1, <2>2, <2>3 DEF Active, Hopeful
      <3>2. Cardinality(Active(r)') = Cardinality(Active(r)) + 1
        BY <3>1, <1>a, FS_AddElement
      <3>3. Cardinality(Hopeful(r)') = Cardinality(Hopeful(r)) - 1
        BY <3>1, <1>b, FS_RemoveElement
      <3> QED BY <3>2, <3>3, <1>a, <1>b, <1>c, <1>d
    <2>4. CASE r # call[c].room
      BY <1>1, <2>1, <2>2, <2>4 DEF Hopeful
    <2> QED BY <2>3, <2>4
  <1>4. ASSUME NEW c \in Calls, LeaveClose(c) PROVE Goal
    <2>1. Active(r)' \subseteq Active(r)
      BY <1>4, <1>a, CloseSets
    <2>2. Hopeful(r)' \subseteq Hopeful(r)
      BY <1>4, <1>a DEF LeaveClose, At, Goto, Hopeful, TypeOK, CallState
    <2> QED BY <1>1, <2>1, <2>2
  <1>5. ASSUME NEW c \in Calls,
               \/ JoinAdmit(c) \/ JoinTurnAway(c) \/ JoinIncrement(c)
               \/ \E u \in Users : LeaveFind(c, u)
               \/ LeaveLostRace(c) \/ LeaveQueue(c) \/ LeaveDecrement(c)
               \/ FailBeforeWriting(c) \/ FailHalfway(c)
        PROVE Goal
    <2>1. session' = session
      BY <1>5 DEF JoinAdmit, JoinTurnAway, JoinIncrement, LeaveFind, LeaveLostRace,
                  LeaveQueue, LeaveDecrement, FailBeforeWriting, FailHalfway
    <2>2. /\ \A d \in Calls \ {c} : call'[d] = call[d]
          /\ \/ call'[c].pc \notin {"check", "insert"}
             \/ /\ call[c].pc = "check"
                /\ call'[c].room = call[c].room
                /\ call'[c].places = call[c].places
      BY <1>5, <1>a DEF JoinAdmit, JoinTurnAway, JoinIncrement, LeaveFind, LeaveLostRace,
         LeaveQueue, LeaveDecrement, FailBeforeWriting, FailHalfway, At, Goto, Return,
         Idle, TypeOK, CallState
    <2> QED BY <1>1, <2>1, <2>2 DEF Active, Hopeful
  <1>6. CASE \E q \in Rooms : CreateRoom(q) \/ SoftDeleteRoom(q)
    BY <1>1, <1>6 DEF CreateRoom, SoftDeleteRoom, Active, Hopeful
  <1> QED BY <1>2, <1>3, <1>4, <1>5, <1>6 DEF Next, Step

\* A room is overbooked by at most one session for every other request that
\* can be in flight, whatever the interleaving of joins and leaves.
THEOREM OverbookingIsBounded == Spec => []AdmissionBound
  <1>1. Admission => AdmissionBound
    <2> SUFFICES ASSUME Admission, NEW r \in Rooms
                 PROVE  Cardinality(Active(r)) <= room[r].capacity + Cardinality(Calls) - 1
      BY DEF AdmissionBound
    <2>1. /\ Cardinality(Active(r)) \in Nat /\ Cardinality(Hopeful(r)) \in Nat
          /\ Cardinality(Calls) \in Nat
      BY FS_CardinalityType, CallSets, CallsNat, Hopeful(r) \in SUBSET Calls
      DEF Admission, Accounting, FiniteActive, Hopeful
    <2>2. room[r].capacity \in Nat
      <3>1. room[r].capacity \in Capacities
        BY DEF Admission, Accounting, Refs, TypeOK, RoomRow
      <3> QED BY <3>1, CapacitiesAssumption
    <2> QED BY <2>1, <2>2 DEF Admission
  <1> QED BY <1>1, AdmissionInit, AdmissionNext, PTL DEF Spec

(***************************************************************************)
(* Several active sessions of one user.                                    *)
(***************************************************************************)

Settling(u) == {c \in Calls : call[c].pc = "insert" /\ call[c].user = u}

PerUser ==
  /\ Refs
  /\ \A u \in Users :
       /\ IsFiniteSet(ActiveOf(u))
       /\ Cardinality(ActiveOf(u)) + Cardinality(Settling(u)) <= Cardinality(Calls)

LEMMA PerUserInit == Init => PerUser
  <1> SUFFICES ASSUME Init PROVE PerUser
    OBVIOUS
  <1>1. \A u \in Users : ActiveOf(u) = {} /\ Settling(u) = {}
    BY DEF Init, ActiveOf, Settling, Idle
  <1>2. ASSUME NEW u \in Users
        PROVE  /\ IsFiniteSet(ActiveOf(u))
               /\ Cardinality(ActiveOf(u)) + Cardinality(Settling(u)) <= Cardinality(Calls)
    <2>1. IsFiniteSet(ActiveOf(u)) /\ Cardinality(ActiveOf(u)) = 0
      BY <1>1, FS_EmptySet
    <2>2. Cardinality(Settling(u)) = 0
      BY <1>1, FS_EmptySet
    <2> QED BY <2>1, <2>2, CallsNat
  <1> QED BY <1>2, RefsInit DEF PerUser

LEMMA PerUserNext == PerUser /\ [Next]_vars => PerUser'
  <1> SUFFICES ASSUME PerUser, Next, NEW u \in Users
               PROVE  /\ IsFiniteSet(ActiveOf(u)')
                      /\ Cardinality(ActiveOf(u)') + Cardinality(Settling(u)')
                           <= Cardinality(Calls)
    <2>1. ASSUME PerUser, UNCHANGED vars PROVE PerUser'
      <3>1. \A u \in Users : ActiveOf(u)' = ActiveOf(u) /\ Settling(u)' = Settling(u)
        BY <2>1 DEF vars, ActiveOf, Settling
      <3> QED BY <2>1, <3>1, RefsNext DEF PerUser
    <2>2. CASE Next
      BY <2>2, RefsNext DEF PerUser
    <2> QED BY <2>1, <2>2
  <1> DEFINE Goal == /\ IsFiniteSet(ActiveOf(u)')
                     /\ Cardinality(ActiveOf(u)') + Cardinality(Settling(u)')
                          <= Cardinality(Calls)
  <1>a. /\ Refs /\ TypeOK /\ IsFiniteSet(ActiveOf(u))
        /\ Cardinality(ActiveOf(u)) \in Nat /\ Cardinality(Calls) \in Nat
    BY FS_CardinalityType, CallsNat DEF PerUser, Refs
  <1>b. IsFiniteSet(Settling(u)) /\ Cardinality(Settling(u)) \in Nat
    BY CallSets, Settling(u) \in SUBSET Calls DEF Settling
  <1>c. Cardinality(ActiveOf(u)) + Cardinality(Settling(u)) <= Cardinality(Calls)
    BY DEF PerUser
  <1>1. CASE ActiveOf(u)' \subseteq ActiveOf(u) /\ Settling(u)' \subseteq Settling(u)
    <2>1. /\ IsFiniteSet(ActiveOf(u)') /\ Cardinality(ActiveOf(u)') \in Nat
          /\ Cardinality(ActiveOf(u)') <= Cardinality(ActiveOf(u))
      BY <1>1, <1>a, FS_Subset, FS_CardinalityType
    <2>2. /\ Cardinality(Settling(u)') \in Nat
          /\ Cardinality(Settling(u)') <= Cardinality(Settling(u))
      BY <1>1, <1>b, FS_Subset, FS_CardinalityType
    <2> QED BY <2>1, <2>2, <1>a, <1>b, <1>c
  <1>2. ASSUME NEW c \in Calls, JoinAdmit(c) PROVE Goal
    <2>1. /\ ActiveOf(u)' = ActiveOf(u) /\ ActiveOf(call[c].user) = {}
          /\ \A d \in Calls \ {c} : call'[d] = call[d]
          /\ call'[c].user = call[c].user
      BY <1>2, <1>a DEF JoinAdmit, ActiveOf, Goto, TypeOK, CallState
    <2>2. CASE call[c].user = u
      <3>1. ActiveOf(u)' = {} /\ Settling(u)' \in SUBSET Calls
        BY <2>1, <2>2 DEF Settling
      <3>2. Cardinality(Settling(u)') \in Nat /\ Cardinality(Settling(u)') <= Cardinality(Calls)
        BY <3>1, CallSets
      <3> QED BY <3>1, <3>2, <1>a, FS_EmptySet
    <2>3. CASE call[c].user # u
      BY <1>1, <2>1, <2>3 DEF Settling
    <2> QED BY <2>2, <2>3
  <1>3. ASSUME NEW c \in Calls, JoinInsert(c) PROVE Goal
    <2>1. PICK s \in Sessions :
            /\ session[s].status = "none"
            /\ ActiveOf(u)' = IF u = call[c].user THEN ActiveOf(u) \cup {s}
                                                   ELSE ActiveOf(u)
      BY <1>3, <1>a, InsertSets
    <2>2. /\ \A d \in Calls \ {c} : call'[d] = call[d]
          /\ call[c].pc = "insert" /\ call'[c].pc = "increment"
      BY <1>3, <1>a DEF JoinInsert, At, Goto, TypeOK, CallState
    <2>3. CASE u = call[c].user
      <3>1. /\ ActiveOf(u)' = ActiveOf(u) \cup {s} /\ s \notin ActiveOf(u)
            /\ Settling(u)' = Settling(u) \ {c} /\ c \in Settling(u)
        BY <2>1, <2>2, <2>3 DEF ActiveOf, Settling
      <3>2. /\ IsFiniteSet(ActiveOf(u)')
            /\ Cardinality(ActiveOf(u)') = Cardinality(ActiveOf(u)) + 1
        BY <3>1, <1>a, FS_AddElement
      <3>3. Cardinality(Settling(u)') = Cardinality(Settling(u)) - 1
        BY <3>1, <1>b, FS_RemoveElement
      <3> QED BY <3>2, <3>3, <1>a, <1>b, <1>c
    <2>4. CASE u # call[c].user
      BY <1>1, <2>1, <2>2, <2>4 DEF Settling
    <2> QED BY <2>3, <2>4
  <1>4. ASSUME NEW c \in Calls, Step(c), ~JoinAdmit(c), ~JoinInsert(c) PROVE Goal
    <2>1. /\ \A d \in Calls \ {c} : call'[d] = call[d]
          /\ call'[c].pc # "insert"
      <3> USE <1>4, <1>a DEF At, Goto, Return, Idle, TypeOK, CallState
      <3>1. CASE \E v \in Users, q \in Rooms : JoinRead(c, v, q)
        BY <3>1 DEF JoinRead
      <3>2. CASE JoinTurnAway(c) \/ JoinIncrement(c) \/ LeaveLostRace(c)
                 \/ LeaveDecrement(c) \/ FailBeforeWriting(c)
        BY <3>2 DEF JoinTurnAway, JoinIncrement, LeaveLostRace, LeaveDecrement,
                    FailBeforeWriting
      <3>3. CASE \E v \in Users : LeaveFind(c, v)
        BY <3>3 DEF LeaveFind
      <3>4. CASE LeaveClose(c) \/ LeaveQueue(c) \/ FailHalfway(c)
        BY <3>4 DEF LeaveClose, LeaveQueue, FailHalfway
      <3> QED BY <3>1, <3>2, <3>3, <3>4 DEF Step
    <2>2. ActiveOf(u)' \subseteq ActiveOf(u)
      <3>1. CASE LeaveClose(c)
        BY <3>1, <1>a, CloseSets
      <3>2. CASE ~LeaveClose(c)
        <4>1. session' = session
          BY <1>4, <3>2 DEF Step, JoinRead, JoinTurnAway, JoinIncrement, LeaveFind,
             LeaveLostRace, LeaveQueue, LeaveDecrement, FailBeforeWriting, FailHalfway
        <4> QED BY <4>1 DEF ActiveOf
      <3> QED BY <3>1, <3>2
    <2> QED BY <1>1, <2>1, <2>2 DEF Settling
  <1>5. CASE \E q \in Rooms : CreateRoom(q) \/ SoftDeleteRoom(q)
    BY <1>1, <1>5 DEF CreateRoom, SoftDeleteRoom, ActiveOf, Settling
  <1> QED BY <1>2, <1>3, <1>4, <1>5 DEF Next

\* The check for an active session and the insert are apart, so a user can end
\* up in several sessions, but in no more than there are concurrent requests.
THEOREM SessionsPerUserAreBounded == Spec => []SessionsPerUserBound
  <1>1. PerUser => SessionsPerUserBound
    <2> SUFFICES ASSUME PerUser, NEW u \in Users
                 PROVE  Cardinality(ActiveOf(u)) <= Cardinality(Calls)
      BY DEF SessionsPerUserBound
    <2>1. /\ Cardinality(ActiveOf(u)) \in Nat /\ Cardinality(Settling(u)) \in Nat
          /\ Cardinality(Calls) \in Nat
      BY FS_CardinalityType, CallSets, CallsNat, Settling(u) \in SUBSET Calls
      DEF PerUser, Settling
    <2> QED BY <2>1 DEF PerUser
  <1> QED BY <1>1, PerUserInit, PerUserNext, PTL DEF Spec

(***************************************************************************)
(* One report per closed session.                                          *)
(***************************************************************************)

Reports == Refs /\ CompletedOnce

LEMMA ReportsInit == Init => Reports
  <1> SUFFICES ASSUME Init PROVE Reports
    OBVIOUS
  <1>1. ASSUME NEW s \in Sessions
        PROVE  Owing(s) = {} /\ completions[s] = 0 /\ session[s].status = "none"
    BY DEF Init, Owing, Idle
  <1> QED BY <1>1, RefsInit, FS_EmptySet DEF Reports, CompletedOnce

LEMMA ReportsNext == Reports /\ [Next]_vars => Reports'
  <1> SUFFICES ASSUME Reports, Next, NEW s \in Sessions
               PROVE  completions'[s] + Cardinality(Owing(s)')
                        = IF session'[s].status = "COMPELETED" THEN 1 ELSE 0
    <2>1. CASE UNCHANGED vars
      BY <2>1, RefsNext DEF vars, Reports, CompletedOnce, Owing
    <2> QED BY <2>1, RefsNext DEF Reports, CompletedOnce
  <1> DEFINE Goal == completions'[s] + Cardinality(Owing(s)')
                       = IF session'[s].status = "COMPELETED" THEN 1 ELSE 0
  <1>a. /\ Refs /\ TypeOK /\ CallRefs /\ completions[s] \in Nat
        /\ IsFiniteSet(Owing(s)) /\ Cardinality(Owing(s)) \in Nat
    BY CallSets, Owing(s) \in SUBSET Calls DEF Reports, Refs, TypeOK, Owing
  <1>b. completions[s] + Cardinality(Owing(s))
          = IF session[s].status = "COMPELETED" THEN 1 ELSE 0
    BY DEF Reports, CompletedOnce
  <1>1. CASE /\ completions'[s] = completions[s]
             /\ Owing(s)' = Owing(s)
             /\ (session'[s].status = "COMPELETED") = (session[s].status = "COMPELETED")
    BY <1>1, <1>b
  <1>2. ASSUME NEW c \in Calls, LeaveClose(c) PROVE Goal
    <2>1. /\ completions' = completions
          /\ call[c].session \in Sessions
          /\ session[call[c].session].status = "ACTIVE"
          /\ session' = [session EXCEPT ![call[c].session].status = "COMPELETED"]
          /\ \A d \in Calls \ {c} : call'[d] = call[d]
          /\ call[c].pc = "close" /\ call'[c].pc = "queue"
          /\ call'[c].session = call[c].session
      BY <1>2, <1>a DEF LeaveClose, At, Goto, TypeOK, CallState, CallRefs
    <2>2. CASE s = call[c].session
      <3>1. Owing(s)' = Owing(s) \cup {c} /\ c \notin Owing(s)
        BY <2>1, <2>2 DEF Owing
      <3>2. Cardinality(Owing(s)') = Cardinality(Owing(s)) + 1
        BY <3>1, <1>a, FS_AddElement
      <3>3. session'[s].status = "COMPELETED"
        BY <2>1, <2>2, <1>a DEF TypeOK, SessionRow
      <3> QED BY <3>2, <3>3, <2>1, <2>2, <1>a, <1>b
    <2>3. CASE s # call[c].session
      <3>1. Owing(s)' = Owing(s) /\ session'[s] = session[s]
        BY <2>1, <2>3, <1>a DEF Owing, TypeOK
      <3> QED BY <3>1, <2>1, <1>b
    <2> QED BY <2>2, <2>3
  <1>3. ASSUME NEW c \in Calls, LeaveQueue(c) PROVE Goal
    <2>1. /\ session' = session
          /\ completions' = [completions EXCEPT ![call[c].session] = @ + 1]
          /\ \A d \in Calls \ {c} : call'[d] = call[d]
          /\ call[c].pc = "queue" /\ call'[c].pc = "decrement"
          /\ call'[c].session = call[c].session
      BY <1>3, <1>a DEF LeaveQueue, At, Goto, TypeOK, CallState
    <2>2. CASE s = call[c].session
      <3>1. Owing(s)' = Owing(s) \ {c} /\ c \in Owing(s)
        BY <2>1, <2>2 DEF Owing
      <3>2. Cardinality(Owing(s)') = Cardinality(Owing(s)) - 1
        BY <3>1, <1>a, FS_RemoveElement
      <3>3. completions'[s] = completions[s] + 1
        BY <2>1, <2>2, <1>a DEF TypeOK
      <3> QED BY <3>2, <3>3, <2>1, <1>a, <1>b
    <2>3. CASE s # call[c].session
      <3>1. Owing(s)' = Owing(s) /\ completions'[s] = completions[s]
        BY <2>1, <2>3, <1>a DEF Owing, TypeOK
      <3> QED BY <3>1, <2>1, <1>b
    <2> QED BY <2>2, <2>3
  <1>4. ASSUME NEW c \in Calls, Step(c), ~LeaveClose(c), ~LeaveQueue(c) PROVE Goal
    <2>1. completions' = completions
      BY <1>4 DEF Step, JoinRead, JoinAdmit, JoinTurnAway, JoinInsert, JoinIncrement,
         LeaveFind, LeaveLostRace, LeaveDecrement, FailBeforeWriting, FailHalfway
    <2>2. (session'[s].status = "COMPELETED") = (session[s].status = "COMPELETED")
      <3>1. CASE JoinInsert(c)
        BY <3>1, <1>a DEF JoinInsert, TypeOK
      <3>2. CASE ~JoinInsert(c)
        <4>1. session' = session
          BY <1>4, <3>2 DEF Step, JoinRead, JoinAdmit, JoinTurnAway, JoinIncrement,
             LeaveFind, LeaveLostRace, LeaveDecrement, FailBeforeWriting, FailHalfway
        <4> QED BY <4>1
      <3> QED BY <3>1, <3>2
    <2>3. /\ \A d \in Calls \ {c} : call'[d] = call[d]
          /\ \/ call[c].pc # "queue" /\ call'[c].pc \notin {"queue", "lostStats"}
                                    /\ call[c].pc # "lostStats"
             \/ /\ call[c].pc = "queue" /\ call'[c].pc = "lostStats"
                /\ call'[c].session = call[c].session
      <3> USE <1>4, <1>a DEF At, Goto, Return, Idle, TypeOK, CallState
      <3>1. CASE \E v \in Users, q \in Rooms : JoinRead(c, v, q)
        BY <3>1 DEF JoinRead
      <3>2. CASE JoinTurnAway(c) \/ JoinIncrement(c) \/ LeaveLostRace(c)
                 \/ LeaveDecrement(c) \/ FailBeforeWriting(c)
        BY <3>2 DEF JoinTurnAway, JoinIncrement, LeaveLostRace, LeaveDecrement,
                    FailBeforeWriting
      <3>3. CASE \E v \in Users : LeaveFind(c, v)
        BY <3>3 DEF LeaveFind
      <3>4. CASE JoinAdmit(c) \/ JoinInsert(c)
        BY <3>4 DEF JoinAdmit, JoinInsert
      <3>5. CASE FailHalfway(c)
        BY <3>5 DEF FailHalfway
      <3> QED BY <3>1, <3>2, <3>3, <3>4, <3>5 DEF Step
    <2>4. Owing(s)' = Owing(s)
      BY <2>3 DEF Owing
    <2> QED BY <1>1, <2>1, <2>2, <2>4
  <1>5. CASE \E q \in Rooms : CreateRoom(q) \/ SoftDeleteRoom(q)
    BY <1>1, <1>5 DEF CreateRoom, SoftDeleteRoom, Owing
  <1> QED BY <1>2, <1>3, <1>4, <1>5 DEF Next

\* Leaves and disconnects racing for a session report it as completed once,
\* and only the request whose guarded update closed it owes the report.
THEOREM SessionsAreReportedOnce == Spec => []CompletedOnce
  <1>1. Reports => CompletedOnce
    BY DEF Reports
  <1> QED BY <1>1, ReportsInit, ReportsNext, PTL DEF Spec

(***************************************************************************)
(* The host's saves.                                                       *)
(***************************************************************************)

HostRefs ==
  /\ Refs
  /\ FiniteActive
  /\ entity \in [Savers -> Entity \cup {NoEntity}]

LEMMA Entities == \A e \in Entity : e # NoEntity
  BY NoneAssumption DEF Entity, NoEntity

LEMMA HostRefsInit == HostInit => HostRefs
  <1> SUFFICES ASSUME HostInit PROVE HostRefs
    OBVIOUS
  <1>1. Refs /\ FiniteActive
    BY AccountingInit DEF HostInit, Accounting
  <1> QED BY <1>1 DEF HostInit, HostRefs

\* A save writes columns of an entity that was read before into one row, its counter or
\* nothing there; sessions, requests and the other rooms stay.
LEMMA Saving ==
  ASSUME HostRefs, NEW h \in Savers, HostSave(h)
  PROVE  /\ HostRefs'
         /\ entity[h].room \in Rooms
         /\ \A r \in Rooms : /\ Active(r)' = Active(r) /\ Uncounted(r)' = Uncounted(r)
                              /\ Unreleased(r)' = Unreleased(r)
         /\ room'[entity[h].room].participants
              \in {entity[h].row.participants, room[entity[h].room].participants}
         /\ \A r \in Rooms \ {entity[h].room} : room'[r] = room[r]
         /\ entity'[h] = NoEntity
  <1>1. TypeOK /\ SessionRefs /\ CallRefs /\ FiniteActive
          /\ entity \in [Savers -> Entity \cup {NoEntity}]
    BY DEF HostRefs, Refs
  <1>2. PICK e \in Entity : e = entity[h]
    BY <1>1 DEF HostSave
  <1> DEFINE new == Updated(e, room[e.room])
  <1>3. /\ room' = [room EXCEPT ![e.room] = new]
        /\ entity' = [entity EXCEPT ![h] = NoEntity]
        /\ UNCHANGED <<session, completions, call>>
    BY <1>2 DEF HostSave
  <1>4. /\ e.room \in Rooms
        /\ new \in RoomRow
        /\ new.participants \in {e.row.participants, room[e.room].participants}
    <2>1. e.room \in Rooms /\ e.row \in RoomRow /\ room[e.room] \in RoomRow
      BY <1>1 DEF Entity, TypeOK
    <2> QED BY <2>1 DEF Updated, Column, RoomRow
  <1> HIDE DEF new
  <1>5. TypeOK'
    BY <1>1, <1>3, <1>4 DEF TypeOK
  <1>6. SessionRefs' /\ CallRefs'
    BY <1>1, <1>3 DEF SessionRefs, CallRefs
  <1>7. \A r \in Rooms : /\ Active(r)' = Active(r) /\ Uncounted(r)' = Uncounted(r)
                          /\ Unreleased(r)' = Unreleased(r)
    BY <1>3 DEF Active, Uncounted, Unreleased
  <1>8. entity' \in [Savers -> Entity \cup {NoEntity}] /\ entity'[h] = NoEntity
    BY <1>1, <1>3
  <1>9. room'[e.room] = new /\ \A r \in Rooms \ {e.room} : room'[r] = room[r]
    BY <1>1, <1>3, <1>4 DEF TypeOK
  <1>10. FiniteActive'
    BY <1>1, <1>7 DEF FiniteActive
  <1> QED BY <1>2, <1>4, <1>5, <1>6, <1>7, <1>8, <1>9, <1>10 DEF HostRefs, Refs

\* A saver's read, its look-up and its failure touch nobody's row.
LEMMA Holding ==
  ASSUME HostRefs,
         UNCHANGED hostVars \/ \E h \in Savers :
           (\E r \in Rooms : HostRead(h, r)) \/ HostLookUp(h) \/ HostFail(h)
  PROVE  HostRefs' /\ UNCHANGED vars
  <1>1. UNCHANGED vars
    BY DEF hostVars, HostRead, HostLookUp, HostFail
  <1>2. entity' \in [Savers -> Entity \cup {NoEntity}]
    <2>1. ASSUME NEW h \in Savers, NEW r \in Rooms, HostRead(h, r)
          PROVE  entity' \in [Savers -> Entity \cup {NoEntity}]
      <3>1. PICK cap \in Capacities :
              entity' = [entity EXCEPT ![h] =
                           [room |-> r, row |-> [room[r] EXCEPT !.capacity = cap],
                            found |-> None]]
        BY <2>1 DEF HostRead
      <3>2. [room[r] EXCEPT !.capacity = cap] \in RoomRow
        BY DEF HostRefs, Refs, TypeOK, RoomRow
      <3> QED BY <3>1, <3>2 DEF HostRefs, Entity
    <2>2. ASSUME NEW h \in Savers, HostFail(h)
          PROVE  entity' \in [Savers -> Entity \cup {NoEntity}]
      BY <2>2 DEF HostFail, HostRefs
    <2>3. ASSUME NEW h \in Savers, HostLookUp(h)
          PROVE  entity' \in [Savers -> Entity \cup {NoEntity}]
      <3>1. PICK e \in Entity : e = entity[h]
        BY <2>3 DEF HostLookUp, HostRefs
      <3>2. entity' = [entity EXCEPT ![h] =
                         [room |-> e.room, row |-> e.row, found |-> room[e.room]]]
        BY <2>3, <3>1 DEF HostLookUp
      <3>3. [room |-> e.room, row |-> e.row, found |-> room[e.room]] \in Entity
        BY DEF HostRefs, Refs, TypeOK, Entity
      <3> QED BY <3>2, <3>3 DEF HostRefs
    <2> QED BY <2>1, <2>2, <2>3 DEF HostRefs, hostVars
  <1>3. TypeOK' /\ SessionRefs' /\ CallRefs' /\ FiniteActive'
    BY <1>1 DEF HostRefs, Refs, TypeOK, SessionRefs, CallRefs, FiniteActive, Active, vars
  <1> QED BY <1>1, <1>2, <1>3 DEF HostRefs, Refs

LEMMA HostRefsNext == HostRefs /\ [HostNext]_hostVars => HostRefs'
  <1> SUFFICES ASSUME HostRefs, [HostNext]_hostVars PROVE HostRefs'
    OBVIOUS
  <1>1. CASE Next /\ UNCHANGED entity
    <2>1. Refs' /\ \A r \in Rooms : IsFiniteSet(Active(r)')
      BY <1>1, RefsNext, DriftNext DEF HostRefs
    <2> QED BY <1>1, <2>1 DEF HostRefs, FiniteActive
  <1> QED BY <1>1, Saving, Holding DEF HostNext

\* Whatever interleaves: when a counter moves away from its sessions, or back, a save
\* has just written a counter that was stale since the saver's read.
THEOREM OnlySavesDrift == HostSpec => OnlyStaleSavesDrift
  <1> DEFINE Stale == \A r \in Rooms : Drift(r)' # Drift(r) =>
                        \E h \in Savers : /\ entity[h].room = r
                                          /\ entity'[h] = NoEntity
                                          /\ entity[h].row.participants # room[r].participants
  <1>1. ASSUME HostRefs, [HostNext]_hostVars PROVE Stale
    <2> SUFFICES ASSUME NEW r \in Rooms, Drift(r)' # Drift(r)
                 PROVE  \E h \in Savers : /\ entity[h].room = r
                                          /\ entity'[h] = NoEntity
                                          /\ entity[h].row.participants # room[r].participants
      OBVIOUS
    <2>1. CASE Next
      BY <1>1, <2>1, DriftNext DEF HostRefs
    <2>2. ASSUME UNCHANGED vars PROVE FALSE
      BY <2>2 DEF vars, Drift, Active, Uncounted, Unreleased
    <2>3. ASSUME NEW h \in Savers, HostSave(h)
          PROVE  /\ entity[h].room = r
                 /\ entity'[h] = NoEntity
                 /\ entity[h].row.participants # room[r].participants
      BY <1>1, <2>3, Saving DEF Drift
    <2> QED BY <1>1, <2>1, <2>2, <2>3, Holding DEF HostNext
  <1> QED BY <1>1, HostRefsInit, HostRefsNext, PTL DEF HostSpec, OnlyStaleSavesDrift

=============================================================================
