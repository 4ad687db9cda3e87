--------------------------- MODULE RoomMembership ---------------------------
(***************************************************************************)
(* Joining and leaving a study room (rooms.service.ts: create, join,       *)
(* leave, handleUserDisconnect, softDeleteRoom).                           *)
(*                                                                         *)
(* A room row carries a participant counter that is kept apart from the    *)
(* session rows it counts.  join and leave touch both with several awaited *)
(* statements and no transaction, so two requests interleave between any   *)
(* two of them.  A member of Calls is one request in flight; every awaited *)
(* statement that reads or writes shared state is one action.              *)
(***************************************************************************)
EXTENDS Integers, FiniteSets

CONSTANTS
  Users,        \* user ids
  Rooms,        \* room ids
  Sessions,     \* study-session ids the database may hand out
  Calls,        \* requests that can be in flight at the same time
  Capacities,   \* values the host may give maxCapacity
  None          \* null

ASSUME CallsAssumption == IsFiniteSet(Calls)
ASSUME CapacitiesAssumption == Capacities \subseteq Nat \ {0}
ASSUME NoneAssumption == None \notin Users \cup Rooms \cup Sessions

VARIABLES
  room,         \* room rows: deletedAt, maxCapacity, currentNumParticipents
  session,      \* study-session rows: status, userId, roomId
  completions,  \* SESSION_COMPLETED jobs with incrementSession, per session
  call          \* the locals of each request and the statement it runs next

vars == <<room, session, completions, call>>

PCs == {"idle", "check", "insert", "increment", "close", "queue", "decrement",
        "lostIncrement", "lostStats", "lostDecrement"}

RoomRow == [status : {"absent", "open", "deleted"},
            capacity : Capacities, participants : Int]

SessionRow == [status : {"none", "ACTIVE", "COMPELETED"},
               user : Users \cup {None}, room : Rooms \cup {None}]

\* places: maxCapacity - currentNumParticipents as join read them.
CallState == [pc : PCs, user : Users \cup {None}, room : Rooms \cup {None},
              session : Sessions \cup {None}, places : Int]

Idle == [pc |-> "idle", user |-> None, room |-> None,
         session |-> None, places |-> 0]

TypeOK ==
  /\ room \in [Rooms -> RoomRow]
  /\ session \in [Sessions -> SessionRow]
  /\ completions \in [Sessions -> Nat]
  /\ call \in [Calls -> CallState]

Init ==
  /\ room \in [Rooms -> [status : {"absent"}, capacity : Capacities, participants : {0}]]
  /\ session = [s \in Sessions |-> [status |-> "none", user |-> None, room |-> None]]
  /\ completions = [s \in Sessions |-> 0]
  /\ call = [c \in Calls |-> Idle]

Active(r)   == {s \in Sessions : session[s].status = "ACTIVE" /\ session[s].room = r}
ActiveOf(u) == {s \in Sessions : session[s].status = "ACTIVE" /\ session[s].user = u}

At(c, here)   == call[c].pc = here
Goto(c, next) == call' = [call EXCEPT ![c].pc = next]
Return(c)     == call' = [call EXCEPT ![c] = Idle]

-----------------------------------------------------------------------------
(* Rooms.  The capacity the host chose is the one Init picked.             *)

CreateRoom(r) ==
  /\ room[r].status = "absent"
  /\ room' = [room EXCEPT ![r].status = "open"]
  /\ UNCHANGED <<session, completions, call>>

\* softDelete sets deletedAt and leaves the sessions and the counter alone.
SoftDeleteRoom(r) ==
  /\ room[r].status = "open"
  /\ room' = [room EXCEPT ![r].status = "deleted"]
  /\ UNCHANGED <<session, completions, call>>

-----------------------------------------------------------------------------
(* join.  A join refused for an unknown room or a wrong passcode writes    *)
(* nothing and keeps nothing, so it is no step here.                       *)

JoinRead(c, u, r) ==
  /\ At(c, "idle")
  /\ room[r].status = "open"
  /\ call' = [call EXCEPT ![c] =
       [pc |-> "check", user |-> u, room |-> r, session |-> None,
        places |-> room[r].capacity - room[r].participants]]
  /\ UNCHANGED <<room, session, completions>>

\* Mutant: the capacity check is dropped.
JoinAdmitWhenFull(c) ==
  /\ At(c, "check")
  /\ ActiveOf(call[c].user) = {}
  /\ Goto(c, "insert")
  /\ UNCHANGED <<room, session, completions>>

\* Mutant: the user's active session is not looked for.
JoinAdmitTwice(c) ==
  /\ At(c, "check")
  /\ call[c].places > 0
  /\ Goto(c, "insert")
  /\ UNCHANGED <<room, session, completions>>

\* The capacity is compared with the counter JoinRead took.
JoinAdmit(c) ==
  /\ At(c, "check")
  /\ ActiveOf(call[c].user) = {}
  /\ call[c].places > 0
  /\ Goto(c, "insert")
  /\ UNCHANGED <<room, session, completions>>

\* Already here (a refresh), in another room (a conflict), or full.
JoinTurnAway(c) ==
  /\ At(c, "check")
  /\ ActiveOf(call[c].user) # {} \/ call[c].places <= 0
  /\ Return(c)
  /\ UNCHANGED <<room, session, completions>>

\* Mutant: the two ids of the new row are swapped.
JoinInsertSwapped(c) ==
  /\ At(c, "insert")
  /\ \E s \in Sessions :
       /\ session[s].status = "none"
       /\ session' = [session EXCEPT ![s] =
            [status |-> "ACTIVE", user |-> call[c].room, room |-> call[c].user]]
  /\ Goto(c, "increment")
  /\ UNCHANGED <<room, completions>>

JoinInsert(c) ==
  /\ At(c, "insert")
  /\ \E s \in Sessions :
       /\ session[s].status = "none"
       /\ session' = [session EXCEPT ![s] =
            [status |-> "ACTIVE", user |-> call[c].user, room |-> call[c].room]]
  /\ Goto(c, "increment")
  /\ UNCHANGED <<room, completions>>

JoinIncrement(c) ==
  /\ At(c, "increment")
  /\ room' = [room EXCEPT ![call[c].room].participants = @ + 1]
  /\ Return(c)
  /\ UNCHANGED <<session, completions>>

-----------------------------------------------------------------------------
(* leave, called by the controller and by handleUserDisconnect.  findOne   *)
(* returns any one of the user's ACTIVE sessions; when its room is soft    *)
(* deleted the joined room is null and leave throws before it writes.      *)

LeaveFind(c, u) ==
  /\ At(c, "idle")
  /\ \E s \in ActiveOf(u) :
       /\ room[session[s].room].status = "open"
       /\ call' = [call EXCEPT ![c] =
            [pc |-> "close", user |-> u, room |-> session[s].room,
             session |-> s, places |-> 0]]
  /\ UNCHANGED <<room, session, completions>>

\* Mutant: the update names the session's id only.
LeaveCloseUnguarded(c) ==
  /\ At(c, "close")
  /\ session' = [session EXCEPT ![call[c].session].status = "COMPELETED"]
  /\ Goto(c, "queue")
  /\ UNCHANGED <<room, completions>>

\* UPDATE ... WHERE status = ACTIVE affected the row.
LeaveClose(c) ==
  /\ At(c, "close")
  /\ session[call[c].session].status = "ACTIVE"
  /\ session' = [session EXCEPT ![call[c].session].status = "COMPELETED"]
  /\ Goto(c, "queue")
  /\ UNCHANGED <<room, completions>>

\* Mutant: the number of affected rows is ignored.
LeaveLostRaceIgnored(c) ==
  /\ At(c, "close")
  /\ session[call[c].session].status # "ACTIVE"
  /\ Goto(c, "queue")
  /\ UNCHANGED <<room, session, completions>>

\* It affected no row: another leave closed the session first.
LeaveLostRace(c) ==
  /\ At(c, "close")
  /\ session[call[c].session].status # "ACTIVE"
  /\ Return(c)
  /\ UNCHANGED <<room, session, completions>>

LeaveQueue(c) ==
  /\ At(c, "queue")
  /\ completions' = [completions EXCEPT ![call[c].session] = @ + 1]
  /\ Goto(c, "decrement")
  /\ UNCHANGED <<room, session>>

LeaveDecrement(c) ==
  /\ At(c, "decrement")
  /\ room' = [room EXCEPT ![call[c].room].participants = @ - 1]
  /\ Return(c)
  /\ UNCHANGED <<session, completions>>

-----------------------------------------------------------------------------
(* An awaited statement rejects, or the process dies before it runs.  What *)
(* was written stays; a request that had written keeps its slot, so that   *)
(* what it still owed remains visible.                                     *)

FailBeforeWriting(c) ==
  /\ call[c].pc \in {"check", "insert", "close"}
  /\ Return(c)
  /\ UNCHANGED <<room, session, completions>>

FailHalfway(c) ==
  /\ \/ At(c, "increment") /\ Goto(c, "lostIncrement")
     \/ At(c, "queue")     /\ Goto(c, "lostStats")
     \/ At(c, "decrement") /\ Goto(c, "lostDecrement")
  /\ UNCHANGED <<room, session, completions>>

Step(c) ==
  \/ \E u \in Users, r \in Rooms : JoinRead(c, u, r)
  \/ JoinAdmit(c) \/ JoinTurnAway(c) \/ JoinInsert(c) \/ JoinIncrement(c)
  \/ \E u \in Users : LeaveFind(c, u)
  \/ LeaveClose(c) \/ LeaveLostRace(c) \/ LeaveQueue(c) \/ LeaveDecrement(c)
  \/ FailBeforeWriting(c) \/ FailHalfway(c)

Next ==
  \/ \E r \in Rooms : CreateRoom(r) \/ SoftDeleteRoom(r)
  \/ \E c \in Calls : Step(c)

Spec == Init /\ [][Next]_vars

-----------------------------------------------------------------------------
(* Properties.                                                             *)

\* Requests that inserted their session and have not counted it.
Uncounted(r) == {c \in Calls : /\ call[c].pc \in {"increment", "lostIncrement"}
                               /\ call[c].room = r}

\* Requests that closed their session and have not uncounted it.
Unreleased(r) ==
  {c \in Calls : /\ call[c].pc \in {"queue", "decrement", "lostStats", "lostDecrement"}
                 /\ call[c].room = r}

\* Requests that closed the session and owe, or lost, its report.
Owing(s) == {c \in Calls : /\ call[c].pc \in {"queue", "lostStats"}
                           /\ call[c].session = s}

\* The counter of a room is its number of ACTIVE sessions, corrected only by
\* the requests that stand, or died, between writing the session and adjusting
\* the counter: no interleaving of joins, leaves, disconnects and deletions
\* lets it drift.
CounterAccounting ==
  \A r \in Rooms :
    room[r].participants = Cardinality(Active(r)) - Cardinality(Uncounted(r))
                                                  + Cardinality(Unreleased(r))

\* The capacity check uses a counter read several statements earlier: a room
\* can be overbooked, yet never by more than the other concurrent requests.
AdmissionBound ==
  \A r \in Rooms :
    Cardinality(Active(r)) <= room[r].capacity + Cardinality(Calls) - 1

\* A join looks for an active session and inserts its own later: a user can
\* end up with several, yet never with more than there are requests.
SessionsPerUserBound ==
  \A u \in Users : Cardinality(ActiveOf(u)) <= Cardinality(Calls)

\* However many leaves and disconnects race for a session, it is reported as
\* completed at most once, and only after it was closed; a closed session that
\* is not reported has exactly one request that owes, or lost, the report.
CompletedOnce ==
  \A s \in Sessions :
    completions[s] + Cardinality(Owing(s))
      = IF session[s].status = "COMPELETED" THEN 1 ELSE 0

-----------------------------------------------------------------------------
(* What the repository says and a deleted room refutes.                    *)

\* A disconnect will "close study session": a user who has an active session
\* has one that leave can close.
DisconnectCloses ==
  \A u \in Users : ActiveOf(u) # {} =>
    \E s \in ActiveOf(u) : room[session[s].room].status = "open"
=============================================================================
