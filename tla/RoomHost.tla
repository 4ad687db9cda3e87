------------------------------ MODULE RoomHost ------------------------------
(***************************************************************************)
(* RoomMembership composed with the host's writes to the same room row.    *)
(*                                                                         *)
(* update, changePomodoro, the four timer handlers and the timer worker    *)
(* read the whole row, await something else, and save the entity.  The     *)
(* ORM's save is two statements: it selects the row again, then updates    *)
(* every column in which the entity differs from what it found.  So the    *)
(* counter and deletedAt the entity still holds from its read overwrite    *)
(* what join, leave and softDelete wrote before the SELECT, and a column   *)
(* found equal keeps what they write after it.                             *)
(* The columns the timer handlers mean to change are in PhaseTimer.        *)
(***************************************************************************)
EXTENDS RoomMembership

CONSTANT Savers  \* host requests and worker runs that hold a room entity

VARIABLE entity  \* [Savers -> the room id and row each of them holds]

hostVars == <<vars, entity>>

NoEntity == [room |-> None]
Entity   == [room : Rooms, row : RoomRow, found : RoomRow \cup {None}]

HostTypeOK == TypeOK /\ entity \in [Savers -> Entity \cup {NoEntity}]

HostInit == Init /\ entity = [h \in Savers |-> NoEntity]

\* findOneBy sees no soft-deleted row; the handler then assigns its columns:
\* maxCapacity in update, none of the columns kept here in the others.
HostRead(h, r) ==
  /\ entity[h] = NoEntity
  /\ room[r].status = "open"
  /\ \E cap \in Capacities :
       entity' = [entity EXCEPT ![h] =
         [room |-> r, row |-> [room[r] EXCEPT !.capacity = cap], found |-> None]]
  /\ UNCHANGED vars

\* save, first statement: the row as it is now, soft-deleted or not.
HostLookUp(h) ==
  /\ entity[h] # NoEntity
  /\ entity[h].found = None
  /\ entity' = [entity EXCEPT ![h] =
       [room |-> @.room, row |-> @.row, found |-> room[@.room]]]
  /\ UNCHANGED vars

\* What UPDATE leaves in a column: the entity's value if SELECT found another.
Column(new, found, current) == IF new # found THEN new ELSE current

Updated(e, current) ==
  [status       |-> Column(e.row.status, e.found.status, current.status),
   capacity     |-> Column(e.row.capacity, e.found.capacity, current.capacity),
   participants |-> Column(e.row.participants, e.found.participants,
                           current.participants)]

\* save, second statement.
HostSave(h) ==
  /\ entity[h] # NoEntity
  /\ entity[h].found # None
  /\ LET e == entity[h]
     IN  room' = [room EXCEPT ![e.room] = Updated(e, @)]
  /\ entity' = [entity EXCEPT ![h] = NoEntity]
  /\ UNCHANGED <<session, completions, call>>

\* The upload, a queue call or a statement of the save rejects.
HostFail(h) ==
  /\ entity[h] # NoEntity
  /\ entity' = [entity EXCEPT ![h] = NoEntity]
  /\ UNCHANGED vars

HostNext ==
  \/ Next /\ UNCHANGED entity
  \/ \E h \in Savers : \/ \E r \in Rooms : HostRead(h, r)
                       \/ HostLookUp(h)
                       \/ HostSave(h)
                       \/ HostFail(h)

HostSpec == HostInit /\ [][HostNext]_hostVars

-----------------------------------------------------------------------------
(* Properties.                                                             *)

\* How far a room's counter is from what its sessions and the requests in
\* flight account for.
Drift(r) == room[r].participants - Cardinality(Active(r))
              + Cardinality(Uncounted(r)) - Cardinality(Unreleased(r))

\* join, leave and deletion never move a counter away from, nor back to, its
\* sessions: when the drift changes, a save has just written a counter that
\* was stale since the saver's read.
OnlyStaleSavesDrift ==
  [][\A r \in Rooms : Drift(r)' # Drift(r) =>
       \E h \in Savers : /\ entity[h].room = r
                         /\ entity'[h] = NoEntity
                         /\ entity[h].row.participants # room[r].participants]_hostVars
=============================================================================
