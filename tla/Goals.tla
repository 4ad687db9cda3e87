------------------------------- MODULE Goals --------------------------------
(***************************************************************************)
(* Study goals and what the owner's room hears of them (goals.service.ts). *)
(*                                                                         *)
(* A handler reads a goal, decides what kind of event its change is, saves *)
(* the entity it read, looks for an active session of the owner, and emits *)
(* the event with the entity to that session's room.  A member of Calls is *)
(* one handler in flight; one that is refused writes nothing and is no     *)
(* step.  The ORM's save looks the row up, inserts it if it is gone and    *)
(* otherwise writes the columns that differ.                               *)
(***************************************************************************)
CONSTANTS
  Ids,       \* goal ids; a uuid is never drawn twice
  Users,
  Titles,
  Calls,     \* handlers in flight at the same time
  None       \* null

VARIABLES
  row,        \* the goal table
  used,       \* ids that were drawn
  call,       \* the locals of each handler
  heard,      \* history: each goal as the owner's room last heard of it
  stale,      \* history: calls whose row another call wrote since they read it
  uncertain   \* history: goals whose last change the room heard wrong or not at all

vars == <<row, used, call, heard, stale, uncertain>>

Goal == [owner : Users, title : Titles, done : BOOLEAN, parent : Ids \cup {None}]

Columns == {"title", "done"}

Kinds == {"USER_CREATED_GOAL", "USER_UPDATED_GOAL", "USER_COMPLETED_GOAL", "USER_UNCHECKED_GOAL"}

\* entity: the goal as the handler will save it.  wrote, a history: the done column
\* before and after the handler's write.
Call == [pc : {"create", "lookup", "insert", "announce"}, id : Ids, entity : Goal, kind : Kinds,
         columns : SUBSET Columns, wrote : BOOLEAN \X BOOLEAN]
        \cup [pc : {"update"}, id : Ids, entity : Goal, kind : Kinds, columns : SUBSET Columns,
              wrote : BOOLEAN \X BOOLEAN]
        \cup [pc : {"delete"}, id : Ids]

ASSUME NoneAssumption == None \notin Ids \cup Goal \cup Call

Heard == [title : Titles, done : BOOLEAN]

Goals == {g \in Ids : row[g] # None}

TypeOK ==
  /\ row \in [Ids -> Goal \cup {None}]
  /\ used \subseteq Ids
  /\ call \in [Calls -> Call \cup {None}]
  /\ heard \in [Ids -> Heard \cup {None}]
  /\ stale \subseteq Calls
  /\ uncertain \subseteq Ids
  /\ \A g \in Goals : row[g].parent \in Goals \cup {None}

Init ==
  /\ row = [g \in Ids |-> None]
  /\ used = {}
  /\ call = [c \in Calls |-> None]
  /\ heard = [g \in Ids |-> None]
  /\ stale = {}
  /\ uncertain = {}

At(c, pc) == call[c] # None /\ call[c].pc = pc

Begin(c, locals) ==
  /\ call[c] = None
  /\ call' = [call EXCEPT ![c] = locals]
  /\ UNCHANGED <<row, used, heard, stale, uncertain>>

\* The other calls that hold what they read of these goals.
Holding(gs, c) == {d \in Calls \ {c} : call[d] # None /\ call[d].id \in gs}

-----------------------------------------------------------------------------
(* Handlers.                                                               *)

\* The parent is any goal there is or was: create does not look at it.
Create(c, o) ==
  \E g \in Ids \ used, t \in Titles, p \in used \cup {None} :
    /\ call[c] = None
    /\ used' = used \cup {g}
    /\ call' = [call EXCEPT ![c] =
         [pc |-> "create", id |-> g, kind |-> "USER_CREATED_GOAL", columns |-> {},
          entity |-> [owner |-> o, title |-> t, done |-> FALSE, parent |-> p],
          wrote |-> <<FALSE, FALSE>>]]
    /\ UNCHANGED <<row, heard, stale, uncertain>>

\* Mutant: whatever it was before.
KindOfPatch(before, after) ==
  IF after THEN "USER_COMPLETED_GOAL" ELSE "USER_UPDATED_GOAL"

KindOf(before, after) ==
  IF ~ before /\ after THEN "USER_COMPLETED_GOAL"
  ELSE IF before /\ ~ after THEN "USER_UNCHECKED_GOAL" ELSE "USER_UPDATED_GOAL"

Edit(c, g, entity) ==
  Begin(c, [pc |-> "lookup", id |-> g, entity |-> entity, columns |-> {},
            kind |-> KindOf(row[g].done, entity.done), wrote |-> <<FALSE, FALSE>>])

\* update: the body has a title, a mark, or both.
Update(c, g) ==
  \E t \in Titles, d \in BOOLEAN : Edit(c, g, [row[g] EXCEPT !.title = t, !.done = d])

Remove(c, g) == Begin(c, [pc |-> "delete", id |-> g])

-----------------------------------------------------------------------------
(* save and remove.                                                        *)

LookUp(c) ==
  /\ At(c, "lookup")
  /\ LET l == call[c] IN
     call' = [call EXCEPT ![c] =
       IF row[l.id] = None
       THEN [l EXCEPT !.pc = "insert"]
       ELSE [l EXCEPT !.pc = "update",
                      !.columns = {k \in Columns : l.entity[k] # row[l.id][k]}]]
  /\ UNCHANGED <<row, used, heard, stale, uncertain>>

\* The event is yet to come.  before: the row's done column.
Write(c, goal, before) ==
  LET g == call[c].id IN
  /\ row' = [row EXCEPT ![g] = goal]
  /\ call' = [call EXCEPT ![c].pc = "announce", ![c].columns = {},
                              ![c].wrote = <<before, goal.done>>]
  /\ stale' = stale \cup IF goal # row[g] THEN Holding({g}, c) ELSE {}
  /\ UNCHANGED <<used, heard, uncertain>>

\* The foreign key lets a goal in below one that exists; both the new goal and one
\* that was gone when save looked for it.
Insert(c) ==
  /\ At(c, "create") \/ At(c, "insert")
  /\ row[call[c].id] = None
  /\ call[c].entity.parent \in Goals \cup {None}
  /\ Write(c, call[c].entity, FALSE)

\* Mutant: the save leaves the mark alone.
WriteBody(c) ==
  /\ At(c, "update")
  /\ row[call[c].id] # None
  /\ LET l == call[c] IN
     Write(c, [row[l.id] EXCEPT !.title = l.entity.title], row[l.id].done)

WriteColumns(c) ==
  /\ At(c, "update")
  /\ row[call[c].id] # None
  /\ LET l == call[c]
         goal == [row[l.id] EXCEPT
                    !.title = IF "title" \in l.columns THEN l.entity.title ELSE @,
                    !.done = IF "done" \in l.columns THEN l.entity.done ELSE @]
     IN Write(c, goal, row[l.id].done)

\* The row was removed after the save looked it up: the update affects no row.
WriteNothing(c) ==
  /\ At(c, "update")
  /\ row[call[c].id] = None
  /\ call' = [call EXCEPT ![c].pc = "announce", ![c].columns = {}]
  /\ UNCHANGED <<row, used, heard, stale, uncertain>>

\* A goal and those below it, at any depth: they are in every set that has this goal
\* and the goals below its members.
Cascade(g) ==
  {h \in Ids : \A s \in SUBSET Ids :
     g \in s /\ (\A k \in Goals : row[k].parent \in s => k \in s) => h \in s}

\* Mutant: what is below the goal stays.
DeleteAlone(c) ==
  /\ At(c, "delete")
  /\ row' = [row EXCEPT ![call[c].id] = None]
  /\ stale' = (stale \cup Holding({call[c].id}, c)) \ {c}
  /\ call' = [call EXCEPT ![c] = None]
  /\ UNCHANGED <<used, heard, uncertain>>

\* The database removes what is below the goal, too.
Delete(c) ==
  /\ At(c, "delete")
  /\ LET gone == Goals \cap Cascade(call[c].id) IN
     /\ row' = [g \in Ids |-> IF g \in gone THEN None ELSE row[g]]
     /\ stale' = (stale \cup Holding(gone, c)) \ {c}
  /\ call' = [call EXCEPT ![c] = None]
  /\ UNCHANGED <<used, heard, uncertain>>

-----------------------------------------------------------------------------
(* The event.                                                              *)

\* The owner's session is looked for after the save; without one nobody is told.
Announce(c) ==
  /\ At(c, "announce")
  /\ LET l == call[c] IN
     \E inRoom \in BOOLEAN :
       /\ heard' = IF inRoom
                   THEN [heard EXCEPT ![l.id] = [title |-> l.entity.title, done |-> l.entity.done]]
                   ELSE heard
       /\ uncertain' = IF inRoom /\ c \notin stale
                       THEN uncertain \ {l.id} ELSE uncertain \cup {l.id}
  /\ call' = [call EXCEPT ![c] = None]
  /\ stale' = stale \ {c}
  /\ UNCHANGED <<row, used>>

\* A statement is refused, by the foreign key or the unique id among others, or the
\* look-up of the session rejects after the save.
Fail(c) ==
  /\ call[c] # None
  /\ uncertain' = IF call[c].pc = "announce" THEN uncertain \cup {call[c].id} ELSE uncertain
  /\ call' = [call EXCEPT ![c] = None]
  /\ stale' = stale \ {c}
  /\ UNCHANGED <<row, used, heard>>

Next ==
  \/ \E c \in Calls :
       \/ \E o \in Users : Create(c, o)
       \/ \E g \in Goals : Update(c, g) \/ Remove(c, g)
       \/ LookUp(c) \/ Insert(c) \/ WriteColumns(c) \/ WriteNothing(c) \/ Delete(c)
       \/ Announce(c) \/ Fail(c)

Spec == Init /\ [][Next]_vars

-----------------------------------------------------------------------------
(* Properties.                                                             *)

\* A goal is announced as completed, or as open again, by a handler that turned it
\* just so, unless somebody else wrote the goal between its read and its write.
NamedFlips ==
  \A c \in Calls \ stale : At(c, "announce") =>
    LET l == call[c] IN
    /\ l.kind = "USER_COMPLETED_GOAL" <=> l.wrote = <<FALSE, TRUE>>
    /\ l.kind = "USER_UNCHECKED_GOAL" <=> l.wrote = <<TRUE, FALSE>>

\* Between handlers on a goal, its owner's room has heard what is stored, unless the
\* last event came from a handler whose row somebody else had written, was lost
\* between the save and the event, or found the owner in no room; the next event
\* that is none of these puts it right.
FeedAgrees ==
  \A g \in Goals \ uncertain :
    (\A c \in Calls : call[c] = None \/ call[c].id # g) =>
      heard[g] = [title |-> row[g].title, done |-> row[g].done]
=============================================================================
