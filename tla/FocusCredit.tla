---------------------------- MODULE FocusCredit -----------------------------
(***************************************************************************)
(* Crediting focus minutes in one room.  A stretch of focus time ends for  *)
(* everybody when the host pauses (rooms.service.ts, pauseTimer) or the    *)
(* focus phase ends (room-timer.processor.ts), and for one member when he  *)
(* leaves (leave).  Whoever ends it computes the minutes since the later   *)
(* of joinedAt and phaseStartedAt, adds them to the session row, and       *)
(* queues them for the user's totals.                                      *)
(*                                                                         *)
(* The room keeps two columns of its row, the phase being FOCUS or not     *)
(* (REST).  Whoever changes the room saves the whole entity it read, and   *)
(* the ORM's save is two statements: it selects the row again, then        *)
(* updates the columns in which the entity differs from what it found.     *)
(* update and changePomodoro save the phase and its start as they read     *)
(* them, long after if a wallpaper was uploaded in between.  Any other     *)
(* handler takes far less than a tick: the clock stands still while one    *)
(* runs.                                                                   *)
(***************************************************************************)
EXTENDS Integers

CONSTANTS
  Sessions,       \* study-session ids
  Handlers,       \* pauses, ends of focus, starts, edits and leaves in flight
  TicksPerMinute, \* the clock's resolution
  MaxClock,       \* bound on the clock
  MayFail,        \* whether statements and the queue may reject
  None            \* null

ASSUME TicksAssumption == TicksPerMinute \in Nat \ {0}
ASSUME BoundsAssumption == MaxClock \in Nat /\ MayFail \in BOOLEAN

VARIABLES
  clock,
  room,      \* its phase and phaseStartedAt
  session,   \* session rows
  handler,   \* the locals of each handler
  minutes,   \* minutes queued for the user's totals, per session
  reports,   \* jobs queued with incrementSession, per session
  focused,   \* history: ticks a session was ACTIVE while the room was in FOCUS
  stretches, \* history: stretches of focus time computed for a session
  disputed   \* history: sessions two handlers worked on, or one that failed halfway,
             \* or whose stretch a stale save of the room moved

history == <<focused, stretches, disputed>>
vars == <<clock, room, session, handler, minutes, reports, history>>

Clock == 0..MaxClock

SessionRow == [status : {"none", "ACTIVE", "COMPELETED"}, joined : Clock, total : Nat]

RoomRow == [phase : {"FOCUS", "REST"}, started : Clock \cup {None}]
RoomColumns == {"phase", "started"}

\* at: now as the handler took it.  room: the room entity as it will be saved, of
\* which UPDATE writes the columns in diff; stale (history): the row was written since
\* the handler read it.  entities: the session rows a stop loaded and works on, of which
\* it has yet to credit those in todo, from since.  For a leave, own is the session,
\* since what it read of the room, and earned the minutes computed.
Handler ==
  [pc : {"load", "credit", "saveRoom", "writeRoom"}, at : Clock, since : Clock,
   todo : SUBSET Sessions, entities : [Sessions -> SessionRow \cup {None}],
   room : RoomRow, diff : SUBSET RoomColumns, stale : BOOLEAN]
  \cup [pc : {"edit", "save", "write"},
          room : RoomRow, diff : SUBSET RoomColumns, stale : BOOLEAN]
  \cup [pc : {"close", "report"}, own : Sessions, since : Clock \cup {None},
          total : Nat, earned : Nat]

ASSUME NoneAssumption == None \notin Nat \cup SessionRow \cup Handler

TypeOK ==
  /\ clock \in Clock
  /\ room \in RoomRow
  /\ session \in [Sessions -> SessionRow]
  /\ handler \in [Handlers -> Handler \cup {None}]
  /\ minutes \in [Sessions -> Nat]
  /\ reports \in [Sessions -> Nat]
  /\ focused \in [Sessions -> Nat]
  /\ stretches \in [Sessions -> Nat]
  /\ disputed \subseteq Sessions

Init ==
  /\ clock = 0
  /\ room = [phase |-> "REST", started |-> None]
  /\ session = [s \in Sessions |-> [status |-> "none", joined |-> 0, total |-> 0]]
  /\ handler = [h \in Handlers |-> None]
  /\ minutes = [s \in Sessions |-> 0]
  /\ reports = [s \in Sessions |-> 0]
  /\ focused = [s \in Sessions |-> 0]
  /\ stretches = [s \in Sessions |-> 0]
  /\ disputed = {}

Active == {s \in Sessions : session[s].status = "ACTIVE"}
Busy == {h \in Handlers : handler[h] # None}

At(h, pc) == handler[h] # None /\ handler[h].pc = pc
Begin(h, locals) ==
  /\ handler[h] = None
  /\ handler' = [handler EXCEPT ![h] = locals]
End(h) == handler' = [handler EXCEPT ![h] = None]

\* Time since the later of phaseStartedAt and joinedAt.
Elapsed(from, joined, now) == now - (IF from > joined THEN from ELSE joined)

\* Math.floor of the minutes, as every handler computes them; a negative
\* result counts as none.
Earned(from, joined, now) == Elapsed(from, joined, now) \div TicksPerMinute

Gain(from, joined, now) ==
  LET earned == Earned(from, joined, now) IN IF earned > 0 THEN earned ELSE 0

\* From when a stop credits the time of a room: null > joinedAt is false, so that
\* joinedAt, which is not before 0, counts where phaseStartedAt is null.
CreditedFrom(r) ==
  IF r.phase # "FOCUS" THEN None ELSE IF r.started = None THEN 0 ELSE r.started

\* A leave credits nothing where phaseStartedAt is null.
LeftFrom(r) == IF r.phase = "FOCUS" THEN r.started ELSE None

since == CreditedFrom(room)

\* The time of session s that nobody has credited yet, if the room's row is r.
Stretch(r, s) ==
  IF CreditedFrom(r) # None /\ s \in Active
    THEN Elapsed(CreditedFrom(r), session[s].joined, clock)
    ELSE 0

\* History: the minutes of a stretch that lasted were computed.  What is kept of a
\* session's time ends with the first dispute.
Computed(s, from, joined, now) ==
  stretches' = [stretches EXCEPT ![s] =
                  IF s \notin disputed /\ Elapsed(from, joined, now) > 0 THEN @ + 1 ELSE @]

\* The sessions a pause or the worker took from the table and is not done with.
Stopping(h) ==
  IF At(h, "credit") \/ At(h, "saveRoom") \/ At(h, "writeRoom")
  THEN {s \in Sessions : handler[h].entities[s] # None} ELSE {}

InHand(h) == Stopping(h) \cup IF At(h, "close") THEN {handler[h].own} ELSE {}

\* History: from here on nothing is claimed of these sessions.
Dispute(ss) ==
  /\ disputed' = disputed \cup ss
  /\ focused' = [s \in Sessions |-> IF s \in ss THEN 0 ELSE focused[s]]
  /\ stretches' = [s \in Sessions |-> IF s \in ss THEN 0 ELSE stretches[s]]

-----------------------------------------------------------------------------
(* The room's row is saved.                                                *)

\* Ticks are coarser than timestamps and REST than the phases: two values taken for
\* equal may differ, unless they are FOCUS or null.
Differing(e) ==
  {c \in RoomColumns :
     IF c = "phase" THEN e.phase # room.phase ELSE e.started # room.started}

MayDiffer(e) ==
  Differing(e) \cup
    {c \in RoomColumns : IF c = "phase" THEN room.phase = "REST" ELSE room.started # None}

\* save, first statement.
LookUp(h) ==
  /\ At(h, "edit") \/ At(h, "save") \/ At(h, "saveRoom")
  /\ \E diff \in SUBSET MayDiffer(handler[h].room) :
       /\ Differing(handler[h].room) \subseteq diff
       /\ handler' = [handler EXCEPT
            ![h].pc = IF @ = "saveRoom" THEN "writeRoom" ELSE "write", ![h].diff = diff]
  /\ UNCHANGED <<clock, room, session, minutes, reports, history>>

\* What UPDATE makes of the row.
Updated(l) ==
  [phase   |-> IF "phase" \in l.diff THEN l.room.phase ELSE room.phase,
   started |-> IF "started" \in l.diff THEN l.room.started ELSE room.started]

\* The stretches that the save of h moves, other than to end those h credited.
Moved(h, new) ==
  {s \in Active : Stretch(new, s) # IF s \in Stopping(h) THEN 0 ELSE Stretch(room, s)}

HoldsRoom(g) == handler[g] # None /\ ~ At(g, "close") /\ ~ At(g, "report")

\* save, second statement.
Write(h) ==
  /\ At(h, "write") \/ At(h, "writeRoom")
  /\ room' = Updated(handler[h])
  /\ handler' = [g \in Handlers |->
       IF g = h THEN None
       ELSE IF HoldsRoom(g) /\ room' # room THEN [handler[g] EXCEPT !.stale = TRUE]
       ELSE handler[g]]
  /\ Dispute(IF handler[h].stale THEN Moved(h, Updated(handler[h])) ELSE {})
  /\ UNCHANGED <<clock, session, minutes, reports>>

\* update and changePomodoro assign neither column, restartTimer both.  update may then
\* await an upload.
EditRead(h) ==
  /\ \E started \in {room.started} \cup (IF room.phase = "REST" THEN {None} ELSE {}) :
       Begin(h, [pc |-> "edit", room |-> [room EXCEPT !.started = started],
                 diff |-> {}, stale |-> FALSE])
  /\ UNCHANGED <<clock, room, session, minutes, reports, history>>

\* startTimer, resumeTimer, and the worker at the end of a break.
StartRead(h) ==
  /\ room.phase = "REST"
  /\ Begin(h, [pc |-> "save", room |-> [phase |-> "FOCUS", started |-> clock],
               diff |-> {}, stale |-> FALSE])
  /\ UNCHANGED <<clock, room, session, minutes, reports, history>>

-----------------------------------------------------------------------------
(* Sessions begin, are credited and end.                                   *)

Join(s) ==
  /\ session[s].status = "none"
  /\ session' = [session EXCEPT ![s] = [status |-> "ACTIVE", joined |-> clock, total |-> 0]]
  /\ UNCHANGED <<clock, room, handler, minutes, reports, history>>

\* Mutant: a pause that forgets the phase.
StopKeepsPhase(h) ==
  /\ room.phase = "FOCUS"
  /\ Begin(h, [pc |-> "load", at |-> clock, since |-> since, todo |-> {},
               entities |-> [s \in Sessions |-> None],
               room |-> room, diff |-> {}, stale |-> FALSE])
  /\ UNCHANGED <<clock, room, session, minutes, reports, history>>

\* pauseTimer, and the worker at the end of a focus phase, which starts a break.  Where
\* the columns are null the pause throws.
StopRead(h) ==
  /\ room.phase = "FOCUS"
  /\ \E started \in {clock} \cup (IF room.started = None THEN {} ELSE {None}) :
       Begin(h, [pc |-> "load", at |-> clock, since |-> since, todo |-> {},
                 entities |-> [s \in Sessions |-> None],
                 room |-> [phase |-> "REST", started |-> started],
                 diff |-> {}, stale |-> FALSE])
  /\ UNCHANGED <<clock, room, session, minutes, reports, history>>

StopLoad(h) ==
  /\ At(h, "load")
  /\ handler' = [handler EXCEPT ![h].pc = "credit", ![h].todo = Active,
                                ![h].entities = [s \in Sessions |->
                                  IF s \in Active THEN session[s] ELSE None]]
  /\ Dispute(IF since # handler[h].since THEN Active
             ELSE Active \cap UNION {InHand(g) : g \in Handlers \ {h}})
  /\ UNCHANGED <<clock, room, session, minutes, reports>>

\* One turn of the loop: the entity and the queue, not yet the row.
StopCredit(h) ==
  /\ At(h, "credit")
  /\ \E s \in handler[h].todo :
       LET l == handler[h]
           gain == Gain(l.since, l.entities[s].joined, l.at)
       IN /\ handler' = [handler EXCEPT ![h].todo = @ \ {s},
                                        ![h].entities[s].total = @ + gain]
          /\ minutes' = [minutes EXCEPT ![s] = @ + gain]
          /\ Computed(s, l.since, l.entities[s].joined, l.at)
  /\ UNCHANGED <<clock, room, session, reports, focused, disputed>>

\* Mutant: rows that were not loaded are saved too.
StopSaveAll(h) ==
  /\ At(h, "credit") /\ handler[h].todo = {}
  /\ session' = handler[h].entities
  /\ handler' = [handler EXCEPT ![h].pc = "saveRoom"]
  /\ UNCHANGED <<clock, room, minutes, reports, history>>

\* The bulk save.  Its two statements are one step: where another handler may write a
\* session between them, the session is disputed.
StopSaveSessions(h) ==
  /\ At(h, "credit") /\ handler[h].todo = {}
  /\ session' = [s \in Sessions |-> IF handler[h].entities[s] = None
                                      THEN session[s] ELSE handler[h].entities[s]]
  /\ handler' = [handler EXCEPT ![h].pc = "saveRoom"]
  /\ UNCHANGED <<clock, room, minutes, reports, history>>

\* leave reads the session joined with its room.  Two leaves may work on one session.
LeaveFind(h, s) ==
  /\ s \in Active
  /\ LET from == LeftFrom(room)
         gain == IF from = None THEN 0 ELSE Gain(from, session[s].joined, clock)
     IN Begin(h, [pc |-> "close", own |-> s, since |-> from,
                  total |-> session[s].total + gain, earned |-> gain])
  /\ Dispute(IF LeftFrom(room) # since THEN {s}
             ELSE {s} \cap UNION {Stopping(g) : g \in Handlers})
  /\ UNCHANGED <<clock, room, session, minutes, reports>>

Close(h) ==
  LET s == handler[h].own IN
  /\ session' = [session EXCEPT ![s].status = "COMPELETED", ![s].total = handler[h].total]
  /\ handler' = [handler EXCEPT ![h].pc = "report"]
  /\ IF handler[h].since = None THEN UNCHANGED stretches
     ELSE Computed(s, handler[h].since, session[s].joined, clock)
  /\ UNCHANGED <<clock, room, minutes, reports, focused, disputed>>

\* Mutant: the session is closed whatever its status.
LeaveCloseAgain(h) == At(h, "close") /\ Close(h)

\* The update is for a session that is ACTIVE; if it affects no row the handler ends.
LeaveClose(h) ==
  /\ At(h, "close")
  /\ IF handler[h].own \in Active
     THEN Close(h)
     ELSE End(h) /\ UNCHANGED <<clock, room, session, minutes, reports, history>>

LeaveReport(h) ==
  /\ At(h, "report")
  /\ LET s == handler[h].own IN
       /\ minutes' = [minutes EXCEPT ![s] = @ + handler[h].earned]
       /\ reports' = [reports EXCEPT ![s] = @ + 1]
  /\ End(h)
  /\ UNCHANGED <<clock, room, session, history>>

\* A statement or the queue rejects.  A pause or the worker that credited somebody, or
\* a leave that closed its session, has done half of its work.
Fail(h) ==
  /\ handler[h] # None
  /\ MayFail
  /\ Dispute(IF At(h, "report") THEN {handler[h].own}
             ELSE {s \in Stopping(h) : s \notin handler[h].todo})
  /\ End(h)
  /\ UNCHANGED <<clock, room, session, minutes, reports>>

\* No handler is at work, but that an upload may go on.
Quiet == \A h \in Busy : handler[h].pc = "edit"

Tick ==
  /\ clock < MaxClock
  /\ Quiet
  /\ clock' = clock + 1
  /\ focused' = [s \in Sessions |->
                  IF room.phase = "FOCUS" /\ s \in Active \ disputed THEN focused[s] + 1 ELSE focused[s]]
  /\ UNCHANGED <<room, session, handler, minutes, reports, stretches, disputed>>

Next ==
  \/ \E s \in Sessions : Join(s)
  \/ \E h \in Handlers :
       \/ EditRead(h) \/ StartRead(h) \/ LookUp(h) \/ Write(h)
       \/ StopRead(h) \/ StopLoad(h) \/ StopCredit(h) \/ StopSaveSessions(h)
       \/ \E s \in Sessions : LeaveFind(h, s)
       \/ LeaveClose(h) \/ LeaveReport(h) \/ Fail(h)
  \/ Tick

Spec == Init /\ [][Next]_vars

-----------------------------------------------------------------------------
(* Properties.                                                             *)

\* Whenever no handler is at work, and for every session but those that a pause or the
\* worker and another handler worked on at once, that one left half done, or whose
\* stretch was moved by a room entity saved after the row it was read from had changed
\* (update writes FOCUS and the old phaseStartedAt back after a pause, and the next stop
\* credits the same minutes again): the session row and the user's totals got the same
\* minutes, nobody is credited more time than he spent focused, and a stretch costs at
\* most the part of a minute that rounding down takes.
FairCredit ==
  Quiet => \A s \in Sessions \ disputed :
    LET uncredited == focused[s] - TicksPerMinute * minutes[s] - Stretch(room, s) IN
    /\ minutes[s] = session[s].total
    /\ uncredited \in 0..((TicksPerMinute - 1) * stretches[s])

\* "The Double-Counting Fix": a session is counted once among the user's sessions,
\* also when a leave by request and one by disconnect race, unless a pause or the
\* worker worked on it at the same time.
CountedOnce == \A s \in Sessions \ disputed : reports[s] <= 1
=============================================================================
