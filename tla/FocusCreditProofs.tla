------------------------- MODULE FocusCreditProofs --------------------------
(***************************************************************************)
(* Proofs about the minutes: how a session earns them (FocusCredit), for   *)
(* any sessions, any number of handlers in flight, any resolution of the   *)
(* clock and any bounds; and what the statistics worker makes of them      *)
(* (UserStats), for any users, jobs and workers, any zones and any         *)
(* calendar.  The two parts share no state.                                *)
(***************************************************************************)
EXTENDS FocusCredit, UserStats, FiniteSetTheorems, TLAPS

(***************************************************************************)
(* The inductive invariant.  Its parts are stated of the locals l of a     *)
(* handler, and of the row of a session.                                   *)
(***************************************************************************)

\* A stop from its load on; and any handler that holds a room entity.
Stops(l) == l # None /\ l.pc \in {"credit", "saveRoom", "writeRoom"}
Holds(l) == l # None /\ l.pc \notin {"close", "report"}
Has(l, s) == Stops(l) /\ l.entities[s] # None
Owns(l, s) == l # None /\ l.pc = "close" /\ l.own = s
Reports(l, s) == l # None /\ l.pc = "report" /\ l.own = s

\* The ticks of a stretch that began at from, as far as it is the row's.
Worth(from, r, now) == IF from = None THEN 0 ELSE Elapsed(from, r.joined, now)
Runs(from, r, now) == IF r.status = "ACTIVE" THEN Worth(from, r, now) ELSE 0

\* Of f ticks in k stretches, m minutes were credited and t ticks are to come: rounding
\* down is all that is lost.
Fits(f, k, m, t) == f - TicksPerMinute * m - t \in 0..((TicksPerMinute - 1) * k)

\* Where the row r of the room is what a handler read, what it is about to write begins
\* or ends a stretch, or leaves it alone, and the columns it does not write agree.
Fresh(l, r, now) ==
  /\ l.pc \in {"load", "credit", "saveRoom", "writeRoom"} => l.room.phase = "REST"
  /\ l.pc \in {"edit", "save", "write"} =>
       l.room = r \/ (r.phase = "REST" /\ (l.room.phase = "REST"
                                            \/ (l.pc # "edit" /\ l.room.started = now)))
  /\ l.pc \in {"write", "writeRoom"} =>
       /\ "phase" \in l.diff \/ l.room.phase = r.phase
       /\ "started" \in l.diff \/ l.room.started = r.started

\* The clock stood still since a stop began, and no phase starts in the future.
OnTime(l, r, now) ==
  /\ l.pc \in {"load", "credit", "saveRoom", "writeRoom"} => l.at = now
  /\ Holds(l) => /\ l.room.started # None => l.room.started <= now
                 /\ ~ l.stale => Fresh(l, r, now)

Timely ==
  /\ room.started # None => room.started <= clock
  /\ \A h \in Handlers : handler[h] # None => OnTime(handler[h], room, clock)
  /\ \A s \in Sessions \ disputed : session[s].status = "ACTIVE" => session[s].joined <= clock

\* A pause or the worker loaded every session that spent time in the phase.
Loaded ==
  \A h \in Handlers : Stops(handler[h]) =>
    /\ \A s \in handler[h].todo : Has(handler[h], s)
    /\ handler[h].pc # "credit" => handler[h].todo = {}
    /\ \A s \in Sessions \ disputed :
         session[s].status = "ACTIVE" => Has(handler[h], s) \/ session[s].joined = clock

\* Nobody else works on what a pause or the worker loaded.
Apart ==
  \A h, g \in Handlers, s \in Sessions \ disputed :
    Has(handler[h], s) /\ (Has(handler[g], s) \/ Owns(handler[g], s)) => h = g

\* The row r of a session s that a handler loaded; m, f and k: minutes queued, ticks
\* focused and stretches computed.
InStop(l, s, r, m, f, k, from, now) ==
  /\ r.status = "ACTIVE" /\ l.entities[s].status = "ACTIVE"
  /\ l.entities[s].joined = r.joined /\ l.entities[s].total = m
  /\ s \in l.todo => /\ r.total = m
                     /\ Fits(f, k, m, Runs(from, r, now))
                     /\ Runs(from, r, now) = Worth(l.since, r, now)
  /\ s \notin l.todo => Fits(f, k, m, 0)
  /\ l.pc # "credit" => r.total = m

\* The row r of a session that a handler is about to close, if it is still open.
InLeave(l, r, from, now) ==
  /\ l.total = r.total + l.earned
  /\ l.earned = (IF l.since = None THEN 0 ELSE Gain(l.since, r.joined, now))
  /\ Runs(from, r, now) = Worth(l.since, r, now)

\* A session is reported once, after it was closed.
Once(s) ==
  /\ reports[s] <= 1
  /\ session[s].status # "COMPELETED" => reports[s] = 0
  /\ \A h \in Handlers : Reports(handler[h], s) =>
       /\ reports[s] = 0 /\ session[s].status = "COMPELETED"
       /\ minutes[s] + handler[h].earned = session[s].total
  /\ \A h, g \in Handlers : Reports(handler[h], s) /\ Reports(handler[g], s) => h = g

Books(s) ==
  /\ \A h \in Handlers : Has(handler[h], s) =>
       InStop(handler[h], s, session[s], minutes[s], focused[s], stretches[s], since, clock)
  /\ (\A h \in Handlers : ~ Has(handler[h], s)) =>
       Fits(focused[s], stretches[s], session[s].total, Runs(since, session[s], clock))
  /\ (\A h \in Handlers : ~ Has(handler[h], s) /\ ~ Reports(handler[h], s)) =>
       minutes[s] = session[s].total
  /\ \A h \in Handlers : Owns(handler[h], s) /\ session[s].status = "ACTIVE" =>
       InLeave(handler[h], session[s], since, clock)
  /\ session[s].status = "none" =>
       session[s].total = 0 /\ \A h \in Handlers : ~ Owns(handler[h], s)

Kept == \A s \in Sessions \ disputed : Books(s) /\ Once(s)

Good == TypeOK /\ Timely /\ Loaded /\ Apart /\ Kept

(***************************************************************************)
(* Types and arithmetic.                                                   *)
(***************************************************************************)

Stop == [pc : {"load", "credit", "saveRoom", "writeRoom"}, at : Clock, since : Clock,
         todo : SUBSET Sessions, entities : [Sessions -> SessionRow \cup {None}],
         room : RoomRow, diff : SUBSET RoomColumns, stale : BOOLEAN]
Saver == [pc : {"edit", "save", "write"}, room : RoomRow, diff : SUBSET RoomColumns,
          stale : BOOLEAN]
Leave == [pc : {"close", "report"}, own : Sessions, since : Clock \cup {None}, total : Nat,
          earned : Nat]

LEMMA HandlerIs == Handler = Stop \cup Saver \cup Leave
  BY DEF Handler, Stop, Saver, Leave

LEMMA NothingIsNull ==
  None \notin Nat /\ None \notin SessionRow /\ None \notin Handler
  BY NoneAssumption

LEMMA Clocks == \A t \in Clock : t \in Nat
  BY BoundsAssumption DEF Clock

LEMMA HandlerTypes ==
  ASSUME NEW l \in Handler
  PROVE  /\ l # None
         /\ l.pc \in {"load", "credit", "saveRoom", "writeRoom", "edit", "save", "write",
                     "close", "report"}
         /\ l.pc \in {"load", "credit", "saveRoom", "writeRoom"} => l \in Stop
         /\ l.pc \in {"edit", "save", "write"} => l \in Saver
         /\ l.pc \in {"close", "report"} => l \in Leave
  BY NothingIsNull DEF Handler, Stop, Saver, Leave

LEMMA Locals ==
  ASSUME TypeOK, NEW h \in Handlers, handler[h] # None
  PROVE  handler[h] \in Handler
  BY DEF TypeOK

\* From when the room's time is credited.
LEMMA Since ==
  ASSUME TypeOK
  PROVE  /\ clock \in Nat /\ since \in Clock \cup {None} /\ since \in Nat \cup {None}
         /\ room.phase \in {"FOCUS", "REST"} /\ room.started \in Nat \cup {None}
         /\ since # None <=> room.phase = "FOCUS"
         /\ Timely /\ since # None => since <= clock
  BY Clocks, NothingIsNull, BoundsAssumption
     DEF TypeOK, RoomRow, since, CreditedFrom, Timely, Clock

LEMMA Unmoved ==
  ASSUME UNCHANGED room
  PROVE  UNCHANGED since
  BY DEF since, CreditedFrom

LEMMA Division ==
  ASSUME NEW n \in Nat
  PROVE  /\ n \div TicksPerMinute \in Nat
         /\ TicksPerMinute * (n \div TicksPerMinute) <= n
         /\ n <= TicksPerMinute * (n \div TicksPerMinute) + (TicksPerMinute - 1)
         /\ n = 0 => n \div TicksPerMinute = 0
  BY TicksAssumption

LEMMA Products ==
  ASSUME NEW t \in Int, NEW a \in Int, NEW b \in Int
  PROVE  t * a \in Int /\ t * (a + b) = t * a + t * b /\ t * (a + 1) = t * a + t /\ t * 0 = 0
  OBVIOUS

LEMMA GainTypes ==
  ASSUME NEW from \in Nat, NEW joined \in Nat, NEW now \in Nat
  PROVE  Gain(from, joined, now) \in Nat
  <1>1. Earned(from, joined, now) \in Int
    BY TicksAssumption DEF Earned, Elapsed
  <1> QED BY <1>1 DEF Gain

LEMMA WorthTypes ==
  ASSUME NEW from \in Nat \cup {None}, NEW r \in SessionRow, NEW now \in Nat,
         from # None => from <= now, r.joined <= now
  PROVE  /\ Worth(from, r, now) \in Nat
         /\ r.joined = now => Worth(from, r, now) = 0
         /\ from = now => Worth(from, r, now) = 0
  BY Clocks DEF Worth, Elapsed, SessionRow

\* Crediting a stretch of t ticks.
LEMMA Crediting ==
  ASSUME NEW f \in Nat, NEW k \in Nat, NEW m \in Nat, NEW t \in Nat, Fits(f, k, m, t)
  PROVE  Fits(f, IF t > 0 THEN k + 1 ELSE k, m + (t \div TicksPerMinute), 0)
  <1> DEFINE T == TicksPerMinute
             g == t \div T
  <1>1. T \in Nat \ {0} /\ g \in Nat /\ T * g <= t /\ t <= T * g + (T - 1) /\ (t = 0 => g = 0)
    BY TicksAssumption, Division
  <1>2. T * (m + g) = T * m + T * g /\ T * m \in Int /\ T * g \in Int
    BY <1>1, Products
  <1>3. (T - 1) * (k + 1) = (T - 1) * k + (T - 1) /\ (T - 1) * k \in Int
    BY <1>1, Products
  <1>4. 0 <= f - T * m - t /\ f - T * m - t <= (T - 1) * k
    BY <1>2, <1>3 DEF Fits
  <1>5. CASE t = 0
    <2>1. T * (m + g) = T * m /\ g = 0
      BY <1>1, <1>5
    <2> HIDE DEF T, g
    <2>2. f - T * (m + g) - 0 \in 0..((T - 1) * k)
      BY <1>2, <1>3, <1>4, <1>5, <2>1
    <2> QED BY <1>5, <2>2 DEF Fits, T, g
  <1>6. CASE t > 0
    <2> HIDE DEF T, g
    <2>1. f - T * (m + g) - 0 \in 0..((T - 1) * (k + 1))
      BY <1>1, <1>2, <1>3, <1>4
    <2> QED BY <1>6, <2>1 DEF Fits, T, g
  <1> QED BY <1>5, <1>6

\* A tick of a session in focus.
LEMMA Ticking ==
  ASSUME NEW f \in Nat, NEW k \in Nat, NEW m \in Nat, NEW t \in Nat, Fits(f, k, m, t)
  PROVE  Fits(f + 1, k, m, t + 1)
  BY TicksAssumption, Products DEF Fits

LEMMA GoodInit == Init => Good
  <1> SUFFICES ASSUME Init PROVE Good
    OBVIOUS
  <1>1. TypeOK
    BY BoundsAssumption, NothingIsNull DEF Init, TypeOK, Clock, SessionRow, RoomRow
  <1>2. Timely /\ Loaded /\ Apart
    BY DEF Init, Timely, Loaded, Apart, Stops, Has
  <1>3. Fits(0, 0, 0, 0)
    BY TicksAssumption, Products DEF Fits
  <1>4. ASSUME NEW s \in Sessions PROVE Books(s) /\ Once(s)
    <2>1. \A h \in Handlers : /\ ~ Has(handler[h], s) /\ ~ Owns(handler[h], s)
                             /\ ~ Reports(handler[h], s)
      BY DEF Init, Stops, Has, Owns, Reports
    <2>2. /\ session[s].status = "none" /\ session[s].total = 0 /\ minutes[s] = 0
          /\ focused[s] = 0 /\ stretches[s] = 0 /\ reports[s] = 0
      BY DEF Init
    <2>3. Runs(since, session[s], clock) = 0
      BY <2>2 DEF Runs
    <2>4. Books(s)
      BY <1>3, <2>1, <2>2, <2>3 DEF Books
    <2>5. Once(s)
      BY <2>1, <2>2 DEF Once
    <2> QED BY <2>4, <2>5
  <1>5. Kept
    BY <1>4 DEF Kept
  <1> QED BY <1>1, <1>2, <1>5 DEF Good

(***************************************************************************)
(* A handler goes on, or ends, and writes nothing.                         *)
(***************************************************************************)

\* What the locals l of a handler must be, of a session s that other handlers work on
\* as others say.
Right(l, s) ==
  Has(l, s) => InStop(l, s, session[s], minutes[s], focused[s], stretches[s], since, clock)
Closing(l, s) ==
  Owns(l, s) => /\ session[s].status = "ACTIVE" => InLeave(l, session[s], since, clock)
                /\ session[s].status # "none"
Untouched(h, s) ==
  \A g \in Handlers \ {h} : ~ Has(handler[g], s) /\ ~ Owns(handler[g], s)
Unloaded(h, s) ==
  \A g \in Handlers \ {h} : ~ Has(handler[g], s)

Orderly(l) ==
  Stops(l) => /\ \A s \in l.todo : Has(l, s)
              /\ l.pc # "credit" => l.todo = {}
Complete(l, s) ==
  Stops(l) /\ session[s].status = "ACTIVE" => Has(l, s) \/ session[s].joined = clock

LEMMA Moves ==
  ASSUME Good, NEW c \in Handlers, NEW l, handler' = [handler EXCEPT ![c] = l],
         UNCHANGED <<clock, room, session, minutes, reports>>, TypeOK',
         disputed \subseteq disputed',
         \A s \in Sessions \ disputed' : focused'[s] = focused[s] /\ stretches'[s] = stretches[s],
         l # None => OnTime(l, room, clock),
         Orderly(l),
         \A s \in Sessions \ disputed' :
           /\ Right(l, s) /\ Closing(l, s) /\ Complete(l, s)
           /\ Has(l, s) => Untouched(c, s)
           /\ Owns(l, s) => Unloaded(c, s)
           /\ ~ Reports(l, s) /\ ~ Reports(handler[c], s)
           /\ Has(handler[c], s) /\ ~ Has(l, s) =>
                /\ Fits(focused[s], stretches[s], session[s].total, Runs(since, session[s], clock))
                /\ minutes[s] = session[s].total
  PROVE  Good'
  <1>0. TypeOK /\ Timely /\ Loaded /\ Apart /\ Kept
    BY DEF Good
  <1>1. handler'[c] = l /\ \A h \in Handlers \ {c} : handler'[h] = handler[h]
    BY <1>0 DEF TypeOK
  <1>2. UNCHANGED since /\ \A s \in Sessions \ disputed' : s \notin disputed
    BY Unmoved
  <1>3. Timely'
    <2>1. \A h \in Handlers : handler'[h] # None => OnTime(handler'[h], room, clock)
      BY <1>0, <1>1 DEF Timely
    <2> QED BY <1>0, <1>2, <2>1 DEF Timely
  <1>4. Loaded'
    <2>1. ASSUME NEW h \in Handlers, Stops(handler'[h])
          PROVE  /\ \A s \in handler'[h].todo : Has(handler'[h], s)
                 /\ handler'[h].pc # "credit" => handler'[h].todo = {}
                 /\ \A s \in Sessions \ disputed' :
                      session[s].status = "ACTIVE" => Has(handler'[h], s) \/ session[s].joined = clock
      <3>1. CASE h = c
        BY <1>1, <2>1, <3>1 DEF Orderly, Complete
      <3>2. CASE h # c
        BY <1>0, <1>1, <1>2, <2>1, <3>2 DEF Loaded
      <3> QED BY <3>1, <3>2
    <2> QED BY <2>1 DEF Loaded
  <1>5. Apart'
    <2>1. ASSUME NEW h \in Handlers, NEW g \in Handlers, NEW s \in Sessions \ disputed', h # g,
                 Has(handler'[h], s), Has(handler'[g], s) \/ Owns(handler'[g], s)
          PROVE  FALSE
      <3>1. CASE h = c
        BY <1>1, <2>1, <3>1 DEF Untouched
      <3>2. CASE g = c
        <4>1. Has(handler[h], s)
          BY <1>1, <2>1, <3>2
        <4> QED BY <1>1, <2>1, <3>2, <4>1 DEF Untouched, Unloaded
      <3>3. CASE h # c /\ g # c
        BY <1>0, <1>1, <1>2, <2>1, <3>3 DEF Apart
      <3> QED BY <3>1, <3>2, <3>3
    <2> QED BY <2>1 DEF Apart
  <1>6. ASSUME NEW s \in Sessions \ disputed' PROVE Books(s)' /\ Once(s)'
    <2>1. Books(s) /\ Once(s)
      BY <1>0, <1>2, <1>6 DEF Kept
    <2>2. focused'[s] = focused[s] /\ stretches'[s] = stretches[s]
      BY <1>6
    <2>3. \A h \in Handlers : Has(handler'[h], s) =>
            InStop(handler'[h], s, session[s], minutes[s], focused[s], stretches[s], since, clock)
      BY <1>1, <1>6, <2>1 DEF Books, Right
    <2>4. (\A h \in Handlers : ~ Has(handler'[h], s)) =>
            Fits(focused[s], stretches[s], session[s].total, Runs(since, session[s], clock))
      BY <1>1, <1>6, <2>1 DEF Books
    <2>5. \A h \in Handlers : Reports(handler'[h], s) <=> Reports(handler[h], s)
      BY <1>1, <1>6
    <2>6. (\A h \in Handlers : ~ Has(handler'[h], s) /\ ~ Reports(handler'[h], s)) =>
            minutes[s] = session[s].total
      BY <1>1, <1>6, <2>1, <2>5 DEF Books
    <2>7. \A h \in Handlers : Owns(handler'[h], s) /\ session[s].status = "ACTIVE" =>
            InLeave(handler'[h], session[s], since, clock)
      BY <1>1, <1>6, <2>1 DEF Books, Closing
    <2>10. session[s].status = "none" =>
             session[s].total = 0 /\ \A h \in Handlers : ~ Owns(handler'[h], s)
      BY <1>1, <1>6, <2>1 DEF Books, Closing
    <2>8. Books(s)'
      BY <1>2, <2>1, <2>2, <2>3, <2>4, <2>6, <2>7, <2>10 DEF Books
    <2>9. \A h \in Handlers : Reports(handler'[h], s) =>
            handler'[h] = handler[h] /\ Reports(handler[h], s)
      BY <1>1, <1>6, <2>5
    <2> QED BY <2>1, <2>8, <2>9 DEF Once
  <1>7. Kept'
    BY <1>6 DEF Kept
  <1> QED BY <1>3, <1>4, <1>5, <1>7 DEF Good

\* The sets of the model, of a session.
LEMMA InStopping ==
  ASSUME TypeOK, NEW h \in Handlers
  PROVE  Stopping(h) = {s \in Sessions : Has(handler[h], s)}
  BY DEF Stopping, Has, Stops, At

LEMMA InHands ==
  ASSUME TypeOK, NEW h \in Handlers, NEW s \in Sessions
  PROVE  s \in InHand(h) <=> Has(handler[h], s) \/ Owns(handler[h], s)
  BY InStopping DEF InHand, Owns, At

\* A dispute keeps the types, and what is kept of the other sessions.
LEMMA Disputing ==
  ASSUME TypeOK, NEW ss \in SUBSET Sessions, Dispute(ss)
  PROVE  /\ disputed' = disputed \cup ss /\ disputed' \subseteq Sessions
         /\ focused' \in [Sessions -> Nat] /\ stretches' \in [Sessions -> Nat]
         /\ \A s \in Sessions \ disputed' : focused'[s] = focused[s] /\ stretches'[s] = stretches[s]
  BY DEF Dispute, TypeOK

\* A handler takes a step that concerns no session.
LEMMA Proceeding ==
  ASSUME Good, NEW c \in Handlers, NEW l \in Handler, handler' = [handler EXCEPT ![c] = l],
         UNCHANGED <<clock, room, session, minutes, reports, focused, stretches, disputed>>,
         l.pc \in {"load", "edit", "save", "write"}, OnTime(l, room, clock),
         \A s \in Sessions : ~ Has(handler[c], s) /\ ~ Reports(handler[c], s)
  PROVE  Good'
  <1>0. TypeOK
    BY DEF Good
  <1>1. TypeOK'
    BY <1>0 DEF TypeOK
  <1>2. ~ Stops(l) /\ \A s \in Sessions : ~ Has(l, s) /\ ~ Owns(l, s) /\ ~ Reports(l, s)
    BY DEF Stops, Has, Owns, Reports
  <1>3. Orderly(l) /\ \A s \in Sessions : Right(l, s) /\ Closing(l, s) /\ Complete(l, s)
    BY <1>2 DEF Right, Closing, Orderly, Complete
  <1> QED BY <1>1, <1>2, <1>3, Moves

LEMMA Reading ==
  ASSUME Good, NEW c \in Handlers, EditRead(c) \/ StartRead(c) \/ StopRead(c)
  PROVE  Good'
  <1>0. TypeOK /\ Timely /\ None \notin Nat
    BY NoneAssumption DEF Good
  <1>1. /\ handler[c] = None
        /\ UNCHANGED <<clock, room, session, minutes, reports, focused, stretches, disputed>>
    BY DEF EditRead, StartRead, StopRead, Begin, history
  <1>2. \A s \in Sessions : ~ Has(handler[c], s) /\ ~ Reports(handler[c], s)
    BY <1>1 DEF Stops, Has, Reports
  <1>3. CASE EditRead(c)
    <2>1. PICK started \in {room.started} \cup (IF room.phase = "REST" THEN {None} ELSE {}) :
            handler' = [handler EXCEPT ![c] =
              [pc |-> "edit", room |-> [room EXCEPT !.started = started],
               diff |-> {}, stale |-> FALSE]]
      BY <1>3 DEF EditRead, Begin
    <2>2. PICK l \in Handler : l = [pc |-> "edit", room |-> [room EXCEPT !.started = started],
                                    diff |-> {}, stale |-> FALSE]
      BY <1>0, <2>1, HandlerIs DEF Saver, TypeOK, RoomRow
    <2>3. OnTime(l, room, clock)
      BY <1>0, <2>1, <2>2 DEF OnTime, Fresh, Timely, TypeOK, RoomRow
    <2>4. l.pc = "edit" /\ handler' = [handler EXCEPT ![c] = l]
      BY <2>1, <2>2
    <2> QED BY <1>1, <1>2, <2>3, <2>4, Proceeding
  <1>4. CASE StartRead(c)
    <2>1. PICK l \in Handler : l = [pc |-> "save", diff |-> {}, stale |-> FALSE,
                                    room |-> [phase |-> "FOCUS", started |-> clock]]
      BY <1>0, HandlerIs DEF Saver, TypeOK, RoomRow
    <2>2. OnTime(l, room, clock)
      BY <1>0, <1>4, <2>1, Since DEF OnTime, Fresh, StartRead
    <2>3. l.pc = "save" /\ handler' = [handler EXCEPT ![c] = l]
      BY <1>4, <2>1 DEF StartRead, Begin
    <2> QED BY <1>1, <1>2, <2>2, <2>3, Proceeding
  <1>5. CASE StopRead(c)
    <2>1. PICK started \in Clock \cup {None} :
            /\ started \in {clock, None}
            /\ handler' = [handler EXCEPT ![c] =
                 [pc |-> "load", at |-> clock, since |-> since, todo |-> {},
                  entities |-> [s \in Sessions |-> None],
                  room |-> [phase |-> "REST", started |-> started],
                  diff |-> {}, stale |-> FALSE]]
      BY <1>0, <1>5 DEF StopRead, Begin, TypeOK
    <2>2. PICK e \in RoomRow : e = [phase |-> "REST", started |-> started]
      BY DEF RoomRow
    <2>3. since \in Clock
      BY <1>0, <1>5, Since DEF StopRead
    <2>4. PICK l \in Handler : l = [pc |-> "load", at |-> clock, since |-> since, todo |-> {},
                                    entities |-> [s \in Sessions |-> None],
                                    room |-> e, diff |-> {}, stale |-> FALSE]
      BY <1>0, <2>3, HandlerIs DEF Stop, TypeOK
    <2>5. OnTime(l, room, clock)
      BY <1>0, <2>1, <2>2, <2>4, Since DEF OnTime, Fresh
    <2>6. l.pc = "load" /\ handler' = [handler EXCEPT ![c] = l]
      BY <2>1, <2>2, <2>4
    <2> QED BY <1>1, <1>2, <2>5, <2>6, Proceeding
  <1> QED BY <1>3, <1>4, <1>5

LEMMA LookingUp ==
  ASSUME Good, NEW c \in Handlers, LookUp(c)
  PROVE  Good'
  <1>0. TypeOK /\ Timely /\ Loaded /\ Apart /\ Kept
    BY DEF Good
  <1>1. PICK l \in Handler : /\ l = handler[c] /\ l # None
                             /\ l.pc \in {"edit", "save", "saveRoom"}
    BY <1>0, Locals DEF LookUp, At
  <1>2. PICK diff \in SUBSET RoomColumns :
          /\ Differing(l.room) \subseteq diff
          /\ handler' = [handler EXCEPT
               ![c].pc = IF @ = "saveRoom" THEN "writeRoom" ELSE "write", ![c].diff = diff]
    BY <1>1 DEF LookUp, MayDiffer, Differing
  <1>3. UNCHANGED <<clock, room, session, minutes, reports, focused, stretches, disputed>>
    BY DEF LookUp, history
  <1>4. /\ "phase" \in diff \/ l.room.phase = room.phase
        /\ "started" \in diff \/ l.room.started = room.started
    BY <1>2 DEF Differing, RoomColumns
  <1>5. Holds(l) /\ OnTime(l, room, clock)
    BY <1>0, <1>1 DEF Timely, Holds
  <1>6. CASE l.pc \in {"edit", "save"}
    <2>1. l \in Saver
      BY <1>6, HandlerTypes
    <2>2. PICK m \in Saver : m = [l EXCEPT !.pc = "write", !.diff = diff]
      BY <2>1 DEF Saver
    <2>3. /\ m.pc = "write" /\ m.room = l.room /\ m.diff = diff /\ m.stale = l.stale
          /\ m \in Handler /\ m # None
      BY <2>1, <2>2, HandlerIs, NothingIsNull DEF Saver
    <2>4. handler' = [handler EXCEPT ![c] = m]
      BY <1>0, <1>1, <1>2, <1>6, <2>2 DEF TypeOK
    <2>5. OnTime(m, room, clock)
      BY <1>4, <1>5, <1>6, <2>3 DEF OnTime, Fresh, Holds
    <2>6. \A s \in Sessions : ~ Has(handler[c], s) /\ ~ Reports(handler[c], s)
      BY <1>1, <1>6 DEF Has, Stops, Reports
    <2> QED BY <1>3, <2>3, <2>4, <2>5, <2>6, Proceeding
  <1>7. CASE l.pc = "saveRoom"
    <2>1. l \in Stop
      BY <1>7, HandlerTypes
    <2>2. PICK m \in Stop : m = [l EXCEPT !.pc = "writeRoom", !.diff = diff]
      BY <2>1 DEF Stop
    <2>3. /\ m.pc = "writeRoom" /\ m.room = l.room /\ m.diff = diff /\ m.stale = l.stale
          /\ m.at = l.at /\ m.since = l.since /\ m.todo = l.todo /\ m.entities = l.entities
          /\ m \in Handler /\ m # None
      BY <2>1, <2>2, HandlerIs, NothingIsNull DEF Stop
    <2>4. handler' = [handler EXCEPT ![c] = m]
      BY <1>0, <1>1, <1>2, <1>7, <2>2 DEF TypeOK
    <2>5. OnTime(m, room, clock)
      BY <1>4, <1>5, <1>7, <2>3 DEF OnTime, Fresh, Holds
    <2>6. TypeOK'
      BY <1>0, <1>3, <2>3, <2>4 DEF TypeOK
    <2>7. /\ Stops(m) /\ Stops(l)
          /\ \A s \in Sessions : /\ Has(m, s) <=> Has(l, s)
                                 /\ ~ Owns(m, s) /\ ~ Reports(m, s) /\ ~ Reports(l, s)
      BY <1>1, <1>7, <2>3 DEF Stops, Has, Owns, Reports
    <2>8. Orderly(m) /\ \A s \in Sessions \ disputed : Complete(m, s)
      BY <1>0, <1>1, <1>7, <2>1, <2>3, <2>7 DEF Loaded, Orderly, Complete, Stop
    <2>9. \A s \in Sessions \ disputed :
            Has(l, s) => InStop(l, s, session[s], minutes[s], focused[s], stretches[s], since, clock)
      BY <1>0, <1>1 DEF Kept, Books
    <2>10. \A s \in Sessions \ disputed : Right(m, s)
      BY <1>7, <2>3, <2>7, <2>9 DEF Right, InStop
    <2>11. \A s \in Sessions \ disputed : Has(m, s) => Untouched(c, s)
      BY <1>0, <1>1, <2>7 DEF Apart, Untouched
    <2>12. \A s \in Sessions : Closing(m, s) /\ (Owns(m, s) => Unloaded(c, s))
      BY <2>7 DEF Closing
    <2> QED BY <1>1, <1>3, <2>4, <2>5, <2>6, <2>7, <2>8, <2>10, <2>11, <2>12, Moves
  <1> QED BY <1>1, <1>6, <1>7

LEMMA Loading ==
  ASSUME Good, NEW c \in Handlers, StopLoad(c)
  PROVE  Good'
  <1>0. TypeOK /\ Timely /\ Loaded /\ Kept
    BY DEF Good
  <1>1. PICK l \in Stop : l = handler[c] /\ l # None /\ l.pc = "load"
    BY <1>0, Locals, HandlerTypes DEF StopLoad, At
  <1>2. PICK load \in [Sessions -> SessionRow \cup {None}] :
          load = [s \in Sessions |-> IF s \in Active THEN session[s] ELSE None]
    BY <1>0 DEF TypeOK
  <1>3. PICK m \in Stop : m = [l EXCEPT !.pc = "credit", !.todo = Active, !.entities = load]
    BY <1>1, <1>2 DEF Stop, Active
  <1>4. /\ m.pc = "credit" /\ m.todo = Active /\ m.entities = load /\ m.at = l.at
        /\ m.since = l.since /\ m.room = l.room /\ m.stale = l.stale
        /\ m \in Handler /\ m # None
    BY <1>1, <1>3, HandlerIs, NothingIsNull DEF Stop
  <1>5. handler' = [handler EXCEPT ![c] = m]
    BY <1>0, <1>1, <1>2, <1>3 DEF StopLoad, TypeOK
  <1>6. PICK ss \in SUBSET Sessions :
          ss = IF since # l.since THEN Active
               ELSE Active \cap UNION {InHand(g) : g \in Handlers \ {c}}
    BY DEF Active
  <1>7. /\ Dispute(ss)
        /\ UNCHANGED <<clock, room, session, minutes, reports>>
    BY <1>1, <1>6 DEF StopLoad
  <1>8. TypeOK'
    BY <1>0, <1>4, <1>5, <1>7, Disputing DEF TypeOK
  <1>9. disputed \subseteq disputed' /\ \A s \in Sessions \ disputed' :
          s \notin disputed /\ focused'[s] = focused[s] /\ stretches'[s] = stretches[s]
    BY <1>0, <1>7, Disputing
  <1>10. ASSUME NEW s \in Sessions \ disputed', s \in Active
         PROVE  /\ since = l.since
                /\ \A g \in Handlers \ {c} : ~ Has(handler[g], s) /\ ~ Owns(handler[g], s)
    <2>1. s \notin ss
      BY <1>0, <1>7, <1>10, Disputing
    <2>2. \A g \in Handlers \ {c} : s \notin InHand(g)
      BY <1>6, <1>10, <2>1
    <2> QED BY <1>0, <1>6, <1>10, <2>1, <2>2, InHands
  <1>11. \A s \in Sessions : /\ Has(m, s) <=> s \in Active
                             /\ ~ Owns(m, s) /\ ~ Reports(m, s)
                             /\ ~ Has(handler[c], s) /\ ~ Reports(handler[c], s)
    <2>1. \A s \in Sessions : load[s] # None <=> s \in Active
      <3>1. \A s \in Sessions : session[s] \in SessionRow
        BY <1>0 DEF TypeOK
      <3> QED BY <1>2, <3>1, NothingIsNull
    <2>2. \A s \in Sessions : Has(m, s) <=> s \in Active
      BY <1>4, <2>1 DEF Has, Stops
    <2>3. \A s \in Sessions : /\ ~ Owns(m, s) /\ ~ Reports(m, s)
                              /\ ~ Has(l, s) /\ ~ Reports(l, s)
      BY <1>1, <1>4 DEF Has, Stops, Owns, Reports
    <2> QED BY <1>1, <2>2, <2>3
  <1>12. ASSUME NEW s \in Sessions \ disputed', s \in Active
         PROVE  InStop(m, s, session[s], minutes[s], focused[s], stretches[s], since, clock)
    <2>1. Books(s) /\ Once(s) /\ session[s].status = "ACTIVE"
      BY <1>0, <1>9, <1>12 DEF Kept, Active
    <2>2. \A g \in Handlers : ~ Has(handler[g], s) /\ ~ Reports(handler[g], s)
      BY <1>10, <1>11, <1>12, <2>1 DEF Once
    <2>3. /\ minutes[s] = session[s].total
          /\ Fits(focused[s], stretches[s], session[s].total, Runs(since, session[s], clock))
      BY <2>1, <2>2 DEF Books
    <2>4. m.entities[s] = session[s] /\ s \in m.todo /\ m.since = since
      BY <1>2, <1>4, <1>10, <1>12
    <2> QED BY <1>4, <2>1, <2>3, <2>4 DEF InStop, Runs
  <1>13. \A s \in Sessions \ disputed' : Right(m, s) /\ Closing(m, s)
    BY <1>11, <1>12 DEF Right, Closing
  <1>14. \A s \in Sessions \ disputed' : Has(m, s) => Untouched(c, s)
    BY <1>10, <1>11 DEF Untouched
  <1>15. OnTime(m, room, clock)
    BY <1>0, <1>1, <1>4 DEF Timely, OnTime, Holds, Fresh
  <1>16. Orderly(m) /\ \A s \in Sessions \ disputed' : Complete(m, s)
    BY <1>4, <1>11 DEF Active, Orderly, Complete
  <1> QED BY <1>5, <1>7, <1>8, <1>9, <1>11, <1>13, <1>14, <1>15, <1>16, Moves

LEMMA Finding ==
  ASSUME Good, NEW c \in Handlers, NEW x \in Sessions, LeaveFind(c, x)
  PROVE  Good'
  <1>0. TypeOK /\ Timely /\ Kept
    BY DEF Good
  <1>1. PICK from \in Clock \cup {None}, gain \in Nat :
          /\ from = LeftFrom(room)
          /\ gain = IF from = None THEN 0 ELSE Gain(from, session[x].joined, clock)
    <2>1. LeftFrom(room) \in Clock \cup {None}
      BY <1>0 DEF TypeOK, RoomRow, LeftFrom
    <2>2. session[x].joined \in Nat /\ clock \in Nat
      BY <1>0, Clocks DEF TypeOK, SessionRow
    <2> QED BY <2>1, <2>2, Clocks, GainTypes
  <1>2. PICK l \in Leave : l = [pc |-> "close", own |-> x, since |-> from,
                                total |-> session[x].total + gain, earned |-> gain]
    <2>1. session[x].total + gain \in Nat
      BY <1>0 DEF TypeOK, SessionRow
    <2>2. "close" \in {"close", "report"}
      OBVIOUS
    <2> QED BY <2>1, <2>2 DEF Leave
  <1>3. PICK ss \in SUBSET Sessions :
          ss = IF from # since THEN {x} ELSE {x} \cap UNION {Stopping(g) : g \in Handlers}
    OBVIOUS
  <1>4. /\ handler[c] = None /\ handler' = [handler EXCEPT ![c] = l]
        /\ Dispute(ss) /\ x \in Active
        /\ UNCHANGED <<clock, room, session, minutes, reports>>
    BY <1>1, <1>2, <1>3 DEF LeaveFind, Begin
  <1>5. l \in Handler /\ l # None /\ l.pc = "close"
    BY <1>2, HandlerIs, NothingIsNull
  <1>6. TypeOK'
    BY <1>0, <1>4, <1>5, Disputing DEF TypeOK
  <1>7. disputed \subseteq disputed' /\ \A s \in Sessions \ disputed' :
          s \notin disputed /\ focused'[s] = focused[s] /\ stretches'[s] = stretches[s]
    BY <1>0, <1>4, Disputing
  <1>8. /\ ~ Stops(l) /\ OnTime(l, room, clock)
        /\ \A s \in Sessions : /\ ~ Has(l, s) /\ ~ Reports(l, s)
                               /\ ~ Has(handler[c], s) /\ ~ Reports(handler[c], s)
                               /\ Owns(l, s) <=> s = x
    BY <1>2, <1>4, <1>5 DEF Stops, Has, Owns, Reports, OnTime, Holds
  <1>9. x \notin disputed' => from = since /\ \A g \in Handlers : ~ Has(handler[g], x)
    <2>1. ASSUME x \notin disputed' PROVE from = since /\ \A g \in Handlers : x \notin Stopping(g)
      <3>1. x \notin ss
        BY <1>0, <1>4, <2>1, Disputing
      <3> QED BY <1>3, <3>1
    <2> QED BY <1>0, <2>1, InStopping
  <1>10. from = since => InLeave(l, session[x], since, clock)
    BY <1>1, <1>2, <1>4 DEF InLeave, Runs, Worth, Active
  <1>11. \A s \in Sessions \ disputed' :
           /\ Right(l, s) /\ Closing(l, s) /\ Complete(l, s)
           /\ Owns(l, s) => Unloaded(c, s)
           /\ Has(l, s) => Untouched(c, s)
    BY <1>4, <1>8, <1>9, <1>10 DEF Right, Closing, Unloaded, Complete, Active, Untouched
  <1>12. Orderly(l)
    BY <1>8 DEF Orderly
  <1>13. \A s \in Sessions \ disputed' :
           /\ Right(l, s) /\ Closing(l, s) /\ Complete(l, s)
           /\ Has(l, s) => Untouched(c, s)
           /\ Owns(l, s) => Unloaded(c, s)
           /\ ~ Reports(l, s) /\ ~ Reports(handler[c], s)
           /\ ~ Has(handler[c], s)
    BY <1>8, <1>11
  <1>14. \A s \in Sessions \ disputed' : focused'[s] = focused[s] /\ stretches'[s] = stretches[s]
    BY <1>7
  <1>15. /\ handler' = [handler EXCEPT ![c] = l] /\ OnTime(l, room, clock)
         /\ UNCHANGED <<clock, room, session, minutes, reports>> /\ disputed \subseteq disputed'
    BY <1>4, <1>7, <1>8
  <1> QED BY <1>6, <1>12, <1>13, <1>14, <1>15, Moves

\* The same of a handler that ends.
LEMMA Ends ==
  ASSUME Good, NEW c \in Handlers, handler' = [handler EXCEPT ![c] = None],
         UNCHANGED <<clock, room, session, minutes, reports>>, TypeOK',
         disputed \subseteq disputed',
         \A s \in Sessions \ disputed' :
           /\ focused'[s] = focused[s] /\ stretches'[s] = stretches[s]
           /\ ~ Reports(handler[c], s)
           /\ Has(handler[c], s) =>
                /\ Fits(focused[s], stretches[s], session[s].total, Runs(since, session[s], clock))
                /\ minutes[s] = session[s].total
  PROVE  Good'
  <1>1. ~ Stops(None) /\ \A s \in Sessions : ~ Has(None, s) /\ ~ Owns(None, s) /\ ~ Reports(None, s)
    BY DEF Has, Stops, Owns, Reports
  <1>2. Orderly(None) /\ \A s \in Sessions : Right(None, s) /\ Closing(None, s) /\ Complete(None, s)
    BY <1>1 DEF Right, Closing, Orderly, Complete
  <1>3. PICK l : l = None
    OBVIOUS
  <1>4. handler' = [handler EXCEPT ![c] = l]
    BY <1>3
  <1>5. Orderly(l) /\ (l # None => OnTime(l, room, clock))
    BY <1>2, <1>3
  <1>6. \A s \in Sessions \ disputed' :
          /\ Right(l, s) /\ Closing(l, s) /\ Complete(l, s)
          /\ Has(l, s) => Untouched(c, s)
          /\ Owns(l, s) => Unloaded(c, s)
          /\ ~ Reports(l, s) /\ ~ Reports(handler[c], s)
          /\ Has(handler[c], s) /\ ~ Has(l, s) =>
               /\ Fits(focused[s], stretches[s], session[s].total, Runs(since, session[s], clock))
               /\ minutes[s] = session[s].total
    BY <1>1, <1>2, <1>3
  <1>7. \A s \in Sessions \ disputed' : focused'[s] = focused[s] /\ stretches'[s] = stretches[s]
    OBVIOUS
  <1> QED BY <1>4, <1>5, <1>6, <1>7, Moves

\* A handler that ends without having written what it had in hand.
LEMMA Ending ==
  ASSUME Good, NEW c \in Handlers, Fail(c) \/ (LeaveClose(c) /\ handler[c].own \notin Active)
  PROVE  Good'
  <1>0. TypeOK /\ Loaded /\ Kept
    BY DEF Good
  <1>1. PICK l \in Handler : l = handler[c] /\ l # None
    BY <1>0, Locals DEF Fail, LeaveClose, At
  <1>4. CASE Fail(c)
    <2>1. PICK ss \in SUBSET Sessions :
            ss = IF At(c, "report") THEN {l.own} ELSE {s \in Stopping(c) : s \notin l.todo}
      <3>1. At(c, "report") => l.own \in Sessions
        BY <1>1, HandlerTypes DEF At, Leave
      <3>2. Stopping(c) \subseteq Sessions
        BY <1>0, InStopping
      <3> QED BY <3>1, <3>2
    <2>2. /\ handler' = [handler EXCEPT ![c] = None] /\ Dispute(ss)
          /\ UNCHANGED <<clock, room, session, minutes, reports>>
      BY <1>1, <1>4, <2>1 DEF Fail, End
    <2>3. TypeOK'
      BY <1>0, <2>2, Disputing, BoundsAssumption DEF TypeOK
    <2>4. disputed \subseteq disputed' /\ \A s \in Sessions \ disputed' :
            s \notin disputed /\ focused'[s] = focused[s] /\ stretches'[s] = stretches[s]
      BY <1>0, <2>2, Disputing
    <2>5. ASSUME NEW s \in Sessions \ disputed'
          PROVE  /\ ~ Reports(handler[c], s)
                 /\ Has(handler[c], s) =>
                      /\ Fits(focused[s], stretches[s], session[s].total, Runs(since, session[s], clock))
                      /\ minutes[s] = session[s].total
      <3>1. s \notin ss /\ s \notin disputed
        BY <1>0, <2>2, <2>4, <2>5, Disputing
      <3>2. ~ Reports(handler[c], s)
        BY <1>1, <2>1, <3>1 DEF Reports, At
      <3>3. ASSUME Has(handler[c], s)
            PROVE  /\ Fits(focused[s], stretches[s], session[s].total, Runs(since, session[s], clock))
                   /\ minutes[s] = session[s].total
        <4>1. ~ At(c, "report") /\ s \in Stopping(c)
          BY <1>0, <2>5, <3>3, InStopping DEF Has, Stops, At
        <4>2. s \in l.todo
          BY <2>1, <3>1, <4>1
        <4>3. InStop(handler[c], s, session[s], minutes[s], focused[s], stretches[s], since, clock)
          BY <1>0, <2>5, <3>1, <3>3 DEF Kept, Books
        <4> QED BY <1>1, <4>2, <4>3 DEF InStop
      <3> QED BY <3>2, <3>3
    <2> QED BY <2>2, <2>3, <2>4, <2>5, Ends
  <1>5. CASE LeaveClose(c) /\ handler[c].own \notin Active
    <2>1. /\ handler' = [handler EXCEPT ![c] = None] /\ l.pc = "close"
          /\ UNCHANGED <<clock, room, session, minutes, reports, focused, stretches, disputed>>
      BY <1>1, <1>5 DEF LeaveClose, End, At, history
    <2>2. TypeOK'
      BY <1>0, <2>1 DEF TypeOK
    <2>3. \A s \in Sessions : ~ Has(handler[c], s) /\ ~ Reports(handler[c], s)
      BY <1>1, <2>1 DEF Has, Stops, Reports
    <2> QED BY <2>1, <2>2, <2>3, Ends
  <1> QED BY <1>4, <1>5

(***************************************************************************)
(* Sessions begin, and the clock goes on.                                  *)
(***************************************************************************)

LEMMA Joining ==
  ASSUME Good, NEW x \in Sessions, Join(x)
  PROVE  Good'
  <1>0. TypeOK /\ Timely /\ Loaded /\ Apart /\ Kept
    BY DEF Good
  <1>1. PICK r \in SessionRow : r = [status |-> "ACTIVE", joined |-> clock, total |-> 0]
    BY <1>0 DEF TypeOK, SessionRow
  <1>2. /\ session[x].status = "none" /\ session' = [session EXCEPT ![x] = r]
        /\ UNCHANGED <<clock, room, handler, minutes, reports, focused, stretches, disputed>>
    BY <1>1 DEF Join, history
  <1>3. session'[x] = r /\ \A s \in Sessions \ {x} : session'[s] = session[s]
    BY <1>0, <1>2 DEF TypeOK
  <1>4. r.status = "ACTIVE" /\ r.joined = clock /\ r.total = 0 /\ clock \in Nat
          /\ since \in Nat \cup {None} /\ UNCHANGED since /\ (since # None => since <= clock)
    BY <1>0, <1>1, <1>2, Since, Unmoved
  <1>5. TypeOK'
    BY <1>0, <1>2 DEF TypeOK
  <1>6. Timely'
    <2>1. \A s \in Sessions \ disputed : session'[s].status = "ACTIVE" => session'[s].joined <= clock
      BY <1>0, <1>3, <1>4 DEF Timely
    <2> QED BY <1>0, <1>2, <2>1 DEF Timely
  <1>7. Loaded'
    <2>1. \A h \in Handlers : Stops(handler[h]) => \A s \in Sessions \ disputed :
            session'[s].status = "ACTIVE" => Has(handler[h], s) \/ session'[s].joined = clock
      BY <1>0, <1>3, <1>4 DEF Loaded
    <2> QED BY <1>0, <1>2, <2>1 DEF Loaded
  <1>8. Apart'
    BY <1>0, <1>2 DEF Apart
  <1>9. ASSUME x \notin disputed PROVE Books(x)' /\ Once(x)'
    <2>1. Books(x) /\ Once(x)
      BY <1>0, <1>9 DEF Kept
    <2>2. \A h \in Handlers : /\ ~ Has(handler[h], x) /\ ~ Reports(handler[h], x)
                              /\ ~ Owns(handler[h], x)
      BY <1>2, <2>1 DEF Books, Once, InStop
    <2>3. /\ Fits(focused[x], stretches[x], session[x].total, Runs(since, session[x], clock))
          /\ minutes[x] = session[x].total /\ session[x].total = 0
      BY <1>2, <2>1, <2>2 DEF Books
    <2>4. Runs(since, session[x], clock) = 0
      BY <1>2 DEF Runs
    <2>5. Runs(since, r, clock) = 0
      BY <1>4, WorthTypes DEF Runs
    <2>6. Books(x)'
      BY <1>2, <1>3, <1>4, <2>2, <2>3, <2>4, <2>5 DEF Books
    <2>7. Once(x)'
      BY <1>2, <1>3, <1>4, <2>1, <2>2 DEF Once
    <2> QED BY <2>6, <2>7
  <1>10. ASSUME NEW s \in Sessions \ disputed, s # x PROVE Books(s)' /\ Once(s)'
    <2>1. Books(s) /\ Once(s) /\ session'[s] = session[s]
      BY <1>0, <1>3, <1>10 DEF Kept
    <2> QED BY <1>2, <1>4, <2>1 DEF Books, Once
  <1>11. Kept'
    BY <1>2, <1>9, <1>10 DEF Kept
  <1> QED BY <1>5, <1>6, <1>7, <1>8, <1>11 DEF Good

LEMMA Passing ==
  ASSUME Good, Tick
  PROVE  Good'
  <1>0. TypeOK /\ Timely /\ Kept
    BY DEF Good
  <1>1. \A h \in Handlers : handler[h] # None => handler[h].pc = "edit"
    BY DEF Tick, Busy, Quiet
  <1>2. /\ clock < MaxClock /\ clock' = clock + 1
        /\ focused' = [s \in Sessions |->
             IF since # None /\ s \in Active \ disputed THEN focused[s] + 1 ELSE focused[s]]
        /\ UNCHANGED <<room, since, session, handler, minutes, reports, stretches, disputed>>
    BY <1>0, Since, Unmoved DEF Tick
  <1>3. /\ clock \in Nat /\ clock' \in Nat /\ since \in Nat \cup {None}
        /\ since # None => since <= clock
    BY <1>0, <1>2, Since
  <1>4. TypeOK'
    <2>1. clock' \in Clock
      BY <1>2, <1>3, BoundsAssumption DEF Clock
    <2>2. focused' \in [Sessions -> Nat]
      BY <1>0, <1>2 DEF TypeOK
    <2> QED BY <1>0, <1>2, <2>1, <2>2 DEF TypeOK
  <1>10. \A h \in Handlers : ~ Stops(handler[h])
    BY <1>1 DEF Stops
  <1>5. \A h \in Handlers, s \in Sessions :
          ~ Has(handler[h], s) /\ ~ Owns(handler[h], s) /\ ~ Reports(handler[h], s)
    BY <1>1, <1>10 DEF Has, Owns, Reports
  <1>6. Timely'
    <2>1. \A t \in Nat : t <= clock => t <= clock'
      BY <1>2, <1>3
    <2>3. room.started # None => room.started <= clock'
      BY <1>0, <2>1, Since DEF Timely
    <2>4. ASSUME NEW h \in Handlers, handler[h] # None
          PROVE  OnTime(handler[h], room, clock')
      <3>1. /\ handler[h].pc = "edit" /\ Holds(handler[h]) /\ OnTime(handler[h], room, clock)
            /\ handler[h].room \in RoomRow
        BY <1>0, <1>1, <2>4, Locals, HandlerTypes DEF Timely, Holds, Saver
      <3>2. handler[h].room.started \in Nat \cup {None}
        BY <3>1, Clocks DEF RoomRow
      <3>3. handler[h].room.started # None => handler[h].room.started <= clock'
        BY <2>1, <3>1, <3>2 DEF OnTime
      <3> QED BY <3>1, <3>3 DEF OnTime, Fresh
    <2>2. ASSUME NEW s \in Sessions \ disputed, session[s].status = "ACTIVE"
          PROVE  session[s].joined <= clock'
      <3>1. session[s].joined \in Nat /\ session[s].joined <= clock
        BY <1>0, <2>2, Clocks DEF Timely, TypeOK, SessionRow
      <3> QED BY <1>2, <1>3, <3>1
    <2> QED BY <1>2, <2>2, <2>3, <2>4 DEF Timely
  <1>7. Loaded' /\ Apart'
    <2>1. \A h \in Handlers : ~ Stops(handler'[h])
      BY <1>2, <1>10
    <2>2. Loaded'
      BY <2>1 DEF Loaded
    <2>3. Apart'
      BY <2>1 DEF Apart, Has
    <2> QED BY <2>2, <2>3
  <1>8. ASSUME NEW s \in Sessions \ disputed PROVE Books(s)' /\ Once(s)'
    <2>1. Books(s) /\ Once(s)
      BY <1>0, <1>8 DEF Kept
    <2>2. /\ Fits(focused[s], stretches[s], session[s].total, Runs(since, session[s], clock))
          /\ minutes[s] = session[s].total
      BY <1>5, <2>1 DEF Books
    <2>3. session[s] \in SessionRow /\ session[s].joined \in Nat /\ session[s].total \in Nat
            /\ focused[s] \in Nat /\ stretches[s] \in Nat
      BY <1>0, Clocks DEF TypeOK, SessionRow
    <2>4. Fits(focused'[s], stretches[s], session[s].total, Runs(since, session[s], clock'))
      <3>1. CASE since # None /\ session[s].status = "ACTIVE"
        <4>1. focused'[s] = focused[s] + 1
          BY <1>2, <1>8, <3>1 DEF Active
        <4>2. session[s].joined <= clock /\ since <= clock /\ since \in Nat
          BY <1>0, <1>3, <1>8, <3>1 DEF Timely
        <4>3. Runs(since, session[s], clock) \in Nat
          BY <1>3, <2>3, <3>1, <4>2, WorthTypes DEF Runs
        <4>4. Runs(since, session[s], clock') = Runs(since, session[s], clock) + 1
          BY <1>2, <1>3, <2>3, <3>1, <4>2 DEF Runs, Worth, Elapsed
        <4> QED BY <2>2, <2>3, <4>1, <4>3, <4>4, Ticking
      <3>2. CASE since = None \/ session[s].status # "ACTIVE"
        <4>1. focused'[s] = focused[s]
          BY <1>2, <1>8, <3>2 DEF Active
        <4>2. Runs(since, session[s], clock') = Runs(since, session[s], clock)
          BY <3>2 DEF Runs, Worth
        <4> QED BY <2>2, <4>1, <4>2
      <3> QED BY <3>1, <3>2
    <2>5. Books(s)'
      BY <1>2, <1>5, <2>1, <2>2, <2>4 DEF Books
    <2>6. Once(s)'
      BY <1>2, <1>5, <2>1 DEF Once
    <2> QED BY <2>5, <2>6
  <1>9. Kept'
    BY <1>2, <1>8 DEF Kept
  <1> QED BY <1>4, <1>6, <1>7, <1>9 DEF Good

(***************************************************************************)
(* The room is saved.                                                      *)
(***************************************************************************)

\* What a handler that reads of a stale room keeps.
LEMMA Staled ==
  ASSUME NEW l \in Handler, Holds(l), NEW m, m = [l EXCEPT !.stale = TRUE]
  PROVE  /\ m \in Handler /\ m # None /\ m.pc = l.pc /\ m.stale
         /\ m.room = l.room /\ m.diff = l.diff
         /\ Stops(l) => /\ m.at = l.at /\ m.since = l.since /\ m.todo = l.todo
                        /\ m.entities = l.entities
         /\ l.pc = "load" => m.at = l.at
  <1>1. CASE l \in Stop
    <2>1. m \in Stop
      BY <1>1 DEF Stop
    <2> QED BY <1>1, <2>1, HandlerIs, NothingIsNull DEF Stop
  <1>2. CASE l \in Saver
    <2>1. m \in Saver
      BY <1>2 DEF Saver
    <2>2. ~ Stops(l) /\ l.pc # "load"
      BY <1>2 DEF Saver, Stops
    <2> QED BY <1>2, <2>1, <2>2, HandlerIs, NothingIsNull DEF Saver
  <1> QED BY <1>1, <1>2, HandlerTypes DEF Holds

\* A handler c writes the room, and the stretches of what it did not credit stay.
LEMMA Phase ==
  ASSUME Good, NEW c \in Handlers, handler[c] # None, handler'[c] = None,
         \A h \in Handlers \ {c} :
           \/ handler'[h] = handler[h] /\ (Holds(handler[h]) => UNCHANGED room)
           \/ Holds(handler[h]) /\ handler'[h] = [handler[h] EXCEPT !.stale = TRUE],
         TypeOK', UNCHANGED <<clock, session, minutes, reports>>,
         disputed \subseteq disputed',
         \A s \in Sessions \ disputed' : focused'[s] = focused[s] /\ stretches'[s] = stretches[s],
         room'.started # None => room'.started <= clock,
         \A s \in Sessions \ disputed' :
           /\ ~ Reports(handler[c], s)
           /\ session[s].status = "ACTIVE" =>
                Worth(since', session[s], clock) =
                  IF Has(handler[c], s) THEN 0 ELSE Worth(since, session[s], clock)
           /\ Has(handler[c], s) => handler[c].pc # "credit" /\ s \notin handler[c].todo
  PROVE  Good'
  <1>0. TypeOK /\ Timely /\ Loaded /\ Apart /\ Kept
    BY DEF Good
  <1>1. \A s \in Sessions \ disputed' : s \notin disputed
    OBVIOUS
  <1>2. \A s \in Sessions : /\ ~ Stops(None) /\ ~ Has(None, s) /\ ~ Owns(None, s)
                            /\ ~ Reports(None, s)
    BY DEF Stops, Has, Owns, Reports
  <1>3. ASSUME NEW h \in Handlers \ {c}, Holds(handler[h]),
               handler'[h] = [handler[h] EXCEPT !.stale = TRUE]
        PROVE  /\ handler[h] \in Handler /\ Holds(handler[h]) /\ handler'[h] # None
               /\ handler'[h] = [handler[h] EXCEPT !.stale = TRUE]
               /\ handler'[h].pc = handler[h].pc /\ handler'[h].stale
               /\ handler'[h].room = handler[h].room
               /\ Stops(handler[h]) =>
                    /\ handler'[h].at = handler[h].at /\ handler'[h].since = handler[h].since
                    /\ handler'[h].todo = handler[h].todo
                    /\ handler'[h].entities = handler[h].entities
               /\ handler[h].pc = "load" => handler'[h].at = handler[h].at
    <2>1. handler[h] \in Handler
      BY <1>0, <1>3, Locals DEF Holds
    <2> QED BY <1>3, <2>1, Staled
  <1>4. ASSUME NEW h \in Handlers \ {c}, NEW s \in Sessions
        PROVE  /\ Stops(handler'[h]) <=> Stops(handler[h])
               /\ Has(handler'[h], s) <=> Has(handler[h], s)
               /\ Owns(handler'[h], s) <=> Owns(handler[h], s)
               /\ Reports(handler'[h], s) <=> Reports(handler[h], s)
               /\ Owns(handler[h], s) \/ Reports(handler[h], s) => handler'[h] = handler[h]
    <2>1. CASE handler'[h] = handler[h]
      BY <2>1
    <2>2. CASE handler'[h] # handler[h]
      <3>1. Stops(handler'[h]) <=> Stops(handler[h])
        BY <1>3, <2>2 DEF Stops, Holds
      <3>2. Has(handler'[h], s) <=> Has(handler[h], s)
        BY <1>3, <2>2, <3>1 DEF Has
      <3> QED BY <1>3, <2>2, <3>1, <3>2 DEF Owns, Reports, Holds
    <2> QED BY <2>1, <2>2
  <1>5. Timely'
    <2>1. ASSUME NEW h \in Handlers, handler'[h] # None
          PROVE  OnTime(handler'[h], room', clock)
      <3>1. h \in Handlers \ {c}
        BY <2>1
      <3>2. CASE handler'[h] = handler[h] /\ (Holds(handler[h]) => UNCHANGED room)
        <4>1. OnTime(handler[h], room, clock)
          BY <1>0, <2>1, <3>2 DEF Timely
        <4> QED BY <3>2, <4>1 DEF OnTime
      <3>3. CASE Holds(handler[h]) /\ handler'[h] = [handler[h] EXCEPT !.stale = TRUE]
        <4>1. handler[h] # None /\ OnTime(handler[h], room, clock)
          BY <1>0, <1>3, <3>1, <3>3 DEF Timely, Holds
        <4>2. handler'[h].pc \in {"load", "credit", "saveRoom", "writeRoom"} =>
                handler'[h].at = clock
          BY <1>3, <3>1, <3>3, <4>1 DEF OnTime, Stops
        <4> QED BY <1>3, <3>1, <3>3, <4>1, <4>2 DEF OnTime, Holds
      <3> QED BY <3>1, <3>2, <3>3
    <2> QED BY <1>0, <1>1, <2>1 DEF Timely
  <1>6. ASSUME NEW h \in Handlers, Stops(handler'[h])
        PROVE  /\ h # c /\ Stops(handler[h]) /\ handler'[h].pc = handler[h].pc
               /\ handler'[h].todo = handler[h].todo /\ handler'[h].since = handler[h].since
               /\ handler'[h].entities = handler[h].entities
    <2>1. h \in Handlers \ {c}
      BY <1>6 DEF Stops
    <2>2. Stops(handler[h])
      <3>1. CASE handler'[h] = handler[h]
        BY <1>6, <3>1
      <3>2. CASE handler'[h] # handler[h]
        BY <1>3, <1>6, <2>1, <3>2 DEF Stops, Holds
      <3> QED BY <3>1, <3>2
    <2> QED BY <1>3, <2>1, <2>2
  <1>7. Loaded'
    <2>1. ASSUME NEW h \in Handlers, Stops(handler'[h])
          PROVE  /\ \A s \in handler'[h].todo : Has(handler'[h], s)
                 /\ handler'[h].pc # "credit" => handler'[h].todo = {}
                 /\ \A s \in Sessions \ disputed' : session[s].status = "ACTIVE" =>
                      Has(handler'[h], s) \/ session[s].joined = clock
      BY <1>0, <1>1, <1>6, <2>1 DEF Loaded, Has
    <2> QED BY <2>1 DEF Loaded
  <1>8. Apart'
    <2>1. \A h \in Handlers, s \in Sessions :
            /\ Has(handler'[h], s) => Has(handler[h], s)
            /\ Owns(handler'[h], s) => Owns(handler[h], s)
      BY <1>2, <1>4
    <2> QED BY <1>0, <1>1, <2>1 DEF Apart
  <1>9. ASSUME NEW s \in Sessions \ disputed' PROVE Books(s)' /\ Once(s)'
    <2>1. Books(s) /\ Once(s)
      BY <1>0, <1>1, <1>9 DEF Kept
    <2>2. ~ Has(handler[c], s) => Runs(since', session[s], clock) = Runs(since, session[s], clock)
      BY <1>9 DEF Runs
    <2>3. Has(handler[c], s) => /\ Runs(since', session[s], clock) = 0
                                /\ \A h \in Handlers \ {c} : /\ ~ Has(handler[h], s)
                                                              /\ ~ Owns(handler[h], s)
      BY <1>0, <1>1, <1>9 DEF Apart, Runs
    <2>4. focused'[s] = focused[s] /\ stretches'[s] = stretches[s]
      BY <1>9
    <2>5. ASSUME NEW h \in Handlers, Has(handler'[h], s)
          PROVE  InStop(handler'[h], s, session[s], minutes[s], focused[s], stretches[s], since', clock)
      <3>1. /\ h # c /\ Has(handler[h], s) /\ handler'[h].pc = handler[h].pc
            /\ handler'[h].todo = handler[h].todo /\ handler'[h].since = handler[h].since
            /\ handler'[h].entities = handler[h].entities
        BY <1>6, <2>5 DEF Has
      <3>2. InStop(handler[h], s, session[s], minutes[s], focused[s], stretches[s], since, clock)
        BY <2>1, <3>1 DEF Books
      <3>3. Runs(since', session[s], clock) = Runs(since, session[s], clock)
        BY <2>2, <2>3, <3>1
      <3> QED BY <3>1, <3>2, <3>3 DEF InStop
    <2>6. ASSUME NEW h \in Handlers, Owns(handler'[h], s), session[s].status = "ACTIVE"
          PROVE  InLeave(handler'[h], session[s], since', clock)
      <3>1. h # c /\ Owns(handler[h], s) /\ handler'[h] = handler[h] /\ ~ Has(handler[c], s)
        BY <1>2, <1>4, <2>3, <2>6
      <3>2. InLeave(handler[h], session[s], since, clock)
        BY <2>1, <2>6, <3>1 DEF Books
      <3> QED BY <2>2, <3>1, <3>2 DEF InLeave
    <2>7. Has(handler[c], s) => /\ Fits(focused[s], stretches[s], session[s].total, 0)
                                /\ minutes[s] = session[s].total
      BY <1>9, <2>1 DEF Books, InStop
    <2>8. ASSUME \A h \in Handlers : ~ Has(handler'[h], s)
          PROVE  Fits(focused[s], stretches[s], session[s].total, Runs(since', session[s], clock))
      <3>1. CASE Has(handler[c], s)
        BY <2>3, <2>7, <3>1
      <3>2. CASE ~ Has(handler[c], s)
        <4>1. \A h \in Handlers : ~ Has(handler[h], s)
          BY <1>4, <2>8, <3>2
        <4> QED BY <2>1, <2>2, <3>2, <4>1 DEF Books
      <3> QED BY <3>1, <3>2
    <2>9. ASSUME \A h \in Handlers : ~ Has(handler'[h], s) /\ ~ Reports(handler'[h], s)
          PROVE  minutes[s] = session[s].total
      <3>1. CASE Has(handler[c], s)
        BY <2>7, <3>1
      <3>2. CASE ~ Has(handler[c], s)
        <4>1. \A h \in Handlers : ~ Has(handler[h], s) /\ ~ Reports(handler[h], s)
          BY <1>4, <1>9, <2>9, <3>2
        <4> QED BY <2>1, <4>1 DEF Books
      <3> QED BY <3>1, <3>2
    <2>10. session[s].status = "none" =>
             session[s].total = 0 /\ \A h \in Handlers : ~ Owns(handler'[h], s)
      BY <1>2, <1>4, <2>1 DEF Books
    <2>11. Books(s)'
      BY <2>4, <2>5, <2>6, <2>8, <2>9, <2>10 DEF Books
    <2>12. \A h \in Handlers : Reports(handler'[h], s) =>
             handler'[h] = handler[h] /\ Reports(handler[h], s)
      BY <1>2, <1>4
    <2> QED BY <2>1, <2>11, <2>12 DEF Once
  <1>10. Kept'
    BY <1>9 DEF Kept
  <1> QED BY <1>5, <1>7, <1>8, <1>10 DEF Good

\* Where nobody wrote the row since, a save ends the stretches its handler credited, and
\* moves no other.
LEMMA InTime ==
  ASSUME TypeOK, Timely, Loaded, NEW c \in Handlers, NEW l \in Handler, l = handler[c],
         l.pc \in {"write", "writeRoom"}, ~ l.stale,
         NEW new \in RoomRow, new = Updated(l),
         NEW s \in Sessions \ disputed, session[s].status = "ACTIVE"
  PROVE  Worth(CreditedFrom(new), session[s], clock) =
           IF Has(l, s) THEN 0 ELSE Worth(since, session[s], clock)
  <1>1. l # None /\ Holds(l) /\ OnTime(l, room, clock)
    BY HandlerTypes DEF Timely, Holds
  <1>2. Fresh(l, room, clock) /\ l.room \in RoomRow
    BY <1>1, HandlerTypes DEF OnTime, Stop, Saver
  <1>3. new.phase = l.room.phase /\ new.started = l.room.started
    BY <1>2 DEF Fresh, Updated
  <1>4. session[s] \in SessionRow /\ session[s].joined <= clock
    BY DEF TypeOK, Timely
  <1>5. Worth(None, session[s], clock) = 0
    BY DEF Worth
  <1>6. CASE l.pc = "writeRoom"
    <2>1. CreditedFrom(new) = None
      BY <1>2, <1>3, <1>6 DEF Fresh, CreditedFrom
    <2>2. Stops(l)
      BY <1>1, <1>6 DEF Stops
    <2>3. Has(l, s) \/ session[s].joined = clock
      BY <2>2 DEF Loaded
    <2>4. session[s].joined = clock => Worth(since, session[s], clock) = 0
      BY <1>4, Since, WorthTypes
    <2> QED BY <1>5, <2>1, <2>3, <2>4
  <1>7. CASE l.pc = "write"
    <2>1. ~ Has(l, s)
      BY <1>7 DEF Has, Stops
    <2>2. CASE l.room = room
      BY <1>3, <2>1, <2>2 DEF CreditedFrom, since
    <2>3. CASE room.phase = "REST" /\ l.room.phase = "REST"
      BY <1>3, <2>1, <2>3 DEF CreditedFrom, since
    <2>4. CASE room.phase = "REST" /\ l.room.phase = "FOCUS" /\ l.room.started = clock
      <3>1. since = None
        BY <2>4 DEF CreditedFrom, since
      <3>2. CreditedFrom(new) = clock
        BY <1>3, <2>4, Since, NothingIsNull DEF CreditedFrom
      <3>3. Worth(clock, session[s], clock) = 0
        BY <1>4, Since, WorthTypes
      <3> QED BY <1>5, <2>1, <3>1, <3>2, <3>3
    <2> QED BY <1>2, <1>7, <2>2, <2>3, <2>4 DEF Fresh, RoomRow
  <1> QED BY <1>6, <1>7

LEMMA RoomWriting ==
  ASSUME Good, NEW c \in Handlers, Write(c)
  PROVE  Good'
  <1>0. TypeOK /\ Timely /\ Loaded
    BY DEF Good
  <1>1. PICK l \in Handler : l = handler[c] /\ l # None /\ l.pc \in {"write", "writeRoom"}
    BY <1>0, Locals DEF Write, At
  <1>2. Holds(l) /\ OnTime(l, room, clock) /\ l.room \in RoomRow
    BY <1>0, <1>1, HandlerTypes DEF Timely, Holds, Stop, Saver
  <1>3. PICK new \in RoomRow : new = Updated(l)
    BY <1>0, <1>2 DEF Updated, TypeOK, RoomRow
  <1>4. room' = new /\ UNCHANGED <<clock, session, minutes, reports>>
    BY <1>1, <1>3 DEF Write
  <1>5. since' = CreditedFrom(new)
    BY <1>4 DEF since
  <1>6. new.started # None => new.started <= clock
    BY <1>0, <1>2, <1>3 DEF Updated, Timely, OnTime
  <1>7. /\ handler'[c] = None
        /\ \A h \in Handlers \ {c} :
             \/ handler'[h] = handler[h] /\ (Holds(handler[h]) => UNCHANGED room)
             \/ Holds(handler[h]) /\ handler'[h] = [handler[h] EXCEPT !.stale = TRUE]
    BY DEF Write, HoldsRoom, Holds, At
  <1>8. PICK ss \in SUBSET Sessions : ss = IF l.stale THEN Moved(c, new) ELSE {}
    BY DEF Moved, Active
  <1>9. Dispute(ss)
    BY <1>1, <1>3, <1>8 DEF Write
  <1>10. TypeOK'
    <2>1. ASSUME NEW h \in Handlers PROVE handler'[h] \in Handler \cup {None}
      <3>1. CASE h = c
        BY <1>7, <3>1
      <3>2. CASE h # c /\ handler'[h] = handler[h]
        BY <1>0, <3>2 DEF TypeOK
      <3>3. CASE h # c /\ handler'[h] # handler[h]
        BY <1>0, <1>7, <3>3, Locals, Staled DEF Holds
      <3> QED BY <3>1, <3>2, <3>3
    <2>2. handler' \in [Handlers -> Handler \cup {None}]
      BY <2>1 DEF Write
    <2> QED BY <1>0, <1>4, <1>9, <2>2, Disputing DEF TypeOK
  <1>11. disputed \subseteq disputed' /\ \A s \in Sessions \ disputed' :
           /\ s \notin disputed /\ s \notin ss
           /\ focused'[s] = focused[s] /\ stretches'[s] = stretches[s]
    BY <1>0, <1>9, Disputing
  <1>12. ASSUME NEW s \in Sessions \ disputed', session[s].status = "ACTIVE"
         PROVE  Worth(since', session[s], clock) =
                  IF Has(handler[c], s) THEN 0 ELSE Worth(since, session[s], clock)
    <2>1. CASE ~ l.stale
      BY <1>0, <1>1, <1>3, <1>5, <1>11, <1>12, <2>1, InTime
    <2>2. CASE l.stale
      <3>1. s \notin Moved(c, new) /\ s \in Active
        BY <1>8, <1>11, <1>12, <2>2 DEF Active
      <3>2. Stretch(new, s) = IF s \in Stopping(c) THEN 0 ELSE Stretch(room, s)
        BY <3>1 DEF Moved
      <3>3. s \in Stopping(c) <=> Has(handler[c], s)
        BY <1>0, InStopping
      <3> QED BY <1>5, <3>1, <3>2, <3>3 DEF Stretch, Worth, since
    <2> QED BY <2>1, <2>2
  <1>13. ASSUME NEW s \in Sessions
         PROVE  /\ ~ Reports(handler[c], s)
                /\ Has(handler[c], s) => handler[c].pc # "credit" /\ s \notin handler[c].todo
    BY <1>0, <1>1 DEF Reports, Has, Loaded
  <1> QED BY <1>1, <1>4, <1>6, <1>7, <1>10, <1>11, <1>12, <1>13, Phase

(***************************************************************************)
(* Sessions are credited, saved, closed and reported.                      *)
(***************************************************************************)

\* What the locals l say of a session is what m says.
Same(l, m, s) ==
  Has(l, s) => /\ m.pc = l.pc /\ m.since = l.since
               /\ m.entities[s] = l.entities[s] /\ (s \in m.todo <=> s \in l.todo)

\* A session that the step of a handler is not about.
LEMMA Others ==
  ASSUME Good, NEW c \in Handlers, NEW m, handler' = [handler EXCEPT ![c] = m],
         UNCHANGED <<clock, room>>, NEW s \in Sessions \ disputed,
         session'[s] = session[s], minutes'[s] = minutes[s], reports'[s] = reports[s],
         focused'[s] = focused[s], stretches'[s] = stretches[s],
         ~ Owns(handler[c], s), ~ Owns(m, s), ~ Reports(handler[c], s), ~ Reports(m, s),
         Has(m, s) <=> Has(handler[c], s), Same(handler[c], m, s)
  PROVE  Books(s)' /\ Once(s)'
  <1>1. TypeOK /\ Books(s) /\ Once(s) /\ UNCHANGED since
    BY Unmoved DEF Good, Kept
  <1>2. handler'[c] = m /\ \A h \in Handlers \ {c} : handler'[h] = handler[h]
    BY <1>1 DEF TypeOK
  <1>3. \A h \in Handlers : /\ Has(handler'[h], s) <=> Has(handler[h], s)
                            /\ Owns(handler'[h], s) <=> Owns(handler[h], s)
                            /\ Reports(handler'[h], s) <=> Reports(handler[h], s)
    BY <1>2
  <1>4. ASSUME NEW h \in Handlers, Has(handler'[h], s)
        PROVE  InStop(handler'[h], s, session[s], minutes[s], focused[s], stretches[s], since, clock)
    <2>1. InStop(handler[h], s, session[s], minutes[s], focused[s], stretches[s], since, clock)
      BY <1>1, <1>3, <1>4 DEF Books
    <2>2. CASE h = c
      <3>1. /\ m.pc = handler[c].pc /\ m.since = handler[c].since
            /\ m.entities[s] = handler[c].entities[s]
            /\ (s \in m.todo <=> s \in handler[c].todo)
        BY <1>2, <1>4, <2>2 DEF Same
      <3> QED BY <1>2, <2>1, <2>2, <3>1 DEF InStop
    <2>3. CASE h # c
      BY <1>2, <2>1, <2>3
    <2> QED BY <2>2, <2>3
  <1>5. \A h \in Handlers : Owns(handler'[h], s) \/ Reports(handler'[h], s) =>
          handler'[h] = handler[h]
    BY <1>2
  <1>6. Books(s)'
    BY <1>1, <1>3, <1>4, <1>5 DEF Books
  <1>7. Once(s)'
    BY <1>1, <1>3, <1>5 DEF Once
  <1> QED BY <1>6, <1>7

\* The invariant but for the books, when a handler goes on and has what it had.
LEMMA Rest ==
  ASSUME Good, NEW c \in Handlers, NEW m, handler' = [handler EXCEPT ![c] = m],
         UNCHANGED <<clock, room, disputed>>,
         m # None => OnTime(m, room, clock), Orderly(m),
         Stops(m) => Stops(handler[c]),
         \A s \in Sessions : (Has(m, s) <=> Has(handler[c], s)) /\ ~ Owns(m, s),
         \A s \in Sessions \ disputed : session'[s].status = "ACTIVE" =>
           session[s].status = "ACTIVE" /\ session'[s].joined = session[s].joined
  PROVE  Timely' /\ Loaded' /\ Apart'
  <1>0. TypeOK /\ Timely /\ Loaded /\ Apart
    BY DEF Good
  <1>1. handler'[c] = m /\ \A h \in Handlers \ {c} : handler'[h] = handler[h]
    BY <1>0 DEF TypeOK
  <1>2. Timely'
    <2>1. \A h \in Handlers : handler'[h] # None => OnTime(handler'[h], room, clock)
      BY <1>0, <1>1 DEF Timely
    <2>2. \A s \in Sessions \ disputed : session'[s].status = "ACTIVE" => session'[s].joined <= clock
      BY <1>0 DEF Timely
    <2> QED BY <1>0, <2>1, <2>2 DEF Timely
  <1>3. Loaded'
    <2>1. ASSUME NEW h \in Handlers, Stops(handler'[h])
          PROVE  /\ \A s \in handler'[h].todo : Has(handler'[h], s)
                 /\ handler'[h].pc # "credit" => handler'[h].todo = {}
      <3>1. CASE h = c
        BY <1>1, <2>1, <3>1 DEF Orderly
      <3>2. CASE h # c
        BY <1>0, <1>1, <2>1, <3>2 DEF Loaded
      <3> QED BY <3>1, <3>2
    <2>2. ASSUME NEW h \in Handlers, Stops(handler'[h]), NEW s \in Sessions \ disputed,
                 session'[s].status = "ACTIVE"
          PROVE  Has(handler'[h], s) \/ session'[s].joined = clock
      <3>1. Stops(handler[h]) /\ (Has(handler'[h], s) <=> Has(handler[h], s))
        BY <1>1, <2>2
      <3>2. session[s].status = "ACTIVE" /\ session'[s].joined = session[s].joined
        BY <2>2
      <3> QED BY <1>0, <3>1, <3>2 DEF Loaded
    <2> QED BY <2>1, <2>2 DEF Loaded
  <1>4. Apart'
    <2>1. \A h \in Handlers, s \in Sessions :
            /\ Has(handler'[h], s) <=> Has(handler[h], s)
            /\ Owns(handler'[h], s) => Owns(handler[h], s)
      BY <1>1
    <2> QED BY <1>0, <2>1 DEF Apart
  <1> QED BY <1>2, <1>3, <1>4

\* The gain of a stretch whose ticks are counted is their whole minutes.
LEMMA Gaining ==
  ASSUME NEW from \in Nat, NEW joined \in Nat, NEW now \in Nat,
         Elapsed(from, joined, now) \in Nat
  PROVE  Gain(from, joined, now) = Elapsed(from, joined, now) \div TicksPerMinute
  <1>1. Elapsed(from, joined, now) \div TicksPerMinute \in Nat
    BY Division
  <1> QED BY <1>1 DEF Gain, Earned

LEMMA CreditingOne ==
  ASSUME Good, NEW c \in Handlers, StopCredit(c)
  PROVE  Good'
  <1>0. TypeOK /\ Timely /\ Loaded /\ Apart /\ Kept
    BY DEF Good
  <1>1. PICK l \in Stop : l = handler[c] /\ l.pc = "credit" /\ Stops(l)
    <2>1. handler[c] # None /\ handler[c].pc = "credit"
      BY DEF StopCredit, At
    <2> QED BY <1>0, <2>1, Locals, HandlerTypes DEF Stops
  <1>2. l.at = clock /\ l.since \in Nat /\ clock \in Nat /\ l.todo \subseteq Sessions
        /\ l.entities \in [Sessions -> SessionRow \cup {None}]
    <2>1. l.at = clock
      BY <1>0, <1>1, NothingIsNull DEF Timely, OnTime, Stops
    <2> QED BY <1>0, <1>1, <2>1, Clocks DEF Stop, TypeOK
  <1>3. PICK x \in l.todo :
          LET gain == Gain(l.since, l.entities[x].joined, l.at)
          IN /\ handler' = [handler EXCEPT ![c].todo = @ \ {x}, ![c].entities[x].total = @ + gain]
             /\ minutes' = [minutes EXCEPT ![x] = @ + gain]
             /\ Computed(x, l.since, l.entities[x].joined, l.at)
    BY <1>1 DEF StopCredit
  <1>4. x \in Sessions /\ Has(l, x) /\ l.entities[x] \in SessionRow
    BY <1>0, <1>1, <1>2, <1>3 DEF Loaded, Has
  <1>5. l.entities[x].joined \in Nat /\ l.entities[x].total \in Nat
    BY <1>4, Clocks DEF SessionRow
  <1>6. PICK gain \in Nat : gain = Gain(l.since, l.entities[x].joined, l.at)
    BY <1>2, <1>5, GainTypes
  <1>7. PICK e \in SessionRow : e = [l.entities[x] EXCEPT !.total = @ + gain]
    <2>1. PICK n \in Nat : n = l.entities[x].total + gain
      BY <1>5, <1>6
    <2>2. [l.entities[x] EXCEPT !.total = n] \in SessionRow
      BY <1>4, <2>1 DEF SessionRow
    <2> QED BY <2>1, <2>2
  <1>8. e.status = l.entities[x].status /\ e.joined = l.entities[x].joined
        /\ e.total = l.entities[x].total + gain /\ e # None
    BY <1>4, <1>7, NothingIsNull DEF SessionRow
  <1>9. PICK m \in Stop : m = [l EXCEPT !.todo = @ \ {x}, !.entities[x] = e]
    BY <1>1, <1>4, <1>7 DEF Stop
  <1>10. /\ m.room = l.room /\ m.stale = l.stale
         /\ m.pc = "credit" /\ m.at = l.at /\ m.since = l.since /\ m.todo = l.todo \ {x}
         /\ m.entities = [l.entities EXCEPT ![x] = e]
    BY <1>1, <1>9 DEF Stop
  <1>11. m.entities[x] = e /\ \A s \in Sessions \ {x} : m.entities[s] = l.entities[s]
    BY <1>2, <1>4, <1>10
  <1>12. m \in Handler /\ m # None
    BY HandlerIs, NothingIsNull
  <1>13. /\ handler' = [handler EXCEPT ![c] = m]
         /\ minutes' = [minutes EXCEPT ![x] = @ + gain]
         /\ Computed(x, l.since, l.entities[x].joined, l.at)
         /\ UNCHANGED <<clock, room, session, reports, focused, disputed>>
    <2>1. handler' = [handler EXCEPT ![c].todo = @ \ {x}, ![c].entities[x].total = @ + gain]
      BY <1>3, <1>6
    <2>2. handler' = [handler EXCEPT ![c] = m]
      BY <1>0, <1>1, <1>2, <1>4, <1>7, <1>9, <2>1 DEF TypeOK, Stop
    <2> QED BY <1>3, <1>6, <2>2 DEF StopCredit
  <1>14. minutes'[x] = minutes[x] + gain /\ \A s \in Sessions \ {x} : minutes'[s] = minutes[s]
    BY <1>0, <1>4, <1>13 DEF TypeOK
  <1>15. /\ stretches' \in [Sessions -> Nat]
         /\ \A s \in Sessions \ {x} : stretches'[s] = stretches[s]
         /\ x \notin disputed => stretches'[x] =
              IF Elapsed(l.since, l.entities[x].joined, l.at) > 0 THEN stretches[x] + 1
              ELSE stretches[x]
    BY <1>0, <1>4, <1>13 DEF TypeOK, Computed
  <1>16. TypeOK'
    <2>1. minutes' \in [Sessions -> Nat]
      BY <1>0, <1>4, <1>13 DEF TypeOK
    <2> QED BY <1>0, <1>12, <1>13, <1>15, <2>1 DEF TypeOK
  <1>17. /\ Stops(m) /\ OnTime(m, room, clock)
         /\ \A s \in Sessions : /\ Has(m, s) <=> Has(l, s)
                                /\ ~ Owns(m, s) /\ ~ Reports(m, s)
                                /\ ~ Owns(l, s) /\ ~ Reports(l, s)
    <2>1. OnTime(l, room, clock)
      BY <1>0, <1>1 DEF Timely, Stops
    <2>2. OnTime(m, room, clock)
      BY <1>1, <1>10, <1>12, <2>1 DEF OnTime, Holds, Fresh, Stops
    <2> QED BY <1>1, <1>2, <1>4, <1>8, <1>10, <1>11, <1>12, <2>2 DEF Stops, Has, Owns, Reports
  <1>18. Orderly(m)
    <2>1. \A s \in m.todo : s \in Sessions /\ Has(l, s)
      BY <1>0, <1>1, <1>2, <1>10 DEF Loaded
    <2> QED BY <1>10, <1>17, <2>1 DEF Orderly
  <1>19. Timely' /\ Loaded' /\ Apart'
    BY <1>1, <1>13, <1>17, <1>18, Rest
  <1>20. ASSUME NEW s \in Sessions \ disputed, s # x PROVE Books(s)' /\ Once(s)'
    <2>1. Same(handler[c], m, s)
      BY <1>1, <1>10, <1>11, <1>20 DEF Same
    <2> QED BY <1>1, <1>13, <1>14, <1>15, <1>17, <1>20, <2>1, Others
  <1>21. ASSUME x \notin disputed PROVE Books(x)' /\ Once(x)'
    <2>1. Books(x) /\ Once(x)
      BY <1>0, <1>4, <1>21 DEF Kept
    <2>2. InStop(l, x, session[x], minutes[x], focused[x], stretches[x], since, clock)
      BY <1>1, <1>4, <2>1 DEF Books
    <2>3. PICK t \in Nat : /\ t = Runs(since, session[x], clock)
                           /\ t = Elapsed(l.since, l.entities[x].joined, l.at)
      <3>1. session[x].status = "ACTIVE" /\ session[x].joined <= clock /\ session[x] \in SessionRow
        BY <1>0, <1>4, <1>21, <2>2 DEF InStop, Timely, TypeOK
      <3>2. since \in Nat \cup {None} /\ (since # None => since <= clock)
        BY <1>0, Since
      <3>3. Runs(since, session[x], clock) \in Nat
        BY <1>2, <3>1, <3>2, WorthTypes DEF Runs
      <3>4. Runs(since, session[x], clock) = Elapsed(l.since, l.entities[x].joined, l.at)
        BY <1>2, <1>3, <2>2, NothingIsNull DEF InStop, Worth
      <3> QED BY <3>3, <3>4
    <2>4. gain = t \div TicksPerMinute
      BY <1>2, <1>5, <1>6, <2>3, Gaining
    <2>5. stretches'[x] = IF t > 0 THEN stretches[x] + 1 ELSE stretches[x]
      BY <1>15, <1>21, <2>3
    <2>6. Fits(focused[x], stretches'[x], minutes'[x], 0)
      <3>1. focused[x] \in Nat /\ stretches[x] \in Nat /\ minutes[x] \in Nat
        BY <1>0, <1>4 DEF TypeOK
      <3>2. Fits(focused[x], stretches[x], minutes[x], t)
        BY <1>3, <2>2, <2>3 DEF InStop
      <3> QED BY <1>14, <2>4, <2>5, <3>1, <3>2, Crediting
    <2>7. InStop(m, x, session[x], minutes'[x], focused[x], stretches'[x], since, clock)
      BY <1>8, <1>10, <1>11, <1>14, <2>2, <2>6 DEF InStop
    <2>8. handler'[c] = m /\ \A h \in Handlers \ {c} : handler'[h] = handler[h]
      BY <1>0, <1>13 DEF TypeOK
    <2>9. Has(m, x) /\ ~ Owns(m, x) /\ ~ Reports(m, x)
      BY <1>4, <1>17
    <2>10. \A h \in Handlers \ {c} : ~ Has(handler[h], x) /\ ~ Owns(handler[h], x)
      BY <1>0, <1>1, <1>4, <1>21 DEF Apart
    <2>11. \A h \in Handlers : ~ Reports(handler[h], x)
      BY <2>1, <2>2 DEF Once, InStop
    <2>12. Books(x)'
      <3>1. \A h \in Handlers : Has(handler'[h], x) =>
              InStop(handler'[h], x, session[x], minutes'[x], focused[x], stretches'[x], since, clock)
        BY <2>7, <2>8, <2>10
      <3>2. Has(handler'[c], x) /\ \A h \in Handlers : ~ Owns(handler'[h], x)
        BY <2>8, <2>9, <2>10
      <3>3. session[x].status # "none"
        BY <2>2 DEF InStop
      <3> QED BY <1>13, <3>1, <3>2, <3>3, Unmoved DEF Books
    <2>13. Once(x)'
      BY <1>13, <2>1, <2>8, <2>9, <2>11 DEF Once
    <2> QED BY <2>12, <2>13
  <1>22. Kept'
    BY <1>13, <1>20, <1>21 DEF Kept
  <1> QED BY <1>16, <1>19, <1>22 DEF Good

LEMMA SavingSessions ==
  ASSUME Good, NEW c \in Handlers, StopSaveSessions(c)
  PROVE  Good'
  <1>0. TypeOK /\ Timely /\ Loaded /\ Apart /\ Kept
    BY DEF Good
  <1>1. PICK l \in Stop : l = handler[c] /\ l.pc = "credit" /\ Stops(l) /\ l.todo = {}
    <2>1. handler[c] # None /\ handler[c].pc = "credit" /\ handler[c].todo = {}
      BY DEF StopSaveSessions, At
    <2> QED BY <1>0, <2>1, Locals, HandlerTypes DEF Stops
  <1>2. PICK m \in Stop : m = [l EXCEPT !.pc = "saveRoom"]
    BY <1>1 DEF Stop
  <1>3. /\ m.room = l.room /\ m.stale = l.stale
        /\ m.pc = "saveRoom" /\ m.at = l.at /\ m.since = l.since /\ m.todo = {}
        /\ m.entities = l.entities
    BY <1>1, <1>2 DEF Stop
  <1>4. m \in Handler /\ m # None
    BY HandlerIs, NothingIsNull
  <1>5. /\ handler' = [handler EXCEPT ![c] = m]
        /\ UNCHANGED <<clock, room, minutes, reports, focused, stretches, disputed>>
    BY <1>0, <1>1, <1>2 DEF StopSaveSessions, TypeOK, history
  <1>6. \A s \in Sessions : session'[s] = IF Has(l, s) THEN l.entities[s] ELSE session[s]
    BY <1>1 DEF StopSaveSessions, Has
  <1>7. TypeOK'
    <2>1. session' = [s \in Sessions |-> IF l.entities[s] = None THEN session[s] ELSE l.entities[s]]
      BY <1>1 DEF StopSaveSessions
    <2>2. session' \in [Sessions -> SessionRow]
      BY <1>0, <2>1 DEF TypeOK, Stop
    <2> QED BY <1>0, <1>4, <1>5, <2>2 DEF TypeOK
  <1>8. /\ Stops(m) /\ OnTime(m, room, clock)
        /\ \A s \in Sessions : /\ Has(m, s) <=> Has(l, s)
                               /\ ~ Owns(m, s) /\ ~ Reports(m, s)
                               /\ ~ Owns(l, s) /\ ~ Reports(l, s)
    <2>1. OnTime(l, room, clock)
      BY <1>0, <1>1 DEF Timely, Stops
    <2>2. OnTime(m, room, clock)
      BY <1>1, <1>3, <1>4, <2>1 DEF OnTime, Holds, Fresh, Stops
    <2> QED BY <1>1, <1>3, <1>4, <2>2 DEF Stops, Has, Owns, Reports
  <1>9. Orderly(m)
    BY <1>3 DEF Orderly
  <1>10. ASSUME NEW s \in Sessions \ disputed, Has(l, s)
         PROVE  /\ InStop(l, s, session[s], minutes[s], focused[s], stretches[s], since, clock)
                /\ session'[s] = l.entities[s]
                /\ session[s].status = "ACTIVE" /\ session'[s].status = "ACTIVE"
                /\ session'[s].joined = session[s].joined /\ session'[s].total = minutes[s]
    <2>1. InStop(l, s, session[s], minutes[s], focused[s], stretches[s], since, clock)
      BY <1>0, <1>1, <1>10 DEF Kept, Books
    <2> QED BY <1>6, <1>10, <2>1 DEF InStop
  <1>11. Timely' /\ Loaded' /\ Apart'
    <2>1. \A s \in Sessions \ disputed : session'[s].status = "ACTIVE" =>
            session[s].status = "ACTIVE" /\ session'[s].joined = session[s].joined
      BY <1>6, <1>10
    <2> QED BY <1>1, <1>5, <1>8, <1>9, <2>1, Rest
  <1>12. ASSUME NEW s \in Sessions \ disputed, ~ Has(l, s) PROVE Books(s)' /\ Once(s)'
    <2>1. Same(handler[c], m, s) /\ session'[s] = session[s]
      BY <1>1, <1>6, <1>12 DEF Same
    <2> QED BY <1>1, <1>5, <1>8, <1>12, <2>1, Others
  <1>13. ASSUME NEW s \in Sessions \ disputed, Has(l, s) PROVE Books(s)' /\ Once(s)'
    <2>1. Books(s) /\ Once(s)
      BY <1>0, <1>13 DEF Kept
    <2>2. handler'[c] = m /\ \A h \in Handlers \ {c} : handler'[h] = handler[h]
      BY <1>0, <1>5 DEF TypeOK
    <2>3. \A h \in Handlers \ {c} : ~ Has(handler[h], s) /\ ~ Owns(handler[h], s)
      BY <1>0, <1>1, <1>13 DEF Apart
    <2>4. \A h \in Handlers : ~ Reports(handler[h], s)
      BY <1>10, <1>13, <2>1 DEF Once
    <2>5. Has(m, s) /\ ~ Owns(m, s) /\ ~ Reports(m, s)
      BY <1>8, <1>13
    <2>6. InStop(m, s, session'[s], minutes[s], focused[s], stretches[s], since, clock)
      BY <1>1, <1>3, <1>10, <1>13 DEF InStop
    <2>7. \A h \in Handlers : Has(handler'[h], s) =>
            InStop(handler'[h], s, session'[s], minutes[s], focused[s], stretches[s], since, clock)
      BY <2>2, <2>3, <2>6
    <2>8. Has(handler'[c], s) /\ \A h \in Handlers : ~ Owns(handler'[h], s)
      BY <2>2, <2>3, <2>5
    <2>9. Books(s)'
      BY <1>5, <1>10, <1>13, <2>7, <2>8, Unmoved DEF Books
    <2>10. \A h \in Handlers : ~ Reports(handler'[h], s)
      BY <2>2, <2>4, <2>5
    <2>11. Once(s)'
      BY <1>5, <1>10, <1>13, <2>1, <2>10 DEF Once
    <2> QED BY <2>9, <2>11
  <1>14. Kept'
    BY <1>5, <1>12, <1>13 DEF Kept
  <1> QED BY <1>7, <1>11, <1>14 DEF Good

LEMMA ClosingOne ==
  ASSUME Good, NEW c \in Handlers, LeaveClose(c), handler[c].own \in Active
  PROVE  Good'
  <1>0. TypeOK /\ Timely /\ Loaded /\ Apart /\ Kept
    BY DEF Good
  <1>1. PICK l \in Leave : l = handler[c] /\ l.pc = "close" /\ l # None
    <2>1. handler[c] # None /\ handler[c].pc = "close"
      BY DEF LeaveClose, At
    <2> QED BY <1>0, <2>1, Locals, HandlerTypes
  <1>2. PICK x \in Sessions : x = l.own /\ session[x].status = "ACTIVE"
    BY <1>1 DEF Leave, Active
  <1>3. l.total \in Nat /\ l.earned \in Nat /\ l.since \in Nat \cup {None} /\ clock \in Nat
    BY <1>0, <1>1, Clocks DEF Leave, TypeOK
  <1>4. PICK m \in Leave : m = [l EXCEPT !.pc = "report"]
    BY <1>1 DEF Leave
  <1>5. m.pc = "report" /\ m.own = x /\ m.earned = l.earned /\ m \in Handler /\ m # None
    BY <1>1, <1>2, <1>4, HandlerIs, NothingIsNull DEF Leave
  <1>6. /\ session' = [session EXCEPT ![x].status = "COMPELETED", ![x].total = l.total]
        /\ handler' = [handler EXCEPT ![c] = m]
        /\ IF l.since = None THEN UNCHANGED stretches
           ELSE Computed(x, l.since, session[x].joined, clock)
        /\ UNCHANGED <<clock, room, minutes, reports, focused, disputed>>
    <2>1. Close(c)
      BY DEF LeaveClose
    <2>2. handler' = [handler EXCEPT ![c] = m]
      BY <1>0, <1>1, <1>4, <2>1 DEF Close, TypeOK
    <2> QED BY <1>1, <1>2, <2>1, <2>2 DEF Close
  <1>7. PICK r \in SessionRow : r = [session[x] EXCEPT !.status = "COMPELETED", !.total = l.total]
    BY <1>0, <1>3 DEF TypeOK, SessionRow
  <1>8. r.status = "COMPELETED" /\ r.total = l.total
    BY <1>0, <1>7 DEF TypeOK, SessionRow
  <1>9. session' = [session EXCEPT ![x] = r]
    BY <1>0, <1>6, <1>7 DEF TypeOK, SessionRow
  <1>10. session'[x] = r /\ \A s \in Sessions \ {x} : session'[s] = session[s]
    BY <1>0, <1>9 DEF TypeOK
  <1>11. /\ stretches' \in [Sessions -> Nat]
         /\ \A s \in Sessions \ {x} : stretches'[s] = stretches[s]
         /\ x \notin disputed => stretches'[x] =
              IF l.since # None /\ Elapsed(l.since, session[x].joined, clock) > 0
              THEN stretches[x] + 1 ELSE stretches[x]
    BY <1>0, <1>6 DEF TypeOK, Computed
  <1>12. TypeOK'
    <2>1. session' \in [Sessions -> SessionRow]
      BY <1>0, <1>7, <1>9 DEF TypeOK
    <2>2. handler' \in [Handlers -> Handler \cup {None}]
      BY <1>0, <1>5, <1>6 DEF TypeOK
    <2> QED BY <1>0, <1>6, <1>11, <2>1, <2>2 DEF TypeOK
  <1>13. /\ ~ Stops(m) /\ OnTime(m, room, clock)
         /\ \A s \in Sessions : /\ ~ Has(m, s) /\ ~ Has(l, s)
                                /\ ~ Owns(m, s) /\ ~ Reports(l, s)
                                /\ Owns(l, s) <=> s = x
                                /\ Reports(m, s) <=> s = x
    BY <1>1, <1>2, <1>5 DEF Stops, Has, Owns, Reports, OnTime, Holds
  <1>14. Timely' /\ Loaded' /\ Apart'
    <2>1. \A s \in Sessions \ disputed : session'[s].status = "ACTIVE" =>
            session[s].status = "ACTIVE" /\ session'[s].joined = session[s].joined
      BY <1>8, <1>10
    <2>2. Orderly(m)
      BY <1>13 DEF Orderly
    <2> QED BY <1>1, <1>6, <1>13, <2>1, <2>2, Rest
  <1>15. ASSUME NEW s \in Sessions \ disputed, s # x PROVE Books(s)' /\ Once(s)'
    <2>1. Same(handler[c], m, s)
      BY <1>1, <1>13, <1>15 DEF Same
    <2> QED BY <1>1, <1>6, <1>10, <1>11, <1>13, <1>15, <2>1, Others
  <1>16. ASSUME x \notin disputed PROVE Books(x)' /\ Once(x)'
    <2>1. Books(x) /\ Once(x)
      BY <1>0, <1>16 DEF Kept
    <2>2. InLeave(l, session[x], since, clock)
      BY <1>1, <1>2, <1>13, <2>1 DEF Books
    <2>3. \A h \in Handlers : ~ Has(handler[h], x) /\ ~ Reports(handler[h], x)
      BY <1>0, <1>1, <1>2, <1>13, <1>16, <2>1 DEF Apart, Once
    <2>4. /\ Fits(focused[x], stretches[x], session[x].total, Runs(since, session[x], clock))
          /\ minutes[x] = session[x].total /\ reports[x] = 0
      BY <1>2, <2>1, <2>3 DEF Books, Once
    <2>5. l.total = session[x].total + l.earned
      BY <2>2 DEF InLeave
    <2>6. Fits(focused[x], stretches'[x], l.total, 0)
      <3>1. CASE l.since = None
        BY <1>11, <1>16, <2>2, <2>4, <2>5, <3>1, <1>0 DEF InLeave, Worth, TypeOK, SessionRow
      <3>2. CASE l.since # None
        <4>1. PICK t \in Nat : /\ t = Runs(since, session[x], clock)
                               /\ t = Elapsed(l.since, session[x].joined, clock)
          <5>1. session[x].joined <= clock /\ session[x] \in SessionRow
            BY <1>0, <1>2, <1>16 DEF Timely, TypeOK
          <5>2. since \in Nat \cup {None} /\ (since # None => since <= clock)
            BY <1>0, Since
          <5>3. Runs(since, session[x], clock) \in Nat
            BY <1>2, <1>3, <5>1, <5>2, WorthTypes DEF Runs
          <5>4. Runs(since, session[x], clock) = Elapsed(l.since, session[x].joined, clock)
            BY <2>2, <3>2 DEF InLeave, Worth
          <5> QED BY <5>3, <5>4
        <4>2. l.earned = t \div TicksPerMinute
          <5>1. session[x].joined \in Nat
            BY <1>0, Clocks DEF TypeOK, SessionRow
          <5> QED BY <1>3, <2>2, <3>2, <4>1, <5>1, Gaining DEF InLeave
        <4>3. stretches'[x] = IF t > 0 THEN stretches[x] + 1 ELSE stretches[x]
          BY <1>11, <1>16, <3>2, <4>1
        <4>4. focused[x] \in Nat /\ stretches[x] \in Nat /\ session[x].total \in Nat
          BY <1>0 DEF TypeOK, SessionRow
        <4> QED BY <2>4, <2>5, <4>1, <4>2, <4>3, <4>4, Crediting
      <3> QED BY <3>1, <3>2
    <2>7. handler'[c] = m /\ \A h \in Handlers \ {c} : handler'[h] = handler[h]
      BY <1>0, <1>6 DEF TypeOK
    <2>8. \A h \in Handlers : ~ Has(handler'[h], x)
      BY <1>13, <2>3, <2>7
    <2>9. \A h \in Handlers : Reports(handler'[h], x) <=> h = c
      BY <1>13, <2>3, <2>7
    <2>10. Runs(since, r, clock) = 0
      BY <1>8 DEF Runs
    <2>11. Books(x)'
      BY <1>6, <1>8, <1>10, <2>6, <2>8, <2>9, <2>10, Unmoved DEF Books
    <2>12. Once(x)'
      BY <1>5, <1>6, <1>8, <1>10, <2>4, <2>5, <2>7, <2>9 DEF Once
    <2> QED BY <2>11, <2>12
  <1>17. Kept'
    BY <1>6, <1>15, <1>16 DEF Kept
  <1> QED BY <1>12, <1>14, <1>17 DEF Good

LEMMA Reporting ==
  ASSUME Good, NEW c \in Handlers, LeaveReport(c)
  PROVE  Good'
  <1>0. TypeOK /\ Timely /\ Loaded /\ Apart /\ Kept
    BY DEF Good
  <1>1. PICK l \in Leave : l = handler[c] /\ l.pc = "report" /\ l # None
    <2>1. handler[c] # None /\ handler[c].pc = "report"
      BY DEF LeaveReport, At
    <2> QED BY <1>0, <2>1, Locals, HandlerTypes
  <1>2. PICK x \in Sessions : x = l.own
    BY <1>1 DEF Leave
  <1>3. l.earned \in Nat
    BY <1>1 DEF Leave
  <1>4. /\ handler' = [handler EXCEPT ![c] = None]
        /\ minutes' = [minutes EXCEPT ![x] = @ + l.earned]
        /\ reports' = [reports EXCEPT ![x] = @ + 1]
        /\ UNCHANGED <<clock, room, session, focused, stretches, disputed>>
    BY <1>1, <1>2 DEF LeaveReport, End, history
  <1>5. /\ minutes'[x] = minutes[x] + l.earned /\ reports'[x] = reports[x] + 1
        /\ \A s \in Sessions \ {x} : minutes'[s] = minutes[s] /\ reports'[s] = reports[s]
    BY <1>0, <1>4 DEF TypeOK
  <1>6. TypeOK'
    <2>1. minutes' \in [Sessions -> Nat] /\ reports' \in [Sessions -> Nat]
      BY <1>0, <1>3, <1>4 DEF TypeOK
    <2> QED BY <1>0, <1>4, <2>1 DEF TypeOK
  <1>7. PICK m : m = None
    OBVIOUS
  <1>8. /\ ~ Stops(m) /\ Orderly(m)
        /\ \A s \in Sessions : /\ ~ Has(m, s) /\ ~ Has(l, s)
                               /\ ~ Owns(m, s) /\ ~ Owns(l, s) /\ ~ Reports(m, s)
                               /\ Reports(l, s) <=> s = x
    BY <1>1, <1>2, <1>7 DEF Stops, Has, Owns, Reports, Orderly
  <1>9. Timely' /\ Loaded' /\ Apart'
    <2>1. handler' = [handler EXCEPT ![c] = m] /\ UNCHANGED <<clock, room, disputed>>
      BY <1>4, <1>7
    <2>2. \A s \in Sessions \ disputed : session'[s].status = "ACTIVE" =>
            session[s].status = "ACTIVE" /\ session'[s].joined = session[s].joined
      BY <1>4
    <2> QED BY <1>1, <1>7, <1>8, <2>1, <2>2, Rest
  <1>10. ASSUME NEW s \in Sessions \ disputed, s # x PROVE Books(s)' /\ Once(s)'
    <2>1. Same(handler[c], m, s)
      BY <1>1, <1>8, <1>10 DEF Same
    <2> QED BY <1>1, <1>4, <1>5, <1>7, <1>8, <1>10, <2>1, Others
  <1>11. ASSUME x \notin disputed PROVE Books(x)' /\ Once(x)'
    <2>1. Books(x) /\ Once(x)
      BY <1>0, <1>11 DEF Kept
    <2>2. /\ reports[x] = 0 /\ session[x].status = "COMPELETED"
          /\ minutes[x] + l.earned = session[x].total
          /\ \A h \in Handlers : Reports(handler[h], x) => h = c
      BY <1>1, <1>8, <2>1 DEF Once
    <2>3. \A h \in Handlers : ~ Has(handler[h], x)
      BY <2>1, <2>2 DEF Books, InStop
    <2>4. handler'[c] = m /\ \A h \in Handlers \ {c} : handler'[h] = handler[h]
      BY <1>0, <1>4, <1>7 DEF TypeOK
    <2>5. \A h \in Handlers : ~ Has(handler'[h], x) /\ ~ Reports(handler'[h], x)
      BY <1>8, <2>2, <2>3, <2>4
    <2>6. Fits(focused[x], stretches[x], session[x].total, Runs(since, session[x], clock))
      BY <2>1, <2>3 DEF Books
    <2>7. Books(x)'
      BY <1>4, <1>5, <2>2, <2>5, <2>6, Unmoved DEF Books
    <2>8. Once(x)'
      BY <1>4, <1>5, <2>2, <2>5 DEF Once
    <2> QED BY <2>7, <2>8
  <1>12. Kept'
    BY <1>4, <1>10, <1>11 DEF Kept
  <1> QED BY <1>6, <1>9, <1>12 DEF Good

(***************************************************************************)
(* The theorems.                                                           *)
(***************************************************************************)

LEMMA GoodNext == Good /\ [Next]_vars => Good'
  <1> SUFFICES ASSUME Good, [Next]_vars PROVE Good'
    OBVIOUS
  <1>1. ASSUME NEW s \in Sessions, Join(s) PROVE Good'
    BY <1>1, Joining
  <1>2. ASSUME NEW h \in Handlers, EditRead(h) \/ StartRead(h) \/ StopRead(h) PROVE Good'
    BY <1>2, Reading
  <1>3. ASSUME NEW h \in Handlers, LookUp(h) PROVE Good'
    BY <1>3, LookingUp
  <1>4. ASSUME NEW h \in Handlers, StopLoad(h) PROVE Good'
    BY <1>4, Loading
  <1>5. ASSUME NEW h \in Handlers, StopCredit(h) PROVE Good'
    BY <1>5, CreditingOne
  <1>6. ASSUME NEW h \in Handlers, StopSaveSessions(h) PROVE Good'
    BY <1>6, SavingSessions
  <1>7. ASSUME NEW h \in Handlers, Write(h) PROVE Good'
    BY <1>7, RoomWriting
  <1>8. ASSUME NEW h \in Handlers, NEW s \in Sessions, LeaveFind(h, s) PROVE Good'
    BY <1>8, Finding
  <1>9. ASSUME NEW h \in Handlers, LeaveClose(h) PROVE Good'
    BY <1>9, ClosingOne, Ending
  <1>10. ASSUME NEW h \in Handlers, LeaveReport(h) PROVE Good'
    BY <1>10, Reporting
  <1>11. ASSUME NEW h \in Handlers, Fail(h) PROVE Good'
    BY <1>11, Ending
  <1>12. CASE Tick
    BY <1>12, Passing
  <1>13. CASE UNCHANGED vars
    <2>1. UNCHANGED <<clock, room, since, session, handler, minutes, reports, focused, stretches,
                      disputed>>
      BY <1>13, Unmoved DEF vars, history
    <2>2. TypeOK' /\ Timely' /\ Loaded' /\ Apart'
      BY <2>1 DEF Good, TypeOK, Timely, Loaded, Apart
    <2>3. Kept'
      BY <2>1 DEF Good, Kept, Books, Once
    <2> QED BY <2>2, <2>3 DEF Good
  <1> QED BY <1>1, <1>2, <1>3, <1>4, <1>5, <1>6, <1>7, <1>8, <1>9, <1>10, <1>11, <1>12, <1>13
          DEF Next

LEMMA GoodAlways == Spec => []Good
  BY GoodInit, GoodNext, PTL DEF Spec

\* Every row, every handler's locals and every counter have their type.
THEOREM CreditTypes == Spec => []TypeOK
  <1>1. Good => TypeOK
    BY DEF Good
  <1> QED BY <1>1, GoodAlways, PTL

\* Whenever no handler runs, and for every session but the disputed ones, the row and
\* the user's totals got the same minutes, and rounding down is all that they miss of
\* the time focused (rooms.service.ts, pauseTimer and leave; room-timer.processor.ts).
THEOREM CreditIsFair == Spec => []FairCredit
  <1>1. Good => FairCredit
    <2> SUFFICES ASSUME Good, Quiet, NEW s \in Sessions \ disputed
                 PROVE  /\ minutes[s] = session[s].total
                        /\ focused[s] - TicksPerMinute * minutes[s] - Stretch(room, s)
                             \in 0..((TicksPerMinute - 1) * stretches[s])
      BY DEF FairCredit
    <2>1. TypeOK /\ Books(s)
      BY DEF Good, Kept
    <2>2. \A h \in Handlers : ~ Has(handler[h], s) /\ ~ Reports(handler[h], s)
      BY DEF Quiet, Busy, Has, Stops, Reports
    <2>3. /\ Fits(focused[s], stretches[s], session[s].total, Runs(since, session[s], clock))
          /\ minutes[s] = session[s].total
      BY <2>1, <2>2 DEF Books
    <2>4. Runs(since, session[s], clock) = Stretch(room, s)
      BY DEF Runs, Worth, Stretch, Active, since
    <2> QED BY <2>3, <2>4 DEF Fits
  <1> QED BY <1>1, GoodAlways, PTL

\* A session is reported to the user's totals at most once, however many leaves race
\* (rooms.service.ts, leave: the update for a session that is ACTIVE), unless disputed.
THEOREM SessionsCountedOnce == Spec => []CountedOnce
  <1>1. Good => CountedOnce
    BY DEF Good, Kept, Once, CountedOnce
  <1> QED BY <1>1, GoodAlways, PTL

-----------------------------------------------------------------------------
(***************************************************************************)
(* Totals.                                                                 *)
(***************************************************************************)

LEMMA ColumnSize ==
  ASSUME NEW x, NEW a \in Nat, NEW b \in Nat, a <= b
  PROVE  IsFiniteSet({x} \X ((a + 1)..b)) /\ Cardinality({x} \X ((a + 1)..b)) = b - a
  <1>1. PICK S : S = {x}
    OBVIOUS
  <1>2. PICK T : T = (a + 1)..b
    OBVIOUS
  <1>3. IsFiniteSet(S) /\ Cardinality(S) = 1
    BY <1>1, FS_Singleton
  <1>4. IsFiniteSet(T) /\ Cardinality(T) = b - a
    <2>1. PICK c \in Int : c = a + 1
      OBVIOUS
    <2>2. IsFiniteSet(c..b) /\ Cardinality(c..b) = IF c > b THEN 0 ELSE b - c + 1
      BY FS_Interval
    <2> QED BY <1>2, <2>1, <2>2
  <1>5. IsFiniteSet(S \X T) /\ Cardinality(S \X T) = Cardinality(S) * Cardinality(T)
    BY <1>3, <1>4, FS_Product
  <1> QED BY <1>1, <1>2, <1>3, <1>4, <1>5

LEMMA DisjointSizes ==
  ASSUME NEW S, NEW T, IsFiniteSet(S), IsFiniteSet(T), S \cap T = {}
  PROVE  /\ IsFiniteSet(S \cup T) /\ Cardinality(S) \in Nat /\ Cardinality(T) \in Nat
         /\ Cardinality(S \cup T) = Cardinality(S) + Cardinality(T)
  <1>1. Cardinality(S) \in Nat /\ Cardinality(T) \in Nat
    BY FS_CardinalityType
  <1>2. /\ IsFiniteSet(S \cup T)
        /\ Cardinality(S \cup T) = Cardinality(S) + Cardinality(T) - Cardinality(S \cap T)
    BY FS_Union
  <1>3. Cardinality(S \cap T) = 0
    BY FS_EmptySet
  <1> QED BY <1>1, <1>2, <1>3

\* What is added to one value of a function is added to its total.
LEMMA TotalGrows ==
  ASSUME NEW D, NEW f \in [D -> Nat], NEW g \in [D -> Nat], NEW x \in D, f[x] <= g[x],
         \A y \in D \ {x} : g[y] = f[y], IsFiniteSet(Units(f))
  PROVE  /\ IsFiniteSet(Units(g))
         /\ Total(f) \in Nat /\ Total(g) \in Nat
         /\ Total(g) = Total(f) + (g[x] - f[x])
  <1>0. PICK new : new = {x} \X ((f[x] + 1)..g[x])
    OBVIOUS
  <1>1. Units(g) = Units(f) \cup new
    <2>1. ASSUME NEW p \in Units(g) PROVE p \in Units(f) \cup new
      <3>1. PICK y \in D : p \in {y} \X (1..g[y])
        BY <2>1 DEF Units
      <3>2. CASE y # x
        <4>1. p \in {y} \X (1..f[y])
          BY <3>1, <3>2
        <4> QED BY <4>1 DEF Units
      <3>3. CASE y = x
        <4>1. PICK k \in 1..g[x] : p = <<x, k>>
          BY <3>1, <3>3
        <4>2. CASE k <= f[x]
          <5>1. p \in {x} \X (1..f[x])
            BY <4>1, <4>2
          <5> QED BY <5>1 DEF Units
        <4>3. CASE k > f[x]
          BY <1>0, <4>1, <4>3
        <4> QED BY <4>2, <4>3
      <3> QED BY <3>2, <3>3
    <2>2. ASSUME NEW p \in Units(f) PROVE p \in Units(g)
      <3>1. PICK y \in D : p \in {y} \X (1..f[y])
        BY <2>2 DEF Units
      <3>2. f[y] <= g[y] /\ f[y] \in Nat /\ g[y] \in Nat
        BY <3>1
      <3>3. p \in {y} \X (1..g[y])
        BY <3>1, <3>2
      <3> QED BY <3>3 DEF Units
    <2>3. ASSUME NEW p \in new PROVE p \in Units(g)
      <3>1. p \in {x} \X (1..g[x])
        BY <1>0, <2>3
      <3> QED BY <3>1 DEF Units
    <2> QED BY <2>1, <2>2, <2>3
  <1>2. Units(f) \cap new = {}
    <2> SUFFICES ASSUME NEW p \in Units(f), p \in new PROVE FALSE
      OBVIOUS
    <2>1. PICK y \in D : p \in {y} \X (1..f[y])
      BY DEF Units
    <2> QED BY <1>0, <2>1
  <1>3. IsFiniteSet(new) /\ Cardinality(new) = g[x] - f[x]
    <2>1. PICK a \in Nat : a = f[x]
      OBVIOUS
    <2>2. PICK b \in Nat : b = g[x]
      OBVIOUS
    <2>3. a <= b
      BY <2>1, <2>2
    <2>4. IsFiniteSet({x} \X ((a + 1)..b)) /\ Cardinality({x} \X ((a + 1)..b)) = b - a
      BY <2>3, ColumnSize
    <2> QED BY <1>0, <2>1, <2>2, <2>4
  <1>4. /\ IsFiniteSet(Units(g)) /\ Cardinality(Units(f)) \in Nat
        /\ Cardinality(Units(g)) = Cardinality(Units(f)) + Cardinality(new)
    <2>1. PICK old : old = Units(f)
      OBVIOUS
    <2>2. IsFiniteSet(old) /\ old \cap new = {}
      BY <1>2, <2>1
    <2>3. /\ IsFiniteSet(old \cup new) /\ Cardinality(old) \in Nat
          /\ Cardinality(old \cup new) = Cardinality(old) + Cardinality(new)
      BY <1>3, <2>2, DisjointSizes
    <2> QED BY <1>1, <2>1, <2>3
  <1>5. Total(f) = Cardinality(Units(f)) /\ Total(g) = Cardinality(Units(g))
    BY DEF Total
  <1>6. g[x] - f[x] \in Nat
    OBVIOUS
  <1> QED BY <1>3, <1>4, <1>5, <1>6

\* A function that is nowhere greater has no greater total.
LEMMA TotalBelow ==
  ASSUME NEW D, NEW f \in [D -> Nat], NEW g \in [D -> Nat], \A y \in D : g[y] <= f[y],
         IsFiniteSet(Units(f))
  PROVE  /\ IsFiniteSet(Units(g))
         /\ Total(f) \in Nat /\ Total(g) \in Nat
         /\ Total(g) <= Total(f)
  <1>1. Units(g) \in SUBSET Units(f)
    <2> SUFFICES ASSUME NEW p \in Units(g) PROVE p \in Units(f)
      OBVIOUS
    <2>1. PICK y \in D : p \in {y} \X (1..g[y])
      BY DEF Units
    <2>2. f[y] \in Nat /\ g[y] \in Nat /\ g[y] <= f[y]
      BY <2>1
    <2>3. p \in {y} \X (1..f[y])
      BY <2>1, <2>2
    <2> QED BY <2>3 DEF Units
  <1>2. IsFiniteSet(Units(g)) /\ Cardinality(Units(g)) <= Cardinality(Units(f))
    BY <1>1, FS_Subset
  <1> QED BY <1>2, FS_CardinalityType DEF Total

\* What is added to or taken from one value is added to or taken from the total.
LEMMA TotalMoves ==
  ASSUME NEW D, NEW f \in [D -> Nat], NEW g \in [D -> Nat], NEW x \in D,
         \A y \in D \ {x} : g[y] = f[y], IsFiniteSet(Units(f))
  PROVE  /\ IsFiniteSet(Units(g))
         /\ Total(f) \in Nat /\ Total(g) \in Nat
         /\ Total(g) = Total(f) + (g[x] - f[x])
  <1>0. f[x] \in Nat /\ g[x] \in Nat
    OBVIOUS
  <1>1. CASE f[x] <= g[x]
    BY <1>1, TotalGrows
  <1>2. CASE g[x] < f[x]
    <2>1. \A y \in D : g[y] <= f[y]
      BY <1>2
    <2>2. IsFiniteSet(Units(g)) /\ Total(f) \in Nat /\ Total(g) \in Nat
      BY <2>1, TotalBelow
    <2>3. Total(f) = Total(g) + (f[x] - g[x])
      <3>1. g[x] <= f[x] /\ \A y \in D \ {x} : f[y] = g[y]
        BY <1>0, <1>2
      <3> QED BY <2>2, <3>1, TotalGrows
    <2> QED BY <1>0, <2>2, <2>3
  <1> QED BY <1>0, <1>1, <1>2

LEMMA NothingInTotal ==
  ASSUME NEW D, NEW f \in [D -> Nat], \A x \in D : f[x] = 0
  PROVE  IsFiniteSet(Units(f)) /\ Total(f) = 0
  <1>1. Units(f) = {}
    <2> SUFFICES ASSUME NEW p \in Units(f) PROVE FALSE
      OBVIOUS
    <2>1. PICK x \in D : p \in {x} \X (1..f[x])
      BY DEF Units
    <2> QED BY <2>1
  <1> QED BY <1>1, FS_EmptySet DEF Total

(***************************************************************************)
(* UserStats: the inductive invariant.                                     *)
(***************************************************************************)

\* A worker holds the job it runs unless the queue has taken it away, and a job
\* knows its holder.
Queue ==
  /\ \A j \in Jobs : job[j].st # "absent" =>
       /\ job[j].st = "active" <=> job[j].by # Null
       /\ job[j].by # Null => run[job[j].by] # Idle /\ run[job[j].by].job = j
       /\ job[j].st = "waiting" => job[j].runs <= 1
       /\ job[j].st = "active" => job[j].runs >= 1
  /\ \A w \in Workers : run[w] # Idle => JobOf(w).st # "absent"

\* A worker that has locked the row of a user and has not committed.
Writing(w, u) == run[w].pc = "commit" /\ JobOf(w).user = u

\* Between the lock and the commit the row is what the worker read, and nobody
\* else is between the two; the day is not before any the log knows.
Exclusive ==
  \A w \in Workers, u \in Users : Writing(w, u) =>
    /\ run[w].row = user[u]
    /\ run[w].today <= day + run[w].row.timezone
    /\ u \notin rewritten => \A d \in Logged(u) : d <= run[w].today
    /\ \A v \in Workers : Writing(v, u) => v = w

\* The streaks of a row and the days of the log, at l, the last of them.
Chained(row, days, l) ==
  /\ l \in days /\ \A d \in days : d <= l
  /\ row.lastStudyDate = l
  /\ (l - row.currentStreak + 1)..l \subseteq days
  /\ l - row.currentStreak \notin days
  /\ row.currentStreak <= row.longestStreak
  /\ \E d \in Days : (d - row.longestStreak + 1)..d \subseteq days
  /\ \A d \in Days : ~ ((d - row.longestStreak)..d \subseteq days)

Unstudied(row) == row.lastStudyDate = Null /\ row.currentStreak = 0 /\ row.longestStreak = 0

Chain ==
  \A u \in Users \ rewritten :
    /\ \A d \in Logged(u) : d <= day + user[u].timezone
    /\ IF Logged(u) = {} THEN Unstudied(user[u])
                         ELSE \E l \in Days : Chained(user[u], Logged(u), l)

Scores ==
  \A u \in Users :
    board["daily"][u] <= board["weekly"][u] /\ board["weekly"][u] <= board["overall"][u]

\* Minutes a run has yet to log, or to give up.
Pending(u) ==
  [w \in Workers |-> IF run[w].pc \in {"lock", "commit"} /\ JobOf(w).user = u
                     THEN JobOf(w).earned ELSE 0]

\* Minutes a run has logged and has yet to add to the boards.
Owed(u) ==
  [w \in Workers |-> IF run[w].pc = "board" /\ JobOf(w).user = u THEN JobOf(w).earned ELSE 0]

\* Jobs that are done, or whose holder has committed and can only report them done.
Sure(j) ==
  job[j].st = "done" \/ (job[j].st = "active" /\ run[job[j].by].pc \in {"board", "finish"})

Settled(u) == [j \in Jobs |-> IF Sure(j) /\ job[j].user = u THEN job[j].earned ELSE 0]

\* Every minute in the log comes from a run of its own, and every minute on a board
\* or of a job that is done is in the log.
Accounted(u) ==
  /\ IsFiniteSet(Units(Heatmap(u)))
  /\ IsFiniteSet(Units(Pending(u))) /\ IsFiniteSet(Units(Owed(u)))
  /\ IsFiniteSet(Units(Settled(u))) /\ IsFiniteSet(Units(Ran(u)))
  /\ u \notin rewritten => user[u].totalFocusMinutes = LoggedMinutes(u)
  /\ LoggedMinutes(u) + Total(Pending(u)) <= Total(Ran(u))
  /\ board["overall"][u] + Total(Owed(u)) <= LoggedMinutes(u)
  /\ Total(Settled(u)) <= LoggedMinutes(u)

StatsGood ==
  StatsTypeOK /\ Queue /\ Exclusive /\ Chain /\ Scores /\ \A u \in Users : Accounted(u)

(***************************************************************************)
(* UserStats: types.                                                       *)
(***************************************************************************)

\* A job that was added.
Present == [st : {"waiting", "active", "failed", "done"}, user : Users, earned : Earnings,
            by : Workers \cup {Null}, runs : 0..2]

LEMMA GreatestIs ==
  ASSUME NEW S \in SUBSET Int, NEW x \in S, \A y \in S : y <= x
  PROVE  Max(S) = x
  <1>1. \A y \in S : x >= y
    OBVIOUS
  <1>2. Max(S) \in S /\ \A y \in S : Max(S) >= y
    BY <1>1 DEF Max
  <1>3. PICK m \in S : m = Max(S)
    BY <1>2
  <1>4. m \in Int /\ x \in Int /\ m <= x /\ m >= x
    BY <1>2, <1>3
  <1> QED BY <1>3, <1>4

LEMMA DayTypes ==
  /\ Days \subseteq Nat
  /\ \A d \in 0..MaxDay, z \in Zones : z \in Nat /\ d + z \in Days
  <1>1. PICK z \in Zones : \A y \in Zones : y <= z
    BY ZonesAssumption
  <1>2. Max(Zones) = z /\ z \in Nat
    BY <1>1, ZonesAssumption, GreatestIs
  <1> QED BY <1>1, <1>2, ZonesAssumption, DaysAssumption DEF Days

LEMMA AddedJobs ==
  ASSUME StatsTypeOK, NEW j \in Jobs, job[j].st # "absent"
  PROVE  job[j] \in Present
  <1>1. job[j] \in Job
    BY DEF StatsTypeOK
  <1> QED BY <1>1 DEF Job, Present

LEMMA PresentTypes ==
  ASSUME NEW q \in Present
  PROVE  /\ q \in Job /\ q.st \in {"waiting", "active", "failed", "done"} /\ q.user \in Users
         /\ q.earned \in Nat /\ q.earned \in Earnings
         /\ q.by \in Workers \cup {Null} /\ q.runs \in 0..2
         /\ q = [st |-> q.st, user |-> q.user, earned |-> q.earned, by |-> q.by, runs |-> q.runs]
  BY EarningsAssumption DEF Present, Job

LEMMA EnqueuedJobs ==
  ASSUME NEW u \in Users, NEW e \in Earnings
  PROVE  [st |-> "waiting", user |-> u, earned |-> e, by |-> Null, runs |-> 0] \in Present
  <1>1. 0 \in 0..2 /\ Null \in Workers \cup {Null}
    OBVIOUS
  <1> QED BY <1>1 DEF Present

LEMMA RunTypes ==
  ASSUME NEW r \in Run
  PROVE  /\ r.pc \in {"idle", "lock", "commit", "board", "finish"}
         /\ r = Idle <=> r.pc = "idle"
         /\ r # Idle => r.job \in Jobs
         /\ r.pc = "commit" => r.row \in UserRow /\ r.today \in Days
  BY DEF Run, Idle

LEMMA WorkerRuns ==
  ASSUME StatsTypeOK, Queue, NEW w \in Workers, run[w] # Idle
  PROVE  /\ run[w] \in Run /\ run[w].job \in Jobs /\ job[run[w].job] \in Present
         /\ run[w].pc \in {"lock", "commit", "board", "finish"}
  <1>1. run[w] \in Run
    BY DEF StatsTypeOK
  <1>2. run[w].job \in Jobs /\ run[w].pc \in {"lock", "commit", "board", "finish"}
    BY <1>1, RunTypes
  <1>3. job[run[w].job].st # "absent"
    BY DEF Queue, JobOf
  <1> QED BY <1>1, <1>2, <1>3, AddedJobs

LEMMA NobodyIsNull == Null \notin Nat /\ Null \notin Workers
  BY NullAssumption

(***************************************************************************)
(* UserStats: what a worker's step does to its locals and its job.         *)
(***************************************************************************)

\* Worker w, whose job is j, goes on with r and leaves q in the queue.
Works(w, j, r, q) ==
  /\ run' = [run EXCEPT ![w] = r]
  /\ job' = [job EXCEPT ![j] = q]
  /\ job[j] \in Present /\ q.user = job[j].user /\ q.earned = job[j].earned
  /\ run[w] = Idle \/ run[w].job = j
  /\ r = Idle \/ r.job = j

\* The job as the queue has it when the worker's lock is gone.
GivenUp(j, q) ==
  /\ q.st = IF job[j].runs = 1 THEN "waiting" ELSE "failed"
  /\ q.by = Null /\ q.runs = job[j].runs

LEMMA TakeWorks ==
  ASSUME StatsTypeOK, Queue, NEW w \in Workers, NEW j \in Jobs, Take(w, j)
  PROVE  \E r \in Run, q \in Present :
           /\ Works(w, j, r, q)
           /\ run[w] = Idle /\ r.pc = "lock"
           /\ job[j].st = "waiting" /\ q.st = "active" /\ q.by = w /\ q.runs = job[j].runs + 1
  <1>1. job[j] \in Present /\ job[j].st = "waiting" /\ run[w] = Idle
    BY AddedJobs DEF Take
  <1>2. job[j].runs \in 0..1
    BY <1>1, PresentTypes DEF Queue
  <1>n. PICK n \in 0..2 : n = job[j].runs + 1
    BY <1>2
  <1>3. PICK q \in Present : q = [job[j] EXCEPT !.st = "active", !.by = w, !.runs = @ + 1]
    <2>1. PICK q \in Present : q = [job[j] EXCEPT !.st = "active", !.by = w, !.runs = n]
      BY <1>1 DEF Present
    <2> QED BY <1>n, <2>1
  <1>4. q.st = "active" /\ q.by = w /\ q.runs = job[j].runs + 1 /\ q.user = job[j].user
          /\ q.earned = job[j].earned
    BY <1>1, <1>3 DEF Present
  <1>5. PICK r \in Run : r = [pc |-> "lock", job |-> j]
    BY DEF Run
  <1>6. r.pc = "lock" /\ r.job = j
    BY <1>5
  <1>7. job' = [job EXCEPT ![j] = q]
    BY <1>3 DEF Take, StatsTypeOK
  <1>8. run' = [run EXCEPT ![w] = r]
    BY <1>5 DEF Take
  <1> QED BY <1>1, <1>4, <1>6, <1>7, <1>8 DEF Works

\* A step that leaves the queue alone.
LEMMA GoesOnWorks ==
  ASSUME StatsTypeOK, Queue, NEW w \in Workers, run[w] # Idle, NEW r \in Run,
         r = Idle \/ r.job = run[w].job, run' = [run EXCEPT ![w] = r], job' = job
  PROVE  Works(w, run[w].job, r, job[run[w].job])
  <1>1. job' = [job EXCEPT ![run[w].job] = job[run[w].job]]
    BY DEF StatsTypeOK
  <1>2. job[run[w].job] \in Present
    BY WorkerRuns
  <1> QED BY <1>1, <1>2 DEF Works

LEMMA LockWorks ==
  ASSUME StatsTypeOK, Queue, NEW w \in Workers, LockUser(w)
  PROVE  \E r \in Run :
           /\ Works(w, run[w].job, r, job[run[w].job])
           /\ run[w].pc = "lock" /\ r.pc = "commit"
           /\ r.row = user[JobOf(w).user] /\ r.today = day + r.row.timezone
  <1>1. run[w].pc = "lock" /\ run[w] # Idle
    BY DEF LockUser, Doing, Idle
  <1>2. PICK j \in Jobs : j = run[w].job /\ job[j] \in Present
    BY <1>1, WorkerRuns
  <1>3. JobOf(w).user \in Users
    BY <1>2, PresentTypes DEF JobOf
  <1>4. PICK row \in UserRow : row = user[JobOf(w).user]
    BY <1>3 DEF StatsTypeOK
  <1>5. row.timezone \in Zones /\ day \in 0..MaxDay
    BY <1>4 DEF UserRow, StatsTypeOK
  <1>6. PICK t \in Days : t = day + row.timezone
    BY <1>5, DayTypes
  <1>7. PICK r \in Run : r = [pc |-> "commit", job |-> j, row |-> row, today |-> t]
    BY DEF Run
  <1>8. r.pc = "commit" /\ r.job = j /\ r.row = row /\ r.today = t
    BY <1>7
  <1>9. run' = [run EXCEPT ![w] = r] /\ job' = job
    BY <1>2, <1>4, <1>6, <1>7 DEF LockUser
  <1>10. Works(w, run[w].job, r, job[run[w].job])
    BY <1>1, <1>2, <1>8, <1>9, GoesOnWorks
  <1> QED BY <1>1, <1>4, <1>6, <1>8, <1>10

LEMMA Committing ==
  ASSUME NEW w, Commit(w)
  PROVE  run[w].pc = "commit" /\ run[w] # Idle
  <1>1. Doing(w, "commit")
    BY DEF Commit
  <1>2. run[w].pc = "commit"
    BY <1>1 DEF Doing
  <1> QED BY <1>2 DEF Idle

LEMMA CommitWorks ==
  ASSUME StatsTypeOK, Queue, NEW w \in Workers, Commit(w)
  PROVE  \E r \in Run :
           /\ Works(w, run[w].job, r, job[run[w].job])
           /\ run[w].pc = "commit"
           /\ r.pc = IF JobOf(w).earned > 0 THEN "board" ELSE "finish"
  <1>1. run[w].pc = "commit" /\ run[w] # Idle
    BY Committing
  <1>2. PICK j \in Jobs : j = run[w].job
    BY <1>1, WorkerRuns
  <1>3. PICK r \in Run : r = [pc |-> IF job[j].earned > 0 THEN "board" ELSE "finish", job |-> j]
    BY DEF Run
  <1>4. r.pc = (IF job[j].earned > 0 THEN "board" ELSE "finish") /\ r.job = j
    BY <1>3
  <1>5. run' = [run EXCEPT ![w] = r] /\ job' = job
    BY <1>2, <1>3 DEF Commit
  <1>6. Works(w, run[w].job, r, job[run[w].job])
    BY <1>1, <1>2, <1>4, <1>5, GoesOnWorks
  <1> QED BY <1>1, <1>2, <1>4, <1>6 DEF JobOf

LEMMA BoardWorks ==
  ASSUME StatsTypeOK, Queue, NEW w \in Workers, Board(w)
  PROVE  \E r \in Run :
           /\ Works(w, run[w].job, r, job[run[w].job])
           /\ run[w].pc = "board" /\ r.pc = "finish"
  <1>1. run[w].pc = "board" /\ run[w] # Idle
    BY DEF Board, Doing, Idle
  <1>2. PICK j \in Jobs : j = run[w].job
    BY <1>1, WorkerRuns
  <1>3. PICK r \in Run : r = [pc |-> "finish", job |-> j]
    BY DEF Run
  <1>4. r.pc = "finish" /\ r.job = j
    BY <1>3
  <1>5. run' = [run EXCEPT ![w] = r] /\ job' = job
    BY <1>2, <1>3 DEF Board
  <1>6. Works(w, run[w].job, r, job[run[w].job])
    BY <1>1, <1>2, <1>4, <1>5, GoesOnWorks
  <1> QED BY <1>1, <1>4, <1>6

LEMMA EndWorks ==
  ASSUME StatsTypeOK, Queue, NEW w \in Workers, run[w] # Idle,
         NEW result \in {"done", "failed"}, EndRun(w, result)
  PROVE  \E q \in Present :
           /\ Works(w, run[w].job, Idle, q)
           /\ IF JobOf(w).by = w
              THEN q.st = result /\ q.by = Null /\ q.runs = JobOf(w).runs
              ELSE q = JobOf(w)
  <1>1. PICK j \in Jobs : j = run[w].job /\ job[j] \in Present
    BY WorkerRuns
  <1>2. Idle \in Run /\ run' = [run EXCEPT ![w] = Idle]
    BY DEF Run, EndRun
  <1>3. CASE job[j].by = w
    <2>1. PICK q \in Present : q = [job[j] EXCEPT !.st = result, !.by = Null]
      BY <1>1 DEF Present
    <2>2. q.st = result /\ q.by = Null /\ q.runs = job[j].runs /\ q.user = job[j].user
            /\ q.earned = job[j].earned
      BY <1>1, <2>1 DEF Present
    <2>3. job' = [job EXCEPT ![j] = q]
      BY <1>1, <1>3, <2>1 DEF EndRun, StatsTypeOK
    <2> QED BY <1>1, <1>2, <1>3, <2>2, <2>3 DEF Works, JobOf
  <1>4. CASE job[j].by # w
    <2>1. job' = job
      BY <1>1, <1>4 DEF EndRun
    <2>2. Works(w, run[w].job, Idle, job[run[w].job])
      BY <1>2, <2>1, GoesOnWorks
    <2> QED BY <1>1, <1>4, <2>2 DEF JobOf
  <1> QED BY <1>3, <1>4

LEMMA ReclaimedIs ==
  ASSUME StatsTypeOK, NEW j \in Jobs, job[j] \in Present
  PROVE  \E q \in Present :
           /\ Reclaimed(j) = [job EXCEPT ![j] = q]
           /\ GivenUp(j, q) /\ q.user = job[j].user /\ q.earned = job[j].earned
  <1>1. PICK st \in {"waiting", "failed"} : st = IF job[j].runs = 1 THEN "waiting" ELSE "failed"
    OBVIOUS
  <1>2. PICK q \in Present : q = [job[j] EXCEPT !.st = st, !.by = Null]
    BY DEF Present
  <1>3. q.st = st /\ q.by = Null /\ q.runs = job[j].runs /\ q.user = job[j].user
          /\ q.earned = job[j].earned
    BY <1>2 DEF Present
  <1>4. Reclaimed(j) = [job EXCEPT ![j] = q]
    BY <1>1, <1>2 DEF Reclaimed, StatsTypeOK
  <1> QED BY <1>1, <1>3, <1>4 DEF GivenUp

LEMMA LostWorks ==
  ASSUME StatsTypeOK, Queue, NEW w \in Workers, Crash(w) \/ Stall(w)
  PROVE  /\ run[w] # Idle
         /\ \E r \in {Idle, run[w]}, q \in Present :
              /\ Works(w, run[w].job, r, q)
              /\ IF JobOf(w).by = w THEN GivenUp(run[w].job, q) ELSE q = JobOf(w) /\ r = Idle
  <1>0. run[w] # Idle
    BY DEF Crash, Stall
  <1>1. PICK j \in Jobs : j = run[w].job /\ job[j] \in Present
    BY <1>0, WorkerRuns
  <1>2. PICK q \in Present : /\ Reclaimed(j) = [job EXCEPT ![j] = q]
                            /\ GivenUp(j, q) /\ q.user = job[j].user /\ q.earned = job[j].earned
    BY <1>1, ReclaimedIs
  <1>3. CASE Crash(w) /\ job[j].by = w
    <2>1. job' = [job EXCEPT ![j] = q] /\ run' = [run EXCEPT ![w] = Idle]
      BY <1>1, <1>2, <1>3 DEF Crash
    <2> QED BY <1>0, <1>1, <1>2, <1>3, <2>1 DEF Works, JobOf
  <1>4. CASE Crash(w) /\ job[j].by # w
    <2>1. job' = job /\ run' = [run EXCEPT ![w] = Idle] /\ Idle \in Run
      BY <1>1, <1>4 DEF Crash, Run
    <2>2. Works(w, run[w].job, Idle, job[run[w].job])
      BY <1>0, <2>1, GoesOnWorks
    <2> QED BY <1>0, <1>1, <1>4, <2>2 DEF JobOf
  <1>5. CASE Stall(w)
    <2>1. job' = [job EXCEPT ![j] = q] /\ run' = run /\ job[j].by = w
      BY <1>1, <1>2, <1>5 DEF Stall, JobOf
    <2>2. run' = [run EXCEPT ![w] = run[w]]
      BY <2>1 DEF StatsTypeOK
    <2> QED BY <1>0, <1>1, <1>2, <2>1, <2>2 DEF Works, JobOf
  <1> QED BY <1>3, <1>4, <1>5

(***************************************************************************)
(* UserStats: the queue.                                                   *)
(***************************************************************************)

LEMMA WorksQueue ==
  ASSUME StatsTypeOK, Queue, NEW w \in Workers, NEW j \in Jobs, NEW r \in Run, NEW q \in Present,
         Works(w, j, r, q),
         q.st = "active" <=> q.by # Null,
         q.by # Null => (q.by = w /\ r # Idle) \/ (q.by = job[j].by /\ q.by # w),
         q.st = "waiting" => q.runs <= 1,
         q.st = "active" => q.runs >= 1
  PROVE  Queue'
  <1>1. /\ job'[j] = q /\ \A i \in Jobs \ {j} : job'[i] = job[i]
        /\ run'[w] = r /\ \A v \in Workers \ {w} : run'[v] = run[v]
    BY DEF Works, StatsTypeOK
  <1>2. /\ q.st # "absent" /\ q.by \in Workers \cup {Null} /\ job[j].st # "absent"
        /\ r = Idle \/ r.job = j
        /\ run[w] = Idle \/ run[w].job = j
    BY PresentTypes DEF Works
  <1>3. ASSUME NEW i \in Jobs, job'[i].st # "absent"
        PROVE  /\ job'[i].st = "active" <=> job'[i].by # Null
               /\ job'[i].by # Null => run'[job'[i].by] # Idle /\ run'[job'[i].by].job = i
               /\ job'[i].st = "waiting" => job'[i].runs <= 1
               /\ job'[i].st = "active" => job'[i].runs >= 1
    <2>1. CASE i = j
      <3>1. ASSUME q.by # Null PROVE run'[q.by] # Idle /\ run'[q.by].job = j
        <4>1. CASE q.by = w /\ r # Idle
          BY <1>1, <1>2, <4>1
        <4>2. CASE q.by = job[j].by /\ q.by # w
          <5>1. run[q.by] # Idle /\ run[q.by].job = j
            BY <1>2, <3>1, <4>2 DEF Queue
          <5> QED BY <1>1, <1>2, <3>1, <4>2, <5>1
        <4> QED BY <3>1, <4>1, <4>2
      <3> QED BY <1>1, <2>1, <3>1
    <2>2. CASE i # j
      <3>1. job'[i] = job[i] /\ job[i].st # "absent"
        BY <1>1, <1>3, <2>2
      <3>2. job[i].by \in Workers \cup {Null}
        BY <3>1, AddedJobs, PresentTypes
      <3>3. job[i].by # w
        BY <1>2, <2>2, <3>1, NobodyIsNull DEF Queue
      <3>4. job[i].by # Null => run'[job[i].by] = run[job[i].by]
        BY <1>1, <3>2, <3>3
      <3> QED BY <3>1, <3>4 DEF Queue
    <2> QED BY <2>1, <2>2
  <1>4. ASSUME NEW v \in Workers, run'[v] # Idle PROVE job'[run'[v].job].st # "absent"
    <2>1. CASE v = w
      BY <1>1, <1>2, <1>4, <2>1
    <2>2. CASE v # w
      <3>1. run'[v] = run[v] /\ run[v].job \in Jobs /\ job[run[v].job].st # "absent"
        BY <1>1, <1>4, <2>2, WorkerRuns DEF Queue, JobOf
      <3> QED BY <1>1, <1>2, <3>1
    <2> QED BY <2>1, <2>2
  <1> QED BY <1>3, <1>4 DEF Queue, JobOf

\* A job that is not held, or that its worker goes on with.
LEMMA HolderGoesOn ==
  ASSUME StatsTypeOK, Queue, NEW w \in Workers, run[w] # Idle, NEW r \in Run,
         Works(w, run[w].job, r, JobOf(w)), r # Idle \/ JobOf(w).by # w
  PROVE  Queue'
  <1>1. PICK j \in Jobs : j = run[w].job /\ job[j] \in Present
    BY WorkerRuns
  <1>2. job[j].st # "absent"
    BY <1>1, PresentTypes
  <1>3. /\ job[j].st = "active" <=> job[j].by # Null
        /\ job[j].st = "waiting" => job[j].runs <= 1
        /\ job[j].st = "active" => job[j].runs >= 1
    BY <1>2 DEF Queue
  <1>4. Works(w, j, r, job[j]) /\ (r # Idle \/ job[j].by # w)
    BY <1>1 DEF JobOf
  <1>5. job[j].by # Null => (job[j].by = w /\ r # Idle) \/ (job[j].by = job[j].by /\ job[j].by # w)
    BY <1>4
  <1> QED BY <1>1, <1>3, <1>4, <1>5, WorksQueue

LEMMA QueueNext ==
  ASSUME StatsTypeOK, Queue, [StatsNext]_statsVars
  PROVE  Queue'
  <1>1. ASSUME NEW j \in Jobs, NEW u \in Users, NEW e \in Earnings, Enqueue(j, u, e) PROVE Queue'
    <2>1. PICK q \in Present : q = [st |-> "waiting", user |-> u, earned |-> e, by |-> Null, runs |-> 0]
      BY EnqueuedJobs
    <2>2. q.st = "waiting" /\ q.by = Null /\ q.runs = 0
      BY <2>1
    <2>3. job'[j] = q /\ (\A i \in Jobs \ {j} : job'[i] = job[i]) /\ run' = run /\ job[j].st = "absent"
      BY <1>1, <2>1 DEF Enqueue, StatsTypeOK
    <2>4. ASSUME NEW w \in Workers, run[w] # Idle PROVE job'[run[w].job].st # "absent"
      <3>1. run[w].job \in Jobs /\ job[run[w].job].st # "absent"
        BY <2>4, WorkerRuns DEF Queue, JobOf
      <3> QED BY <2>3, <3>1
    <2> QED BY <2>2, <2>3, <2>4 DEF Queue, JobOf
  <1>2. ASSUME NEW w \in Workers, NEW j \in Jobs, Take(w, j) PROVE Queue'
    <2>1. PICK r \in Run, q \in Present :
            /\ Works(w, j, r, q)
            /\ run[w] = Idle /\ r.pc = "lock"
            /\ job[j].st = "waiting" /\ q.st = "active" /\ q.by = w /\ q.runs = job[j].runs + 1
      BY <1>2, TakeWorks
    <2>2. r # Idle /\ q.by # Null /\ q.runs >= 1
      <3>1. job[j].runs \in 0..2
        BY <2>1, AddedJobs, PresentTypes
      <3> QED BY <2>1, <3>1, NobodyIsNull DEF Idle
    <2> QED BY <2>1, <2>2, WorksQueue
  <1>3. ASSUME NEW w \in Workers, LockUser(w) \/ Commit(w) \/ Board(w) PROVE Queue'
    <2>1. run[w] # Idle
      <3>1. CASE Commit(w)
        BY <3>1, Committing
      <3>2. CASE LockUser(w) \/ Board(w)
        BY <3>2 DEF LockUser, Board, Doing, Idle
      <3> QED BY <1>3, <3>1, <3>2
    <2>2. \E r \in Run : Works(w, run[w].job, r, JobOf(w)) /\ r # Idle
      <3>1. CASE LockUser(w)
        BY <3>1, LockWorks DEF JobOf, Idle
      <3>2. CASE Commit(w)
        <4>1. PICK r \in Run : /\ Works(w, run[w].job, r, job[run[w].job])
                              /\ r.pc = IF JobOf(w).earned > 0 THEN "board" ELSE "finish"
          BY <3>2, CommitWorks
        <4>2. r # Idle
          BY <4>1 DEF Idle
        <4> QED BY <4>1, <4>2 DEF JobOf
      <3>3. CASE Board(w)
        BY <3>3, BoardWorks DEF JobOf, Idle
      <3> QED BY <1>3, <3>1, <3>2, <3>3
    <2> QED BY <2>1, <2>2, HolderGoesOn
  <1>4. ASSUME NEW w \in Workers, run[w] # Idle, NEW result \in {"done", "failed"}, EndRun(w, result)
        PROVE  Queue'
    <2>1. PICK q \in Present :
            /\ Works(w, run[w].job, Idle, q)
            /\ IF JobOf(w).by = w
               THEN q.st = result /\ q.by = Null /\ q.runs = JobOf(w).runs
               ELSE q = JobOf(w)
      BY <1>4, EndWorks
    <2>2. Idle \in Run /\ run[w].job \in Jobs
      BY <1>4, WorkerRuns DEF Run
    <2>3. CASE JobOf(w).by = w
      BY <2>1, <2>2, <2>3, WorksQueue
    <2>4. CASE JobOf(w).by # w
      BY <1>4, <2>1, <2>2, <2>4, HolderGoesOn
    <2> QED BY <2>3, <2>4
  <1>5. ASSUME NEW w \in Workers, Crash(w) \/ Stall(w) PROVE Queue'
    <2>1. PICK r \in {Idle, run[w]}, q \in Present :
            /\ Works(w, run[w].job, r, q)
            /\ IF JobOf(w).by = w THEN GivenUp(run[w].job, q) ELSE q = JobOf(w) /\ r = Idle
      BY <1>5, LostWorks
    <2>2. Idle \in Run /\ run[w] \in Run /\ run[w].job \in Jobs /\ run[w] # Idle
      BY <1>5, LostWorks, WorkerRuns DEF Run
    <2>3. CASE JobOf(w).by = w
      <3>1. /\ q.by = Null /\ q.runs = job[run[w].job].runs
            /\ q.st = IF job[run[w].job].runs = 1 THEN "waiting" ELSE "failed"
        BY <2>1, <2>3 DEF GivenUp
      <3>2. q.st # "active" /\ (q.st = "waiting" => q.runs <= 1)
        BY <3>1
      <3>3. r \in Run
        BY <2>2
      <3> QED BY <2>1, <2>2, <3>1, <3>2, <3>3, WorksQueue
    <2>4. CASE JobOf(w).by # w
      <3>1. q = JobOf(w) /\ r = Idle
        BY <2>1, <2>4
      <3> QED BY <2>1, <2>2, <2>4, <3>1, HolderGoesOn
    <2> QED BY <2>3, <2>4
  <1>6. ASSUME UNCHANGED <<job, run>> PROVE Queue'
    BY <1>6 DEF Queue, JobOf
  <1>7. ASSUME NEW w \in Workers, Rollback(w) \/ Finish(w) PROVE Queue'
    <2>1. run[w] # Idle
      BY <1>7 DEF Rollback, Finish, Doing, Idle
    <2>2. EndRun(w, "failed") \/ EndRun(w, "done")
      BY <1>7 DEF Rollback, Finish
    <2> QED BY <1>4, <2>1, <2>2
  <1>8. ASSUME NEW u \in Users,
               (\E zone \in Zones : ProfileRead(u, zone)) \/ ProfileFail(u) \/ ProfileCompare(u)
                 \/ ProfileWrite(u)
        PROVE  UNCHANGED <<job, run>>
    BY <1>8 DEF ProfileRead, ProfileFail, ProfileCompare, ProfileWrite
  <1>9. CASE NewDay \/ UNCHANGED statsVars
    BY <1>6, <1>9 DEF NewDay, statsVars
  <1> QED BY <1>1, <1>2, <1>3, <1>5, <1>6, <1>7, <1>8, <1>9 DEF StatsNext, Work

(***************************************************************************)
(* UserStats: types.                                                       *)
(***************************************************************************)

LEMMA RowTypes ==
  ASSUME NEW row \in UserRow
  PROVE  /\ row.totalFocusMinutes \in Nat /\ row.currentStreak \in Nat /\ row.longestStreak \in Nat
         /\ row.lastStudyDate \in Days \cup {Null} /\ row.timezone \in Zones
         /\ DOMAIN row = Columns
  BY DEF UserRow, Columns

LEMMA StreakTypes ==
  ASSUME NEW row \in UserRow, NEW today \in Days
  PROVE  Streak(row, today) \in Nat
  BY RowTypes DEF Streak

\* The row that a transaction saves.
LEMMA CountedIs ==
  ASSUME NEW row \in UserRow, NEW today \in Days, NEW j, job[j].earned \in Nat
  PROVE  /\ Counted(row, today, j) \in UserRow
         /\ Counted(row, today, j).timezone = row.timezone
         /\ Counted(row, today, j).lastStudyDate = today
         /\ Counted(row, today, j).currentStreak = Streak(row, today)
         /\ Counted(row, today, j).longestStreak =
              IF Streak(row, today) > row.longestStreak THEN Streak(row, today) ELSE row.longestStreak
         /\ Counted(row, today, j).totalFocusMinutes = row.totalFocusMinutes + job[j].earned
  <1>1. PICK s \in Nat : s = Streak(row, today)
    BY StreakTypes
  <1>2. PICK l \in Nat : l = IF s > row.longestStreak THEN s ELSE row.longestStreak
    BY RowTypes
  <1>3. PICK n \in Nat : n = row.totalFocusMinutes + job[j].earned
    BY RowTypes
  <1>4. Counted(row, today, j) = [row EXCEPT !.currentStreak = s, !.longestStreak = l,
                                             !.lastStudyDate = today, !.totalFocusMinutes = n]
    BY <1>1, <1>2, <1>3 DEF Counted
  <1>5. PICK r : r = [row EXCEPT !.currentStreak = s, !.longestStreak = l,
                                 !.lastStudyDate = today, !.totalFocusMinutes = n]
    OBVIOUS
  <1>6. /\ r \in UserRow /\ r.timezone = row.timezone /\ r.lastStudyDate = today
        /\ r.currentStreak = s /\ r.longestStreak = l /\ r.totalFocusMinutes = n
    BY <1>5 DEF UserRow
  <1> QED BY <1>1, <1>2, <1>3, <1>4, <1>5, <1>6

\* What Commit writes.
LEMMA CommitWrites ==
  ASSUME StatsTypeOK, Queue, NEW w \in Workers, Commit(w)
  PROVE  LET u == JobOf(w).user
             e == JobOf(w).earned
             today == run[w].today
             row == Counted(run[w].row, today, run[w].job)
         IN /\ u \in Users /\ e \in Nat /\ today \in Days /\ run[w].row \in UserRow /\ row \in UserRow
            /\ user' = [user EXCEPT ![u] = row]
            /\ \A v \in Users \ {u} : log'[v] = log[v]
            /\ \A d \in Days \ {today} : log'[u][d] = log[u][d]
            /\ log'[u][today] = (IF log[u][today] = Null THEN 0 ELSE log[u][today]) + e
            /\ log' \in [Users -> [Days -> Nat \cup {Null}]]
            /\ UNCHANGED <<day, board, job, profile, rewritten>>
  <1>1. run[w].pc = "commit" /\ run[w] # Idle
    BY Committing
  <1>2. PICK j \in Jobs : j = run[w].job /\ job[j] \in Present
    BY <1>1, WorkerRuns
  <1>3. PICK u \in Users : u = job[j].user
    BY <1>2, PresentTypes
  <1>4. PICK e \in Nat : e = job[j].earned
    BY <1>2, PresentTypes
  <1>5. run[w].row \in UserRow /\ run[w].today \in Days
    BY <1>1, RunTypes DEF StatsTypeOK
  <1>6. PICK today \in Days : today = run[w].today
    BY <1>5
  <1>7. Counted(run[w].row, today, j) \in UserRow
    BY <1>4, <1>5, CountedIs
  <1>8. /\ user' = [user EXCEPT ![u] = Counted(run[w].row, today, j)]
        /\ log' = [log EXCEPT ![u][today] = (IF @ = Null THEN 0 ELSE @) + e]
        /\ UNCHANGED <<day, board, job, profile, rewritten>>
    BY <1>2, <1>3, <1>4, <1>6 DEF Commit
  <1>9. PICK old \in Nat : old = IF log[u][today] = Null THEN 0 ELSE log[u][today]
    BY DEF StatsTypeOK
  <1>10. PICK n \in Nat : n = old + e
    OBVIOUS
  <1>11. log' = [log EXCEPT ![u][today] = n]
    BY <1>8, <1>9, <1>10
  <1>12. log \in [Users -> [Days -> Nat \cup {Null}]]
    BY DEF StatsTypeOK
  <1>13. /\ \A v \in Users \ {u} : log'[v] = log[v]
         /\ \A d \in Days \ {today} : log'[u][d] = log[u][d]
         /\ log'[u][today] = n
         /\ log' \in [Users -> [Days -> Nat \cup {Null}]]
    BY <1>11, <1>12
  <1>14. JobOf(w).user = u /\ JobOf(w).earned = e
    BY <1>2, <1>3, <1>4 DEF JobOf
  <1> QED BY <1>2, <1>5, <1>6, <1>7, <1>8, <1>9, <1>10, <1>13, <1>14

\* What the first n commands of the pipeline add.
LEMMA IncrementedIs ==
  ASSUME StatsTypeOK, NEW u \in Users, NEW e \in Nat, NEW n \in 0..3
  PROVE  /\ Incremented(u, e, n) \in [Boards -> [Users -> Nat]]
         /\ \A p \in Boards, v \in Users \ {u} : Incremented(u, e, n)[p][v] = board[p][v]
         /\ Incremented(u, e, n)["overall"][u] = board["overall"][u] + (IF n >= 1 THEN e ELSE 0)
         /\ Incremented(u, e, n)["weekly"][u] = board["weekly"][u] + (IF n >= 2 THEN e ELSE 0)
         /\ Incremented(u, e, n)["daily"][u] = board["daily"][u] + (IF n >= 3 THEN e ELSE 0)
  <1>0. board \in [Boards -> [Users -> Nat]]
    BY DEF StatsTypeOK
  <1>1. Periods[1] = "overall" /\ Periods[2] = "weekly" /\ Periods[3] = "daily"
    BY DEF Periods
  <1>2. /\ (\E i \in 1..n : Periods[i] = "overall") <=> n >= 1
        /\ (\E i \in 1..n : Periods[i] = "weekly") <=> n >= 2
        /\ (\E i \in 1..n : Periods[i] = "daily") <=> n >= 3
    <2>1. \A i \in 1..n : i = 1 \/ i = 2 \/ i = 3
      OBVIOUS
    <2> QED BY <1>1, <2>1
  <1>3. PICK g : g = Incremented(u, e, n)
    OBVIOUS
  <1>4. ASSUME NEW p \in Boards
        PROVE  /\ g[p] \in [Users -> Nat]
               /\ g[p][u] = IF \E i \in 1..n : Periods[i] = p THEN board[p][u] + e ELSE board[p][u]
               /\ \A v \in Users \ {u} : g[p][v] = board[p][v]
    <2>1. board[p] \in [Users -> Nat] /\ board[p][u] + e \in Nat
      BY <1>0
    <2>2. PICK f : f = [board[p] EXCEPT ![u] = @ + e]
      OBVIOUS
    <2>3. f \in [Users -> Nat] /\ f[u] = board[p][u] + e /\ \A v \in Users \ {u} : f[v] = board[p][v]
      BY <2>1, <2>2
    <2>4. g[p] = IF \E i \in 1..n : Periods[i] = p THEN f ELSE board[p]
      BY <1>3, <2>2 DEF Incremented
    <2> QED BY <2>1, <2>3, <2>4
  <1>5. g \in [Boards -> [Users -> Nat]]
    <2>1. DOMAIN g = Boards /\ g = [p \in Boards |-> g[p]]
      BY <1>3 DEF Incremented
    <2> QED BY <1>4, <2>1
  <1>6. g["overall"][u] = board["overall"][u] + (IF n >= 1 THEN e ELSE 0)
    <2>1. "overall" \in Boards
      BY DEF Boards
    <2>2. board["overall"][u] \in Nat
      BY <1>0, <2>1
    <2>3. CASE n >= 1
      BY <1>2, <1>4, <2>1, <2>3
    <2>4. CASE ~ (n >= 1)
      BY <1>2, <1>4, <2>1, <2>2, <2>4
    <2> QED BY <2>3, <2>4
  <1>7. g["weekly"][u] = board["weekly"][u] + (IF n >= 2 THEN e ELSE 0)
    <2>1. "weekly" \in Boards
      BY DEF Boards
    <2>2. board["weekly"][u] \in Nat
      BY <1>0, <2>1
    <2>3. CASE n >= 2
      BY <1>2, <1>4, <2>1, <2>3
    <2>4. CASE ~ (n >= 2)
      BY <1>2, <1>4, <2>1, <2>2, <2>4
    <2> QED BY <2>3, <2>4
  <1>8. g["daily"][u] = board["daily"][u] + (IF n >= 3 THEN e ELSE 0)
    <2>1. "daily" \in Boards
      BY DEF Boards
    <2>2. board["daily"][u] \in Nat
      BY <1>0, <2>1
    <2>3. CASE n >= 3
      BY <1>2, <1>4, <2>1, <2>3
    <2>4. CASE ~ (n >= 3)
      BY <1>2, <1>4, <2>1, <2>2, <2>4
    <2> QED BY <2>3, <2>4
  <1> QED BY <1>3, <1>4, <1>5, <1>6, <1>7, <1>8

\* What Board writes.
LEMMA BoardWrites ==
  ASSUME StatsTypeOK, Queue, NEW w \in Workers, Board(w)
  PROVE  /\ JobOf(w).user \in Users /\ JobOf(w).earned \in Nat
         /\ \E n \in 0..3 : board' = Incremented(JobOf(w).user, JobOf(w).earned, n)
         /\ UNCHANGED <<day, user, log, job, profile, rewritten>>
  <1>1. run[w] # Idle
    BY DEF Board, Doing, Idle
  <1>2. JobOf(w) \in Present
    BY <1>1, WorkerRuns DEF JobOf
  <1>3. Len(Periods) = 3
    BY DEF Periods
  <1> QED BY <1>2, <1>3, PresentTypes DEF Board

\* What ProfileWrite writes.
LEMMA ProfileWrites ==
  ASSUME StatsTypeOK, NEW u \in Users, ProfileWrite(u)
  PROVE  /\ user' \in [Users -> UserRow]
         /\ \A v \in Users \ {u} : user'[v] = user[v]
         /\ profile[u].write = {} => user' = user
         /\ rewritten' = IF profile[u].write = {} THEN rewritten ELSE rewritten \cup {u}
         /\ profile' = [profile EXCEPT ![u] = Null]
         /\ ~ Locked(u)
         /\ UNCHANGED <<day, log, board, job, run>>
  <1>0. user \in [Users -> UserRow] /\ user[u] \in UserRow
    BY DEF StatsTypeOK
  <1>1. profile[u].entity \in UserRow
    BY DEF StatsTypeOK, Profile, ProfileWrite
  <1>2. PICK row : row = [c \in DOMAIN user[u] |->
                IF c \in profile[u].write THEN profile[u].entity[c] ELSE user[u][c]]
    OBVIOUS
  <1>3. row \in UserRow
    <2>1. row = [c \in Columns |-> IF c \in profile[u].write THEN profile[u].entity[c] ELSE user[u][c]]
      BY <1>0, <1>2, RowTypes
    <2>2. row = [totalFocusMinutes |-> row.totalFocusMinutes, currentStreak |-> row.currentStreak,
                 longestStreak |-> row.longestStreak, lastStudyDate |-> row.lastStudyDate,
                 timezone |-> row.timezone]
      BY <2>1 DEF Columns
    <2>3. \A c \in Columns : row[c] = profile[u].entity[c] \/ row[c] = user[u][c]
      BY <2>1
    <2>4. /\ row.totalFocusMinutes \in Nat /\ row.currentStreak \in Nat /\ row.longestStreak \in Nat
          /\ row.lastStudyDate \in Days \cup {Null} /\ row.timezone \in Zones
      BY <1>0, <1>1, <2>3, RowTypes DEF Columns
    <2> QED BY <2>2, <2>4 DEF UserRow
  <1>4. user' = [user EXCEPT ![u] = row]
    BY <1>2 DEF ProfileWrite
  <1>5. profile[u].write = {} => row = user[u]
    BY <1>0, <1>2 DEF UserRow
  <1>6. profile[u].write = {} => user' = user
    BY <1>0, <1>4, <1>5
  <1>7. user' \in [Users -> UserRow] /\ \A v \in Users \ {u} : user'[v] = user[v]
    BY <1>0, <1>3, <1>4
  <1> QED BY <1>6, <1>7 DEF ProfileWrite

LEMMA WorksTypes ==
  ASSUME StatsTypeOK, NEW w \in Workers, NEW j \in Jobs, NEW r \in Run, NEW q \in Present,
         Works(w, j, r, q), UNCHANGED <<day, user, log, board, profile, rewritten>>
  PROVE  StatsTypeOK'
  <1>1. q \in Job
    BY PresentTypes
  <1>2. job' \in [Jobs -> Job] /\ run' \in [Workers -> Run]
    BY <1>1 DEF Works, StatsTypeOK
  <1> QED BY <1>2 DEF StatsTypeOK

LEMMA TypesNext ==
  ASSUME StatsTypeOK, Queue, [StatsNext]_statsVars
  PROVE  StatsTypeOK'
  <1>1. ASSUME NEW j \in Jobs, NEW u \in Users, NEW e \in Earnings, Enqueue(j, u, e)
        PROVE  StatsTypeOK'
    <2>1. PICK q \in Job : q = [st |-> "waiting", user |-> u, earned |-> e, by |-> Null, runs |-> 0]
      BY EnqueuedJobs, PresentTypes
    <2>2. job' \in [Jobs -> Job]
      BY <1>1, <2>1 DEF Enqueue, StatsTypeOK
    <2> QED BY <1>1, <2>2 DEF Enqueue, StatsTypeOK
  <1>2. ASSUME NEW w \in Workers, NEW j \in Jobs, Take(w, j) PROVE StatsTypeOK'
    <2>1. PICK r \in Run, q \in Present : Works(w, j, r, q)
      BY <1>2, TakeWorks
    <2>2. UNCHANGED <<day, user, log, board, profile, rewritten>>
      BY <1>2 DEF Take
    <2> QED BY <2>1, <2>2, WorksTypes
  <1>3. ASSUME NEW w \in Workers, LockUser(w) PROVE StatsTypeOK'
    <2>1. PICK r \in Run : Works(w, run[w].job, r, job[run[w].job])
      BY <1>3, LockWorks
    <2>2. run' \in [Workers -> Run]
      BY <2>1 DEF Works, StatsTypeOK
    <2> QED BY <1>3, <2>2 DEF LockUser, StatsTypeOK
  <1>4. ASSUME NEW w \in Workers, Commit(w) PROVE StatsTypeOK'
    <2>1. PICK r \in Run : Works(w, run[w].job, r, job[run[w].job])
      BY <1>4, CommitWorks
    <2>2. run' \in [Workers -> Run]
      BY <2>1 DEF Works, StatsTypeOK
    <2>3. PICK u \in Users, row \in UserRow : user' = [user EXCEPT ![u] = row]
      BY <1>4, CommitWrites
    <2>4. user' \in [Users -> UserRow]
      BY <2>3 DEF StatsTypeOK
    <2>5. log' \in [Users -> [Days -> Nat \cup {Null}]] /\ UNCHANGED <<day, board, job, profile, rewritten>>
      BY <1>4, CommitWrites
    <2> QED BY <2>2, <2>4, <2>5 DEF StatsTypeOK
  <1>5. ASSUME NEW w \in Workers, Board(w) PROVE StatsTypeOK'
    <2>1. PICK r \in Run : Works(w, run[w].job, r, job[run[w].job])
      BY <1>5, BoardWorks
    <2>2. run' \in [Workers -> Run]
      BY <2>1 DEF Works, StatsTypeOK
    <2>3. /\ JobOf(w).user \in Users /\ JobOf(w).earned \in Nat
          /\ \E n \in 0..3 : board' = Incremented(JobOf(w).user, JobOf(w).earned, n)
          /\ UNCHANGED <<day, user, log, job, profile, rewritten>>
      BY <1>5, BoardWrites
    <2>4. board' \in [Boards -> [Users -> Nat]]
      BY <2>3, IncrementedIs
    <2> QED BY <2>2, <2>3, <2>4 DEF StatsTypeOK
  <1>6. ASSUME NEW w \in Workers, Rollback(w) \/ Finish(w) PROVE StatsTypeOK'
    <2>1. run[w] # Idle
      BY <1>6 DEF Rollback, Finish, Doing, Idle
    <2>2. PICK result \in {"done", "failed"} : EndRun(w, result)
      BY <1>6 DEF Rollback, Finish
    <2>3. PICK q \in Present : Works(w, run[w].job, Idle, q)
      BY <2>1, <2>2, EndWorks
    <2>4. run[w].job \in Jobs /\ Idle \in Run
      BY <2>1, WorkerRuns DEF Run
    <2>5. UNCHANGED <<day, user, log, board, profile, rewritten>>
      BY <1>6 DEF Rollback, Finish
    <2> QED BY <2>3, <2>4, <2>5, WorksTypes
  <1>7. ASSUME NEW w \in Workers, Crash(w) \/ Stall(w) PROVE StatsTypeOK'
    <2>1. run[w] # Idle
      BY <1>7, LostWorks
    <2>2. PICK r \in {Idle, run[w]}, q \in Present : Works(w, run[w].job, r, q)
      BY <1>7, LostWorks
    <2>3. run[w].job \in Jobs /\ r \in Run
      BY <2>1, WorkerRuns DEF Run
    <2>4. UNCHANGED <<day, user, log, board, profile, rewritten>>
      BY <1>7 DEF Crash, Stall
    <2> QED BY <2>2, <2>3, <2>4, WorksTypes
  <1>8. ASSUME NEW u \in Users, NEW zone \in Zones, ProfileRead(u, zone) PROVE StatsTypeOK'
    <2>1. PICK row \in UserRow : row = [user[u] EXCEPT !.timezone = zone]
      BY DEF StatsTypeOK, UserRow
    <2>2. [entity |-> row, write |-> {}, saving |-> FALSE] \in Profile
      BY DEF Profile
    <2>3. profile' = [profile EXCEPT ![u] = [entity |-> row, write |-> {}, saving |-> FALSE]]
      BY <1>8, <2>1 DEF ProfileRead
    <2>4. profile' \in [Users -> Profile]
      BY <2>2, <2>3 DEF StatsTypeOK
    <2> QED BY <1>8, <2>4 DEF ProfileRead, StatsTypeOK
  <1>9. ASSUME NEW u \in Users, ProfileFail(u) PROVE StatsTypeOK'
    <2>1. profile' \in [Users -> Profile]
      BY <1>9 DEF ProfileFail, StatsTypeOK, Profile
    <2> QED BY <1>9, <2>1 DEF ProfileFail, StatsTypeOK
  <1>10. ASSUME NEW u \in Users, ProfileCompare(u) PROVE StatsTypeOK'
    <2>1. user[u] \in UserRow /\ profile[u] \in [entity : UserRow, write : SUBSET Columns, saving : BOOLEAN]
      BY <1>10 DEF ProfileCompare, StatsTypeOK, Profile
    <2>2. PICK cs \in SUBSET Columns : cs = {c \in DOMAIN user[u] : profile[u].entity[c] # user[u][c]}
      BY <2>1, RowTypes
    <2>3. [profile[u] EXCEPT !.saving = TRUE, !.write = cs] \in Profile
      BY <2>1 DEF Profile
    <2>4. profile' = [profile EXCEPT ![u] = [profile[u] EXCEPT !.saving = TRUE, !.write = cs]]
      BY <1>10, <2>2 DEF ProfileCompare, StatsTypeOK
    <2>5. profile' \in [Users -> Profile]
      BY <2>3, <2>4 DEF StatsTypeOK
    <2> QED BY <1>10, <2>5 DEF ProfileCompare, StatsTypeOK
  <1>11. ASSUME NEW u \in Users, ProfileWrite(u) PROVE StatsTypeOK'
    <2>1. /\ user' \in [Users -> UserRow]
          /\ rewritten' = IF profile[u].write = {} THEN rewritten ELSE rewritten \cup {u}
          /\ profile' = [profile EXCEPT ![u] = Null]
          /\ UNCHANGED <<day, log, board, job, run>>
      BY <1>11, ProfileWrites
    <2>2. profile' \in [Users -> Profile] /\ rewritten' \subseteq Users
      BY <2>1 DEF StatsTypeOK, Profile
    <2> QED BY <2>1, <2>2 DEF StatsTypeOK
  <1>12. CASE NewDay
    <2>1. day' \in 0..MaxDay
      BY <1>12, DaysAssumption DEF NewDay, StatsTypeOK
    <2>2. board' \in [Boards -> [Users -> Nat]]
      <3>1. [u \in Users |-> 0] \in [Users -> Nat]
        OBVIOUS
      <3> QED BY <1>12, <3>1 DEF NewDay, StatsTypeOK
    <2> QED BY <1>12, <2>1, <2>2 DEF NewDay, StatsTypeOK
  <1>13. CASE UNCHANGED statsVars
    BY <1>13 DEF statsVars, StatsTypeOK
  <1> QED BY <1>1, <1>2, <1>3, <1>4, <1>5, <1>6, <1>7, <1>8, <1>9, <1>10, <1>11, <1>12, <1>13
          DEF StatsNext, Work


(***************************************************************************)
(* UserStats: the start.                                                   *)
(***************************************************************************)

LEMMA StatsGoodInit ==
  ASSUME StatsInit PROVE StatsGood
  <1>0. Null \notin Nat /\ 0 \in Nat /\ Idle \in Run
    BY NobodyIsNull DEF Run
  <1>1. StatsTypeOK
    <2>1. day \in 0..MaxDay
      BY DaysAssumption DEF StatsInit
    <2>2. user \in [Users -> UserRow]
      <3>1. [totalFocusMinutes : {0}, currentStreak : {0}, longestStreak : {0},
             lastStudyDate : {Null}, timezone : Zones] \subseteq UserRow
        BY DEF UserRow
      <3> QED BY <3>1 DEF StatsInit
    <2>3. log \in [Users -> [Days -> Nat \cup {Null}]]
      BY DEF StatsInit
    <2>4. board \in [Boards -> [Users -> Nat]]
      BY DEF StatsInit
    <2>5. job \in [Jobs -> Job]
      BY DEF StatsInit, Job
    <2>6. run \in [Workers -> Run]
      BY <1>0 DEF StatsInit
    <2>7. profile \in [Users -> Profile] /\ rewritten \subseteq Users
      BY DEF StatsInit, Profile
    <2> QED BY <2>1, <2>2, <2>3, <2>4, <2>5, <2>6, <2>7 DEF StatsTypeOK
  <1>2. /\ \A j \in Jobs : job[j].st = "absent"
        /\ \A w \in Workers : run[w] = Idle /\ run[w].pc = "idle"
        /\ \A u \in Users, d \in Days : log[u][d] = Null
    BY DEF StatsInit, Idle
  <1>3. Queue
    BY <1>2 DEF Queue
  <1>4. Exclusive
    BY <1>2 DEF Exclusive, Writing
  <1>5. Chain
    <2>1. ASSUME NEW u \in Users PROVE Logged(u) = {} /\ Unstudied(user[u])
      BY <1>2 DEF Logged, Unstudied, StatsInit
    <2> QED BY <2>1 DEF Chain
  <1>6. Scores
    BY DEF StatsInit, Scores, Boards
  <1>7. ASSUME NEW u \in Users PROVE Accounted(u)
    <2>1. IsFiniteSet(Units(Heatmap(u))) /\ Total(Heatmap(u)) = 0
      <3>1. PICK f : f = Heatmap(u)
        OBVIOUS
      <3>2. f \in [Days -> Nat] /\ \A d \in Days : f[d] = 0
        BY <1>0, <1>2, <3>1 DEF Heatmap
      <3> QED BY <3>1, <3>2, NothingInTotal
    <2>2. IsFiniteSet(Units(Pending(u))) /\ Total(Pending(u)) = 0
      <3>1. PICK f : f = Pending(u)
        OBVIOUS
      <3>2. f \in [Workers -> Nat] /\ \A w \in Workers : f[w] = 0
        BY <1>0, <1>2, <3>1 DEF Pending
      <3> QED BY <3>1, <3>2, NothingInTotal
    <2>3. IsFiniteSet(Units(Owed(u))) /\ Total(Owed(u)) = 0
      <3>1. PICK f : f = Owed(u)
        OBVIOUS
      <3>2. f \in [Workers -> Nat] /\ \A w \in Workers : f[w] = 0
        BY <1>0, <1>2, <3>1 DEF Owed
      <3> QED BY <3>1, <3>2, NothingInTotal
    <2>4. IsFiniteSet(Units(Settled(u))) /\ Total(Settled(u)) = 0
      <3>1. PICK f : f = Settled(u)
        OBVIOUS
      <3>2. f \in [Jobs -> Nat] /\ \A j \in Jobs : f[j] = 0
        BY <1>0, <1>2, <3>1 DEF Settled, Sure
      <3> QED BY <3>1, <3>2, NothingInTotal
    <2>5. IsFiniteSet(Units(Ran(u))) /\ Total(Ran(u)) = 0
      <3>1. PICK f : f = Ran(u)
        OBVIOUS
      <3>2. f \in [Jobs -> Nat] /\ \A j \in Jobs : f[j] = 0
        BY <1>0, <1>2, <3>1 DEF Ran
      <3> QED BY <3>1, <3>2, NothingInTotal
    <2>6. user[u].totalFocusMinutes = 0 /\ board["overall"][u] = 0
      BY DEF StatsInit, Boards
    <2> QED BY <2>1, <2>2, <2>3, <2>4, <2>5, <2>6 DEF Accounted, LoggedMinutes
  <1> QED BY <1>1, <1>3, <1>4, <1>5, <1>6, <1>7 DEF StatsGood

(***************************************************************************)
(* UserStats: the boards.                                                  *)
(***************************************************************************)

\* The board of a week begins with that of a day.
LEMMA DayBoards ==
  ASSUME StatsTypeOK, NewDay, NEW u \in Users
  PROVE  /\ board'["overall"][u] = board["overall"][u]
         /\ board'["daily"][u] = 0
         /\ board'["weekly"][u] \in {0, board["weekly"][u]}
  <1>1. "overall" \in Boards /\ "weekly" \in Boards /\ "daily" \in Boards
    BY DEF Boards
  <1>2. board' = [p \in Boards |-> IF p \in Beginning(day + 1) THEN [v \in Users |-> 0] ELSE board[p]]
    BY DEF NewDay
  <1>3. "overall" \notin Beginning(day + 1) /\ "daily" \in Beginning(day + 1)
    BY DEF Beginning
  <1> QED BY <1>1, <1>2, <1>3

LEMMA ScoresNext ==
  ASSUME StatsTypeOK, Queue, Scores, [StatsNext]_statsVars
  PROVE  Scores'
  <1>1. ASSUME NEW w \in Workers, Board(w) PROVE Scores'
    <2>1. PICK u \in Users : u = JobOf(w).user
      BY <1>1, BoardWrites
    <2>2. PICK e \in Nat : e = JobOf(w).earned
      BY <1>1, BoardWrites
    <2>3. PICK n \in 0..3 : board' = Incremented(u, e, n)
      BY <1>1, <2>1, <2>2, BoardWrites
    <2>4. /\ \A p \in Boards, v \in Users \ {u} : board'[p][v] = board[p][v]
          /\ board'["overall"][u] = board["overall"][u] + (IF n >= 1 THEN e ELSE 0)
          /\ board'["weekly"][u] = board["weekly"][u] + (IF n >= 2 THEN e ELSE 0)
          /\ board'["daily"][u] = board["daily"][u] + (IF n >= 3 THEN e ELSE 0)
      <3>1. PICK g : g = Incremented(u, e, n)
        OBVIOUS
      <3>2. \A p \in Boards, v \in Users \ {u} : g[p][v] = board[p][v]
        BY <3>1, IncrementedIs
      <3>3. g["overall"][u] = board["overall"][u] + (IF n >= 1 THEN e ELSE 0)
        BY <3>1, IncrementedIs
      <3>4. g["weekly"][u] = board["weekly"][u] + (IF n >= 2 THEN e ELSE 0)
        BY <3>1, IncrementedIs
      <3>5. g["daily"][u] = board["daily"][u] + (IF n >= 3 THEN e ELSE 0)
        BY <3>1, IncrementedIs
      <3> QED BY <2>3, <3>1, <3>2, <3>3, <3>4, <3>5
    <2>5. "overall" \in Boards /\ "weekly" \in Boards /\ "daily" \in Boards
      BY DEF Boards
    <2>6. ASSUME NEW v \in Users
          PROVE  /\ board'["daily"][v] <= board'["weekly"][v]
                 /\ board'["weekly"][v] <= board'["overall"][v]
      <3>1. CASE v = u
        <4>1. PICK a \in Nat : a = board["overall"][u]
          BY <2>5 DEF StatsTypeOK
        <4>2. PICK b \in Nat : b = board["weekly"][u]
          BY <2>5 DEF StatsTypeOK
        <4>3. PICK c \in Nat : c = board["daily"][u]
          BY <2>5 DEF StatsTypeOK
        <4>4. c <= b /\ b <= a
          BY <4>1, <4>2, <4>3 DEF Scores
        <4> QED BY <2>4, <3>1, <4>1, <4>2, <4>3, <4>4
      <3>2. CASE v # u
        <4>1. /\ board'["overall"][v] = board["overall"][v]
              /\ board'["weekly"][v] = board["weekly"][v]
              /\ board'["daily"][v] = board["daily"][v]
          BY <2>4, <2>5, <3>2
        <4> QED BY <4>1 DEF Scores
      <3> QED BY <3>1, <3>2
    <2> QED BY <2>6 DEF Scores
  <1>2. CASE NewDay
    <2>1. ASSUME NEW u \in Users
          PROVE  /\ board'["daily"][u] <= board'["weekly"][u]
                 /\ board'["weekly"][u] <= board'["overall"][u]
      <3>1. PICK a \in Nat : a = board["overall"][u]
        BY DEF StatsTypeOK, Boards
      <3>2. PICK b \in Nat : b = board["weekly"][u]
        BY DEF StatsTypeOK, Boards
      <3>3. b <= a
        BY <3>1, <3>2 DEF Scores
      <3> QED BY <1>2, <3>1, <3>2, <3>3, DayBoards
    <2> QED BY <2>1 DEF Scores
  <1>3. ASSUME UNCHANGED board PROVE Scores'
    BY <1>3 DEF Scores
  <1>4. ASSUME NEW j \in Jobs, NEW u \in Users, NEW e \in Earnings, Enqueue(j, u, e)
        PROVE  UNCHANGED board
    BY <1>4 DEF Enqueue
  <1>5. ASSUME NEW w \in Workers,
               (\E j \in Jobs : Take(w, j)) \/ LockUser(w) \/ Commit(w) \/ Finish(w) \/ Rollback(w)
                 \/ Crash(w) \/ Stall(w)
        PROVE  UNCHANGED board
    BY <1>5 DEF Take, LockUser, Commit, Finish, Rollback, Crash, Stall
  <1>6. ASSUME NEW u \in Users,
               (\E zone \in Zones : ProfileRead(u, zone)) \/ ProfileFail(u) \/ ProfileCompare(u)
                 \/ ProfileWrite(u)
        PROVE  UNCHANGED board
    BY <1>6 DEF ProfileRead, ProfileFail, ProfileCompare, ProfileWrite
  <1>7. CASE UNCHANGED statsVars
    BY <1>3, <1>7 DEF statsVars
  <1> QED BY <1>1, <1>2, <1>3, <1>4, <1>5, <1>6, <1>7 DEF StatsNext, Work

(***************************************************************************)
(* UserStats: the lock on the user row.                                    *)
(***************************************************************************)

\* A job that was added keeps its user and its minutes.
LEMMA JobsRemain ==
  ASSUME StatsTypeOK, NEW w \in Workers, NEW j \in Jobs, NEW r \in Run, NEW q \in Present,
         Works(w, j, r, q), NEW i \in Jobs, job[i].st # "absent"
  PROVE  /\ job'[i].st # "absent"
         /\ job'[i].user = job[i].user /\ job'[i].earned = job[i].earned
  <1>1. CASE i = j
    <2>1. job'[i] = q
      BY <1>1 DEF Works, StatsTypeOK
    <2> QED BY <1>1, <2>1, PresentTypes DEF Works
  <1>2. CASE i # j
    <2>1. job'[i] = job[i]
      BY <1>2 DEF Works, StatsTypeOK
    <2> QED BY <2>1
  <1> QED BY <1>1, <1>2

\* What a step leaves alone of the runs it does not touch.
LEMMA OthersGoOn ==
  ASSUME StatsTypeOK, Queue, NEW w \in Workers, NEW j \in Jobs, NEW r \in Run, NEW q \in Present,
         Works(w, j, r, q), NEW v \in Workers, v # w \/ r = run[w], run[v] # Idle
  PROVE  /\ run'[v] = run[v]
         /\ job'[run[v].job].user = JobOf(v).user
         /\ job'[run[v].job].earned = JobOf(v).earned
  <1>1. run'[v] = run[v]
    BY DEF Works, StatsTypeOK
  <1>2. PICK i \in Jobs : i = run[v].job /\ job[i].st # "absent"
    BY WorkerRuns DEF Queue, JobOf
  <1> QED BY <1>1, <1>2, JobsRemain DEF JobOf

\* A step that lets no worker past the lock, and leaves the rows and logs alone of
\* the users whose rows are locked.
LEMMA ExclusiveKept ==
  ASSUME StatsTypeOK, Exclusive, day <= day', day' \in Nat, rewritten \subseteq rewritten',
         \A v \in Workers, u \in Users : Writing(v, u)' =>
           run'[v] = run[v] /\ Writing(v, u) /\ user'[u] = user[u] /\ log'[u] = log[u]
  PROVE  Exclusive'
  <1> SUFFICES ASSUME NEW w \in Workers, NEW u \in Users, Writing(w, u)'
               PROVE  /\ run'[w].row = user'[u]
                      /\ run'[w].today <= day' + run'[w].row.timezone
                      /\ u \notin rewritten' => \A d \in Logged(u)' : d <= run'[w].today
                      /\ \A v \in Workers : Writing(v, u)' => v = w
    BY DEF Exclusive
  <1>1. run'[w] = run[w] /\ Writing(w, u)
    OBVIOUS
  <1>2. user'[u] = user[u] /\ Logged(u)' = Logged(u)
    BY DEF Logged
  <1>3. /\ run[w].row = user[u]
        /\ run[w].today <= day + run[w].row.timezone
        /\ u \notin rewritten => \A d \in Logged(u) : d <= run[w].today
        /\ \A v \in Workers : Writing(v, u) => v = w
    BY <1>1 DEF Exclusive
  <1>4. run'[w].today <= day' + run'[w].row.timezone
    <2>1. run[w] \in Run /\ run[w].pc = "commit"
      BY <1>1 DEF StatsTypeOK, Writing
    <2>2. run[w].row \in UserRow /\ run[w].today \in Days
      BY <2>1, RunTypes
    <2>3. PICK z \in Nat : z = run[w].row.timezone
      BY <2>2, RowTypes, ZonesAssumption
    <2>4. PICK t \in Nat : t = run[w].today
      BY <2>2, DayTypes
    <2>5. t <= day + z /\ day \in Nat
      BY <1>3, <2>3, <2>4 DEF StatsTypeOK
    <2>6. t <= day' + z
      <3>1. PICK a \in Nat : a = day
        BY <2>5
      <3>2. PICK b \in Nat : b = day'
        OBVIOUS
      <3>3. a <= b /\ t <= a + z
        BY <2>5, <3>1, <3>2
      <3>4. t <= b + z
        BY <3>3
      <3> QED BY <3>2, <3>4
    <2> QED BY <1>1, <2>3, <2>4, <2>6
  <1>5. \A v \in Workers : Writing(v, u)' => v = w
    BY <1>3
  <1>6. u \notin rewritten' => \A d \in Logged(u)' : d <= run'[w].today
    BY <1>1, <1>2, <1>3
  <1> QED BY <1>1, <1>2, <1>3, <1>4, <1>5, <1>6

LEMMA LockExclusive ==
  ASSUME StatsTypeOK, Queue, Exclusive, Chain, NEW w \in Workers, LockUser(w)
  PROVE  Exclusive'
  <1>1. PICK r \in Run :
           /\ Works(w, run[w].job, r, job[run[w].job])
           /\ run[w].pc = "lock" /\ r.pc = "commit"
           /\ r.row = user[JobOf(w).user] /\ r.today = day + r.row.timezone
    BY LockWorks
  <1>2. PICK j \in Jobs : j = run[w].job /\ job[j] \in Present
    BY <1>1, WorkerRuns DEF Idle
  <1>3. PICK u \in Users : u = JobOf(w).user
    BY <1>2, PresentTypes DEF JobOf
  <1>4. /\ run'[w] = r /\ \A v \in Workers \ {w} : run'[v] = run[v]
        /\ job' = job /\ UNCHANGED <<day, user, log, rewritten>>
        /\ r.job = j
    <2>1. run' = [run EXCEPT ![w] = r] /\ (r = Idle \/ r.job = j)
      BY <1>1, <1>2 DEF Works
    <2>2. r # Idle
      BY <1>1 DEF Idle
    <2> QED BY <2>1, <2>2 DEF LockUser, StatsTypeOK
  <1>5. \A v \in Workers : ~ Writing(v, u)
    BY <1>3 DEF LockUser, Locked, Doing, Writing
  <1>6. ASSUME NEW v \in Workers, NEW x \in Users
        PROVE  Writing(v, x)' <=> (v = w /\ x = u) \/ (v # w /\ Writing(v, x))
    <2>1. CASE v = w
      BY <1>1, <1>2, <1>3, <1>4, <2>1 DEF Writing, JobOf
    <2>2. CASE v # w
      BY <1>4, <2>2 DEF Writing, JobOf
    <2> QED BY <2>1, <2>2
  <1>7. r.today <= day + r.row.timezone
    <2>1. r.today \in Nat
      BY <1>1, RunTypes, DayTypes
    <2> QED BY <1>1, <2>1
  <1>8. u \notin rewritten => \A d \in Logged(u) : d <= r.today
    BY <1>1, <1>3 DEF Chain
  <1>9. \A x \in Users : Logged(x)' = Logged(x)
    BY <1>4 DEF Logged
  <1>10. ASSUME NEW v \in Workers, NEW x \in Users, Writing(v, x)'
         PROVE  /\ run'[v].row = user'[x]
                /\ run'[v].today <= day' + run'[v].row.timezone
                /\ x \notin rewritten' => \A d \in Logged(x)' : d <= run'[v].today
                /\ \A y \in Workers : Writing(y, x)' => y = v
    <2>1. CASE v = w
      <3>1. x = u /\ run'[v] = r
        BY <1>4, <1>6, <1>10, <2>1
      <3>2. \A y \in Workers : Writing(y, x)' => y = v
        BY <1>5, <1>6, <2>1, <3>1
      <3> QED BY <1>1, <1>3, <1>4, <1>7, <1>8, <1>9, <3>1, <3>2
    <2>2. CASE v # w
      <3>1. Writing(v, x) /\ run'[v] = run[v]
        BY <1>4, <1>6, <1>10, <2>2
      <3>2. /\ run[v].row = user[x]
            /\ run[v].today <= day + run[v].row.timezone
            /\ x \notin rewritten => \A d \in Logged(x) : d <= run[v].today
            /\ \A y \in Workers : Writing(y, x) => y = v
        BY <3>1 DEF Exclusive
      <3>3. \A y \in Workers : Writing(y, x)' => y = v
        BY <1>5, <1>6, <3>1, <3>2
      <3> QED BY <1>4, <1>9, <3>1, <3>2, <3>3
    <2> QED BY <2>1, <2>2
  <1> QED BY <1>10 DEF Exclusive

LEMMA ExclusiveNext ==
  ASSUME StatsTypeOK, Queue, Exclusive, Chain, [StatsNext]_statsVars
  PROVE  Exclusive'
  <1>0. day \in Nat
    BY DEF StatsTypeOK
  <1>1. ASSUME NEW w \in Workers, NEW j \in Jobs, NEW r \in Run, NEW q \in Present,
               Works(w, j, r, q), r.pc # "commit" \/ r = run[w],
               UNCHANGED <<day, user, log, rewritten>>
        PROVE  Exclusive'
    <2>1. ASSUME NEW v \in Workers, NEW u \in Users, Writing(v, u)'
          PROVE  run'[v] = run[v] /\ Writing(v, u)
      <3>0. run'[v].pc = "commit" /\ job'[run'[v].job].user = u
        BY <2>1 DEF Writing, JobOf
      <3>1. v # w \/ r = run[w]
        BY <1>1, <3>0 DEF Works, StatsTypeOK
      <3>2. run'[v] = run[v]
        BY <1>1, <3>1 DEF Works, StatsTypeOK
      <3>3. run[v] # Idle
        BY <3>0, <3>2 DEF Idle
      <3>4. job'[run[v].job].user = JobOf(v).user
        BY <1>1, <3>1, <3>3, OthersGoOn
      <3> QED BY <3>0, <3>2, <3>4 DEF Writing
    <2> QED BY <1>0, <1>1, <2>1, ExclusiveKept
  <1>2. ASSUME NEW w \in Workers, Commit(w) PROVE Exclusive'
    <2>1. PICK r \in Run :
           /\ Works(w, run[w].job, r, job[run[w].job])
           /\ run[w].pc = "commit"
           /\ r.pc = IF JobOf(w).earned > 0 THEN "board" ELSE "finish"
      BY <1>2, CommitWorks
    <2>2. PICK u \in Users : u = JobOf(w).user
      BY <1>2, CommitWrites
    <2>3. /\ \A v \in Users \ {u} : user'[v] = user[v] /\ log'[v] = log[v]
          /\ UNCHANGED <<day, rewritten, job>>
      BY <1>2, <2>2, CommitWrites DEF StatsTypeOK
    <2>4. ASSUME NEW v \in Workers, NEW x \in Users, Writing(v, x)'
          PROVE  run'[v] = run[v] /\ Writing(v, x) /\ user'[x] = user[x] /\ log'[x] = log[x]
      <3>1. v # w
        BY <2>1, <2>4 DEF Works, StatsTypeOK, Writing
      <3>2. run'[v] = run[v]
        BY <2>1, <3>1 DEF Works, StatsTypeOK
      <3>3. Writing(v, x)
        BY <2>3, <2>4, <3>2 DEF Writing, JobOf
      <3>4. x # u
        <4>1. Writing(w, u)
          BY <2>1, <2>2 DEF Writing
        <4> QED BY <3>1, <3>3, <4>1 DEF Exclusive
      <3> QED BY <2>3, <3>2, <3>3, <3>4
    <2> QED BY <1>0, <2>3, <2>4, ExclusiveKept
  <1>3. ASSUME NEW u \in Users, ProfileWrite(u) PROVE Exclusive'
    <2>1. /\ \A v \in Users \ {u} : user'[v] = user[v]
          /\ rewritten \subseteq rewritten' /\ ~ Locked(u)
          /\ UNCHANGED <<day, log, job, run>>
      BY <1>3, ProfileWrites
    <2>2. ASSUME NEW v \in Workers, NEW x \in Users, Writing(v, x)'
          PROVE  Writing(v, x) /\ user'[x] = user[x]
      <3>1. Writing(v, x)
        BY <2>1, <2>2 DEF Writing, JobOf
      <3>2. x # u
        BY <2>1, <3>1 DEF Locked, Doing, Writing
      <3> QED BY <2>1, <3>1, <3>2
    <2> QED BY <1>0, <2>1, <2>2, ExclusiveKept
  <1>4. ASSUME UNCHANGED <<job, run, user, log, rewritten>>, day <= day', day' \in Nat
        PROVE  Exclusive'
    <2>1. \A v \in Workers, u \in Users : Writing(v, u)' => Writing(v, u)
      BY <1>4 DEF Writing, JobOf
    <2> QED BY <1>4, <2>1, ExclusiveKept
  <1>5. ASSUME NEW j \in Jobs, NEW u \in Users, NEW e \in Earnings, Enqueue(j, u, e)
        PROVE  Exclusive'
    <2>1. /\ \A i \in Jobs \ {j} : job'[i] = job[i]
          /\ job[j].st = "absent" /\ UNCHANGED <<run, day, user, log, rewritten>>
      BY <1>5 DEF Enqueue, StatsTypeOK
    <2>2. ASSUME NEW v \in Workers, NEW x \in Users, Writing(v, x)'
          PROVE  Writing(v, x)
      <3>1. run[v] # Idle
        BY <2>1, <2>2 DEF Idle, Writing
      <3>2. run[v].job \in Jobs /\ run[v].job # j
        BY <2>1, <3>1, WorkerRuns, PresentTypes
      <3> QED BY <2>1, <2>2, <3>2 DEF Writing, JobOf
    <2> QED BY <1>0, <2>1, <2>2, ExclusiveKept
  <1>6. ASSUME NEW w \in Workers, NEW j \in Jobs, Take(w, j) PROVE Exclusive'
    <2>1. PICK r \in Run, q \in Present : Works(w, j, r, q) /\ r.pc = "lock"
      BY <1>6, TakeWorks
    <2>2. UNCHANGED <<day, user, log, rewritten>>
      BY <1>6 DEF Take
    <2> QED BY <1>1, <2>1, <2>2
  <1>7. ASSUME NEW w \in Workers, Board(w) PROVE Exclusive'
    <2>1. PICK r \in Run : Works(w, run[w].job, r, job[run[w].job]) /\ run[w].pc = "board" /\ r.pc = "finish"
      BY <1>7, BoardWorks
    <2>2. run[w].job \in Jobs /\ job[run[w].job] \in Present
      BY <2>1, WorkerRuns DEF Idle
    <2>3. UNCHANGED <<day, user, log, rewritten>>
      BY <1>7 DEF Board
    <2> QED BY <1>1, <2>1, <2>2, <2>3
  <1>8. ASSUME NEW w \in Workers, Rollback(w) \/ Finish(w) PROVE Exclusive'
    <2>1. run[w] # Idle
      BY <1>8 DEF Rollback, Finish, Doing, Idle
    <2>2. PICK result \in {"done", "failed"} : EndRun(w, result)
      BY <1>8 DEF Rollback, Finish
    <2>3. PICK q \in Present : Works(w, run[w].job, Idle, q)
      BY <2>1, <2>2, EndWorks
    <2>4. run[w].job \in Jobs /\ Idle \in Run /\ Idle.pc # "commit"
      BY <2>1, WorkerRuns DEF Run, Idle
    <2>5. UNCHANGED <<day, user, log, rewritten>>
      BY <1>8 DEF Rollback, Finish
    <2> QED BY <1>1, <2>3, <2>4, <2>5
  <1>9. ASSUME NEW w \in Workers, Crash(w) \/ Stall(w) PROVE Exclusive'
    <2>1. run[w] # Idle
      BY <1>9, LostWorks
    <2>2. PICK r \in {Idle, run[w]}, q \in Present : Works(w, run[w].job, r, q)
      BY <1>9, LostWorks
    <2>3. run[w].job \in Jobs /\ r \in Run /\ (r.pc # "commit" \/ r = run[w])
      BY <2>1, WorkerRuns DEF Run, Idle
    <2>4. UNCHANGED <<day, user, log, rewritten>>
      BY <1>9 DEF Crash, Stall
    <2> QED BY <1>1, <2>2, <2>3, <2>4
  <1>10. ASSUME NEW u \in Users,
                (\E zone \in Zones : ProfileRead(u, zone)) \/ ProfileFail(u) \/ ProfileCompare(u)
         PROVE  UNCHANGED <<job, run, user, log, rewritten, day>>
    BY <1>10 DEF ProfileRead, ProfileFail, ProfileCompare
  <1>11. CASE NewDay
    <2>1. UNCHANGED <<job, run, user, log, rewritten>> /\ day <= day' /\ day' \in Nat
      BY <1>0, <1>11 DEF NewDay
    <2> QED BY <1>4, <2>1
  <1>12. ASSUME UNCHANGED <<job, run, user, log, rewritten, day>> PROVE Exclusive'
    BY <1>0, <1>4, <1>12
  <1>13. CASE UNCHANGED statsVars
    BY <1>12, <1>13 DEF statsVars
  <1> QED BY <1>2, <1>3, <1>5, <1>6, <1>7, <1>8, <1>9, <1>10, <1>11, <1>12, <1>13, LockExclusive
          DEF StatsNext, Work

(***************************************************************************)
(* UserStats: the streaks.                                                 *)
(***************************************************************************)

\* A day after the last one, or the last one again, ends a run of n days: the
\* longest run is the longer of n and what it was.
LEMMA LongestIs ==
  ASSUME NEW days \in SUBSET Days, NEW t \in Days, \A d \in days : d <= t,
         NEW n \in Nat, NEW long \in Nat,
         (t - n + 1)..t \subseteq days \cup {t}, t - n \notin days \cup {t},
         \E d \in Days : (d - long + 1)..d \subseteq days,
         \A d \in Days : ~ ((d - long)..d \subseteq days),
         NEW m \in Nat, m = IF n > long THEN n ELSE long
  PROVE  /\ \E d \in Days : (d - m + 1)..d \subseteq days \cup {t}
         /\ \A d \in Days : ~ ((d - m)..d \subseteq days \cup {t})
  <1>0. Days \subseteq Nat
    BY DayTypes
  <1>1. \E d \in Days : (d - m + 1)..d \subseteq days \cup {t}
    <2>1. CASE m = n
      BY <2>1
    <2>2. CASE m = long
      <3>1. PICK d \in Days : (d - long + 1)..d \subseteq days
        OBVIOUS
      <3> QED BY <2>2, <3>1
    <2> QED BY <2>1, <2>2
  <1>2. ASSUME NEW d \in Days, (d - m)..d \subseteq days \cup {t} PROVE FALSE
    <2>0. d \in Nat /\ t \in Nat /\ m >= n /\ m >= long
      BY <1>0
    <2>1. d \in (d - m)..d
      BY <2>0
    <2>2. d <= t
      BY <1>0, <1>2, <2>0, <2>1
    <2>3. CASE d = t
      <3>1. t - n \in (t - m)..t
        BY <2>0
      <3> QED BY <1>2, <2>3, <3>1
    <2>4. CASE d < t
      <3>1. ASSUME NEW x \in (d - long)..d PROVE x \in days
        <4>1. x \in (d - m)..d /\ x # t
          BY <2>0, <2>4
        <4> QED BY <1>2, <4>1
      <3> QED BY <3>1
    <2> QED BY <2>0, <2>2, <2>3, <2>4
  <1> QED BY <1>1, <1>2

\* What the transaction makes of a row that agrees with the log.
LEMMA StreakGoesOn ==
  ASSUME NEW row \in UserRow, NEW days \in SUBSET Days, NEW t \in Days, \A d \in days : d <= t,
         (days = {} /\ Unstudied(row)) \/ (\E l \in Days : Chained(row, days, l)),
         NEW new \in UserRow,
         new.lastStudyDate = t, new.currentStreak = Streak(row, t),
         new.longestStreak =
           IF Streak(row, t) > row.longestStreak THEN Streak(row, t) ELSE row.longestStreak
  PROVE  Chained(new, days \cup {t}, t)
  <1>0. /\ t \in Nat /\ Days \subseteq Nat /\ Null \notin Nat
    BY DayTypes, NobodyIsNull
  <1>1. PICK long \in Nat : long = row.longestStreak
    BY RowTypes
  <1>2. PICK n \in Nat : n = Streak(row, t)
    BY StreakTypes
  <1>3. PICK m \in Nat : m = new.longestStreak
    BY RowTypes
  <1>4. m = IF n > long THEN n ELSE long
    BY <1>1, <1>2, <1>3
  <1>5. new.currentStreak = n /\ n <= m
    BY <1>2, <1>4
  <1>6. /\ (t - n + 1)..t \subseteq days \cup {t} /\ t - n \notin days \cup {t}
        /\ \E d \in Days : (d - long + 1)..d \subseteq days
        /\ \A d \in Days : ~ ((d - long)..d \subseteq days)
    <2>1. CASE days = {} /\ Unstudied(row)
      <3>1. n = 1 /\ long = 0
        <4>1. row.lastStudyDate = Null /\ row.longestStreak = 0 /\ t # Null
          BY <1>0, <2>1 DEF Unstudied
        <4>2. Streak(row, t) = 1
          BY <4>1 DEF Streak
        <4> QED BY <1>1, <1>2, <4>1, <4>2
      <3>2. (t - 1 + 1)..t = {t} /\ t - 1 # t
        BY <1>0
      <3>3. (t - 0 + 1)..t = {}
        BY <1>0
      <3>4. ASSUME NEW d \in Days PROVE ~ ((d - 0)..d \subseteq days)
        <4>1. d \in (d - 0)..d
          BY <1>0
        <4> QED BY <2>1, <4>1
      <3> QED BY <2>1, <3>1, <3>2, <3>3, <3>4
    <2>2. ASSUME NEW l \in Days, Chained(row, days, l)
          PROVE  /\ (t - n + 1)..t \subseteq days \cup {t} /\ t - n \notin days \cup {t}
                 /\ \E d \in Days : (d - long + 1)..d \subseteq days
                 /\ \A d \in Days : ~ ((d - long)..d \subseteq days)
      <3>1. PICK c \in Nat : c = row.currentStreak
        BY RowTypes
      <3>2. /\ l \in days /\ \A d \in days : d <= l
            /\ row.lastStudyDate = l
            /\ (l - c + 1)..l \subseteq days
            /\ l - c \notin days
            /\ \E d \in Days : (d - long + 1)..d \subseteq days
            /\ \A d \in Days : ~ ((d - long)..d \subseteq days)
        BY <1>1, <2>2, <3>1 DEF Chained
      <3>3. l \in Nat /\ l <= t /\ row.lastStudyDate # Null
        BY <1>0, <3>2
      <3>4. c # 0
        BY <3>2, <3>3
      <3>5. CASE l = t
        <4>1. n = c
          BY <1>2, <3>1, <3>2, <3>3, <3>5 DEF Streak
        <4>2. t \in days
          BY <3>2, <3>5
        <4> QED BY <3>2, <3>5, <4>1, <4>2
      <3>6. CASE l = t - 1
        <4>1. t - l = 1 /\ l # t
          BY <1>0, <3>3, <3>6
        <4>2. n = c + 1
          BY <1>2, <3>1, <3>2, <3>3, <4>1 DEF Streak, Abs
        <4>3. ASSUME NEW x \in (t - n + 1)..t PROVE x \in days \cup {t}
          <5>1. CASE x = t
            BY <5>1
          <5>2. CASE x # t
            <6>1. x \in (l - c + 1)..l
              BY <1>0, <3>3, <3>6, <4>2, <5>2
            <6> QED BY <3>2, <6>1
          <5> QED BY <5>1, <5>2
        <4>4. t - n = l - c /\ t - n # t
          BY <1>0, <3>3, <3>6, <4>2
        <4> QED BY <3>2, <4>3, <4>4
      <3>7. CASE l < t - 1
        <4>1. t - l > 1 /\ l # t
          BY <1>0, <3>3, <3>7
        <4>2. n = 1
          BY <1>0, <1>2, <3>2, <3>3, <4>1 DEF Streak, Abs
        <4>3. (t - 1 + 1)..t = {t} /\ t - 1 # t
          BY <1>0
        <4>4. t - 1 \notin days
          BY <1>0, <3>2, <3>3, <3>7
        <4> QED BY <3>2, <4>2, <4>3, <4>4
      <3> QED BY <1>0, <3>3, <3>5, <3>6, <3>7
    <2> QED BY <2>1, <2>2
  <1>7. /\ \E d \in Days : (d - m + 1)..d \subseteq days \cup {t}
        /\ \A d \in Days : ~ ((d - m)..d \subseteq days \cup {t})
    BY <1>4, <1>6, LongestIs
  <1>8. t \in days \cup {t} /\ \A d \in days \cup {t} : d <= t
    BY <1>0
  <1> QED BY <1>3, <1>5, <1>6, <1>7, <1>8 DEF Chained

\* A step that leaves the log alone, and the rows no profile update wrote.
LEMMA ChainKept ==
  ASSUME StatsTypeOK, Chain, day <= day', day' \in Nat, log' = log,
         \A u \in Users \ rewritten' : u \notin rewritten /\ user'[u] = user[u]
  PROVE  Chain'
  <1> SUFFICES ASSUME NEW u \in Users \ rewritten'
               PROVE  /\ \A d \in Logged(u)' : d <= day' + user'[u].timezone
                      /\ IF Logged(u)' = {} THEN Unstudied(user'[u])
                         ELSE \E l \in Days : Chained(user'[u], Logged(u)', l)
    BY DEF Chain
  <1>1. Logged(u)' = Logged(u) /\ user'[u] = user[u]
    BY DEF Logged
  <1>2. /\ \A d \in Logged(u) : d <= day + user[u].timezone
        /\ IF Logged(u) = {} THEN Unstudied(user[u])
           ELSE \E l \in Days : Chained(user[u], Logged(u), l)
    BY DEF Chain
  <1>3. PICK z \in Nat : z = user[u].timezone
    BY RowTypes, ZonesAssumption DEF StatsTypeOK
  <1>4. ASSUME NEW d \in Logged(u) PROVE d <= day' + z
    <2>1. d \in Nat
      BY DayTypes DEF Logged
    <2>2. PICK a \in Nat : a = day
      BY DEF StatsTypeOK
    <2>3. PICK b \in Nat : b = day'
      OBVIOUS
    <2>4. a <= b /\ d <= a + z
      BY <1>2, <1>3, <2>2, <2>3
    <2>5. d <= b + z
      BY <2>1, <2>4
    <2> QED BY <2>3, <2>5
  <1> QED BY <1>1, <1>2, <1>3, <1>4

LEMMA CommitChain ==
  ASSUME StatsTypeOK, Queue, Exclusive, Chain, NEW w \in Workers, Commit(w)
  PROVE  Chain'
  <1>1. PICK u \in Users : u = JobOf(w).user
    BY CommitWrites
  <1>2. PICK e \in Nat : e = JobOf(w).earned
    BY CommitWrites
  <1>3. PICK t \in Days : t = run[w].today
    BY CommitWrites
  <1>4. PICK row \in UserRow : row = run[w].row
    BY CommitWrites
  <1>5. PICK new \in UserRow : new = Counted(row, t, run[w].job)
    BY <1>3, <1>4, CommitWrites
  <1>6. /\ user' = [user EXCEPT ![u] = new]
        /\ \A v \in Users \ {u} : log'[v] = log[v]
        /\ \A d \in Days \ {t} : log'[u][d] = log[u][d]
        /\ log'[u][t] = (IF log[u][t] = Null THEN 0 ELSE log[u][t]) + e
        /\ UNCHANGED <<day, board, job, profile, rewritten>>
    BY <1>1, <1>2, <1>3, <1>4, <1>5, CommitWrites
  <1>7. /\ row = user[u]
        /\ t <= day + row.timezone
        /\ u \notin rewritten => \A d \in Logged(u) : d <= t
    <2>1. Writing(w, u)
      BY <1>1 DEF Commit, Doing, Writing
    <2> QED BY <1>3, <1>4, <2>1 DEF Exclusive
  <1>8. /\ new.timezone = row.timezone /\ new.lastStudyDate = t
        /\ new.currentStreak = Streak(row, t)
        /\ new.longestStreak =
             IF Streak(row, t) > row.longestStreak THEN Streak(row, t) ELSE row.longestStreak
    BY <1>2, <1>5, CountedIs DEF JobOf
  <1>9. Logged(u)' = Logged(u) \cup {t}
    <2>1. log'[u][t] # Null
      <3>1. (IF log[u][t] = Null THEN 0 ELSE log[u][t]) \in Nat
        BY DEF StatsTypeOK
      <3> QED BY <1>6, <3>1, NobodyIsNull
    <2> QED BY <1>6, <2>1 DEF Logged
  <1>10. ASSUME NEW v \in Users \ rewritten'
         PROVE  /\ \A d \in Logged(v)' : d <= day' + user'[v].timezone
                /\ IF Logged(v)' = {} THEN Unstudied(user'[v])
                   ELSE \E l \in Days : Chained(user'[v], Logged(v)', l)
    <2>0. /\ \A d \in Logged(v) : d <= day + user[v].timezone
          /\ IF Logged(v) = {} THEN Unstudied(user[v])
             ELSE \E l \in Days : Chained(user[v], Logged(v), l)
      BY <1>6 DEF Chain
    <2>1. CASE v = u
      <3>1. user'[v] = new
        BY <1>6, <2>1 DEF StatsTypeOK
      <3>2. \A d \in Logged(u) : d <= t
        BY <1>6, <1>7, <2>1
      <3>3. Logged(u) \in SUBSET Days
        BY DEF Logged
      <3>4. (Logged(u) = {} /\ Unstudied(row)) \/ (\E l \in Days : Chained(row, Logged(u), l))
        BY <1>7, <2>0, <2>1
      <3>5. Chained(new, Logged(u) \cup {t}, t)
        BY <1>8, <3>2, <3>3, <3>4, StreakGoesOn
      <3>6. \A d \in Logged(u) \cup {t} : d <= day + new.timezone
        BY <1>7, <1>8, <2>0, <2>1
      <3>7. Logged(v)' = Logged(u) \cup {t} /\ day' = day
        BY <1>6, <1>9, <2>1
      <3> QED BY <3>1, <3>5, <3>6, <3>7
    <2>2. CASE v # u
      <3>1. user'[v] = user[v] /\ day' = day /\ log'[v] = log[v]
        BY <1>6, <2>2 DEF StatsTypeOK
      <3>2. Logged(v)' = Logged(v)
        BY <3>1 DEF Logged
      <3> QED BY <2>0, <3>1, <3>2
    <2> QED BY <2>1, <2>2
  <1> QED BY <1>10 DEF Chain

LEMMA ChainNext ==
  ASSUME StatsTypeOK, Queue, Exclusive, Chain, [StatsNext]_statsVars
  PROVE  Chain'
  <1>0. day \in Nat
    BY DEF StatsTypeOK
  <1>1. ASSUME UNCHANGED <<day, user, log, rewritten>> PROVE Chain'
    BY <1>0, <1>1, ChainKept
  <1>2. ASSUME NEW u \in Users, ProfileWrite(u) PROVE Chain'
    <2>1. /\ \A v \in Users \ {u} : user'[v] = user[v]
          /\ profile[u].write = {} => user' = user
          /\ rewritten' = IF profile[u].write = {} THEN rewritten ELSE rewritten \cup {u}
          /\ UNCHANGED <<day, log>>
      BY <1>2, ProfileWrites
    <2>2. \A v \in Users \ rewritten' : v \notin rewritten /\ user'[v] = user[v]
      BY <2>1
    <2> QED BY <1>0, <2>1, <2>2, ChainKept
  <1>3. CASE NewDay
    <2>1. UNCHANGED <<user, log, rewritten>> /\ day <= day' /\ day' \in Nat
      BY <1>0, <1>3 DEF NewDay
    <2> QED BY <2>1, ChainKept
  <1>4. ASSUME NEW j \in Jobs, NEW u \in Users, NEW e \in Earnings, Enqueue(j, u, e)
        PROVE  UNCHANGED <<day, user, log, rewritten>>
    BY <1>4 DEF Enqueue
  <1>5. ASSUME NEW w \in Workers,
               (\E j \in Jobs : Take(w, j)) \/ LockUser(w) \/ Board(w) \/ Finish(w) \/ Rollback(w)
                 \/ Crash(w) \/ Stall(w)
        PROVE  UNCHANGED <<day, user, log, rewritten>>
    BY <1>5 DEF Take, LockUser, Board, Finish, Rollback, Crash, Stall
  <1>6. ASSUME NEW u \in Users,
               (\E zone \in Zones : ProfileRead(u, zone)) \/ ProfileFail(u) \/ ProfileCompare(u)
        PROVE  UNCHANGED <<day, user, log, rewritten>>
    BY <1>6 DEF ProfileRead, ProfileFail, ProfileCompare
  <1>7. CASE UNCHANGED statsVars
    BY <1>1, <1>7 DEF statsVars
  <1> QED BY <1>1, <1>2, <1>3, <1>4, <1>5, <1>6, <1>7, CommitChain DEF StatsNext, Work

(***************************************************************************)
(* UserStats: the minutes.                                                 *)
(***************************************************************************)

LEMMA AmountTypes ==
  ASSUME StatsTypeOK, Queue, NEW u \in Users
  PROVE  /\ Heatmap(u) \in [Days -> Nat]
         /\ Pending(u) \in [Workers -> Nat]
         /\ Owed(u) \in [Workers -> Nat]
         /\ Settled(u) \in [Jobs -> Nat]
         /\ Done(u) \in [Jobs -> Nat]
         /\ Ran(u) \in [Jobs -> Nat]
  <1>1. Heatmap(u) \in [Days -> Nat]
    <2>1. ASSUME NEW d \in Days PROVE (IF log[u][d] = Null THEN 0 ELSE log[u][d]) \in Nat
      BY DEF StatsTypeOK
    <2> QED BY <2>1 DEF Heatmap
  <1>2. ASSUME NEW w \in Workers, run[w].pc \in {"lock", "commit", "board"} PROVE JobOf(w).earned \in Nat
    <2>1. run[w] # Idle
      BY <1>2 DEF Idle
    <2> QED BY <2>1, WorkerRuns, PresentTypes DEF JobOf
  <1>3. Pending(u) \in [Workers -> Nat] /\ Owed(u) \in [Workers -> Nat]
    BY <1>2 DEF Pending, Owed
  <1>4. ASSUME NEW j \in Jobs, job[j].st # "absent"
        PROVE  job[j].earned \in Nat /\ job[j].runs * job[j].earned \in Nat
    <2>1. PICK e \in Nat : e = job[j].earned
      BY <1>4, AddedJobs, PresentTypes
    <2>2. job[j].runs = 0 \/ job[j].runs = 1 \/ job[j].runs = 2
      BY <1>4, AddedJobs, PresentTypes
    <2>3. 0 * e \in Nat /\ 1 * e \in Nat /\ 2 * e \in Nat
      OBVIOUS
    <2> QED BY <2>1, <2>2, <2>3
  <1>5. Done(u) \in [Jobs -> Nat] /\ Ran(u) \in [Jobs -> Nat]
    BY <1>4 DEF Done, Ran
  <1>6. Settled(u) \in [Jobs -> Nat]
    BY <1>4 DEF Settled, Sure
  <1> QED BY <1>1, <1>3, <1>5, <1>6

\* Of the worker's minutes, what a step adds to those pending and owed.
LEMMA WorkersMove ==
  ASSUME StatsTypeOK, Queue, NEW w \in Workers, NEW j \in Jobs, NEW r \in Run, NEW q \in Present,
         Works(w, j, r, q), NEW u \in Users,
         IsFiniteSet(Units(Pending(u))), IsFiniteSet(Units(Owed(u))),
         NEW e \in Nat, e = IF job[j].user = u THEN job[j].earned ELSE 0
  PROVE  /\ IsFiniteSet(Units(Pending(u))') /\ IsFiniteSet(Units(Owed(u))')
         /\ Total(Pending(u)) \in Nat /\ Total(Pending(u))' \in Nat
         /\ Total(Owed(u)) \in Nat /\ Total(Owed(u))' \in Nat
         /\ Total(Pending(u))' = Total(Pending(u))
              + ((IF r.pc \in {"lock", "commit"} THEN e ELSE 0)
                  - (IF run[w].pc \in {"lock", "commit"} THEN e ELSE 0))
         /\ Total(Owed(u))' = Total(Owed(u))
              + ((IF r.pc = "board" THEN e ELSE 0) - (IF run[w].pc = "board" THEN e ELSE 0))
  <1>1. PICK p : p = Pending(u)
    OBVIOUS
  <1>2. PICK p2 : p2 = Pending(u)'
    OBVIOUS
  <1>3. PICK o : o = Owed(u)
    OBVIOUS
  <1>4. PICK o2 : o2 = Owed(u)'
    OBVIOUS
  <1>5. p \in [Workers -> Nat] /\ o \in [Workers -> Nat]
    BY <1>1, <1>3, AmountTypes
  <1>6. ASSUME NEW v \in Workers, v # w PROVE p2[v] = p[v] /\ o2[v] = o[v]
    <2>1. run'[v] = run[v]
      BY <1>6 DEF Works, StatsTypeOK
    <2>2. CASE run[v] = Idle
      BY <1>1, <1>2, <1>3, <1>4, <2>1, <2>2 DEF Pending, Owed, Idle
    <2>3. CASE run[v] # Idle
      <3>1. job'[run[v].job].user = JobOf(v).user /\ job'[run[v].job].earned = JobOf(v).earned
        BY <1>6, <2>3, OthersGoOn
      <3> QED BY <1>1, <1>2, <1>3, <1>4, <2>1, <3>1 DEF Pending, Owed, JobOf
    <2> QED BY <2>2, <2>3
  <1>7. /\ run'[w] = r /\ job'[j] = q
        /\ q.user = job[j].user /\ q.earned = job[j].earned
        /\ run[w].pc # "idle" => run[w].job = j
        /\ r.pc # "idle" => r.job = j
    BY DEF Works, StatsTypeOK, Idle
  <1>8. /\ p[w] = IF run[w].pc \in {"lock", "commit"} THEN e ELSE 0
        /\ o[w] = IF run[w].pc = "board" THEN e ELSE 0
    BY <1>1, <1>3, <1>7 DEF Pending, Owed, JobOf
  <1>9. /\ p2[w] = IF r.pc \in {"lock", "commit"} THEN e ELSE 0
        /\ o2[w] = IF r.pc = "board" THEN e ELSE 0
    BY <1>2, <1>4, <1>7 DEF Pending, Owed, JobOf
  <1>10. p2 \in [Workers -> Nat] /\ o2 \in [Workers -> Nat]
    <2>1. \A v \in Workers : p2[v] \in Nat /\ o2[v] \in Nat
      BY <1>5, <1>6, <1>9
    <2>2. p2 = [v \in Workers |-> p2[v]] /\ o2 = [v \in Workers |-> o2[v]]
      BY <1>2, <1>4 DEF Pending, Owed
    <2> QED BY <2>1, <2>2
  <1>11. /\ IsFiniteSet(Units(p2)) /\ Total(p) \in Nat /\ Total(p2) \in Nat
         /\ Total(p2) = Total(p) + (p2[w] - p[w])
    <2>1. IsFiniteSet(Units(p)) /\ \A v \in Workers \ {w} : p2[v] = p[v]
      BY <1>1, <1>6
    <2> QED BY <1>5, <1>10, <2>1, TotalMoves
  <1>12. /\ IsFiniteSet(Units(o2)) /\ Total(o) \in Nat /\ Total(o2) \in Nat
         /\ Total(o2) = Total(o) + (o2[w] - o[w])
    <2>1. IsFiniteSet(Units(o)) /\ \A v \in Workers \ {w} : o2[v] = o[v]
      BY <1>3, <1>6
    <2> QED BY <1>5, <1>10, <2>1, TotalMoves
  <1>13. Total(Pending(u))' = Total(p2) /\ Units(Pending(u))' = Units(p2)
    BY <1>2 DEF Total, Units
  <1>14. Total(Owed(u))' = Total(o2) /\ Units(Owed(u))' = Units(o2)
    BY <1>4 DEF Total, Units
  <1> QED BY <1>1, <1>3, <1>8, <1>9, <1>11, <1>12, <1>13, <1>14

\* Of the job's minutes, what a step adds to those run and settled.
LEMMA JobsMove ==
  ASSUME StatsTypeOK, Queue, NEW w \in Workers, NEW j \in Jobs, NEW r \in Run, NEW q \in Present,
         Works(w, j, r, q), NEW u \in Users,
         IsFiniteSet(Units(Ran(u))), IsFiniteSet(Units(Settled(u))),
         NEW e \in Nat, e = IF job[j].user = u THEN job[j].earned ELSE 0
  PROVE  /\ IsFiniteSet(Units(Ran(u))') /\ IsFiniteSet(Units(Settled(u))')
         /\ Total(Ran(u)) \in Nat /\ Total(Ran(u))' \in Nat
         /\ Total(Settled(u)) \in Nat /\ Total(Settled(u))' \in Nat
         /\ Total(Ran(u))' = Total(Ran(u)) + (q.runs * e - job[j].runs * e)
         /\ Total(Settled(u))' = Total(Settled(u))
              + ((IF Sure(j)' THEN e ELSE 0) - (IF Sure(j) THEN e ELSE 0))
  <1>1. PICK n : n = Ran(u)
    OBVIOUS
  <1>2. PICK n2 : n2 = Ran(u)'
    OBVIOUS
  <1>3. PICK s : s = Settled(u)
    OBVIOUS
  <1>4. PICK s2 : s2 = Settled(u)'
    OBVIOUS
  <1>5. n \in [Jobs -> Nat] /\ s \in [Jobs -> Nat]
    BY <1>1, <1>3, AmountTypes
  <1>6. ASSUME NEW i \in Jobs, i # j PROVE n2[i] = n[i] /\ s2[i] = s[i]
    <2>1. job'[i] = job[i]
      BY <1>6 DEF Works, StatsTypeOK
    <2>2. n2[i] = n[i]
      BY <1>1, <1>2, <2>1 DEF Ran
    <2>3. Sure(i)' <=> Sure(i)
      <3>1. CASE job[i].st = "active"
        <4>1. job[i].by \in Workers /\ run[job[i].by] # Idle /\ run[job[i].by].job = i
          <5>1. job[i].by # Null /\ job[i].by \in Workers \cup {Null}
            BY <3>1, AddedJobs, PresentTypes DEF Queue
          <5> QED BY <3>1, <5>1 DEF Queue
        <4>2. job[i].by # w
          BY <1>6, <4>1 DEF Works
        <4>3. run'[job[i].by] = run[job[i].by]
          BY <4>1, <4>2 DEF Works, StatsTypeOK
        <4> QED BY <2>1, <4>3 DEF Sure
      <3>2. CASE job[i].st # "active"
        BY <2>1, <3>2 DEF Sure
      <3> QED BY <3>1, <3>2
    <2>4. s2[i] = s[i]
      BY <1>3, <1>4, <2>1, <2>3 DEF Settled
    <2> QED BY <2>2, <2>4
  <1>7. /\ job'[j] = q /\ q.st # "absent" /\ job[j].st # "absent"
        /\ q.user = job[j].user /\ q.earned = job[j].earned
        /\ q.runs \in 0..2 /\ job[j].runs \in 0..2
    BY PresentTypes DEF Works, StatsTypeOK
  <1>8. s[j] = IF Sure(j) THEN e ELSE 0
    BY <1>3, <1>7 DEF Settled
  <1>9. s2[j] = IF Sure(j)' THEN e ELSE 0
    BY <1>4, <1>7 DEF Settled
  <1>10. /\ n[j] = IF job[j].user = u THEN job[j].runs * job[j].earned ELSE 0
         /\ n2[j] = IF job[j].user = u THEN q.runs * job[j].earned ELSE 0
    BY <1>1, <1>2, <1>7 DEF Ran
  <1>11. n[j] = job[j].runs * e /\ n2[j] = q.runs * e
    <2>1. CASE job[j].user = u
      BY <1>10, <2>1
    <2>2. CASE job[j].user # u
      <3>1. q.runs * 0 = 0 /\ job[j].runs * 0 = 0
        BY <1>7
      <3> QED BY <1>10, <2>2, <3>1
    <2> QED BY <2>1, <2>2
  <1>12. n2 \in [Jobs -> Nat] /\ s2 \in [Jobs -> Nat]
    <2>1. n2[j] \in Nat
      <3>1. q.runs = 0 \/ q.runs = 1 \/ q.runs = 2
        BY <1>7
      <3>2. 0 * e \in Nat /\ 1 * e \in Nat /\ 2 * e \in Nat
        OBVIOUS
      <3> QED BY <1>11, <3>1, <3>2
    <2>2. \A i \in Jobs : n2[i] \in Nat /\ s2[i] \in Nat
      BY <1>5, <1>6, <1>9, <2>1
    <2>3. n2 = [i \in Jobs |-> n2[i]] /\ s2 = [i \in Jobs |-> s2[i]]
      BY <1>2, <1>4 DEF Ran, Settled
    <2> QED BY <2>2, <2>3
  <1>13. /\ IsFiniteSet(Units(n2)) /\ Total(n) \in Nat /\ Total(n2) \in Nat
         /\ Total(n2) = Total(n) + (n2[j] - n[j])
    <2>1. IsFiniteSet(Units(n)) /\ \A i \in Jobs \ {j} : n2[i] = n[i]
      BY <1>1, <1>6
    <2> QED BY <1>5, <1>12, <2>1, TotalMoves
  <1>14. /\ IsFiniteSet(Units(s2)) /\ Total(s) \in Nat /\ Total(s2) \in Nat
         /\ Total(s2) = Total(s) + (s2[j] - s[j])
    <2>1. IsFiniteSet(Units(s)) /\ \A i \in Jobs \ {j} : s2[i] = s[i]
      BY <1>3, <1>6
    <2> QED BY <1>5, <1>12, <2>1, TotalMoves
  <1>15. Total(Ran(u))' = Total(n2) /\ Units(Ran(u))' = Units(n2)
    BY <1>2 DEF Total, Units
  <1>16. Total(Settled(u))' = Total(s2) /\ Units(Settled(u))' = Units(s2)
    BY <1>4 DEF Total, Units
  <1> QED BY <1>1, <1>3, <1>8, <1>9, <1>11, <1>13, <1>14, <1>15, <1>16

\* What Accounted says of the numbers.
LEMMA Balance ==
  ASSUME StatsTypeOK, Queue, NEW u \in Users, Accounted(u)
  PROVE  /\ Total(Heatmap(u)) \in Nat /\ board["overall"][u] \in Nat
         /\ Total(Heatmap(u)) + Total(Pending(u)) <= Total(Ran(u))
         /\ board["overall"][u] + Total(Owed(u)) <= Total(Heatmap(u))
         /\ Total(Settled(u)) <= Total(Heatmap(u))
         /\ u \notin rewritten => user[u].totalFocusMinutes = Total(Heatmap(u))
  <1>1. Total(Heatmap(u)) \in Nat
    BY FS_CardinalityType DEF Accounted, Total
  <1>2. board["overall"][u] \in Nat
    BY DEF StatsTypeOK, Boards
  <1> QED BY <1>1, <1>2 DEF Accounted, LoggedMinutes

\* The minutes of a worker's job that are the user's.
LEMMA Minutes ==
  ASSUME NEW j \in Jobs, job[j] \in Present, NEW u
  PROVE  \E e \in Nat : e = IF job[j].user = u THEN job[j].earned ELSE 0
  BY PresentTypes

LEMMA SureIs ==
  ASSUME StatsTypeOK, Queue, NEW w \in Workers, NEW j \in Jobs, NEW r \in Run, NEW q \in Present,
         Works(w, j, r, q), q.st = "active" => q.by # Null
  PROVE  Sure(j)' <=> \/ q.st = "done"
                      \/ /\ q.st = "active"
                         /\ (IF q.by = w THEN r.pc ELSE run[q.by].pc) \in {"board", "finish"}
  <1>1. job'[j] = q /\ run'[w] = r /\ \A v \in Workers \ {w} : run'[v] = run[v]
    BY DEF Works, StatsTypeOK
  <1>2. q.st = "active" => q.by \in Workers
    BY PresentTypes
  <1> QED BY <1>1, <1>2 DEF Sure

\* A step that logs nothing.
LEMMA AccountedKept ==
  ASSUME StatsTypeOK, Queue, NEW w \in Workers, NEW j \in Jobs, NEW r \in Run, NEW q \in Present,
         Works(w, j, r, q), NEW u \in Users, Accounted(u),
         UNCHANGED <<log, user, rewritten>>,
         \/ UNCHANGED board /\ (r.pc = "board" => run[w].pc = "board")
         \/ /\ run[w].pc = "board" /\ r.pc # "board"
            /\ board'["overall"][u] \in {board["overall"][u], board["overall"][u]
                 + (IF job[j].user = u THEN job[j].earned ELSE 0)},
         \/ q.runs = job[j].runs /\ (r.pc \in {"lock", "commit"} => run[w].pc \in {"lock", "commit"})
         \/ q.runs = job[j].runs + 1,
         Sure(j)' => Sure(j)
  PROVE  Accounted(u)'
  <1>0. job[j] \in Present
    BY DEF Works
  <1>1. PICK e \in Nat : e = IF job[j].user = u THEN job[j].earned ELSE 0
    BY <1>0, Minutes
  <1>2. /\ IsFiniteSet(Units(Pending(u))) /\ IsFiniteSet(Units(Owed(u)))
        /\ IsFiniteSet(Units(Settled(u))) /\ IsFiniteSet(Units(Ran(u)))
        /\ IsFiniteSet(Units(Heatmap(u)))
    BY DEF Accounted
  <1>3. /\ IsFiniteSet(Units(Pending(u))') /\ IsFiniteSet(Units(Owed(u))')
        /\ Total(Pending(u)) \in Nat /\ Total(Pending(u))' \in Nat
        /\ Total(Owed(u)) \in Nat /\ Total(Owed(u))' \in Nat
        /\ Total(Pending(u))' = Total(Pending(u))
              + ((IF r.pc \in {"lock", "commit"} THEN e ELSE 0)
                  - (IF run[w].pc \in {"lock", "commit"} THEN e ELSE 0))
        /\ Total(Owed(u))' = Total(Owed(u))
              + ((IF r.pc = "board" THEN e ELSE 0) - (IF run[w].pc = "board" THEN e ELSE 0))
    BY <1>1, <1>2, WorkersMove
  <1>4. /\ IsFiniteSet(Units(Ran(u))') /\ IsFiniteSet(Units(Settled(u))')
        /\ Total(Ran(u)) \in Nat /\ Total(Ran(u))' \in Nat
        /\ Total(Settled(u)) \in Nat /\ Total(Settled(u))' \in Nat
        /\ Total(Ran(u))' = Total(Ran(u)) + (q.runs * e - job[j].runs * e)
        /\ Total(Settled(u))' = Total(Settled(u))
              + ((IF Sure(j)' THEN e ELSE 0) - (IF Sure(j) THEN e ELSE 0))
    BY <1>1, <1>2, JobsMove
  <1>5. Heatmap(u)' = Heatmap(u) /\ Total(Heatmap(u))' = Total(Heatmap(u))
          /\ Units(Heatmap(u))' = Units(Heatmap(u))
    BY DEF Heatmap, Total, Units
  <1>6. PICK hm \in Nat : hm = Total(Heatmap(u))
    BY Balance
  <1>7. PICK pd \in Nat : pd = Total(Pending(u))
    BY <1>3
  <1>8. PICK ow \in Nat : ow = Total(Owed(u))
    BY <1>3
  <1>9. PICK rn \in Nat : rn = Total(Ran(u))
    BY <1>4
  <1>10. PICK se \in Nat : se = Total(Settled(u))
    BY <1>4
  <1>11. PICK bo \in Nat : bo = board["overall"][u]
    BY Balance
  <1>12. hm + pd <= rn /\ bo + ow <= hm /\ se <= hm
    BY <1>6, <1>7, <1>8, <1>9, <1>10, <1>11, Balance
  <1>13. hm + Total(Pending(u))' <= Total(Ran(u))'
    <2>1. CASE /\ q.runs = job[j].runs
               /\ r.pc \in {"lock", "commit"} => run[w].pc \in {"lock", "commit"}
      <3>1. q.runs * e - job[j].runs * e = 0
        <4>1. PICK k \in 0..2 : k = job[j].runs
          BY <1>0, PresentTypes
        <4>2. k * e \in Int
          OBVIOUS
        <4> QED BY <2>1, <4>1, <4>2
      <3>2. Total(Ran(u))' = rn
        BY <1>4, <1>9, <3>1
      <3>3. Total(Pending(u))' <= pd
        BY <1>3, <1>7, <2>1
      <3>4. Total(Pending(u))' \in Nat
        BY <1>3
      <3> QED BY <1>12, <3>2, <3>3, <3>4
    <2>2. CASE q.runs = job[j].runs + 1
      <3>1. q.runs * e - job[j].runs * e = e
        <4>1. (q.runs = 1 /\ job[j].runs = 0) \/ (q.runs = 2 /\ job[j].runs = 1)
          BY <1>0, <2>2, PresentTypes
        <4>2. 2 * e - 1 * e = e /\ 1 * e - 0 * e = e
          OBVIOUS
        <4> QED BY <4>1, <4>2
      <3>2. Total(Ran(u))' = rn + e
        BY <1>4, <1>9, <3>1
      <3>3. Total(Pending(u))' <= pd + e
        BY <1>3, <1>7
      <3>4. Total(Pending(u))' \in Nat
        BY <1>3
      <3> QED BY <1>12, <3>2, <3>3, <3>4
    <2> QED BY <2>1, <2>2
  <1>14. board'["overall"][u] + Total(Owed(u))' <= hm
    <2>1. CASE UNCHANGED board /\ (r.pc = "board" => run[w].pc = "board")
      <3>1. Total(Owed(u))' <= ow /\ Total(Owed(u))' \in Nat
        BY <1>3, <1>8, <2>1
      <3> QED BY <1>11, <1>12, <2>1, <3>1
    <2>2. CASE /\ run[w].pc = "board" /\ r.pc # "board"
               /\ board'["overall"][u] \in {bo, bo + e}
      <3>1. Total(Owed(u))' = ow - e
        BY <1>3, <1>8, <2>2
      <3> QED BY <1>12, <2>2, <3>1
    <2> QED BY <1>1, <1>11, <2>1, <2>2
  <1>15. Total(Settled(u))' <= hm
    BY <1>4, <1>10, <1>12
  <1>16. LoggedMinutes(u)' = hm
    BY <1>5, <1>6 DEF LoggedMinutes
  <1>17. u \notin rewritten' => user'[u].totalFocusMinutes = hm
    BY <1>6, Balance
  <1>18. IsFiniteSet(Units(Heatmap(u))')
    BY <1>2, <1>5
  <1> QED BY <1>3, <1>4, <1>13, <1>14, <1>15, <1>16, <1>17, <1>18 DEF Accounted

LEMMA CommitAccounted ==
  ASSUME StatsTypeOK, Queue, Exclusive, NEW u \in Users, Accounted(u), NEW w \in Workers, Commit(w)
  PROVE  Accounted(u)'
  <1>1. PICK r \in Run :
          /\ Works(w, run[w].job, r, job[run[w].job])
          /\ run[w].pc = "commit"
          /\ r.pc = IF JobOf(w).earned > 0 THEN "board" ELSE "finish"
    BY CommitWorks
  <1>2. PICK j \in Jobs : j = run[w].job /\ job[j] \in Present
    BY <1>1, WorkerRuns DEF Idle
  <1>3. PICK q \in Present : q = job[j]
    BY <1>2
  <1>4. Works(w, j, r, q)
    BY <1>1, <1>2, <1>3
  <1>5. PICK e \in Nat : e = IF job[j].user = u THEN job[j].earned ELSE 0
    BY <1>2, Minutes
  <1>6. /\ IsFiniteSet(Units(Pending(u))) /\ IsFiniteSet(Units(Owed(u)))
        /\ IsFiniteSet(Units(Settled(u))) /\ IsFiniteSet(Units(Ran(u)))
        /\ IsFiniteSet(Units(Heatmap(u)))
    BY DEF Accounted
  <1>7. /\ IsFiniteSet(Units(Pending(u))') /\ IsFiniteSet(Units(Owed(u))')
        /\ Total(Pending(u)) \in Nat /\ Total(Pending(u))' \in Nat
        /\ Total(Owed(u)) \in Nat /\ Total(Owed(u))' \in Nat
        /\ Total(Pending(u))' = Total(Pending(u)) - e
        /\ Total(Owed(u))' = Total(Owed(u)) + e
    <2>1. /\ IsFiniteSet(Units(Pending(u))') /\ IsFiniteSet(Units(Owed(u))')
          /\ Total(Pending(u)) \in Nat /\ Total(Pending(u))' \in Nat
          /\ Total(Owed(u)) \in Nat /\ Total(Owed(u))' \in Nat
          /\ Total(Pending(u))' = Total(Pending(u))
                + ((IF r.pc \in {"lock", "commit"} THEN e ELSE 0)
                    - (IF run[w].pc \in {"lock", "commit"} THEN e ELSE 0))
          /\ Total(Owed(u))' = Total(Owed(u))
                + ((IF r.pc = "board" THEN e ELSE 0) - (IF run[w].pc = "board" THEN e ELSE 0))
      BY <1>4, <1>5, <1>6, WorkersMove
    <2>2. (r.pc = "board" \/ (r.pc = "finish" /\ e = 0)) /\ run[w].pc = "commit"
      <3>1. job[j].earned \in Nat
        BY <1>2, PresentTypes
      <3> QED BY <1>1, <1>2, <1>5, <3>1 DEF JobOf
    <2> QED BY <2>1, <2>2
  <1>8. /\ IsFiniteSet(Units(Ran(u))') /\ IsFiniteSet(Units(Settled(u))')
        /\ Total(Ran(u)) \in Nat /\ Total(Ran(u))' \in Nat
        /\ Total(Settled(u)) \in Nat /\ Total(Settled(u))' \in Nat
        /\ Total(Ran(u))' = Total(Ran(u))
        /\ Total(Settled(u))' <= Total(Settled(u)) + e
    <2>1. /\ IsFiniteSet(Units(Ran(u))') /\ IsFiniteSet(Units(Settled(u))')
          /\ Total(Ran(u)) \in Nat /\ Total(Ran(u))' \in Nat
          /\ Total(Settled(u)) \in Nat /\ Total(Settled(u))' \in Nat
          /\ Total(Ran(u))' = Total(Ran(u)) + (q.runs * e - job[j].runs * e)
          /\ Total(Settled(u))' = Total(Settled(u))
                + ((IF Sure(j)' THEN e ELSE 0) - (IF Sure(j) THEN e ELSE 0))
      BY <1>4, <1>5, <1>6, JobsMove
    <2>2. q.runs * e - job[j].runs * e = 0
      <3>1. PICK k \in 0..2 : k = q.runs
        BY PresentTypes
      <3>2. k * e \in Int
        OBVIOUS
      <3> QED BY <1>3, <3>1, <3>2
    <2> QED BY <2>1, <2>2
  <1>9. PICK x \in Users : x = job[j].user
    BY <1>2, PresentTypes
  <1>10. PICK t \in Days : t = run[w].today
    BY CommitWrites
  <1>11. /\ user' = [user EXCEPT ![x] = Counted(run[w].row, t, j)]
         /\ \A v \in Users \ {x} : log'[v] = log[v]
         /\ \A d \in Days \ {t} : log'[x][d] = log[x][d]
         /\ log'[x][t] = (IF log[x][t] = Null THEN 0 ELSE log[x][t]) + job[j].earned
         /\ log' \in [Users -> [Days -> Nat \cup {Null}]]
         /\ UNCHANGED <<board, rewritten>>
    BY <1>2, <1>9, <1>10, CommitWrites DEF JobOf
  <1>12. /\ IsFiniteSet(Units(Heatmap(u))')
         /\ Total(Heatmap(u)) \in Nat /\ Total(Heatmap(u))' = Total(Heatmap(u)) + e
    <2>1. PICK h : h = Heatmap(u)
      OBVIOUS
    <2>2. PICK h2 : h2 = Heatmap(u)'
      OBVIOUS
    <2>3. h \in [Days -> Nat]
      BY <2>1, AmountTypes
    <2>4. h2 \in [Days -> Nat]
      BY <1>11, <2>2 DEF Heatmap
    <2>5. ASSUME NEW d \in Days \ {t} PROVE h2[d] = h[d]
      <3>1. log'[u][d] = log[u][d]
        BY <1>11
      <3> QED BY <2>1, <2>2, <3>1 DEF Heatmap
    <2>6. h2[t] = h[t] + e
      <3>1. h[t] = IF log[u][t] = Null THEN 0 ELSE log[u][t]
        BY <2>1 DEF Heatmap
      <3>2. h2[t] = IF log'[u][t] = Null THEN 0 ELSE log'[u][t]
        BY <2>2 DEF Heatmap
      <3>3. h[t] \in Nat
        BY <2>3
      <3>4. CASE u = x
        <4>1. log'[u][t] = h[t] + e
          BY <1>5, <1>9, <1>11, <3>1, <3>4
        <4>2. h[t] + e \in Nat
          BY <3>3
        <4> QED BY <3>2, <4>1, <4>2, NobodyIsNull
      <3>5. CASE u # x
        <4>1. e = 0 /\ log'[u] = log[u]
          BY <1>5, <1>9, <1>11, <3>5
        <4> QED BY <3>1, <3>2, <3>3, <4>1
      <3> QED BY <3>4, <3>5
    <2>7. /\ IsFiniteSet(Units(h2)) /\ Total(h) \in Nat
          /\ Total(h2) = Total(h) + (h2[t] - h[t])
      <3>1. IsFiniteSet(Units(h)) /\ \A d \in Days \ {t} : h2[d] = h[d]
        BY <1>6, <2>1, <2>5
      <3> QED BY <2>3, <2>4, <3>1, TotalMoves
    <2>8. Total(Heatmap(u))' = Total(h2) /\ Units(Heatmap(u))' = Units(h2)
      BY <2>2 DEF Total, Units
    <2>9. h[t] \in Nat /\ h2[t] - h[t] = e
      BY <2>3, <2>6
    <2> QED BY <2>1, <2>7, <2>8, <2>9
  <1>13. PICK hm \in Nat : hm = Total(Heatmap(u))
    BY <1>12
  <1>14. u \notin rewritten' => user'[u].totalFocusMinutes = hm + e
    <2>1. u \notin rewritten' => user[u].totalFocusMinutes = hm
      BY <1>11, <1>13, Balance
    <2>2. CASE u = x
      <3>1. Writing(w, u) /\ run[w].row = user[u]
        BY <1>1, <1>2, <1>9, <2>2 DEF Exclusive, Writing, JobOf
      <3>2. user'[u] = Counted(run[w].row, t, j)
        BY <1>11, <2>2 DEF StatsTypeOK
      <3>3. Counted(run[w].row, t, j).totalFocusMinutes = run[w].row.totalFocusMinutes + job[j].earned
        <4>1. user[u] \in UserRow /\ job[j].earned \in Nat
          BY <1>2, PresentTypes DEF StatsTypeOK
        <4> QED BY <3>1, <4>1, CountedIs
      <3> QED BY <1>5, <1>9, <2>1, <2>2, <3>1, <3>2, <3>3
    <2>3. CASE u # x
      <3>1. user'[u] = user[u] /\ e = 0
        BY <1>5, <1>9, <1>11, <2>3 DEF StatsTypeOK
      <3> QED BY <2>1, <3>1
    <2> QED BY <2>2, <2>3
  <1>15. LoggedMinutes(u)' = hm + e
    BY <1>12, <1>13 DEF LoggedMinutes
  <1>16. hm + e + Total(Pending(u))' <= Total(Ran(u))'
    <2>1. hm + Total(Pending(u)) <= Total(Ran(u))
      BY <1>13, Balance
    <2>2. PICK pd \in Nat : pd = Total(Pending(u))
      BY <1>7
    <2> QED BY <1>7, <1>8, <2>1, <2>2
  <1>17. board'["overall"][u] + Total(Owed(u))' <= hm + e
    <2>1. PICK bo \in Nat : bo = board["overall"][u]
      BY Balance
    <2>2. PICK ow \in Nat : ow = Total(Owed(u))
      BY <1>7
    <2>3. bo + ow <= hm
      BY <1>13, <2>1, <2>2, Balance
    <2> QED BY <1>7, <1>11, <2>1, <2>2, <2>3
  <1>18. Total(Settled(u))' <= hm + e
    <2>1. PICK se \in Nat : se = Total(Settled(u))
      BY <1>8
    <2>2. se <= hm
      BY <1>13, <2>1, Balance
    <2> QED BY <1>8, <2>1, <2>2
  <1> QED BY <1>7, <1>8, <1>12, <1>14, <1>15, <1>16, <1>17, <1>18 DEF Accounted

\* A step of the worker other than Commit.
LEMMA WorkersAccounted ==
  ASSUME StatsTypeOK, Queue, NEW u \in Users, Accounted(u), NEW w \in Workers,
         (\E j \in Jobs : Take(w, j)) \/ LockUser(w) \/ Board(w) \/ Finish(w) \/ Rollback(w)
           \/ Crash(w) \/ Stall(w)
  PROVE  Accounted(u)'
  <1>1. ASSUME NEW j \in Jobs, Take(w, j) PROVE Accounted(u)'
    <2>1. PICK r \in Run, q \in Present :
            /\ Works(w, j, r, q)
            /\ run[w] = Idle /\ r.pc = "lock"
            /\ job[j].st = "waiting" /\ q.st = "active" /\ q.by = w /\ q.runs = job[j].runs + 1
      BY <1>1, TakeWorks
    <2>2. ~ Sure(j)'
      BY <2>1, NobodyIsNull, SureIs
    <2>3. UNCHANGED <<log, user, rewritten, board>> /\ r.pc # "board"
      BY <1>1, <2>1 DEF Take
    <2> QED BY <2>1, <2>2, <2>3, AccountedKept
  <1>2. ASSUME NEW j \in Jobs, j = run[w].job, job[j] \in Present, NEW r \in Run,
               Works(w, j, r, job[j]),
               r.pc \in {"board", "finish"} => run[w].pc \in {"board", "finish"} \/ job[j].by # w
        PROVE  Sure(j)' => Sure(j)
    <2>1. PICK q \in Present : q = job[j]
      BY <1>2
    <2>2. Works(w, j, r, q) /\ (q.st = "active" => q.by # Null)
      BY <1>2, <2>1, PresentTypes DEF Queue
    <2>3. Sure(j)' => \/ q.st = "done"
                      \/ /\ q.st = "active"
                         /\ (IF q.by = w THEN r.pc ELSE run[q.by].pc) \in {"board", "finish"}
      BY <2>2, SureIs
    <2>4. q.by = w => (r.pc \in {"board", "finish"} => run[w].pc \in {"board", "finish"})
      BY <1>2, <2>1
    <2> QED BY <2>1, <2>3, <2>4 DEF Sure
  <1>3. CASE LockUser(w)
    <2>1. PICK r \in Run :
            /\ Works(w, run[w].job, r, job[run[w].job])
            /\ run[w].pc = "lock" /\ r.pc = "commit"
      BY <1>3, LockWorks
    <2>2. PICK j \in Jobs : j = run[w].job /\ job[j] \in Present
      BY <2>1, WorkerRuns DEF Idle
    <2>3. Sure(j)' => Sure(j)
      BY <1>2, <2>1, <2>2
    <2>4. UNCHANGED <<log, user, rewritten, board>> /\ r.pc # "board"
      BY <1>3, <2>1 DEF LockUser
    <2> QED BY <2>1, <2>2, <2>3, <2>4, AccountedKept
  <1>4. CASE Board(w)
    <2>1. PICK r \in Run :
            /\ Works(w, run[w].job, r, job[run[w].job])
            /\ run[w].pc = "board" /\ r.pc = "finish"
      BY <1>4, BoardWorks
    <2>2. PICK j \in Jobs : j = run[w].job /\ job[j] \in Present
      BY <2>1, WorkerRuns DEF Idle
    <2>3. Sure(j)' => Sure(j)
      BY <1>2, <2>1, <2>2
    <2>4. PICK x \in Users : x = job[j].user
      BY <2>2, PresentTypes
    <2>5. PICK e \in Nat : e = job[j].earned
      BY <2>2, PresentTypes
    <2>6. UNCHANGED <<log, user, rewritten>>
      BY <1>4, BoardWrites
    <2>7. PICK n \in 0..3 : board' = Incremented(x, e, n)
      BY <1>4, <2>2, <2>4, <2>5, BoardWrites DEF JobOf
    <2>8. board'["overall"][u] \in {board["overall"][u], board["overall"][u]
                 + (IF job[j].user = u THEN job[j].earned ELSE 0)}
      <3>1. CASE u = x
        <4>1. Incremented(x, e, n)["overall"][x] = board["overall"][x] + (IF n >= 1 THEN e ELSE 0)
          BY IncrementedIs
        <4>2. board["overall"][x] + 0 = board["overall"][x]
          BY DEF StatsTypeOK, Boards
        <4> QED BY <2>4, <2>5, <2>7, <3>1, <4>1, <4>2
      <3>2. CASE u # x
        <4>1. "overall" \in Boards
          BY DEF Boards
        <4>2. /\ board' = [p \in Boards |-> IF \E i \in 1..n : Periods[i] = p
                                             THEN [board[p] EXCEPT ![x] = @ + e] ELSE board[p]]
              /\ board["overall"] \in [Users -> Nat]
          BY <2>7, <4>1 DEF Incremented, StatsTypeOK
        <4>3. board'["overall"] \in {[board["overall"] EXCEPT ![x] = @ + e], board["overall"]}
          BY <4>1, <4>2
        <4> QED BY <3>2, <4>2, <4>3
      <3> QED BY <3>1, <3>2
    <2> QED BY <2>1, <2>2, <2>3, <2>6, <2>8, AccountedKept
  <1>5. ASSUME NEW result \in {"done", "failed"}, run[w] # Idle, EndRun(w, result),
               result = "done" => run[w].pc = "finish",
               UNCHANGED <<log, user, rewritten, board>>
        PROVE  Accounted(u)'
    <2>1. PICK q \in Present :
            /\ Works(w, run[w].job, Idle, q)
            /\ IF JobOf(w).by = w
               THEN q.st = result /\ q.by = Null /\ q.runs = JobOf(w).runs
               ELSE q = JobOf(w)
      BY <1>5, EndWorks
    <2>2. PICK j \in Jobs : j = run[w].job /\ job[j] \in Present
      BY <1>5, WorkerRuns
    <2>3. Idle \in Run /\ Idle.pc = "idle"
      BY DEF Run, Idle
    <2>4. q.runs = job[j].runs
      BY <2>1, <2>2 DEF JobOf
    <2>5. Sure(j)' => Sure(j)
      <3>1. CASE JobOf(w).by = w
        <4>1. q.st = result /\ q.st # "active" /\ Works(w, j, Idle, q)
          BY <2>1, <2>2, <3>1
        <4>2. Sure(j)' => result = "done"
          BY <2>3, <4>1, SureIs
        <4>3. job[j].by = w /\ job[j].st = "active"
          BY <2>2, <3>1, PresentTypes, NobodyIsNull DEF Queue, JobOf
        <4> QED BY <1>5, <4>2, <4>3 DEF Sure
      <3>2. CASE JobOf(w).by # w
        <4>1. Works(w, j, Idle, job[j])
          BY <2>1, <2>2, <3>2 DEF JobOf
        <4> QED BY <1>2, <2>2, <2>3, <4>1
      <3> QED BY <3>1, <3>2
    <2> QED BY <1>5, <2>1, <2>2, <2>3, <2>4, <2>5, AccountedKept
  <1>6. CASE Finish(w)
    <2>1. run[w] # Idle /\ run[w].pc = "finish"
      BY <1>6 DEF Finish, Doing, Idle
    <2>2. EndRun(w, "done") /\ UNCHANGED <<log, user, rewritten, board>>
      BY <1>6 DEF Finish
    <2> QED BY <1>5, <2>1, <2>2
  <1>7. CASE Rollback(w)
    <2>1. run[w] # Idle
      BY <1>7 DEF Rollback, Idle
    <2>2. EndRun(w, "failed") /\ UNCHANGED <<log, user, rewritten, board>>
      BY <1>7 DEF Rollback
    <2> QED BY <1>5, <2>1, <2>2
  <1>8. CASE Crash(w) \/ Stall(w)
    <2>1. run[w] # Idle
      BY <1>8, LostWorks
    <2>2. PICK r \in {Idle, run[w]}, q \in Present :
            /\ Works(w, run[w].job, r, q)
            /\ IF JobOf(w).by = w THEN GivenUp(run[w].job, q) ELSE q = JobOf(w) /\ r = Idle
      BY <1>8, LostWorks
    <2>3. PICK j \in Jobs : j = run[w].job /\ job[j] \in Present
      BY <2>1, WorkerRuns
    <2>4. r \in Run /\ (r = run[w] \/ r.pc = "idle")
      BY <2>1, WorkerRuns DEF Run, Idle
    <2>5. q.runs = job[j].runs
      BY <2>2, <2>3 DEF GivenUp, JobOf
    <2>6. Sure(j)' => Sure(j)
      <3>1. CASE JobOf(w).by = w
        <4>1. q.st # "active" /\ q.st # "done" /\ Works(w, j, r, q)
          BY <2>2, <2>3, <3>1 DEF GivenUp
        <4>2. ~ Sure(j)'
          BY <2>4, <4>1, SureIs
        <4> QED BY <4>2
      <3>2. CASE JobOf(w).by # w
        <4>1. Works(w, j, r, job[j]) /\ r.pc = "idle"
          BY <2>2, <2>3, <3>2 DEF JobOf, Idle
        <4> QED BY <1>2, <2>3, <2>4, <4>1
      <3> QED BY <3>1, <3>2
    <2>7. UNCHANGED <<log, user, rewritten, board>>
      BY <1>8 DEF Crash, Stall
    <2>8. (r.pc = "board" => run[w].pc = "board")
            /\ (r.pc \in {"lock", "commit"} => run[w].pc \in {"lock", "commit"})
      BY <2>4
    <2>9. Works(w, j, r, q)
      BY <2>2, <2>3
    <2> QED BY <2>3, <2>4, <2>5, <2>6, <2>7, <2>8, <2>9, AccountedKept
  <1> QED BY <1>1, <1>3, <1>4, <1>6, <1>7, <1>8

\* A step that leaves the queue, the log and the overall board alone.
LEMMA AccountedStays ==
  ASSUME NEW u \in Users, Accounted(u), UNCHANGED <<job, run, log>>,
         board'["overall"][u] = board["overall"][u],
         u \notin rewritten' => u \notin rewritten /\ user'[u] = user[u]
  PROVE  Accounted(u)'
  <1>1. /\ Heatmap(u)' = Heatmap(u) /\ Pending(u)' = Pending(u) /\ Owed(u)' = Owed(u)
        /\ Settled(u)' = Settled(u) /\ Ran(u)' = Ran(u)
    BY DEF Heatmap, Pending, Owed, Settled, Sure, Ran, JobOf
  <1> QED BY <1>1 DEF Accounted, LoggedMinutes, Total, Units

\* A job that is added has not run.
LEMMA EnqueueAccounted ==
  ASSUME StatsTypeOK, Queue, NEW u \in Users, Accounted(u),
         NEW j \in Jobs, NEW x \in Users, NEW e \in Earnings, Enqueue(j, x, e)
  PROVE  Accounted(u)'
  <1>1. PICK q \in Present : q = [st |-> "waiting", user |-> x, earned |-> e, by |-> Null, runs |-> 0]
    BY EnqueuedJobs
  <1>2. q.st = "waiting" /\ q.runs = 0 /\ q.earned = e /\ e \in Nat
    BY <1>1, EarningsAssumption
  <1>3. /\ job'[j] = q /\ (\A i \in Jobs \ {j} : job'[i] = job[i])
        /\ job[j].st = "absent" /\ UNCHANGED <<day, user, log, board, run, rewritten>>
    BY <1>1 DEF Enqueue, StatsTypeOK
  <1>4. ASSUME NEW w \in Workers, run[w] # Idle PROVE job'[run[w].job] = job[run[w].job]
    <2>1. run[w].job \in Jobs /\ run[w].job # j
      BY <1>3, <1>4, WorkerRuns, PresentTypes
    <2> QED BY <1>3, <2>1
  <1>5. Pending(u)' = Pending(u) /\ Owed(u)' = Owed(u)
    <2>1. ASSUME NEW w \in Workers, run[w].pc \in {"lock", "commit", "board"}
          PROVE  JobOf(w)' = JobOf(w)
      <3>1. run[w] # Idle
        BY <2>1 DEF Idle
      <3> QED BY <1>3, <1>4, <3>1 DEF JobOf
    <2> QED BY <1>3, <2>1 DEF Pending, Owed
  <1>6. Ran(u)' = Ran(u)
    <2>1. ASSUME NEW i \in Jobs
          PROVE  (IF job'[i].st # "absent" /\ job'[i].user = u THEN job'[i].runs * job'[i].earned ELSE 0)
                   = (IF job[i].st # "absent" /\ job[i].user = u THEN job[i].runs * job[i].earned ELSE 0)
      <3>1. CASE i = j
        <4>1. 0 * e = 0
          BY <1>2
        <4> QED BY <1>2, <1>3, <3>1, <4>1
      <3>2. CASE i # j
        BY <1>3, <3>2
      <3> QED BY <3>1, <3>2
    <2> QED BY <2>1 DEF Ran
  <1>7. Settled(u)' = Settled(u)
    <2>1. ASSUME NEW i \in Jobs
          PROVE  /\ Sure(i)' <=> Sure(i)
                 /\ Sure(i) => job'[i] = job[i]
      <3>1. CASE i = j
        BY <1>2, <1>3, <3>1 DEF Sure
      <3>2. CASE i # j
        BY <1>3, <3>2 DEF Sure
      <3> QED BY <3>1, <3>2
    <2> QED BY <2>1 DEF Settled
  <1>8. Heatmap(u)' = Heatmap(u)
    BY <1>3 DEF Heatmap
  <1> QED BY <1>3, <1>5, <1>6, <1>7, <1>8 DEF Accounted, LoggedMinutes, Total, Units

LEMMA AccountedNext ==
  ASSUME StatsTypeOK, Queue, Exclusive, NEW u \in Users, Accounted(u), [StatsNext]_statsVars
  PROVE  Accounted(u)'
  <1>1. ASSUME NEW x \in Users, ProfileWrite(x) PROVE Accounted(u)'
    <2>1. /\ \A v \in Users \ {x} : user'[v] = user[v]
          /\ profile[x].write = {} => user' = user
          /\ rewritten' = IF profile[x].write = {} THEN rewritten ELSE rewritten \cup {x}
          /\ UNCHANGED <<job, run, log, board>>
      BY <1>1, ProfileWrites
    <2>2. u \notin rewritten' => u \notin rewritten /\ user'[u] = user[u]
      BY <2>1
    <2> QED BY <2>1, <2>2, AccountedStays
  <1>2. CASE NewDay
    <2>1. UNCHANGED <<user, log, job, run, rewritten>>
      BY <1>2 DEF NewDay
    <2>2. board'["overall"][u] = board["overall"][u]
      BY <1>2, DayBoards
    <2> QED BY <2>1, <2>2, AccountedStays
  <1>3. ASSUME NEW x \in Users,
               (\E zone \in Zones : ProfileRead(x, zone)) \/ ProfileFail(x) \/ ProfileCompare(x)
        PROVE  UNCHANGED <<user, log, job, run, rewritten, board>>
    BY <1>3 DEF ProfileRead, ProfileFail, ProfileCompare
  <1>4. ASSUME UNCHANGED <<user, log, job, run, rewritten, board>> PROVE Accounted(u)'
    BY <1>4, AccountedStays
  <1>5. CASE UNCHANGED statsVars
    BY <1>4, <1>5 DEF statsVars
  <1>6. ASSUME NEW j \in Jobs, NEW x \in Users, NEW e \in Earnings, Enqueue(j, x, e)
        PROVE  Accounted(u)'
    BY <1>6, EnqueueAccounted
  <1>7. ASSUME NEW w \in Workers, Commit(w) PROVE Accounted(u)'
    BY <1>7, CommitAccounted
  <1>8. ASSUME NEW w \in Workers,
               (\E j \in Jobs : Take(w, j)) \/ LockUser(w) \/ Board(w) \/ Finish(w) \/ Rollback(w)
                 \/ Crash(w) \/ Stall(w)
        PROVE  Accounted(u)'
    BY <1>8, WorkersAccounted
  <1> QED BY <1>1, <1>2, <1>3, <1>4, <1>5, <1>6, <1>7, <1>8 DEF StatsNext, Work

(***************************************************************************)
(* UserStats: the theorems.                                                *)
(***************************************************************************)

LEMMA StatsGoodNext ==
  ASSUME StatsGood, [StatsNext]_statsVars PROVE StatsGood'
  <1>1. StatsTypeOK /\ Queue /\ Exclusive /\ Chain /\ Scores /\ \A u \in Users : Accounted(u)
    BY DEF StatsGood
  <1>2. StatsTypeOK'
    BY <1>1, TypesNext
  <1>3. Queue'
    BY <1>1, QueueNext
  <1>4. Exclusive'
    BY <1>1, ExclusiveNext
  <1>5. Chain'
    BY <1>1, ChainNext
  <1>6. Scores'
    BY <1>1, ScoresNext
  <1>7. ASSUME NEW u \in Users PROVE Accounted(u)'
    BY <1>1, AccountedNext
  <1> QED BY <1>2, <1>3, <1>4, <1>5, <1>6, <1>7 DEF StatsGood

LEMMA StatsGoodAlways == StatsSpec => []StatsGood
  BY StatsGoodInit, StatsGoodNext, PTL DEF StatsSpec

LEMMA RowsAgree ==
  ASSUME StatsGood, NEW u \in Users \ rewritten
  PROVE  /\ user[u].totalFocusMinutes = LoggedMinutes(u)
         /\ Logged(u) # {} =>
              LET row == user[u] IN
              /\ row.lastStudyDate = Max(Logged(u))
              /\ Streaks(u, row.lastStudyDate, row.currentStreak)
              /\ ~ Streaks(u, row.lastStudyDate, row.currentStreak + 1)
              /\ \E d \in Days : Streaks(u, d, row.longestStreak)
              /\ \A d \in Days : ~ Streaks(u, d, row.longestStreak + 1)
  <1>1. user[u].totalFocusMinutes = LoggedMinutes(u)
    BY DEF StatsGood, Accounted
  <1>2. user[u] \in UserRow
    BY DEF StatsGood, StatsTypeOK
  <1>3. ASSUME Logged(u) # {}
        PROVE  /\ user[u].lastStudyDate = Max(Logged(u))
               /\ Streaks(u, user[u].lastStudyDate, user[u].currentStreak)
               /\ ~ Streaks(u, user[u].lastStudyDate, user[u].currentStreak + 1)
               /\ \E d \in Days : Streaks(u, d, user[u].longestStreak)
               /\ \A d \in Days : ~ Streaks(u, d, user[u].longestStreak + 1)
    <2>1. PICK l \in Days : Chained(user[u], Logged(u), l)
      BY <1>3 DEF StatsGood, Chain
    <2>2. PICK days \in SUBSET Days : days = Logged(u)
      BY DEF Logged
    <2>3. PICK c \in Nat : c = user[u].currentStreak
      BY <1>2, RowTypes
    <2>4. PICK m \in Nat : m = user[u].longestStreak
      BY <1>2, RowTypes
    <2>5. /\ l \in days /\ (\A d \in days : d <= l) /\ user[u].lastStudyDate = l
          /\ (l - c + 1)..l \subseteq days /\ l - c \notin days
          /\ \E d \in Days : (d - m + 1)..d \subseteq days
          /\ \A d \in Days : ~ ((d - m)..d \subseteq days)
      BY <2>1, <2>2, <2>3, <2>4 DEF Chained
    <2>6. Max(days) = l
      <3>1. days \in SUBSET Int
        BY DayTypes
      <3> QED BY <2>5, <3>1, GreatestIs
    <2>7. ~ ((l - (c + 1) + 1)..l \subseteq days)
      <3>1. l - c \in (l - (c + 1) + 1)..l
        BY DayTypes
      <3> QED BY <2>5, <3>1
    <2>8. \A d \in Days : ~ ((d - (m + 1) + 1)..d \subseteq days)
      <3>1. \A d \in Days : d - (m + 1) + 1 = d - m
        BY DayTypes
      <3> QED BY <2>5, <3>1
    <2> QED BY <2>2, <2>3, <2>4, <2>5, <2>6, <2>7, <2>8 DEF Streaks
  <1> QED BY <1>1, <1>3

LEMMA LogCovers ==
  ASSUME StatsGood, NEW u \in Users
  PROVE  LoggedMinutes(u) \in Total(Done(u)) .. Total(Ran(u))
  <1>0. StatsTypeOK /\ Queue /\ Accounted(u)
    BY DEF StatsGood
  <1>1. PICK d \in [Jobs -> Nat] : d = Done(u)
    BY <1>0, AmountTypes
  <1>2. PICK s \in [Jobs -> Nat] : s = Settled(u)
    BY <1>0, AmountTypes
  <1>3. \A j \in Jobs : d[j] <= s[j]
    <2>1. ASSUME NEW j \in Jobs PROVE d[j] <= s[j]
      <3>1. d[j] = 0 \/ d[j] = s[j]
        BY <1>1, <1>2 DEF Done, Settled, Sure
      <3>2. s[j] \in Nat
        BY <1>2
      <3> QED BY <3>1, <3>2
    <2> QED BY <2>1
  <1>4. Total(d) \in Nat /\ Total(s) \in Nat /\ Total(d) <= Total(s)
    <2>1. IsFiniteSet(Units(s))
      BY <1>0, <1>2 DEF Accounted
    <2> QED BY <1>3, <2>1, TotalBelow
  <1>5. PICK hm \in Nat : hm = Total(Heatmap(u))
    BY <1>0, Balance
  <1>6. Total(s) <= hm
    BY <1>0, <1>2, <1>5, Balance
  <1>7. Total(Pending(u)) \in Nat /\ Total(Ran(u)) \in Nat
    BY <1>0, FS_CardinalityType DEF Accounted, Total
  <1>8. hm <= Total(Ran(u))
    BY <1>0, <1>5, <1>7, Balance
  <1>9. LoggedMinutes(u) = hm /\ Total(Done(u)) = Total(d)
    BY <1>1, <1>5 DEF LoggedMinutes
  <1> QED BY <1>4, <1>6, <1>7, <1>8, <1>9

\* The columns, the log, the boards and the queue hold what their types say, for
\* any number of users, jobs and workers and any calendar.
THEOREM StatsTypes == StatsSpec => []StatsTypeOK
  <1>1. StatsGood => StatsTypeOK
    BY DEF StatsGood
  <1> QED BY <1>1, StatsGoodAlways, PTL

\* Until a profile update writes the row, the denormalised columns say what the
\* daily log says, however many workers run, crash or repeat jobs: the lock on the
\* row makes a transaction save what it read, and the calendar of a zone never
\* goes back, so that a streak is only ever continued at its end.
THEOREM ProfilesAgree == StatsSpec => []ProfileAgrees
  <1>1. StatsGood => ProfileAgrees
    BY RowsAgree DEF ProfileAgrees
  <1> QED BY <1>1, StatsGoodAlways, PTL

\* No board is ahead of the log, nor the board of a day of that of its week, nor
\* this of the overall one: a run adds to the boards only what it has committed,
\* and in this order, wherever the pipeline breaks off.
THEOREM BoardsNeverAhead == StatsSpec => []BoardNeverAhead
  <1>1. ASSUME StatsGood, NEW u \in Users PROVE board["overall"][u] <= LoggedMinutes(u)
    <2>1. StatsTypeOK /\ Queue /\ Accounted(u)
      BY <1>1 DEF StatsGood
    <2>2. Total(Owed(u)) \in Nat
      BY <2>1, FS_CardinalityType DEF Accounted, Total
    <2>3. PICK hm \in Nat : hm = Total(Heatmap(u))
      BY <2>1, Balance
    <2>4. PICK bo \in Nat : bo = board["overall"][u]
      BY <2>1, Balance
    <2>5. bo + Total(Owed(u)) <= hm
      BY <2>1, <2>3, <2>4, Balance
    <2>6. bo <= hm
      BY <2>2, <2>5
    <2> QED BY <2>3, <2>4, <2>6 DEF LoggedMinutes
  <1>2. StatsGood => BoardNeverAhead
    BY <1>1 DEF StatsGood, Scores, BoardNeverAhead
  <1> QED BY <1>2, StatsGoodAlways, PTL

\* A user's log holds the minutes of every job reported done and, of any job, at
\* most its minutes once per run.
THEOREM DoneJobsAreLogged == StatsSpec => []DoneIsLogged
  <1>1. StatsGood => DoneIsLogged
    BY LogCovers DEF DoneIsLogged
  <1> QED BY <1>1, StatsGoodAlways, PTL

=============================================================================
