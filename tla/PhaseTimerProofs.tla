-------------------------- MODULE PhaseTimerProofs --------------------------
(* Proofs about PhaseTimer, for any durations, any number of requests and  *)
(* any number of handlers that overlap, fail or crash.                     *)
EXTENDS PhaseTimer, FiniteSetTheorems, TLAPS

(***************************************************************************)
(* A row that is not torn is as good as the entity saved last, and such an *)
(* entity as good as the row it was read from: the invariant speaks of     *)
(* both, and, between the two statements of a save, of the row the UPDATE  *)
(* would make.                                                             *)
(***************************************************************************)

GoodRow(r) == r \in Row /\ Consistent(r)

\* What a handler with locals h is about to store over row r.
GoodSave(h, r) ==
  /\ h.pc \in {"remove", "save"} =>
       h.row \in Row /\ (~h.torn => Consistent(h.row))
  /\ h.pc = "write" =>
       h.row \in Row /\ (~h.torn => Consistent(Updated(h.row, h.diff, r)))

GoodRequests ==
  \A q \in Requests : req[q] # None =>
    GoodSave(req[q], row) /\ (req[q].pc = "add" => req[q].delay \in Int)

GoodWorker ==
  worker # None =>
    /\ GoodSave(worker, row)
    /\ worker.pc \in {"save", "write", "add"} => worker.delay \in Durations

Good == TypeOK /\ (~torn => Consistent(row)) /\ GoodRequests /\ GoodWorker

LEMMA NothingIsNull ==
  None \notin Int /\ None \notin Row /\ None \notin Request /\ None \notin WorkerRun
  BY NoneAssumption

LEMMA NewRowIsGood ==
  ASSUME NEW f \in Durations, NEW b \in Durations
  PROVE  GoodRow(NewRow(f, b))
  BY DEF NewRow, GoodRow, Consistent, Row, Phases, Timed

LEMMA BlankType == Blank \in Row
  <1> DEFINE d == CHOOSE d \in Durations : TRUE
  <1>1. d \in Durations
    BY DurationsAssumption
  <1>2. Blank = NewRow(d, d)
    BY DEF Blank
  <1> HIDE DEF d
  <1> QED BY <1>1, <1>2, NewRowIsGood DEF GoodRow

LEMMA GoodInit == Init => Good
  <1> SUFFICES ASSUME Init PROVE Good
    OBVIOUS
  <1>1. GoodRow(row)
    BY NewRowIsGood DEF Init
  <1>2. TypeOK
    BY <1>1 DEF Init, TypeOK, GoodRow, Job, NoJob
  <1> QED BY <1>1, <1>2 DEF Init, Good, GoodRow, GoodRequests, GoodWorker

-----------------------------------------------------------------------------
(* The two statements of a save.                                           *)

LEMMA UpdatedType ==
  ASSUME NEW e \in Row, NEW d, NEW r \in Row
  PROVE  Updated(e, d, r) \in Row
  BY DEF Updated, Column, Row

\* The columns an UPDATE writes are all of the entity that matter to it.
LEMMA ForgetfulUpdate ==
  ASSUME NEW e \in Row, NEW d, NEW b \in Row, NEW r \in Row
  PROVE  Updated(Updated(e, d, b), d, r) = Updated(e, d, r)
  BY DEF Updated, Column

\* SELECT takes in every column that differs: on the row it saw, UPDATE makes
\* the entity.
LEMMA UpdateIsWhole ==
  ASSUME NEW e \in Row, row \in Row, NEW d \in Diffs(e)
  PROVE  Updated(e, d, row) = e
  <1>1. \A c \in Columns : c \in d \/ e[c] = row[c]
    BY DEF Diffs, Differing
  <1>2. \A c \in Columns : Column(c, e, d, row) = e[c]
    BY <1>1 DEF Column
  <1>3. e = [phase |-> e.phase, deleted |-> e.deleted, left |-> e.left, rem |-> e.rem,
             focus |-> e.focus, brk |-> e.brk]
    BY DEF Row
  <1>4. /\ Column("phase", e, d, row) = e.phase /\ Column("deleted", e, d, row) = e.deleted
        /\ Column("left", e, d, row) = e.left   /\ Column("rem", e, d, row) = e.rem
        /\ Column("focus", e, d, row) = e.focus /\ Column("brk", e, d, row) = e.brk
    BY <1>2 DEF Columns
  <1> QED BY <1>3, <1>4 DEF Updated

LEMMA DiffsType ==
  ASSUME NEW e, NEW d \in Diffs(e)
  PROVE  d \in SUBSET Columns
  BY DEF Diffs, Differing, MayDiffer, Columns

\* A soft delete leaves phase and times to the UPDATE.
LEMMA UpdateDeleted ==
  ASSUME NEW e \in Row, NEW d, NEW r \in Row, NEW s \in Row,
         s = [r EXCEPT !.deleted = TRUE], Consistent(Updated(e, d, r))
  PROVE  Consistent(Updated(e, d, s))
  <1>1. s.phase = r.phase /\ s.left = r.left /\ s.rem = r.rem
    BY DEF Row
  <1>2. /\ Updated(e, d, s).phase = Updated(e, d, r).phase
        /\ Updated(e, d, s).left = Updated(e, d, r).left
        /\ Updated(e, d, s).rem = Updated(e, d, r).rem
    BY <1>1 DEF Updated, Column
  <1> QED BY <1>2 DEF Consistent

LEMMA StoreIsGood ==
  ASSUME NEW h, row \in Row, torn \in BOOLEAN, h.torn \in BOOLEAN, h.pc = "write",
         ~torn => Consistent(row), GoodSave(h, row), Store(h)
  PROVE  row' \in Row /\ torn' \in BOOLEAN /\ (~torn' => Consistent(row'))
  BY UpdatedType DEF GoodSave, Store

LEMMA SelectedRequest ==
  ASSUME NEW h \in Request, h.row \in Row, NEW d \in Diffs(h.row), row \in Row, h.pc = "save",
         GoodSave(h, row)
  PROVE  LET g == Selected(h, d) IN
         /\ g \in Request /\ g.pc = "write" /\ g.delay = h.delay /\ g.torn = h.torn
         /\ g.row \in Row /\ Updated(g.row, g.diff, row) = h.row
         /\ GoodSave(g, row)
  <1> DEFINE e == Updated(h.row, d, Blank)
             g == [h EXCEPT !.pc = "write", !.row = e, !.diff = d]
  <1>1. e \in Row /\ d \in SUBSET Columns /\ Updated(e, d, row) = h.row
    BY UpdatedType, BlankType, ForgetfulUpdate, UpdateIsWhole, DiffsType
  <1>2. Selected(h, d) = g
    BY Zenon DEF Selected
  <1> HIDE DEF e
  <1>3. /\ g \in Request /\ g.pc = "write" /\ g.delay = h.delay /\ g.torn = h.torn
        /\ g.row = e /\ g.diff = d
    BY <1>1 DEF Request
  <1> HIDE DEF g
  <1>4. GoodSave(g, row)
    BY <1>1, <1>3 DEF GoodSave
  <1> QED BY <1>1, <1>2, <1>3, <1>4

LEMMA SelectedWorker ==
  ASSUME NEW h \in WorkerRun, h.row \in Row, NEW d \in Diffs(h.row), row \in Row, h.pc = "save",
         GoodSave(h, row)
  PROVE  LET g == Selected(h, d) IN
         /\ g \in WorkerRun /\ g.pc = "write" /\ g.delay = h.delay /\ g.torn = h.torn
         /\ g.phase = h.phase
         /\ g.row \in Row /\ Updated(g.row, g.diff, row) = h.row
         /\ GoodSave(g, row)
  <1> DEFINE e == Updated(h.row, d, Blank)
             g == [h EXCEPT !.pc = "write", !.row = e, !.diff = d]
  <1>1. e \in Row /\ d \in SUBSET Columns /\ Updated(e, d, row) = h.row
    BY UpdatedType, BlankType, ForgetfulUpdate, UpdateIsWhole, DiffsType
  <1>2. Selected(h, d) = g
    BY Zenon DEF Selected
  <1> HIDE DEF e
  <1>3. /\ g \in WorkerRun /\ g.pc = "write" /\ g.delay = h.delay /\ g.torn = h.torn
        /\ g.phase = h.phase /\ g.row = e /\ g.diff = d
    BY <1>1 DEF WorkerRun
  <1> HIDE DEF g
  <1>4. GoodSave(g, row)
    BY <1>1, <1>3 DEF GoodSave
  <1> QED BY <1>1, <1>2, <1>3, <1>4

\* An UPDATE between the two statements of h's save marks h, or changes nothing.
LEMMA OvertakenRequest ==
  ASSUME NEW h \in Request, GoodSave(h, row)
  PROVE  LET g == Overtaken(h) IN
         /\ g \in Request /\ g.pc = h.pc /\ g.delay = h.delay
         /\ GoodSave(g, row')
  <1>1. CASE h.pc = "write" /\ row' # row
    <2> DEFINE g == [h EXCEPT !.torn = TRUE]
    <2>1. Overtaken(h) = g
      BY <1>1, NothingIsNull DEF Overtaken
    <2>2. g \in Request /\ g.pc = h.pc /\ g.delay = h.delay /\ g.row = h.row /\ g.torn
      BY DEF Request
    <2> HIDE DEF g
    <2> QED BY <1>1, <2>1, <2>2 DEF GoodSave
  <1>2. CASE ~ (h.pc = "write" /\ row' # row)
    BY <1>2 DEF Overtaken, GoodSave
  <1> QED BY <1>1, <1>2

LEMMA OvertakenWorker ==
  ASSUME NEW h \in WorkerRun, GoodSave(h, row)
  PROVE  LET g == Overtaken(h) IN
         /\ g \in WorkerRun /\ g.pc = h.pc /\ g.delay = h.delay
         /\ GoodSave(g, row')
  <1>1. CASE h.pc = "write" /\ row' # row
    <2> DEFINE g == [h EXCEPT !.torn = TRUE]
    <2>1. Overtaken(h) = g
      BY <1>1, NothingIsNull DEF Overtaken
    <2>2. g \in WorkerRun /\ g.pc = h.pc /\ g.delay = h.delay /\ g.row = h.row /\ g.torn
      BY DEF WorkerRun
    <2> HIDE DEF g
    <2> QED BY <1>1, <2>1, <2>2 DEF GoodSave
  <1>2. CASE ~ (h.pc = "write" /\ row' # row)
    BY <1>2 DEF Overtaken, GoodSave
  <1> QED BY <1>1, <1>2

LEMMA OvertakenNobody == Overtaken(None) = None
  BY DEF Overtaken

-----------------------------------------------------------------------------
(* What the handlers make of a row is good.                                *)

LEMMA SoonerType ==
  ASSUME NEW t \in Int \cup {None}
  PROVE  Sooner(t) \in Int \cup {None} /\ (t # None <=> Sooner(t) # None)
  BY NothingIsNull DEF Sooner

LEMMA OlderRow ==
  ASSUME NEW r \in Row
  PROVE  /\ Older(r) = [phase |-> r.phase, deleted |-> r.deleted, left |-> Sooner(r.left),
                        rem |-> r.rem, focus |-> r.focus, brk |-> r.brk]
         /\ Older(r) \in Row
         /\ Consistent(r) => Consistent(Older(r))
  <1>1. Older(r) = [r EXCEPT !.left = Sooner(@)]
    BY NothingIsNull DEF Older
  <1>2. Sooner(r.left) \in Int \cup {None} /\ (r.left # None <=> Sooner(r.left) # None)
    BY SoonerType DEF Row
  <1>3. Older(r) = [phase |-> r.phase, deleted |-> r.deleted, left |-> Sooner(r.left),
                    rem |-> r.rem, focus |-> r.focus, brk |-> r.brk]
    BY <1>1 DEF Row
  <1>4. Older(r) \in Row
    BY <1>2, <1>3 DEF Row
  <1> QED BY <1>2, <1>3, <1>4 DEF Consistent

LEMMA OlderType ==
  ASSUME NEW e \in Row \cup {None}
  PROVE  Older(e) \in Row \cup {None}
  BY OlderRow DEF Older

\* Time passes for the entity and the row alike.
LEMMA OlderUpdate ==
  ASSUME NEW e \in Row, NEW d, NEW r \in Row
  PROVE  Updated(Older(e), d, Older(r)) = Older(Updated(e, d, r))
  <1> DEFINE a == Older(e)
             b == Older(r)
             u == Updated(e, d, r)
  <1>1. /\ a.phase = e.phase /\ a.deleted = e.deleted /\ a.left = Sooner(e.left)
        /\ a.rem = e.rem /\ a.focus = e.focus /\ a.brk = e.brk
    BY OlderRow
  <1>2. /\ b.phase = r.phase /\ b.deleted = r.deleted /\ b.left = Sooner(r.left)
        /\ b.rem = r.rem /\ b.focus = r.focus /\ b.brk = r.brk
    BY OlderRow
  <1>3. Older(u) = [phase |-> u.phase, deleted |-> u.deleted, left |-> Sooner(u.left),
                    rem |-> u.rem, focus |-> u.focus, brk |-> u.brk]
    BY UpdatedType, OlderRow
  <1>4. /\ u.phase = Column("phase", e, d, r) /\ u.deleted = Column("deleted", e, d, r)
        /\ u.left = Column("left", e, d, r)   /\ u.rem = Column("rem", e, d, r)
        /\ u.focus = Column("focus", e, d, r) /\ u.brk = Column("brk", e, d, r)
    BY DEF Updated
  <1> HIDE DEF a, b, u
  <1>5. /\ Column("phase", a, d, b) = u.phase /\ Column("deleted", a, d, b) = u.deleted
        /\ Column("left", a, d, b) = Sooner(u.left) /\ Column("rem", a, d, b) = u.rem
        /\ Column("focus", a, d, b) = u.focus /\ Column("brk", a, d, b) = u.brk
    BY <1>1, <1>2, <1>4 DEF Column
  <1>6. Updated(a, d, b) = Older(u)
    BY <1>3, <1>5 DEF Updated
  <1> QED BY <1>6 DEF a, b, u

LEMMA DurationsInt == \A d \in Durations : d \in Nat /\ d \in Int /\ d # None
  BY DurationsAssumption, NothingIsNull

LEMMA NextPhaseRowIsGood ==
  ASSUME row \in Row, NEW p \in Timed
  PROVE  GoodRow(NextPhaseRow(p)) /\ NextLength(p) \in Durations
  <1>1. /\ NextLength(p) \in Durations /\ NextLength(p) \in Int /\ NextLength(p) # None
        /\ NextPhase(p) \in Timed
    BY DurationsInt DEF NextLength, NextPhase, Timed, Row
  <1> QED BY <1>1 DEF NextPhaseRow, GoodRow, Consistent, Row, Phases, Timed

LEMMA AddType ==
  ASSUME job \in [Timed -> Job], NEW p \in Timed, NEW d \in Int, Add(p, d)
  PROVE  job' \in [Timed -> Job]
  <1>1. (IF d < 0 THEN 0 ELSE d) \in Nat
    OBVIOUS
  <1> QED BY <1>1 DEF Add, Job

-----------------------------------------------------------------------------
(* Every request begins with a good entity, or carries a torn one.         *)

LEMMA BeginIsGood ==
  ASSUME Good, NEW q \in Requests, NEW pc \in {"remove", "save", "delete"}, NEW e,
         NEW d \in Int \cup {None}, e \in Row \cup {None}, NEW carry \in BOOLEAN,
         pc # "delete" => e \in Row /\ ((carry /\ torn) \/ Consistent(e)),
         Begin(q, pc, e, d, carry)
  PROVE  Good'
  <1> DEFINE h == [pc |-> pc, row |-> e, delay |-> d, diff |-> {}, torn |-> carry /\ torn]
  <1>1. /\ h \in Request /\ h.pc = pc /\ h.row = e /\ h.delay = d
        /\ h.torn = (carry /\ torn)
    BY DEF Good, TypeOK, Request, Columns
  <1>2. req' = [req EXCEPT ![q] = h] /\ UNCHANGED <<row, torn, job, worker>>
    BY DEF Begin
  <1> HIDE DEF h
  <1>3. GoodSave(h, row) /\ h.pc # "add"
    BY <1>1 DEF GoodSave
  <1>4. TypeOK'
    BY <1>1, <1>2 DEF Good, TypeOK
  <1>5. GoodRequests'
    BY <1>2, <1>3 DEF Good, TypeOK, GoodRequests
  <1> QED BY <1>2, <1>4, <1>5 DEF Good, GoodWorker

HostStep(q) ==
  \/ StartTimer(q) \/ PauseTimer(q) \/ ResumeTimer(q) \/ RestartTimer(q)
  \/ ChangePomodoro(q) \/ UpdateRoom(q) \/ SoftDelete(q)

LEMMA RemainingType ==
  ASSUME row \in Row
  PROVE  Remaining \in Int /\ Remaining # None
  BY NothingIsNull DEF Remaining, Row

LEMMA HostIsGood ==
  ASSUME Good, NEW q \in Requests, HostStep(q)
  PROVE  Good'
  <1>0. row \in Row /\ (~torn => Consistent(row)) /\ torn \in BOOLEAN
    BY DEF Good, TypeOK
  <1>1. CASE StartTimer(q)
    <2> DEFINE e == [row EXCEPT !.phase = "FOCUS", !.left = row.focus]
    <2>1. row.focus \in Int /\ row.focus # None
      BY <1>0, DurationsInt DEF Row
    <2>2. GoodRow(e)
      BY <1>0, <2>1 DEF GoodRow, Consistent, Row, Phases, Timed
    <2>3. Begin(q, "save", e, row.focus, FALSE)
      BY <1>1 DEF StartTimer
    <2> HIDE DEF e
    <2> QED BY <2>1, <2>2, <2>3, BeginIsGood DEF GoodRow
  <1>2. CASE PauseTimer(q)
    <2> DEFINE e == [row EXCEPT !.phase = "PAUSED", !.left = None, !.rem = row.left]
    <2>1. GoodRow(e)
      BY <1>0, <1>2 DEF PauseTimer, GoodRow, Consistent, Row, Phases, Timed
    <2>2. Begin(q, "remove", e, None, FALSE)
      BY <1>2 DEF PauseTimer
    <2> HIDE DEF e
    <2> QED BY <2>1, <2>2, BeginIsGood DEF GoodRow
  <1>3. CASE ResumeTimer(q)
    <2> DEFINE m == Remaining
               e == [row EXCEPT !.phase = "FOCUS", !.left = m, !.rem = None]
    <2>1. m \in Int /\ m # None
      BY <1>0, RemainingType
    <2> HIDE DEF m
    <2>2. GoodRow(e)
      BY <1>0, <2>1 DEF GoodRow, Consistent, Row, Phases, Timed
    <2>3. Begin(q, "save", e, m, FALSE)
      BY <1>3 DEF ResumeTimer, m
    <2> HIDE DEF e
    <2> QED BY <2>1, <2>2, <2>3, BeginIsGood DEF GoodRow
  <1>4. CASE RestartTimer(q)
    <2> DEFINE e == [row EXCEPT !.phase = "IDLE", !.left = None, !.rem = None]
    <2>1. GoodRow(e)
      BY <1>0 DEF GoodRow, Consistent, Row, Phases, Timed
    <2>2. Begin(q, "save", e, None, FALSE)
      BY <1>4 DEF RestartTimer
    <2> HIDE DEF e
    <2> QED BY <2>1, <2>2, BeginIsGood DEF GoodRow
  <1>5. CASE ChangePomodoro(q)
    <2>1. PICK f, b \in Durations :
            Begin(q, "save", [row EXCEPT !.focus = f, !.brk = b], None, TRUE)
      BY <1>5 DEF ChangePomodoro
    <2> DEFINE e == [row EXCEPT !.focus = f, !.brk = b]
    <2>2. e \in Row /\ (~torn => Consistent(e))
      BY <1>0 DEF Consistent, Row
    <2>3. Begin(q, "save", e, None, TRUE)
      BY <2>1
    <2> HIDE DEF e
    <2> QED BY <2>2, <2>3, BeginIsGood
  <1>6. CASE UpdateRoom(q)
    BY <1>0, <1>6, BeginIsGood DEF UpdateRoom
  <1>7. CASE SoftDelete(q)
    BY <1>7, BeginIsGood DEF SoftDelete
  <1> QED BY <1>1, <1>2, <1>3, <1>4, <1>5, <1>6, <1>7 DEF HostStep

\* The handlers that another's UPDATE passes by.
LEMMA OthersGood ==
  ASSUME Good, NEW q \in Requests, req[q] # None,
         NEW g, g = Overtaken(req[q])
  PROVE  g \in Request /\ GoodSave(g, row') /\ (g.pc = "add" => g.delay \in Int)
  <1>1. req[q] \in Request /\ GoodSave(req[q], row) /\ (req[q].pc = "add" => req[q].delay \in Int)
    BY DEF Good, TypeOK, GoodRequests
  <1> QED BY <1>1, OvertakenRequest

LEMMA RequestIsGood ==
  ASSUME Good, NEW q \in Requests, RequestStep(q) \/ RequestFail(q)
  PROVE  Good'
  <1> USE DEF TypeOK
  <1>0. TypeOK /\ (~torn => Consistent(row)) /\ GoodRequests /\ GoodWorker
    BY DEF Good
  <1>1. CASE RequestRemove(q)
    <2>1. req[q] \in Request /\ GoodSave(req[q], row)
      BY <1>0, <1>1 DEF RequestRemove, GoodRequests
    <2>2. job' \in [Timed -> Job]
      BY <1>0, <1>1 DEF RequestRemove, Remove, Job, NoJob
    <2>3. PICK g \in Request : g = [req[q] EXCEPT !.pc = "save"]
      BY <2>1 DEF Request
    <2>4. g.pc = "save" /\ GoodSave(g, row)
      BY <1>1, <2>1, <2>3 DEF RequestRemove, Request, GoodSave
    <2>5. req' = [req EXCEPT ![q] = g] /\ UNCHANGED <<row, torn, worker>>
      BY <1>1, <2>3 DEF RequestRemove
    <2>6. req' \in [Requests -> Request \cup {None}] /\ GoodRequests'
      BY <1>0, <2>4, <2>5 DEF GoodRequests
    <2> QED BY <1>0, <2>2, <2>5, <2>6 DEF Good, GoodWorker
  <1>2. CASE RequestSelect(q)
    <2>1. /\ req[q] \in Request /\ req[q].pc = "save" /\ req[q].row \in Row
          /\ GoodSave(req[q], row)
      BY <1>0, <1>2 DEF RequestSelect, GoodRequests, GoodSave
    <2>2. PICK d \in Diffs(req[q].row) : req' = [req EXCEPT ![q] = Selected(req[q], d)]
      BY <1>0, <1>2 DEF RequestSelect
    <2>3. PICK g \in Request : g = Selected(req[q], d) /\ GoodSave(g, row) /\ g.pc = "write"
      BY <1>0, <2>1, SelectedRequest
    <2>4. req' = [req EXCEPT ![q] = g] /\ UNCHANGED <<row, torn, job, worker>>
      BY <1>2, <2>2, <2>3 DEF RequestSelect
    <2>5. req' \in [Requests -> Request \cup {None}] /\ GoodRequests'
      BY <1>0, <2>3, <2>4 DEF GoodRequests
    <2> QED BY <1>0, <2>4, <2>5 DEF Good, GoodWorker
  <1>3. CASE RequestUpdate(q)
    <2>1. /\ req[q] # None /\ req[q] \in Request /\ req[q].pc = "write"
          /\ GoodSave(req[q], row) /\ Store(req[q]) /\ UNCHANGED job
          /\ worker' = Overtaken(worker)
      BY <1>0, <1>3 DEF RequestUpdate, GoodRequests
    <2>2. row' \in Row /\ torn' \in BOOLEAN /\ (~torn' => Consistent(row'))
      BY <1>0, <2>1, StoreIsGood DEF Request
    <2>3. ASSUME NEW r \in Requests \ {q}
          PROVE  /\ req'[r] \in Request \cup {None}
                 /\ req'[r] # None => /\ GoodSave(req'[r], row')
                                      /\ req'[r].pc = "add" => req'[r].delay \in Int
      <3>1. req'[r] = Overtaken(req[r])
        BY <1>3 DEF RequestUpdate
      <3>2. CASE req[r] = None
        BY <3>1, <3>2, OvertakenNobody
      <3>3. CASE req[r] # None
        BY <3>1, <3>3, OthersGood
      <3> QED BY <3>2, <3>3
    <2>4. /\ req'[q] \in Request \cup {None}
          /\ req'[q] # None => /\ GoodSave(req'[q], row')
                               /\ req'[q].pc = "add" => req'[q].delay \in Int
      <3>1. CASE req[q].delay = None
        BY <1>3, <3>1 DEF RequestUpdate
      <3>2. CASE req[q].delay # None
        <4>1. PICK g \in Request : g = [req[q] EXCEPT !.pc = "add", !.row = None,
                                                      !.diff = {}, !.torn = FALSE]
          BY <2>1 DEF Request
        <4>2. req'[q] = g
          BY <1>3, <3>2, <4>1 DEF RequestUpdate
        <4>3. g.pc = "add" /\ g.delay = req[q].delay /\ req[q].delay \in Int
          BY <2>1, <3>2, <4>1 DEF Request
        <4> QED BY <4>2, <4>3 DEF GoodSave
      <3> QED BY <3>1, <3>2
    <2>5. req' \in [Requests -> Request \cup {None}] /\ GoodRequests'
      <3>1. req' = [r \in Requests |-> req'[r]]
        BY <1>3 DEF RequestUpdate
      <3> QED BY <2>3, <2>4, <3>1 DEF GoodRequests
    <2>6. worker' \in WorkerRun \cup {None} /\ GoodWorker'
      <3>1. CASE worker = None
        BY <2>1, <3>1, OvertakenNobody DEF GoodWorker
      <3>2. CASE worker # None
        BY <1>0, <2>1, <3>2, OvertakenWorker DEF GoodWorker
      <3> QED BY <3>1, <3>2
    <2> QED BY <1>0, <2>1, <2>2, <2>5, <2>6 DEF Good
  <1>4. CASE RequestAdd(q)
    <2>1. job' \in [Timed -> Job]
      BY <1>0, <1>4, AddType DEF RequestAdd, GoodRequests, Timed
    <2>2. GoodRequests' /\ req' \in [Requests -> Request \cup {None}]
      BY <1>0, <1>4 DEF RequestAdd, GoodRequests
    <2> QED BY <1>0, <1>4, <2>1, <2>2 DEF RequestAdd, Good, GoodWorker
  <1>5. CASE RequestDelete(q)
    <2>1. row' = [row EXCEPT !.deleted = TRUE] /\ UNCHANGED <<torn, job, worker>>
      BY <1>5 DEF RequestDelete
    <2>2. row' \in Row /\ (~torn => Consistent(row'))
      BY <1>0, <2>1 DEF Consistent, Row
    <2>3. ASSUME NEW h, GoodSave(h, row) PROVE GoodSave(h, row')
      BY <1>0, <2>1, <2>2, <2>3, UpdateDeleted DEF GoodSave
    <2>4. GoodRequests' /\ req' \in [Requests -> Request \cup {None}]
      <3>1. req' = [req EXCEPT ![q] = None]
        BY <1>5 DEF RequestDelete
      <3> QED BY <1>0, <2>3, <3>1 DEF GoodRequests
    <2>5. GoodWorker'
      BY <1>0, <2>1, <2>3 DEF GoodWorker
    <2> QED BY <1>0, <2>1, <2>2, <2>4, <2>5 DEF Good
  <1>6. CASE RequestFail(q)
    <2>1. GoodRequests' /\ req' \in [Requests -> Request \cup {None}]
      BY <1>0, <1>6 DEF RequestFail, GoodRequests
    <2> QED BY <1>0, <1>6, <2>1 DEF RequestFail, Good, GoodWorker
  <1> QED BY <1>1, <1>2, <1>3, <1>4, <1>5, <1>6 DEF RequestStep

LEMMA WorkerIsGood ==
  ASSUME Good, WorkerStep \/ WorkerFail \/ Crash \/ \E p \in Timed : WorkerTake(p)
  PROVE  Good'
  <1> USE DEF TypeOK
  <1>0. TypeOK /\ (~torn => Consistent(row)) /\ GoodRequests /\ GoodWorker
    BY DEF Good
  <1>1. ASSUME NEW p \in Timed, WorkerTake(p) PROVE Good'
    <2>1. job' \in [Timed -> Job]
      BY <1>0, <1>1 DEF WorkerTake, Job
    <2>2. worker' \in WorkerRun /\ worker'.pc = "read"
      BY <1>1 DEF WorkerTake, WorkerRun, Columns
    <2> QED BY <1>0, <1>1, <2>1, <2>2 DEF WorkerTake, Good, GoodWorker, GoodSave, GoodRequests
  <1>2. CASE WorkerDrop
    <2>1. worker \in WorkerRun
      BY <1>0, <1>2 DEF WorkerDrop
    <2>2. worker' \in WorkerRun /\ worker'.pc = "finish"
      BY <1>2, <2>1 DEF WorkerDrop, WorkerRun
    <2> QED BY <1>0, <1>2, <2>2 DEF WorkerDrop, Good, GoodWorker, GoodSave, GoodRequests
  <1>3. CASE WorkerRead
    <2>1. worker \in WorkerRun /\ worker.phase \in Timed
      BY <1>0, <1>3 DEF WorkerRead, WorkerRun
    <2> DEFINE e == NextPhaseRow(worker.phase)
               d == NextLength(worker.phase)
    <2>2. worker' = [worker EXCEPT !.pc = "save", !.row = e, !.delay = d]
      BY <1>3 DEF WorkerRead
    <2>3. GoodRow(e) /\ e \in Row /\ d \in Durations
      BY <1>0, <2>1, NextPhaseRowIsGood DEF GoodRow
    <2> HIDE DEF e, d
    <2>4. /\ worker' \in WorkerRun /\ worker'.pc = "save" /\ worker'.row = e
          /\ worker'.delay = d
      BY <2>1, <2>2, <2>3 DEF WorkerRun
    <2>5. GoodSave(worker', row)
      BY <2>3, <2>4 DEF GoodSave, GoodRow
    <2> QED BY <1>0, <1>3, <2>3, <2>4, <2>5 DEF WorkerRead, Good, GoodWorker, GoodRequests
  <1>4. CASE WorkerSelect
    <2>1. /\ worker \in WorkerRun /\ worker.pc = "save" /\ worker.row \in Row
          /\ GoodSave(worker, row) /\ worker.delay \in Durations
      BY <1>0, <1>4 DEF WorkerSelect, GoodWorker, GoodSave
    <2>2. PICK d \in Diffs(worker.row) : worker' = Selected(worker, d)
      BY <1>4 DEF WorkerSelect
    <2>3. worker' \in WorkerRun /\ GoodSave(worker', row) /\ worker'.delay = worker.delay
      BY <1>0, <2>1, <2>2, SelectedWorker
    <2> QED BY <1>0, <1>4, <2>1, <2>3 DEF WorkerSelect, Good, GoodWorker, GoodRequests
  <1>5. CASE WorkerUpdate
    <2>1. /\ worker # None /\ worker \in WorkerRun /\ worker.pc = "write"
          /\ GoodSave(worker, row) /\ Store(worker) /\ UNCHANGED job
          /\ worker.delay \in Durations
      BY <1>0, <1>5 DEF WorkerUpdate, GoodWorker
    <2>2. row' \in Row /\ torn' \in BOOLEAN /\ (~torn' => Consistent(row'))
      BY <1>0, <2>1, StoreIsGood DEF WorkerRun
    <2>3. ASSUME NEW q \in Requests
          PROVE  /\ req'[q] \in Request \cup {None}
                 /\ req'[q] # None => /\ GoodSave(req'[q], row')
                                      /\ req'[q].pc = "add" => req'[q].delay \in Int
      <3>1. req'[q] = Overtaken(req[q])
        BY <1>5 DEF WorkerUpdate
      <3>2. CASE req[q] = None
        BY <3>1, <3>2, OvertakenNobody
      <3>3. CASE req[q] # None
        BY <3>1, <3>3, OthersGood
      <3> QED BY <3>2, <3>3
    <2>4. req' \in [Requests -> Request \cup {None}] /\ GoodRequests'
      <3>1. req' = [q \in Requests |-> req'[q]]
        BY <1>5 DEF WorkerUpdate
      <3> QED BY <2>3, <3>1 DEF GoodRequests
    <2>5. worker' \in WorkerRun /\ worker'.pc = "add" /\ worker'.delay = worker.delay
      BY <1>5, <2>1 DEF WorkerUpdate, WorkerRun, Columns
    <2> QED BY <1>0, <2>1, <2>2, <2>4, <2>5 DEF Good, GoodWorker, GoodSave
  <1>6. CASE WorkerAdd
    <2>1. worker \in WorkerRun /\ worker.delay \in Int
      BY <1>0, <1>6, DurationsInt DEF WorkerAdd, GoodWorker
    <2>2. NextPhase(worker.phase) \in Timed
      BY DEF NextPhase, Timed
    <2>3. job' \in [Timed -> Job]
      BY <1>0, <1>6, <2>1, <2>2, AddType DEF WorkerAdd
    <2>4. worker' \in WorkerRun /\ worker'.pc = "finish"
      BY <1>6, <2>1 DEF WorkerAdd, WorkerRun
    <2> QED BY <1>0, <1>6, <2>3, <2>4 DEF WorkerAdd, Good, GoodWorker, GoodSave, GoodRequests
  <1>7. CASE WorkerFinish
    <2>1. job' \in [Timed -> Job]
      BY <1>0, <1>7 DEF WorkerFinish, Job, NoJob
    <2> QED BY <1>0, <1>7, <2>1 DEF WorkerFinish, Good, GoodWorker, GoodRequests
  <1>8. CASE WorkerFail
    <2>1. job' \in [Timed -> Job]
      BY <1>0, <1>8 DEF WorkerFail, Job
    <2> QED BY <1>0, <1>8, <2>1 DEF WorkerFail, Good, GoodWorker, GoodRequests
  <1>9. CASE Crash
    <2>1. job' \in [Timed -> Job]
      BY <1>0, <1>9 DEF Crash, Job
    <2> QED BY <1>0, <1>9, <2>1 DEF Crash, Good, GoodWorker, GoodRequests
  <1> QED BY <1>1, <1>2, <1>3, <1>4, <1>5, <1>6, <1>7, <1>8, <1>9 DEF WorkerStep

\* A handler's locals, a tick later.
LEMMA OlderRequest ==
  ASSUME NEW h \in Request
  PROVE  LET g == [h EXCEPT !.row = Older(@)] IN
         /\ g \in Request /\ g.pc = h.pc /\ g.delay = h.delay /\ g.diff = h.diff
         /\ g.torn = h.torn /\ g.row = Older(h.row)
  <1>1. Older(h.row) \in Row \cup {None}
    BY OlderType DEF Request
  <1> QED BY <1>1 DEF Request

LEMMA OlderWorker ==
  ASSUME NEW h \in WorkerRun
  PROVE  LET g == [h EXCEPT !.row = Older(@)] IN
         /\ g \in WorkerRun /\ g.pc = h.pc /\ g.delay = h.delay /\ g.diff = h.diff
         /\ g.torn = h.torn /\ g.row = Older(h.row) /\ g.phase = h.phase
  <1>1. Older(h.row) \in Row \cup {None}
    BY OlderType DEF WorkerRun
  <1> QED BY <1>1 DEF WorkerRun

LEMMA OlderSave ==
  ASSUME NEW h, NEW g, row \in Row, GoodSave(h, row), g.pc = h.pc, g.diff = h.diff,
         g.torn = h.torn, g.row = Older(h.row)
  PROVE  GoodSave(g, Older(row))
  <1>1. CASE h.pc \in {"remove", "save"}
    BY <1>1, OlderRow DEF GoodSave
  <1>2. CASE h.pc = "write"
    <2>1. h.row \in Row /\ Updated(h.row, h.diff, row) \in Row
      BY <1>2, UpdatedType DEF GoodSave
    <2>2. Updated(g.row, g.diff, Older(row)) = Older(Updated(h.row, h.diff, row))
      BY <2>1, OlderUpdate
    <2> QED BY <1>2, <2>1, <2>2, OlderRow DEF GoodSave
  <1> QED BY <1>1, <1>2 DEF GoodSave

LEMMA TickIsGood ==
  ASSUME Good, Tick
  PROVE  Good'
  <1>0. TypeOK /\ (~torn => Consistent(row)) /\ GoodRequests /\ GoodWorker /\ row \in Row
    BY DEF Good, TypeOK
  <1>1. row' = Older(row) /\ row' \in Row /\ torn' = torn /\ (~torn' => Consistent(row'))
    BY <1>0, OlderRow DEF Tick
  <1>2. job' \in [Timed -> Job]
    BY <1>0 DEF Tick, TypeOK, Job
  <1>3. ASSUME NEW q \in Requests
        PROVE  /\ req'[q] \in Request \cup {None}
               /\ req'[q] # None => /\ GoodSave(req'[q], row')
                                    /\ req'[q].pc = "add" => req'[q].delay \in Int
    <2>1. req'[q] = IF req[q] = None THEN None ELSE [req[q] EXCEPT !.row = Older(@)]
      BY DEF Tick
    <2>2. CASE req[q] = None
      BY <2>1, <2>2
    <2>3. CASE req[q] # None
      <3>1. /\ req[q] \in Request /\ GoodSave(req[q], row)
            /\ req[q].pc = "add" => req[q].delay \in Int
        BY <1>0, <2>3 DEF TypeOK, GoodRequests
      <3>2. req'[q] = [req[q] EXCEPT !.row = Older(@)]
        BY <2>1, <2>3
      <3>3. /\ req'[q] \in Request /\ req'[q].pc = req[q].pc /\ req'[q].delay = req[q].delay
            /\ req'[q].diff = req[q].diff /\ req'[q].torn = req[q].torn
            /\ req'[q].row = Older(req[q].row)
        BY <3>1, <3>2, OlderRequest
      <3>4. GoodSave(req'[q], row')
        BY <1>0, <1>1, <3>1, <3>3, OlderSave
      <3> QED BY <3>1, <3>3, <3>4
    <2> QED BY <2>2, <2>3
  <1>4. worker' \in WorkerRun \cup {None} /\ GoodWorker'
    <2>1. CASE worker = None
      BY <2>1 DEF Tick, GoodWorker
    <2>2. CASE worker # None
      <3>1. worker \in WorkerRun /\ GoodSave(worker, row)
        BY <1>0, <2>2 DEF TypeOK, GoodWorker
      <3>2. worker' = [worker EXCEPT !.row = Older(@)]
        BY <2>2 DEF Tick
      <3>3. /\ worker' \in WorkerRun /\ worker'.pc = worker.pc /\ worker'.delay = worker.delay
            /\ worker'.diff = worker.diff /\ worker'.torn = worker.torn
            /\ worker'.row = Older(worker.row)
        BY <3>1, <3>2, OlderWorker
      <3>4. GoodSave(worker', row')
        BY <1>0, <1>1, <3>1, <3>3, OlderSave
      <3> QED BY <1>0, <2>2, <3>3, <3>4 DEF GoodWorker
    <2> QED BY <2>1, <2>2
  <1>5. req' \in [Requests -> Request \cup {None}] /\ GoodRequests'
    BY <1>3 DEF Tick, GoodRequests
  <1> QED BY <1>0, <1>1, <1>2, <1>4, <1>5 DEF Good, TypeOK

LEMMA GoodNext == Good /\ [Next]_vars => Good'
  <1> SUFFICES ASSUME Good, [Next]_vars PROVE Good'
    OBVIOUS
  <1>1. CASE UNCHANGED vars
    BY <1>1 DEF vars, Good, TypeOK, GoodRequests, GoodWorker
  <1>2. CASE Next
    BY <1>2, HostIsGood, RequestIsGood, WorkerIsGood, TickIsGood DEF Next, HostStep
  <1> QED BY <1>1, <1>2

LEMMA GoodAlways == Spec => []Good
  BY GoodInit, GoodNext, PTL DEF Spec

\* The row, the jobs, the requests and the worker keep their types; in
\* particular no job is added with a negative or a missing delay.
THEOREM TimerTypeCorrect == Spec => []TypeOK
  <1>1. Good => TypeOK
    BY DEF Good
  <1> QED BY <1>1, GoodAlways, PTL

\* The handlers' non-null assertions meet a null only in a row that the UPDATEs
\* of two saves have mixed, for any overlap of handlers, any failures and any
\* crashes; a save that is merely stale makes no such row.
THEOREM AssertionsHold == Spec => []RowConsistent
  <1>1. Good => RowConsistent
    BY DEF Good, RowConsistent
  <1> QED BY <1>1, GoodAlways, PTL

(***************************************************************************)
(* The handlers one at a time, and none of them fails: then the queue      *)
(* holds what the row needs, or the one handler that runs will see to it.  *)
(***************************************************************************)

OneAtATime == MaxInFlight = 1 /\ ~MayFail

\* With the jobs j, a row r ends as it shows, and no focus job is left over.
Armed(r, j) ==
  ~r.deleted =>
    /\ r.phase \in Timed => j[r.phase].st = "delayed"
    /\ r.phase = "FOCUS" => j["FOCUS"].left >= r.left
    /\ r.phase # "FOCUS" => j["FOCUS"].st = "none"

\* The same, but for the job of phase p, which the worker holds.
ArmedBut(r, j, p) ==
  ~r.deleted =>
    /\ r.phase \in Timed \ {p} => j[r.phase].st = "delayed"
    /\ p = "BREAK" => /\ r.phase = "FOCUS" => j["FOCUS"].left >= r.left
                      /\ r.phase # "FOCUS" => j["FOCUS"].st = "none"

\* The changes of phase a host's request may save.
Turns == {<<"IDLE", "FOCUS">>, <<"BREAK", "FOCUS">>, <<"FOCUS", "PAUSED">>,
          <<"PAUSED", "FOCUS">>, <<"PAUSED", "IDLE">>}

\* A request with locals h that makes row r the entity e leaves it and the jobs
\* j armed, once it has added its job.
Saves(h, e, r, j) ==
  /\ ~e.deleted
  /\ r.phase = e.phase \/ <<r.phase, e.phase>> \in Turns
  /\ h.delay = None => Armed(e, j)
  /\ h.delay # None => e.phase = "FOCUS" /\ h.delay >= e.left /\ j["FOCUS"].st = "none"

\* A request with locals h will leave row r and jobs j armed.
Handling(h, r, j) ==
  /\ ~r.deleted /\ ~h.torn
  /\ h.pc = "remove" =>
       r.phase = "FOCUS" /\ h.row.phase = "PAUSED" /\ ~h.row.deleted /\ h.delay = None
  /\ h.pc = "save"  => Saves(h, h.row, r, j)
  /\ h.pc = "write" => Saves(h, Updated(h.row, h.diff, r), r, j)
  /\ h.pc = "add" => r.phase = "FOCUS" /\ h.delay >= r.left /\ j["FOCUS"].st = "none"

\* A worker with locals w turns row r over into e.
TurnsOver(w, e, r, j) ==
  /\ ~r.deleted /\ r.phase = w.phase
  /\ ~e.deleted /\ e.phase = NextPhase(w.phase)
  /\ w.phase = "BREAK" => w.delay >= e.left /\ j["FOCUS"].st = "none"

\* So will a worker with locals w.
Working(w, r, j) ==
  /\ ~w.torn
  /\ w.pc = "read" => ArmedBut(r, j, w.phase)
  /\ w.pc = "finish" => ArmedBut(r, j, w.phase) /\ (~r.deleted => r.phase # w.phase)
  /\ w.pc = "save"  => TurnsOver(w, w.row, r, j)
  /\ w.pc = "write" => TurnsOver(w, Updated(w.row, w.diff, r), r, j)
  /\ w.pc = "add" =>
       /\ ~r.deleted /\ r.phase = NextPhase(w.phase)
       /\ w.phase = "BREAK" => w.delay >= r.left /\ j["FOCUS"].st = "none"

Serial ==
  /\ ~torn
  /\ \A p \in Timed : /\ job[p].st = "active" <=> worker # None /\ worker.phase = p
                      /\ job[p].st # "failed"
  /\ \A q, r \in Busy : q = r
  /\ worker # None => Busy = {} /\ Working(worker, row, job)
  /\ \A q \in Busy : Handling(req[q], row, job)
  /\ Quiescent => Armed(row, job)

LEMMA SerialInit == Init => Serial
  <1> SUFFICES ASSUME Init PROVE Serial
    OBVIOUS
  <1>1. row.phase = "IDLE" /\ row.phase \notin Timed
    BY DEF Init, NewRow, Timed
  <1> QED BY <1>1 DEF Init, Serial, Busy, Quiescent, Armed, NoJob, Timed

\* A row that is not torn is consistent.
LEMMA SerialRow ==
  ASSUME Good, Serial
  PROVE  row \in Row /\ Consistent(row) /\ GoodRow(row)
  BY DEF Good, TypeOK, Serial, GoodRow

\* A handler starts only when none runs.
LEMMA NobodyElse ==
  ASSUME OneAtATime, Serial, InFlight < MaxInFlight
  PROVE  Quiescent
  <1>1. CASE worker # None
    <2>1. Cardinality(Busy) = 0
      BY <1>1, FS_EmptySet DEF Serial
    <2> QED BY <1>1, <2>1 DEF InFlight, OneAtATime
  <1>2. CASE worker = None /\ Busy # {}
    <2>1. PICK q \in Busy : Busy = {q}
      BY <1>2 DEF Serial
    <2>2. Cardinality(Busy) = 1
      BY <2>1, FS_Singleton
    <2> QED BY <1>2, <2>2 DEF InFlight, OneAtATime
  <1> QED BY <1>1, <1>2 DEF Quiescent

\* The request that runs is the only handler.
LEMMA OnlyRequest ==
  ASSUME Serial, NEW q \in Requests, req[q] # None
  PROVE  /\ Busy = {q} /\ worker = None /\ Handling(req[q], row, job)
         /\ \A p \in Timed : job[p].st \notin {"active", "failed"}
  <1>1. q \in Busy
    BY DEF Busy
  <1> QED BY <1>1 DEF Serial

LEMMA BeginIsSerial ==
  ASSUME OneAtATime, Serial, req \in [Requests -> Request \cup {None}], NEW q \in Requests,
         NEW pc, NEW e, NEW d, NEW carry \in BOOLEAN, Begin(q, pc, e, d, carry),
         Quiescent => Handling([pc |-> pc, row |-> e, delay |-> d, diff |-> {},
                                torn |-> FALSE], row, job)
  PROVE  Serial'
  <1> DEFINE h == [pc |-> pc, row |-> e, delay |-> d, diff |-> {}, torn |-> FALSE]
  <1>1. Quiescent /\ (carry /\ torn) = FALSE
    BY NobodyElse DEF Begin, Serial
  <1>2. req' = [req EXCEPT ![q] = h] /\ UNCHANGED <<row, torn, job, worker>>
    BY <1>1 DEF Begin
  <1>3. Busy' \subseteq {q} /\ req'[q] = h
    BY <1>1, <1>2 DEF Busy, Quiescent
  <1>4. Handling(h, row, job)
    BY <1>1
  <1> HIDE DEF h
  <1>5. worker = None /\ Armed(row, job)
    BY <1>1 DEF Quiescent, Serial
  <1>6. \A r \in Busy' : Handling(req'[r], row', job')
    BY <1>2, <1>3, <1>4
  <1>7. \A p \in Timed : job'[p].st \notin {"active", "failed"}
    BY <1>2, <1>5 DEF Serial
  <1> QED BY <1>2, <1>3, <1>5, <1>6, <1>7 DEF Serial

\* The locals with which a handler that saves begins.
LEMMA BeginsToSave ==
  ASSUME NEW e, NEW d, ~row.deleted,
         Quiescent => Saves([pc |-> "save", row |-> e, delay |-> d, diff |-> {},
                             torn |-> FALSE], e, row, job)
  PROVE  Quiescent => Handling([pc |-> "save", row |-> e, delay |-> d, diff |-> {},
                                torn |-> FALSE], row, job)
  BY DEF Handling

LEMMA HostIsSerial ==
  ASSUME OneAtATime, Good, Serial, NEW q \in Requests, HostStep(q)
  PROVE  Serial'
  <1>0. row \in Row /\ Consistent(row) /\ req \in [Requests -> Request \cup {None}]
    BY SerialRow DEF Good, TypeOK
  <1>a. Quiescent => Armed(row, job)
    BY DEF Serial
  <1>1. CASE StartTimer(q)
    <2> DEFINE e == [row EXCEPT !.phase = "FOCUS", !.left = row.focus]
               h == [pc |-> "save", row |-> e, delay |-> row.focus, diff |-> {}, torn |-> FALSE]
    <2>1. Begin(q, "save", e, row.focus, FALSE) /\ ~row.deleted
            /\ row.phase \in {"IDLE", "BREAK"}
      BY <1>1 DEF StartTimer, Begin
    <2>2. row.focus # None /\ row.focus >= row.focus
      BY <1>0, DurationsInt DEF Row
    <2>3. e.phase = "FOCUS" /\ e.left = row.focus /\ ~e.deleted /\ h.delay = row.focus
      BY <1>0, <2>1 DEF Row
    <2> HIDE DEF e
    <2>4. Quiescent => Saves(h, e, row, job)
      BY <1>a, <2>1, <2>2, <2>3 DEF Saves, Armed, Turns
    <2> QED BY <1>0, <2>1, <2>4, BeginsToSave, BeginIsSerial
  <1>2. CASE PauseTimer(q)
    <2> DEFINE e == [row EXCEPT !.phase = "PAUSED", !.left = None, !.rem = row.left]
    <2>1. Begin(q, "remove", e, None, FALSE) /\ ~row.deleted /\ row.phase = "FOCUS"
      BY <1>2 DEF PauseTimer, Begin
    <2>2. e.phase = "PAUSED" /\ ~e.deleted
      BY <1>0, <2>1 DEF Row
    <2> HIDE DEF e
    <2>3. Handling([pc |-> "remove", row |-> e, delay |-> None, diff |-> {}, torn |-> FALSE],
                   row, job)
      BY <2>1, <2>2 DEF Handling
    <2> QED BY <1>0, <2>1, <2>3, BeginIsSerial
  <1>3. CASE ResumeTimer(q)
    <2> DEFINE m == Remaining
               e == [row EXCEPT !.phase = "FOCUS", !.left = m, !.rem = None]
               h == [pc |-> "save", row |-> e, delay |-> m, diff |-> {}, torn |-> FALSE]
    <2>1. Begin(q, "save", e, m, FALSE) /\ ~row.deleted /\ row.phase = "PAUSED"
      BY <1>3 DEF ResumeTimer, Begin
    <2>2. m # None /\ m >= m
      BY <1>0, RemainingType
    <2> HIDE DEF m
    <2>3. e.phase = "FOCUS" /\ e.left = m /\ ~e.deleted /\ h.delay = m
      BY <1>0, <2>1 DEF Row
    <2> HIDE DEF e
    <2>4. Quiescent => Saves(h, e, row, job)
      BY <1>a, <2>1, <2>2, <2>3 DEF Saves, Armed, Turns
    <2> QED BY <1>0, <2>1, <2>4, BeginsToSave, BeginIsSerial
  <1>4. CASE RestartTimer(q)
    <2> DEFINE e == [row EXCEPT !.phase = "IDLE", !.left = None, !.rem = None]
               h == [pc |-> "save", row |-> e, delay |-> None, diff |-> {}, torn |-> FALSE]
    <2>1. Begin(q, "save", e, None, FALSE) /\ ~row.deleted /\ row.phase = "PAUSED"
      BY <1>4 DEF RestartTimer, Begin
    <2>2. e.phase = "IDLE" /\ ~e.deleted /\ h.delay = None
      BY <1>0, <2>1 DEF Row
    <2> HIDE DEF e
    <2>3. Quiescent => Saves(h, e, row, job)
      BY <1>a, <2>1, <2>2 DEF Saves, Armed, Turns, Timed
    <2> QED BY <1>0, <2>1, <2>3, BeginsToSave, BeginIsSerial
  <1>5. CASE ChangePomodoro(q)
    <2>1. PICK f, b \in Durations :
            Begin(q, "save", [row EXCEPT !.focus = f, !.brk = b], None, TRUE)
      BY <1>5 DEF ChangePomodoro
    <2> DEFINE e == [row EXCEPT !.focus = f, !.brk = b]
               h == [pc |-> "save", row |-> e, delay |-> None, diff |-> {}, torn |-> FALSE]
    <2>2. ~row.deleted /\ row.phase = "IDLE" /\ Begin(q, "save", e, None, TRUE)
      BY <1>5, <2>1 DEF ChangePomodoro, Begin
    <2>3. e.phase = "IDLE" /\ ~e.deleted /\ h.delay = None
      BY <1>0, <2>2 DEF Row
    <2> HIDE DEF e
    <2>4. Quiescent => Saves(h, e, row, job)
      BY <1>a, <2>2, <2>3 DEF Saves, Armed, Timed
    <2> QED BY <1>0, <2>2, <2>4, BeginsToSave, BeginIsSerial
  <1>6. CASE UpdateRoom(q)
    <2> DEFINE h == [pc |-> "save", row |-> row, delay |-> None, diff |-> {}, torn |-> FALSE]
    <2>1. Begin(q, "save", row, None, TRUE) /\ ~row.deleted
      BY <1>6 DEF UpdateRoom, Begin
    <2>2. Quiescent => Saves(h, row, row, job)
      BY <1>a, <2>1 DEF Saves
    <2> QED BY <1>0, <2>1, <2>2, BeginsToSave, BeginIsSerial
  <1>7. CASE SoftDelete(q)
    <2>1. Begin(q, "delete", None, None, FALSE) /\ ~row.deleted
      BY <1>7 DEF SoftDelete, Begin
    <2>2. Handling([pc |-> "delete", row |-> None, delay |-> None, diff |-> {},
                    torn |-> FALSE], row, job)
      BY <2>1 DEF Handling
    <2> QED BY <1>0, <2>1, <2>2, BeginIsSerial
  <1> QED BY <1>1, <1>2, <1>3, <1>4, <1>5, <1>6, <1>7 DEF HostStep

\* The request that runs ends, and leaves the row armed.
LEMMA RequestEnds ==
  ASSUME Serial, NEW q \in Requests, req[q] # None,
         req \in [Requests -> Request \cup {None}],
         req' = [req EXCEPT ![q] = None], worker' = worker, Armed(row', job'), ~torn',
         \A p \in Timed : job'[p].st \notin {"active", "failed"}
  PROVE  Serial'
  <1>1. Busy = {q} /\ worker = None
    BY OnlyRequest
  <1>2. Busy' = {}
    BY <1>1 DEF Busy
  <1> QED BY <1>1, <1>2 DEF Serial

\* It goes on.
LEMMA RequestGoesOn ==
  ASSUME Serial, NEW q \in Requests, req[q] # None,
         req \in [Requests -> Request \cup {None}],
         NEW h \in Request, req' = [req EXCEPT ![q] = h], worker' = worker, ~torn',
         Handling(h, row', job'),
         \A p \in Timed : job'[p].st \notin {"active", "failed"}
  PROVE  Serial'
  <1>1. Busy = {q} /\ worker = None
    BY OnlyRequest
  <1>2. Busy' = {q} /\ req'[q] = h
    BY <1>1, NothingIsNull DEF Busy
  <1>3. ~ Quiescent'
    BY <1>2 DEF Quiescent
  <1> QED BY <1>1, <1>2, <1>3 DEF Serial

\* One at a time, an UPDATE stores the entity and overtakes nobody.
LEMMA SerialStore ==
  ASSUME Good, Serial, NEW h, Store(h), ~h.torn
  PROVE  row' = Updated(h.row, h.diff, row) /\ ~torn'
  BY DEF Serial, Store

LEMMA RequestIsSerial ==
  ASSUME OneAtATime, Good, Serial, NEW q \in Requests, RequestStep(q)
  PROVE  Serial'
  <1>0. /\ row \in Row /\ job \in [Timed -> Job] /\ req \in [Requests -> Request \cup {None}]
        /\ GoodRequests /\ GoodRow(row) /\ ~torn
    BY SerialRow DEF Good, TypeOK, Serial
  <1>1. /\ req[q] # None /\ req[q] \in Request
        /\ Handling(req[q], row, job) /\ Busy = {q} /\ worker = None
        /\ \A p \in Timed : job[p].st \notin {"active", "failed"}
    BY <1>0, OnlyRequest DEF RequestStep, RequestRemove, RequestSelect, RequestUpdate,
                             RequestAdd, RequestDelete
  <1> DEFINE h == req[q]
  <1>2. CASE RequestRemove(q)
    <2>1. PICK g \in Request : g = [req[q] EXCEPT !.pc = "save"]
      BY <1>1 DEF Request
    <2>2. h.pc = "remove" /\ req' = [req EXCEPT ![q] = g] /\ UNCHANGED <<row, torn, worker>>
            /\ job' = [job EXCEPT !["FOCUS"] = NoJob]
      BY <1>1, <1>2, <2>1 DEF RequestRemove, Remove, Timed
    <2>3. /\ job'["FOCUS"].st = "none"
          /\ \A p \in Timed : job'[p].st \notin {"active", "failed"}
      BY <1>0, <1>1, <2>2 DEF NoJob, Timed
    <2>4. g.pc = "save" /\ g.row = h.row /\ g.delay = h.delay /\ g.torn = h.torn
      BY <1>1, <2>1 DEF Request
    <2>5. Saves(g, g.row, row', job')
      BY <1>1, <2>2, <2>3, <2>4 DEF Handling, Saves, Armed, Turns, Timed
    <2>6. Handling(g, row', job')
      BY <1>1, <2>2, <2>4, <2>5 DEF Handling
    <2> QED BY <1>0, <1>1, <2>2, <2>3, <2>6, RequestGoesOn
  <1>3. CASE RequestSelect(q)
    <2>1. h.pc = "save" /\ h.row \in Row /\ GoodSave(h, row)
      BY <1>0, <1>1, <1>3 DEF RequestSelect, GoodRequests, GoodSave
    <2>2. PICK d \in Diffs(h.row) : req' = [req EXCEPT ![q] = Selected(h, d)]
      BY <1>0, <1>3 DEF RequestSelect
    <2>3. PICK g \in Request : /\ g = Selected(h, d) /\ g.pc = "write" /\ g.delay = h.delay
                               /\ g.torn = h.torn /\ Updated(g.row, g.diff, row) = h.row
      BY <1>0, <1>1, <2>1, SelectedRequest
    <2>4. req' = [req EXCEPT ![q] = g] /\ UNCHANGED <<row, torn, job, worker>>
      BY <1>3, <2>2, <2>3 DEF RequestSelect
    <2>5. Handling(g, row', job')
      BY <1>1, <2>1, <2>3, <2>4 DEF Handling, Saves
    <2> QED BY <1>0, <1>1, <2>4, <2>5, RequestGoesOn
  <1>4. CASE RequestUpdate(q)
    <2> DEFINE e == Updated(h.row, h.diff, row)
    <2>1. h.pc = "write" /\ Store(h) /\ job' = job /\ worker' = Overtaken(worker)
      BY <1>4 DEF RequestUpdate
    <2>2. row' = e /\ ~torn' /\ worker' = worker /\ Saves(h, e, row, job)
      BY <1>1, <2>1, SerialStore, OvertakenNobody DEF Handling
    <2>3. \A r \in Requests \ {q} : req'[r] = req[r]
      <3>1. ASSUME NEW r \in Requests \ {q} PROVE req'[r] = req[r]
        <4>1. req[r] = None
          BY <1>1, <3>1 DEF Busy
        <4> QED BY <1>4, <4>1, OvertakenNobody DEF RequestUpdate
      <3> QED BY <3>1
    <2> HIDE DEF e
    <2>4. CASE h.delay = None
      <3>1. req'[q] = None
        BY <1>4, <2>4 DEF RequestUpdate
      <3>2. req' = [req EXCEPT ![q] = None]
        BY <1>0, <1>4, <2>3, <3>1 DEF RequestUpdate
      <3>3. Armed(row', job')
        BY <2>1, <2>2, <2>4 DEF Saves
      <3> QED BY <1>0, <1>1, <2>1, <2>2, <3>2, <3>3, RequestEnds
    <2>5. CASE h.delay # None
      <3>1. PICK g \in Request : g = [req[q] EXCEPT !.pc = "add", !.row = None,
                                                    !.diff = {}, !.torn = FALSE]
        BY <1>1 DEF Request
      <3>2. req'[q] = g
        BY <1>4, <2>5, <3>1 DEF RequestUpdate
      <3>3. req' = [req EXCEPT ![q] = g]
        BY <1>0, <1>4, <2>3, <3>2 DEF RequestUpdate
      <3>4. g.pc = "add" /\ g.delay = h.delay /\ ~g.torn
        BY <1>1, <3>1 DEF Request
      <3>5. Handling(g, row', job')
        BY <2>1, <2>2, <2>5, <3>4 DEF Handling, Saves
      <3> QED BY <1>0, <1>1, <2>1, <2>2, <3>3, <3>5, RequestGoesOn
    <2> QED BY <2>4, <2>5
  <1>5. CASE RequestAdd(q)
    <2>1. /\ h.pc = "add" /\ req' = [req EXCEPT ![q] = None] /\ UNCHANGED <<row, torn, worker>>
          /\ Add("FOCUS", h.delay)
      BY <1>5 DEF RequestAdd
    <2>2. /\ h.delay \in Int /\ row.phase = "FOCUS" /\ h.delay >= row.left
          /\ job["FOCUS"].st = "none"
      BY <1>0, <1>1, <2>1 DEF GoodRequests, Handling
    <2>3. row.left \in Int
      BY <1>0, <2>2 DEF GoodRow, Consistent, Row, Timed
    <2>4. job' = [job EXCEPT !["FOCUS"] = [st |-> "delayed",
                                           left |-> IF h.delay < 0 THEN 0 ELSE h.delay]]
      BY <2>1, <2>2 DEF Add
    <2>5. /\ job'["FOCUS"].st = "delayed"
          /\ job'["FOCUS"].left = IF h.delay < 0 THEN 0 ELSE h.delay
          /\ job'["BREAK"] = job["BREAK"]
      BY <1>0, <2>4 DEF Timed
    <2>6. Armed(row', job')
      BY <2>1, <2>2, <2>3, <2>5 DEF Armed
    <2>7. \A p \in Timed : job'[p].st \notin {"active", "failed"}
      BY <1>1, <2>5 DEF Timed
    <2> QED BY <1>0, <1>1, <2>1, <2>6, <2>7, RequestEnds
  <1>6. CASE RequestDelete(q)
    <2>1. row'.deleted /\ req' = [req EXCEPT ![q] = None] /\ UNCHANGED <<torn, job, worker>>
      BY <1>0, <1>6 DEF RequestDelete, Row
    <2> QED BY <1>0, <1>1, <2>1, RequestEnds DEF Armed
  <1> QED BY <1>2, <1>3, <1>4, <1>5, <1>6 DEF RequestStep

\* The worker goes on with the job it holds.
LEMMA WorkerGoesOn ==
  ASSUME Serial, worker # None, NEW w \in WorkerRun, worker' = w, w.phase = worker.phase,
         req' = req, Working(w, row', job'), ~torn',
         \A p \in Timed : job'[p].st = job[p].st \/ (p # w.phase /\ job'[p].st = "delayed")
  PROVE  Serial'
  <1>1. Busy' = Busy /\ Busy = {}
    BY DEF Serial, Busy
  <1>2. w # None
    BY NothingIsNull
  <1> QED BY <1>1, <1>2 DEF Serial, Quiescent

LEMMA WorkerIsSerial ==
  ASSUME OneAtATime, Good, Serial, WorkerStep
  PROVE  Serial'
  <1>0. /\ row \in Row /\ job \in [Timed -> Job] /\ worker # None /\ worker \in WorkerRun
        /\ worker.phase \in Timed /\ GoodWorker /\ Consistent(row) /\ ~torn
    BY SerialRow DEF Good, TypeOK, Serial, WorkerStep, WorkerDrop, WorkerRead, WorkerSelect,
                     WorkerUpdate, WorkerAdd, WorkerFinish, WorkerRun
  <1>1. Working(worker, row, job) /\ Busy = {} /\ job[worker.phase].st = "active"
    BY <1>0 DEF Serial
  <1>2. CASE WorkerDrop
    <2>1. PICK w \in WorkerRun : w = [worker EXCEPT !.pc = "finish"]
      BY <1>0 DEF WorkerRun
    <2>2. /\ worker' = w /\ worker.pc = "read" /\ (row.deleted \/ row.phase # worker.phase)
          /\ UNCHANGED <<row, torn, job, req>>
      BY <1>2, <2>1 DEF WorkerDrop, Stale
    <2>3. w.pc = "finish" /\ w.phase = worker.phase /\ w.torn = worker.torn
      BY <1>0, <2>1 DEF WorkerRun
    <2>4. Working(w, row', job')
      BY <1>1, <2>2, <2>3 DEF Working
    <2> QED BY <1>0, <2>2, <2>3, <2>4, WorkerGoesOn
  <1>3. CASE WorkerRead
    <2> DEFINE e == NextPhaseRow(worker.phase)
               d == NextLength(worker.phase)
    <2>1. GoodRow(e) /\ e \in Row /\ d \in Durations
      BY <1>0, NextPhaseRowIsGood DEF GoodRow
    <2>2. PICK w \in WorkerRun : w = [worker EXCEPT !.pc = "save", !.row = e, !.delay = d]
      BY <1>0, <2>1 DEF WorkerRun
    <2>3. /\ worker' = w /\ worker.pc = "read" /\ ~row.deleted /\ row.phase = worker.phase
          /\ UNCHANGED <<row, torn, job, req>>
      BY <1>3, <2>2 DEF WorkerRead, Stale
    <2>4. /\ w.pc = "save" /\ w.phase = worker.phase /\ w.row = e /\ w.delay = d
          /\ w.torn = worker.torn
      BY <1>0, <2>2 DEF WorkerRun
    <2>5. ~e.deleted /\ e.phase = NextPhase(worker.phase) /\ e.left = d
      BY <1>0, <2>3 DEF NextPhaseRow, Row
    <2>6. d >= d
      BY <2>1, DurationsInt
    <2>7. worker.phase = "BREAK" => job["FOCUS"].st = "none"
      BY <1>1, <2>3 DEF Working, ArmedBut
    <2> HIDE DEF e, d
    <2>8. Working(w, row', job')
      BY <1>1, <2>3, <2>4, <2>5, <2>6, <2>7 DEF Working, TurnsOver
    <2> QED BY <1>0, <2>3, <2>4, <2>8, WorkerGoesOn
  <1>4. CASE WorkerSelect
    <2>1. worker.pc = "save" /\ worker.row \in Row /\ GoodSave(worker, row)
      BY <1>0, <1>4 DEF WorkerSelect, GoodWorker, GoodSave
    <2>2. PICK d \in Diffs(worker.row) : worker' = Selected(worker, d)
      BY <1>4 DEF WorkerSelect
    <2>3. PICK w \in WorkerRun :
            /\ w = Selected(worker, d) /\ w.pc = "write" /\ w.delay = worker.delay
            /\ w.torn = worker.torn /\ w.phase = worker.phase
            /\ Updated(w.row, w.diff, row) = worker.row
      BY <1>0, <2>1, SelectedWorker
    <2>4. worker' = w /\ UNCHANGED <<row, torn, job, req>>
      BY <1>4, <2>2, <2>3 DEF WorkerSelect
    <2>5. Working(w, row', job')
      BY <1>1, <2>1, <2>3, <2>4 DEF Working, TurnsOver
    <2> QED BY <1>0, <2>3, <2>4, <2>5, WorkerGoesOn
  <1>5. CASE WorkerUpdate
    <2> DEFINE e == Updated(worker.row, worker.diff, row)
    <2>1. PICK w \in WorkerRun : w = [worker EXCEPT !.pc = "add", !.row = None, !.diff = {},
                                                   !.torn = FALSE]
      BY <1>0 DEF WorkerRun, Columns
    <2>2. worker' = w /\ worker.pc = "write" /\ Store(worker) /\ job' = job
      BY <1>5, <2>1 DEF WorkerUpdate
    <2>3. row' = e /\ ~torn' /\ TurnsOver(worker, e, row, job)
      BY <1>1, <2>2, SerialStore DEF Working
    <2>4. req' = req
      <3>1. ASSUME NEW q \in Requests PROVE req'[q] = req[q]
        <4>1. req[q] = None
          BY <1>1 DEF Busy
        <4> QED BY <1>5, <4>1, OvertakenNobody DEF WorkerUpdate
      <3> QED BY <1>5, <3>1 DEF WorkerUpdate, Good, TypeOK
    <2>5. w.pc = "add" /\ w.phase = worker.phase /\ w.delay = worker.delay /\ ~w.torn
      BY <1>0, <2>1 DEF WorkerRun
    <2> HIDE DEF e
    <2>6. Working(w, row', job')
      BY <2>2, <2>3, <2>5 DEF Working, TurnsOver
    <2> QED BY <1>0, <2>2, <2>3, <2>4, <2>5, <2>6, WorkerGoesOn
  <1>6. CASE WorkerAdd
    <2>1. PICK w \in WorkerRun : w = [worker EXCEPT !.pc = "finish", !.delay = None]
      BY <1>0 DEF WorkerRun
    <2>2. /\ worker' = w /\ worker.pc = "add" /\ UNCHANGED <<row, torn, req>>
          /\ Add(NextPhase(worker.phase), worker.delay)
      BY <1>6, <2>1 DEF WorkerAdd
    <2>3. w.pc = "finish" /\ w.phase = worker.phase /\ w.torn = worker.torn
      BY <1>0, <2>1 DEF WorkerRun
    <2>4. ~row.deleted /\ row.phase = NextPhase(worker.phase)
      BY <1>1, <2>2 DEF Working
    <2>5. worker.delay \in Nat
      BY <1>0, <2>2, DurationsInt DEF GoodWorker
    <2>6. CASE worker.phase = "FOCUS"
      <3>1. job["BREAK"].st \in {"none", "delayed"}
        BY <1>0, <2>6 DEF Serial, Job, Timed
      <3>2. job'["BREAK"].st = "delayed" /\ job'["FOCUS"] = job["FOCUS"]
        BY <1>0, <2>2, <2>5, <2>6, <3>1 DEF Add, NextPhase, Timed
      <3>3. Working(w, row', job')
        BY <1>1, <2>2, <2>3, <2>4, <2>6, <3>2 DEF Working, ArmedBut, NextPhase, Timed
      <3>4. \A p \in Timed : job'[p].st = job[p].st \/ (p # w.phase /\ job'[p].st = "delayed")
        BY <2>3, <2>6, <3>2 DEF Timed
      <3> QED BY <1>0, <2>2, <2>3, <3>3, <3>4, WorkerGoesOn
    <2>7. CASE worker.phase = "BREAK"
      <3>1. job["FOCUS"].st = "none" /\ worker.delay >= row.left
        BY <1>1, <2>2, <2>7 DEF Working
      <3>2. /\ job'["FOCUS"].st = "delayed" /\ job'["FOCUS"].left = worker.delay
            /\ job'["BREAK"] = job["BREAK"]
        BY <1>0, <2>2, <2>5, <2>7, <3>1 DEF Add, NextPhase, Timed
      <3>3. Working(w, row', job')
        BY <1>1, <2>2, <2>3, <2>4, <2>7, <3>1, <3>2 DEF Working, ArmedBut, NextPhase, Timed
      <3>4. \A p \in Timed : job'[p].st = job[p].st \/ (p # w.phase /\ job'[p].st = "delayed")
        BY <2>3, <2>7, <3>2 DEF Timed
      <3> QED BY <1>0, <2>2, <2>3, <3>3, <3>4, WorkerGoesOn
    <2> QED BY <1>0, <2>6, <2>7 DEF Timed
  <1>7. CASE WorkerFinish
    <2>1. /\ worker.pc = "finish" /\ worker' = None /\ UNCHANGED <<row, torn, req>>
          /\ job' = [job EXCEPT ![worker.phase] = NoJob]
      BY <1>7 DEF WorkerFinish
    <2>2. /\ ArmedBut(row, job, worker.phase) /\ (~row.deleted => row.phase # worker.phase)
      BY <1>1, <2>1 DEF Working
    <2>3. /\ job'[worker.phase].st = "none"
          /\ \A p \in Timed \ {worker.phase} : job'[p] = job[p]
      BY <1>0, <2>1 DEF NoJob
    <2>4. Armed(row', job')
      BY <1>0, <2>1, <2>2, <2>3 DEF Armed, ArmedBut, Timed
    <2>5. \A p \in Timed : job'[p].st \notin {"active", "failed"}
      BY <1>0, <2>3 DEF Serial
    <2>6. Busy' = {}
      BY <1>1, <2>1 DEF Busy
    <2> QED BY <1>0, <2>1, <2>4, <2>5, <2>6 DEF Serial
  <1> QED BY <1>2, <1>3, <1>4, <1>5, <1>6, <1>7 DEF WorkerStep

LEMMA TakeIsSerial ==
  ASSUME OneAtATime, Good, Serial, NEW p \in Timed, WorkerTake(p)
  PROVE  Serial'
  <1>1. Quiescent /\ job \in [Timed -> Job]
    BY NobodyElse DEF WorkerTake, Good, TypeOK
  <1>2. PICK w \in WorkerRun : w = [pc |-> "read", phase |-> p, row |-> None, delay |-> None,
                                   diff |-> {}, torn |-> FALSE]
    BY DEF WorkerRun, Columns
  <1>3. /\ worker' = w /\ w # None /\ w.pc = "read" /\ w.phase = p /\ ~w.torn
        /\ UNCHANGED <<row, torn, req>> /\ job' = [job EXCEPT ![p].st = "active"]
    BY <1>2, NothingIsNull DEF WorkerTake
  <1>4. /\ job'[p].st = "active" /\ \A o \in Timed \ {p} : job'[o] = job[o]
    BY <1>1, <1>3 DEF Job
  <1>5. Armed(row, job) /\ \A o \in Timed : job[o].st \notin {"active", "failed"}
    BY <1>1 DEF Serial, Quiescent
  <1>6. ArmedBut(row, job', p)
    BY <1>4, <1>5 DEF Armed, ArmedBut, Timed
  <1>7. Busy' = {}
    BY <1>1, <1>3 DEF Busy, Quiescent
  <1>8. ~ Quiescent'
    BY <1>3 DEF Quiescent
  <1>9. Working(w, row', job')
    BY <1>3, <1>6 DEF Working
  <1> QED BY <1>3, <1>4, <1>5, <1>7, <1>8, <1>9 DEF Serial

\* A tick brings the jobs no nearer than the end shown.
OlderJobs(j) ==
  [p \in Timed |-> IF j[p].st = "delayed" /\ j[p].left > 0
                     THEN [j[p] EXCEPT !.left = @ - 1] ELSE j[p]]

LEMMA OlderJob ==
  ASSUME NEW j \in [Timed -> Job], NEW p \in Timed
  PROVE  /\ OlderJobs(j)[p].st = j[p].st
         /\ \A t \in Int \cup {None} : t # None /\ j[p].left >= t
                                         => OlderJobs(j)[p].left >= Sooner(t)
  <1>1. j[p] \in Job /\ j[p].left \in Nat
    BY DEF Job
  <1>2. CASE j[p].st = "delayed" /\ j[p].left > 0
    <2>1. OlderJobs(j)[p].st = j[p].st /\ OlderJobs(j)[p].left = j[p].left - 1
      BY <1>1, <1>2 DEF OlderJobs, Job
    <2>2. ASSUME NEW t \in Int, j[p].left >= t PROVE OlderJobs(j)[p].left >= Sooner(t)
      BY <1>1, <1>2, <2>1, <2>2, NothingIsNull DEF Sooner
    <2> QED BY <2>1, <2>2
  <1>3. CASE ~ (j[p].st = "delayed" /\ j[p].left > 0)
    <2>1. OlderJobs(j)[p] = j[p]
      BY <1>3 DEF OlderJobs
    <2>2. ASSUME NEW t \in Int, j[p].left >= t PROVE j[p].left >= Sooner(t)
      BY <1>1, <2>2, NothingIsNull DEF Sooner
    <2> QED BY <2>1, <2>2
  <1> QED BY <1>2, <1>3

LEMMA LeftIsInt ==
  ASSUME NEW r, GoodRow(r), r.phase \in Timed
  PROVE  r.left \in Int /\ r.left # None
  BY NothingIsNull DEF GoodRow, Consistent, Row

LEMMA SoonerBelow ==
  ASSUME NEW d \in Int, NEW t \in Int, d >= t
  PROVE  d >= Sooner(t)
  BY NothingIsNull DEF Sooner

LEMMA ArmedOlder ==
  ASSUME NEW r, GoodRow(r), NEW j \in [Timed -> Job], Armed(r, j)
  PROVE  Armed(Older(r), OlderJobs(j))
  <1>0. r \in Row /\ (r.phase = "FOCUS" => r.left \in Int /\ r.left # None)
    BY LeftIsInt DEF GoodRow, Timed
  <1>1. \A p \in Timed : OlderJobs(j)[p].st = j[p].st
    BY OlderJob
  <1>2. ~r.deleted /\ r.phase = "FOCUS" => OlderJobs(j)["FOCUS"].left >= Sooner(r.left)
    BY <1>0, OlderJob DEF Armed, Timed
  <1> QED BY <1>0, <1>1, <1>2, OlderRow DEF Armed, Timed

LEMMA ArmedButOlder ==
  ASSUME NEW r, GoodRow(r), NEW j \in [Timed -> Job], NEW p \in Timed, ArmedBut(r, j, p)
  PROVE  ArmedBut(Older(r), OlderJobs(j), p)
  <1>0. r \in Row /\ (r.phase = "FOCUS" => r.left \in Int /\ r.left # None)
    BY LeftIsInt DEF GoodRow, Timed
  <1>1. \A o \in Timed : OlderJobs(j)[o].st = j[o].st
    BY OlderJob
  <1>2. ~r.deleted /\ r.phase = "FOCUS" /\ p = "BREAK"
          => OlderJobs(j)["FOCUS"].left >= Sooner(r.left)
    BY <1>0, OlderJob DEF ArmedBut, Timed
  <1> QED BY <1>0, <1>1, <1>2, OlderRow DEF ArmedBut, Timed

\* What a handler is to store grows older with the row and the jobs.
LEMMA SavesOlder ==
  ASSUME NEW h, NEW g, NEW e, GoodRow(e), NEW r \in Row, NEW j \in [Timed -> Job],
         h.delay \in Int \cup {None}, g.delay = h.delay, Saves(h, e, r, j)
  PROVE  Saves(g, Older(e), Older(r), OlderJobs(j))
  <1>1. /\ Older(e).phase = e.phase /\ Older(e).deleted = e.deleted
        /\ Older(e).left = Sooner(e.left) /\ Older(r).phase = r.phase
    BY OlderRow DEF GoodRow
  <1>2. h.delay = None => Armed(Older(e), OlderJobs(j))
    BY ArmedOlder DEF Saves
  <1>3. ASSUME h.delay # None PROVE h.delay >= Sooner(e.left)
    <2>1. e.left \in Int /\ h.delay \in Int /\ h.delay >= e.left
      BY <1>3, LeftIsInt DEF Saves, Timed
    <2> QED BY <2>1, SoonerBelow
  <1>4. OlderJobs(j)["FOCUS"].st = j["FOCUS"].st
    BY OlderJob DEF Timed
  <1> QED BY <1>1, <1>2, <1>3, <1>4 DEF Saves

LEMMA TurnsOverOlder ==
  ASSUME NEW w, NEW v, NEW e, GoodRow(e), NEW r \in Row, NEW j \in [Timed -> Job],
         w.delay \in Int, v.delay = w.delay, v.phase = w.phase, TurnsOver(w, e, r, j)
  PROVE  TurnsOver(v, Older(e), Older(r), OlderJobs(j))
  <1>1. /\ Older(e).phase = e.phase /\ Older(e).deleted = e.deleted
        /\ Older(e).left = Sooner(e.left)
        /\ Older(r).phase = r.phase /\ Older(r).deleted = r.deleted
    BY OlderRow DEF GoodRow
  <1>2. ASSUME w.phase = "BREAK" PROVE w.delay >= Sooner(e.left)
    <2>1. e.phase = "FOCUS" /\ w.delay >= e.left
      BY <1>2 DEF TurnsOver, NextPhase
    <2>2. e.left \in Int
      BY <2>1, LeftIsInt DEF Timed
    <2> QED BY <2>1, <2>2, SoonerBelow
  <1>3. OlderJobs(j)["FOCUS"].st = j["FOCUS"].st
    BY OlderJob DEF Timed
  <1> QED BY <1>1, <1>2, <1>3 DEF TurnsOver

LEMMA TickIsSerial ==
  ASSUME Good, Serial, Tick
  PROVE  Serial'
  <1>0. /\ GoodRow(row) /\ row \in Row /\ job \in [Timed -> Job] /\ GoodRequests /\ GoodWorker
        /\ req \in [Requests -> Request \cup {None}] /\ worker \in WorkerRun \cup {None}
    BY SerialRow DEF Good, TypeOK
  <1>1. row' = Older(row) /\ job' = OlderJobs(job) /\ ~torn'
    BY DEF Tick, OlderJobs, Serial
  <1>2. \A p \in Timed : job'[p].st = job[p].st
    BY <1>0, <1>1, OlderJob
  <1>3. row'.phase = row.phase /\ row'.deleted = row.deleted /\ row'.left = Sooner(row.left)
    BY <1>0, <1>1, OlderRow
  <1>4. ASSUME NEW q \in Requests
        PROVE  /\ (req'[q] = None) <=> (req[q] = None)
               /\ req[q] # None =>
                    /\ req'[q].pc = req[q].pc /\ req'[q].delay = req[q].delay
                    /\ req'[q].diff = req[q].diff /\ req'[q].torn = req[q].torn
                    /\ req'[q].row = Older(req[q].row)
    <2>1. req'[q] = IF req[q] = None THEN None ELSE [req[q] EXCEPT !.row = Older(@)]
      BY DEF Tick
    <2>2. CASE req[q] # None
      <3>1. req[q] \in Request
        BY <1>0, <2>2
      <3> QED BY <2>1, <2>2, <3>1, OlderRequest, NothingIsNull
    <2> QED BY <2>1, <2>2
  <1>5. Busy' = Busy
    BY <1>4 DEF Busy
  <1>6. ASSUME NEW q \in Busy PROVE Handling(req'[q], row', job')
    <2> DEFINE h == req[q]
               g == req'[q]
    <2>0. /\ q \in Requests /\ h # None /\ h \in Request /\ Handling(h, row, job)
          /\ GoodSave(h, row) /\ h.delay \in Int \cup {None} /\ ~h.torn
      BY <1>0, <1>6 DEF Busy, Serial, GoodRequests, Request, Handling
    <2>1. /\ g.pc = h.pc /\ g.delay = h.delay /\ g.diff = h.diff /\ g.torn = h.torn
          /\ g.row = Older(h.row)
      BY <1>4, <2>0
    <2> HIDE DEF h, g
    <2>2. CASE h.pc = "remove"
      <3>1. h.row \in Row
        BY <2>0, <2>2 DEF GoodSave
      <3>2. g.row.phase = h.row.phase /\ g.row.deleted = h.row.deleted
        BY <2>1, <3>1, OlderRow
      <3> QED BY <1>3, <2>0, <2>1, <2>2, <3>2 DEF Handling, g
    <2>3. CASE h.pc = "save"
      <3>1. GoodRow(h.row) /\ Saves(h, h.row, row, job)
        BY <2>0, <2>3 DEF GoodSave, GoodRow, Handling
      <3>2. Saves(g, g.row, row', job')
        BY <1>0, <1>1, <2>0, <2>1, <3>1, SavesOlder
      <3> QED BY <1>3, <2>0, <2>1, <2>3, <3>2 DEF Handling, g
    <2>4. CASE h.pc = "write"
      <3> DEFINE u == Updated(h.row, h.diff, row)
      <3>1. h.row \in Row /\ GoodRow(u) /\ Saves(h, u, row, job)
        BY <1>0, <2>0, <2>4, UpdatedType DEF GoodSave, GoodRow, Handling
      <3>2. Updated(g.row, g.diff, row') = Older(u)
        BY <1>0, <1>1, <2>1, <3>1, OlderUpdate
      <3>3. Saves(g, Older(u), row', job')
        <4> HIDE DEF u
        <4> QED BY <1>0, <1>1, <2>0, <2>1, <3>1, SavesOlder
      <3> QED BY <1>3, <2>0, <2>1, <2>4, <3>2, <3>3 DEF Handling, g
    <2>5. CASE h.pc = "add"
      <3>1. h.delay \in Int /\ row.phase = "FOCUS" /\ h.delay >= row.left
        BY <1>0, <2>0, <2>5 DEF Handling, GoodRequests, h
      <3>2. row.left \in Int
        BY <1>0, <3>1, LeftIsInt DEF Timed
      <3>3. g.delay >= row'.left
        BY <1>3, <2>1, <3>1, <3>2, SoonerBelow
      <3> QED BY <1>2, <1>3, <2>0, <2>1, <2>5, <3>3 DEF Handling, Timed, g
    <2>6. CASE h.pc = "delete"
      BY <1>3, <2>0, <2>1, <2>6 DEF Handling, g
    <2> QED BY <2>0, <2>2, <2>3, <2>4, <2>5, <2>6 DEF Request
  <1>7. (worker' = None) <=> (worker = None)
    BY <1>0, NothingIsNull, OlderWorker DEF Tick
  <1>8. ASSUME worker # None
        PROVE  worker'.phase = worker.phase /\ Working(worker', row', job')
    <2>0. /\ worker \in WorkerRun /\ Working(worker, row, job) /\ worker.phase \in Timed
          /\ GoodSave(worker, row) /\ ~worker.torn
      BY <1>0, <1>8 DEF Serial, WorkerRun, GoodWorker, Working
    <2>1. worker' = [worker EXCEPT !.row = Older(@)]
      BY <1>8 DEF Tick
    <2>2. /\ worker'.pc = worker.pc /\ worker'.phase = worker.phase
          /\ worker'.delay = worker.delay /\ worker'.diff = worker.diff
          /\ worker'.torn = worker.torn /\ worker'.row = Older(worker.row)
      BY <2>0, <2>1, OlderWorker
    <2>a. worker.pc \in {"save", "write", "add"} => worker.delay \in Int
      BY <1>0, <1>8, DurationsInt DEF GoodWorker
    <2>3. CASE worker.pc \in {"read", "finish"}
      <3>1. ArmedBut(row', job', worker.phase)
        BY <1>0, <1>1, <2>0, <2>3, ArmedButOlder DEF Working
      <3> QED BY <1>3, <2>0, <2>2, <2>3, <3>1 DEF Working
    <2>4. CASE worker.pc = "save"
      <3>1. GoodRow(worker.row) /\ TurnsOver(worker, worker.row, row, job)
        BY <2>0, <2>4 DEF GoodSave, GoodRow, Working
      <3>2. TurnsOver(worker', worker'.row, row', job')
        BY <1>0, <1>1, <2>2, <2>4, <2>a, <3>1, TurnsOverOlder
      <3> QED BY <2>0, <2>2, <2>4, <3>2 DEF Working
    <2>5. CASE worker.pc = "write"
      <3> DEFINE u == Updated(worker.row, worker.diff, row)
      <3>1. worker.row \in Row /\ GoodRow(u) /\ TurnsOver(worker, u, row, job)
        BY <1>0, <2>0, <2>5, UpdatedType DEF GoodSave, GoodRow, Working
      <3>2. Updated(worker'.row, worker'.diff, row') = Older(u)
        BY <1>0, <1>1, <2>2, <3>1, OlderUpdate
      <3>3. TurnsOver(worker', Older(u), row', job')
        <4> HIDE DEF u
        <4> QED BY <1>0, <1>1, <2>2, <2>5, <2>a, <3>1, TurnsOverOlder
      <3> QED BY <2>0, <2>2, <2>5, <3>2, <3>3 DEF Working
    <2>6. CASE worker.pc = "add"
      <3>1. ASSUME worker.phase = "BREAK" PROVE worker'.delay >= row'.left
        <4>1. row.phase = "FOCUS" /\ worker.delay \in Int /\ worker.delay >= row.left
          BY <2>0, <2>6, <2>a, <3>1 DEF Working, NextPhase
        <4>2. row.left \in Int
          BY <1>0, <4>1, LeftIsInt DEF Timed
        <4> QED BY <1>3, <2>2, <4>1, <4>2, SoonerBelow
      <3> QED BY <1>2, <1>3, <2>0, <2>2, <2>6, <3>1 DEF Working, Timed
    <2> QED BY <2>0, <2>2, <2>3, <2>4, <2>5, <2>6 DEF WorkerRun
  <1>9. Quiescent' => Armed(row', job')
    BY <1>0, <1>1, <1>5, <1>7, ArmedOlder DEF Serial, Quiescent
  <1> QED BY <1>1, <1>2, <1>5, <1>6, <1>7, <1>8, <1>9 DEF Serial

LEMMA SerialNext == OneAtATime /\ Good /\ Serial /\ [Next]_vars => Serial'
  <1> SUFFICES ASSUME OneAtATime, Good, Serial, [Next]_vars PROVE Serial'
    OBVIOUS
  <1>1. CASE UNCHANGED vars
    BY <1>1 DEF vars, Serial, Busy, Quiescent
  <1>2. ~ (\E q \in Requests : RequestFail(q)) /\ ~ WorkerFail /\ ~ Crash
    BY DEF OneAtATime, RequestFail, WorkerFail, Crash
  <1>3. CASE Next
    BY <1>2, <1>3, HostIsSerial, RequestIsSerial, WorkerIsSerial, TakeIsSerial, TickIsSerial
       DEF Next, HostStep
  <1> QED BY <1>1, <1>3

LEMMA SerialAlways ==
  ASSUME OneAtATime
  PROVE  Spec => []Serial
  <1>1. Serial /\ Good /\ [Next]_vars => Serial'
    BY SerialNext
  <1> QED BY <1>1, SerialInit, GoodAlways, PTL DEF Spec

\* With the handlers one at a time and no failures, whatever the durations: whenever
\* no handler runs, a phase that should end has its job in the queue, no focus job
\* fires before the end shown, and none is left behind in another phase.
THEOREM SerialTimerIsArmed ==
  ASSUME MaxInFlight = 1, ~MayFail
  PROVE  Spec => []PhaseArmed
  <1>1. OneAtATime
    BY DEF OneAtATime
  <1>2. Serial => PhaseArmed
    BY DEF Serial, PhaseArmed, Armed
  <1> QED BY <1>1, <1>2, SerialAlways, PTL

(***************************************************************************)
(* Then the rows are those of the promised timer.                          *)
(***************************************************************************)

Stage == IF row.deleted THEN "GONE" ELSE row.phase

LEMMA PromiseStep ==
  ASSUME OneAtATime, Good, Serial, [Next]_vars
  PROVE  [Promise!Next]_Stage
  <1> USE DEF Stage
  <1>0. row \in Row /\ GoodRow(row)
    BY SerialRow
  <1>1. CASE row' = row
    BY <1>1
  <1>2. ASSUME NEW q \in Requests, RequestUpdate(q) PROVE [Promise!Next]_Stage
    <2> DEFINE h == req[q]
    <2>1. h # None /\ h.pc = "write" /\ Store(h) /\ Handling(h, row, job)
      BY <1>2, OnlyRequest DEF RequestUpdate
    <2>2. row' = Updated(h.row, h.diff, row) /\ ~row.deleted /\ Saves(h, row', row, job)
      BY <2>1, SerialStore DEF Handling
    <2>3. /\ ~row.deleted /\ ~row'.deleted
          /\ row.phase = row'.phase \/ <<row.phase, row'.phase>> \in Turns
      BY <2>2 DEF Saves
    <2> QED BY <2>3 DEF Turns, Promise!Next, Promise!Start, Promise!Pause, Promise!Resume,
                        Promise!Reset
  <1>3. ASSUME NEW q \in Requests, RequestDelete(q) PROVE [Promise!Next]_Stage
    <2>1. row' = [row EXCEPT !.deleted = TRUE] /\ req[q] # None
      BY <1>3 DEF RequestDelete
    <2>2. ~row.deleted /\ row'.deleted
      BY <1>0, <2>1, OnlyRequest DEF Handling, Row
    <2>3. Stage # "GONE" /\ Stage' = "GONE"
      BY <1>0, <2>2 DEF Row, Phases
    <2> QED BY <2>3 DEF Promise!Next, Promise!Delete
  <1>4. ASSUME WorkerUpdate PROVE [Promise!Next]_Stage
    <2>1. worker # None /\ worker.pc = "write" /\ Store(worker)
      BY <1>4 DEF WorkerUpdate
    <2>2. Working(worker, row, job)
      BY <2>1 DEF Serial
    <2>3. row' = Updated(worker.row, worker.diff, row) /\ TurnsOver(worker, row', row, job)
      BY <2>1, <2>2, SerialStore DEF Working
    <2>4. worker.phase \in Timed
      BY <2>1 DEF Good, TypeOK, WorkerRun
    <2> QED BY <2>3, <2>4 DEF TurnsOver, Timed, NextPhase, Promise!Next, Promise!FocusEnds,
                              Promise!BreakEnds
  <1>5. ASSUME Tick PROVE Stage' = Stage
    BY <1>0, <1>5, OlderRow DEF Tick
  <1>6. CASE UNCHANGED vars
    BY <1>6 DEF vars
  <1>7. CASE Next
    <2>1. ASSUME NEW q \in Requests, HostStep(q) \/ RequestRemove(q) \/ RequestSelect(q)
                                       \/ RequestAdd(q) \/ RequestFail(q)
          PROVE row' = row
      BY <2>1 DEF HostStep, StartTimer, PauseTimer, ResumeTimer, RestartTimer, ChangePomodoro,
                  UpdateRoom, SoftDelete, Begin, RequestRemove, RequestSelect, RequestAdd,
                  RequestFail
    <2>2. ASSUME \/ \E p \in Timed : WorkerTake(p)
                 \/ WorkerDrop \/ WorkerRead \/ WorkerSelect \/ WorkerAdd \/ WorkerFinish
                 \/ WorkerFail \/ Crash
          PROVE row' = row
      BY <2>2 DEF WorkerTake, WorkerDrop, WorkerRead, WorkerSelect, WorkerAdd, WorkerFinish,
                     WorkerFail, Crash
    <2> QED BY <1>1, <1>2, <1>3, <1>4, <1>5, <1>7, <2>1, <2>2
            DEF Next, HostStep, RequestStep, WorkerStep
  <1> QED BY <1>6, <1>7

\* With the handlers one at a time and no failures: every save, and every deletion, is
\* one step of the timer that Pomodoro promises or changes nothing of it; a stale job
\* never turns a phase over, and no phase is skipped.
THEOREM PromiseKeptSafely ==
  ASSUME MaxInFlight = 1, ~MayFail
  PROVE  Spec => Promise!Init /\ [][Promise!Next]_(IF row.deleted THEN "GONE" ELSE row.phase)
  <1>1. OneAtATime
    BY DEF OneAtATime
  <1>2. Init => Promise!Init
    BY DEF Init, NewRow, Promise!Init
  <1>3. Serial /\ Good /\ [Next]_vars
          => [Promise!Next]_(IF row.deleted THEN "GONE" ELSE row.phase)
    BY <1>1, PromiseStep DEF Stage
  <1> QED BY <1>1, <1>2, <1>3, SerialAlways, GoodAlways, PTL DEF Spec

=============================================================================
