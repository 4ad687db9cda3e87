----------------------------- MODULE PhaseTimer -----------------------------
(***************************************************************************)
(* The pomodoro timer of one room: the host's handlers in rooms.service.ts *)
(* (startTimer, pauseTimer, resumeTimer, restartTimer, changePomodoro,     *)
(* update, softDeleteRoom), the worker in room-timer.processor.ts and the  *)
(* delayed jobs timer-<room>-focus and timer-<room>-break between them.    *)
(*                                                                         *)
(* Every handler reads the row, awaits, and saves the entity it read; what *)
(* it computed from the row and the clock travels in its locals.  A save   *)
(* is two statements, a SELECT of the row and an UPDATE of the columns in  *)
(* which the entity differed from it then.  Points in time are kept        *)
(* relative to now: a Tick takes one off each of them.                     *)
(***************************************************************************)
EXTENDS Integers, FiniteSets

CONSTANTS
  Requests,    \* slots for the host's requests
  Durations,   \* focusDuration and breakDuration the host may choose, in ticks
  MaxInFlight, \* handlers and worker runs that may overlap; 1: one at a time
  MayFail,     \* whether calls are rejected and the process crashes
  None         \* null

ASSUME DurationsAssumption == Durations \subseteq Nat \ {0} /\ Durations # {}

VARIABLES
  row,     \* the room row
  torn,    \* history: the row holds columns of two saves, see Store
  job,     \* the delayed job of each phase: its state and the delay left
  req,     \* the locals of each host request
  worker   \* the locals of the timer worker (concurrency 1)

vars == <<row, torn, job, req, worker>>

Phases == {"IDLE", "FOCUS", "BREAK", "PAUSED"}
Timed  == {"FOCUS", "BREAK"}

\* left: timerEndAt - now, -1 for any time past.  It stands for phaseStartedAt
\* too: every handler assigns both from one now, or null to both, so that a
\* save writes both or neither.  rem: pauseRemainingMs.
Row == [phase : Phases, deleted : BOOLEAN,
        left : Int \cup {None}, rem : Int \cup {None},
        focus : Durations, brk : Durations]

Job == [st : {"none", "delayed", "active", "failed"}, left : Nat]

Columns == {"phase", "deleted", "left", "rem", "focus", "brk"}

\* row: the entity.  diff: the columns its UPDATE writes, between the two
\* statements of its save.  torn: history, the UPDATE will tear the row.  delay:
\* the delay of the job the handler adds last, if it adds one.
Request == [pc : {"remove", "save", "write", "add", "delete"},
            row : Row \cup {None}, delay : Int \cup {None},
            diff : SUBSET Columns, torn : BOOLEAN]

WorkerRun == [pc : {"read", "save", "write", "add", "finish"}, phase : Timed,
              row : Row \cup {None}, delay : Durations \cup {None},
              diff : SUBSET Columns, torn : BOOLEAN]

ASSUME NoneAssumption == None \notin Int \cup Row \cup Request \cup WorkerRun

TypeOK ==
  /\ row \in Row
  /\ torn \in BOOLEAN
  /\ job \in [Timed -> Job]
  /\ req \in [Requests -> Request \cup {None}]
  /\ worker \in WorkerRun \cup {None}

NoJob == [st |-> "none", left |-> 0]

NewRow(f, b) == [phase |-> "IDLE", deleted |-> FALSE,
                 left |-> None, rem |-> None, focus |-> f, brk |-> b]

Blank == LET d == CHOOSE d \in Durations : TRUE IN NewRow(d, d)

Init ==
  /\ \E f, b \in Durations : row = NewRow(f, b)
  /\ torn = FALSE
  /\ job = [p \in Timed |-> NoJob]
  /\ req = [q \in Requests |-> None]
  /\ worker = None

Busy == {q \in Requests : req[q] # None}
InFlight == Cardinality(Busy) + (IF worker = None THEN 0 ELSE 1)
Quiescent == Busy = {} /\ worker = None

-----------------------------------------------------------------------------
(* The job queue.  A job id that exists in any state makes add a no-op; a  *)
(* negative delay is none; remove does not touch a job a worker holds; a   *)
(* failed job keeps its id.                                                *)

\* Mutant: the delay is taken as it comes.
AddUnclamped(p, delay) ==
  job' = IF job[p].st = "none"
           THEN [job EXCEPT ![p] = [st |-> "delayed", left |-> delay]]
           ELSE job

Add(p, delay) ==
  job' = IF job[p].st = "none"
           THEN [job EXCEPT ![p] = [st |-> "delayed",
                                    left |-> IF delay < 0 THEN 0 ELSE delay]]
           ELSE job

Remove(p) ==
  job' = IF job[p].st = "active" THEN job ELSE [job EXCEPT ![p] = NoJob]

-----------------------------------------------------------------------------
(* The two statements of a save.                                           *)

\* The columns in which an entity differs from the row.  Two points in time
\* (or remainders) that are the same tick may be different milliseconds.
Differing(entity) == {c \in Columns : entity[c] # row[c]}

MayDiffer(entity) ==
  {c \in {"left", "rem"} : entity[c] # None /\ row[c] # None}

\* What SELECT may make of the columns to write.
Diffs(entity) == {Differing(entity) \cup d : d \in SUBSET MayDiffer(entity)}

Column(c, e, diff, r) == IF c \in diff THEN e[c] ELSE r[c]

\* Row r with the columns diff of entity e.
Updated(e, diff, r) ==
  [phase   |-> Column("phase", e, diff, r),   deleted |-> Column("deleted", e, diff, r),
   left    |-> Column("left", e, diff, r),    rem     |-> Column("rem", e, diff, r),
   focus   |-> Column("focus", e, diff, r),   brk     |-> Column("brk", e, diff, r)]

\* A SELECT by a handler with locals h; the columns not to be written are forgotten.
Selected(h, diff) ==
  [h EXCEPT !.pc = "write", !.row = Updated(h.row, diff, Blank), !.diff = diff]

\* UPDATE, by a handler with locals h.  It tears the row if another UPDATE
\* changed the row after h's SELECT, or if h carries what it read from a torn
\* row; otherwise the row is now h's entity, the deletion apart.
Store(h) ==
  /\ row' = Updated(h.row, h.diff, row)
  /\ torn' = IF row' = row THEN torn ELSE h.torn

\* The locals h of a handler whose SELECT another's UPDATE has made stale.
Overtaken(h) ==
  IF h # None /\ h.pc = "write" /\ row' # row THEN [h EXCEPT !.torn = TRUE] ELSE h

-----------------------------------------------------------------------------
(* The host's requests.  Begin takes the row as findOneBy returns it and   *)
(* keeps what the handler made of it; carry: phase and times stay as read. *)

Begin(q, pc, entity, delay, carry) ==
  /\ req[q] = None
  /\ InFlight < MaxInFlight
  /\ ~row.deleted
  /\ req' = [req EXCEPT ![q] = [pc |-> pc, row |-> entity, delay |-> delay,
                                diff |-> {}, torn |-> carry /\ torn]]
  /\ UNCHANGED <<row, torn, job, worker>>

StartTimer(q) ==
  /\ row.phase \in {"IDLE", "BREAK"}
  /\ Begin(q, "save",
           [row EXCEPT !.phase = "FOCUS", !.left = row.focus], row.focus, FALSE)

\* Mutant: the pending job is left in the queue.
PauseKeepsJob(q) ==
  /\ row.phase = "FOCUS"
  /\ row.left # None
  /\ Begin(q, "save",
           [row EXCEPT !.phase = "PAUSED", !.left = None, !.rem = row.left],
           None, FALSE)

\* Crediting the sessions comes before the job is removed: FocusCredit.  A
\* null timerEndAt throws at its non-null assertion.
PauseTimer(q) ==
  /\ row.phase = "FOCUS"
  /\ row.left # None
  /\ Begin(q, "remove",
           [row EXCEPT !.phase = "PAUSED", !.left = None, !.rem = row.left],
           None, FALSE)

\* A null pauseRemainingMs adds nothing to now, and is no delay.
Remaining == IF row.rem = None THEN 0 ELSE row.rem

\* Mutant: the time the pause kept is not given back.
ResumeForgetsTime(q) ==
  /\ row.phase = "PAUSED"
  /\ Begin(q, "save",
           [row EXCEPT !.phase = "FOCUS", !.left = None, !.rem = None],
           Remaining, FALSE)

ResumeTimer(q) ==
  /\ row.phase = "PAUSED"
  /\ Begin(q, "save",
           [row EXCEPT !.phase = "FOCUS", !.left = Remaining, !.rem = None],
           Remaining, FALSE)

RestartTimer(q) ==
  /\ row.phase = "PAUSED"
  /\ Begin(q, "save",
           [row EXCEPT !.phase = "IDLE", !.left = None, !.rem = None],
           None, FALSE)

ChangePomodoro(q) ==
  /\ row.phase = "IDLE"
  /\ \E f, b \in Durations :
       Begin(q, "save", [row EXCEPT !.focus = f, !.brk = b], None, TRUE)

\* Settings: none of the columns kept here is assigned, all are saved.
UpdateRoom(q) == Begin(q, "save", row, None, TRUE)

SoftDelete(q) == Begin(q, "delete", None, None, FALSE)

RequestRemove(q) ==
  /\ req[q] # None /\ req[q].pc = "remove"
  /\ Remove("FOCUS")
  /\ req' = [req EXCEPT ![q].pc = "save"]
  /\ UNCHANGED <<row, torn, worker>>

RequestSelect(q) ==
  /\ req[q] # None /\ req[q].pc = "save"
  /\ \E d \in Diffs(req[q].row) : req' = [req EXCEPT ![q] = Selected(@, d)]
  /\ UNCHANGED <<row, torn, job, worker>>

\* Mutant: the job is forgotten once the row is saved.
SaveIsEnough(q) ==
  /\ req[q] # None /\ req[q].pc = "write"
  /\ Store(req[q])
  /\ req' = [r \in Requests |-> IF r = q THEN None ELSE Overtaken(req[r])]
  /\ worker' = Overtaken(worker)
  /\ UNCHANGED job

RequestUpdate(q) ==
  /\ req[q] # None /\ req[q].pc = "write"
  /\ Store(req[q])
  /\ req' = [r \in Requests |->
       IF r # q THEN Overtaken(req[r])
       ELSE IF req[q].delay = None THEN None
       ELSE [req[q] EXCEPT !.pc = "add", !.row = None, !.diff = {}, !.torn = FALSE]]
  /\ worker' = Overtaken(worker)
  /\ UNCHANGED job

RequestAdd(q) ==
  /\ req[q] # None /\ req[q].pc = "add"
  /\ Add("FOCUS", req[q].delay)
  /\ req' = [req EXCEPT ![q] = None]
  /\ UNCHANGED <<row, torn, worker>>

RequestDelete(q) ==
  /\ req[q] # None /\ req[q].pc = "delete"
  /\ row' = [row EXCEPT !.deleted = TRUE]
  /\ req' = [req EXCEPT ![q] = None]
  /\ UNCHANGED <<torn, job, worker>>

-----------------------------------------------------------------------------
(* The worker.                                                             *)

WorkerTake(p) ==
  /\ worker = None
  /\ InFlight < MaxInFlight
  /\ job[p].st = "delayed" /\ job[p].left = 0
  /\ job' = [job EXCEPT ![p].st = "active"]
  /\ worker' = [pc |-> "read", phase |-> p, row |-> None, delay |-> None,
                 diff |-> {}, torn |-> FALSE]
  /\ UNCHANGED <<row, torn, req>>

Stale == row.deleted \/ row.phase # worker.phase

WorkerDrop ==
  /\ worker # None /\ worker.pc = "read"
  /\ Stale
  /\ worker' = [worker EXCEPT !.pc = "finish"]
  /\ UNCHANGED <<row, torn, job, req>>

NextPhase(p) == IF p = "FOCUS" THEN "BREAK" ELSE "FOCUS"

\* How long the phase after p is to be.
NextLength(p) == IF p = "FOCUS" THEN row.brk ELSE row.focus

\* The phase after the one that ended; now is taken right after the read.
NextPhaseRow(p) == [row EXCEPT !.phase = NextPhase(p), !.left = NextLength(p)]

WorkerRead ==
  /\ worker # None /\ worker.pc = "read"
  /\ ~Stale
  /\ worker' = [worker EXCEPT !.pc = "save", !.row = NextPhaseRow(worker.phase),
                              !.delay = NextLength(worker.phase)]
  /\ UNCHANGED <<row, torn, job, req>>

WorkerSelect ==
  /\ worker # None /\ worker.pc = "save"
  /\ \E d \in Diffs(worker.row) : worker' = Selected(worker, d)
  /\ UNCHANGED <<row, torn, job, req>>

WorkerUpdate ==
  /\ worker # None /\ worker.pc = "write"
  /\ Store(worker)
  /\ worker' = [worker EXCEPT !.pc = "add", !.row = None, !.diff = {}, !.torn = FALSE]
  /\ req' = [q \in Requests |-> Overtaken(req[q])]
  /\ UNCHANGED job

WorkerAdd ==
  /\ worker # None /\ worker.pc = "add"
  /\ Add(NextPhase(worker.phase), worker.delay)
  /\ worker' = [worker EXCEPT !.pc = "finish", !.delay = None]
  /\ UNCHANGED <<row, torn, req>>

\* removeOnComplete frees the job's id.
WorkerFinish ==
  /\ worker # None /\ worker.pc = "finish"
  /\ job' = [job EXCEPT ![worker.phase] = NoJob]
  /\ worker' = None
  /\ UNCHANGED <<row, torn, req>>

-----------------------------------------------------------------------------
(* Time and failures.                                                      *)

Sooner(t) == IF t = None \/ t = -1 THEN t ELSE t - 1

Older(entity) ==
  IF entity = None THEN None ELSE [entity EXCEPT !.left = Sooner(@)]

Tick ==
  /\ row' = Older(row)
  /\ job' = [p \in Timed |-> IF job[p].st = "delayed" /\ job[p].left > 0
                               THEN [job[p] EXCEPT !.left = @ - 1]
                               ELSE job[p]]
  /\ req' = [q \in Requests |->
              IF req[q] = None THEN None ELSE [req[q] EXCEPT !.row = Older(@)]]
  /\ worker' = IF worker = None THEN None ELSE [worker EXCEPT !.row = Older(@)]
  /\ UNCHANGED torn

\* An awaited call of a request rejects.
RequestFail(q) ==
  /\ req[q] # None
  /\ MayFail
  /\ req' = [req EXCEPT ![q] = None]
  /\ UNCHANGED <<row, torn, job, worker>>

\* process throws: one attempt only, and the failed job keeps its id.
WorkerFail ==
  /\ worker # None
  /\ MayFail
  /\ job' = [job EXCEPT ![worker.phase].st = "failed"]
  /\ worker' = None
  /\ UNCHANGED <<row, torn, req>>

\* The process dies: the queue later hands the stalled job out again.
Crash ==
  /\ ~Quiescent
  /\ MayFail
  /\ req' = [q \in Requests |-> None]
  /\ job' = [p \in Timed |-> IF job[p].st = "active"
                               THEN [st |-> "delayed", left |-> 0] ELSE job[p]]
  /\ worker' = None
  /\ UNCHANGED <<row, torn>>

RequestStep(q) == \/ RequestRemove(q) \/ RequestSelect(q) \/ RequestUpdate(q)
                  \/ RequestAdd(q) \/ RequestDelete(q)

WorkerStep == \/ WorkerDrop \/ WorkerRead \/ WorkerSelect \/ WorkerUpdate
              \/ WorkerAdd \/ WorkerFinish

Next ==
  \/ \E q \in Requests :
       \/ StartTimer(q) \/ PauseTimer(q) \/ ResumeTimer(q) \/ RestartTimer(q)
       \/ ChangePomodoro(q) \/ UpdateRoom(q) \/ SoftDelete(q)
       \/ RequestStep(q)
       \/ RequestFail(q)
  \/ \E p \in Timed : WorkerTake(p)
  \/ WorkerStep \/ WorkerFail \/ Crash
  \/ Tick

Spec == Init /\ [][Next]_vars

\* Handlers run on and time passes; the host need not do anything.  A worker
\* polls for jobs that are due, so a due job is taken if it can be repeatedly.
Fairness ==
  /\ \A q \in Requests : WF_vars(RequestStep(q))
  /\ WF_vars(WorkerStep)
  /\ \A p \in Timed : SF_vars(WorkerTake(p))
  /\ WF_vars(Tick)

FairSpec == Spec /\ Fairness

-----------------------------------------------------------------------------
(* Properties.                                                             *)

Consistent(r) ==
  /\ r.phase \in Timed => r.left # None
  /\ r.phase = "PAUSED" => r.rem # None

\* The non-null assertions on timerEndAt, phaseStartedAt and pauseRemainingMs
\* meet a null only in a torn row.  A row that the UPDATEs of two saves did not
\* mix has an end and a start when it is focused or in a break and its
\* remaining time when it is paused, however stale the save that wrote it, and
\* through failures and crashes.
RowConsistent == ~torn => Consistent(row)

\* With the handlers one at a time: whenever none runs, a phase that should end
\* has its job in the queue, a focus job never fires before the end shown to
\* the participants, and no focus job is left behind in another phase.
PhaseArmed ==
  Quiescent /\ ~row.deleted =>
    /\ row.phase \in Timed => job[row.phase].st = "delayed"
    /\ row.phase = "FOCUS" => job["FOCUS"].left >= row.left
    /\ row.phase # "FOCUS" => job["FOCUS"].st = "none"

Promise == INSTANCE Pomodoro WITH
             stage <- IF row.deleted THEN "GONE" ELSE row.phase

\* With the handlers one at a time the rows are those of the promised timer:
\* every save is one of its steps, and a focus phase or break that is not
\* stopped ends.
KeepsPromise == Promise!Spec
=============================================================================
