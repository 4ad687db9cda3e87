------------------------------ MODULE UserStats ------------------------------
(***************************************************************************)
(* A user's totals (user-stats.processor.ts): the worker of                *)
(* user-stats-queue adds a job's minutes to the daily study log and to the *)
(* denormalised columns of the user row in one transaction, then to the    *)
(* boards of the leaderboard in Redis (leaderboard.service.ts), outside    *)
(* it.  Meanwhile users.service.ts, update reads the whole user row,       *)
(* awaits the uploads and saves the entity.                                *)
(*                                                                         *)
(* The queue is BullMQ as the code configures it: one attempt, and a job   *)
(* whose worker stalls is handed out once more.                            *)
(*                                                                         *)
(* A day is a number; a user lives zone days ahead of the server.  Of the  *)
(* boards only the current ones are kept: nothing reads a board whose day, *)
(* week or month is over, and none expires before it is.  The              *)
(* branches no job reaches are left out: a payload with nothing to count   *)
(* (every producer checks it) and a user row that is gone.                 *)
(***************************************************************************)
EXTENDS Integers, FiniteSetsExt, Sequences

CONSTANTS
  Users,
  Jobs,       \* SESSION_COMPLETED jobs the producers may add
  Workers,    \* one per server process
  Zones,      \* days a user's calendar may be ahead
  Earnings,   \* values of earnedMinutes
  MaxDay,     \* bound on the server's calendar
  Mondays,    \* the days a week begins
  Null        \* null

\* The database of time zones is finite: one zone is the furthest ahead.
ASSUME ZonesAssumption ==
  0 \in Zones /\ Zones \subseteq Nat /\ \E z \in Zones : \A y \in Zones : y <= z
ASSUME EarningsAssumption == Earnings \subseteq Nat
ASSUME DaysAssumption == MaxDay \in Nat /\ Mondays \subseteq Nat
ASSUME NullAssumption == Null \notin Nat \cup Workers

VARIABLES
  day,        \* the server's calendar
  user,       \* user rows
  log,        \* daily_study_log: [Users -> [Days -> minutes or Null]]
  board,      \* the current board of each period
  job,        \* the queue's jobs
  run,        \* the locals of each worker
  profile,    \* the profile update in flight for each user
  rewritten   \* history: users for whom a profile update wrote the zone or a total

statsVars == <<day, user, log, board, job, run, profile, rewritten>>

Days == 0..(MaxDay + Max(Zones))

\* sessionsCount is left out: the transaction adds to it as it adds minutes.
UserRow == [totalFocusMinutes : Nat, currentStreak : Nat, longestStreak : Nat,
            lastStudyDate : Days \cup {Null}, timezone : Zones]

\* In the order the pipeline increments them.  The board of the month, which is
\* kept as that of the week, is left out.
Periods == <<"overall", "weekly", "daily">>
Boards == {"overall", "weekly", "daily"}

Columns == {"totalFocusMinutes", "currentStreak", "longestStreak", "lastStudyDate", "timezone"}

\* runs: how often a worker has taken the job.  by: who holds its lock.
Job == [st : {"absent"}]
       \cup [st : {"waiting", "active", "failed", "done"}, user : Users,
             earned : Earnings, by : Workers \cup {Null}, runs : 0..2]

Idle == [pc |-> "idle"]
Run == {Idle} \cup [pc : {"lock", "board", "finish"}, job : Jobs]
               \cup [pc : {"commit"}, job : Jobs, row : UserRow, today : Days]

\* write: the columns in which the entity differed from the row it found.
Profile == {Null} \cup [entity : UserRow, write : SUBSET Columns, saving : BOOLEAN]

StatsTypeOK ==
  /\ day \in 0..MaxDay
  /\ user \in [Users -> UserRow]
  /\ log \in [Users -> [Days -> Nat \cup {Null}]]
  /\ board \in [Boards -> [Users -> Nat]]
  /\ job \in [Jobs -> Job]
  /\ run \in [Workers -> Run]
  /\ profile \in [Users -> Profile]
  /\ rewritten \subseteq Users

StatsInit ==
  /\ day = 0
  /\ user \in [Users -> [totalFocusMinutes : {0}, currentStreak : {0}, longestStreak : {0},
                         lastStudyDate : {Null}, timezone : Zones]]
  /\ log = [u \in Users |-> [d \in Days |-> Null]]
  /\ board = [p \in Boards |-> [u \in Users |-> 0]]
  /\ job = [j \in Jobs |-> [st |-> "absent"]]
  /\ run = [w \in Workers |-> Idle]
  /\ profile = [u \in Users |-> Null]
  /\ rewritten = {}

-----------------------------------------------------------------------------
(* The queue.                                                              *)

\* userStatsQueue.add: the minutes of a pause or a finished focus phase, or a
\* session that was left with whatever minutes it earned, perhaps none.
Enqueue(j, u, earned) ==
  /\ job[j].st = "absent"
  /\ job' = [job EXCEPT ![j] = [st |-> "waiting", user |-> u, earned |-> earned,
                                by |-> Null, runs |-> 0]]
  /\ UNCHANGED <<day, user, log, board, run, profile, rewritten>>

\* A worker takes a job and opens its transaction.
Take(w, j) ==
  /\ run[w] = Idle
  /\ job[j].st = "waiting"
  /\ job' = [job EXCEPT ![j].st = "active", ![j].by = w, ![j].runs = @ + 1]
  /\ run' = [run EXCEPT ![w] = [pc |-> "lock", job |-> j]]
  /\ UNCHANGED <<day, user, log, board, profile, rewritten>>

\* Mutant: the queue never gives a job up.
ReclaimedAlways(j) == [job EXCEPT ![j].st = "waiting", ![j].by = Null]

\* The job's lock was not renewed in time: the queue hands the job out again,
\* or gives it up the second time.
Reclaimed(j) == [job EXCEPT ![j].st = IF job[j].runs = 1 THEN "waiting" ELSE "failed",
                            ![j].by = Null]

\* The worker's process dies: Postgres rolls an open transaction back.
Crash(w) ==
  /\ run[w] # Idle
  /\ job' = IF job[run[w].job].by = w THEN Reclaimed(run[w].job) ELSE job
  /\ run' = [run EXCEPT ![w] = Idle]
  /\ UNCHANGED <<day, user, log, board, profile, rewritten>>

\* The worker is merely slow, and goes on with a job it no longer holds.
Stall(w) ==
  /\ run[w] # Idle
  /\ job[run[w].job].by = w
  /\ job' = Reclaimed(run[w].job)
  /\ UNCHANGED <<day, user, log, board, run, profile, rewritten>>

\* The run is over; its result counts if the worker still holds the job.
EndRun(w, result) ==
  /\ run' = [run EXCEPT ![w] = Idle]
  /\ job' = IF job[run[w].job].by = w
              THEN [job EXCEPT ![run[w].job].st = result, ![run[w].job].by = Null]
              ELSE job

-----------------------------------------------------------------------------
(* The worker.                                                             *)

Doing(w, pc) == run[w].pc = pc
JobOf(w) == job[run[w].job]

\* The pessimistic_write lock on the user row, until commit or rollback.
Locked(u) == \E w \in Workers : Doing(w, "commit") /\ JobOf(w).user = u

\* Mutant: the board of the day is incremented first.
DailyFirst(u, earned, n) ==
  [p \in Boards |-> IF \E i \in 4 - n..3 : Periods[i] = p
                      THEN [board[p] EXCEPT ![u] = @ + earned] ELSE board[p]]

\* The boards after the first n commands of the pipeline.
Incremented(u, earned, n) ==
  [p \in Boards |-> IF \E i \in 1..n : Periods[i] = p
                      THEN [board[p] EXCEPT ![u] = @ + earned] ELSE board[p]]

\* Mutant: findOne without the lock.
LockIgnored(w) ==
  /\ Doing(w, "lock")
  /\ LET row == user[JobOf(w).user] IN
       run' = [run EXCEPT ![w] = [pc |-> "commit", job |-> run[w].job, row |-> row,
                                  today |-> day + row.timezone]]
  /\ UNCHANGED <<day, user, log, board, job, profile, rewritten>>

\* findOne with the pessimistic lock; today in the user's timezone.
LockUser(w) ==
  /\ Doing(w, "lock")
  /\ ~Locked(JobOf(w).user)
  /\ LET row == user[JobOf(w).user] IN
       run' = [run EXCEPT ![w] = [pc |-> "commit", job |-> run[w].job, row |-> row,
                                  today |-> day + row.timezone]]
  /\ UNCHANGED <<day, user, log, board, job, profile, rewritten>>

Abs(n) == IF n < 0 THEN -n ELSE n

Streak(row, today) ==
  CASE row.lastStudyDate = Null                  -> 1
    [] row.lastStudyDate = today                 -> row.currentStreak
    [] OTHER -> IF Abs(today - row.lastStudyDate) = 1 THEN row.currentStreak + 1 ELSE 1

\* The row the transaction saves.
Counted(row, today, j) ==
  LET streak == Streak(row, today) IN
  [row EXCEPT !.currentStreak = streak,
              !.longestStreak = IF streak > @ THEN streak ELSE @,
              !.lastStudyDate = today,
              !.totalFocusMinutes = @ + job[j].earned]

\* The upsert and the save become visible together, and the lock is released.
Commit(w) ==
  /\ Doing(w, "commit")
  /\ LET j == run[w].job
         u == job[j].user
         today == run[w].today
     IN /\ user' = [user EXCEPT ![u] = Counted(run[w].row, today, j)]
        /\ log' = [log EXCEPT ![u][today] = (IF @ = Null THEN 0 ELSE @) + job[j].earned]
        /\ run' = [run EXCEPT ![w] = [pc |-> IF job[j].earned > 0 THEN "board" ELSE "finish",
                                      job |-> j]]
  /\ UNCHANGED <<day, board, job, profile, rewritten>>

\* Mutant: the error is swallowed.
RollbackSilently(w) ==
  /\ run[w].pc \in {"lock", "commit"}
  /\ EndRun(w, "done")
  /\ UNCHANGED <<day, user, log, board, profile, rewritten>>

\* A statement of the transaction fails: rollback, and the job fails.
Rollback(w) ==
  /\ run[w].pc \in {"lock", "commit"}
  /\ EndRun(w, "failed")
  /\ UNCHANGED <<day, user, log, board, profile, rewritten>>

\* increamentUserState; when Redis becomes unreachable the rest of the pipeline
\* resolves to errors nobody looks at.
Board(w) ==
  /\ Doing(w, "board")
  /\ \E reached \in 0..Len(Periods) :
       board' = Incremented(JobOf(w).user, JobOf(w).earned, reached)
  /\ run' = [run EXCEPT ![w] = [pc |-> "finish", job |-> run[w].job]]
  /\ UNCHANGED <<day, user, log, job, profile, rewritten>>

Finish(w) ==
  /\ Doing(w, "finish")
  /\ EndRun(w, "done")
  /\ UNCHANGED <<day, user, log, board, profile, rewritten>>

-----------------------------------------------------------------------------
(* update in users.service.ts.                                             *)

\* Bound: no update after one that changed something.
ProfileRead(u, zone) ==
  /\ profile[u] = Null
  /\ u \notin rewritten
  /\ profile' = [profile EXCEPT ![u] = [entity |-> [user[u] EXCEPT !.timezone = zone],
                                        write |-> {}, saving |-> FALSE]]
  /\ UNCHANGED <<day, user, log, board, job, run, rewritten>>

\* An upload rejects.
ProfileFail(u) ==
  /\ profile[u] # Null /\ ~profile[u].saving
  /\ profile' = [profile EXCEPT ![u] = Null]
  /\ UNCHANGED <<day, user, log, board, job, run, rewritten>>

\* The ORM's save first selects the row, which waits for no lock...
ProfileCompare(u) ==
  /\ profile[u] # Null /\ ~profile[u].saving
  /\ profile' = [profile EXCEPT ![u].saving = TRUE,
                   ![u].write = {c \in DOMAIN user[u] : profile[u].entity[c] # user[u][c]}]
  /\ UNCHANGED <<day, user, log, board, job, run, rewritten>>

\* ... then updates the columns that differed, which does.
ProfileWrite(u) ==
  /\ profile[u] # Null /\ profile[u].saving
  /\ ~Locked(u)
  /\ user' = [user EXCEPT ![u] = [c \in DOMAIN @ |->
                IF c \in profile[u].write THEN profile[u].entity[c] ELSE @[c]]]
  /\ rewritten' = IF profile[u].write = {} THEN rewritten ELSE rewritten \cup {u}
  /\ profile' = [profile EXCEPT ![u] = Null]
  /\ UNCHANGED <<day, log, board, job, run>>

\* getRedisKey: a period that begins has a board of its own.
Beginning(d) == {"daily"} \cup (IF d \in Mondays THEN {"weekly"} ELSE {})

NewDay ==
  /\ day < MaxDay
  /\ day' = day + 1
  /\ board' = [p \in Boards |-> IF p \in Beginning(day + 1) THEN [u \in Users |-> 0] ELSE board[p]]
  /\ UNCHANGED <<user, log, job, run, profile, rewritten>>

Work(w) ==
  \/ \E j \in Jobs : Take(w, j)
  \/ LockUser(w) \/ Commit(w) \/ Board(w) \/ Finish(w)

StatsNext ==
  \/ \E j \in Jobs, u \in Users, earned \in Earnings : Enqueue(j, u, earned)
  \/ \E w \in Workers : Work(w) \/ Rollback(w) \/ Crash(w) \/ Stall(w)
  \/ \E u \in Users : \/ \E zone \in Zones : ProfileRead(u, zone)
                      \/ ProfileFail(u) \/ ProfileCompare(u) \/ ProfileWrite(u)
  \/ NewDay

StatsSpec == StatsInit /\ [][StatsNext]_statsVars

-----------------------------------------------------------------------------
(* Properties.                                                             *)

Logged(u) == {d \in Days : log[u][d] # Null}

\* The elements of Units(f) are the units of f, one by one; Total adds f up by
\* counting them.
Units(f) == UNION {{x} \X (1..f[x]) : x \in DOMAIN f}
Total(f) == Cardinality(Units(f))

\* getHeatmap: a day without a row counts nothing.
Heatmap(u) == [d \in Days |-> IF log[u][d] = Null THEN 0 ELSE log[u][d]]
LoggedMinutes(u) == Total(Heatmap(u))

\* The n days up to the last one are all study days.
Streaks(u, last, n) == (last - n + 1)..last \subseteq Logged(u)

\* The denormalised columns say what the daily log says, however many workers
\* run, crash or repeat a job, as long as no profile update has written the
\* zone or one of these columns: the total is what the heatmap adds up to, the current streak
\* the run of days that ends on the last study date, the longest the longest.
ProfileAgrees ==
  \A u \in Users \ rewritten :
    /\ user[u].totalFocusMinutes = LoggedMinutes(u)
    /\ Logged(u) # {} =>
         LET row == user[u] IN
         /\ row.lastStudyDate = Max(Logged(u))
         /\ Streaks(u, row.lastStudyDate, row.currentStreak)
         /\ ~Streaks(u, row.lastStudyDate, row.currentStreak + 1)
         /\ \E d \in Days : Streaks(u, d, row.longestStreak)
         /\ \A d \in Days : ~Streaks(u, d, row.longestStreak + 1)

\* The boards are written after the commit and by the same run, so none is ever
\* ahead of the minutes in the log; and however often the pipeline breaks off, a
\* user's score of the day is within that of the week, and this within the
\* overall one.
BoardNeverAhead ==
  \A u \in Users :
    /\ board["overall"][u] <= LoggedMinutes(u)
    /\ board["daily"][u] <= board["weekly"][u]
    /\ board["weekly"][u] <= board["overall"][u]

\* The minutes of the user's jobs: of those reported done, and of every run of each.
Done(u) == [j \in Jobs |-> IF job[j].st = "done" /\ job[j].user = u THEN job[j].earned ELSE 0]
Ran(u)  == [j \in Jobs |-> IF job[j].st # "absent" /\ job[j].user = u
                            THEN job[j].runs * job[j].earned ELSE 0]

\* A job reported done has its minutes in the log, and one the queue hands out
\* again has them there at most once per run.
DoneIsLogged == \A u \in Users : LoggedMinutes(u) \in Total(Done(u)) .. Total(Ran(u))
=============================================================================
