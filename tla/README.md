# A specification of the study-room back end

TLA+ modules, TLC configurations and TLAPS proofs for the NestJS server of
*studytogather*: rooms in which people study together under a shared pomodoro
timer, with focus-time statistics, a leaderboard, live room events, chat,
friendships and direct messages. Paths below are relative to the repository's
`src/`, and `features/` stands for `src/features/`.

The server is one Node process (or several) in front of PostgreSQL (TypeORM),
Redis (ioredis) and three BullMQ queues (timers, statistics, mail). Nearly
every operation reads some rows, awaits, and writes them back, with no
transaction around it. Between any two awaits any other request, socket event
or queue worker may run: that is what the modules are about.

## 1. Inventory

### Components

| Component | State | Operations | What makes it correct |
|---|---|---|---|
| **Room membership** `rooms.service.ts` create, join, leave, handleUserDisconnect, softDeleteRoom | `room.currentNumParticipents`, `study_session.status` | join: read room, look for an active session, insert one, increment; leave: find, guarded update, queue the report, decrement | the counter counts the sessions; a session is reported once; overbooking is bounded |
| **Host's settings** `rooms.service.ts` update, changePomodoro and the timer handlers | the whole room row | read the entity, await, save the entity | no other request's write is lost, or it is known which one |
| **Pomodoro timer** `rooms.service.ts` start/pause/resume/restart, `room-timer.processor.ts` | `currentPhase`, `timerEndAt`, `phaseStartedAt`, `pauseRemainingMs`; the delayed jobs `timer-<room>-focus`, `timer-<room>-break` | host handlers; the worker ends a phase, saves the next one, adds its job | a phase that nobody stops ends, at its end; no job of another phase is left |
| **Focus credit** the loops in pauseTimer, in the worker, and leave | `totalFocusMinutes` of a session, `SESSION_COMPLETED` jobs | credit the minutes since the later of `joinedAt` and `phaseStartedAt` | time is credited once and lost only to rounding; both totals agree |
| **User statistics** `user-stats.processor.ts` | `totalFocusMinutes`, streaks, `lastStudyDate` of the user; `daily_study_log` | one transaction per job, under a row lock | the columns say what the log says; a job reported done is counted |
| **Leaderboard** `leaderboard.service.ts` | Redis sorted sets: overall, and of the month, week and day (UTC) | increment all four in one pipeline after the commit; read pages and ranks | never ahead of the log; a shorter period never ahead of a longer one |
| **Profile** `users.service.ts` | the user row | sign up, update (read, upload, save), remove | an update keeps the columns it does not mean to change |
| **Room gateway** `room.gateway.ts` | in memory: relays with their client counts, heartbeats, chat histories; per socket: `roomId` | connect, join_room, leave_room, disconnect, send_message, typing | a relay lives as long as its clients; no message is missed; presence follows the socket |
| **Presence** `presence.service.ts` | Redis keys with a 60 s expiry | setOnline, setOffline, lookups | a user is online in the room he is in |
| **Event stream** `rooms.controller.ts` connectToRoom | an interval per open request | open (await the room, set online, beat), close | a user is online while a stream of his is open |
| **Friendships** `friendships.service.ts` | friendship rows, directional unique index | request, answer, remove, list, live presence stream | one relation per pair; nobody is made a friend unasked |
| **Direct messages** `dm-chat.gateway.ts`, `direct-messages.service.ts` | messages, socket rooms | send, edit, page | only friends write to each other |
| **Goals** `goals.service.ts` | goal rows | create, update, remove (with the goals below) | the room hears what is stored; the event names what the handler did |
| **Mail** `mail.service.ts`, `mail.processor.ts` | `mail-queue`, three attempts with backoff | send directly or queue, retry failed | a mail is sent or its failure is known; it is repeated only in doubt |
| **Authentication** `auth.service.ts`, strategies, guards | password hash, reset token and its expiry | sign up, sign in, change, forget, reset password | a reset token works once; no save takes back a password |
| **Storage, LiveKit, health, configuration, DTOs, migrations** | none of their own | I/O and wiring | – |

### Interactions

* The gateway's disconnect calls `handleUserDisconnect`, which is `leave` with
  its errors swallowed; the HTTP `leave` may run at the same time.
* `join`, the timer handlers and the worker write different columns of **one**
  room row; TypeORM's `save(entity)` selects the row and updates every column
  in which the entity differs from it, so it also writes back what is stale.
* pause, the end of a focus phase and leave credit the same session rows and
  add `SESSION_COMPLETED` jobs, which the statistics worker adds to the user
  row; `users.service.ts` `update` saves that same row.
* The services emit `room.updated.<id>` events in process; the gateway relays
  them through one listener per room.
* The timer worker arms each phase from the handler of the previous one; the
  queue's job ids make `add` a no-op while a job of that id exists.

### Hard behaviours

Check-then-act across awaits (join, friend requests, sign-up); stale entities
saved whole (room, session, user, friendship); queue semantics (job ids, active
jobs that `remove` cannot touch, one attempt, stalled jobs that run twice);
partial failure of multi-statement operations; state in memory that a restart
loses; an await in the middle of `join_room`; calendars in the user's timezone.
`PROJECT.json` lists each hazard with its line and the property that guards it.

## 2. The modules

| Module | Models | Checked by | Proofs |
|---|---|---|---|
| `RoomMembership` | join, leave, disconnect, deletion, statement by statement | `MCRoomMembership` / `RoomMembership.cfg`, `RoomMembership_deleted.cfg` | `RoomMembershipProofs` |
| `RoomHost` (extends `RoomMembership`) | the host's and the worker's whole-entity saves on the same room rows | `MCRoomHost` / `RoomHost.cfg` | `RoomMembershipProofs` |
| `Pomodoro` | abstract: what the timer promises | refined by `PhaseTimer` | – |
| `PhaseTimer` | timer handlers, worker, delayed jobs, time, failures, crashes | `PhaseTimer_serial.cfg`, `MCPhaseTimer` / `PhaseTimer_overlap.cfg` | `PhaseTimerProofs` |
| `FocusCredit` | minutes credited by pause, end of phase, leave | `MCFocusCredit` / `FocusCredit.cfg` | `FocusCreditProofs` |
| `UserStats` | the statistics transaction, its queue, the boards, the heatmap, the profile save | `MCUserStats` / `UserStats.cfg` | `FocusCreditProofs` |
| `Friendships` | friend requests, answers, removals, lists, live streams, direct messages | `MCFriendships` / `Friendships.cfg` | `FriendshipsProofs` |
| `RoomGateway` | sockets, relays, heartbeats, event streams, presence keys, chat history | `MCRoomGateway` / `RoomGateway.cfg` | `RoomGatewayProofs` |
| `Accounts` | user rows: sign-up, profile, passwords, reset links, removal | `MCAccounts` / `Accounts.cfg` | `AccountsProofs` |
| `Mailbox` | abstract: what the mail service promises | refined by `MailQueue` | – |
| `MailQueue` | direct and queued mail, attempts, stalls, crashes, retries | `MailQueue.cfg` | `MailQueueProofs` |
| `Goals` | goals and the events their owner's room hears | `MCGoals` / `Goals.cfg` | `GoalsProofs` |

Operators whose comment starts with `Mutant:` are the operation below them with
a plausible bug; no specification uses them. They show that the properties can
fail.

### RoomMembership

`room` holds `deletedAt`, `maxCapacity` and the counter (as `status`,
`capacity`, `participants`); `session` the session rows; `completions` how often
a session was queued with `incrementSession: true`; `call` the locals of each
request in flight and the statement it runs next. Each awaited statement that
reads or writes shared state is an action:

* `join`: `JoinRead` (findOneBy, keeps the free places), `JoinAdmit` or
  `JoinTurnAway` (the session lookup and the tests on it), `JoinInsert`,
  `JoinIncrement`.
* `leave`: `LeaveFind` (findOne with the room joined), `LeaveClose` or
  `LeaveLostRace` (the update `WHERE status = ACTIVE` affected one row or none),
  `LeaveQueue`, `LeaveDecrement`.
* `FailBeforeWriting`, `FailHalfway`: any of these statements rejects, or the
  process dies. A request that dies halfway keeps its slot, so that what it owed
  stays visible and is bounded.

Passcode, LiveKit token, payloads and events write none of this state and are
left out. The minutes a leave earns are in `FocusCredit`, the writes of host
handlers in `RoomHost`. The bulk saves of pause and of the worker can reopen a
closed session; the membership properties speak of joins, leaves and deletions
only, and `FocusCredit` has the bulk saves.

### RoomHost

`HostRead` takes an entity as `findOneBy` returns it (the handler may assign
`maxCapacity`). TypeORM's save is `HostLookUp`, its SELECT, and `HostSave`, the
UPDATE of the columns in which the entity differed from what was found.
Interleaved with every action of `RoomMembership`. `softDelete` and `increment`/`decrement` are single-column
updates, the save is not: the run shows a save is the **only** step that moves
the counter away from its sessions.

### Pomodoro and PhaseTimer

`PhaseTimer` is one room. `row` are its timer columns, `job` the two delayed jobs
(state and remaining delay), `req` the locals of host requests, `worker` the run
of the timer worker (BullMQ's default concurrency, 1). A request is `Begin` (read, guard on the phase,
compute the new row from the row read and the clock) and then its awaited
calls: `RequestRemove`, `RequestSelect` and `RequestUpdate` (the two statements of
the save), `RequestAdd`, `RequestDelete`. The worker is `WorkerTake`, `WorkerRead`
or `WorkerDrop` (the stale test), `WorkerSelect`, `WorkerUpdate`, `WorkerAdd`,
`WorkerFinish`.

`Differing` are the columns in which the entity differs from the row at the
SELECT; two times in one tick may or may not (`MayDiffer`). UPDATE writes those
columns only, so two saves can mix (section 5 has a case).
`torn` is a history variable: the row is torn when an UPDATE changed it after
another had changed it since its SELECT, or when an entity read from a torn row is
saved as it was read; a save that nobody overtook makes it whole again.

Points in time are kept relative to now and `Tick` ages all of them, those in
stale locals too, so the state space is finite without bounding the clock; a
time that has passed is `-1`. The queue is BullMQ as the code uses it: `add`
with an id that exists in any state does nothing; a negative delay is none;
`remove` leaves an active job alone; `removeOnComplete` frees the id; a failed
job, with the one attempt the timer queue has, keeps it; a stalled job is handed
out again.

`Pomodoro` is five stages and the moves between them, with the promise that a
focus phase or a break ends. `KeepsPromise` is `Promise!Spec` under
`stage <- IF row.deleted THEN "GONE" ELSE row.phase`.

### FocusCredit

One room, its sessions, a clock with `TicksPerMinute` ticks per minute. `room` are
the two columns that decide on credit, the phase (`FOCUS` or not) and
`phaseStartedAt`. A *stop* (pause, or the worker at the end of a focus phase: the
same loop) reads the room (`StopRead`), loads the active sessions, credits one
after the other to the entity and the queue, saves the sessions in bulk, saves the
room. A *start* (`StartRead`: start, resume, end of a break) saves FOCUS and now. An
*edit* (`EditRead`: `update`, `changePomodoro`, `restartTimer`) saves the phase, and
the first two the start, as it read them. Each save of the room is `LookUp` and
`Write`, the two statements of TypeORM's save. A *leave* computes its minutes from
the session joined with the room, closes the session if it is still active, then
queues. Any handlers may be in flight together, and `Fail` ends one at any of its
awaits. `update` may await an upload, so an edit may hold its entity while the clock
goes on; the clock stands still during all else, which takes milliseconds while
minutes are the unit.

`focused` and `stretches` are history variables: how long each session really was
focused, and how many roundings it went through. `disputed` names the sessions of
which nothing is claimed:

* a stop and another handler worked on it at once: the stop's bulk save may then
  write what was true before;
* a handler left it half done;
* a save of a room entity read before another save moved its stretch, which is the
  code's own fault: `update` brings `FOCUS` and the old `phaseStartedAt` back after a
  pause or the end of a phase, and the next stop credits the same minutes again; or
  it ends a stretch that nobody credited.

Of all other sessions everything is claimed. A stale save that leaves a session's
stretch where it was does not dispute it, nor do two leaves of one session: the
guarded update decides between them.

### UserStats

`user`, `log`, `board` are the stores; `job` the queue; `run` each worker's
locals. `LockUser` is the findOne with `pessimistic_write`, `Commit` makes the
upsert and the save visible together, `Rollback` fails the job, `Board` comes
after the commit and applies the pipeline up to where it breaks off. Of the
boards only the current ones are kept: `getRedisKey` never names an older one,
and the keys expire after twice their period or so. The month's is left out, as
it is kept like the week's. `Heatmap` is what the profile page reads. `Crash`
rolls an open transaction back; `Stall` lets a slow worker go on with a job that is
handed out again (at most once: `maxStalledCount` is 1). The profile update is `ProfileRead`, `ProfileCompare`
(TypeORM's select), `ProfileWrite` (only the columns that differed; it waits for
the lock). Days are numbers and a user lives `timezone` days ahead. A total of
minutes is the number of elements of a finite set, one per minute (`Units`,
`Total`): so the proofs can count them. The names of the specification are its own
(`StatsSpec`, `StatsTypeOK`), as one module proves about it and `FocusCredit`.

### Friendships

`row` are the friendship rows, `message` the direct messages, `call` the
handlers' locals. `SendNew`, `SendAccepts` and `SendAgain` are the three ways
`sendRequest` ends in a save, by what its query found (any one row between the
two, in either direction); `RespondToRequest` and `RemoveFriendship` read, check
and go on to `LookUp` and `Delete`. TypeORM's save is `LookUp` (its select) and
then `Insert`, `Update` (only the columns that differ) or `UpdateNothing` (the
row was removed in between); the unique index refuses a second row of the same
direction. `SendDm` is the check of `send_dm`, `Deliver` the save after it.
`EditMessage` is `edit_dm`: the text is changed and sent to the sender and to
whomever the client's payload names, which nobody checks; a message keeps who was
sent a text of it (`reached`) and which of them only an edit named (`named`).
`Strangers` are users who have no part in anything but may be named so.
`Friends`, `PendingRequests`, `SentRequests`, `Status` and `Conversation` are what
the reading routes answer (`Status` is a set: with two rows between two users
`findOne` may take either), and `live` the set of friends a presence stream was
opened with. Histories: `wanted`, who stands behind a row now; `asked`, who ever
did; `overtaken`, the rows saved by a handler whose read was stale; `crossed`, the
pairs whose row was inserted while another handler was about to save one.

### RoomGateway

`client`, `join`, `listeners`, `heartbeat`, `presence`, `chat`, `seen`, `stream`.
Handlers run to completion except `join_room`, which is `JoinStart` (up to
`findOne`) and `JoinFound` or `JoinFails`; anything may happen between, the
client's disconnect included. The event stream is `StreamStart` and, past the
same await, `StreamFound` or `StreamFails`; `StreamAbandon` is a request that
closes in between, which `StreamClose` then never hears of. `Restart` clears the
memory and leaves the Redis keys, which `Expire` removes once no interval renews
them. Every caller of `setOnline` and `setOffline` catches a rejection, logs it and
goes on: `Command` is the SET or DEL that reaches Redis, or is rejected, whether it
was carried out or not. `disturbed` is a history variable naming the joins that failed, were
repeated, or were overtaken by another event of their client; `adrift` names
the users of whose commands one was rejected, or who were online when the server
died, until the next command that reaches Redis.

### Accounts

`row` is the user table, as far as handlers decide on it: e-mail, username,
password, reset token. Sign-up is the test of the e-mail (`SignUp`,
`GoogleSignUp`), of the name (`NameIsFree`; Google's loop tries the next,
`NextName`), and the insert (`Create`, `CreateFromOAuth`) that the unique indexes
may refuse. `UpdateProfile`, `ChangePassword`, `ForgetPassword` and
`ResetPassword` read a row and go on to `LookUp` and `Update`, `Insert` or
`UpdateNothing`, TypeORM's save; a link is posted only then (`PostLink`). `Remove`
and `Delete` are the two statements of `remove`. Usernames have two spellings:
sign-up lowers them, `update` stores what it is given, `findOneByUsername` lowers
its argument. Histories: `meant` is the table had every operation done just what
it is for; `stale` names the handlers whose row another one wrote since they read
it, and `overtaken` the users to whose row such a save did more than it was for;
`late` the resets whose token a save wrote into a row since they looked it up, and
`spent` the tokens by which a reset that was not late was done, until a save writes
the token again.

### Mailbox and MailQueue

`Mailbox` is the promise: a mail accepted becomes sent or failed; it is sent only
if the provider took it; failed mails may be retried or cleared. `MailQueue` is
the code: without the queue `SendDirect`, `DirectAnswer`, `DirectReturn`; with it
`SendQueued` and the worker's `Take`, `HandleSendEmail`, `Complete` or `Throw`,
under BullMQ's attempts, delays (`Promote`) and stalls. `Provide` is the provider:
an error may come back though the mail was taken (the SMTP provider turns every
error into an answer). A worker that lost its job (`Stall`) goes on and can settle
nothing (`Disowned`). `KeepsMail` is `Mailbox!Spec` under the job's state.

### Goals

`row` the goals, `call` the handlers' locals, `heard` what the owner's room was
last told of each. `Create` and `Update` read and decide the kind of event,
`LookUp`, `Insert`, `WriteColumns`, `WriteNothing` are the save, `Announce` finds
the owner in a room or not and emits the entity. `Delete` removes what is below
the goal too, as the foreign key cascades (`Cascade`, the closure of the parent
column). Histories: `stale`, the handlers whose
goal another one wrote since they read it; `uncertain`, the goals whose last
change the room heard wrong or not at all.

## 3. The runs

| Run | Checks | Shows |
|---|---|---|
| `membership` | `TypeOK`, `CounterAccounting`, `AdmissionBound`, `SessionsPerUserBound`, `CompletedOnce` | the unlocked check-then-act of join and leave still keeps an exact account, overbooks by at most the other requests, and reports a session once |
| `room_host` | `OnlyStaleSavesDrift` | the counter drifts only at a save of a stale entity |
| `timer_serial` | `PhaseArmed`, `KeepsPromise` | with one handler at a time the timer implements `Pomodoro`, liveness included |
| `timer_overlap` | `TypeOK`, `RowConsistent` | with overlapping handlers, failures and crashes, the code's `!` assertions meet a null only in a row that the UPDATEs of two saves have mixed |
| `focus_credit` | `TypeOK`, `FairCredit`, `CountedOnce` | unless a stop and another handler worked on a session at once, or a stale save of the room moved its stretch, nobody gains or loses more than rounding, and a session is counted once |
| `user_stats` | `StatsTypeOK`, `ProfileAgrees`, `BoardNeverAhead`, `DoneIsLogged` | the lock, the transaction, the order commit–board and the order of the pipeline do their work under crashes, stalls and rollbacks |
| `friendships` | `TypeOK`, `FriendsWantIt`, `NobodyIsForced`, `InOneList` | an unwanted friendship takes a stale save; one, a stored message or a look at someone's presence that one side never agreed to does not occur at all, and a text reaches a stranger by an edit only; two rows take two requests that cross |
| `gateway` | `TypeOK`, `ListenerAccounting`, `PresenceTracksRoom`, `HistoryHasNoGap`, `OnlineIsReported` | what survives the awaits in `join_room` and in the event stream, and commands that Redis rejects |
| `accounts` | `TypeOK`, `RowIsAsMeant`, `LinkWorksOnce` | e-mails and names stay unique; what an operation did to a row stands, except where a save was stale; after a reset no row keeps its token, unless a save that read the row before writes it back |
| `mail` | `TypeOK`, `RepeatsAreDoubtful`, `CallsAreBounded`, `KeepsMail` | the queue and the direct mode implement `Mailbox`, liveness included; a mail is repeated only if nobody could know that it was taken |
| `goals` | `TypeOK`, `NamedFlips`, `FeedAgrees` | a handler whose read was fresh announces what it did, and puts right what the room heard |

One further run, `membership_deleted`, finds a statement of the repository
violated, and is a finding in `PROJECT.json`: a disconnect does not close the
session when the room was deleted, as `leave` reads `room.currentPhase` of a null
room. The session stays `ACTIVE`, and every later join fails on it.

### Bounds

* *Membership*: two requests, two users, two rooms, three sessions, capacities 1
  and 2. The races are between two requests; the third session lets a room be
  overbooked and a user be admitted twice, and a lost session is never needed
  again. The theorems cover every size.
* *RoomHost*: as above with one room and one saver: a save conflicts with
  one other write at a time (333,744 states).
* *PhaseTimer*: in the serial run, one request and durations of 1 and 2 ticks, so
  that a phase changed by `changePomodoro` can be longer or shorter than the one
  before; no failure. In the overlap run two requests of which two, or one and the
  worker, are in flight, one duration (how long a phase is bears on `PhaseArmed` only),
  any number of failures and crashes (4,650,454 states). `MaxInFlight` = 1 is what
  "one at a time" means: `PhaseArmed` and the promise do **not** hold with overlapping
  handlers (below).
* *FocusCredit*: two ticks a minute (the least that shows rounding), three ticks,
  two sessions, two handlers, any number of failures: enough for a pause and a
  resume, a late join, any two handlers meeting on one session, and an edit that
  spans a pause. What the model still keeps of a disputed session is forgotten by
  the `VIEW` of `MCFocusCredit`: no guard and no claim about another session depends
  on it, and its minutes may grow for ever (3,318,926 states).
* *UserStats*: two jobs that may run twice each, two workers, three days (a
  streak, a gap, a new streak), of which the last begins a week, jobs with and
  without minutes. One profile update that changes something per user:
  `ProfileAgrees` exempts such a user afterwards. `Zones` = {0}: a user who
  changes his timezone is exempt anyway. The theorems hold for any zones.
* *Friendships*: two users (what happens between two is independent of the
  others), one stranger an edit may name, two rows (the most the index allows a
  pair), two handlers; ids are drawn again when nobody refers to them, so sequences
  are unbounded (1,454,508 states).
* *RoomGateway*: two clients, two rooms, two `join_room` events (a client can
  re-join, or two join at once), one event stream, two messages with a history of
  one, so that trimming happens; any command may be rejected (998,632 states).
* *Accounts*: two accounts, two e-mails, one username in two spellings, two
  passwords, one reset token, two handlers: the races are between two, and ids
  are never drawn again, so an account can be removed and its e-mail used anew.
* *MailQueue*: one mail (mails share nothing but the workers), three workers (one
  that stalled, one that took over, one more), the code's three attempts, one
  stall forgiven as BullMQ does, two retries by hand.
* *Goals*: two goals, of which the second may lie below the first, one owner
  (others are refused), two titles, two handlers.

Deadlock is not checked: rooms are deleted, sessions and messages run out, and
clients leave for good, so each bounded system may stop. (Handlers never wait for
each other but at the row lock of `UserStats`, which its holder always releases.)

### Fairness

`PhaseTimer` and `MailQueue` claim liveness. `FairSpec` of `PhaseTimer` assumes weak fairness of the
awaited steps of a request and of the worker (Node resolves every await without
failures), of `Tick` (time passes), and strong fairness of `WorkerTake`: with
one handler at a time a stream of host requests may make a due job wait again
and again, but a BullMQ worker polls, and is not overtaken for ever. The host's
own operations have no fairness: no host ever has to act.

`FairSpec` of `MailQueue` assumes weak fairness of a worker's steps and of the
direct mode's (awaits resolve), of `Promote` (delays elapse) and of `Stall` for a
job no living worker runs (BullMQ looks for stalled jobs), and strong fairness of
taking a job (the queue is polled in order; a stream of crashes does not pass it
over for ever). Nobody has to crash, send, retry or clear.

## 4. What is proved

TLAPS checks these for every value of the constants, from the assumptions each
module names: null is none of the ids, records and numbers it stands beside;
finitely many concurrent requests and joins (`RoomMembership`, `RoomGateway`: the
accounts of both count them); positive capacities, durations, attempts, ticks per
minute and length of a history; lowering a name twice lowers it once (`Accounts`);
one time zone is the furthest ahead, as there are finitely many (`UserStats`).
Every safety property the passing runs check is a theorem: 36 theorems, 34 of which
state a property of a run and two the safety half of a refinement.

In each module the invariant is called `Good` (or by its parts), a lemma per kind of
step shows that it survives, and the theorems follow from `Spec => []Good`.

*RoomMembershipProofs.* `TypeCorrect` is inductive as it stands. The others need
what the locals of a request refer to: `Refs` says that a request between two of
its writes names the room of the session it wrote and that a request past its
update has closed its session. On it rest

* `CounterIsAccounted`: the invariant `Accounting` adds that the sets of active
  sessions, uncounted and unreleased requests are finite; each step moves one
  element of one of them (`InsertSets`, `CloseSets`, `IncrementSets`,
  `DecrementSets`) and the counter follows.
* `OverbookingIsBounded`: `AdmissionBound` alone is not inductive. The
  strengthening counts, per room, the requests that are admitted or about to be:
  active sessions plus those are at most the capacity plus the other requests.
* `SessionsPerUserAreBounded`: the same argument per user.
* `SessionsAreReportedOnce`: a session that is closed was reported once or has
  exactly one request that owes the report; the guard of the update is what keeps
  that request unique.
* `OnlySavesDrift`, an action property of `RoomHost`: `DriftNext` shows that no step
  of a join, a leave or a deletion changes the drift of a room, from `Refs` and the
  finiteness alone. The counter's account is *not* used, as it does not hold there;
  a save that changes the drift must then have written a counter other than the one
  it found (`Saving`).

*PhaseTimerProofs.* `AssertionsHold`, and `TimerTypeCorrect` with it: a stale
save writes a row some handler computed from a row that was consistent when it
was read, so consistency must be carried by the row **and** by every entity in
flight (`GoodSave`, `GoodRequests`, `GoodWorker`), and survive ageing. Between SELECT
and UPDATE it is the row the UPDATE would make that is consistent: SELECT took in
every column that differed, so that this row is the entity (`UpdateIsWhole`), and
stays so unless another UPDATE comes between. Only who was overtaken so, or carries
the columns of a torn row, need not be good, and he tears the row.

`SerialTimerIsArmed` and `PromiseKeptSafely` have the hypotheses of the run
`timer_serial`, `MaxInFlight = 1` and `~MayFail`: with overlapping handlers
or a failure `PhaseArmed` is false (section 5). `PhaseArmed` speaks of the moments
when nothing runs; the invariant `Serial` says for each await of each handler what
is already done (`Handling`, `Working`: the job removed, the row saved, the job
still to be added and with which delay) and that only the worker's own job is
active. Ageing keeps the relation of a job's delay to the row's end (`ArmedOlder`,
`TickIsSerial`). `PromiseKeptSafely` maps each step: a save is one move of
`Pomodoro`, since the row in the hands of the one handler differs from the stored
one by one turn.

*FocusCreditProofs.* `CreditTypes`, `CreditIsFair`, `SessionsCountedOnce`.
`FairCredit` is about moments when nobody works. `Good` gives the books at every
await: for a session that a stop has loaded, what its entity, its row, the queue and
the local list of sessions still to do say about it (`InStop`), and for one that a
leave is about to close or to report (`InLeave`, `Once`); that no two handlers work
on an undisputed session (`Apart`); that a stop has loaded every session with time
in the phase (`Loaded`); that clock readings in locals are now (`Timely`); and that
a handler whose room nobody wrote since it read it (not `stale`) will leave in the
row what it meant to (`Fresh`), so that its `Write` moves no stretch but those it credited: an
edit moves none, a start none that had lasted, a stop ends the ones it has done.
`Fits` is the account of a session: ticks focused, less minutes credited, less ticks
of the running stretch, are at most the roundings; `Crediting` shows that a credit
moves it by one rounding.

The same module proves `StatsTypes`, `ProfilesAgree`, `BoardsNeverAhead` and
`DoneJobsAreLogged` of *UserStats*. Its invariant is `StatsGood`:

* `Queue`: a job that is active knows its holder, and the holder runs it; a job
  handed out again has run once. This is what makes a third run, and so the range of
  `runs` in the types, impossible.
* `Exclusive`: a worker between the lock and the commit has the row as it is stored,
  is the only one there for the user, and its day is not before any in the log. A
  profile save waits for the lock, and so cannot break it; `LockUser` needs `~Locked`
  to establish it.
* `Chain`: last study date, current and longest streak say what the log says. From
  `Exclusive` a commit only ever adds a day at the end, or the last one again, so the
  streak that ends there is continued, kept or begun (`StreakGoesOn`), and the
  longest is the longer of that and what it was (`LongestIs`).
* `Scores`: what a broken pipeline has incremented is a prefix of overall, week and
  day, and the board of a week never begins without that of a day.
* `Accounted`: the books of a user's minutes. `Pending` are the minutes of runs that
  have not committed, `Owed` of those that have and are still to increment the
  boards, `Settled` of jobs that are done or whose holder has committed. Log and
  pending are at most what was run; overall board and owed are at most the log;
  settled is at most the log; the total is the log. Neither `BoardNeverAhead` nor
  `DoneIsLogged` is inductive without them: the log only shows that a job was counted
  when its holder reports it. A step moves the minutes of one job from one account to
  another (`WorkersMove`, `JobsMove`), and `TotalMoves` says what that makes of a
  total.

*RoomGatewayProofs.*

* `GatewayTypeCorrect`: the bound on a relay's count is not inductive alone; it
  follows from "at most the joins that are over" (`CountBounded`), since a join
  counts once, when it completes. The bound on a history needs that `Tail` of the
  longer one is as long as the old one (`Kept`, `Trimmed`).
* `PresenceIsReported`: `OnlineIsReported` is inductive with the types. A writer
  of a key either starts the interval that reports it or is that interval; whoever
  stops an interval deletes the key; and no step touches the intervals of two
  users (`UsersStay`). A command that is rejected sets its user adrift, whatever it
  did, and one that reaches Redis settles the key whatever it was.
* `NoMessageIsMissed`: `HistoryHasNoGap` also needs that only a verified socket is
  ever sent 'connected' (`VerifiedFirst`), or a socket could be verified into a
  room whose history it never got.
* `RelaysCountClients` and `PresenceFollowsRoom` rest on `Settled`, an invariant of
  each client: a join that awaits and was not disturbed finds its client still in
  its room, not yet connected, and is the only such one; who is in a room and not
  connected waits for a join of it, or one was disturbed; and without either the
  heartbeat is the room's. So a join of an undisturbed room counts someone who was
  not counted, and whoever moves on or goes was (`ThereOrWaiting`); the key of a
  user with one connection is written only by that client and its heartbeat, and
  cannot expire (`TrackedNext`).

*FriendshipsProofs.* `FriendshipTypes`, `FriendshipsAreWanted`, `NobodyForced`,
`OneRelation`. `TypeOK` includes the unique index. `Consent` adds to what is stored
what every handler holds: the row it will save is its user's request, or its user's
answer to a request somebody made (`Fair`), and whoever is past the check of
`send_dm` wrote to one who agreed. `Same` says that handlers and the row that share
an id are about the same two users; `OneRow` that, unless requests crossed, every
handler about to write for a pair writes the pair's one row.

*AccountsProofs.* `AccountTypes` (with the unique e-mails and names),
`RowsAreAsMeant`, `LinksWorkOnce`. `Fresh` says of every handler whose row nobody
wrote since that what its save will write differs from the row in the columns of its
purpose only (`Faithful`), wherever it is between its read and its write; `Clears`
that a reset takes the token with it unless it is gone already; `Drawn` that a token
belongs to one user, in the row or in a handler's hands.

*MailQueueProofs.* `MailTypes`, `CallsBounded`, `RepeatsDoubtful`, and the safety
half of the refinement, `KeepsMailSafely`. `Budget` adds to the calls made those
that workers will still make, also workers that lost the job, and the one a waiting
job will cause; each is paid by an attempt, a forgiven stall or a retry. `Paid`
does so for deliveries: whoever will send a mail that is no longer his was paid for
by the doubt of the stall. Every step of `MailQueue` is then one of `Mailbox` or
changes nothing of it (`MailStep`).

*GoalsProofs.* `GoalTypes`, `FlipsAreNamed`, `FeedsAgree`. That every parent is a
stored goal is the foreign key, and rests on `Cascade` being closed below. `Knows`
says what a handler knows of its row if nobody else wrote it, at each await, up to
the event it will send; `Told` that a goal whose owner's room has not heard what is
stored has a handler about to say so.

What the proofs changed. `LinkWorksOnce` used to bound the resets by one link by
the number of handlers that run at once. Its proof did not go through, and TLC
refuted the property with three handlers: a stale save can bring a spent token
back. The property now says what does hold, that a token is gone after the reset
unless such a save wrote it back. `Cascade` of `Goals` was written with the
transitive closure of a relation and is now the least set closed under children,
which can be reasoned about. The minutes of `UserStats` were added with a fold, of
which no prover here can say what becomes of it when one term changes: it would take
an induction over the set by a theorem with an operator as parameter. They are now
counted as the elements of a finite set, for which the library has the lemmas. `Max`
over the zones needed the assumption that one zone is the furthest ahead.

Model-checked only: liveness, and with it the fairness half of the two refinements
(`KeepsPromise`, `KeepsMail`), which is out of the prover's reach. Their safety
halves are proved.

## 5. Disagreements met that no run carries

The model shows each of these or follows the code in it:

* `rooms.service.ts:279` refuses a room that "is full", `:275` a user who is
  "already in another room". Both tests race, and both can be passed by two
  requests at once; the bounds above are what is left.
* A stale save undeletes a room: the entity holds `deletedAt` null from its read.
* `update` saves the phase and its start as they were before its upload
  (`rooms.service.ts:157` to `:175`): after a pause or the end of a phase it brings
  `FOCUS` and the old `phaseStartedAt` back, and the next pause credits the same
  minutes again, although `:543` and `room-timer.processor.ts:48` credit them as the
  stretch ends.
* Two saves whose statements interleave leave a mixture of their columns. A
  `restartTimer` and a `resumeTimer` of one pause can leave an idle room with an end,
  as the restart found the times null already and does not write them. An `update`
  that read the room idle before it waited for its upload then differs from the row in
  the times alone, and if a `startTimer` saves between its SELECT and its UPDATE the
  room is in `FOCUS` without an end: `timerEndAt!` (`rooms.service.ts:541`) meets null.
* A rejected `setOnline` or `setOffline` is logged and not tried again
  (`room.gateway.ts:133`, `:181`, `:237`, `rooms.controller.ts:151`, `:166`): who left
  is shown in the room until the key expires, who joined is not until the next
  heartbeat.
* `edit_dm` sends the edited text to `payload.receiverId`
  (`dm-chat.gateway.ts:125`), which is neither compared with the message's receiver
  nor asked for a friendship.
* With overlapping handlers `PhaseArmed` fails. A focus start saved while the
  worker still holds the job of the focus phase before has its `add` ignored, and
  the phase never ends; so does a crash between the worker's save and its add,
  and a timer job that failed blocks its id.
* `user-stats.processor.ts:136` rethrows so that BullMQ "can automatically retry
  later": the queue is given no attempts, so a job is tried once.
* In `room.gateway.ts`, a client whose join failed has `roomId` set; leaving
  releases a relay it never acquired, and the other clients in the room stop
  receiving events.
* `user-stats.processor.ts:87` checks "if it was EXACTLY yesterday" with the
  absolute difference of days: after a move west and a change of timezone the
  last study date can be tomorrow, and the streak grows.
* `friendships.service.ts:57` checks "if a friendship already exists in either
  direction": two requests that cross both find none, and the index lets both
  rows in. From then on two users can be friends and have a request pending, and
  `getFriendshipStatus`, and with it the right to write, answers with either row.
  It also reports a rejected request as pending.
* The live stream of `friendships.controller.ts:88` reads the friends once, when
  it is opened: a friend removed later is reported on, a new one is not.
* An answer to a request that was cancelled meanwhile inserts the friendship
  again.
* A user with two sockets is taken out of the room and offline when one of them
  disconnects.
* `rooms.controller.ts:163` listens for the close of the request after it awaited
  the room. A request closed before is never heard of: its interval sets the
  user online every 30 seconds until the server restarts.
* `room.gateway.ts:330` says the listener of a room is removed "to prevent leaks"
  when no clients remain: one acquired by a join whose client left meanwhile is
  not, as nothing will release it.
* `startTimer` accepts a room in a break and leaves the break's job in the queue
  (`rooms.service.ts:496`). When the next focus phase ends, the add of
  `room-timer.processor.ts:82` finds the id taken, and the old job ends the new
  break early.
* `user-stats.processor.ts:110`, "The Double-Counting Fix!", counts a session when
  it is left. The bulk save of pauseTimer or of the worker (`rooms.service.ts:567`)
  can reopen a session that was left while they ran, and it is counted again.
* A pauseTimer that fails after queueing some credits leaves the phase running,
  and the next stop credits those minutes again.
* `users.service.ts` stores a username as `PATCH /me` sends it, while
  `findOneByUsername` (line 92) looks for the lowered one: a user who renames
  himself with a capital letter cannot sign in by name any more, and the name
  counts as free until the unique index is asked for the same spelling.
* The second of two sign-ups with one e-mail or name fails on the unique index,
  after its avatar was uploaded.
* A save that read a user before the account was removed inserts the account
  again; `forgetPassword` posts a link even if its account is gone, and does not
  look at what the direct mode answers.
* `@Get('users')` in `users.controller.ts:211` comes after `@Get(':id')` (line 115),
  which matches first.
* A goal can be announced as completed by two handlers; an edit of the title that
  read the goal open writes a mark set meanwhile back; removing a goal is not
  announced. `create` does not look at whose goal the parent is: removing a goal
  removes other users' goals below it.
* Nothing in the repository calls `retryFailedJobs` or `clearFailedJobs`.
* `update-room.dto.ts` makes a schema with `.default(...)` partial: under zod 4
  the defaults still apply, so a partial update resets what it does not name.

## 6. Not modelled

Pages: a list read in several requests repeats or skips rows that are inserted or
removed meanwhile (`rooms.service.ts:139` and every other list); no property
speaks of what a reader sees over several requests. Reading the leaderboard.
Signing in, which changes nothing. The deprecated chat gateway repeats logic the
room gateway's model covers. Storage, LiveKit, health, configuration, guards,
DTOs, migrations and mail templates keep no state of their own; an upload appears
as an await that may reject.

## 7. Plan

Done, in this order: `RoomMembership`, `RoomHost`, `Pomodoro` / `PhaseTimer`,
`FocusCredit`, `UserStats`, `RoomGateway`, `Friendships`, `Accounts`, `Mailbox` /
`MailQueue`, `Goals`, each with its proofs.

Left:

1. The gateway composed with `RoomMembership` (disconnect against HTTP leave,
   several sockets of a user).
2. A property of streaks under a change of timezone, which the code breaks
   (section 5).
3. Operators for page arithmetic and the role hierarchy, checked against
   reference definitions.
