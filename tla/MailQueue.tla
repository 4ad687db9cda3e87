----------------------------- MODULE MailQueue ------------------------------
(***************************************************************************)
(* mail.service.ts and mail.processor.ts: a mail is sent directly or, if   *)
(* MAIL_QUEUE_ENABLED, by a worker of a BullMQ queue that tries it again   *)
(* with a growing delay.                                                   *)
(*                                                                         *)
(* The queue as the code uses it: a failed attempt is delayed until there  *)
(* have been Attempts of them; a worker that is slow or dead loses its     *)
(* job to the next one (a stall), the second time to the failed jobs; a    *)
(* worker that lost its job cannot settle it.  The worker is not fast or   *)
(* alive for ever, so a stall may come at any step.                        *)
(***************************************************************************)
EXTENDS Naturals

CONSTANTS
  Mails,
  Workers,
  Attempts,      \* attempts of defaultJobOptions
  MaxStalls,     \* maxStalledCount of the queue
  MaxRetries,    \* bounds how often failed jobs are retried by hand
  None

\* What process remembers while it runs a mail.
Runs == [mail : Mails, pc : {"send", "success", "error"}]

ASSUME NoneAssumption == None \notin Mails \cup Workers \cup Runs
ASSUME AttemptsAssumption == Attempts \in Nat \ {0} /\ MaxStalls \in Nat /\ MaxRetries \in Nat

VARIABLES
  queueEnabled,  \* chosen when the module is set up
  direct,        \* mails a caller is sending himself, and what came of them
  job,           \* the queue: state, worker that holds the job, failed attempts, stalls
  run,           \* each worker's locals
  sent,          \* history: how often the provider took each mail
  calls,         \* history: how often it was asked to
  doubts,        \* history: how often it was not known that the provider took it
  retries        \* history: retries by hand

history == <<sent, calls, doubts, retries>>
vars == <<queueEnabled, direct, job, run, history>>

States == {"none", "waiting", "active", "delayed", "completed", "failed", "cleared"}

MaxCalls == Attempts + MaxStalls + MaxRetries
StallsBound == MaxStalls + MaxRetries + 1

TypeOK ==
  /\ queueEnabled \in BOOLEAN
  /\ direct \in [Mails -> {"none", "sending", "success", "error", "sent", "failed"}]
  /\ job \in [Mails -> [state : States, by : Workers \cup {None},
                        made : 0..MaxCalls, stalls : 0..StallsBound]]
  /\ run \in [Workers -> Runs \cup {None}]
  /\ sent \in [Mails -> 0..MaxCalls]
  /\ calls \in [Mails -> 0..MaxCalls]
  /\ doubts \in [Mails -> 0..MaxCalls + StallsBound]
  /\ retries \in [Mails -> 0..MaxRetries]
  /\ \A m \in Mails : (job[m].state = "active") <=> (job[m].by # None)

Init ==
  /\ queueEnabled \in BOOLEAN
  /\ direct = [m \in Mails |-> "none"]
  /\ job = [m \in Mails |-> [state |-> "none", by |-> None, made |-> 0, stalls |-> 0]]
  /\ run = [w \in Workers |-> None]
  /\ sent = [m \in Mails |-> 0]
  /\ calls = [m \in Mails |-> 0]
  /\ doubts = [m \in Mails |-> 0]
  /\ retries = [m \in Mails |-> 0]

Put(m, s, w) == job' = [job EXCEPT ![m].state = s, ![m].by = w]

-----------------------------------------------------------------------------
(* send.                                                                   *)

SendQueued(m) ==
  /\ queueEnabled
  /\ job[m].state = "none"
  /\ Put(m, "waiting", None)
  /\ UNCHANGED <<queueEnabled, direct, run, history>>

\* What the provider makes of a mail, and the answer: the SMTP provider turns every
\* error into an answer, also one that comes after the mail was taken.
Provide(m, success) ==
  /\ calls' = [calls EXCEPT ![m] = @ + 1]
  /\ \E took \in {success, TRUE} :
       /\ sent' = [sent EXCEPT ![m] = IF took THEN @ + 1 ELSE @]
       /\ doubts' = [doubts EXCEPT ![m] = IF took /\ ~ success THEN @ + 1 ELSE @]
  /\ UNCHANGED retries

SendDirect(m) ==
  /\ ~ queueEnabled
  /\ direct[m] = "none"
  /\ direct' = [direct EXCEPT ![m] = "sending"]
  /\ UNCHANGED <<queueEnabled, job, run, history>>

DirectAnswer(m) ==
  /\ direct[m] = "sending"
  /\ \E success \in BOOLEAN :
       /\ Provide(m, success)
       /\ direct' = [direct EXCEPT ![m] = IF success THEN "success" ELSE "error"]
  /\ UNCHANGED <<queueEnabled, job, run>>

\* sendDirect hands the outcome to its caller and never throws.
DirectReturn(m) ==
  /\ \/ direct[m] = "success" /\ direct' = [direct EXCEPT ![m] = "sent"]
     \/ direct[m] = "error" /\ direct' = [direct EXCEPT ![m] = "failed"]
  /\ UNCHANGED <<queueEnabled, job, run, history>>

-----------------------------------------------------------------------------
(* The worker.                                                             *)

Take(w, m) ==
  /\ run[w] = None
  /\ job[m].state = "waiting"
  /\ Put(m, "active", w)
  /\ run' = [run EXCEPT ![w] = [mail |-> m, pc |-> "send"]]
  /\ UNCHANGED <<queueEnabled, direct, history>>

HandleSendEmail(w) ==
  /\ run[w] # None /\ run[w].pc = "send"
  /\ \E success \in BOOLEAN :
       /\ Provide(run[w].mail, success)
       /\ run' = [run EXCEPT ![w].pc = IF success THEN "success" ELSE "error"]
  /\ UNCHANGED <<queueEnabled, direct, job>>

Holds(w, m) == job[m].state = "active" /\ job[m].by = w

Done(w) == run' = [run EXCEPT ![w] = None]

\* Mutant: the handler throws after a success, too.
CompleteThrows(w) ==
  /\ run[w] # None /\ run[w].pc = "success"
  /\ Holds(w, run[w].mail)
  /\ job' = [job EXCEPT ![run[w].mail] = [@ EXCEPT !.by = None, !.made = @ + 1,
              !.state = IF job[run[w].mail].made + 1 < Attempts THEN "delayed" ELSE "failed"]]
  /\ Done(w)
  /\ UNCHANGED <<queueEnabled, direct, history>>

Complete(w) ==
  /\ run[w] # None /\ run[w].pc = "success"
  /\ Holds(w, run[w].mail)
  /\ Put(run[w].mail, "completed", None)
  /\ Done(w)
  /\ UNCHANGED <<queueEnabled, direct, history>>

\* Mutant: process logs the provider's error instead of throwing it.
ErrorSwallowed(w) ==
  /\ run[w] # None /\ run[w].pc = "error"
  /\ Holds(w, run[w].mail)
  /\ Put(run[w].mail, "completed", None)
  /\ Done(w)
  /\ UNCHANGED <<queueEnabled, direct, history>>

\* Mutant: the attempts are not counted.
ThrowUncounted(w) ==
  /\ run[w] # None /\ run[w].pc = "error"
  /\ Holds(w, run[w].mail)
  /\ Put(run[w].mail, "delayed", None)
  /\ Done(w)
  /\ UNCHANGED <<queueEnabled, direct, history>>

\* The handler throws: the attempt counts, and the job is delayed or has failed.
Throw(w) ==
  /\ run[w] # None /\ run[w].pc = "error"
  /\ LET m == run[w].mail IN
     /\ Holds(w, m)
     /\ job' = [job EXCEPT ![m].by = None, ![m].made = @ + 1,
                 ![m].state = IF job[m].made + 1 < Attempts THEN "delayed" ELSE "failed"]
  /\ Done(w)
  /\ UNCHANGED <<queueEnabled, direct, history>>

\* The job was handed out again, or settled, meanwhile.
Disowned(w) ==
  /\ run[w] # None /\ run[w].pc # "send"
  /\ ~ Holds(w, run[w].mail)
  /\ Done(w)
  /\ UNCHANGED <<queueEnabled, direct, job, history>>

Promote(m) ==
  /\ job[m].state = "delayed"
  /\ Put(m, "waiting", None)
  /\ UNCHANGED <<queueEnabled, direct, run, history>>

Crash(w) ==
  /\ run[w] # None
  /\ Done(w)
  /\ UNCHANGED <<queueEnabled, direct, job, history>>

\* The worker that holds the job has not renewed its lock.
Stall(m) ==
  /\ job[m].state = "active"
  /\ job' = [job EXCEPT ![m].by = None, ![m].stalls = @ + 1,
              ![m].state = IF job[m].stalls < MaxStalls THEN "waiting" ELSE "failed"]
  /\ doubts' = [doubts EXCEPT ![m] = @ + 1]
  /\ UNCHANGED <<queueEnabled, direct, run, sent, calls, retries>>

-----------------------------------------------------------------------------
(* The service's operations on failed jobs; nothing under src/ calls them. *)

RetryFailedJob(m) ==
  /\ job[m].state = "failed"
  /\ retries[m] < MaxRetries
  /\ Put(m, "waiting", None)
  /\ retries' = [retries EXCEPT ![m] = @ + 1]
  /\ UNCHANGED <<queueEnabled, direct, run, sent, calls, doubts>>

ClearFailedJobs ==
  /\ \E m \in Mails : job[m].state = "failed"
  /\ job' = [m \in Mails |->
               IF job[m].state = "failed" THEN [job[m] EXCEPT !.state = "cleared"] ELSE job[m]]
  /\ UNCHANGED <<queueEnabled, direct, run, history>>

WorkerStep(w) == HandleSendEmail(w) \/ Complete(w) \/ Throw(w) \/ Disowned(w)

Next ==
  \/ \E m \in Mails : \/ SendQueued(m) \/ SendDirect(m) \/ DirectAnswer(m) \/ DirectReturn(m)
                      \/ Promote(m) \/ Stall(m) \/ RetryFailedJob(m)
  \/ \E w \in Workers : \/ WorkerStep(w) \/ Crash(w)
                        \/ \E m \in Mails : Take(w, m)
  \/ ClearFailedJobs

Spec == Init /\ [][Next]_vars

\* No worker alive runs it.
Orphaned(m) == m \notin {run[w].mail : w \in {x \in Workers : run[x] # None}}

\* Awaits resolve, delays elapse, the queue is polled in order, and stalled jobs
\* are looked for.  Nobody has to crash, send, retry or clear.
FairSpec ==
  /\ Spec
  /\ \A w \in Workers : WF_vars(WorkerStep(w))
  /\ \A m \in Mails :
       /\ WF_vars(DirectAnswer(m) \/ DirectReturn(m))
       /\ WF_vars(Promote(m))
       /\ SF_vars(\E w \in Workers : Take(w, m))
       /\ WF_vars(Orphaned(m) /\ Stall(m))

-----------------------------------------------------------------------------
(* Properties.                                                             *)

\* A mail is taken again by the provider only after an attempt of which nobody
\* could know that it was: the answer was an error or the job stalled.
RepeatsAreDoubtful == \A m \in Mails : sent[m] <= 1 + doubts[m]

\* However workers stall, crash and are told errors, the provider is asked at most
\* once per attempt, per stall that is forgiven, and per retry by hand.
CallsAreBounded == \A m \in Mails : calls[m] <= Attempts + MaxStalls + retries[m]

Status(m) ==
  CASE job[m].state \in {"waiting", "active", "delayed"} \/ direct[m] \in {"sending", "success", "error"} -> "pending"
    [] job[m].state = "completed" \/ direct[m] = "sent" -> "sent"
    [] job[m].state = "failed" \/ direct[m] = "failed" -> "failed"
    [] job[m].state = "cleared" -> "cleared"
    [] OTHER -> "new"

Box == INSTANCE Mailbox WITH
         status <- [m \in Mails |-> Status(m)], taken <- {m \in Mails : sent[m] > 0}

\* The queue, with its retries, stalls and crashes, and the direct mode keep the
\* promise of the mail service.
KeepsMail == Box!Spec
=============================================================================
