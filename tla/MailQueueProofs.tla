--------------------------- MODULE MailQueueProofs ---------------------------
(* Proofs about MailQueue, for any number of mails and workers and any     *)
(* numbers of attempts, forgiven stalls and retries.                       *)
EXTENDS MailQueue, FiniteSets, FiniteSetTheorems, TLAPS

(***************************************************************************)
(* The inductive invariant.                                                *)
(***************************************************************************)

\* The workers at pc with mail m.
AtMail(m, pcs) == {w \in Workers : run[w] # None /\ run[w].mail = m /\ run[w].pc \in pcs}

Senders(m) == AtMail(m, {"send"})    \* those who will still ask the provider
Askers(m) == AtMail(m, {"success", "error"})    \* those who have its answer

\* Those who will ask although the job is no longer theirs.
Intruders(m) == {w \in Senders(m) : ~ Holds(w, m)}

JobRow == [state : States, by : Workers \cup {None}, made : Nat, stalls : Nat]

Shape ==
  /\ queueEnabled \in BOOLEAN
  /\ direct \in [Mails -> {"none", "sending", "success", "error", "sent", "failed"}]
  /\ job \in [Mails -> JobRow]
  /\ run \in [Workers -> Runs \cup {None}]
  /\ sent \in [Mails -> Nat]
  /\ calls \in [Mails -> Nat]
  /\ doubts \in [Mails -> Nat]
  /\ retries \in [Mails -> Nat]
  /\ \A m \in Mails : (job[m].state = "active") <=> (job[m].by # None)

\* A mail goes one of the two ways, and what it goes through is consistent.
OneWay ==
  /\ queueEnabled => \A m \in Mails : direct[m] = "none"
  /\ ~ queueEnabled => /\ \A m \in Mails : job[m].state = "none"
                       /\ \A w \in Workers : run[w] = None
                       /\ \A m \in Mails : direct[m] \in {"none", "sending"} => calls[m] = 0
  /\ \A m \in Mails : direct[m] = "success" => sent[m] > 0
  /\ \A w \in Workers : run[w] # None =>
       /\ job[run[w].mail].state # "none"
       /\ run[w].pc = "success" => sent[run[w].mail] > 0

Least(a, b) == IF a <= b THEN a ELSE b

\* The calls that can still be made without another failure, stall or retry.
Promised(m) == IF job[m].state \in {"none", "waiting", "delayed"} THEN 1 ELSE 0

\* Every call was allowed by the first attempt, a failed one, a forgiven stall
\* or a retry.
Budget(m) ==
  /\ IsFiniteSet(Senders(m))
  /\ calls[m] + Cardinality(Senders(m)) + (IF queueEnabled THEN Promised(m) ELSE 0)
       <= 1 + Least(job[m].made, Attempts - 1) + Least(job[m].stalls, MaxStalls) + retries[m]

\* What the histories and the counters of the job owe to each other.
Tally(m) ==
  /\ IsFiniteSet(Askers(m))
  /\ job[m].made + Cardinality(Askers(m)) <= calls[m]
  /\ sent[m] <= calls[m]
  /\ doubts[m] <= calls[m] + job[m].stalls
  /\ retries[m] <= MaxRetries
  /\ job[m].stalls <= MaxStalls + retries[m]
                        + (IF job[m].state \in {"failed", "cleared"} THEN 1 ELSE 0)

\* Nobody was told that the provider took m, or the one who was is not the holder.
Unsettled(m) ==
  \/ job[m].state \in {"none", "waiting", "delayed", "failed"}
  \/ /\ job[m].state = "active"
     /\ run[job[m].by] # None /\ run[job[m].by].mail = m /\ run[job[m].by].pc # "success"

\* One delivery nobody doubts, and one for each doubt; an intruder's was paid by
\* the stall that took the job from him.
Paid(m) ==
  /\ IsFiniteSet(Intruders(m))
  /\ sent[m] + Cardinality(Intruders(m)) + (IF queueEnabled /\ Unsettled(m) THEN 1 ELSE 0)
       <= doubts[m] + 1

Ledger(m) == Budget(m) /\ Tally(m) /\ Paid(m)

Good == Shape /\ OneWay /\ \A m \in Mails : Ledger(m)

(***************************************************************************)
(* Lemmas about the sets of workers and the bounds.                        *)
(***************************************************************************)

LEMMA NoneIsNobody == None \notin Mails /\ None \notin Workers /\ None \notin Runs
  BY NoneAssumption

LEMMA Holder ==
  ASSUME NEW m, NEW v, NEW w, Holds(v, m), Holds(w, m)
  PROVE v = w
  BY DEF Holds

LEMMA LeastBounds ==
  ASSUME NEW a \in Nat, NEW b \in Nat
  PROVE /\ Least(a, b) \in Nat
        /\ Least(a, b) <= a /\ Least(a, b) <= b
        /\ Least(a, b) <= Least(a + 1, b)
        /\ a < b => Least(a + 1, b) = Least(a, b) + 1
  BY DEF Least

LEMMA Numbers ==
  ASSUME Shape, NEW m \in Mails
  PROVE /\ calls[m] \in Nat /\ sent[m] \in Nat /\ doubts[m] \in Nat /\ retries[m] \in Nat
        /\ job[m].made \in Nat /\ job[m].stalls \in Nat
        /\ Attempts - 1 \in Nat /\ MaxStalls \in Nat /\ MaxRetries \in Nat
  BY AttemptsAssumption DEF Shape, Runs, JobRow

(***************************************************************************)
(* The parts of the invariant that say what values go together.            *)
(***************************************************************************)

LEMMA ProvideShape ==
  ASSUME Shape, NEW m \in Mails, NEW success \in BOOLEAN, Provide(m, success)
  PROVE /\ sent' \in [Mails -> Nat] /\ calls' \in [Mails -> Nat] /\ doubts' \in [Mails -> Nat]
        /\ retries' = retries
        /\ calls' = [calls EXCEPT ![m] = @ + 1]
        /\ \/ success /\ sent' = [sent EXCEPT ![m] = @ + 1] /\ doubts' = doubts
           \/ ~ success /\ sent' = sent /\ doubts' = doubts
           \/ /\ ~ success /\ sent' = [sent EXCEPT ![m] = @ + 1]
              /\ doubts' = [doubts EXCEPT ![m] = @ + 1]
  <1>1. calls' = [calls EXCEPT ![m] = @ + 1] /\ retries' = retries
    BY DEF Provide
  <1>2. PICK took \in {success, TRUE} :
          /\ sent' = [sent EXCEPT ![m] = IF took THEN @ + 1 ELSE @]
          /\ doubts' = [doubts EXCEPT ![m] = IF took /\ ~ success THEN @ + 1 ELSE @]
    BY DEF Provide
  <1>3. sent \in [Mails -> Nat] /\ doubts \in [Mails -> Nat] /\ calls \in [Mails -> Nat]
    BY DEF Shape, Runs
  <1>4. CASE took = TRUE
    <2>1. sent' = [sent EXCEPT ![m] = @ + 1]
      BY <1>2, <1>3, <1>4
    <2>2. CASE success = TRUE
      <3>1. doubts' = doubts
        BY <1>2, <1>3, <1>4, <2>2
      <3> QED BY <1>1, <1>3, <2>1, <2>2, <3>1
    <2>3. CASE success = FALSE
      <3>1. doubts' = [doubts EXCEPT ![m] = @ + 1]
        BY <1>2, <1>3, <1>4, <2>3
      <3> QED BY <1>1, <1>3, <2>1, <2>3, <3>1
    <2> QED BY <2>2, <2>3
  <1>5. CASE took = FALSE
    <2>1. success = FALSE
      BY <1>2, <1>5
    <2>2. sent' = sent /\ doubts' = doubts
      BY <1>2, <1>3, <1>5
    <2> QED BY <1>1, <1>3, <2>1, <2>2
  <1> QED BY <1>2, <1>4, <1>5

\* What a step writes to the job of one mail.
Becomes(m, state, by, made, stalls) ==
  /\ job' \in [Mails -> JobRow]
  /\ \A n \in Mails \ {m} : job'[n] = job[n]
  /\ job'[m].state = state /\ job'[m].by = by
  /\ job'[m].made = made /\ job'[m].stalls = stalls

LEMMA PutStep ==
  ASSUME Shape, NEW m \in Mails, NEW s \in States, NEW w \in Workers \cup {None}, Put(m, s, w)
  PROVE Becomes(m, s, w, job[m].made, job[m].stalls)
  BY ZenonT(30) DEF Shape, Runs, JobRow, Put, Becomes

LEMMA ThrowStep ==
  ASSUME Shape, NEW w \in Workers, Throw(w)
  PROVE /\ run[w].mail \in Mails /\ run[w] # None /\ run[w].pc = "error"
        /\ Holds(w, run[w].mail)
        /\ run' = [run EXCEPT ![w] = None]
        /\ Becomes(run[w].mail,
                   IF job[run[w].mail].made + 1 < Attempts THEN "delayed" ELSE "failed",
                   None, job[run[w].mail].made + 1, job[run[w].mail].stalls)
        /\ UNCHANGED <<queueEnabled, direct, history>>
  <1> DEFINE m == run[w].mail
             s == IF job[m].made + 1 < Attempts THEN "delayed" ELSE "failed"
  <1>1. m \in Mails /\ run[w] # None /\ run[w].pc = "error" /\ Holds(w, m)
    BY DEF Throw, Shape, Runs
  <1>2. job' = [job EXCEPT ![m].by = None, ![m].made = @ + 1, ![m].state = s]
    BY DEF Throw
  <1>3. job[m] \in JobRow /\ s \in States
    BY <1>1 DEF Shape, Runs, States
  <1>4. Becomes(m, s, None, job[m].made + 1, job[m].stalls)
    <2> HIDE DEF m, s
    <2>1. /\ job'[m].state = s /\ job'[m].by = None
          /\ job'[m].made = job[m].made + 1
          /\ job'[m].stalls = job[m].stalls
      BY <1>1, <1>2, <1>3 DEF Shape, Runs, JobRow
    <2>2. job'[m] \in JobRow
      BY <1>1, <1>2, <1>3 DEF Shape, Runs, JobRow
    <2>3. \A n \in Mails \ {m} : job'[n] = job[n]
      BY <1>2 DEF Shape, Runs
    <2>4. job' \in [Mails -> JobRow]
      BY <1>2, <2>2, <2>3 DEF Shape, Runs
    <2> QED BY <1>3, <2>1, <2>3, <2>4 DEF Becomes, JobRow
  <1> QED BY <1>1, <1>4 DEF Throw, Done

LEMMA StallStep ==
  ASSUME Shape, NEW m \in Mails, Stall(m)
  PROVE /\ job[m].state = "active"
        /\ Becomes(m, IF job[m].stalls < MaxStalls THEN "waiting" ELSE "failed",
                   None, job[m].made, job[m].stalls + 1)
        /\ doubts' = [doubts EXCEPT ![m] = @ + 1]
        /\ UNCHANGED <<queueEnabled, direct, run, sent, calls, retries>>
  <1> DEFINE s == IF job[m].stalls < MaxStalls THEN "waiting" ELSE "failed"
  <1>1. job' = [job EXCEPT ![m].by = None, ![m].stalls = @ + 1, ![m].state = s]
    BY DEF Stall
  <1>2. job[m] \in JobRow /\ s \in States
    BY DEF Shape, Runs, States
  <1>3. Becomes(m, s, None, job[m].made, job[m].stalls + 1)
    <2> HIDE DEF s
    <2>1. /\ job'[m].state = s /\ job'[m].by = None
          /\ job'[m].made = job[m].made
          /\ job'[m].stalls = job[m].stalls + 1
      BY <1>1, <1>2 DEF Shape, Runs, JobRow
    <2>2. job'[m] \in JobRow
      BY <1>1, <1>2 DEF Shape, Runs, JobRow
    <2>3. \A n \in Mails \ {m} : job'[n] = job[n]
      BY <1>1 DEF Shape, Runs
    <2>4. job' \in [Mails -> JobRow]
      BY <1>1, <2>2, <2>3 DEF Shape, Runs
    <2> QED BY <1>2, <2>1, <2>3, <2>4 DEF Becomes, JobRow
  <1> QED BY <1>3 DEF Stall

LEMMA ClearStep ==
  ASSUME Shape, ClearFailedJobs
  PROVE /\ job' \in [Mails -> JobRow]
        /\ \A n \in Mails : /\ job'[n].state = IF job[n].state = "failed" THEN "cleared"
                                                                         ELSE job[n].state
                            /\ job'[n].by = job[n].by /\ job'[n].made = job[n].made
                            /\ job'[n].stalls = job[n].stalls
        /\ UNCHANGED <<queueEnabled, direct, run, history>>
  <1>1. job' = [n \in Mails |->
                 IF job[n].state = "failed" THEN [job[n] EXCEPT !.state = "cleared"] ELSE job[n]]
    BY DEF ClearFailedJobs
  <1>2. ASSUME NEW n \in Mails
        PROVE /\ job'[n] \in JobRow
              /\ job'[n].state = IF job[n].state = "failed" THEN "cleared" ELSE job[n].state
              /\ job'[n].by = job[n].by /\ job'[n].made = job[n].made
              /\ job'[n].stalls = job[n].stalls
    BY <1>1 DEF Shape, Runs, JobRow, States
  <1>3. job' \in [Mails -> JobRow]
    BY <1>1, <1>2
  <1> QED BY <1>2, <1>3 DEF ClearFailedJobs

LEMMA ShapeInit == Init => Shape
  BY NoneIsNobody DEF Init, Shape, Runs, JobRow, States, Runs

LEMMA ShapeNext == Shape /\ [Next]_vars => Shape'
  <1> SUFFICES ASSUME Shape, [Next]_vars PROVE Shape'
    OBVIOUS
  <1> USE NoneIsNobody DEF Shape, Runs, JobRow, States, Runs, history
  <1>1. ASSUME NEW m \in Mails, SendQueued(m) PROVE Shape'
    BY ZenonT(30), <1>1 DEF SendQueued, Put
  <1>2. ASSUME NEW m \in Mails, SendDirect(m) PROVE Shape'
    BY <1>2 DEF SendDirect
  <1>3. ASSUME NEW m \in Mails, DirectAnswer(m) PROVE Shape'
    <2>1. PICK success \in BOOLEAN :
            /\ Provide(m, success)
            /\ direct' = [direct EXCEPT ![m] = IF success THEN "success" ELSE "error"]
      BY <1>3 DEF DirectAnswer
    <2>2. UNCHANGED <<queueEnabled, job, run>>
      BY <1>3 DEF DirectAnswer
    <2>3. sent' \in [Mails -> Nat] /\ calls' \in [Mails -> Nat] /\ doubts' \in [Mails -> Nat]
            /\ retries' = retries
      BY <2>1, ProvideShape
    <2> QED BY <2>1, <2>2, <2>3
  <1>4. ASSUME NEW m \in Mails, DirectReturn(m) PROVE Shape'
    BY <1>4 DEF DirectReturn
  <1>5. ASSUME NEW w \in Workers, NEW m \in Mails, Take(w, m) PROVE Shape'
    BY <1>5 DEF Take, Put
  <1>6. ASSUME NEW w \in Workers, HandleSendEmail(w) PROVE Shape'
    <2>1. PICK success \in BOOLEAN :
            /\ Provide(run[w].mail, success)
            /\ run' = [run EXCEPT ![w].pc = IF success THEN "success" ELSE "error"]
      BY <1>6 DEF HandleSendEmail
    <2>2. run[w].mail \in Mails /\ run[w] # None /\ UNCHANGED <<queueEnabled, direct, job>>
      BY <1>6 DEF HandleSendEmail
    <2>3. sent' \in [Mails -> Nat] /\ calls' \in [Mails -> Nat] /\ doubts' \in [Mails -> Nat]
            /\ retries' = retries
      BY <2>1, <2>2, ProvideShape
    <2>4. run' \in [Workers -> Runs \cup {None}]
      BY <2>1, <2>2
    <2> QED BY <2>2, <2>3, <2>4
  <1>7. ASSUME NEW w \in Workers, Complete(w) PROVE Shape'
    <2>1. run[w].mail \in Mails
      BY <1>7 DEF Complete
    <2> QED BY <1>7, <2>1 DEF Complete, Put, Done
  <1>8. ASSUME NEW w \in Workers, Throw(w) PROVE Shape'
    <2>1. /\ job' \in [Mails -> JobRow]
          /\ job'[run[w].mail].state # "active" /\ job'[run[w].mail].by = None
          /\ \A m \in Mails \ {run[w].mail} : job'[m] = job[m]
      BY <1>8, ThrowStep DEF Becomes
    <2>2. run' = [run EXCEPT ![w] = None] /\ UNCHANGED <<queueEnabled, direct, history>>
      BY <1>8, ThrowStep
    <2> QED BY <2>1, <2>2
  <1>9. ASSUME NEW w \in Workers, Disowned(w) \/ Crash(w) PROVE Shape'
    BY <1>9 DEF Disowned, Crash, Done
  <1>10. ASSUME NEW m \in Mails, Promote(m) PROVE Shape'
    BY ZenonT(30), <1>10 DEF Promote, Put
  <1>11. ASSUME NEW m \in Mails, Stall(m) PROVE Shape'
    <2>1. /\ job' \in [Mails -> JobRow]
          /\ job'[m].state # "active" /\ job'[m].by = None
          /\ \A n \in Mails \ {m} : job'[n] = job[n]
      BY <1>11, StallStep DEF Becomes
    <2>2. /\ doubts' = [doubts EXCEPT ![m] = @ + 1]
          /\ UNCHANGED <<queueEnabled, direct, run, sent, calls, retries>>
      BY <1>11, StallStep
    <2>3. \A n \in Mails : (job'[n].state = "active") <=> (job'[n].by # None)
      BY <2>1
    <2>4. doubts' \in [Mails -> Nat]
      BY <2>2
    <2> QED BY <2>1, <2>2, <2>3, <2>4
  <1>12. ASSUME NEW m \in Mails, RetryFailedJob(m) PROVE Shape'
    <2>1. Becomes(m, "waiting", None, job[m].made, job[m].stalls)
      BY <1>12, PutStep DEF RetryFailedJob
    <2>2. retries' \in [Mails -> Nat]
      BY <1>12 DEF RetryFailedJob
    <2> QED BY <1>12, <2>1, <2>2 DEF RetryFailedJob, Becomes
  <1>13. ASSUME ClearFailedJobs PROVE Shape'
    BY <1>13, ClearStep
  <1>14. CASE UNCHANGED vars
    BY <1>14 DEF vars
  <1> QED BY <1>1, <1>2, <1>3, <1>4, <1>5, <1>6, <1>7, <1>8, <1>9, <1>10, <1>11, <1>12, <1>13,
             <1>14 DEF Next, WorkerStep

LEMMA OneWayNext == Good /\ [Next]_vars => OneWay'
  <1> SUFFICES ASSUME Good, [Next]_vars PROVE OneWay'
    OBVIOUS
  <1> USE DEF OneWay, history
  <1>0. Shape /\ OneWay
    BY DEF Good
  <1>1. ASSUME NEW m \in Mails, SendQueued(m) PROVE OneWay'
    BY <1>0, <1>1 DEF SendQueued, Put, Shape, Runs, JobRow
  <1>2. ASSUME NEW m \in Mails, SendDirect(m) PROVE OneWay'
    BY <1>0, <1>2 DEF SendDirect, Shape, Runs
  <1>3. ASSUME NEW m \in Mails, DirectAnswer(m) PROVE OneWay'
    <2>1. PICK success \in BOOLEAN :
            /\ Provide(m, success)
            /\ direct' = [direct EXCEPT ![m] = IF success THEN "success" ELSE "error"]
      BY <1>3 DEF DirectAnswer
    <2>2. UNCHANGED <<queueEnabled, job, run>> /\ ~ queueEnabled
      BY <1>0, <1>3 DEF DirectAnswer
    <2>3. /\ calls' = [calls EXCEPT ![m] = @ + 1]
          /\ \A n \in Mails : sent'[n] >= sent[n]
          /\ success => sent'[m] > 0
      BY <1>0, <2>1, ProvideShape DEF Shape, Runs
    <2>4. ASSUME NEW n \in Mails, direct'[n] = "success" PROVE sent'[n] > 0
      <3>1. CASE n = m
        BY <1>0, <2>1, <2>3, <2>4, <3>1 DEF Shape, Runs
      <3>2. CASE n # m
        <4>1. sent[n] \in Nat /\ sent'[n] \in Nat /\ direct'[n] = direct[n]
          BY <1>0, <2>1, <3>2, ProvideShape DEF Shape, Runs
        <4> QED BY <1>0, <2>3, <2>4, <4>1
      <3> QED BY <3>1, <3>2
    <2>5. \A n \in Mails : direct'[n] \in {"none", "sending"} => calls'[n] = 0
      BY <1>0, <2>1, <2>2, <2>3 DEF Shape, Runs
    <2> QED BY <1>0, <2>2, <2>4, <2>5
  <1>4. ASSUME NEW m \in Mails, DirectReturn(m) PROVE OneWay'
    BY <1>0, <1>4 DEF DirectReturn, Shape, Runs
  <1>5. ASSUME NEW w \in Workers, NEW m \in Mails, Take(w, m) PROVE OneWay'
    BY <1>0, <1>5 DEF Take, Put, Shape, Runs, JobRow
  <1>6. ASSUME NEW w \in Workers, HandleSendEmail(w) PROVE OneWay'
    <2>1. PICK success \in BOOLEAN :
            /\ Provide(run[w].mail, success)
            /\ run' = [run EXCEPT ![w].pc = IF success THEN "success" ELSE "error"]
      BY <1>6 DEF HandleSendEmail
    <2>2. run[w].mail \in Mails /\ run[w] # None /\ UNCHANGED <<queueEnabled, direct, job>>
      BY <1>0, <1>6 DEF HandleSendEmail, Shape, Runs
    <2>3. /\ \A n \in Mails : sent'[n] >= sent[n]
          /\ success => sent'[run[w].mail] > 0
      BY <1>0, <2>1, <2>2, ProvideShape DEF Shape, Runs
    <2>4. queueEnabled
      BY <1>0, <2>2 DEF Shape, Runs
    <2>5. \A n \in Mails : sent[n] > 0 => sent'[n] > 0
      BY <1>0, <2>1, <2>2, <2>3, ProvideShape DEF Shape, Runs
    <2>6. ASSUME NEW v \in Workers, run'[v] # None
          PROVE /\ job'[run'[v].mail].state # "none"
                /\ run'[v].pc = "success" => sent'[run'[v].mail] > 0
      <3>1. CASE v = w
        <4>1. run'[v].mail = run[w].mail /\ (run'[v].pc = "success" => success)
          BY <1>0, <2>1, <2>2, <3>1 DEF Shape, Runs
        <4> QED BY <1>0, <2>2, <2>3, <4>1
      <3>2. CASE v # w
        <4>1. run'[v] = run[v] /\ run[v].mail \in Mails
          BY <1>0, <2>1, <2>6, <3>2 DEF Shape, Runs
        <4> QED BY <1>0, <2>2, <2>5, <2>6, <4>1
      <3> QED BY <3>1, <3>2
    <2> QED BY <1>0, <2>2, <2>4, <2>5, <2>6
  <1>7. ASSUME NEW w \in Workers, Complete(w) \/ Throw(w) PROVE OneWay'
    <2>1. run[w].mail \in Mails /\ run[w] # None
      BY <1>0, <1>7 DEF Complete, Throw, Shape, Runs
    <2>2. /\ UNCHANGED <<queueEnabled, direct, sent, calls>>
          /\ run' = [run EXCEPT ![w] = None]
          /\ \A n \in Mails : job'[n].state = "none" => job[n].state = "none"
          /\ \A n \in Mails : job[n].state = "none" => job'[n].state = "none"
      <3>1. CASE Complete(w)
        BY <1>0, <2>1, <3>1 DEF Complete, Put, Done, Holds, Shape, Runs, JobRow
      <3>2. CASE Throw(w)
        BY <1>0, <2>1, <3>2, ThrowStep DEF Becomes, Holds
      <3> QED BY <1>7, <3>1, <3>2
    <2> QED BY <1>0, <2>2 DEF Shape, Runs
  <1>8. ASSUME NEW w \in Workers, Disowned(w) \/ Crash(w) PROVE OneWay'
    BY <1>0, <1>8 DEF Disowned, Crash, Done, Shape, Runs
  <1>9. ASSUME NEW m \in Mails, Promote(m) \/ Stall(m) \/ RetryFailedJob(m) PROVE OneWay'
    <2>1. /\ UNCHANGED <<queueEnabled, direct, run, sent, calls>>
          /\ \A n \in Mails : job'[n].state = "none" <=> job[n].state = "none"
      <3>1. CASE Stall(m)
        BY <1>0, <3>1, StallStep DEF Becomes
      <3>2. CASE Promote(m)
        BY <1>0, <3>2, PutStep DEF Promote, Becomes, States
      <3>3. CASE RetryFailedJob(m)
        BY <1>0, <3>3, PutStep DEF RetryFailedJob, Becomes, States
      <3> QED BY <1>9, <3>1, <3>2, <3>3
    <2> QED BY <1>0, <2>1 DEF Shape, Runs
  <1>10. ASSUME ClearFailedJobs PROVE OneWay'
    <2>1. /\ UNCHANGED <<queueEnabled, direct, run, sent, calls>>
          /\ \A n \in Mails : job'[n].state = "none" <=> job[n].state = "none"
      BY <1>0, <1>10 DEF ClearFailedJobs, Shape, Runs, JobRow
    <2> QED BY <1>0, <2>1 DEF Shape, Runs
  <1>11. CASE UNCHANGED vars
    BY <1>0, <1>11 DEF vars
  <1> QED BY <1>1, <1>2, <1>3, <1>4, <1>5, <1>6, <1>7, <1>8, <1>9, <1>10, <1>11
          DEF Next, WorkerStep

(***************************************************************************)
(* The ledger, action by action.                                           *)
(***************************************************************************)

LEMMA AddOne ==
  ASSUME NEW S, NEW w, IsFiniteSet(S), w \notin S
  PROVE /\ IsFiniteSet(S \cup {w}) /\ Cardinality(S) \in Nat
        /\ Cardinality(S \cup {w}) = Cardinality(S) + 1
  BY FS_AddElement, FS_CardinalityType

LEMMA TakeOne ==
  ASSUME NEW S, NEW w, IsFiniteSet(S)
  PROVE /\ IsFiniteSet(S \ {w}) /\ Cardinality(S) \in Nat /\ Cardinality(S \ {w}) \in Nat
        /\ Cardinality(S \ {w}) <= Cardinality(S)
        /\ w \in S => Cardinality(S \ {w}) = Cardinality(S) - 1
        /\ w \notin S => S \ {w} = S
  <1>1. IsFiniteSet(S \ {w}) /\ Cardinality(S) \in Nat
    BY FS_RemoveElement, FS_CardinalityType
  <1>2. Cardinality(S \ {w}) \in Nat
    BY <1>1, FS_CardinalityType
  <1>3. w \in S => Cardinality(S \ {w}) = Cardinality(S) - 1
    BY FS_RemoveElement
  <1>4. w \notin S => S \ {w} = S
    OBVIOUS
  <1>5. Cardinality(S \ {w}) <= Cardinality(S)
    <2>1. CASE w \in S
      BY <1>1, <1>3, <2>1
    <2>2. CASE w \notin S
      BY <1>1, <1>4, <2>2
    <2> QED BY <2>1, <2>2
  <1> QED BY <1>1, <1>2, <1>3, <1>4, <1>5

\* Who stands where after a step that changes what one worker does.
LEMMA Moves ==
  ASSUME Shape, NEW w \in Workers, NEW x, run' = [run EXCEPT ![w] = x]
  PROVE  run'[w] = x /\ \A v \in Workers \ {w} : run'[v] = run[v]
  BY DEF Shape

\* Where a worker stands after its step decides which sets of its mail it is in.
LEMMA Sending ==
  ASSUME Shape, NEW w \in Workers, NEW x, run' = [run EXCEPT ![w] = x], NEW n \in Mails,
         x # None, x.mail = n, x.pc = "send"
  PROVE  Senders(n)' = Senders(n) \cup {w}
  <1>1. run'[w] = x /\ \A v \in Workers \ {w} : run'[v] = run[v]
    BY Moves
  <1> QED BY <1>1 DEF Senders, AtMail

LEMMA NotSending ==
  ASSUME Shape, NEW w \in Workers, NEW x, run' = [run EXCEPT ![w] = x], NEW n \in Mails,
         x = None \/ x.mail # n \/ x.pc # "send"
  PROVE  Senders(n)' = Senders(n) \ {w}
  <1>1. run'[w] = x /\ \A v \in Workers \ {w} : run'[v] = run[v]
    BY Moves
  <1> QED BY <1>1 DEF Senders, AtMail

LEMMA Asking ==
  ASSUME Shape, NEW w \in Workers, NEW x, run' = [run EXCEPT ![w] = x], NEW n \in Mails,
         x # None, x.mail = n, x.pc \in {"success", "error"}
  PROVE  Askers(n)' = Askers(n) \cup {w}
  <1>1. run'[w] = x /\ \A v \in Workers \ {w} : run'[v] = run[v]
    BY Moves
  <1> QED BY <1>1 DEF Askers, AtMail

LEMMA NotAsking ==
  ASSUME Shape, NEW w \in Workers, NEW x, run' = [run EXCEPT ![w] = x], NEW n \in Mails,
         x = None \/ x.mail # n \/ x.pc \notin {"success", "error"}
  PROVE  Askers(n)' = Askers(n) \ {w}
  <1>1. run'[w] = x /\ \A v \in Workers \ {w} : run'[v] = run[v]
    BY Moves
  <1> QED BY <1>1 DEF Askers, AtMail

\* A mail that a step does not touch.
LEMMA Elsewhere ==
  ASSUME NEW n \in Mails, Ledger(n), queueEnabled' = queueEnabled, job'[n] = job[n],
         sent'[n] = sent[n], calls'[n] = calls[n], doubts'[n] = doubts[n],
         retries'[n] = retries[n],
         Senders(n)' = Senders(n), Askers(n)' = Askers(n), Unsettled(n)' <=> Unsettled(n)
  PROVE Ledger(n)'
  <1>1. Intruders(n)' = Intruders(n)
    BY DEF Intruders, Holds
  <1>2. Promised(n)' = Promised(n)
    BY DEF Promised
  <1>3. Budget(n)'
    BY <1>2 DEF Ledger, Budget
  <1>4. Tally(n)'
    BY DEF Ledger, Tally
  <1>5. Paid(n)'
    BY <1>1 DEF Ledger, Paid
  <1> QED BY <1>3, <1>4, <1>5 DEF Ledger

\* A step of worker w on mail m leaves the other mails alone.
LEMMA OtherMails ==
  ASSUME Shape, NEW w \in Workers, NEW m \in Mails, NEW x, run' = [run EXCEPT ![w] = x],
         run[w] = None \/ run[w].mail = m, x = None \/ x.mail = m,
         NEW n \in Mails \ {m}, Ledger(n), queueEnabled' = queueEnabled, job'[n] = job[n],
         sent'[n] = sent[n], calls'[n] = calls[n], doubts'[n] = doubts[n],
         retries'[n] = retries[n]
  PROVE Ledger(n)'
  <1>1. w \notin Senders(n) /\ w \notin Askers(n)
    BY DEF Senders, Askers, AtMail
  <1>2. Senders(n)' = Senders(n) /\ Askers(n)' = Askers(n)
    <2>1. x = None \/ x.mail # n
      OBVIOUS
    <2>2. run'[w] = x /\ \A v \in Workers \ {w} : run'[v] = run[v]
      BY Moves
    <2>3. Senders(n)' = Senders(n)
      BY <1>1, <2>1, <2>2 DEF Senders, AtMail
    <2>4. Askers(n)' = Askers(n)
      BY <1>1, <2>1, <2>2 DEF Askers, AtMail
    <2> QED BY <2>3, <2>4
  <1>3. Unsettled(n)' <=> Unsettled(n)
    <2>1. CASE job[n].state = "active"
      <3>1. job[n].by \in Workers
        BY <2>1 DEF Shape, Runs, JobRow
      <3>2. CASE job[n].by = w
        BY <2>1, <3>2, Moves DEF Unsettled
      <3>3. CASE job[n].by # w
        <4>1. run'[job[n].by] = run[job[n].by]
          BY <3>1, <3>3, Moves
        <4> QED BY <4>1 DEF Unsettled
      <3> QED BY <3>2, <3>3
    <2>2. CASE job[n].state # "active"
      BY <2>2 DEF Unsettled
    <2> QED BY <2>1, <2>2
  <1> QED BY <1>2, <1>3, Elsewhere

\* A step of no worker that changes the job of one mail leaves the others alone.
LEMMA OtherJobs ==
  ASSUME Shape, NEW m \in Mails, run' = run, NEW n \in Mails \ {m}, Ledger(n),
         queueEnabled' = queueEnabled, job'[n] = job[n],
         sent'[n] = sent[n], calls'[n] = calls[n], doubts'[n] = doubts[n],
         retries'[n] = retries[n]
  PROVE Ledger(n)'
  <1>1. Senders(n)' = Senders(n) /\ Askers(n)' = Askers(n) /\ (Unsettled(n)' <=> Unsettled(n))
    BY DEF Senders, Askers, AtMail, Unsettled
  <1> QED BY <1>1, Elsewhere

LEMMA LedgerInit == Init => \A m \in Mails : Ledger(m)
  <1> SUFFICES ASSUME Init, NEW m \in Mails PROVE Ledger(m)
    OBVIOUS
  <1>1. Senders(m) = {} /\ Askers(m) = {} /\ Intruders(m) = {}
    BY DEF Init, Senders, Askers, Intruders, AtMail
  <1>2. IsFiniteSet({}) /\ Cardinality({}) = 0
    BY FS_EmptySet
  <1>3. Shape
    BY ShapeInit
  <1>4. /\ calls[m] = 0 /\ sent[m] = 0 /\ doubts[m] = 0 /\ retries[m] = 0
        /\ job[m].made = 0 /\ job[m].stalls = 0
    BY DEF Init
  <1>5. Least(job[m].made, Attempts - 1) \in Nat /\ Least(job[m].stalls, MaxStalls) \in Nat
    BY <1>3, Numbers, LeastBounds
  <1>6. Budget(m)
    BY <1>1, <1>2, <1>4, <1>5 DEF Budget, Promised
  <1>7. Tally(m)
    BY <1>1, <1>2, <1>4, AttemptsAssumption DEF Tally
  <1>8. Paid(m)
    BY <1>1, <1>2, <1>4 DEF Paid
  <1> QED BY <1>6, <1>7, <1>8 DEF Ledger

\* The job of m goes from one state in which nobody holds it to another.
LEMMA Shelved ==
  ASSUME Shape, NEW m \in Mails, Ledger(m), job[m].state # "active", job'[m].state # "active",
         run' = run, queueEnabled' = queueEnabled,
         job'[m].made = job[m].made, job'[m].stalls = job[m].stalls,
         sent'[m] = sent[m], calls'[m] = calls[m], doubts'[m] = doubts[m]
  PROVE /\ IsFiniteSet(Senders(m)') /\ Cardinality(Senders(m)') = Cardinality(Senders(m))
        /\ IsFiniteSet(Askers(m)') /\ Cardinality(Askers(m)') = Cardinality(Askers(m))
        /\ IsFiniteSet(Intruders(m)') /\ Cardinality(Intruders(m)') = Cardinality(Intruders(m))
  <1>1. Senders(m)' = Senders(m) /\ Askers(m)' = Askers(m)
    BY DEF Senders, Askers, AtMail
  <1>2. Intruders(m)' = Intruders(m)
    BY <1>1 DEF Intruders, Holds
  <1> QED BY <1>1, <1>2 DEF Ledger, Budget, Tally, Paid

LEMMA SizesAreNumbers ==
  ASSUME NEW m \in Mails, Ledger(m)
  PROVE Cardinality(Senders(m)) \in Nat /\ Cardinality(Askers(m)) \in Nat
          /\ Cardinality(Intruders(m)) \in Nat
  BY FS_CardinalityType DEF Ledger, Budget, Tally, Paid

LEMMA SendQueuedLedger ==
  ASSUME Good, NEW m \in Mails, SendQueued(m) \/ Promote(m), NEW n \in Mails
  PROVE Ledger(n)'
  <1>0. Shape /\ Ledger(m) /\ Ledger(n)
    BY DEF Good
  <1>1. /\ job[m].state \in {"none", "delayed"}
        /\ Becomes(m, "waiting", None, job[m].made, job[m].stalls)
        /\ run' = run /\ queueEnabled' = queueEnabled
        /\ sent' = sent /\ calls' = calls /\ doubts' = doubts /\ retries' = retries
    BY <1>0, PutStep DEF SendQueued, Promote, States, history
  <1>2. CASE n # m
    BY <1>0, <1>1, <1>2, OtherJobs DEF Becomes
  <1>3. CASE n = m
    <2>1. /\ IsFiniteSet(Senders(m)') /\ Cardinality(Senders(m)') = Cardinality(Senders(m))
          /\ IsFiniteSet(Askers(m)') /\ Cardinality(Askers(m)') = Cardinality(Askers(m))
          /\ IsFiniteSet(Intruders(m)') /\ Cardinality(Intruders(m)') = Cardinality(Intruders(m))
      BY <1>0, <1>1, Shelved DEF Becomes
    <2>2. Budget(m)'
      BY <1>0, <1>1, <2>1 DEF Ledger, Budget, Promised, Becomes
    <2>3. Tally(m)'
      BY <1>0, <1>1, <2>1 DEF Ledger, Tally, Becomes
    <2>4. Paid(m)'
      BY <1>0, <1>1, <2>1 DEF Ledger, Paid, Unsettled, Becomes
    <2> QED BY <1>3, <2>2, <2>3, <2>4 DEF Ledger
  <1> QED BY <1>2, <1>3

LEMMA RetryLedger ==
  ASSUME Good, NEW m \in Mails, RetryFailedJob(m), NEW n \in Mails
  PROVE Ledger(n)'
  <1>0. Shape /\ Ledger(m) /\ Ledger(n)
    BY DEF Good
  <1>1. /\ job[m].state = "failed"
        /\ Becomes(m, "waiting", None, job[m].made, job[m].stalls)
        /\ run' = run /\ queueEnabled' = queueEnabled
        /\ sent' = sent /\ calls' = calls /\ doubts' = doubts
        /\ retries' = [retries EXCEPT ![m] = @ + 1] /\ retries[m] < MaxRetries
    BY <1>0, PutStep DEF RetryFailedJob, States
  <1>r. retries'[m] = retries[m] + 1 /\ \A k \in Mails \ {m} : retries'[k] = retries[k]
    BY <1>0, <1>1 DEF Shape, Runs
  <1>2. CASE n # m
    BY <1>0, <1>1, <1>2, <1>r, OtherJobs DEF Becomes
  <1>3. CASE n = m
    <2>1. /\ IsFiniteSet(Senders(m)') /\ Cardinality(Senders(m)') = Cardinality(Senders(m))
          /\ IsFiniteSet(Askers(m)') /\ Cardinality(Askers(m)') = Cardinality(Askers(m))
          /\ IsFiniteSet(Intruders(m)') /\ Cardinality(Intruders(m)') = Cardinality(Intruders(m))
      BY <1>0, <1>1, Shelved DEF Becomes
    <2>2. /\ retries[m] \in Nat /\ calls[m] \in Nat /\ Cardinality(Senders(m)) \in Nat
          /\ job[m].stalls \in Nat /\ MaxStalls \in Nat /\ MaxRetries \in Nat
          /\ Least(job[m].made, Attempts - 1) \in Nat /\ Least(job[m].stalls, MaxStalls) \in Nat
      BY <1>0, Numbers, LeastBounds, SizesAreNumbers
    <2>3. Budget(m)'
      BY <1>0, <1>1, <1>r, <2>1, <2>2 DEF Ledger, Budget, Promised, Becomes
    <2>4. Tally(m)'
      BY <1>0, <1>1, <1>r, <2>1, <2>2 DEF Ledger, Tally, Becomes
    <2>5. Paid(m)'
      BY <1>0, <1>1, <2>1 DEF Ledger, Paid, Unsettled, Becomes
    <2> QED BY <1>3, <2>3, <2>4, <2>5 DEF Ledger
  <1> QED BY <1>2, <1>3

LEMMA ClearLedger ==
  ASSUME Good, ClearFailedJobs, NEW m \in Mails
  PROVE Ledger(m)'
  <1>0. Shape /\ Ledger(m)
    BY DEF Good
  <1>1. /\ job'[m].state = IF job[m].state = "failed" THEN "cleared" ELSE job[m].state
        /\ job'[m].by = job[m].by /\ job'[m].made = job[m].made /\ job'[m].stalls = job[m].stalls
        /\ run' = run /\ queueEnabled' = queueEnabled
        /\ sent' = sent /\ calls' = calls /\ doubts' = doubts /\ retries' = retries
    BY <1>0, ClearStep DEF history
  <1>2. Senders(m)' = Senders(m) /\ Askers(m)' = Askers(m) /\ Intruders(m)' = Intruders(m)
    BY <1>1 DEF Senders, Askers, AtMail, Intruders, Holds
  <1>3. Budget(m)'
    BY <1>0, <1>1, <1>2 DEF Ledger, Budget, Promised
  <1>4. Tally(m)'
    BY <1>0, <1>1, <1>2 DEF Ledger, Tally
  <1>5. Paid(m)'
    <2>1. Unsettled(m)' => Unsettled(m)
      BY <1>1 DEF Unsettled
    <2>2. sent[m] \in Nat /\ doubts[m] \in Nat /\ Cardinality(Intruders(m)) \in Nat
      BY <1>0, Numbers, SizesAreNumbers
    <2> QED BY <1>0, <1>1, <1>2, <2>1, <2>2 DEF Ledger, Paid
  <1> QED BY <1>3, <1>4, <1>5 DEF Ledger

LEMMA DirectLedger ==
  ASSUME Good, NEW m \in Mails, SendDirect(m) \/ DirectAnswer(m) \/ DirectReturn(m), NEW n \in Mails
  PROVE Ledger(n)'
  <1>0. Shape /\ OneWay /\ Ledger(m) /\ Ledger(n)
    BY DEF Good
  <1>1. run' = run /\ queueEnabled' = queueEnabled /\ job' = job
    BY DEF SendDirect, DirectAnswer, DirectReturn
  <1>2. CASE SendDirect(m) \/ DirectReturn(m)
    <2>1. sent' = sent /\ calls' = calls /\ doubts' = doubts /\ retries' = retries
      BY <1>2 DEF SendDirect, DirectReturn, history
    <2>2. Senders(n)' = Senders(n) /\ Askers(n)' = Askers(n) /\ (Unsettled(n)' <=> Unsettled(n))
      BY <1>1 DEF Senders, Askers, AtMail, Unsettled
    <2> QED BY <1>0, <1>1, <2>1, <2>2, Elsewhere
  <1>3. CASE DirectAnswer(m)
    <2>1. PICK success \in BOOLEAN : Provide(m, success)
      BY <1>3 DEF DirectAnswer
    <2>2. /\ calls'[m] = calls[m] + 1 /\ retries' = retries
          /\ \/ sent'[m] = sent[m] + 1 /\ doubts'[m] = doubts[m]
             \/ sent'[m] = sent[m] /\ doubts'[m] = doubts[m]
             \/ sent'[m] = sent[m] + 1 /\ doubts'[m] = doubts[m] + 1
          /\ \A k \in Mails \ {m} : /\ calls'[k] = calls[k] /\ sent'[k] = sent[k]
                                     /\ doubts'[k] = doubts[k]
      BY <1>0, <2>1, ProvideShape DEF Shape, Runs
    <2>3. ~ queueEnabled /\ calls[m] = 0
      BY <1>0, <1>3 DEF DirectAnswer, OneWay
    <2>4. CASE n # m
      BY <1>0, <1>1, <2>2, <2>4, OtherJobs
    <2>5. CASE n = m
      <3>1. Senders(m) = {} /\ Askers(m) = {} /\ Intruders(m) = {}
        BY <1>0, <2>3 DEF OneWay, Senders, Askers, AtMail, Intruders
      <3>2. Senders(m)' = {} /\ Askers(m)' = {} /\ Intruders(m)' = {}
        BY <1>1, <3>1 DEF Senders, Askers, AtMail, Intruders, Holds
      <3>3. IsFiniteSet({}) /\ Cardinality({}) = 0
        BY FS_EmptySet
      <3>4. /\ Least(job[m].made, Attempts - 1) \in Nat /\ Least(job[m].stalls, MaxStalls) \in Nat
            /\ sent[m] \in Nat /\ doubts[m] \in Nat /\ retries[m] \in Nat
            /\ job[m].made \in Nat /\ job[m].stalls \in Nat
        BY <1>0, Numbers, LeastBounds
      <3>5. Budget(m)'
        BY <1>1, <2>2, <2>3, <3>2, <3>3, <3>4 DEF Budget
      <3>6. Tally(m)'
        BY <1>0, <1>1, <2>2, <2>3, <3>1, <3>2, <3>3, <3>4 DEF Ledger, Tally
      <3>7. Paid(m)'
        BY <1>0, <1>1, <2>2, <2>3, <3>2, <3>3, <3>4 DEF Ledger, Tally, Paid
      <3> QED BY <2>5, <3>5, <3>6, <3>7 DEF Ledger
    <2> QED BY <2>4, <2>5
  <1> QED BY <1>2, <1>3

LEMMA TakeLedger ==
  ASSUME Good, NEW w \in Workers, NEW m \in Mails, Take(w, m), NEW n \in Mails
  PROVE Ledger(n)'
  <1>0. Shape /\ OneWay /\ Ledger(m) /\ Ledger(n)
    BY DEF Good
  <1> DEFINE x == [mail |-> m, pc |-> "send"]
  <1>1. /\ run[w] = None /\ run' = [run EXCEPT ![w] = x] /\ job[m].state = "waiting"
        /\ Becomes(m, "active", w, job[m].made, job[m].stalls)
        /\ queueEnabled' = queueEnabled
        /\ sent' = sent /\ calls' = calls /\ doubts' = doubts /\ retries' = retries
    BY <1>0, PutStep DEF Take, States, history
  <1>2. x # None /\ x.mail = m /\ x.pc = "send"
    <2>1. x \in Runs
      BY DEF Runs
    <2> QED BY <2>1, NoneIsNobody
  <1>3. CASE n # m
    BY <1>0, <1>1, <1>2, <1>3, OtherMails DEF Becomes
  <1>4. CASE n = m
    <2>1. w \notin Senders(m) /\ w \notin Askers(m)
      BY <1>1 DEF Senders, Askers, AtMail
    <2>2. Senders(m)' = Senders(m) \cup {w} /\ Askers(m)' = Askers(m) /\ run'[w] = x
      <3>1. Senders(m)' = Senders(m) \cup {w}
        BY <1>0, <1>1, <1>2, Sending
      <3>2. Askers(m)' = Askers(m) \ {w}
        BY <1>0, <1>1, <1>2, NotAsking
      <3>3. run'[w] = x
        BY <1>0, <1>1, Moves
      <3> QED BY <2>1, <3>1, <3>2, <3>3
    <2>3. Intruders(m)' = Intruders(m)
      BY <1>1, <2>1, <2>2 DEF Intruders, Holds, Becomes
    <2>4. /\ IsFiniteSet(Senders(m)') /\ Cardinality(Senders(m)) \in Nat
          /\ Cardinality(Senders(m)') = Cardinality(Senders(m)) + 1
      BY <1>0, <2>1, <2>2, AddOne DEF Ledger, Budget
    <2>5. /\ calls[m] \in Nat /\ retries[m] \in Nat
          /\ Least(job[m].made, Attempts - 1) \in Nat /\ Least(job[m].stalls, MaxStalls) \in Nat
      BY <1>0, Numbers, LeastBounds
    <2>6. queueEnabled
      BY <1>0, <1>1 DEF OneWay
    <2>7. Budget(m)'
      BY <1>0, <1>1, <2>4, <2>5, <2>6 DEF Ledger, Budget, Promised, Becomes
    <2>8. Tally(m)'
      BY <1>0, <1>1, <2>2 DEF Ledger, Tally, Becomes
    <2>9. Paid(m)'
      <3>1. Unsettled(m)
        BY <1>1 DEF Unsettled
      <3>2. sent[m] \in Nat /\ doubts[m] \in Nat /\ Cardinality(Intruders(m)) \in Nat
        BY <1>0, Numbers, SizesAreNumbers
      <3> QED BY <1>0, <1>1, <2>3, <2>6, <3>1, <3>2 DEF Ledger, Paid
    <2> QED BY <1>4, <2>7, <2>8, <2>9 DEF Ledger
  <1> QED BY <1>3, <1>4

LEMMA SendLedger ==
  ASSUME Good, NEW w \in Workers, HandleSendEmail(w), NEW n \in Mails
  PROVE Ledger(n)'
  <1>0. Shape /\ OneWay /\ Ledger(n)
    BY DEF Good
  <1>m. PICK m \in Mails : m = run[w].mail
    BY <1>0 DEF HandleSendEmail, Shape, Runs
  <1>1. PICK success \in BOOLEAN :
          /\ Provide(m, success)
          /\ run' = [run EXCEPT ![w].pc = IF success THEN "success" ELSE "error"]
    BY <1>m DEF HandleSendEmail
  <1>2. /\ m \in Mails /\ run[w] # None /\ run[w].pc = "send"
        /\ queueEnabled' = queueEnabled /\ job' = job
    BY <1>m DEF HandleSendEmail
  <1>l. Ledger(m)
    BY DEF Good
  <1> DEFINE answer == IF success THEN "success" ELSE "error"
             x == [mail |-> m, pc |-> answer]
  <1>3. run' = [run EXCEPT ![w] = x] /\ x # None /\ x.mail = m /\ x.pc = answer
    <2>1. x \in Runs
      BY <1>2 DEF Runs
    <2>2. run[w] \in Runs
      BY <1>0, <1>2 DEF Shape, Runs
    <2>3. [run[w] EXCEPT !.pc = answer] = x
      BY <1>m, <2>2 DEF Runs
    <2>4. run' = [run EXCEPT ![w] = x]
      BY <1>1, <2>3
    <2> QED BY <2>1, <2>4, NoneIsNobody
  <1>4. /\ calls'[m] = calls[m] + 1 /\ retries' = retries
        /\ \/ success /\ sent'[m] = sent[m] + 1 /\ doubts'[m] = doubts[m]
           \/ ~ success /\ sent'[m] = sent[m] /\ doubts'[m] = doubts[m]
           \/ ~ success /\ sent'[m] = sent[m] + 1 /\ doubts'[m] = doubts[m] + 1
        /\ \A k \in Mails \ {m} : calls'[k] = calls[k] /\ sent'[k] = sent[k] /\ doubts'[k] = doubts[k]
    BY <1>0, <1>1, <1>2, ProvideShape DEF Shape, Runs
  <1> HIDE DEF x
  <1>5. CASE n # m
    BY <1>0, <1>l, <1>m, <1>2, <1>3, <1>4, <1>5, OtherMails
  <1>6. CASE n = m
    <2>1. w \in Senders(m) /\ w \notin Askers(m)
      BY <1>m, <1>2 DEF Senders, Askers, AtMail
    <2>2. Senders(m)' = Senders(m) \ {w} /\ Askers(m)' = Askers(m) \cup {w} /\ run'[w] = x
          /\ \A v \in Workers \ {w} : run'[v] = run[v]
      <3>1. x # None /\ x.mail = m /\ x.pc \in {"success", "error"} /\ x.pc # "send"
        BY <1>3
      <3>2. Senders(m)' = Senders(m) \ {w}
        BY <1>0, <1>3, <3>1, NotSending
      <3>3. Askers(m)' = Askers(m) \cup {w}
        BY <1>0, <1>3, <3>1, Asking
      <3>4. run'[w] = x /\ \A v \in Workers \ {w} : run'[v] = run[v]
        BY <1>0, <1>3, Moves
      <3> QED BY <3>2, <3>3, <3>4
    <2>3. /\ IsFiniteSet(Senders(m)') /\ Cardinality(Senders(m)) \in Nat
          /\ Cardinality(Senders(m)') = Cardinality(Senders(m)) - 1
          /\ Cardinality(Senders(m)') \in Nat
      <3>1. IsFiniteSet(Senders(m))
        BY <1>l DEF Ledger, Budget
      <3>2. /\ IsFiniteSet(Senders(m) \ {w}) /\ Cardinality(Senders(m)) \in Nat
            /\ Cardinality(Senders(m) \ {w}) \in Nat
            /\ Cardinality(Senders(m) \ {w}) = Cardinality(Senders(m)) - 1
        BY <2>1, <3>1, TakeOne
      <3> QED BY <2>2, <3>2
    <2>4. /\ IsFiniteSet(Askers(m)') /\ Cardinality(Askers(m)) \in Nat
          /\ Cardinality(Askers(m)') = Cardinality(Askers(m)) + 1
      BY <1>l, <2>1, <2>2, AddOne DEF Ledger, Tally
    <2>5. /\ calls[m] \in Nat /\ retries[m] \in Nat /\ sent[m] \in Nat /\ doubts[m] \in Nat
          /\ job[m].made \in Nat /\ job[m].stalls \in Nat
          /\ Least(job[m].made, Attempts - 1) \in Nat /\ Least(job[m].stalls, MaxStalls) \in Nat
      BY <1>0, <1>2, Numbers, LeastBounds
    <2>6. Budget(m)'
      BY <1>l, <1>2, <1>4, <2>3, <2>5 DEF Ledger, Budget, Promised
    <2>7. Tally(m)'
      BY <1>l, <1>2, <1>4, <2>4, <2>5 DEF Ledger, Tally
    <2>8. Paid(m)'
      <3>1. CASE Holds(w, m)
        <4>1. Intruders(m)' = Intruders(m)
          BY <1>2, <2>2, <3>1 DEF Intruders, Holds
        <4>2. Unsettled(m)
          BY <1>m, <1>2, <3>1 DEF Unsettled, Holds
        <4>3. success => ~ Unsettled(m)'
          BY <1>m, <1>2, <1>3, <2>2, <3>1 DEF Unsettled, Holds
        <4>4. Cardinality(Intruders(m)) \in Nat /\ IsFiniteSet(Intruders(m))
          BY <1>l, SizesAreNumbers DEF Ledger, Paid
        <4>5. queueEnabled
          BY <1>0, <1>2 DEF OneWay
        <4> QED BY <1>l, <1>2, <1>4, <2>5, <4>1, <4>2, <4>3, <4>4, <4>5 DEF Ledger, Paid
      <3>2. CASE ~ Holds(w, m)
        <4>1. w \in Intruders(m) /\ Intruders(m)' = Intruders(m) \ {w}
          BY <1>2, <2>1, <2>2, <3>2 DEF Intruders, Holds
        <4>2. /\ IsFiniteSet(Intruders(m)') /\ Cardinality(Intruders(m)) \in Nat
              /\ Cardinality(Intruders(m)') = Cardinality(Intruders(m)) - 1
          <5>1. IsFiniteSet(Intruders(m))
            BY <1>l DEF Ledger, Paid
          <5>2. /\ IsFiniteSet(Intruders(m) \ {w}) /\ Cardinality(Intruders(m)) \in Nat
                /\ Cardinality(Intruders(m) \ {w}) = Cardinality(Intruders(m)) - 1
            BY <4>1, <5>1, TakeOne
          <5> QED BY <4>1, <5>2
        <4>3. Unsettled(m)' => Unsettled(m)
          BY <1>0, <1>2, <2>2, <3>2 DEF Unsettled, Holds, Shape, Runs, JobRow
        <4> QED BY <1>l, <1>2, <1>4, <2>5, <4>2, <4>3 DEF Ledger, Paid
      <3> QED BY <3>1, <3>2
    <2> QED BY <1>6, <2>6, <2>7, <2>8 DEF Ledger
  <1> QED BY <1>5, <1>6

\* The worker who held the job of m settles it.
LEMMA SettleLedger ==
  ASSUME Good, NEW w \in Workers, Complete(w) \/ Throw(w), NEW n \in Mails
  PROVE Ledger(n)'
  <1>0. Shape /\ OneWay /\ Ledger(n)
    BY DEF Good
  <1>m. PICK m \in Mails : m = run[w].mail
    BY <1>0 DEF Complete, Throw, Shape, Runs
  <1> DEFINE thrown == run[w].pc = "error"
             state == IF thrown THEN IF job[m].made + 1 < Attempts THEN "delayed" ELSE "failed"
                                ELSE "completed"
             made == IF thrown THEN job[m].made + 1 ELSE job[m].made
  <1>1. /\ run[w] # None /\ run[w].pc \in {"success", "error"} /\ Holds(w, m)
        /\ run' = [run EXCEPT ![w] = None]
        /\ Becomes(m, state, None, made, job[m].stalls)
        /\ queueEnabled' = queueEnabled
        /\ sent' = sent /\ calls' = calls /\ doubts' = doubts /\ retries' = retries
    <2>1. CASE Complete(w)
      <3>1. run[w].pc = "success" /\ Put(m, "completed", None)
        BY <1>m, <2>1 DEF Complete
      <3>2. Becomes(m, "completed", None, job[m].made, job[m].stalls)
        BY <1>0, <3>1, PutStep DEF States
      <3> QED BY <1>m, <2>1, <3>1, <3>2 DEF Complete, Done, history
    <2>2. CASE Throw(w)
      BY <1>0, <1>m, <2>2, ThrowStep DEF history
    <2> QED BY <2>1, <2>2
  <1>l. Ledger(m)
    BY DEF Good
  <1>2. CASE n # m
    BY <1>0, <1>m, <1>1, <1>2, OtherMails DEF Becomes
  <1>3. CASE n = m
    <2>1. w \notin Senders(m) /\ w \in Askers(m)
      BY <1>m, <1>1 DEF Senders, Askers, AtMail
    <2>2. Senders(m)' = Senders(m) /\ Askers(m)' = Askers(m) \ {w}
      <3>1. Senders(m)' = Senders(m) \ {w}
        BY <1>0, <1>1, NotSending
      <3>2. Askers(m)' = Askers(m) \ {w}
        BY <1>0, <1>1, NotAsking
      <3> QED BY <2>1, <3>1, <3>2
    <2>3. Intruders(m)' = Intruders(m)
      BY <1>1, <2>1, <2>2, Holder DEF Intruders, Holds, Becomes
    <2>4. /\ IsFiniteSet(Askers(m)') /\ Cardinality(Askers(m)) \in Nat
          /\ Cardinality(Askers(m)') = Cardinality(Askers(m)) - 1
      <3>1. IsFiniteSet(Askers(m))
        BY <1>l DEF Ledger, Tally
      <3>2. /\ IsFiniteSet(Askers(m) \ {w}) /\ Cardinality(Askers(m)) \in Nat
            /\ Cardinality(Askers(m) \ {w}) = Cardinality(Askers(m)) - 1
        BY <2>1, <3>1, TakeOne
      <3> QED BY <2>2, <3>2
    <2>5. /\ calls[m] \in Nat /\ retries[m] \in Nat /\ sent[m] \in Nat /\ doubts[m] \in Nat
          /\ job[m].made \in Nat /\ job[m].stalls \in Nat /\ Cardinality(Senders(m)) \in Nat
          /\ Attempts - 1 \in Nat /\ Attempts \in Nat /\ MaxStalls \in Nat
          /\ Cardinality(Intruders(m)) \in Nat
      BY <1>0, <1>l, <1>1, Numbers, SizesAreNumbers, AttemptsAssumption
    <2>6. queueEnabled /\ Promised(m) = 0
      BY <1>0, <1>1 DEF OneWay, Promised, Holds
    <2>7. Budget(m)'
      <3>1. /\ Least(job[m].made, Attempts - 1) \in Nat /\ Least(job[m].stalls, MaxStalls) \in Nat
            /\ Least(job[m].made + 1, Attempts - 1) \in Nat
            /\ Least(job[m].made, Attempts - 1) <= Least(job[m].made + 1, Attempts - 1)
            /\ job[m].made < Attempts - 1
                 => Least(job[m].made + 1, Attempts - 1) = Least(job[m].made, Attempts - 1) + 1
        BY <2>5, LeastBounds
      <3>2. state = "delayed" => thrown /\ job[m].made < Attempts - 1
        BY <2>5
      <3>3. Promised(m)' = IF state = "delayed" THEN 1 ELSE 0
        BY <1>1 DEF Promised, Becomes
      <3>4. job'[m].made = made /\ job'[m].stalls = job[m].stalls
        BY <1>1 DEF Becomes
      <3> QED BY <1>l, <1>1, <2>2, <2>5, <2>6, <3>1, <3>2, <3>3, <3>4 DEF Ledger, Budget
    <2>8. Tally(m)'
      <3>1. job'[m].made = made /\ job'[m].stalls = job[m].stalls /\ job[m].state = "active"
        BY <1>1 DEF Becomes, Holds
      <3> QED BY <1>l, <1>1, <2>4, <2>5, <3>1 DEF Ledger, Tally
    <2>9. Paid(m)'
      <3>1. Unsettled(m)' => Unsettled(m)
        BY <1>m, <1>1 DEF Unsettled, Becomes, Holds
      <3> QED BY <1>l, <1>1, <2>3, <2>5, <2>6, <3>1 DEF Ledger, Paid
    <2> QED BY <1>3, <2>7, <2>8, <2>9 DEF Ledger
  <1> QED BY <1>2, <1>3

LEMMA AbandonLedger ==
  ASSUME Good, NEW w \in Workers, Disowned(w) \/ Crash(w), NEW n \in Mails
  PROVE Ledger(n)'
  <1>0. Shape /\ OneWay /\ Ledger(n)
    BY DEF Good
  <1>m. PICK m \in Mails : m = run[w].mail
    BY <1>0 DEF Disowned, Crash, Shape, Runs
  <1>1. /\ run[w] # None
        /\ run' = [run EXCEPT ![w] = None] /\ job' = job
        /\ queueEnabled' = queueEnabled
        /\ sent' = sent /\ calls' = calls /\ doubts' = doubts /\ retries' = retries
    BY <1>0 DEF Disowned, Crash, Done, history, Shape, Runs
  <1>l. Ledger(m)
    BY DEF Good
  <1>2. CASE n # m
    BY <1>0, <1>m, <1>1, <1>2, OtherMails
  <1>3. CASE n = m
    <2>1. Senders(m)' = Senders(m) \ {w} /\ Askers(m)' = Askers(m) \ {w}
          /\ run'[w] = None /\ \A v \in Workers \ {w} : run'[v] = run[v]
      <3>1. Senders(m)' = Senders(m) \ {w}
        BY <1>0, <1>1, NotSending
      <3>2. Askers(m)' = Askers(m) \ {w}
        BY <1>0, <1>1, NotAsking
      <3> QED BY <1>0, <1>1, <3>1, <3>2, Moves
    <2>2. Intruders(m)' = Intruders(m) \ {w}
      BY <1>1, <2>1 DEF Intruders, Holds
    <2>3. /\ IsFiniteSet(Senders(m)') /\ Cardinality(Senders(m)') <= Cardinality(Senders(m))
          /\ Cardinality(Senders(m)) \in Nat /\ Cardinality(Senders(m)') \in Nat
      <3>1. IsFiniteSet(Senders(m))
        BY <1>l DEF Ledger, Budget
      <3>2. /\ IsFiniteSet(Senders(m) \ {w}) /\ Cardinality(Senders(m)) \in Nat
            /\ Cardinality(Senders(m) \ {w}) \in Nat
            /\ Cardinality(Senders(m) \ {w}) <= Cardinality(Senders(m))
        BY <3>1, TakeOne
      <3> QED BY <2>1, <3>2
    <2>4. /\ IsFiniteSet(Askers(m)') /\ Cardinality(Askers(m)') <= Cardinality(Askers(m))
          /\ Cardinality(Askers(m)) \in Nat /\ Cardinality(Askers(m)') \in Nat
      <3>1. IsFiniteSet(Askers(m))
        BY <1>l DEF Ledger, Tally
      <3>2. /\ IsFiniteSet(Askers(m) \ {w}) /\ Cardinality(Askers(m)) \in Nat
            /\ Cardinality(Askers(m) \ {w}) \in Nat
            /\ Cardinality(Askers(m) \ {w}) <= Cardinality(Askers(m))
        BY <3>1, TakeOne
      <3> QED BY <2>1, <3>2
    <2>5. /\ IsFiniteSet(Intruders(m)') /\ Cardinality(Intruders(m)') <= Cardinality(Intruders(m))
          /\ Cardinality(Intruders(m)) \in Nat /\ Cardinality(Intruders(m)') \in Nat
      <3>1. IsFiniteSet(Intruders(m))
        BY <1>l DEF Ledger, Paid
      <3>2. /\ IsFiniteSet(Intruders(m) \ {w}) /\ Cardinality(Intruders(m)) \in Nat
            /\ Cardinality(Intruders(m) \ {w}) \in Nat
            /\ Cardinality(Intruders(m) \ {w}) <= Cardinality(Intruders(m))
        BY <3>1, TakeOne
      <3> QED BY <2>2, <3>2
    <2>6. /\ calls[m] \in Nat /\ retries[m] \in Nat /\ sent[m] \in Nat /\ doubts[m] \in Nat
          /\ job[m].made \in Nat /\ job[m].stalls \in Nat
          /\ Least(job[m].made, Attempts - 1) \in Nat /\ Least(job[m].stalls, MaxStalls) \in Nat
      BY <1>0, <1>1, Numbers, LeastBounds
    <2>7. Budget(m)'
      BY <1>l, <1>1, <2>3, <2>6 DEF Ledger, Budget, Promised
    <2>8. Tally(m)'
      BY <1>l, <1>1, <2>4, <2>6 DEF Ledger, Tally
    <2>9. Paid(m)'
      <3>1. Unsettled(m)' => Unsettled(m)
        BY <1>0, <1>1, <2>1 DEF Unsettled, Shape, Runs, JobRow
      <3> QED BY <1>l, <1>1, <2>5, <2>6, <3>1 DEF Ledger, Paid
    <2> QED BY <1>3, <2>7, <2>8, <2>9 DEF Ledger
  <1> QED BY <1>2, <1>3

LEMMA StallLedger ==
  ASSUME Good, NEW m \in Mails, Stall(m), NEW n \in Mails
  PROVE Ledger(n)'
  <1>0. Shape /\ OneWay /\ Ledger(m) /\ Ledger(n)
    BY DEF Good
  <1> DEFINE state == IF job[m].stalls < MaxStalls THEN "waiting" ELSE "failed"
  <1>1. /\ job[m].state = "active"
        /\ Becomes(m, state, None, job[m].made, job[m].stalls + 1)
        /\ doubts' = [doubts EXCEPT ![m] = @ + 1]
        /\ run' = run /\ queueEnabled' = queueEnabled
        /\ sent' = sent /\ calls' = calls /\ retries' = retries
    BY <1>0, StallStep
  <1>2. doubts'[m] = doubts[m] + 1 /\ \A k \in Mails \ {m} : doubts'[k] = doubts[k]
    BY <1>0, <1>1 DEF Shape, Runs
  <1>3. CASE n # m
    BY <1>0, <1>1, <1>2, <1>3, OtherJobs DEF Becomes
  <1>4. CASE n = m
    <2> DEFINE v == job[m].by
    <2>1. v \in Workers /\ Holds(v, m)
      BY <1>0, <1>1 DEF Shape, Runs, JobRow, Holds
    <2>2. Senders(m)' = Senders(m) /\ Askers(m)' = Askers(m)
      BY <1>1 DEF Senders, Askers, AtMail
    <2>3. Intruders(m)' = Intruders(m) \cup (IF v \in Senders(m) THEN {v} ELSE {})
      <3>1. Intruders(m)' = Senders(m)
        BY <1>1, <2>2 DEF Intruders, Holds, Becomes
      <3> QED BY <2>1, <3>1 DEF Intruders, Holds
    <2>4. v \notin Intruders(m)
      BY <2>1 DEF Intruders
    <2>5. /\ calls[m] \in Nat /\ retries[m] \in Nat /\ sent[m] \in Nat /\ doubts[m] \in Nat
          /\ job[m].made \in Nat /\ job[m].stalls \in Nat /\ MaxStalls \in Nat
          /\ Cardinality(Senders(m)) \in Nat
          /\ Cardinality(Intruders(m)) \in Nat
          /\ Attempts - 1 \in Nat
      BY <1>0, Numbers, SizesAreNumbers
    <2>6. queueEnabled
      BY <1>0, <1>1 DEF OneWay
    <2>7. Budget(m)'
      <3>1. /\ Least(job[m].made, Attempts - 1) \in Nat /\ Least(job[m].stalls, MaxStalls) \in Nat
            /\ Least(job[m].stalls + 1, MaxStalls) \in Nat
            /\ Least(job[m].stalls, MaxStalls) <= Least(job[m].stalls + 1, MaxStalls)
            /\ job[m].stalls < MaxStalls
                 => Least(job[m].stalls + 1, MaxStalls) = Least(job[m].stalls, MaxStalls) + 1
        <4>1. Least(job[m].made, Attempts - 1) \in Nat
          BY <2>5, LeastBounds
        <4>2. job[m].stalls + 1 \in Nat
          BY <2>5
        <4>3. Least(job[m].stalls + 1, MaxStalls) \in Nat
          BY <2>5, <4>2, LeastBounds
        <4> QED BY <2>5, <4>1, <4>3, LeastBounds
      <3>2. Promised(m) = 0 /\ Promised(m)' = IF job[m].stalls < MaxStalls THEN 1 ELSE 0
        BY <1>1 DEF Promised, Becomes
      <3>3. job'[m].made = job[m].made /\ job'[m].stalls = job[m].stalls + 1
        BY <1>1 DEF Becomes
      <3> QED BY <1>0, <1>1, <2>2, <2>5, <2>6, <3>1, <3>2, <3>3 DEF Ledger, Budget
    <2>8. Tally(m)'
      <3>1. job'[m].made = job[m].made /\ job'[m].stalls = job[m].stalls + 1 /\ job'[m].state = state
        BY <1>1 DEF Becomes
      <3> QED BY <1>0, <1>1, <1>2, <2>2, <2>5, <3>1 DEF Ledger, Tally
    <2>9. Paid(m)'
      <3>1. CASE v \in Senders(m)
        <4>1. Unsettled(m)
          BY <1>1, <3>1 DEF Unsettled, Senders, AtMail
        <4>2. /\ IsFiniteSet(Intruders(m)')
              /\ Cardinality(Intruders(m)') = Cardinality(Intruders(m)) + 1
          <5>1. Intruders(m)' = Intruders(m) \cup {v} /\ IsFiniteSet(Intruders(m))
            BY <1>0, <2>3, <3>1 DEF Ledger, Paid
          <5> QED BY <2>4, <5>1, AddOne
        <4> QED BY <1>0, <1>1, <1>2, <2>5, <2>6, <4>1, <4>2 DEF Ledger, Paid
      <3>2. CASE v \notin Senders(m)
        <4>1. Intruders(m)' = Intruders(m)
          BY <2>3, <3>2
        <4> QED BY <1>0, <1>1, <1>2, <2>5, <2>6, <4>1 DEF Ledger, Paid
      <3> QED BY <3>1, <3>2
    <2> QED BY <1>4, <2>7, <2>8, <2>9 DEF Ledger
  <1> QED BY <1>3, <1>4

LEMMA GoodNext == Good /\ [Next]_vars => Good'
  <1> SUFFICES ASSUME Good, [Next]_vars PROVE Good'
    OBVIOUS
  <1>1. Shape' /\ OneWay'
    BY ShapeNext, OneWayNext DEF Good
  <1>2. ASSUME NEW n \in Mails PROVE Ledger(n)'
    <2>1. CASE UNCHANGED vars
      <3>1. Senders(n)' = Senders(n) /\ Askers(n)' = Askers(n) /\ (Unsettled(n)' <=> Unsettled(n))
        BY <2>1 DEF vars, Senders, Askers, AtMail, Unsettled
      <3> QED BY <2>1, <3>1, Elsewhere DEF vars, history, Good
    <2>2. CASE Next
      BY <1>2, <2>2, SendQueuedLedger, RetryLedger, ClearLedger, DirectLedger, TakeLedger,
         SendLedger, SettleLedger, AbandonLedger, StallLedger DEF Next, WorkerStep
    <2> QED BY <2>1, <2>2
  <1> QED BY <1>1, <1>2 DEF Good

LEMMA GoodAlways == Spec => []Good
  <1>1. Init => Good
    <2>1. Init => OneWay
      BY DEF Init, OneWay
    <2> QED BY <2>1, ShapeInit, LedgerInit DEF Good
  <1> QED BY <1>1, GoodNext, PTL DEF Spec

(***************************************************************************)
(* What follows from the invariant.                                        *)
(***************************************************************************)

LEMMA Bounds ==
  ASSUME Good, NEW m \in Mails
  PROVE /\ calls[m] <= Attempts + MaxStalls + retries[m]
        /\ retries[m] <= MaxRetries /\ sent[m] <= calls[m] /\ job[m].made <= calls[m]
        /\ job[m].stalls <= MaxStalls + MaxRetries + 1
        /\ doubts[m] <= calls[m] + job[m].stalls
        /\ sent[m] <= 1 + doubts[m]
  <1>0. Shape /\ Budget(m) /\ Tally(m) /\ Paid(m)
    BY DEF Good, Ledger
  <1>1. /\ calls[m] \in Nat /\ sent[m] \in Nat /\ doubts[m] \in Nat /\ retries[m] \in Nat
        /\ job[m].made \in Nat /\ job[m].stalls \in Nat
        /\ Attempts - 1 \in Nat /\ Attempts \in Nat /\ MaxStalls \in Nat /\ MaxRetries \in Nat
    BY <1>0, Numbers, AttemptsAssumption
  <1>2. /\ Cardinality(Senders(m)) \in Nat /\ Cardinality(Askers(m)) \in Nat
        /\ Cardinality(Intruders(m)) \in Nat
    BY <1>0, FS_CardinalityType DEF Budget, Tally, Paid
  <1>3. /\ Least(job[m].made, Attempts - 1) \in Nat
        /\ Least(job[m].made, Attempts - 1) <= Attempts - 1
    BY <1>1, LeastBounds
  <1>4. /\ Least(job[m].stalls, MaxStalls) \in Nat
        /\ Least(job[m].stalls, MaxStalls) <= MaxStalls
    BY <1>1, LeastBounds
  <1>5. calls[m] <= Attempts + MaxStalls + retries[m]
    BY <1>0, <1>1, <1>2, <1>3, <1>4 DEF Budget, Promised
  <1>6. /\ retries[m] <= MaxRetries /\ sent[m] <= calls[m] /\ job[m].made <= calls[m]
        /\ job[m].stalls <= MaxStalls + MaxRetries + 1
        /\ doubts[m] <= calls[m] + job[m].stalls
    BY <1>0, <1>1, <1>2 DEF Tally
  <1>7. sent[m] <= 1 + doubts[m]
    BY <1>0, <1>1, <1>2 DEF Paid
  <1> QED BY <1>5, <1>6, <1>7

\* However workers stall, crash, lose their jobs and are told errors, the rows of the
\* queue, the workers' locals and the counters keep their types and their bounds, and
\* a job is active exactly while a worker holds it.
THEOREM MailTypes == Spec => []TypeOK
  <1>1. ASSUME Good PROVE TypeOK
    <2>0. Shape
      BY <1>1 DEF Good
    <2>1. ASSUME NEW m \in Mails
          PROVE /\ sent[m] \in 0..MaxCalls /\ calls[m] \in 0..MaxCalls
                /\ doubts[m] \in 0..MaxCalls + StallsBound /\ retries[m] \in 0..MaxRetries
                /\ job[m] \in [state : States, by : Workers \cup {None},
                               made : 0..MaxCalls, stalls : 0..StallsBound]
      <3>1. /\ calls[m] \in Nat /\ sent[m] \in Nat /\ doubts[m] \in Nat /\ retries[m] \in Nat
            /\ job[m].made \in Nat /\ job[m].stalls \in Nat
            /\ Attempts \in Nat /\ MaxStalls \in Nat /\ MaxRetries \in Nat
        BY <2>0, Numbers, AttemptsAssumption
      <3>2. /\ sent[m] \in 0..MaxCalls /\ calls[m] \in 0..MaxCalls
            /\ doubts[m] \in 0..MaxCalls + StallsBound /\ retries[m] \in 0..MaxRetries
            /\ job[m].made \in 0..MaxCalls /\ job[m].stalls \in 0..StallsBound
        BY <1>1, <3>1, Bounds DEF MaxCalls, StallsBound
      <3>3. job[m] \in JobRow
        BY <2>0 DEF Shape
      <3> QED BY <3>2, <3>3 DEF JobRow
    <2> QED BY <2>0, <2>1 DEF Shape, TypeOK
  <1> QED BY <1>1, GoodAlways, PTL

\* No mail makes the worker ask the provider more often than once per attempt, per
\* stall that is forgiven, and per retry by hand, however the workers stall and crash.
THEOREM CallsBounded == Spec => []CallsAreBounded
  <1>1. ASSUME Good PROVE CallsAreBounded
    BY <1>1, Bounds DEF CallsAreBounded
  <1> QED BY <1>1, GoodAlways, PTL

\* A mail the provider took several times had, for every time but one, an attempt of
\* which nobody could know that it was taken.
THEOREM RepeatsDoubtful == Spec => []RepeatsAreDoubtful
  <1>1. ASSUME Good PROVE RepeatsAreDoubtful
    BY <1>1, Bounds DEF RepeatsAreDoubtful
  <1> QED BY <1>1, GoodAlways, PTL

(***************************************************************************)
(* The mail service keeps the promise of a mailbox, step by step.          *)
(***************************************************************************)

LEMMA StatusValues ==
  ASSUME NEW m \in Mails, Good
  PROVE /\ queueEnabled =>
             /\ Status(m) = "pending" <=> job[m].state \in {"waiting", "active", "delayed"}
             /\ Status(m) = "sent" <=> job[m].state = "completed"
             /\ Status(m) = "failed" <=> job[m].state = "failed"
             /\ Status(m) = "cleared" <=> job[m].state = "cleared"
             /\ Status(m) = "new" <=> job[m].state = "none"
        /\ ~ queueEnabled =>
             /\ Status(m) = "pending" <=> direct[m] \in {"sending", "success", "error"}
             /\ Status(m) = "sent" <=> direct[m] = "sent"
             /\ Status(m) = "failed" <=> direct[m] = "failed"
             /\ Status(m) = "new" <=> direct[m] = "none"
             /\ Status(m) # "cleared"
  <1>1. /\ direct[m] \in {"none", "sending", "success", "error", "sent", "failed"}
        /\ job[m].state \in States
    BY DEF Good, Shape, JobRow
  <1>2. ASSUME queueEnabled PROVE direct[m] = "none"
    BY <1>2 DEF Good, OneWay
  <1>3. ASSUME ~ queueEnabled PROVE job[m].state = "none"
    BY <1>3 DEF Good, OneWay
  <1> QED BY <1>1, <1>2, <1>3 DEF Status, States

LEMMA StatusBecomes ==
  ASSUME NEW m \in Mails, NEW s, Status(m)' = s,
         \A n \in Mails \ {m} : Status(n)' = Status(n)
  PROVE Box!Become(m, s)
  BY DEF Box!Become

LEMMA StatusKept ==
  ASSUME \A n \in Mails : Status(n)' = Status(n)
  PROVE [n \in Mails |-> Status(n)]' = [n \in Mails |-> Status(n)]
  OBVIOUS

LEMMA StatusElsewhere ==
  ASSUME NEW n \in Mails, job'[n] = job[n], direct'[n] = direct[n]
  PROVE Status(n)' = Status(n)
  BY DEF Status

\* The status after a step, of a mail that goes through the queue or is sent directly.
LEMMA StatusAfter ==
  ASSUME NEW m \in Mails
  PROVE /\ direct'[m] = "none" =>
             /\ job'[m].state \in {"waiting", "active", "delayed"} => Status(m)' = "pending"
             /\ job'[m].state = "completed" => Status(m)' = "sent"
             /\ job'[m].state = "failed" => Status(m)' = "failed"
             /\ job'[m].state = "cleared" => Status(m)' = "cleared"
        /\ job'[m].state = "none" =>
             /\ direct'[m] \in {"sending", "success", "error"} => Status(m)' = "pending"
             /\ direct'[m] = "sent" => Status(m)' = "sent"
             /\ direct'[m] = "failed" => Status(m)' = "failed"
  BY DEF Status

\* The provider was asked: the mail is taken, or nothing changed.
LEMMA ProvideKept ==
  ASSUME Good, NEW m \in Mails, NEW success \in BOOLEAN, Provide(m, success),
         \A n \in Mails : Status(n)' = Status(n), Status(m) # "new"
  PROVE [Box!Take(m)]_(Box!vars)
  <1>1. Shape
    BY DEF Good
  <1>2. sent' = sent \/ sent' = [sent EXCEPT ![m] = @ + 1]
    BY <1>1, ProvideShape
  <1>3. CASE sent' = sent
    BY <1>3 DEF Box!vars
  <1>4. CASE sent' = [sent EXCEPT ![m] = @ + 1]
    <2>1. sent'[m] > 0 /\ \A n \in Mails \ {m} : sent'[n] = sent[n]
      BY <1>1, <1>4 DEF Shape
    <2>2. {n \in Mails : sent[n] > 0}' = {n \in Mails : sent[n] > 0} \cup {m}
      BY <2>1
    <2> QED BY <2>2 DEF Box!Take
  <1> QED BY <1>2, <1>3, <1>4

\* The job of m is settled, or put back, by a step that asks nobody.
LEMMA JobKept ==
  ASSUME Good, queueEnabled, NEW m \in Mails, NEW s, NEW by, NEW made, NEW stalls,
         Becomes(m, s, by, made, stalls), direct' = direct, sent' = sent
  PROVE /\ \A n \in Mails \ {m} : Status(n)' = Status(n)
        /\ {n \in Mails : sent[n] > 0}' = {n \in Mails : sent[n] > 0}
        /\ s \in {"waiting", "active", "delayed"} => Status(m)' = "pending"
        /\ s = "completed" => Status(m)' = "sent"
        /\ s = "failed" => Status(m)' = "failed"
  <1>1. direct'[m] = "none"
    BY DEF Good, OneWay
  <1>2. job'[m].state = s
    BY DEF Becomes
  <1>3. \A n \in Mails \ {m} : Status(n)' = Status(n)
    BY StatusElsewhere DEF Becomes
  <1> QED BY <1>1, <1>2, <1>3, StatusAfter

LEMMA MailStep == Good /\ [Next]_vars => [Box!Next]_(Box!vars)
  <1> SUFFICES ASSUME Good, [Next]_vars PROVE [Box!Next]_(Box!vars)
    OBVIOUS
  <1>0. Shape /\ OneWay
    BY DEF Good
  <1>1. ASSUME NEW m \in Mails, SendQueued(m) PROVE Box!Accept(m)
    <2>1. Becomes(m, "waiting", None, job[m].made, job[m].stalls)
      BY <1>0, <1>1, PutStep DEF SendQueued, States
    <2>2. Status(m) = "new"
      BY <1>1, StatusValues DEF SendQueued
    <2>3. queueEnabled /\ direct' = direct /\ sent' = sent
      BY <1>1 DEF SendQueued, history
    <2> QED BY <2>1, <2>2, <2>3, JobKept, StatusBecomes DEF Box!Accept
  <1>2. ASSUME NEW m \in Mails, SendDirect(m) PROVE Box!Accept(m)
    <2>1. /\ ~ queueEnabled /\ direct[m] = "none" /\ job' = job /\ sent' = sent
          /\ direct'[m] = "sending" /\ \A n \in Mails \ {m} : direct'[n] = direct[n]
      BY <1>0, <1>2 DEF SendDirect, history, Shape
    <2>2. Status(m) = "new"
      BY <2>1, StatusValues
    <2>3. Status(m)' = "pending"
      BY <1>0, <2>1, StatusAfter DEF OneWay
    <2>4. \A n \in Mails \ {m} : Status(n)' = Status(n)
      BY <2>1, StatusElsewhere
    <2> QED BY <2>1, <2>2, <2>3, <2>4, StatusBecomes DEF Box!Accept
  <1>3. ASSUME NEW m \in Mails, DirectAnswer(m) PROVE [Box!Take(m)]_(Box!vars)
    <2>1. PICK success \in BOOLEAN :
            /\ Provide(m, success)
            /\ direct' = [direct EXCEPT ![m] = IF success THEN "success" ELSE "error"]
      BY <1>3 DEF DirectAnswer
    <2>2. ~ queueEnabled /\ direct[m] = "sending" /\ job' = job
      BY <1>0, <1>3 DEF DirectAnswer, OneWay
    <2>3. Status(m) = "pending"
      BY <2>2, StatusValues
    <2>4. /\ direct'[m] \in {"success", "error"}
          /\ \A n \in Mails \ {m} : direct'[n] = direct[n]
      BY <1>0, <2>1 DEF Shape
    <2>5. Status(m)' = "pending"
      BY <1>0, <2>2, <2>4, StatusAfter DEF OneWay
    <2>6. \A n \in Mails : Status(n)' = Status(n)
      BY <2>2, <2>3, <2>4, <2>5, StatusElsewhere
    <2> QED BY <2>1, <2>3, <2>6, ProvideKept
  <1>4. ASSUME NEW m \in Mails, DirectReturn(m) PROVE Box!Settle(m)
    <2>1. /\ job' = job /\ sent' = sent /\ \A n \in Mails \ {m} : direct'[n] = direct[n]
          /\ \/ direct[m] = "success" /\ direct'[m] = "sent"
             \/ direct[m] = "error" /\ direct'[m] = "failed"
      BY <1>0, <1>4 DEF DirectReturn, history, Shape
    <2>2. ~ queueEnabled
      BY <1>0, <2>1 DEF OneWay
    <2>3. Status(m) = "pending" /\ \A n \in Mails \ {m} : Status(n)' = Status(n)
      BY <2>1, <2>2, StatusValues, StatusElsewhere
    <2>4. CASE direct[m] = "success" /\ direct'[m] = "sent"
      <3>1. Status(m)' = "sent"
        BY <1>0, <2>1, <2>2, <2>4, StatusAfter DEF OneWay
      <3>2. m \in {n \in Mails : sent[n] > 0}
        BY <1>0, <2>4 DEF OneWay
      <3> QED BY <2>1, <2>3, <3>1, <3>2, StatusBecomes DEF Box!Settle, Box!Succeed
    <2>5. CASE direct[m] = "error" /\ direct'[m] = "failed"
      <3>1. Status(m)' = "failed"
        BY <1>0, <2>1, <2>2, <2>5, StatusAfter DEF OneWay
      <3> QED BY <2>1, <2>3, <3>1, StatusBecomes DEF Box!Settle, Box!GiveUp
    <2> QED BY <2>1, <2>4, <2>5
  <1>5. ASSUME NEW m \in Mails, Promote(m) \/ \E w \in Workers : Take(w, m)
        PROVE UNCHANGED Box!vars
    <2>1. PICK s \in {"waiting", "active"}, v \in Workers \cup {None} :
             Becomes(m, s, v, job[m].made, job[m].stalls)
      BY <1>0, <1>5, PutStep DEF Promote, Take, States
    <2>2. /\ job[m].state \in {"waiting", "active", "delayed"}
          /\ direct' = direct /\ sent' = sent
      BY <1>5 DEF Promote, Take, history
    <2>3. queueEnabled
      BY <1>0, <2>2 DEF OneWay
    <2>4. Status(m) = "pending"
      BY <2>2, <2>3, StatusValues
    <2>5. Status(m)' = "pending" /\ \A n \in Mails \ {m} : Status(n)' = Status(n)
      BY <2>1, <2>2, <2>3, JobKept
    <2>6. \A n \in Mails : Status(n)' = Status(n)
      BY <2>4, <2>5
    <2> QED BY <2>2, <2>6 DEF Box!vars
  <1>6. ASSUME NEW w \in Workers, HandleSendEmail(w)
        PROVE [\E m \in Mails : Box!Take(m)]_(Box!vars)
    <2>m. PICK m \in Mails : m = run[w].mail
      BY <1>0, <1>6 DEF HandleSendEmail, Shape, Runs
    <2>1. PICK success \in BOOLEAN : Provide(m, success)
      BY <1>6, <2>m DEF HandleSendEmail
    <2>2. direct' = direct /\ job' = job /\ run[w] # None
      BY <1>6 DEF HandleSendEmail
    <2>3. queueEnabled /\ job[m].state # "none"
      BY <1>0, <2>m, <2>2 DEF OneWay
    <2>4. Status(m) # "new"
      BY <2>3, StatusValues
    <2>5. \A n \in Mails : Status(n)' = Status(n)
      BY <2>2, StatusElsewhere
    <2> QED BY <2>1, <2>4, <2>5, ProvideKept
  <1>7. ASSUME NEW w \in Workers, Complete(w) PROVE \E m \in Mails : Box!Settle(m)
    <2>m. PICK m \in Mails : m = run[w].mail
      BY <1>0, <1>7 DEF Complete, Shape, Runs
    <2>1. /\ run[w] # None /\ run[w].pc = "success" /\ Holds(w, m)
          /\ Put(m, "completed", None) /\ direct' = direct /\ sent' = sent
      BY <1>7, <2>m DEF Complete, history
    <2>2. Becomes(m, "completed", None, job[m].made, job[m].stalls)
      BY <1>0, <2>1, PutStep DEF States
    <2>3. queueEnabled /\ sent[m] > 0
      BY <1>0, <2>m, <2>1 DEF OneWay
    <2>4. Status(m) = "pending"
      BY <2>1, <2>3, StatusValues DEF Holds
    <2>5. m \in {n \in Mails : sent[n] > 0}
      BY <2>3
    <2> QED BY <2>1, <2>2, <2>3, <2>4, <2>5, JobKept, StatusBecomes DEF Box!Settle, Box!Succeed
  \* A failed attempt, or a stall, leaves the mail pending or gives it up.
  <1>8. ASSUME NEW m \in Mails, NEW s \in {"waiting", "delayed", "failed"},
               NEW made, NEW stalls, Becomes(m, s, None, made, stalls),
               job[m].state = "active", direct' = direct, sent' = sent
        PROVE [Box!Settle(m)]_(Box!vars)
    <2>1. queueEnabled
      BY <1>0, <1>8 DEF OneWay
    <2>2. Status(m) = "pending"
      BY <1>8, <2>1, StatusValues
    <2>3. /\ \A n \in Mails \ {m} : Status(n)' = Status(n)
          /\ {n \in Mails : sent[n] > 0}' = {n \in Mails : sent[n] > 0}
          /\ s \in {"waiting", "active", "delayed"} => Status(m)' = "pending"
          /\ s = "failed" => Status(m)' = "failed"
      BY <1>8, <2>1, JobKept
    <2>4. CASE s = "failed"
      BY <2>2, <2>3, <2>4, StatusBecomes DEF Box!Settle, Box!GiveUp
    <2>5. CASE s # "failed"
      <3>1. \A n \in Mails : Status(n)' = Status(n)
        BY <2>2, <2>3, <2>5
      <3> QED BY <2>3, <3>1 DEF Box!vars
    <2> QED BY <2>4, <2>5
  <1>9. ASSUME NEW w \in Workers, Throw(w) PROVE [\E m \in Mails : Box!Settle(m)]_(Box!vars)
    <2>m. PICK m \in Mails : m = run[w].mail
      BY <1>0, <1>9, ThrowStep
    <2> DEFINE s == IF job[m].made + 1 < Attempts THEN "delayed" ELSE "failed"
    <2>1. /\ Becomes(m, s, None, job[m].made + 1, job[m].stalls) /\ job[m].state = "active"
          /\ direct' = direct /\ sent' = sent
      BY <1>0, <1>9, <2>m, ThrowStep DEF Holds, history
    <2>2. s \in {"waiting", "delayed", "failed"}
      OBVIOUS
    <2> QED BY <1>8, <2>1, <2>2
  <1>10. ASSUME NEW m \in Mails, Stall(m) PROVE [Box!Settle(m)]_(Box!vars)
    <2> DEFINE s == IF job[m].stalls < MaxStalls THEN "waiting" ELSE "failed"
    <2>1. /\ Becomes(m, s, None, job[m].made, job[m].stalls + 1) /\ job[m].state = "active"
          /\ direct' = direct /\ sent' = sent
      BY <1>0, <1>10, StallStep
    <2>2. s \in {"waiting", "delayed", "failed"}
      OBVIOUS
    <2> QED BY <1>8, <2>1, <2>2
  <1>11. ASSUME NEW m \in Mails, RetryFailedJob(m) PROVE Box!Retry(m)
    <2>1. /\ Becomes(m, "waiting", None, job[m].made, job[m].stalls) /\ job[m].state = "failed"
          /\ direct' = direct /\ sent' = sent
      BY <1>0, <1>11, PutStep DEF RetryFailedJob, States
    <2>2. queueEnabled
      BY <1>0, <2>1 DEF OneWay
    <2>3. Status(m) = "failed"
      BY <2>1, <2>2, StatusValues
    <2> QED BY <2>1, <2>2, <2>3, JobKept, StatusBecomes DEF Box!Retry
  <1>12. ASSUME ClearFailedJobs PROVE Box!Clear
    <2>1. /\ direct' = direct /\ sent' = sent
          /\ \A n \in Mails : job'[n].state = IF job[n].state = "failed" THEN "cleared"
                                                                        ELSE job[n].state
      BY <1>0, <1>12, ClearStep DEF history
    <2>2. queueEnabled
      BY <1>0, <1>12 DEF ClearFailedJobs, OneWay
    <2>3. ASSUME NEW n \in Mails
          PROVE Status(n)' = IF Status(n) = "failed" THEN "cleared" ELSE Status(n)
      <3>1. direct[n] = "none" /\ direct'[n] = "none"
        BY <1>0, <2>1, <2>2 DEF OneWay
      <3>2. CASE job[n].state = "failed"
        <4>1. Status(n) = "failed" /\ Status(n)' = "cleared"
          BY <2>1, <2>2, <3>1, <3>2, StatusValues, StatusAfter
        <4> QED BY <4>1
      <3>3. CASE job[n].state # "failed"
        <4>1. job'[n].state = job[n].state
          BY <2>1, <3>3
        <4>2. Status(n)' = Status(n)
          BY <2>1, <4>1 DEF Status
        <4>3. Status(n) # "failed"
          BY <2>2, <3>3, StatusValues
        <4> QED BY <4>2, <4>3
      <3> QED BY <3>2, <3>3
    <2> QED BY <2>1, <2>3 DEF Box!Clear
  <1>13. ASSUME UNCHANGED vars \/ \E w \in Workers : Disowned(w) \/ Crash(w)
         PROVE UNCHANGED Box!vars
    <2>1. job' = job /\ direct' = direct /\ sent' = sent
      BY <1>13 DEF vars, history, Disowned, Crash
    <2>2. \A n \in Mails : Status(n)' = Status(n)
      BY <2>1, StatusElsewhere
    <2> QED BY <2>1, <2>2 DEF Box!vars
  <1> QED BY <1>1, <1>2, <1>3, <1>4, <1>5, <1>6, <1>7, <1>9, <1>10, <1>11, <1>12, <1>13
          DEF Next, WorkerStep, Box!Next

\* Everything the queue does, with its retries, stalls and crashes, and everything the
\* direct mode does, is a step of the mailbox or changes nothing of it: no mail is
\* called sent before the provider took it, none is accepted or settled twice, and a
\* late attempt cannot reopen one that was given up.
THEOREM KeepsMailSafely == Spec => Box!Init /\ [][Box!Next]_(Box!vars)
  <1>1. Init => Box!Init
    BY DEF Init, Box!Init, Status
  <1> QED BY <1>1, MailStep, GoodAlways, PTL DEF Spec

=============================================================================
