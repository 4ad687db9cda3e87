------------------------------ MODULE Mailbox -------------------------------
(***************************************************************************)
(* What mail.service.ts promises of a mail: it is pending from the moment  *)
(* send accepts it until its outcome is known; it is only called sent if   *)
(* the provider took it; and its outcome becomes known.                    *)
(***************************************************************************)
CONSTANT Mails

VARIABLES
  status,      \* of each mail: new, pending, sent, failed, or cleared away
  taken        \* the mails the provider took, at least once

vars == <<status, taken>>

Init ==
  /\ status = [m \in Mails |-> "new"]
  /\ taken = {}

Become(m, s) == status' = [status EXCEPT ![m] = s]

Accept(m) == status[m] = "new" /\ Become(m, "pending") /\ UNCHANGED taken

\* An attempt reaches the provider; one that was given up may do so late.
Take(m) == status[m] # "new" /\ taken' = taken \cup {m} /\ UNCHANGED status

Succeed(m) == status[m] = "pending" /\ m \in taken /\ Become(m, "sent") /\ UNCHANGED taken

GiveUp(m) == status[m] = "pending" /\ Become(m, "failed") /\ UNCHANGED taken

Retry(m) == status[m] = "failed" /\ Become(m, "pending") /\ UNCHANGED taken

Clear == /\ status' = [m \in Mails |-> IF status[m] = "failed" THEN "cleared" ELSE status[m]]
         /\ UNCHANGED taken

Settle(m) == Succeed(m) \/ GiveUp(m)

Next == Clear \/ \E m \in Mails : Accept(m) \/ Take(m) \/ Settle(m) \/ Retry(m)

Spec == Init /\ [][Next]_vars /\ \A m \in Mails : WF_vars(Settle(m))
=============================================================================
