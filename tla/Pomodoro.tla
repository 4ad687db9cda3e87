------------------------------ MODULE Pomodoro ------------------------------
(***************************************************************************)
(* What a room's timer promises its participants: the host starts, pauses, *)
(* resumes and resets it, and a focus phase or a break that nobody stops   *)
(* ends.                                                                   *)
(***************************************************************************)
VARIABLE stage

Stages == {"IDLE", "FOCUS", "BREAK", "PAUSED", "GONE"}

Init == stage = "IDLE"

Start      == stage \in {"IDLE", "BREAK"} /\ stage' = "FOCUS"
Pause      == stage = "FOCUS"  /\ stage' = "PAUSED"
Resume     == stage = "PAUSED" /\ stage' = "FOCUS"
Reset      == stage = "PAUSED" /\ stage' = "IDLE"
Delete     == stage # "GONE"   /\ stage' = "GONE"
FocusEnds  == stage = "FOCUS"  /\ stage' = "BREAK"
BreakEnds  == stage = "BREAK"  /\ stage' = "FOCUS"

Next == Start \/ Pause \/ Resume \/ Reset \/ Delete \/ FocusEnds \/ BreakEnds

Spec == /\ Init /\ [][Next]_stage
        /\ WF_stage(FocusEnds) /\ WF_stage(BreakEnds)
=============================================================================
