---------------------------- MODULE MCFocusCredit ---------------------------
(* Small instances of FocusCredit for TLC.                                 *)
EXTENDS FocusCredit, TLC

Symmetry == Permutations(Sessions) \cup Permutations(Handlers)

\* Nothing is claimed of a disputed session, and what is stored or under way of it bears
\* on no other: states that differ in that alone are one.  Its minutes may grow for ever.
View ==
  LET Seen(f) == [s \in Sessions \ disputed |-> f[s]]
      Locals(l) ==
        IF l = None THEN l
        ELSE IF l.pc \in {"load", "credit", "saveRoom", "writeRoom"}
          THEN [l EXCEPT !.todo = @ \ disputed, !.entities = Seen(@)]
        ELSE IF l.pc \in {"close", "report"} /\ l.own \in disputed THEN "leave"
        ELSE l
  IN <<clock, room, Seen(session), [h \in Handlers |-> Locals(handler[h])],
       Seen(minutes), Seen(reports), Seen(focused), Seen(stretches), disputed>>
=============================================================================
