---------------------------- MODULE GoalsProofs -----------------------------
(* Proofs about Goals, for any ids, users, titles and any number of        *)
(* handlers in flight.                                                     *)
EXTENDS Goals, TLAPS

(***************************************************************************)
(* The inductive invariant.                                                *)
(***************************************************************************)

Shape ==
  /\ row \in [Ids -> Goal \cup {None}]
  /\ used \subseteq Ids
  /\ call \in [Calls -> Call \cup {None}]
  /\ heard \in [Ids -> Heard \cup {None}]
  /\ stale \subseteq Calls
  /\ uncertain \subseteq Ids

\* The foreign key.
Parents == \A g \in Goals : row[g].parent \in Goals \cup {None}

\* A handler that has a goal to save, and an event to send of it.
Saving(c) == call[c] # None /\ call[c].pc # "delete"

Drawn ==
  /\ \A g \in Goals : g \in used
  /\ \A c \in Calls : call[c] # None => call[c].id \in used

\* The event is named after what the save did.
Named(l) ==
  /\ l.kind = "USER_COMPLETED_GOAL" <=> l.wrote = <<FALSE, TRUE>>
  /\ l.kind = "USER_UNCHECKED_GOAL" <=> l.wrote = <<TRUE, FALSE>>

\* What the handler of locals l, to whose row nobody else wrote, knows of it.
Knows(l) ==
  CASE l.pc = "create" -> l.kind = "USER_CREATED_GOAL" /\ l.entity.done = FALSE
    [] l.pc = "lookup" -> row[l.id] # None /\ l.kind = KindOf(row[l.id].done, l.entity.done)
    [] l.pc = "insert" -> FALSE
    [] l.pc = "update" ->
         /\ row[l.id] # None /\ l.kind = KindOf(row[l.id].done, l.entity.done)
         /\ "title" \notin l.columns => l.entity.title = row[l.id].title
         /\ "done" \notin l.columns => l.entity.done = row[l.id].done
    [] l.pc = "announce" ->
         /\ row[l.id] # None /\ l.entity.title = row[l.id].title /\ l.entity.done = row[l.id].done
         /\ Named(l)
    [] OTHER -> TRUE

Fresh == \A c \in Calls \ stale : Saving(c) => Knows(call[c])

\* The room has heard what is stored, or somebody is about to tell it something.
Told ==
  \A g \in Goals \ uncertain :
    \/ heard[g] = [title |-> row[g].title, done |-> row[g].done]
    \/ \E c \in Calls : At(c, "announce") /\ call[c].id = g

Good == Shape /\ Parents /\ Drawn /\ Fresh /\ Told

(***************************************************************************)
(* Types and the shape of locals.                                          *)
(***************************************************************************)

LEMMA NothingIsNull == None \notin Ids /\ None \notin Goal /\ None \notin Call
  BY NoneAssumption

LEMMA CallTypes ==
  ASSUME NEW l \in Call
  PROVE  /\ l.id \in Ids /\ l # None
         /\ l.pc \in {"create", "lookup", "insert", "update", "announce", "delete"}
         /\ l.pc # "delete" =>
              /\ l.entity \in Goal /\ l.kind \in Kinds /\ l.columns \in SUBSET Columns
              /\ l.wrote \in BOOLEAN \X BOOLEAN
              /\ l = [pc |-> l.pc, id |-> l.id, entity |-> l.entity, kind |-> l.kind,
                      columns |-> l.columns, wrote |-> l.wrote]
  BY NothingIsNull DEF Call

LEMMA Locals ==
  ASSUME Shape, NEW c \in Calls, call[c] # None
  PROVE  call[c] \in Call
  BY DEF Shape

LEMMA NewLocals ==
  ASSUME NEW pc \in {"create", "lookup", "insert", "update", "announce"}, NEW g \in Ids,
         NEW e \in Goal, NEW k \in Kinds, NEW cols \in SUBSET Columns, NEW w \in BOOLEAN \X BOOLEAN
  PROVE  [pc |-> pc, id |-> g, entity |-> e, kind |-> k, columns |-> cols, wrote |-> w] \in Call
  BY DEF Call

\* Locals of a handler that saves.
Keeping == [pc : {"create", "lookup", "insert", "update", "announce"}, id : Ids, entity : Goal,
            kind : Kinds, columns : SUBSET Columns, wrote : BOOLEAN \X BOOLEAN]

LEMMA KeepingIsACall == \A m \in Keeping : m \in Call /\ m # None
  BY NothingIsNull DEF Call, Keeping

LEMMA KeepingLocals ==
  ASSUME NEW l \in Call, l.pc # "delete"
  PROVE  l \in Keeping
  BY DEF Call, Keeping

LEMMA KindTypes ==
  ASSUME NEW b \in BOOLEAN, NEW a \in BOOLEAN
  PROVE  /\ KindOf(b, a) \in Kinds
         /\ KindOf(b, a) = "USER_COMPLETED_GOAL" <=> <<b, a>> = <<FALSE, TRUE>>
         /\ KindOf(b, a) = "USER_UNCHECKED_GOAL" <=> <<b, a>> = <<TRUE, FALSE>>
  <1>1. CASE b = TRUE /\ a = TRUE
    BY <1>1 DEF KindOf, Kinds
  <1>2. CASE b = TRUE /\ a = FALSE
    BY <1>2 DEF KindOf, Kinds
  <1>3. CASE b = FALSE /\ a = TRUE
    BY <1>3 DEF KindOf, Kinds
  <1>4. CASE b = FALSE /\ a = FALSE
    BY <1>4 DEF KindOf, Kinds
  <1> QED BY <1>1, <1>2, <1>3, <1>4

LEMMA GoodInit == Init => Good
  BY NothingIsNull DEF Init, Good, Shape, Parents, Drawn, Fresh, Told, Goals, Saving

(***************************************************************************)
(* A handler goes on, or ends, and writes nothing.                         *)
(***************************************************************************)

LEMMA GoesOn ==
  ASSUME Good, NEW c \in Calls, NEW l \in Call \cup {None}, call' = [call EXCEPT ![c] = l],
         row' = row, used \subseteq used', used' \subseteq Ids,
         heard' \in [Ids -> Heard \cup {None}], uncertain' \subseteq Ids,
         stale' = stale \/ (stale' = stale \ {c} /\ l = None),
         l # None => l.id \in used',
         l # None /\ l.pc # "delete" /\ c \notin stale => Knows(l),
         \A g \in Goals \ uncertain' :
           \/ heard'[g] = [title |-> row[g].title, done |-> row[g].done]
           \/ \E d \in Calls \ {c} : At(d, "announce") /\ call[d].id = g
  PROVE  Good'
  <1>0. Shape /\ Parents /\ Drawn /\ Fresh /\ Told
    BY DEF Good
  <1>1. call'[c] = l /\ \A d \in Calls \ {c} : call'[d] = call[d]
    BY <1>0 DEF Shape
  <1>2. Shape'
    BY <1>0 DEF Shape
  <1>3. Goals' = Goals
    BY DEF Goals
  <1>4. Parents'
    BY <1>0, <1>3 DEF Parents
  <1>5. Drawn'
    <2>1. \A d \in Calls : call'[d] # None => call'[d].id \in used'
      BY <1>0, <1>1 DEF Drawn
    <2> QED BY <1>0, <1>3, <2>1 DEF Drawn
  <1>6. Fresh'
    <2>1. c \notin stale' /\ Saving(c)' => Knows(call[c])'
      BY <1>1 DEF Saving, Knows
    <2>2. ASSUME NEW d \in Calls \ {c}, d \notin stale', Saving(d)'
          PROVE  Knows(call[d])'
      <3>1. d \notin stale /\ Saving(d)
        BY <1>1, <2>2 DEF Saving
      <3>2. Knows(call[d])
        BY <1>0, <3>1 DEF Fresh
      <3> QED BY <1>1, <3>2 DEF Knows
    <2> QED BY <2>1, <2>2 DEF Fresh
  <1>7. Told'
    <2>1. \A g \in Goals \ uncertain' :
            \/ heard'[g] = [title |-> row'[g].title, done |-> row'[g].done]
            \/ \E d \in Calls : At(d, "announce")' /\ call'[d].id = g
      BY <1>1 DEF At
    <2> QED BY <1>3, <2>1 DEF Told
  <1> QED BY <1>2, <1>4, <1>5, <1>6, <1>7 DEF Good

\* A step that lets a handler go on and touches nothing but its locals.
LEMMA GoesQuietly ==
  ASSUME Good, NEW c \in Calls, NEW l \in Call, call' = [call EXCEPT ![c] = l],
         UNCHANGED <<row, heard, stale, uncertain>>, used \subseteq used', used' \subseteq Ids,
         ~ At(c, "announce"), l.id \in used',
         l.pc # "delete" /\ c \notin stale => Knows(l)
  PROVE  Good'
  <1>0. Shape /\ Told
    BY DEF Good
  <1>1. \A g \in Goals \ uncertain :
          \/ heard[g] = [title |-> row[g].title, done |-> row[g].done]
          \/ \E d \in Calls \ {c} : At(d, "announce") /\ call[d].id = g
    BY <1>0 DEF Told
  <1>2. heard \in [Ids -> Heard \cup {None}] /\ uncertain \subseteq Ids
    BY <1>0 DEF Shape
  <1> QED BY <1>1, <1>2, GoesOn

(***************************************************************************)
(* Handlers begin.                                                         *)
(***************************************************************************)

LEMMA Creating ==
  ASSUME Good, NEW c \in Calls, NEW o \in Users, Create(c, o)
  PROVE  Good'
  <1>0. Shape
    BY DEF Good
  <1>1. PICK g \in Ids \ used, t \in Titles, p \in used \cup {None} :
          /\ call[c] = None
          /\ used' = used \cup {g}
          /\ call' = [call EXCEPT ![c] =
               [pc |-> "create", id |-> g, kind |-> "USER_CREATED_GOAL", columns |-> {},
                entity |-> [owner |-> o, title |-> t, done |-> FALSE, parent |-> p],
                wrote |-> <<FALSE, FALSE>>]]
          /\ UNCHANGED <<row, heard, stale, uncertain>>
    BY DEF Create
  <1>2. PICK e \in Goal : e = [owner |-> o, title |-> t, done |-> FALSE, parent |-> p]
    BY <1>0 DEF Goal, Shape
  <1>3. PICK l \in Call : l = [pc |-> "create", id |-> g, kind |-> "USER_CREATED_GOAL", columns |-> {},
                               entity |-> e, wrote |-> <<FALSE, FALSE>>]
    <2>1. "USER_CREATED_GOAL" \in Kinds /\ <<FALSE, FALSE>> \in BOOLEAN \X BOOLEAN
      BY DEF Kinds
    <2> QED BY <2>1 DEF Call
  <1>4. l.entity = e /\ l.pc = "create" /\ l.kind = "USER_CREATED_GOAL" /\ l.id = g
    BY <1>3
  <1>5. Knows(l)
    BY <1>2, <1>4 DEF Knows
  <1>6. used \subseteq used' /\ used' \subseteq Ids /\ ~ At(c, "announce") /\ l.id \in used'
    BY <1>0, <1>1, <1>4 DEF Shape, At
  <1>7. call' = [call EXCEPT ![c] = l] /\ UNCHANGED <<row, heard, stale, uncertain>>
    BY <1>1, <1>2, <1>3
  <1> QED BY <1>5, <1>6, <1>7, GoesQuietly

LEMMA Editing ==
  ASSUME Good, NEW c \in Calls, NEW g \in Goals, Update(c, g)
  PROVE  Good'
  <1>0. Shape /\ Drawn
    BY DEF Good
  <1>1. g \in Ids /\ row[g] # None /\ row[g] \in Goal /\ g \in used
    BY <1>0 DEF Shape, Drawn, Goals
  <1>2. PICK t \in Titles, d \in BOOLEAN : Edit(c, g, [row[g] EXCEPT !.title = t, !.done = d])
    BY DEF Update
  <1>3. PICK e \in Goal : e = [row[g] EXCEPT !.title = t, !.done = d]
    BY <1>1 DEF Goal
  <1>4. row[g].done \in BOOLEAN /\ e.done \in BOOLEAN
    BY <1>1 DEF Goal
  <1>5. KindOf(row[g].done, e.done) \in Kinds /\ <<FALSE, FALSE>> \in BOOLEAN \X BOOLEAN
    BY <1>4, KindTypes
  <1>6. PICK k \in Kinds : k = KindOf(row[g].done, e.done)
    BY <1>5
  <1>7. PICK l \in Call : l = [pc |-> "lookup", id |-> g, entity |-> e, columns |-> {},
                               kind |-> k, wrote |-> <<FALSE, FALSE>>]
    BY <1>1, <1>5 DEF Call
  <1>8. l.entity = e /\ l.pc = "lookup" /\ l.kind = k /\ l.id = g
    BY <1>7
  <1>9. Knows(l)
    BY <1>1, <1>6, <1>8 DEF Knows
  <1>10. /\ call[c] = None /\ call' = [call EXCEPT ![c] = l]
         /\ UNCHANGED <<row, used, heard, stale, uncertain>>
    BY <1>2, <1>3, <1>6, <1>7 DEF Edit, Begin
  <1>11. used \subseteq used' /\ used' \subseteq Ids /\ ~ At(c, "announce") /\ l.id \in used'
    BY <1>0, <1>1, <1>8, <1>10 DEF Shape, At
  <1> QED BY <1>9, <1>10, <1>11, GoesQuietly

LEMMA Removing ==
  ASSUME Good, NEW c \in Calls, NEW g \in Goals, Remove(c, g)
  PROVE  Good'
  <1>0. Shape /\ Drawn
    BY DEF Good
  <1>1. g \in Ids /\ g \in used
    BY <1>0 DEF Drawn, Goals
  <1>2. PICK l \in Call : l = [pc |-> "delete", id |-> g]
    BY <1>1 DEF Call
  <1>3. /\ call[c] = None /\ call' = [call EXCEPT ![c] = l]
        /\ UNCHANGED <<row, used, heard, stale, uncertain>>
    BY <1>2 DEF Remove, Begin
  <1>4. used \subseteq used' /\ used' \subseteq Ids /\ ~ At(c, "announce") /\ l.id \in used'
          /\ l.pc = "delete"
    BY <1>0, <1>1, <1>2, <1>3 DEF Shape, At
  <1> QED BY <1>3, <1>4, GoesQuietly

(***************************************************************************)
(* save and remove.                                                        *)
(***************************************************************************)

LEMMA LookingUp ==
  ASSUME Good, NEW c \in Calls, LookUp(c)
  PROVE  Good'
  <1>0. Shape /\ Drawn /\ Fresh
    BY DEF Good
  <1>1. PICK l \in Call : l = call[c] /\ l.pc = "lookup" /\ call[c] # None
    BY <1>0, Locals DEF LookUp, At
  <1>2. /\ l.id \in Ids /\ l.entity \in Goal /\ l.kind \in Kinds /\ l.wrote \in BOOLEAN \X BOOLEAN
        /\ l.columns \in SUBSET Columns
        /\ l = [pc |-> "lookup", id |-> l.id, entity |-> l.entity, kind |-> l.kind,
                columns |-> l.columns, wrote |-> l.wrote]
    BY <1>1, CallTypes
  <1>3. l.id \in used /\ used \subseteq Ids /\ ~ At(c, "announce")
    BY <1>0, <1>1 DEF Drawn, Shape, At
  <1>4. c \notin stale => Knows(l)
    BY <1>0, <1>1 DEF Fresh, Saving
  <1>5. UNCHANGED <<row, used, heard, stale, uncertain>>
    BY DEF LookUp
  <1>6. CASE row[l.id] = None
    <2>1. PICK m \in Call : m = [pc |-> "insert", id |-> l.id, entity |-> l.entity, kind |-> l.kind,
                                 columns |-> l.columns, wrote |-> l.wrote]
      BY <1>2 DEF Call
    <2>2. m = [l EXCEPT !.pc = "insert"]
      BY <1>2, <2>1
    <2>3. call' = [call EXCEPT ![c] = m]
      BY <1>1, <1>6, <2>2 DEF LookUp
    <2>4. c \in stale
      BY <1>1, <1>4, <1>6 DEF Knows
    <2>5. m.id \in used
      BY <1>3, <2>1
    <2> QED BY <1>3, <1>5, <2>3, <2>4, <2>5, GoesQuietly
  <1>7. CASE row[l.id] # None
    <2>1. PICK cols \in SUBSET Columns : cols = {k \in Columns : l.entity[k] # row[l.id][k]}
      OBVIOUS
    <2>3. PICK m \in Call : /\ m = [l EXCEPT !.pc = "update", !.columns = cols]
                           /\ m.pc = "update" /\ m.id = l.id /\ m.entity = l.entity
                           /\ m.kind = l.kind /\ m.columns = cols
      <3>1. l \in Keeping
        BY <1>1, KeepingLocals
      <3>2. PICK m \in Keeping : m = [l EXCEPT !.pc = "update", !.columns = cols]
        BY <3>1 DEF Keeping
      <3>3. m.pc = "update" /\ m.id = l.id /\ m.entity = l.entity /\ m.kind = l.kind /\ m.columns = cols
        BY <3>1, <3>2 DEF Keeping
      <3> QED BY <3>2, <3>3, KeepingIsACall
    <2>4. call' = [call EXCEPT ![c] = m]
      BY <1>1, <1>7, <2>1, <2>3 DEF LookUp
    <2>5. /\ "title" \notin cols => l.entity.title = row[l.id].title
          /\ "done" \notin cols => l.entity.done = row[l.id].done
      BY <2>1 DEF Columns
    <2>6. m.id = l.id /\ m.entity = l.entity /\ m.kind = l.kind /\ m.columns = cols /\ m.pc = "update"
      BY <2>3
    <2>7. c \notin stale => l.kind = KindOf(row[l.id].done, l.entity.done)
      BY <1>1, <1>4 DEF Knows
    <2>8. c \notin stale => Knows(m)
      BY <1>7, <2>5, <2>6, <2>7 DEF Knows
    <2> QED BY <1>3, <1>5, <2>4, <2>6, <2>8, GoesQuietly
  <1> QED BY <1>6, <1>7

LEMMA WritingNothing ==
  ASSUME Good, NEW c \in Calls, WriteNothing(c)
  PROVE  Good'
  <1>0. Shape /\ Drawn /\ Fresh
    BY DEF Good
  <1>1. PICK l \in Call : l = call[c] /\ l.pc = "update" /\ call[c] # None
    BY <1>0, Locals DEF WriteNothing, At
  <1>2. /\ l.id \in Ids /\ l.entity \in Goal /\ l.kind \in Kinds /\ l.wrote \in BOOLEAN \X BOOLEAN
        /\ l = [pc |-> "update", id |-> l.id, entity |-> l.entity, kind |-> l.kind,
                columns |-> l.columns, wrote |-> l.wrote]
    BY <1>1, CallTypes
  <1>3. l.id \in used /\ used \subseteq Ids /\ ~ At(c, "announce")
    BY <1>0, <1>1 DEF Drawn, Shape, At
  <1>4. c \in stale
    BY <1>0, <1>1 DEF Fresh, Saving, Knows, WriteNothing
  <1>6. PICK m \in Call : m = [l EXCEPT !.pc = "announce", !.columns = {}] /\ m.id = l.id
    <2>1. l \in Keeping
      BY <1>1, KeepingLocals
    <2>2. PICK m \in Keeping : m = [l EXCEPT !.pc = "announce", !.columns = {}]
      BY <2>1 DEF Keeping
    <2>3. m.id = l.id
      BY <2>1, <2>2 DEF Keeping
    <2> QED BY <2>2, <2>3, KeepingIsACall
  <1>7. call' = [call EXCEPT ![c] = m] /\ UNCHANGED <<row, used, heard, stale, uncertain>>
    BY <1>0, <1>1, <1>6 DEF WriteNothing, Shape
  <1>8. m.id \in used
    BY <1>3, <1>6
  <1> QED BY <1>3, <1>4, <1>7, <1>8, GoesQuietly

\* A handler writes goal to the row of l, its locals.
LEMMA Writing ==
  ASSUME Good, NEW c \in Calls, NEW l \in Call, l = call[c], Saving(c), NEW goal \in Goal,
         NEW before \in BOOLEAN, Write(c, goal, before), goal.parent \in Goals \cup {None},
         c \notin stale => /\ goal.title = l.entity.title /\ goal.done = l.entity.done
                           /\ l.kind = "USER_COMPLETED_GOAL" <=> <<before, goal.done>> = <<FALSE, TRUE>>
                           /\ l.kind = "USER_UNCHECKED_GOAL" <=> <<before, goal.done>> = <<TRUE, FALSE>>
  PROVE  Good'
  <1>0. Shape /\ Parents /\ Drawn /\ Fresh /\ Told
    BY DEF Good
  <1>1. PICK g \in Ids : g = l.id
    BY CallTypes
  <1>2. /\ l.entity \in Goal /\ l.kind \in Kinds /\ goal # None
        /\ l = [pc |-> l.pc, id |-> l.id, entity |-> l.entity, kind |-> l.kind,
                columns |-> l.columns, wrote |-> l.wrote]
    BY CallTypes, NothingIsNull DEF Saving
  <1>3. PICK w \in BOOLEAN \X BOOLEAN : w = <<before, goal.done>>
    BY DEF Goal
  <1>5. PICK m \in Call : /\ m = [l EXCEPT !.pc = "announce", !.columns = {}, !.wrote = w]
                         /\ m.pc = "announce" /\ m.id = l.id /\ m.entity = l.entity
                         /\ m.kind = l.kind /\ m.wrote = w
    <2>0. l.pc # "delete"
      BY DEF Saving
    <2>1. l \in Keeping
      BY <2>0, KeepingLocals
    <2>2. PICK m \in Keeping : m = [l EXCEPT !.pc = "announce", !.columns = {}, !.wrote = w]
      BY <2>1 DEF Keeping
    <2>3. m.pc = "announce" /\ m.id = l.id /\ m.entity = l.entity /\ m.kind = l.kind /\ m.wrote = w
      BY <2>1, <2>2 DEF Keeping
    <2> QED BY <2>2, <2>3, KeepingIsACall
  <1>6. /\ row' = [row EXCEPT ![g] = goal]
        /\ call' = [call EXCEPT ![c] = m]
        /\ stale' = stale \cup IF goal # row[g] THEN Holding({g}, c) ELSE {}
        /\ UNCHANGED <<used, heard, uncertain>>
    BY <1>0, <1>1, <1>3, <1>5 DEF Write, Shape
  <1>7. row'[g] = goal /\ \A h \in Ids \ {g} : row'[h] = row[h]
    BY <1>0, <1>6 DEF Shape
  <1>8. call'[c] = m /\ \A d \in Calls \ {c} : call'[d] = call[d]
    BY <1>0, <1>6 DEF Shape
  <1>9. /\ m # None /\ m.pc = "announce" /\ m.id = g /\ m.entity = l.entity /\ m.kind = l.kind
        /\ m.wrote = w
    BY <1>1, <1>5, NothingIsNull
  <1>10. Shape'
    BY <1>0, <1>6 DEF Shape, Holding
  <1>11. Goals' = Goals \cup {g}
    BY <1>2, <1>7 DEF Goals
  <1>12. Parents'
    BY <1>0, <1>7, <1>11 DEF Parents, Goals
  <1>13. Drawn'
    <2>1. g \in used
      BY <1>0, <1>1 DEF Drawn, Saving
    <2>2. \A d \in Calls : call'[d] # None => call'[d].id \in used
      BY <1>0, <1>8, <1>9, <2>1 DEF Drawn
    <2> QED BY <1>0, <1>6, <1>11, <2>1, <2>2 DEF Drawn
  <1>14. Fresh'
    <2>1. ASSUME c \notin stale' PROVE Knows(call[c])'
      <3>1. c \notin stale
        BY <1>6, <2>1
      <3>2. Named(m)
        BY <1>3, <1>9, <3>1 DEF Named
      <3> QED BY ZenonT(30), <1>2, <1>7, <1>8, <1>9, <3>1, <3>2 DEF Knows, Named
    <2>2. ASSUME NEW d \in Calls \ {c}, d \notin stale', Saving(d)'
          PROVE  Knows(call[d])'
      <3>1. d \notin stale /\ Saving(d) /\ call[d] # None
        BY <1>6, <1>8, <2>2 DEF Saving
      <3>2. call[d].id \in Ids
        BY <1>0, <3>1, Locals, CallTypes
      <3>3. call[d].id = g => goal = row[g]
        BY <1>6, <2>2, <3>1 DEF Holding
      <3>4. row'[call[d].id] = row[call[d].id]
        BY <1>7, <3>2, <3>3
      <3>5. Knows(call[d])
        BY <1>0, <3>1 DEF Fresh
      <3> QED BY <1>8, <3>4, <3>5 DEF Knows
    <2> QED BY <2>1, <2>2 DEF Fresh
  <1>15. Told'
    <2>1. At(c, "announce")' /\ call'[c].id = g
      BY <1>8, <1>9 DEF At
    <2>2. ASSUME NEW h \in Goals, h # g, h \notin uncertain
          PROVE  \/ heard'[h] = [title |-> row'[h].title, done |-> row'[h].done]
                 \/ \E d \in Calls : At(d, "announce")' /\ call'[d].id = h
      <3>1. CASE heard[h] = [title |-> row[h].title, done |-> row[h].done]
        BY <1>6, <1>7, <2>2, <3>1 DEF Goals
      <3>2. CASE \E d \in Calls : At(d, "announce") /\ call[d].id = h
        BY <1>1, <1>8, <2>2, <3>2 DEF At
      <3> QED BY <1>0, <2>2, <3>1, <3>2 DEF Told
    <2> QED BY <1>6, <1>11, <2>1, <2>2 DEF Told
  <1> QED BY <1>10, <1>12, <1>13, <1>14, <1>15 DEF Good

LEMMA Writes ==
  ASSUME Good, NEW c \in Calls, Insert(c) \/ WriteColumns(c)
  PROVE  Good'
  <1>0. Shape /\ Parents /\ Fresh
    BY DEF Good
  <1>1. PICK l \in Call : l = call[c] /\ l.pc \in {"create", "insert", "update"} /\ Saving(c)
    BY <1>0, Locals DEF Insert, WriteColumns, At, Saving
  <1>2. l.id \in Ids /\ l.entity \in Goal /\ l.entity.done \in BOOLEAN
    BY <1>1, CallTypes DEF Goal
  <1>3. c \notin stale => Knows(l)
    BY <1>0, <1>1 DEF Fresh
  <1>4. CASE Insert(c)
    <2>1. l.pc \in {"create", "insert"} /\ l.entity.parent \in Goals \cup {None}
            /\ Write(c, l.entity, FALSE)
      BY <1>1, <1>4 DEF Insert, At
    <2>2. ASSUME c \notin stale
          PROVE  /\ l.kind = "USER_COMPLETED_GOAL" <=> <<FALSE, l.entity.done>> = <<FALSE, TRUE>>
                 /\ l.kind = "USER_UNCHECKED_GOAL" <=> <<FALSE, l.entity.done>> = <<TRUE, FALSE>>
      <3>1. l.kind = "USER_CREATED_GOAL" /\ l.entity.done = FALSE
        BY <1>3, <2>1, <2>2 DEF Knows
      <3> QED BY <3>1
    <2>3. FALSE \in BOOLEAN
      OBVIOUS
    <2> QED BY <1>1, <1>2, <2>1, <2>2, <2>3, Writing
  <1>5. CASE WriteColumns(c)
    <2>1. l.pc = "update" /\ row[l.id] # None /\ row[l.id] \in Goal /\ l.id \in Goals
      BY <1>0, <1>1, <1>2, <1>5 DEF WriteColumns, At, Shape, Goals
    <2>2. PICK goal \in Goal :
            goal = [row[l.id] EXCEPT
                      !.title = IF "title" \in l.columns THEN l.entity.title ELSE @,
                      !.done = IF "done" \in l.columns THEN l.entity.done ELSE @]
      BY <1>2, <2>1 DEF Goal
    <2>3. PICK before \in BOOLEAN : before = row[l.id].done
      BY <2>1 DEF Goal
    <2>4. Write(c, goal, before)
      BY <1>1, <1>5, <2>2, <2>3 DEF WriteColumns
    <2>5. /\ goal.title = IF "title" \in l.columns THEN l.entity.title ELSE row[l.id].title
          /\ goal.done = IF "done" \in l.columns THEN l.entity.done ELSE row[l.id].done
          /\ goal.parent = row[l.id].parent
      BY <2>1, <2>2 DEF Goal
    <2>6. goal.parent \in Goals \cup {None}
      BY <1>0, <2>1, <2>5 DEF Parents
    <2>7. ASSUME c \notin stale
          PROVE  /\ goal.title = l.entity.title /\ goal.done = l.entity.done
                 /\ l.kind = "USER_COMPLETED_GOAL" <=> <<before, goal.done>> = <<FALSE, TRUE>>
                 /\ l.kind = "USER_UNCHECKED_GOAL" <=> <<before, goal.done>> = <<TRUE, FALSE>>
      <3>1. /\ l.kind = KindOf(row[l.id].done, l.entity.done)
            /\ "title" \notin l.columns => l.entity.title = row[l.id].title
            /\ "done" \notin l.columns => l.entity.done = row[l.id].done
        BY <1>3, <2>1, <2>7 DEF Knows
      <3>2. goal.title = l.entity.title /\ goal.done = l.entity.done
        BY <2>5, <3>1
      <3>3. PICK after \in BOOLEAN : after = l.entity.done
        BY <1>2
      <3>4. l.kind = KindOf(before, after) /\ goal.done = after
        BY <2>3, <3>1, <3>2, <3>3
      <3> QED BY <3>2, <3>4, KindTypes
    <2> QED BY <1>1, <2>4, <2>6, <2>7, Writing
  <1> QED BY <1>4, <1>5

LEMMA Deleting ==
  ASSUME Good, NEW c \in Calls, Delete(c)
  PROVE  Good'
  <1>0. Shape /\ Parents /\ Drawn /\ Fresh /\ Told
    BY DEF Good
  <1>1. PICK gone \in SUBSET Ids : gone = Goals \cap Cascade(call[c].id)
    BY DEF Goals
  <1>2. /\ call[c] # None /\ call[c].pc = "delete"
        /\ row' = [g \in Ids |-> IF g \in gone THEN None ELSE row[g]]
        /\ stale' = (stale \cup Holding(gone, c)) \ {c}
        /\ call' = [call EXCEPT ![c] = None]
        /\ UNCHANGED <<used, heard, uncertain>>
    BY <1>1 DEF Delete, At
  <1>3. Goals' = Goals \ gone
    BY <1>1, <1>2 DEF Goals
  <1>4. \A g \in Goals \ gone : row'[g] = row[g]
    BY <1>2 DEF Goals
  <1>5. call'[c] = None /\ \A d \in Calls \ {c} : call'[d] = call[d]
    BY <1>0, <1>2 DEF Shape
  <1>6. Shape'
    BY <1>0, <1>2 DEF Shape, Holding
  <1>7. Parents'
    <2>1. ASSUME NEW g \in Goals \ gone, row[g].parent \in gone PROVE FALSE
      <3>1. row[g].parent \in Cascade(call[c].id)
        BY <1>1, <2>1
      <3>2. g \in Cascade(call[c].id)
        BY <2>1, <3>1 DEF Cascade, Goals
      <3> QED BY <1>1, <2>1, <3>2
    <2> QED BY <1>0, <1>3, <1>4, <2>1 DEF Parents
  <1>8. Drawn'
    <2>1. \A d \in Calls : call'[d] # None => call'[d].id \in used
      BY <1>0, <1>5 DEF Drawn
    <2> QED BY <1>0, <1>2, <1>3, <2>1 DEF Drawn
  <1>9. Fresh'
    <2>1. ASSUME NEW d \in Calls \ {c}, d \notin stale', Saving(d)'
          PROVE  Knows(call[d])'
      <3>1. d \notin stale /\ Saving(d) /\ call[d] # None
        BY <1>2, <1>5, <2>1 DEF Saving
      <3>2. call[d].id \in Ids
        BY <1>0, <3>1, Locals, CallTypes
      <3>3. call[d].id \notin gone
        BY <1>2, <2>1, <3>1 DEF Holding
      <3>4. row'[call[d].id] = row[call[d].id]
        BY <1>2, <3>2, <3>3
      <3>5. Knows(call[d])
        BY <1>0, <3>1 DEF Fresh
      <3> QED BY <1>5, <3>4, <3>5 DEF Knows
    <2> QED BY <1>5, <2>1 DEF Fresh, Saving
  <1>10. Told'
    <2>1. ASSUME NEW h \in Goals \ gone, h \notin uncertain
          PROVE  \/ heard'[h] = [title |-> row'[h].title, done |-> row'[h].done]
                 \/ \E d \in Calls : At(d, "announce")' /\ call'[d].id = h
      <3>1. CASE heard[h] = [title |-> row[h].title, done |-> row[h].done]
        BY <1>2, <1>4, <2>1, <3>1
      <3>2. CASE \E d \in Calls : At(d, "announce") /\ call[d].id = h
        BY <1>2, <1>5, <2>1, <3>2 DEF At
      <3> QED BY <1>0, <2>1, <3>1, <3>2 DEF Told
    <2> QED BY <1>2, <1>3, <2>1 DEF Told
  <1> QED BY <1>6, <1>7, <1>8, <1>9, <1>10 DEF Good

(***************************************************************************)
(* The event.                                                              *)
(***************************************************************************)

LEMMA Telling ==
  ASSUME Good, NEW c \in Calls, Announce(c) \/ Fail(c)
  PROVE  Good'
  <1>0. Shape /\ Fresh /\ Told
    BY DEF Good
  <1>1. PICK l \in Call : l = call[c] /\ call[c] # None
    BY <1>0, Locals DEF Announce, Fail, At
  <1>2. PICK g \in Ids : g = l.id
    BY CallTypes
  <1>3. /\ call' = [call EXCEPT ![c] = None] /\ row' = row /\ used' = used
        /\ stale' = stale \ {c} /\ used \subseteq Ids
    BY <1>0 DEF Announce, Fail, Shape
  <1>4. ASSUME heard' \in [Ids -> Heard \cup {None}], uncertain' \subseteq Ids,
               \A h \in Goals \ uncertain' :
                 \/ heard'[h] = [title |-> row[h].title, done |-> row[h].done]
                 \/ \E d \in Calls \ {c} : At(d, "announce") /\ call[d].id = h
        PROVE  Good'
    BY <1>3, <1>4, GoesOn
  <1>5. CASE Announce(c)
    <2>1. PICK inRoom \in BOOLEAN :
            /\ heard' = IF inRoom
                        THEN [heard EXCEPT ![g] = [title |-> l.entity.title, done |-> l.entity.done]]
                        ELSE heard
            /\ uncertain' = IF inRoom /\ c \notin stale THEN uncertain \ {g} ELSE uncertain \cup {g}
      BY <1>1, <1>2, <1>5 DEF Announce
    <2>2. l.pc = "announce" /\ l.entity \in Goal
      BY <1>1, <1>5, CallTypes DEF Announce, At
    <2>3. heard' \in [Ids -> Heard \cup {None}] /\ uncertain' \subseteq Ids
      <3>1. [title |-> l.entity.title, done |-> l.entity.done] \in Heard
        BY <2>2 DEF Goal, Heard
      <3> QED BY <1>0, <2>1, <3>1 DEF Shape
    <2>4. ASSUME NEW h \in Goals \ uncertain'
          PROVE  \/ heard'[h] = [title |-> row[h].title, done |-> row[h].done]
                 \/ \E d \in Calls \ {c} : At(d, "announce") /\ call[d].id = h
      <3>1. CASE h = g
        <4>1. inRoom /\ c \notin stale
          BY <2>1, <2>4, <3>1
        <4>2. Knows(l)
          BY <1>0, <1>1, <2>2, <4>1 DEF Fresh, Saving
        <4>3. l.entity.title = row[g].title /\ l.entity.done = row[g].done
          BY <1>2, <2>2, <4>2 DEF Knows
        <4> QED BY <1>0, <2>1, <3>1, <4>1, <4>3 DEF Shape
      <3>2. CASE h # g
        <4>1. h \notin uncertain /\ heard'[h] = heard[h]
          BY <1>0, <2>1, <2>4, <3>2 DEF Shape, Goals
        <4> QED BY <1>0, <1>1, <1>2, <2>4, <3>2, <4>1 DEF Told
      <3> QED BY <3>1, <3>2
    <2> QED BY <1>4, <2>3, <2>4
  <1>6. CASE Fail(c)
    <2>1. /\ uncertain' = IF l.pc = "announce" THEN uncertain \cup {g} ELSE uncertain
          /\ heard' = heard
      BY <1>1, <1>2, <1>6 DEF Fail
    <2>2. heard' \in [Ids -> Heard \cup {None}] /\ uncertain' \subseteq Ids
      BY <1>0, <2>1 DEF Shape
    <2>3. ASSUME NEW h \in Goals \ uncertain'
          PROVE  \/ heard'[h] = [title |-> row[h].title, done |-> row[h].done]
                 \/ \E d \in Calls \ {c} : At(d, "announce") /\ call[d].id = h
      BY <1>0, <1>1, <1>2, <2>1, <2>3 DEF Told, At
    <2> QED BY <1>4, <2>2, <2>3
  <1> QED BY <1>5, <1>6

LEMMA GoodNext == Good /\ [Next]_vars => Good'
  <1> SUFFICES ASSUME Good, [Next]_vars PROVE Good'
    OBVIOUS
  <1>1. CASE UNCHANGED vars
    BY <1>1 DEF Good, Shape, Parents, Drawn, Fresh, Told, Goals, Saving, Knows, At, vars
  <1>2. CASE Next
    BY <1>2, Creating, Editing, Removing, LookingUp, WritingNothing, Writes, Deleting, Telling DEF Next
  <1> QED BY <1>1, <1>2

LEMMA GoodAlways == Spec => []Good
  BY GoodInit, GoodNext, PTL DEF Spec

(***************************************************************************)
(* The theorems.                                                           *)
(***************************************************************************)

\* The table keeps its types, and every goal's parent is a goal, whatever is removed
\* while handlers run.
THEOREM GoalTypes == Spec => []TypeOK
  <1>1. Good => TypeOK
    BY DEF Good, Shape, Parents, TypeOK
  <1> QED BY <1>1, GoodAlways, PTL

\* A handler whose row nobody else wrote names its event after what it did.
THEOREM FlipsAreNamed == Spec => []NamedFlips
  <1>1. Good => NamedFlips
    BY DEF Good, Fresh, Saving, Knows, Named, NamedFlips, At
  <1> QED BY <1>1, GoodAlways, PTL

\* Between handlers on a goal, its owner's room has heard what is stored, unless the
\* last event was stale, lost or without a room.
THEOREM FeedsAgree == Spec => []FeedAgrees
  <1>1. Good => FeedAgrees
    BY DEF Good, Told, FeedAgrees, At
  <1> QED BY <1>1, GoodAlways, PTL

=============================================================================
