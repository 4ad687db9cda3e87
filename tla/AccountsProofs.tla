--------------------------- MODULE AccountsProofs ---------------------------
(* Proofs about Accounts, for any ids, addresses, names, passwords, tokens *)
(* and any number of handlers in flight.                                   *)
EXTENDS Accounts, TLAPS

(***************************************************************************)
(* The inductive invariant.                                                *)
(***************************************************************************)

Shape ==
  /\ row \in [Ids -> User \cup {None}]
  /\ call \in [Calls -> Call \cup {None}]
  /\ used \subseteq Ids
  /\ issued \subseteq Tokens
  /\ posted \subseteq Tokens
  /\ meant \in [Ids -> User \cup {None}]
  /\ stale \subseteq Calls
  /\ overtaken \subseteq Ids
  /\ late \subseteq Calls
  /\ spent \subseteq Tokens

\* The unique indexes.
Distinct ==
  \A u, v \in Ids : row[u] # None /\ row[v] # None /\ u # v =>
    /\ row[u].email # row[v].email
    /\ row[u].name # row[v].name

\* The row of user u holds token t, or a handler that may write it there.
Holds(u, t) ==
  \/ row[u] # None /\ row[u].token = t
  \/ \E c \in Calls : /\ Saving(c) /\ call[c].id = u
                      /\ call[c].entity.token = t \/ (call[c].op = "reset" /\ call[c].token = t)

\* Ids and tokens are drawn once, and a token for one user.
Drawn ==
  /\ \A u \in Ids : row[u] # None => u \in used
  /\ \A c \in Calls : Saving(c) => call[c].id \in used
  /\ \A u \in Ids, t \in Tokens : Holds(u, t) => t \in issued
  /\ \A u, v \in Ids, t \in Tokens : Holds(u, t) /\ Holds(v, t) => u = v
  /\ \A c \in Calls : call[c] # None /\ call[c].pc \in {"name", "create"} =>
       call[c].user.token = None
  /\ \A c \in Calls : Saving(c) /\ call[c].op = "forget" => call[c].token \in Tokens

\* What the handler of locals l does to its row is what the operation is for: the other
\* columns of its entity are those of the row, and so are those the save found equal.
Faithful(l) ==
  /\ l.pc # "insert" /\ row[l.id] # None
  /\ l.entity = Overlay(row[l.id], l.entity, Purpose[l.op])
  /\ l.pc = "update" => l.entity = Overlay(row[l.id], l.entity, l.columns)

Fresh == \A c \in Calls : Saving(c) /\ c \notin stale => Faithful(call[c])

\* A reset clears the token, and leaves it alone only where it is gone.
Clearing(l) ==
  /\ l.token \in Tokens /\ l.entity.token = None
Gone(l) ==
  l.pc = "update" /\ "token" \notin l.columns => row[l.id] = None \/ row[l.id].token # l.token

Clears ==
  \A c \in Calls : Saving(c) /\ call[c].op = "reset" =>
    /\ Clearing(call[c])
    /\ c \notin late => Gone(call[c])

Good == Shape /\ Distinct /\ Drawn /\ Fresh /\ Clears /\ RowIsAsMeant /\ LinkWorksOnce

(***************************************************************************)
(* Types.                                                                  *)
(***************************************************************************)

LEMMA NothingIsNull ==
  None \notin Ids /\ None \notin Tokens /\ None \notin User /\ None \notin Call
  BY NoneAssumption

LEMMA Purposes ==
  /\ DOMAIN Purpose = {"update", "change", "forget", "reset"}
  /\ Purpose["update"] = {"name"} /\ Purpose["change"] = {"password"}
  /\ Purpose["forget"] = {"token"} /\ Purpose["reset"] = {"password", "token"}
  BY DEF Purpose

LEMMA CallTypes ==
  ASSUME NEW l \in Call
  PROVE  /\ l.pc \in {"name", "create", "lookup", "insert", "update", "delete", "mail"}
         /\ l.pc \in {"name", "create"} => l.google \in BOOLEAN /\ l.user \in User
         /\ l.pc \in {"lookup", "insert", "update"} =>
              l.op \in DOMAIN Purpose /\ l.id \in Ids /\ l.entity \in User
                /\ l.token \in Tokens \cup {None}
         /\ l.pc = "update" => l.columns \in SUBSET Columns
         /\ l.pc = "delete" => l.id \in Ids
         /\ l.pc = "mail" => l.token \in Tokens
  BY DEF Call

LEMMA Locals ==
  ASSUME Shape, NEW c \in Calls, call[c] # None
  PROVE  call[c] \in Call
  BY DEF Shape

LEMMA OverlayType ==
  ASSUME NEW user \in User, NEW entity \in User, NEW columns
  PROVE  Overlay(user, entity, columns) \in User
  BY DEF Overlay, User

LEMMA Fields ==
  ASSUME NEW e \in User, NEW f \in User, e.email = f.email, e.name = f.name,
         e.password = f.password, e.token = f.token
  PROVE  e = f
  BY DEF User

LEMMA GoodInit == Init => Good
  <1> SUFFICES ASSUME Init PROVE Good
    OBVIOUS
  <1>1. Shape
    BY NothingIsNull DEF Init, Shape
  <1>2. \A c \in Calls : ~ Saving(c) /\ call[c] = None
    BY DEF Init, Saving
  <1>3. Distinct /\ RowIsAsMeant /\ LinkWorksOnce
    BY DEF Init, Distinct, RowIsAsMeant, LinkWorksOnce
  <1>4. Drawn
    BY <1>2 DEF Init, Drawn, Holds
  <1>5. Fresh /\ Clears
    BY <1>2 DEF Fresh, Clears
  <1> QED BY <1>1, <1>3, <1>4, <1>5 DEF Good

(***************************************************************************)
(* A handler goes on, or ends, and writes nothing.                         *)
(***************************************************************************)

\* A handler that will save nothing, or none.
Idle(l) ==
  \/ l = None
  \/ /\ l \in Call /\ l.pc \in {"name", "create", "delete", "mail"}
     /\ l.pc \in {"name", "create"} => l.user.token = None

LEMMA Retire ==
  ASSUME Good, NEW c \in Calls, NEW l, Idle(l), call' = [call EXCEPT ![c] = l],
         UNCHANGED <<row, used, issued, meant, overtaken, spent>>, posted' \subseteq Tokens,
         stale' = stale \/ stale' = stale \ {c}, late' = late \/ late' = late \ {c}
  PROVE  Good'
  <1>0. Shape /\ Distinct /\ Drawn /\ Fresh /\ Clears /\ RowIsAsMeant /\ LinkWorksOnce
    BY DEF Good
  <1>1. l \in Call \cup {None}
    BY DEF Idle
  <1>2. call'[c] = l /\ \A d \in Calls \ {c} : call'[d] = call[d]
    BY <1>0 DEF Shape
  <1>3. Shape'
    BY <1>0, <1>1 DEF Shape
  <1>4. Distinct' /\ RowIsAsMeant' /\ LinkWorksOnce'
    BY <1>0 DEF Distinct, RowIsAsMeant, LinkWorksOnce, Users
  <1>5. ~ Saving(c)' /\ \A d \in Calls \ {c} : Saving(d)' <=> Saving(d)
    BY <1>2 DEF Saving, Idle
  <1>6. \A u \in Ids, t \in Tokens : Holds(u, t)' => Holds(u, t)
    BY <1>2, <1>5 DEF Holds
  <1>7. Drawn'
    <2>1. \A d \in Calls : Saving(d)' => call'[d].id \in used'
      BY <1>0, <1>2, <1>5 DEF Drawn
    <2>2. \A d \in Calls : call'[d] # None /\ call'[d].pc \in {"name", "create"} =>
            call'[d].user.token = None
      BY <1>0, <1>2 DEF Drawn, Idle
    <2>3. \A d \in Calls : Saving(d)' /\ call'[d].op = "forget" => call'[d].token \in Tokens
      BY <1>0, <1>2, <1>5 DEF Drawn
    <2> QED BY <1>0, <1>6, <2>1, <2>2, <2>3 DEF Drawn
  <1>8. Fresh'
    <2>1. \A d \in Calls : Saving(d)' /\ d \notin stale' => Faithful(call[d])'
      BY <1>0, <1>2, <1>5 DEF Fresh, Faithful
    <2> QED BY <2>1 DEF Fresh
  <1>9. Clears'
    <2>1. \A d \in Calls : Saving(d)' /\ call'[d].op = "reset" => Clearing(call[d])'
      BY <1>0, <1>2, <1>5 DEF Clears, Clearing
    <2>2. \A d \in Calls : Saving(d)' /\ call'[d].op = "reset" /\ d \notin late' => Gone(call[d])'
      BY <1>0, <1>2, <1>5 DEF Clears, Gone
    <2> QED BY <2>1, <2>2 DEF Clears
  <1> QED BY <1>3, <1>4, <1>7, <1>8, <1>9 DEF Good

\* A handler with locals l is about to save an entity.
LEMMA GoesOn ==
  ASSUME Good, NEW c \in Calls, NEW l \in Call, call' = [call EXCEPT ![c] = l],
         UNCHANGED <<row, used, posted, history>>, issued \subseteq issued', issued' \subseteq Tokens,
         l.pc \in {"lookup", "insert", "update"}, l.id \in used,
         \A t \in Tokens : l.entity.token = t \/ (l.op = "reset" /\ l.token = t) =>
           \/ Holds(l.id, t)
           \/ t \in issued' \ issued,
         c \notin stale => Faithful(l),
         l.op = "reset" => Clearing(l), l.op = "forget" => l.token \in Tokens,
         l.op = "reset" /\ c \notin late => Gone(l)
  PROVE  Good'
  <1>0. Shape /\ Distinct /\ Drawn /\ Fresh /\ Clears /\ RowIsAsMeant /\ LinkWorksOnce
    BY DEF Good
  <1>1. l # None /\ call'[c] = l /\ \A d \in Calls \ {c} : call'[d] = call[d]
    BY <1>0, NothingIsNull DEF Shape
  <1>2. UNCHANGED <<row, used, posted, meant, stale, overtaken, late, spent>>
    BY DEF history
  <1>3. Shape'
    BY <1>0, <1>2 DEF Shape
  <1>4. Distinct' /\ RowIsAsMeant' /\ LinkWorksOnce'
    BY <1>0, <1>2 DEF Distinct, RowIsAsMeant, LinkWorksOnce, Users
  <1>5. Saving(c)' /\ \A d \in Calls \ {c} : Saving(d)' <=> Saving(d)
    BY <1>1 DEF Saving
  <1>6. \A u \in Ids, t \in Tokens :
          Holds(u, t)' => Holds(u, t) \/ (u = l.id /\ t \in issued' \ issued)
    BY <1>1, <1>2, <1>5 DEF Holds
  <1>7. Drawn'
    <2>1. \A d \in Calls : Saving(d)' => call'[d].id \in used'
      BY <1>0, <1>1, <1>2, <1>5 DEF Drawn
    <2>2. \A d \in Calls : call'[d] # None /\ call'[d].pc \in {"name", "create"} =>
            call'[d].user.token = None
      BY <1>0, <1>1 DEF Drawn
    <2>3. \A u \in Ids, t \in Tokens : Holds(u, t)' => t \in issued'
      BY <1>0, <1>6 DEF Drawn
    <2>4. ASSUME NEW u \in Ids, NEW v \in Ids, NEW t \in Tokens, Holds(u, t)', Holds(v, t)'
          PROVE  u = v
      <3>1. CASE t \in issued
        BY <1>0, <1>6, <2>4, <3>1 DEF Drawn
      <3>2. CASE t \notin issued
        BY <1>0, <1>6, <2>4, <3>2 DEF Drawn
      <3> QED BY <3>1, <3>2
    <2>5. \A d \in Calls : Saving(d)' /\ call'[d].op = "forget" => call'[d].token \in Tokens
      BY <1>0, <1>1, <1>5 DEF Drawn
    <2> QED BY <1>0, <1>2, <2>1, <2>2, <2>3, <2>4, <2>5 DEF Drawn
  <1>8. Fresh'
    <2>1. c \notin stale => Faithful(call[c])'
      BY <1>1, <1>2 DEF Faithful
    <2>2. \A d \in Calls \ {c} : Saving(d)' /\ d \notin stale' => Faithful(call[d])'
      BY <1>0, <1>1, <1>2, <1>5 DEF Fresh, Faithful
    <2> QED BY <1>2, <2>1, <2>2 DEF Fresh
  <1>9. Clears'
    <2>1. \A d \in Calls : Saving(d)' /\ call'[d].op = "reset" => Clearing(call[d])'
      BY <1>0, <1>1, <1>5 DEF Clears, Clearing
    <2>2. \A d \in Calls : Saving(d)' /\ call'[d].op = "reset" /\ d \notin late' => Gone(call[d])'
      <3>1. \A d \in Calls \ {c} : Saving(d)' /\ call'[d].op = "reset" /\ d \notin late'
                                     => Gone(call[d])'
        BY <1>0, <1>1, <1>2, <1>5 DEF Clears, Gone
      <3>2. call'[c].op = "reset" /\ c \notin late' => Gone(call[c])'
        BY <1>1, <1>2 DEF Gone
      <3> QED BY <3>1, <3>2
    <2> QED BY <2>1, <2>2 DEF Clears
  <1> QED BY <1>3, <1>4, <1>7, <1>8, <1>9 DEF Good

(***************************************************************************)
(* Sign-up.                                                                *)
(***************************************************************************)

LEMMA SigningUp ==
  ASSUME Good, NEW c \in Calls,
         \/ \E e \in Emails, n \in Names, p \in Passwords : SignUp(c, e, n, p) \/ GoogleSignUp(c, e, n, p)
         \/ NameIsFree(c) \/ NextName(c)
  PROVE  Good'
  <1>0. Shape /\ Drawn
    BY DEF Good
  <1>1. \A e \in Emails, n \in Names, p \in Passwords :
          Signee(e, Lower[n], p) \in User /\ Signee(e, Lower[n], p).token = None
    BY LowerAssumption DEF Signee, User
  <1>2. CASE \E e \in Emails, n \in Names, p \in Passwords : SignUp(c, e, n, p) \/ GoogleSignUp(c, e, n, p)
    <2>1. PICK e \in Emails, n \in Names, p \in Passwords : SignUp(c, e, n, p) \/ GoogleSignUp(c, e, n, p)
      BY <1>2
    <2>2. PICK g \in BOOLEAN :
            Begin(c, [pc |-> "name", google |-> g, user |-> Signee(e, Lower[n], p)])
      BY <2>1 DEF SignUp, GoogleSignUp
    <2>3. PICK l \in Call : /\ l = [pc |-> "name", google |-> g, user |-> Signee(e, Lower[n], p)]
      BY <1>1 DEF Call
    <2>4. Idle(l)
      BY <1>1, <2>3 DEF Idle
    <2> QED BY <1>0, <2>2, <2>3, <2>4, Retire DEF Begin, history, Shape
  <1>3. CASE NameIsFree(c)
    <2>1. call[c] \in Call /\ call[c].pc = "name" /\ call[c].user.token = None
      BY <1>0, <1>3, Locals DEF NameIsFree, At, Drawn
    <2>2. call[c] = [pc |-> "name", google |-> call[c].google, user |-> call[c].user]
            /\ call[c].google \in BOOLEAN /\ call[c].user \in User
      BY <2>1 DEF Call
    <2>3. PICK l \in Call : l = [pc |-> "create", google |-> call[c].google, user |-> call[c].user]
      BY <2>2 DEF Call
    <2>4. l = [call[c] EXCEPT !.pc = "create"]
      BY <2>2, <2>3
    <2>5. Idle(l)
      BY <2>1, <2>3 DEF Idle
    <2> QED BY <1>0, <1>3, <2>4, <2>5, Retire DEF NameIsFree, Goto, history, Shape
  <1>4. CASE NextName(c)
    <2>1. call[c] \in Call /\ call[c].pc = "name" /\ call[c].user.token = None
      BY <1>0, <1>4, Locals DEF NextName, At, Drawn
    <2>2. PICK n \in Names : Goto(c, [call[c] EXCEPT !.user.name = Lower[n]])
      BY <1>4 DEF NextName
    <2>3. call[c] = [pc |-> "name", google |-> call[c].google, user |-> call[c].user]
            /\ call[c].google \in BOOLEAN /\ call[c].user \in User
      BY <2>1 DEF Call
    <2>4. PICK w \in User : w = [call[c].user EXCEPT !.name = Lower[n]] /\ w.token = None
      <3>1. PICK x \in User : x = call[c].user /\ x.token = None
        BY <2>1, <2>3
      <3>2. Lower[n] \in Names
        BY LowerAssumption
      <3>3. [x EXCEPT !.name = Lower[n]] \in User /\ [x EXCEPT !.name = Lower[n]].token = None
        BY <3>1, <3>2 DEF User
      <3> QED BY <3>1, <3>3
    <2>5. PICK l \in Call : l = [pc |-> "name", google |-> call[c].google, user |-> w]
      BY <2>3 DEF Call
    <2>6. l = [call[c] EXCEPT !.user.name = Lower[n]]
      BY <2>3, <2>4, <2>5
    <2>7. Idle(l)
      BY <2>4, <2>5 DEF Idle
    <2> QED BY <1>0, <2>2, <2>6, <2>7, Retire DEF Goto, history, Shape
  <1> QED BY <1>2, <1>3, <1>4

LEMMA Inserting ==
  ASSUME Good, NEW c \in Calls, Create(c) \/ CreateFromOAuth(c)
  PROVE  Good'
  <1>0. Shape /\ Distinct /\ Drawn /\ Fresh /\ Clears /\ RowIsAsMeant /\ LinkWorksOnce
    BY DEF Good
  <1>1. call[c] # None /\ call[c].pc = "create"
    BY DEF Create, CreateFromOAuth, At
  <1>2. PICK user \in User : user = call[c].user /\ user.token = None /\ user # None
    BY <1>0, <1>1, Locals, CallTypes, NothingIsNull DEF Drawn
  <1>3. PICK u \in Ids \ used :
          /\ Unique(u, user)
          /\ row' = [row EXCEPT ![u] = user]
          /\ meant' = [meant EXCEPT ![u] = user]
          /\ used' = used \cup {u}
          /\ call' = [call EXCEPT ![c] = None]
          /\ UNCHANGED <<issued, posted, stale, overtaken, late, spent>>
    BY <1>2 DEF Create, CreateFromOAuth, InsertNew, End
  <1>4. row[u] = None /\ \A d \in Calls : Saving(d) => call[d].id # u
    BY <1>0 DEF Drawn
  <1>5. row'[u] = user /\ \A v \in Ids \ {u} : row'[v] = row[v]
    BY <1>0, <1>3 DEF Shape
  <1>6. call'[c] = None /\ \A d \in Calls \ {c} : call'[d] = call[d]
    BY <1>0, <1>3 DEF Shape
  <1>7. ~ Saving(c)' /\ ~ Saving(c) /\ \A d \in Calls \ {c} : Saving(d)' <=> Saving(d)
    BY <1>1, <1>6 DEF Saving
  <1>8. Shape'
    BY <1>0, <1>3 DEF Shape
  <1>9. Distinct'
    <2>1. \A v \in Ids \ {u} : row[v] # None => row[v].email # user.email /\ row[v].name # user.name
      BY <1>3 DEF Unique, Users
    <2> QED BY <1>0, <1>5, <2>1 DEF Distinct
  <1>10. RowIsAsMeant'
    BY <1>0, <1>3 DEF RowIsAsMeant, Shape
  <1>11. LinkWorksOnce'
    <2>1. \A t \in spent : t \in Tokens
      BY <1>0 DEF Shape
    <2>2. \A t \in spent, v \in Ids : row'[v] # None => row'[v].token # t
      BY <1>0, <1>2, <1>5, <2>1, NothingIsNull DEF LinkWorksOnce, Users
    <2> QED BY <1>3, <2>2 DEF LinkWorksOnce, Users
  <1>12. \A v \in Ids, t \in Tokens : Holds(v, t)' => Holds(v, t)
    BY <1>2, <1>5, <1>6, <1>7, NothingIsNull DEF Holds
  <1>13. Drawn'
    <2>1. \A d \in Calls : Saving(d)' => call'[d].id \in used'
      BY <1>0, <1>3, <1>6, <1>7 DEF Drawn
    <2>2. \A d \in Calls : call'[d] # None /\ call'[d].pc \in {"name", "create"} =>
            call'[d].user.token = None
      BY <1>0, <1>6 DEF Drawn
    <2>3. \A v \in Ids : row'[v] # None => v \in used'
      BY <1>0, <1>3, <1>5 DEF Drawn
    <2>4. \A d \in Calls : Saving(d)' /\ call'[d].op = "forget" => call'[d].token \in Tokens
      BY <1>0, <1>6, <1>7 DEF Drawn
    <2> QED BY <1>0, <1>3, <1>12, <2>1, <2>2, <2>3, <2>4 DEF Drawn
  <1>14. \A d \in Calls \ {c} : Saving(d) => call[d].id \in Ids /\ row'[call[d].id] = row[call[d].id]
    BY <1>0, <1>4, <1>5, Locals, CallTypes DEF Saving
  <1>15. Fresh'
    <2>1. \A d \in Calls : Saving(d)' /\ d \notin stale' => Faithful(call[d])'
      BY <1>0, <1>3, <1>6, <1>7, <1>14 DEF Fresh, Faithful
    <2> QED BY <2>1 DEF Fresh
  <1>16. Clears'
    <2>1. \A d \in Calls : Saving(d)' /\ call'[d].op = "reset" => Clearing(call[d])'
      BY <1>0, <1>6, <1>7 DEF Clears, Clearing
    <2>2. \A d \in Calls : Saving(d)' /\ call'[d].op = "reset" /\ d \notin late' => Gone(call[d])'
      BY <1>0, <1>3, <1>6, <1>7, <1>14 DEF Clears, Gone
    <2> QED BY <2>1, <2>2 DEF Clears
  <1> QED BY <1>8, <1>9, <1>10, <1>11, <1>13, <1>15, <1>16 DEF Good

(***************************************************************************)
(* A handler reads a row.                                                  *)
(***************************************************************************)

\* What a handler that just read row u means to write, for an operation op.
LEMMA Reading ==
  ASSUME Good, NEW c \in Calls, NEW u \in Ids, row[u] # None, NEW op \in DOMAIN Purpose,
         NEW e \in User, NEW k \in Tokens \cup {None},
         call' = [call EXCEPT ![c] = [op |-> op, pc |-> "lookup", id |-> u, entity |-> e, token |-> k]],
         UNCHANGED <<row, used, posted, history>>, issued \subseteq issued', issued' \subseteq Tokens,
         e = Overlay(row[u], e, Purpose[op]),
         e.token \in {row[u].token, None} \cup (issued' \ issued),
         op = "reset" => e.token = None /\ k \in Tokens /\ row[u].token = k,
         op = "forget" => k \in Tokens
  PROVE  Good'
  <1>0. Drawn
    BY DEF Good
  <1>1. PICK l \in Call : l = [op |-> op, pc |-> "lookup", id |-> u, entity |-> e, token |-> k]
    BY DEF Call
  <1>2. l.id \in used
    BY <1>0, <1>1 DEF Drawn
  <1>3. Faithful(l)
    BY <1>1 DEF Faithful
  <1>4. \A t \in Tokens : l.entity.token = t \/ (l.op = "reset" /\ l.token = t) =>
          Holds(l.id, t) \/ t \in issued' \ issued
    BY <1>1, NothingIsNull DEF Holds
  <1>5. l.op = "reset" => Clearing(l) /\ Gone(l)
    BY <1>1 DEF Clearing, Gone
  <1> QED BY <1>1, <1>2, <1>3, <1>4, <1>5, GoesOn

LEMMA Editing ==
  ASSUME Good, NEW c \in Calls, NEW u \in Users,
         \/ UpdateProfile(c, u) \/ ForgetPassword(c, u)
         \/ \E p \in Passwords : ChangePassword(c, u, p)
  PROVE  Good'
  <1>0. Shape
    BY DEF Good
  <1>1. u \in Ids /\ row[u] # None /\ row[u] \in User
    BY <1>0 DEF Users, Shape
  <1>2. CASE UpdateProfile(c, u)
    <2>1. PICK n \in Names : Edit(c, "update", u, [row[u] EXCEPT !.name = n], None)
      BY <1>2 DEF UpdateProfile
    <2>2. PICK e \in User : e = [row[u] EXCEPT !.name = n]
      BY <1>1 DEF User
    <2>3. e = Overlay(row[u], e, {"name"}) /\ e.token = row[u].token
      BY <1>1, <2>2 DEF Overlay, User
    <2>4. call' = [call EXCEPT ![c] = [op |-> "update", pc |-> "lookup", id |-> u, entity |-> e,
                                       token |-> None]]
          /\ UNCHANGED <<row, used, issued, posted, history>>
      BY <2>1, <2>2 DEF Edit, Begin
    <2>5. "update" \in DOMAIN Purpose /\ Purpose["update"] = {"name"} /\ issued \subseteq Tokens
      BY <1>0, Purposes DEF Shape
    <2>6. e.token \in {row[u].token, None} \cup (issued' \ issued) /\ None \in Tokens \cup {None}
      BY <2>3
    <2> QED BY <1>1, <2>3, <2>4, <2>5, <2>6, Reading
  <1>3. CASE \E p \in Passwords : ChangePassword(c, u, p)
    <2>1. PICK p \in Passwords : Edit(c, "change", u, [row[u] EXCEPT !.password = p], None)
      BY <1>3 DEF ChangePassword
    <2>2. PICK e \in User : e = [row[u] EXCEPT !.password = p]
      BY <1>1 DEF User
    <2>3. e = Overlay(row[u], e, {"password"}) /\ e.token = row[u].token
      BY <1>1, <2>2 DEF Overlay, User
    <2>4. call' = [call EXCEPT ![c] = [op |-> "change", pc |-> "lookup", id |-> u, entity |-> e,
                                       token |-> None]]
          /\ UNCHANGED <<row, used, issued, posted, history>>
      BY <2>1, <2>2 DEF Edit, Begin
    <2>5. "change" \in DOMAIN Purpose /\ Purpose["change"] = {"password"} /\ issued \subseteq Tokens
      BY <1>0, Purposes DEF Shape
    <2>6. e.token \in {row[u].token, None} \cup (issued' \ issued) /\ None \in Tokens \cup {None}
      BY <2>3
    <2> QED BY <1>1, <2>3, <2>4, <2>5, <2>6, Reading
  <1>4. CASE ForgetPassword(c, u)
    <2>1. PICK t \in Tokens \ issued :
            /\ call' = [call EXCEPT ![c] = [op |-> "forget", pc |-> "lookup", id |-> u,
                         entity |-> [row[u] EXCEPT !.token = t], token |-> t]]
            /\ issued' = issued \cup {t}
            /\ UNCHANGED <<row, used, posted, history>>
      BY <1>4 DEF ForgetPassword
    <2>2. PICK e \in User : e = [row[u] EXCEPT !.token = t]
      BY <1>1 DEF User
    <2>3. e = Overlay(row[u], e, {"token"}) /\ e.token = t
      BY <1>1, <2>2 DEF Overlay, User
    <2>4. call' = [call EXCEPT ![c] = [op |-> "forget", pc |-> "lookup", id |-> u, entity |-> e,
                                       token |-> t]]
          /\ UNCHANGED <<row, used, posted, history>>
      BY <2>1, <2>2
    <2>5. "forget" \in DOMAIN Purpose /\ Purpose["forget"] = {"token"}
      BY Purposes
    <2>6. /\ e.token \in {row[u].token, None} \cup (issued' \ issued) /\ t \in Tokens \cup {None}
          /\ issued \subseteq issued' /\ issued' \subseteq Tokens
      BY <1>0, <2>1, <2>3 DEF Shape
    <2>7. PICK op \in DOMAIN Purpose, k \in Tokens \cup {None} : op = "forget" /\ k = t
      BY <2>5, <2>6
    <2>8. e = Overlay(row[u], e, Purpose[op]) /\ k \in Tokens /\ op # "reset"
      BY <2>3, <2>5, <2>7
    <2>9. call' = [call EXCEPT ![c] = [op |-> op, pc |-> "lookup", id |-> u, entity |-> e,
                                       token |-> k]]
      BY <2>4, <2>7
    <2> QED BY <1>1, <2>4, <2>6, <2>8, <2>9, Reading
  <1> QED BY <1>2, <1>3, <1>4

LEMMA FollowingALink ==
  ASSUME Good, NEW c \in Calls, NEW t \in Tokens, NEW p \in Passwords, ResetPassword(c, t, p)
  PROVE  Good'
  <1>0. Shape
    BY DEF Good
  <1>1. PICK u \in Users : /\ row[u].token = t
                           /\ Edit(c, "reset", u, [row[u] EXCEPT !.password = p, !.token = None], t)
    BY DEF ResetPassword
  <1>2. u \in Ids /\ row[u] # None /\ row[u] \in User
    BY <1>0 DEF Users, Shape
  <1>3. PICK e \in User : e = [row[u] EXCEPT !.password = p, !.token = None]
    BY <1>2 DEF User
  <1>4. e = Overlay(row[u], e, {"password", "token"}) /\ e.token = None
    BY <1>2, <1>3 DEF Overlay, User
  <1>5. call' = [call EXCEPT ![c] = [op |-> "reset", pc |-> "lookup", id |-> u, entity |-> e,
                                     token |-> t]]
        /\ UNCHANGED <<row, used, issued, posted, history>>
    BY <1>1, <1>3 DEF Edit, Begin
  <1>6. "reset" \in DOMAIN Purpose /\ Purpose["reset"] = {"password", "token"} /\ issued \subseteq Tokens
    BY <1>0, Purposes DEF Shape
  <1>7. e.token \in {row[u].token, None} \cup (issued' \ issued) /\ t \in Tokens \cup {None}
    BY <1>4
  <1>8. PICK op \in DOMAIN Purpose, k \in Tokens \cup {None} : op = "reset" /\ k = t
    BY <1>6, <1>7
  <1>9. /\ e = Overlay(row[u], e, Purpose[op]) /\ k \in Tokens /\ op # "forget"
        /\ row[u].token = k
    BY <1>1, <1>4, <1>6, <1>8
  <1>10. call' = [call EXCEPT ![c] = [op |-> op, pc |-> "lookup", id |-> u, entity |-> e,
                                      token |-> k]]
    BY <1>5, <1>8
  <1>11. /\ UNCHANGED <<row, used, posted, history>>
         /\ issued \subseteq issued' /\ issued' \subseteq Tokens
    BY <1>5, <1>6
  <1>12. op = "reset" => e.token = None /\ k \in Tokens /\ row[u].token = k
    BY <1>4, <1>9
  <1>13. op = "forget" => k \in Tokens
    BY <1>9
  <1> QED BY <1>2, <1>7, <1>9, <1>10, <1>11, <1>12, <1>13, Reading


(***************************************************************************)
(* save and remove.                                                        *)
(***************************************************************************)

LEMMA LookingUp ==
  ASSUME Good, NEW c \in Calls, LookUp(c)
  PROVE  Good'
  <1>0. Shape /\ Drawn /\ Fresh /\ Clears
    BY DEF Good
  <1>1. PICK l \in Call : l = call[c] /\ l.pc = "lookup" /\ Saving(c)
    BY <1>0, Locals DEF LookUp, At, Saving
  <1>2. l.op \in DOMAIN Purpose /\ l.id \in Ids /\ l.entity \in User /\ l.token \in Tokens \cup {None}
    BY <1>1, CallTypes
  <1>3. l.id \in used /\ issued \subseteq Tokens
    BY <1>0, <1>1 DEF Drawn, Shape
  <1>4. \A t \in Tokens : l.entity.token = t \/ (l.op = "reset" /\ l.token = t) => Holds(l.id, t)
    BY <1>1 DEF Holds
  <1>5. c \notin stale => Faithful(l)
    BY <1>0, <1>1 DEF Fresh
  <1>6. /\ l.op = "reset" => Clearing(l)
        /\ l.op = "forget" => l.token \in Tokens
    BY <1>0, <1>1 DEF Clears, Drawn
  <1>7. CASE row[l.id] = None
    <2>1. PICK m \in Call : /\ m = [l EXCEPT !.pc = "insert"] /\ m.pc = "insert" /\ m.op = l.op
                            /\ m.id = l.id /\ m.entity = l.entity /\ m.token = l.token
      <3>1. l = [op |-> l.op, pc |-> "lookup", id |-> l.id, entity |-> l.entity, token |-> l.token]
        BY <1>1 DEF Call
      <3>2. PICK m \in Call : m = [op |-> l.op, pc |-> "insert", id |-> l.id, entity |-> l.entity,
                                   token |-> l.token]
        BY <1>2 DEF Call
      <3>3. m = [l EXCEPT !.pc = "insert"]
        BY <3>1, <3>2
      <3> QED BY <3>2, <3>3
    <2>2. c \in stale
      BY <1>5, <1>7 DEF Faithful
    <2>3. (m.op = "reset" => Clearing(m) /\ Gone(m)) /\ (m.op = "forget" => m.token \in Tokens)
      BY <1>6, <2>1 DEF Clearing, Gone
    <2>4. call' = [call EXCEPT ![c] = m] /\ UNCHANGED <<row, used, issued, posted, history>>
      BY <1>1, <1>7, <2>1 DEF LookUp, Goto
    <2>5. \A t \in Tokens : m.entity.token = t \/ (m.op = "reset" /\ m.token = t) => Holds(m.id, t)
      BY <1>4, <2>1
    <2>6. /\ m.pc \in {"lookup", "insert", "update"} /\ m.id \in used
          /\ issued \subseteq issued' /\ issued' \subseteq Tokens
          /\ UNCHANGED <<row, used, posted, history>>
      BY <1>3, <2>1, <2>4
    <2> QED BY <2>2, <2>3, <2>4, <2>5, <2>6, GoesOn
  <1>8. CASE row[l.id] # None
    <2>1. PICK cols \in SUBSET Columns : cols = {k \in Columns : l.entity[k] # row[l.id][k]}
      OBVIOUS
    <2>2. PICK m \in Call : m = [op |-> l.op, pc |-> "update", id |-> l.id, entity |-> l.entity,
                                 token |-> l.token, columns |-> cols]
      BY <1>2, <2>1 DEF Call
    <2>3. call' = [call EXCEPT ![c] = m] /\ UNCHANGED <<row, used, issued, posted, history>>
      BY <1>1, <1>8, <2>1, <2>2 DEF LookUp, Goto
    <2>4. row[l.id] \in User
      BY <1>0, <1>2, <1>8 DEF Shape
    <2>5. /\ "email" \notin cols => l.entity.email = row[l.id].email
          /\ "name" \notin cols => l.entity.name = row[l.id].name
          /\ "password" \notin cols => l.entity.password = row[l.id].password
          /\ "token" \notin cols => l.entity.token = row[l.id].token
      BY <2>1 DEF Columns
    <2>6. l.entity = Overlay(row[l.id], l.entity, cols)
      BY <1>2, <2>4, <2>5, OverlayType, Fields DEF Overlay
    <2>7. c \notin stale => Faithful(m)
      BY <1>5, <2>2, <2>6 DEF Faithful
    <2>8. (m.op = "reset" => Clearing(m) /\ Gone(m)) /\ (m.op = "forget" => m.token \in Tokens)
      BY <1>6, <2>2, <2>5, NothingIsNull DEF Clearing, Gone
    <2> QED BY <1>3, <1>4, <2>2, <2>3, <2>7, <2>8, GoesOn
  <1> QED BY <1>7, <1>8

\* A handler writes user to the row of l, its locals.
LEMMA Writing ==
  ASSUME Good, NEW c \in Calls, NEW l \in Call, l = call[c], Saving(c), NEW user \in User,
         Write(c, user),
         user.token = l.entity.token \/ (row[l.id] # None /\ user.token = row[l.id].token),
         c \notin stale => user = l.entity,
         l.op = "reset" /\ c \notin late => user.token # l.token
  PROVE  Good'
  <1>0. Shape /\ Distinct /\ Drawn /\ Fresh /\ Clears /\ RowIsAsMeant /\ LinkWorksOnce
    BY DEF Good
  <1>1. PICK u \in Ids : u = l.id
    BY CallTypes DEF Saving
  <1>2. l.entity \in User /\ l.op \in DOMAIN Purpose /\ user # None
    BY CallTypes, NothingIsNull DEF Saving
  <1>3. /\ Unique(u, user)
        /\ row' = [row EXCEPT ![u] = user]
        /\ meant' = [meant EXCEPT ![u] = Intended(l)]
        /\ overtaken' = IF c \in stale /\ user # Intended(l) THEN overtaken \cup {u} ELSE overtaken
        /\ stale' = (stale \cup IF user # row[u] THEN Holding(u, c) ELSE {}) \ {c}
        /\ late' = (late \cup UNION {Resetting(t, c) : t \in Puts(u, user)}) \ {c}
        /\ spent' = (spent \cup IF l.op = "reset" /\ c \notin late THEN {l.token} ELSE {})
                      \ Puts(u, user)
        /\ Saved(c)
        /\ UNCHANGED <<used, issued, posted>>
    BY <1>1 DEF Write
  <1>4. PICK m \in Call \cup {None} :
          call' = [call EXCEPT ![c] = m] /\ (m # None => m.pc = "mail")
    <2>1. CASE l.op = "forget"
      <3>1. l.token \in Tokens
        BY <1>0, <2>1 DEF Drawn
      <3> QED BY <1>3, <2>1, <3>1 DEF Saved, Call
    <2>2. CASE l.op # "forget"
      BY <1>3, <2>2 DEF Saved, End
    <2> QED BY <2>1, <2>2
  <1>5. /\ row'[u] = user /\ \A v \in Ids \ {u} : row'[v] = row[v]
        /\ meant'[u] = Intended(l) /\ \A v \in Ids \ {u} : meant'[v] = meant[v]
    BY <1>0, <1>3 DEF Shape
  <1>6. call'[c] = m /\ \A d \in Calls \ {c} : call'[d] = call[d]
    BY <1>0, <1>4 DEF Shape
  <1>7. ~ Saving(c)' /\ \A d \in Calls \ {c} : Saving(d)' <=> Saving(d)
    BY <1>4, <1>6 DEF Saving
  <1>8. Shape'
    <2>1. Intended(l) \in User \cup {None}
      BY <1>0, <1>1, <1>2, OverlayType DEF Intended, Shape
    <2>2. spent' \subseteq Tokens
      <3>1. l.op = "reset" => l.token \in Tokens
        BY <1>0 DEF Clears, Clearing
      <3> QED BY <1>0, <1>3, <3>1 DEF Shape
    <2>3. late' \subseteq Calls /\ stale' \subseteq Calls
      BY <1>0, <1>3 DEF Shape, Holding, Resetting
    <2> QED BY <1>0, <1>3, <1>4, <2>1, <2>2, <2>3 DEF Shape
  <1>9. Distinct'
    <2>1. \A v \in Ids \ {u} : row[v] # None => row[v].email # user.email /\ row[v].name # user.name
      BY <1>3 DEF Unique, Users
    <2> QED BY <1>0, <1>5, <2>1 DEF Distinct
  <1>10. Holds(u, user.token)
    BY <1>1 DEF Holds
  <1>11. \A v \in Ids, t \in Tokens : Holds(v, t)' => Holds(v, t)
    BY <1>5, <1>6, <1>7, <1>10 DEF Holds
  <1>12. Drawn'
    <2>1. \A d \in Calls : Saving(d)' => call'[d].id \in used'
      BY <1>0, <1>3, <1>6, <1>7 DEF Drawn
    <2>2. \A d \in Calls : call'[d] # None /\ call'[d].pc \in {"name", "create"} =>
            call'[d].user.token = None
      BY <1>0, <1>4, <1>6 DEF Drawn
    <2>3. \A v \in Ids : row'[v] # None => v \in used'
      BY <1>0, <1>1, <1>3, <1>5 DEF Drawn
    <2>4. \A d \in Calls : Saving(d)' /\ call'[d].op = "forget" => call'[d].token \in Tokens
      BY <1>0, <1>6, <1>7 DEF Drawn
    <2> QED BY <1>0, <1>3, <1>11, <2>1, <2>2, <2>3, <2>4 DEF Drawn
  <1>13. RowIsAsMeant'
    <2>1. ASSUME u \notin overtaken' PROVE user = Intended(l)
      <3>1. u \notin overtaken /\ (c \in stale => user = Intended(l))
        BY <1>3, <2>1
      <3>2. row[u] = meant[u]
        BY <1>0, <3>1 DEF RowIsAsMeant
      <3>3. CASE c \notin stale
        <4>1. row[u] # None /\ l.entity = Overlay(row[u], l.entity, Purpose[l.op])
          BY <1>0, <1>1, <3>3 DEF Fresh, Faithful
        <4> QED BY <1>1, <3>2, <3>3, <4>1 DEF Intended
      <3> QED BY <3>1, <3>3
    <2>2. \A v \in Ids \ {u} : v \notin overtaken' => v \notin overtaken
      BY <1>3
    <2> QED BY <1>0, <1>5, <2>1, <2>2 DEF RowIsAsMeant
  <1>14. \A d \in Calls \ {c} : Saving(d) => call[d] \in Call /\ call[d].id \in Ids
    BY <1>0, Locals, CallTypes DEF Saving
  <1>15. Fresh'
    <2>1. ASSUME NEW d \in Calls \ {c}, Saving(d), d \notin stale'
          PROVE  d \notin stale /\ row'[call[d].id] = row[call[d].id]
      <3>1. call[d].id = u => user = row[u]
        BY <1>3, <2>1 DEF Holding
      <3> QED BY <1>3, <1>5, <1>14, <2>1, <3>1
    <2>2. \A d \in Calls : Saving(d)' /\ d \notin stale' => Faithful(call[d])'
      BY <1>0, <1>6, <1>7, <2>1 DEF Fresh, Faithful
    <2> QED BY <2>2 DEF Fresh
  <1>16. Clears'
    <2>1. \A d \in Calls : Saving(d)' /\ call'[d].op = "reset" => Clearing(call[d])'
      BY <1>0, <1>6, <1>7 DEF Clears, Clearing
    <2>2. ASSUME NEW d \in Calls \ {c}, Saving(d), call[d].op = "reset", d \notin late',
                 call[d].pc = "update", "token" \notin call[d].columns
          PROVE  row'[call[d].id] = None \/ row'[call[d].id].token # call[d].token
      <3>1. d \notin late /\ call[d].token \in Tokens
        BY <1>0, <1>3, <2>2 DEF Clears, Clearing
      <3>2. row[call[d].id] = None \/ row[call[d].id].token # call[d].token
        BY <1>0, <2>2, <3>1 DEF Clears, Gone
      <3>3. call[d].token \notin Puts(u, user)
        BY <1>3, <2>2 DEF Resetting
      <3>4. CASE call[d].id = u
        BY <1>5, <3>1, <3>2, <3>3, <3>4 DEF Puts
      <3>5. CASE call[d].id # u
        BY <1>5, <1>14, <2>2, <3>2, <3>5
      <3> QED BY <3>4, <3>5
    <2>3. \A d \in Calls : Saving(d)' /\ call'[d].op = "reset" /\ d \notin late' => Gone(call[d])'
      BY <1>6, <1>7, <2>2 DEF Gone
    <2> QED BY <2>1, <2>3 DEF Clears
  <1>17. LinkWorksOnce'
    <2>1. SUFFICES ASSUME NEW t \in spent', NEW v \in Ids, row'[v] # None, row'[v].token = t
                   PROVE  FALSE
      BY DEF LinkWorksOnce, Users
    <2>2. t \in Tokens /\ t \notin Puts(u, user)
      BY <1>3, <1>8 DEF Shape
    <2>3. CASE t \in spent
      BY <1>0, <1>5, <2>1, <2>2, <2>3 DEF LinkWorksOnce, Users, Puts
    <2>4. CASE t \notin spent
      <3>1. l.op = "reset" /\ c \notin late /\ t = l.token
        BY <1>3, <2>4
      <3>2. user.token # t
        BY <3>1
      <3>3. v # u /\ Holds(v, t)
        BY <1>5, <2>1, <3>2 DEF Holds
      <3>4. Holds(u, t)
        BY <1>1, <3>1 DEF Holds
      <3> QED BY <1>0, <2>2, <3>3, <3>4 DEF Drawn
    <2> QED BY <2>3, <2>4
  <1> QED BY <1>8, <1>9, <1>12, <1>13, <1>15, <1>16, <1>17 DEF Good

LEMMA Writes ==
  ASSUME Good, NEW c \in Calls, Update(c) \/ Insert(c)
  PROVE  Good'
  <1>0. Shape /\ Fresh /\ Clears
    BY DEF Good
  <1>1. PICK l \in Call : l = call[c] /\ l.pc \in {"update", "insert"} /\ Saving(c)
    BY <1>0, Locals DEF Update, Insert, At, Saving
  <1>2. l.entity \in User /\ l.id \in Ids
    BY <1>1, CallTypes
  <1>3. /\ l.op = "reset" => Clearing(l)
        /\ l.op = "reset" /\ c \notin late => Gone(l)
        /\ c \notin stale => Faithful(l)
    BY <1>0, <1>1 DEF Fresh, Clears
  <1>4. CASE Update(c)
    <2>1. row[l.id] # None /\ row[l.id] \in User /\ l.pc = "update"
      BY <1>0, <1>1, <1>2, <1>4 DEF Update, Shape, At
    <2>2. PICK user \in User : user = Overlay(row[l.id], l.entity, l.columns)
      BY <1>2, <2>1, OverlayType
    <2>3. Write(c, user)
      BY <1>1, <1>4, <2>2 DEF Update
    <2>4. user.token = IF "token" \in l.columns THEN l.entity.token ELSE row[l.id].token
      BY <2>2 DEF Overlay
    <2>5. c \notin stale => user = l.entity
      BY <1>3, <2>1, <2>2 DEF Faithful
    <2>6. l.op = "reset" /\ c \notin late => user.token # l.token
      BY <1>3, <2>1, <2>4, NothingIsNull DEF Clearing, Gone
    <2> QED BY <1>1, <2>1, <2>3, <2>4, <2>5, <2>6, Writing
  <1>5. CASE Insert(c)
    <2>1. l.pc = "insert" /\ Write(c, l.entity)
      BY <1>1, <1>5 DEF Insert, At
    <2>2. c \in stale
      BY <1>3, <2>1 DEF Faithful
    <2>3. l.op = "reset" => l.entity.token # l.token
      BY <1>3, NothingIsNull DEF Clearing
    <2> QED BY <1>1, <1>2, <2>1, <2>2, <2>3, Writing
  <1> QED BY <1>4, <1>5

LEMMA Deleting ==
  ASSUME Good, NEW c \in Calls, Delete(c)
  PROVE  Good'
  <1>0. Shape /\ Distinct /\ Drawn /\ Fresh /\ Clears /\ RowIsAsMeant /\ LinkWorksOnce
    BY DEF Good
  <1>1. PICK u \in Ids : u = call[c].id
    BY <1>0, Locals, CallTypes DEF Delete, At
  <1>2. /\ call[c] # None /\ call[c].pc = "delete"
        /\ row' = [row EXCEPT ![u] = None]
        /\ meant' = [meant EXCEPT ![u] = None]
        /\ stale' = stale \cup IF row[u] # None THEN Holding(u, c) ELSE {}
        /\ overtaken' = overtaken \ {u}
        /\ call' = [call EXCEPT ![c] = None]
        /\ UNCHANGED <<used, issued, posted, late, spent>>
    BY <1>1 DEF Delete, At, End
  <1>3. /\ row'[u] = None /\ \A v \in Ids \ {u} : row'[v] = row[v]
        /\ meant'[u] = None /\ \A v \in Ids \ {u} : meant'[v] = meant[v]
    BY <1>0, <1>2 DEF Shape
  <1>4. call'[c] = None /\ \A d \in Calls \ {c} : call'[d] = call[d]
    BY <1>0, <1>2 DEF Shape
  <1>5. ~ Saving(c)' /\ \A d \in Calls \ {c} : Saving(d)' <=> Saving(d)
    BY <1>4 DEF Saving
  <1>6. Shape'
    BY <1>0, <1>2 DEF Shape, Holding
  <1>7. Distinct' /\ RowIsAsMeant' /\ LinkWorksOnce'
    BY <1>0, <1>2, <1>3 DEF Distinct, RowIsAsMeant, LinkWorksOnce, Users
  <1>8. \A v \in Ids, t \in Tokens : Holds(v, t)' => Holds(v, t)
    BY <1>3, <1>4, <1>5 DEF Holds
  <1>9. Drawn'
    <2>1. \A d \in Calls : Saving(d)' => call'[d].id \in used'
      BY <1>0, <1>2, <1>4, <1>5 DEF Drawn
    <2>2. \A d \in Calls : call'[d] # None /\ call'[d].pc \in {"name", "create"} =>
            call'[d].user.token = None
      BY <1>0, <1>4 DEF Drawn
    <2>3. \A v \in Ids : row'[v] # None => v \in used'
      BY <1>0, <1>2, <1>3 DEF Drawn
    <2>4. \A d \in Calls : Saving(d)' /\ call'[d].op = "forget" => call'[d].token \in Tokens
      BY <1>0, <1>4, <1>5 DEF Drawn
    <2> QED BY <1>0, <1>2, <1>8, <2>1, <2>2, <2>3, <2>4 DEF Drawn
  <1>10. \A d \in Calls \ {c} : Saving(d) => call[d].id \in Ids
    BY <1>0, Locals, CallTypes DEF Saving
  <1>11. Fresh'
    <2>1. ASSUME NEW d \in Calls \ {c}, Saving(d), d \notin stale'
          PROVE  d \notin stale /\ row'[call[d].id] = row[call[d].id]
      <3>1. call[d].id = u => row[u] = None
        BY <1>2, <2>1 DEF Holding
      <3> QED BY <1>2, <1>3, <1>10, <2>1, <3>1
    <2>2. \A d \in Calls : Saving(d)' /\ d \notin stale' => Faithful(call[d])'
      BY <1>0, <1>4, <1>5, <2>1 DEF Fresh, Faithful
    <2> QED BY <2>2 DEF Fresh
  <1>12. Clears'
    <2>1. \A d \in Calls : Saving(d)' /\ call'[d].op = "reset" => Clearing(call[d])'
      BY <1>0, <1>4, <1>5 DEF Clears, Clearing
    <2>2. \A d \in Calls \ {c} : Saving(d) =>
            row'[call[d].id] = None \/ row'[call[d].id] = row[call[d].id]
      BY <1>3, <1>10
    <2>3. \A d \in Calls : Saving(d)' /\ call'[d].op = "reset" /\ d \notin late' => Gone(call[d])'
      BY <1>0, <1>2, <1>4, <1>5, <2>2 DEF Clears, Gone
    <2> QED BY <2>1, <2>3 DEF Clears
  <1> QED BY <1>6, <1>7, <1>9, <1>11, <1>12 DEF Good

\* The other steps write no row.
LEMMA Others ==
  ASSUME Good, NEW c \in Calls,
         \/ \E u \in Users : Remove(c, u)
         \/ UpdateNothing(c) \/ PostLink(c) \/ Fail(c)
  PROVE  Good'
  <1>0. Shape /\ Drawn
    BY DEF Good
  <1>1. Idle(None)
    BY DEF Idle
  <1>2. CASE \E u \in Users : Remove(c, u)
    <2>1. PICK u \in Ids : Remove(c, u)
      BY <1>2 DEF Users
    <2>2. PICK l \in Call : l = [op |-> "remove", pc |-> "delete", id |-> u]
      BY DEF Call
    <2>3. Idle(l)
      BY <2>2 DEF Idle
    <2> QED BY <1>0, <2>1, <2>2, <2>3, Retire DEF Remove, Begin, history, Shape
  <1>3. CASE UpdateNothing(c)
    <2>1. call[c] \in Call /\ call[c].pc = "update"
      BY <1>0, <1>3, Locals DEF UpdateNothing, At
    <2>2. CASE call[c].op = "forget"
      <3>1. call[c].token \in Tokens
        BY <1>0, <2>1, <2>2, NothingIsNull DEF Drawn, Saving
      <3>2. PICK l \in Call : l = [op |-> "forget", pc |-> "mail", token |-> call[c].token]
        BY <3>1 DEF Call
      <3>3. Idle(l)
        BY <3>2 DEF Idle
      <3> QED BY <1>0, <1>3, <2>2, <3>2, <3>3, Retire DEF UpdateNothing, Saved, Shape
    <2>3. CASE call[c].op # "forget"
      BY <1>0, <1>1, <1>3, <2>3, Retire DEF UpdateNothing, Saved, End, Shape
    <2> QED BY <2>2, <2>3
  <1>4. CASE PostLink(c)
    <2>1. call[c] \in Call /\ call[c].pc = "mail"
      BY <1>0, <1>4, Locals DEF PostLink, At
    <2>2. call[c].token \in Tokens
      BY <2>1, CallTypes
    <2> QED BY <1>0, <1>1, <1>4, <2>2, Retire DEF PostLink, End, history, Shape
  <1>5. CASE Fail(c)
    BY <1>0, <1>1, <1>5, Retire DEF Fail, End, Shape
  <1> QED BY <1>2, <1>3, <1>4, <1>5

LEMMA GoodNext == Good /\ [Next]_vars => Good'
  <1> SUFFICES ASSUME Good, [Next]_vars PROVE Good'
    OBVIOUS
  <1>1. CASE UNCHANGED vars
    BY <1>1 DEF Good, Shape, Distinct, Drawn, Fresh, Clears, RowIsAsMeant, LinkWorksOnce, Users,
                Holds, Saving, Faithful, Clearing, Gone, vars, history
  <1>2. ASSUME Next PROVE Good'
    <2>1. PICK c \in Calls :
            \/ \E e \in Emails, n \in Names, p \in Passwords :
                 SignUp(c, e, n, p) \/ GoogleSignUp(c, e, n, p)
            \/ NameIsFree(c) \/ NextName(c) \/ Create(c) \/ CreateFromOAuth(c)
            \/ \E u \in Users :
                 \/ UpdateProfile(c, u) \/ ForgetPassword(c, u) \/ Remove(c, u)
                 \/ \E p \in Passwords : ChangePassword(c, u, p)
            \/ \E t \in Tokens, p \in Passwords : ResetPassword(c, t, p)
            \/ LookUp(c) \/ Update(c) \/ Insert(c) \/ UpdateNothing(c) \/ Delete(c)
            \/ PostLink(c) \/ Fail(c)
      BY <1>2 DEF Next
    <2> QED BY <2>1, SigningUp, Inserting, Editing, FollowingALink, LookingUp, Writes, Deleting, Others
  <1> QED BY <1>1, <1>2

LEMMA GoodAlways == Spec => []Good
  BY GoodInit, GoodNext, PTL DEF Spec

(***************************************************************************)
(* The theorems.                                                           *)
(***************************************************************************)

\* The table keeps its types, and no two accounts share an address or a username.
THEOREM AccountTypes == Spec => []TypeOK
  <1>1. Good => TypeOK
    BY DEF Good, Shape, Distinct, TypeOK
  <1> QED BY <1>1, GoodAlways, PTL

\* However many handlers overlap, a row that no stale save met holds what the operations
\* on it were for, and a removed account stays removed.
THEOREM RowsAreAsMeant == Spec => []RowIsAsMeant
  <1>1. Good => RowIsAsMeant
    BY DEF Good
  <1> QED BY <1>1, GoodAlways, PTL

\* However many handlers overlap, a token is in no row after a reset by it.
THEOREM LinksWorkOnce == Spec => []LinkWorksOnce
  <1>1. Good => LinkWorksOnce
    BY DEF Good
  <1> QED BY <1>1, GoodAlways, PTL

=============================================================================
