------------------------------ MODULE Accounts ------------------------------
(***************************************************************************)
(* User rows: sign-up, Google sign-in, profile updates, passwords, reset   *)
(* links and removal (users.service.ts, auth.service.ts, their callers).   *)
(*                                                                         *)
(* A handler reads a row, awaits a hash or an upload, and saves the entity *)
(* it read; the ORM's save looks the row up, inserts it if it is gone and  *)
(* otherwise writes the columns that differ.  A member of Calls is one     *)
(* handler in flight; one that is refused writes nothing and is no step.   *)
(*                                                                         *)
(* That a link expires after an hour only makes resets be refused.         *)
(* Left out: columns nothing here decides on, and tokens of signed-in      *)
(* users, which the server neither stores nor looks up.                    *)
(***************************************************************************)
CONSTANTS
  Ids,         \* user ids; randomUUID never draws one twice
  Emails,
  Names,       \* usernames as they are stored
  Lower,       \* toLowerCase
  Passwords,
  Tokens,      \* hashes of reset tokens; randomBytes never draws one twice
  Calls,       \* handlers in flight at the same time
  None         \* null

ASSUME LowerAssumption ==
  /\ Lower \in [Names -> Names]
  /\ \A n \in Names : Lower[Lower[n]] = Lower[n]

VARIABLES
  row,         \* the user table
  call,        \* the locals of each handler
  used,        \* ids that were drawn
  issued,      \* tokens that were drawn
  posted,      \* tokens whose link was handed to the mail service
  meant,       \* history: the table, had every operation done just what it is for
  stale,       \* history: calls whose row another call wrote since they read it
  overtaken,   \* history: users to whose row a stale save did more than it was for
  late,        \* history: resets whose token was written to a row since they looked it up
  spent        \* history: tokens by which a reset that was not late was done, unless
               \* they were written again

history == <<meant, stale, overtaken, late, spent>>
vars == <<row, call, used, issued, posted, history>>

User == [email : Emails, name : Names, password : Passwords, token : Tokens \cup {None}]

Columns == {"email", "name", "password", "token"}

\* The columns an operation means to change.
Purpose == [update |-> {"name"}, change |-> {"password"}, forget |-> {"token"},
            reset |-> {"password", "token"}]

\* entity: the user as the handler will save it.  token: the one a link was made of or
\* presented.  columns: those the save found to differ.
Call == [pc : {"name", "create"}, google : BOOLEAN, user : User]
        \cup [op : DOMAIN Purpose, pc : {"lookup", "insert"}, id : Ids, entity : User,
              token : Tokens \cup {None}]
        \cup [op : DOMAIN Purpose, pc : {"update"}, id : Ids, entity : User,
              token : Tokens \cup {None}, columns : SUBSET Columns]
        \cup [op : {"remove"}, pc : {"delete"}, id : Ids]
        \cup [op : {"forget"}, pc : {"mail"}, token : Tokens]

ASSUME NoneAssumption == None \notin Ids \cup Tokens \cup User \cup Call

TypeOK ==
  /\ row \in [Ids -> User \cup {None}]
  /\ call \in [Calls -> Call \cup {None}]
  /\ used \subseteq Ids
  /\ issued \subseteq Tokens
  /\ posted \subseteq Tokens
  /\ meant \in [Ids -> User \cup {None}]
  /\ stale \subseteq Calls
  /\ overtaken \subseteq Ids
  /\ late \subseteq Calls
  /\ spent \subseteq Tokens
  /\ \A u, v \in Ids : row[u] # None /\ row[v] # None /\ u # v =>
       /\ row[u].email # row[v].email
       /\ row[u].name # row[v].name

Init ==
  /\ row = [u \in Ids |-> None]
  /\ call = [c \in Calls |-> None]
  /\ used = {}
  /\ issued = {}
  /\ posted = {}
  /\ meant = [u \in Ids |-> None]
  /\ stale = {}
  /\ overtaken = {}
  /\ late = {}
  /\ spent = {}

Users == {u \in Ids : row[u] # None}

EmailTaken(e) == \E u \in Users : row[u].email = e

\* findOneByUsername
NameTaken(n) == \E u \in Users : row[u].name = Lower[n]

At(c, pc) == call[c] # None /\ call[c].pc = pc

Begin(c, locals) ==
  /\ call[c] = None
  /\ call' = [call EXCEPT ![c] = locals]
  /\ UNCHANGED <<row, used, issued, posted, history>>

Goto(c, locals) ==
  /\ call' = [call EXCEPT ![c] = locals]
  /\ UNCHANGED <<row, used, issued, posted, history>>

End(c) == call' = [call EXCEPT ![c] = None]

-----------------------------------------------------------------------------
(* Sign-up: AuthService.signup, UsersService.create, validateGoogleUser.   *)

Signee(e, n, p) == [email |-> e, name |-> n, password |-> p, token |-> None]

\* create, past its test of the e-mail.
SignUp(c, e, n, p) ==
  /\ ~ EmailTaken(e)
  /\ Begin(c, [pc |-> "name", google |-> FALSE,
               user |-> Signee(e, Lower[n], p)])

\* validateGoogleUser for an address without an account.
GoogleSignUp(c, e, n, p) ==
  /\ ~ EmailTaken(e)
  /\ Begin(c, [pc |-> "name", google |-> TRUE,
               user |-> Signee(e, Lower[n], p)])

NameIsFree(c) ==
  /\ At(c, "name")
  /\ ~ NameTaken(call[c].user.name)
  /\ Goto(c, [call[c] EXCEPT !.pc = "create"])

\* The loop of validateGoogleUser tries the next name.
NextName(c) ==
  /\ At(c, "name")
  /\ call[c].google
  /\ NameTaken(call[c].user.name)
  /\ \E n \in Names : Goto(c, [call[c] EXCEPT !.user.name = Lower[n]])

\* Mutant: there are no unique indexes.
UniqueAlways(u, user) == TRUE

\* The unique indexes let this row in.
Unique(u, user) ==
  \A v \in Users \ {u} : row[v].email # user.email /\ row[v].name # user.name

InsertNew(c) ==
  /\ \E u \in Ids \ used :
       /\ Unique(u, call[c].user)
       /\ row' = [row EXCEPT ![u] = call[c].user]
       /\ meant' = [meant EXCEPT ![u] = call[c].user]
       /\ used' = used \cup {u}
  /\ End(c)
  /\ UNCHANGED <<issued, posted, stale, overtaken, late, spent>>

\* After the upload of the avatar, if there is one.
Create(c) == At(c, "create") /\ ~ call[c].google /\ InsertNew(c)

\* createFromOAuth, which tests neither e-mail nor name again.
CreateFromOAuth(c) == At(c, "create") /\ call[c].google /\ InsertNew(c)

-----------------------------------------------------------------------------
(* Handlers that read a row and save it.                                   *)

Edit(c, op, u, entity, t) ==
  Begin(c, [op |-> op, pc |-> "lookup", id |-> u, entity |-> entity, token |-> t])

\* Mutant: the entity is made from the body, and what it lacks is null.
UpdateProfileBlank(c, u) ==
  \E n \in Names : Edit(c, "update", u, [row[u] EXCEPT !.name = n, !.token = None], None)

\* update: of the columns it takes, only the username is compared anywhere.
UpdateProfile(c, u) ==
  \E n \in Names : Edit(c, "update", u, [row[u] EXCEPT !.name = n], None)

\* changePassword, past the test of the current one.
ChangePassword(c, u, p) == Edit(c, "change", u, [row[u] EXCEPT !.password = p], None)

ForgetPassword(c, u) ==
  \E t \in Tokens \ issued :
    /\ call[c] = None
    /\ call' = [call EXCEPT ![c] = [op |-> "forget", pc |-> "lookup", id |-> u,
                 entity |-> [row[u] EXCEPT !.token = t], token |-> t]]
    /\ issued' = issued \cup {t}
    /\ UNCHANGED <<row, used, posted, history>>

\* Mutant: the token is not cleared.
ResetKeepsToken(c, t, p) ==
  /\ t \in posted
  /\ \E u \in Users :
       /\ row[u].token = t
       /\ Edit(c, "reset", u, [row[u] EXCEPT !.password = p], t)

\* Somebody follows a link that was posted.
ResetPassword(c, t, p) ==
  /\ t \in posted
  /\ \E u \in Users :
       /\ row[u].token = t
       /\ Edit(c, "reset", u, [row[u] EXCEPT !.password = p, !.token = None], t)

Remove(c, u) == Begin(c, [op |-> "remove", pc |-> "delete", id |-> u])

-----------------------------------------------------------------------------
(* save and remove.                                                        *)

LookUp(c) ==
  /\ At(c, "lookup")
  /\ LET l == call[c] IN
     IF row[l.id] = None
     THEN Goto(c, [l EXCEPT !.pc = "insert"])
     ELSE Goto(c, [op |-> l.op, pc |-> "update", id |-> l.id, entity |-> l.entity,
                   token |-> l.token,
                   columns |-> {k \in Columns : l.entity[k] # row[l.id][k]}])

Overlay(user, entity, columns) ==
  [email    |-> IF "email" \in columns THEN entity.email ELSE user.email,
   name     |-> IF "name" \in columns THEN entity.name ELSE user.name,
   password |-> IF "password" \in columns THEN entity.password ELSE user.password,
   token    |-> IF "token" \in columns THEN entity.token ELSE user.token]

Saving(c) == call[c] # None /\ call[c].pc \in {"lookup", "insert", "update"}

\* History: the calls that hold what they read of this row, and the resets by a token.
Holding(u, c) == {d \in Calls \ {c} : Saving(d) /\ call[d].id = u}

Resetting(t, c) == {d \in Calls \ {c} : Saving(d) /\ call[d].op = "reset" /\ call[d].token = t}

\* The token this save puts where it was not.
Puts(u, user) == {t \in Tokens : user.token = t /\ (row[u] = None \/ row[u].token # t)}

\* What a save is for, on the table as it was meant to be.
Intended(l) ==
  IF meant[l.id] = None THEN None ELSE Overlay(meant[l.id], l.entity, Purpose[l.op])

\* A link is posted after its token was saved.
Saved(c) ==
  IF call[c].op = "forget"
  THEN call' = [call EXCEPT ![c] = [op |-> "forget", pc |-> "mail", token |-> call[c].token]]
  ELSE End(c)

Write(c, user) ==
  LET l == call[c] IN
  /\ Unique(l.id, user)
  /\ row' = [row EXCEPT ![l.id] = user]
  /\ meant' = [meant EXCEPT ![l.id] = Intended(l)]
  /\ overtaken' = IF c \in stale /\ user # Intended(l) THEN overtaken \cup {l.id} ELSE overtaken
  /\ stale' = (stale \cup IF user # row[l.id] THEN Holding(l.id, c) ELSE {}) \ {c}
  /\ late' = (late \cup UNION {Resetting(t, c) : t \in Puts(l.id, user)}) \ {c}
  /\ spent' = (spent \cup IF l.op = "reset" /\ c \notin late THEN {l.token} ELSE {})
                \ Puts(l.id, user)
  /\ Saved(c)
  /\ UNCHANGED <<used, issued, posted>>

Update(c) ==
  /\ At(c, "update")
  /\ row[call[c].id] # None
  /\ Write(c, Overlay(row[call[c].id], call[c].entity, call[c].columns))

\* The row was gone when the save looked it up.
Insert(c) ==
  /\ At(c, "insert")
  /\ row[call[c].id] = None
  /\ Write(c, call[c].entity)

\* The row was removed after the save looked it up: the update affects no row.
UpdateNothing(c) ==
  /\ At(c, "update")
  /\ row[call[c].id] = None
  /\ stale' = stale \ {c}
  /\ late' = late \ {c}
  /\ Saved(c)
  /\ UNCHANGED <<row, used, issued, posted, meant, overtaken, spent>>

Delete(c) ==
  /\ At(c, "delete")
  /\ LET u == call[c].id IN
     /\ row' = [row EXCEPT ![u] = None]
     /\ meant' = [meant EXCEPT ![u] = None]
     /\ stale' = stale \cup IF row[u] # None THEN Holding(u, c) ELSE {}
     /\ overtaken' = overtaken \ {u}
  /\ End(c)
  /\ UNCHANGED <<used, issued, posted, late, spent>>

-----------------------------------------------------------------------------
(* The mail service takes the link; an await rejects.                      *)

PostLink(c) ==
  /\ At(c, "mail")
  /\ posted' = posted \cup {call[c].token}
  /\ End(c)
  /\ UNCHANGED <<row, used, issued, history>>

\* A hash, an upload, a statement (a unique index among them) or the queue rejects.
Fail(c) ==
  /\ call[c] # None
  /\ stale' = stale \ {c}
  /\ late' = late \ {c}
  /\ End(c)
  /\ UNCHANGED <<row, used, issued, posted, meant, overtaken, spent>>

Next ==
  \/ \E c \in Calls :
       \/ \E e \in Emails, n \in Names, p \in Passwords :
            SignUp(c, e, n, p) \/ GoogleSignUp(c, e, n, p)
       \/ NameIsFree(c) \/ NextName(c) \/ Create(c) \/ CreateFromOAuth(c)
       \/ \E u \in Users :
            \/ UpdateProfile(c, u) \/ ForgetPassword(c, u) \/ Remove(c, u)
            \/ \E p \in Passwords : ChangePassword(c, u, p)
       \/ \E t \in Tokens, p \in Passwords : ResetPassword(c, t, p)
       \/ LookUp(c) \/ Update(c) \/ Insert(c) \/ UpdateNothing(c) \/ Delete(c)
       \/ PostLink(c) \/ Fail(c)

Spec == Init /\ [][Next]_vars

-----------------------------------------------------------------------------
(* Properties.                                                             *)

\* Whatever handlers overlap, a row holds what the last operations on it were
\* for, and a removed account is gone, unless a handler saved a row that
\* another one had written since it was read.
RowIsAsMeant == \A u \in Ids \ overtaken : row[u] = meant[u]

\* A link works once: no row holds a token after a reset by it, whatever ran beside
\* the reset, until a stale save writes the token again.  A reset that is late,
\* whose token came back after it had looked it up, need not clear it again.
LinkWorksOnce == \A t \in spent : \A u \in Users : row[u].token # t
=============================================================================
