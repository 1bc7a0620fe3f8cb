-------------------------- MODULE RegistrationProofs --------------------------
(***************************************************************************)
(* Facts about any number of clients that register, log in and use the     *)
(* service at once, whatever fails: an email has one user, a registration  *)
(* stores both of its rows or none, and a token is only given to who gave  *)
(* the password of the email's one user; and of reports of usage: those of *)
(* adjacent windows part the traces of the whole, and their rows account   *)
(* for their totals.                                                       *)
(*                                                                         *)
(* The invariant ties a handler's pc to the rows of its transaction        *)
(* (Flushed), says that no two rows, committed or flushed, share an email  *)
(* (Distinct), and that a row is its request's input (Made).  UInv and     *)
(* LedgerInv add what the queries of a report found.                       *)
(***************************************************************************)
EXTENDS Observability, FiniteSetTheorems, WellFoundedInduction, TLAPS

Phases ==
    {"idle", "existing", "organization", "user", "commit", "refresh", "login", "done", "lost",
     "trace", "store", "refuse", "overview", "breakdown", "features", "thread"}

Typed ==
    /\ users \subseteq User
    /\ tx \in [Requests -> [organizations : SUBSET Requests, users : SUBSET User]]
    /\ handler \in [Requests -> [pc : Phases, email : Emails \cup {None},
                                 password : Passwords \cup {None}]]
    /\ DOMAIN told = Requests

\* What a handler's transaction holds.
Flushed ==
    \A r \in Requests :
       tx[r] = CASE handler[r].pc = "user" -> [organizations |-> {r}, users |-> {}]
                 [] handler[r].pc = "commit" -> [organizations |-> {r}, users |-> {NewUser(r)}]
                 [] OTHER -> NoRows

Given ==
    \A r \in Requests :
       handler[r].pc \in {"existing", "organization", "user", "commit"} =>
          handler[r].email \in Emails /\ handler[r].password \in Passwords

Distinct ==
    /\ OneUserPerEmail
    /\ \A r \in Requests : handler[r].pc = "commit" =>
          /\ WithEmail(handler[r].email) = {}
          /\ \A q \in Requests : handler[q].pc = "commit" /\ handler[q].email = handler[r].email => q = r

Made ==
    /\ \A u \in users :
          u \in Founders \/ (u.id \in Requests /\ u = NewUser(u.id)
                              /\ handler[u.id].pc \in {"refresh", "done", "lost"})
    /\ \A r \in Requests : handler[r].pc = "refresh" => NewUser(r) \in users

Answered ==
    \A r \in Requests : told[r].token # None => handler[r].pc = "done"

RInv == Typed /\ Flushed /\ Given /\ Distinct /\ Made /\ Answered /\ OrganizationsOwned /\ TokensHold

------------------------------------------------------------------------------
(* Steps that store nothing *)

\* One handler goes on.
LEMMA OneGoes ==
    ASSUME Typed, NEW r \in Requests, NEW pc \in Phases, Goto(r, pc)
    PROVE  /\ handler' \in [Requests -> [pc : Phases, email : Emails \cup {None},
                                         password : Passwords \cup {None}]]
           /\ \A q \in Requests \ {r} : handler'[q] = handler[q]
           /\ handler'[r].pc = pc
           /\ \A q \in Requests : handler'[q].email = handler[q].email
                                  /\ handler'[q].password = handler[q].password
BY DEF Typed, Goto

\* No handler is given a token, and no user is added that has the email of one
\* that was.
LEMMA TokensKeep ==
    ASSUME TokensHold, users \subseteq users',
           \A q \in Requests : told'[q].token # None =>
              /\ told'[q] = told[q]
              /\ handler'[q].email = handler[q].email /\ handler'[q].password = handler[q].password
              /\ \A u \in users' \ users : u.email # handler[q].email
    PROVE  TokensHold'
<1> SUFFICES ASSUME NEW q \in Requests, told'[q].token # None
             PROVE  \E u \in users' :
                       /\ told'[q].token = TokenOf(u)
                       /\ {v \in users' : v.email = handler'[q].email} = {u}
                       /\ handler'[q].password = u.password
  BY DEF TokensHold, TokenOf, WithEmail
<1>1. /\ told'[q] = told[q]
      /\ handler'[q].email = handler[q].email /\ handler'[q].password = handler[q].password
      /\ \A u \in users' \ users : u.email # handler[q].email
  OBVIOUS
<1>2. PICK u \in users :
         /\ told[q].token = TokenOf(u)
         /\ {v \in users : v.email = handler[q].email} = {u}
         /\ handler[q].password = u.password
  BY <1>1 DEF TokensHold, WithEmail
<1>3. {v \in users' : v.email = handler'[q].email} = {v \in users : v.email = handler[q].email}
  BY <1>1
<1>4. QED BY <1>1, <1>2, <1>3

\* A response without a token ends the handler.
LEMMA AnswerKeeps ==
    ASSUME RInv, NEW r \in Requests, NEW code, Answer(r, code, None),
           UNCHANGED <<organizations, users>>
    PROVE  RInv'
<1>1. Goto(r, "done")
  BY DEF Answer
<1>2. /\ handler' \in [Requests -> [pc : Phases, email : Emails \cup {None},
                                    password : Passwords \cup {None}]]
      /\ \A q \in Requests \ {r} : handler'[q] = handler[q]
      /\ handler'[r].pc = "done"
      /\ \A q \in Requests : handler'[q].email = handler[q].email
                             /\ handler'[q].password = handler[q].password
  BY <1>1, OneGoes DEF RInv, Phases
<1>3. /\ DOMAIN told' = Requests
      /\ told'[r].token = None
      /\ \A q \in Requests \ {r} : told'[q] = told[q]
  BY DEF Answer, RInv, Typed
<1>4. /\ tx' \in [Requests -> [organizations : SUBSET Requests, users : SUBSET User]]
      /\ tx'[r] = NoRows
      /\ \A q \in Requests \ {r} : tx'[q] = tx[q]
  BY DEF Answer, RInv, Typed, NoRows
<1>5. \A q \in Requests : NewUser(q)' = NewUser(q)
  BY <1>2 DEF NewUser
<1>6. Typed'
  BY <1>2, <1>3, <1>4 DEF RInv, Typed
<1>7. Flushed'
  BY <1>2, <1>4, <1>5 DEF RInv, Flushed
<1>8. Given'
  BY <1>2 DEF RInv, Given
<1>9. Distinct'
  BY <1>2 DEF RInv, Distinct, OneUserPerEmail, WithEmail
<1>10. Made'
  BY <1>2, <1>5 DEF RInv, Made
<1>11. Answered'
  BY <1>2, <1>3 DEF RInv, Answered
<1>12. OrganizationsOwned'
  BY DEF RInv, OrganizationsOwned
<1>13. TokensHold'
  BY <1>2, <1>3, TokensKeep DEF RInv
<1>14. QED BY <1>6, <1>7, <1>8, <1>9, <1>10, <1>11, <1>12, <1>13 DEF RInv

\* A handler that has flushed nothing goes on without flushing.
Quiet == Phases \ {"user", "commit", "refresh", "done", "lost"}

LEMMA GoKeeps ==
    ASSUME RInv, NEW r \in Requests, NEW pc \in Quiet \ {"existing", "organization"}, Goto(r, pc),
           handler[r].pc \in Quiet, UNCHANGED <<organizations, users, tx, told>>
    PROVE  RInv'
<1>1. /\ handler' \in [Requests -> [pc : Phases, email : Emails \cup {None},
                                    password : Passwords \cup {None}]]
      /\ \A q \in Requests \ {r} : handler'[q] = handler[q]
      /\ handler'[r].pc = pc
      /\ \A q \in Requests : handler'[q].email = handler[q].email
                             /\ handler'[q].password = handler[q].password
  BY OneGoes DEF RInv, Quiet
<1>2. \A q \in Requests : NewUser(q)' = NewUser(q)
  BY <1>1 DEF NewUser
<1>3. Typed'
  BY <1>1 DEF RInv, Typed
<1>4. Flushed'
  BY <1>1, <1>2 DEF RInv, Flushed, Quiet
<1>5. Given'
  BY <1>1 DEF RInv, Given, Quiet
<1>6. Distinct'
  BY <1>1 DEF RInv, Distinct, OneUserPerEmail, WithEmail, Quiet
<1>7. Made'
  BY <1>1, <1>2 DEF RInv, Made, Quiet
<1>8. Answered'
  BY <1>1 DEF RInv, Answered, Quiet
<1>9. OrganizationsOwned'
  BY DEF RInv, OrganizationsOwned
<1>10. TokensHold'
  BY <1>1, TokensKeep DEF RInv
<1>11. QED BY <1>3, <1>4, <1>5, <1>6, <1>7, <1>8, <1>9, <1>10 DEF RInv

------------------------------------------------------------------------------
(* Registering and logging in *)

LEMMA ReceiveKeeps ==
    ASSUME RInv, NEW r \in Requests, NEW pc \in {"existing", "login"}, Receive(r, pc)
    PROVE  RInv'
<1>1. PICK email \in Emails, password \in Passwords :
         handler' = [handler EXCEPT ![r] = [pc |-> pc, email |-> email, password |-> password]]
  BY DEF Receive
<1>2. handler[r].pc = "idle" /\ UNCHANGED <<organizations, users, tx, told>>
  BY DEF Receive
<1>3. /\ handler' \in [Requests -> [pc : Phases, email : Emails \cup {None},
                                    password : Passwords \cup {None}]]
      /\ \A q \in Requests \ {r} : handler'[q] = handler[q]
      /\ handler'[r] = [pc |-> pc, email |-> email, password |-> password]
  BY <1>1 DEF RInv, Typed, Phases
<1>4. \A q \in Requests \ {r} : NewUser(q)' = NewUser(q)
  BY <1>3 DEF NewUser
<1>5. Typed'
  BY <1>2, <1>3 DEF RInv, Typed
<1>6. Flushed'
  <2>1. tx'[r] = NoRows
    BY <1>2 DEF RInv, Flushed
  <2>2. handler'[r].pc # "user" /\ handler'[r].pc # "commit"
    BY <1>3
  <2>3. QED BY <1>2, <1>3, <1>4, <2>1, <2>2 DEF RInv, Flushed
<1>7. Given'
  BY <1>3 DEF RInv, Given
<1>8. Distinct'
  BY <1>2, <1>3 DEF RInv, Distinct, OneUserPerEmail, WithEmail
<1>9. Made'
  <2>1. \A u \in users : u \in Founders \/ u.id # r
    BY <1>2 DEF RInv, Made
  <2>2. QED BY <1>2, <1>3, <1>4, <2>1 DEF RInv, Made
<1>10. Answered'
  BY <1>2, <1>3 DEF RInv, Answered
<1>11. OrganizationsOwned'
  BY <1>2 DEF RInv, OrganizationsOwned
<1>12. TokensHold'
  BY <1>2, <1>3, TokensKeep DEF RInv, Answered
<1>13. QED BY <1>5, <1>6, <1>7, <1>8, <1>9, <1>10, <1>11, <1>12 DEF RInv

\* The two steps of a registration that commit nothing: a lookup that finds no
\* user, and the flush of the organisation's row or of the user's.
LEMMA FlushKeeps ==
    ASSUME RInv, NEW r \in Requests, NEW pc \in {"organization", "user", "commit"}, Goto(r, pc),
           handler[r].pc \in {"existing", "organization", "user"},
           UNCHANGED <<organizations, users, told>>,
           tx' \in [Requests -> [organizations : SUBSET Requests, users : SUBSET User]],
           \A q \in Requests \ {r} : tx'[q] = tx[q],
           tx'[r] = CASE pc = "user" -> [organizations |-> {r}, users |-> {}]
                      [] pc = "commit" -> [organizations |-> {r}, users |-> {NewUser(r)}]
                      [] OTHER -> NoRows,
           pc = "commit" =>
              /\ WithEmail(handler[r].email) = {}
              /\ \A q \in Requests \ {r} :
                    handler[q].pc = "commit" => handler[q].email # handler[r].email
    PROVE  RInv'
<1>1. /\ handler' \in [Requests -> [pc : Phases, email : Emails \cup {None},
                                    password : Passwords \cup {None}]]
      /\ \A q \in Requests \ {r} : handler'[q] = handler[q]
      /\ handler'[r].pc = pc
      /\ \A q \in Requests : handler'[q].email = handler[q].email
                             /\ handler'[q].password = handler[q].password
  BY OneGoes DEF RInv, Phases
<1>2. \A q \in Requests : NewUser(q)' = NewUser(q)
  BY <1>1 DEF NewUser
<1>3. Typed'
  BY <1>1 DEF RInv, Typed
<1>4. Flushed'
  BY <1>1, <1>2 DEF RInv, Flushed
<1>5. Given'
  BY <1>1 DEF RInv, Given
<1>6. Distinct'
  <2>1. OneUserPerEmail'
    BY DEF RInv, Distinct, OneUserPerEmail
  <2>2. ASSUME NEW p \in Requests, handler'[p].pc = "commit"
        PROVE  WithEmail(handler[p].email)' = {}
    BY <1>1, <2>2 DEF RInv, Distinct, WithEmail
  <2>3. ASSUME NEW p \in Requests, handler'[p].pc = "commit", NEW q \in Requests,
               handler'[q].pc = "commit", handler'[q].email = handler'[p].email
        PROVE  q = p
    BY <1>1, <2>3 DEF RInv, Distinct
  <2>4. QED BY <2>1, <2>2, <2>3 DEF Distinct, WithEmail
<1>7. Made'
  <2>1. \A u \in users : u \in Founders \/ u.id # r
    BY DEF RInv, Made
  <2>2. ASSUME NEW u \in users', u \notin Founders
        PROVE  /\ u.id \in Requests /\ u = NewUser(u.id)'
               /\ handler'[u.id].pc \in {"refresh", "done", "lost"}
    BY <1>1, <1>2, <2>1, <2>2 DEF RInv, Made
  <2>3. \A q \in Requests : handler'[q].pc = "refresh" => NewUser(q)' \in users'
    BY <1>1, <1>2 DEF RInv, Made
  <2>4. QED BY <2>2, <2>3 DEF Made
<1>8. Answered'
  BY <1>1 DEF RInv, Answered
<1>9. OrganizationsOwned'
  BY DEF RInv, OrganizationsOwned
<1>10. TokensHold'
  BY <1>1, TokensKeep DEF RInv
<1>11. QED BY <1>3, <1>4, <1>5, <1>6, <1>7, <1>8, <1>9, <1>10 DEF RInv

LEMMA ExistingKeeps ==
    ASSUME RInv, NEW r \in Requests, Existing(r)
    PROVE  RInv'
<1>1. CASE WithEmail(handler[r].email) # {}
  BY <1>1, AnswerKeeps DEF Existing
<1>2. CASE WithEmail(handler[r].email) = {}
  <2>1. Goto(r, "organization") /\ UNCHANGED <<organizations, users, tx, told>>
    BY <1>2 DEF Existing
  <2>2. handler[r].pc = "existing"
    BY DEF Existing
  <2>3. tx'[r] = NoRows
    BY <2>1, <2>2 DEF RInv, Flushed
  <2>4. tx' \in [Requests -> [organizations : SUBSET Requests, users : SUBSET User]]
    BY <2>1 DEF RInv, Typed
  <2>5. QED BY <2>1, <2>2, <2>3, <2>4, FlushKeeps
<1>3. QED BY <1>1, <1>2

LEMMA FlushOrganizationKeeps ==
    ASSUME RInv, NEW r \in Requests, FlushOrganization(r)
    PROVE  RInv'
<1>1. /\ handler[r].pc = "organization"
      /\ tx' = [tx EXCEPT ![r].organizations = {r}]
      /\ Goto(r, "user")
      /\ UNCHANGED <<organizations, users, told>>
  BY DEF FlushOrganization
<1>2. tx[r] = NoRows
  BY <1>1 DEF RInv, Flushed
<1>3. /\ tx' \in [Requests -> [organizations : SUBSET Requests, users : SUBSET User]]
      /\ \A q \in Requests \ {r} : tx'[q] = tx[q]
      /\ tx'[r] = [organizations |-> {r}, users |-> {}]
  <2>1. tx' = [q \in Requests |-> IF q = r THEN [tx[r] EXCEPT !.organizations = {r}] ELSE tx[q]]
    BY <1>1 DEF RInv, Typed
  <2>2. [tx[r] EXCEPT !.organizations = {r}] = [organizations |-> {r}, users |-> {}]
    BY <1>2 DEF NoRows
  <2>3. QED BY <2>1, <2>2 DEF RInv, Typed
<1>4. QED BY <1>1, <1>3, FlushKeeps

\* The unique index: another transaction's row of the email would have made the
\* insert wait, and a committed one makes it fail.
LEMMA InsertUserKeeps ==
    ASSUME RInv, NEW r \in Requests, InsertUser(r)
    PROVE  RInv'
<1>1. CASE Taken(handler[r].email) # {}
  BY <1>1, AnswerKeeps DEF InsertUser
<1>2. CASE Taken(handler[r].email) = {}
  <2>1. /\ handler[r].pc = "user"
        /\ tx' = [tx EXCEPT ![r].users = {NewUser(r)}]
        /\ Goto(r, "commit")
        /\ UNCHANGED <<organizations, users, told>>
        /\ \A q \in Requests \ {r} : \A u \in tx[q].users : u.email # handler[r].email
    BY <1>2 DEF InsertUser
  <2>2. tx[r] = [organizations |-> {r}, users |-> {}]
    BY <2>1 DEF RInv, Flushed
  <2>3. NewUser(r) \in User
    BY <2>1 DEF RInv, Given, NewUser, User
  <2>4. /\ tx' \in [Requests -> [organizations : SUBSET Requests, users : SUBSET User]]
        /\ \A q \in Requests \ {r} : tx'[q] = tx[q]
        /\ tx'[r] = [organizations |-> {r}, users |-> {NewUser(r)}]
    <3>1. tx' = [q \in Requests |-> IF q = r THEN [tx[r] EXCEPT !.users = {NewUser(r)}] ELSE tx[q]]
      BY <2>1 DEF RInv, Typed
    <3>2. [tx[r] EXCEPT !.users = {NewUser(r)}] = [organizations |-> {r}, users |-> {NewUser(r)}]
      BY <2>2
    <3>3. QED BY <3>1, <3>2, <2>3 DEF RInv, Typed
  <2>5. ASSUME NEW q \in Requests \ {r}, handler[q].pc = "commit"
        PROVE  handler[q].email # handler[r].email
    <3>1. tx[q] = [organizations |-> {q}, users |-> {NewUser(q)}]
      BY <2>5 DEF RInv, Flushed
    <3>2. NewUser(q) \in tx[q].users
      BY <3>1
    <3>3. NewUser(q).email # handler[r].email
      BY <3>2, <2>1
    <3>4. QED BY <3>3 DEF NewUser
  <2>6. WithEmail(handler[r].email) = {}
    BY <1>2 DEF Taken
  <2>7. QED BY <2>1, <2>4, <2>5, <2>6, FlushKeeps
<1>3. QED BY <1>1, <1>2

LEMMA CommitUserKeeps ==
    ASSUME RInv, NEW r \in Requests, CommitUser(r)
    PROVE  RInv'
<1>1. /\ handler[r].pc = "commit"
      /\ tx[r] = [organizations |-> {r}, users |-> {NewUser(r)}]
      /\ WithEmail(handler[r].email) = {}
  BY DEF CommitUser, RInv, Flushed, Distinct
<1>2. /\ organizations' = organizations \cup {r}
      /\ users' = users \cup {NewUser(r)}
      /\ tx' = [tx EXCEPT ![r] = NoRows]
      /\ UNCHANGED told
      /\ Goto(r, "refresh")
  BY <1>1 DEF CommitUser
<1>3. /\ handler' \in [Requests -> [pc : Phases, email : Emails \cup {None},
                                    password : Passwords \cup {None}]]
      /\ \A q \in Requests \ {r} : handler'[q] = handler[q]
      /\ handler'[r].pc = "refresh"
      /\ \A q \in Requests : handler'[q].email = handler[q].email
                             /\ handler'[q].password = handler[q].password
  BY <1>2, OneGoes DEF RInv, Phases
<1>4. \A q \in Requests : NewUser(q)' = NewUser(q)
  BY <1>3 DEF NewUser
<1>5. /\ tx' \in [Requests -> [organizations : SUBSET Requests, users : SUBSET User]]
      /\ tx'[r] = NoRows
      /\ \A q \in Requests \ {r} : tx'[q] = tx[q]
  BY <1>2 DEF RInv, Typed, NoRows
<1>6. NewUser(r) \in User /\ NewUser(r).email = handler[r].email /\ NewUser(r).id = r
      /\ NewUser(r).role = "admin"
  BY <1>1 DEF RInv, Given, NewUser, User
<1>7. \A u \in users : u.email # handler[r].email
  BY <1>1 DEF WithEmail
<1>8. Typed'
  BY <1>2, <1>3, <1>5, <1>6 DEF RInv, Typed
<1>9. Flushed'
  BY <1>3, <1>4, <1>5 DEF RInv, Flushed
<1>10. Given'
  BY <1>3 DEF RInv, Given
<1>11. Distinct'
  <2>1. OneUserPerEmail'
    BY <1>2, <1>6, <1>7 DEF RInv, Distinct, OneUserPerEmail
  <2>2. ASSUME NEW p \in Requests, handler'[p].pc = "commit"
        PROVE  WithEmail(handler[p].email)' = {}
    <3>1. p # r /\ handler[p].pc = "commit"
      BY <1>3, <2>2
    <3>2. WithEmail(handler[p].email) = {} /\ handler[p].email # handler[r].email
      BY <3>1, <1>1 DEF RInv, Distinct
    <3>3. QED BY <1>2, <1>3, <1>6, <3>2 DEF WithEmail
  <2>3. ASSUME NEW p \in Requests, handler'[p].pc = "commit", NEW q \in Requests,
               handler'[q].pc = "commit", handler'[q].email = handler'[p].email
        PROVE  q = p
    BY <1>3, <2>3 DEF RInv, Distinct
  <2>4. QED BY <2>1, <2>2, <2>3 DEF Distinct, WithEmail
<1>12. Made'
  <2>1. ASSUME NEW u \in users', u \notin Founders
        PROVE  /\ u.id \in Requests /\ u = NewUser(u.id)'
               /\ handler'[u.id].pc \in {"refresh", "done", "lost"}
    <3>1. CASE u \in users
      BY <1>3, <1>4, <2>1, <3>1 DEF RInv, Made
    <3>2. CASE u = NewUser(r)
      BY <1>3, <1>4, <1>6, <3>2
    <3>3. QED BY <1>2, <3>1, <3>2
  <2>2. \A q \in Requests : handler'[q].pc = "refresh" => NewUser(q)' \in users'
    BY <1>2, <1>3, <1>4 DEF RInv, Made
  <2>3. QED BY <2>1, <2>2 DEF Made
<1>13. Answered'
  BY <1>1, <1>2, <1>3 DEF RInv, Answered
<1>14. OrganizationsOwned'
  BY <1>2, <1>6 DEF RInv, OrganizationsOwned
<1>15. TokensHold'
  <2>1. ASSUME NEW q \in Requests, told[q].token # None
        PROVE  handler[q].email # handler[r].email
    BY <1>7, <2>1 DEF RInv, TokensHold, WithEmail
  <2>2. \A q \in Requests : told'[q].token # None =>
              /\ told'[q] = told[q]
              /\ handler'[q].email = handler[q].email /\ handler'[q].password = handler[q].password
              /\ \A u \in users' \ users : u.email # handler[q].email
    BY <1>2, <1>3, <1>6, <2>1
  <2>3. QED BY <1>2, <2>2, TokensKeep DEF RInv
<1>16. QED BY <1>8, <1>9, <1>10, <1>11, <1>12, <1>13, <1>14, <1>15 DEF RInv

\* A token is given to who gave the user's password.
LEMMA TokenKeeps ==
    ASSUME RInv, NEW r \in Requests, NEW code, NEW u \in users, Answer(r, code, TokenOf(u)),
           u.email = handler[r].email, u.password = handler[r].password,
           UNCHANGED <<organizations, users>>
    PROVE  RInv'
<1>1. Goto(r, "done")
  BY DEF Answer
<1>2. /\ handler' \in [Requests -> [pc : Phases, email : Emails \cup {None},
                                    password : Passwords \cup {None}]]
      /\ \A q \in Requests \ {r} : handler'[q] = handler[q]
      /\ handler'[r].pc = "done"
      /\ \A q \in Requests : handler'[q].email = handler[q].email
                             /\ handler'[q].password = handler[q].password
  BY <1>1, OneGoes DEF RInv, Phases
<1>3. /\ DOMAIN told' = Requests
      /\ told'[r].token = TokenOf(u)
      /\ \A q \in Requests \ {r} : told'[q] = told[q]
  BY DEF Answer, RInv, Typed
<1>4. /\ tx' \in [Requests -> [organizations : SUBSET Requests, users : SUBSET User]]
      /\ tx'[r] = NoRows
      /\ \A q \in Requests \ {r} : tx'[q] = tx[q]
  BY DEF Answer, RInv, Typed, NoRows
<1>5. \A q \in Requests : NewUser(q)' = NewUser(q)
  BY <1>2 DEF NewUser
<1>6. Typed'
  BY <1>2, <1>3, <1>4 DEF RInv, Typed
<1>7. Flushed'
  BY <1>2, <1>4, <1>5 DEF RInv, Flushed
<1>8. Given'
  BY <1>2 DEF RInv, Given
<1>9. Distinct'
  BY <1>2 DEF RInv, Distinct, OneUserPerEmail, WithEmail
<1>10. Made'
  BY <1>2, <1>5 DEF RInv, Made
<1>11. Answered'
  BY <1>2, <1>3 DEF RInv, Answered
<1>12. OrganizationsOwned'
  BY DEF RInv, OrganizationsOwned
<1>13. TokensHold'
  <2>1. {v \in users : v.email = handler[r].email} = {u}
    BY DEF RInv, Distinct, OneUserPerEmail
  <2>2. ASSUME NEW q \in Requests, told'[q].token # None
        PROVE  \E w \in users :
                  /\ told'[q].token = TokenOf(w)
                  /\ {v \in users : v.email = handler[q].email} = {w}
                  /\ handler[q].password = w.password
    <3>1. CASE q = r
      BY <3>1, <2>1, <1>3
    <3>2. CASE q # r
      BY <3>2, <2>2, <1>3 DEF RInv, TokensHold, WithEmail
    <3>3. QED BY <3>1, <3>2
  <2>3. SUFFICES ASSUME NEW q \in Requests, told'[q].token # None
                 PROVE  \E w \in users' :
                           /\ told'[q].token = TokenOf(w)
                           /\ {v \in users' : v.email = handler'[q].email} = {w}
                           /\ handler'[q].password = w.password
    BY DEF TokensHold, TokenOf, WithEmail
  <2>4. users' = users /\ handler'[q].email = handler[q].email
        /\ handler'[q].password = handler[q].password
    BY <1>2
  <2>5. QED BY <2>2, <2>3, <2>4
<1>14. QED BY <1>6, <1>7, <1>8, <1>9, <1>10, <1>11, <1>12, <1>13 DEF RInv

LEMMA RefreshKeeps ==
    ASSUME RInv, NEW r \in Requests, Refresh(r)
    PROVE  RInv'
<1>1. PICK u \in users : u.id = r /\ Answer(r, 201, TokenOf(u))
  BY DEF Refresh
<1>2. u = NewUser(r)
  <2>1. u \notin Founders
    BY <1>1, RegistrationAssumption
  <2>2. QED BY <1>1, <2>1 DEF RInv, Made
<1>3. u.email = handler[r].email /\ u.password = handler[r].password
  BY <1>2 DEF NewUser
<1>4. UNCHANGED <<organizations, users>>
  BY DEF Refresh
<1>5. QED BY <1>1, <1>3, <1>4, TokenKeeps

LEMMA CheckPasswordKeeps ==
    ASSUME RInv, NEW r \in Requests, CheckPassword(r)
    PROVE  RInv'
<1>1. UNCHANGED <<organizations, users>>
  BY DEF CheckPassword
<1>2. CASE \E u \in WithEmail(handler[r].email) : Verified(u, r)
  <2>1. PICK v \in WithEmail(handler[r].email) : Verified(v, r)
    BY <1>2
  <2>2. PICK u \in WithEmail(handler[r].email) : Answer(r, 200, TokenOf(u))
    BY <1>2 DEF CheckPassword
  <2>3. u = v /\ u \in users /\ u.email = handler[r].email
    BY DEF RInv, Distinct, OneUserPerEmail, WithEmail
  <2>4. u.password = handler[r].password
    BY <2>1, <2>3 DEF Verified
  <2>5. QED BY <1>1, <2>2, <2>3, <2>4, TokenKeeps
<1>3. CASE ~ \E u \in WithEmail(handler[r].email) : Verified(u, r)
  BY <1>1, <1>3, AnswerKeeps DEF CheckPassword
<1>4. QED BY <1>2, <1>3

LEMMA CrashKeeps ==
    ASSUME RInv, CrashHandlers
    PROVE  RInv'
<1>1. /\ \A q \in Requests : handler'[q].email = handler[q].email
                              /\ handler'[q].password = handler[q].password
      /\ \A q \in Requests : handler'[q].pc = IF handler[q].pc \in {"idle", "done"}
                                               THEN handler[q].pc ELSE "lost"
      /\ handler' \in [Requests -> [pc : Phases, email : Emails \cup {None},
                                    password : Passwords \cup {None}]]
      /\ tx' = [q \in Requests |-> NoRows]
      /\ UNCHANGED <<organizations, users, told>>
  BY DEF CrashHandlers, RInv, Typed, Phases
<1>2. \A q \in Requests : NewUser(q)' = NewUser(q)
  BY <1>1 DEF NewUser
<1>3. \A q \in Requests : handler'[q].pc \in {"idle", "done", "lost"}
  BY <1>1
<1>4. Typed'
  BY <1>1 DEF RInv, Typed, NoRows
<1>5. Flushed' /\ Given' /\ Distinct'
  BY <1>1, <1>3 DEF RInv, Flushed, Given, Distinct, OneUserPerEmail
<1>6. Made'
  BY <1>1, <1>2 DEF RInv, Made
<1>7. Answered' /\ OrganizationsOwned'
  BY <1>1 DEF RInv, Answered, OrganizationsOwned
<1>8. TokensHold'
  BY <1>1, TokensKeep DEF RInv
<1>9. QED BY <1>4, <1>5, <1>6, <1>7, <1>8 DEF RInv

------------------------------------------------------------------------------
(* Every step *)

LEMMA RegistrationKeeps ==
    ASSUME RInv, NEW r \in Requests, RegistrationStep(r)
    PROVE  RInv'
<1>1. CASE Register(r) \/ LogIn(r)
  BY <1>1, ReceiveKeeps DEF Register, LogIn
<1>2. CASE ReadCurrentUser(r)
  BY <1>2, AnswerKeeps DEF ReadCurrentUser
<1>3. CASE Break(r)
  BY <1>3, AnswerKeeps DEF Break
<1>4. QED BY <1>1, <1>2, <1>3, ExistingKeeps, FlushOrganizationKeeps, InsertUserKeeps,
             CommitUserKeeps, RefreshKeeps, CheckPasswordKeeps DEF RegistrationStep

\* The other endpoints write neither users nor organisations.
LEMMA AuthenticateKeeps ==
    ASSUME RInv, NEW r \in Requests, NEW pc \in {"trace", "refuse", "overview", "thread"},
           NEW found, Authenticate(r, pc, found)
    PROVE  RInv'
<1>1. handler[r].pc = "idle" /\ UNCHANGED <<organizations, users>>
  BY DEF Authenticate
<1>2. CASE Answer(r, 401, None)
  BY <1>1, <1>2, AnswerKeeps
<1>3. CASE Goto(r, pc) /\ UNCHANGED <<tx, told>>
  BY <1>1, <1>3, GoKeeps DEF Quiet, Phases
<1>4. QED BY <1>2, <1>3 DEF Authenticate

LEMMA UsageKeeps ==
    ASSUME RInv, NEW r \in Requests, UsageStep(r)
    PROVE  RInv'
<1>1. CASE Ask(r) \/ Report(r) \/ ThreadUsage(r)
  BY <1>1, AuthenticateKeeps DEF Ask, Report, ThreadUsage
<1>2. CASE FlushTrace(r)
  BY <1>2, GoKeeps DEF FlushTrace, Quiet, Phases
<1>3. CASE Overview(r)
  BY <1>3, GoKeeps DEF Overview, Quiet, Phases
<1>4. CASE Breakdown(r)
  BY <1>4, GoKeeps DEF Breakdown, Quiet, Phases
<1>5. CASE CommitTrace(r) \/ Refuse(r) \/ ByFeature(r) \/ Rollup(r) \/ Fail(r)
  BY <1>5, AnswerKeeps DEF CommitTrace, Refuse, ByFeature, Rollup, Fail
<1>6. QED BY <1>1, <1>2, <1>3, <1>4, <1>5 DEF UsageStep

LEMMA StepKeeps == RInv /\ [Next]_vars => RInv'
<1> SUFFICES ASSUME RInv, [Next]_vars PROVE RInv'
  OBVIOUS
<1>1. CASE \E r \in Requests : RegistrationStep(r) /\ UNCHANGED usageVars
  BY <1>1, RegistrationKeeps
<1>2. CASE \E r \in Requests : UsageStep(r)
  BY <1>2, UsageKeeps
<1>3. CASE Crash
  BY <1>3, CrashKeeps DEF Crash
<1>4. CASE UNCHANGED <<organizations, users, tx, handler, told>>
  <2>1. /\ users' = users /\ tx' = tx /\ handler' = handler /\ told' = told
        /\ organizations' = organizations
    BY <1>4
  <2>2. Typed' /\ Flushed' /\ Given'
    BY <2>1 DEF RInv, Typed, Flushed, Given, NewUser
  <2>3. Distinct' /\ Made' /\ Answered'
    BY <2>1 DEF RInv, Distinct, OneUserPerEmail, WithEmail, Made, NewUser, Answered
  <2>4. OrganizationsOwned' /\ TokensHold'
    BY <2>1, TokensKeep DEF RInv, OrganizationsOwned
  <2>5. QED BY <2>2, <2>3, <2>4 DEF RInv
<1>5. QED BY <1>1, <1>2, <1>3, <1>4 DEF Next, Tick, vars, registrationVars

LEMMA InitHolds == Init => RInv
<1> SUFFICES ASSUME Init PROVE RInv
  OBVIOUS
<1>1. /\ organizations = {f.id : f \in Founders} /\ users = Founders
      /\ tx = [r \in Requests |-> NoRows] /\ handler = [r \in Requests |-> Idle]
      /\ told = [r \in Requests |-> Nothing]
  BY DEF Init, RegistrationInit
<1>2. Typed
  BY <1>1, RegistrationAssumption DEF Typed, NoRows, Idle, Phases
<1>3. Flushed /\ Given /\ Answered /\ TokensHold
  BY <1>1 DEF Flushed, Given, Answered, TokensHold, Idle, Nothing
<1>4. Distinct /\ Made
  BY <1>1, RegistrationAssumption DEF Distinct, OneUserPerEmail, Made, Idle
<1>5. OrganizationsOwned
  BY <1>1, RegistrationAssumption DEF OrganizationsOwned, User
<1>6. QED BY <1>2, <1>3, <1>4, <1>5 DEF RInv

\* An email has one user, whatever registrations of it interleave.
THEOREM OneUserCorrect == Spec => []OneUserPerEmail
<1>1. RInv => OneUserPerEmail
  BY DEF RInv, Distinct
<1>2. QED BY <1>1, InitHolds, StepKeeps, PTL DEF Spec

\* An organisation has its admin and a user an organisation, whichever step of
\* a registration fails.
THEOREM OwnedCorrect == Spec => []OrganizationsOwned
<1>1. RInv => OrganizationsOwned
  BY DEF RInv
<1>2. QED BY <1>1, InitHolds, StepKeeps, PTL DEF Spec

\* A token is given only to who gave the password of the email's one user.
THEOREM TokensCorrect == Spec => []TokensHold
<1>1. RInv => TokensHold
  BY DEF RInv
<1>2. QED BY <1>1, InitHolds, StepKeeps, PTL DEF Spec

------------------------------------------------------------------------------
(* Reports of usage *)

\* The overview of a report is a count of the traces there were.
Counted(found) ==
    /\ found.start <= found.end
    /\ IsFiniteSet(found.before)
    /\ \A t \in found.before : t.created_at \in Nat
    /\ found.overview.calls = Cardinality({t \in found.before : t.org = found.org /\ Within(t, found)})

\* What a handler at pc, that has answered code or nothing, has found.
Proper(pc, found, code) ==
    /\ DOMAIN found = DOMAIN NoUsage
    /\ found.start \in Int /\ found.end \in Int
    /\ pc \in Registering \cup {"idle"} => found.kind = "none"
    /\ pc \in {"trace", "store"} => found.kind = "ask"
    /\ pc = "store" => found.row.created_at \in Nat
    /\ pc = "thread" => found.kind = "thread"
    /\ pc \in {"refuse", "overview", "breakdown", "features"} => found.kind = "report"
    /\ pc \in {"overview", "breakdown", "features"} => found.start <= found.end
    /\ pc \in {"breakdown", "features"} \/ (pc = "done" /\ found.kind = "report" /\ code = 200)
          => Counted(found)

TracesFinite == IsFiniteSet(traces) /\ \A t \in traces : t.created_at \in Nat

UInv ==
    /\ RInv
    /\ now \in Nat
    /\ TracesFinite
    /\ DOMAIN usage = Requests
    /\ \A r \in Requests : Proper(handler[r].pc, usage[r], told[r].code)

\* One handler goes on.
LEMMA ProperFrame ==
    ASSUME UInv, RInv', now' \in Nat, TracesFinite', NEW r \in Requests, DOMAIN usage' = Requests,
           \A q \in Requests \ {r} : /\ handler'[q].pc = handler[q].pc
                                     /\ usage'[q] = usage[q] /\ told'[q] = told[q],
           Proper(handler'[r].pc, usage'[r], told'[r].code)
    PROVE  UInv'
<1>1. ASSUME NEW q \in Requests PROVE Proper(handler'[q].pc, usage'[q], told'[q].code)
  <2>1. CASE q = r
    BY <2>1
  <2>2. CASE q # r
    BY <2>2 DEF UInv
  <2> QED BY <2>1, <2>2
<1>2. \A q \in Requests : Proper(handler[q].pc, usage[q], told[q].code)'
  BY <1>1 DEF Proper, Counted, Within
<1> QED BY <1>2 DEF UInv

\* Where a handler is after Goto or Answer.
LEMMA Goes ==
    ASSUME RInv, NEW r \in Requests, NEW pc, Goto(r, pc), UNCHANGED told
    PROVE  /\ handler'[r].pc = pc
           /\ \A q \in Requests \ {r} : handler'[q].pc = handler[q].pc /\ told'[q] = told[q]
BY DEF RInv, Typed, Goto

LEMMA Answers ==
    ASSUME RInv, NEW r \in Requests, NEW code, NEW token, Answer(r, code, token)
    PROVE  /\ handler'[r].pc = "done" /\ told'[r].code = code
           /\ \A q \in Requests \ {r} : handler'[q].pc = handler[q].pc /\ told'[q] = told[q]
BY DEF RInv, Typed, Goto, Answer

LEMMA NoUsageProper ==
    ASSUME NEW pc \in Registering \cup {"idle", "done", "lost"}, NEW code
    PROVE  Proper(pc, NoUsage, code)
BY DEF Proper, NoUsage, Registering

LEMMA RegistrationUsage ==
    ASSUME UInv, NEW r \in Requests, RegistrationStep(r), UNCHANGED usageVars
    PROVE  UInv'
<1>0. RInv' /\ now' \in Nat /\ TracesFinite' /\ DOMAIN usage' = Requests /\ usage' = usage
  BY RegistrationKeeps DEF UInv, usageVars, TracesFinite
<1>1. /\ handler[r].pc \in Registering \cup {"idle"}
      /\ handler'[r].pc \in Registering \cup {"done"}
      /\ \A q \in Requests \ {r} : handler'[q].pc = handler[q].pc /\ told'[q] = told[q]
  BY DEF RegistrationStep, Register, LogIn, Receive, Existing, FlushOrganization, InsertUser,
         CommitUser, Refresh, CheckPassword, ReadCurrentUser, Break, Answer, Goto, Registering,
         UInv, RInv, Typed
<1>2. Proper(handler'[r].pc, usage'[r], told'[r].code)
  BY <1>0, <1>1 DEF UInv, Proper, Registering
<1> QED BY <1>0, <1>1, <1>2, ProperFrame

LEMMA AuthenticateUsage ==
    ASSUME UInv, NEW r \in Requests, NEW pc \in {"trace", "refuse", "overview", "thread"},
           NEW found, Authenticate(r, pc, found), UNCHANGED <<now, traces>>,
           \A org : \A code : Proper(pc, [found EXCEPT !.org = org], code)
    PROVE  UInv'
<1>0. RInv' /\ now' \in Nat /\ TracesFinite' /\ handler[r].pc = "idle"
  BY AuthenticateKeeps DEF UInv, TracesFinite, Authenticate
<1>1. CASE Answer(r, 401, None) /\ UNCHANGED usage
  <2>1. Proper(handler'[r].pc, usage'[r], told'[r].code)
    BY <1>0, <1>1, Answers DEF UInv, Proper, Registering
  <2> QED BY <1>0, <1>1, <2>1, Answers, ProperFrame DEF UInv
<1>2. CASE Goto(r, pc) /\ UNCHANGED <<tx, told>>
           /\ \E org : usage' = [usage EXCEPT ![r] = [found EXCEPT !.org = org]]
  <2>1. PICK org : usage' = [usage EXCEPT ![r] = [found EXCEPT !.org = org]]
    BY <1>2
  <2>2. DOMAIN usage' = Requests /\ usage'[r] = [found EXCEPT !.org = org]
        /\ \A q \in Requests \ {r} : usage'[q] = usage[q]
    BY <2>1 DEF UInv
  <2>3. handler'[r].pc = pc
        /\ \A q \in Requests \ {r} : handler'[q].pc = handler[q].pc /\ told'[q] = told[q]
    BY <1>2, Goes DEF UInv
  <2>4. Proper(pc, [found EXCEPT !.org = org], told'[r].code)
    OBVIOUS
  <2>5. Proper(handler'[r].pc, usage'[r], told'[r].code)
    BY <2>2, <2>3, <2>4
  <2> QED BY <1>0, <2>2, <2>3, <2>5, ProperFrame
<1> QED BY <1>1, <1>2 DEF Authenticate

LEMMA ReportUsage ==
    ASSUME UInv, NEW r \in Requests, Report(r)
    PROVE  UInv'
<1>1. PICK window \in Windows :
         Authenticate(r, IF Resolved(window).start > Resolved(window).end THEN "refuse" ELSE "overview",
                      [NoUsage EXCEPT !.kind = "report", !.start = Resolved(window).start,
                                      !.end = Resolved(window).end])
  BY DEF Report
<1> DEFINE dates == Resolved(window)
           pc == IF dates.start > dates.end THEN "refuse" ELSE "overview"
           found == [NoUsage EXCEPT !.kind = "report", !.start = dates.start, !.end = dates.end]
<1>2. dates.start \in Int /\ dates.end \in Int
  <2>1. Today \in Int /\ DefaultDays \in Int
    BY ObservabilityAssumption DEF Today, UInv
  <2>2. (window.end # None => window.end \in Int) /\ (window.start # None => window.start \in Int)
    BY ObservabilityAssumption
  <2> QED BY <2>1, <2>2 DEF Resolved
<1>3. ASSUME NEW org, NEW code PROVE Proper(pc, [found EXCEPT !.org = org], code)
  <2> DEFINE new == [found EXCEPT !.org = org]
  <2>1. /\ DOMAIN new = DOMAIN NoUsage /\ new.kind = "report"
        /\ new.start = dates.start /\ new.end = dates.end
    BY DEF NoUsage
  <2>2. pc \in {"refuse", "overview"} /\ (pc = "overview" => dates.start <= dates.end)
    BY <1>2
  <2> HIDE DEF new, dates, pc
  <2> QED BY <1>2, <2>1, <2>2 DEF Proper, Registering
<1>4. pc \in {"trace", "refuse", "overview", "thread"} /\ Authenticate(r, pc, found)
  BY <1>1
<1>5. UNCHANGED <<now, traces>>
  BY DEF Report
<1> HIDE DEF pc, found
<1> QED BY <1>3, <1>4, <1>5, AuthenticateUsage

LEMMA AskUsage ==
    ASSUME UInv, NEW r \in Requests, Ask(r) \/ ThreadUsage(r)
    PROVE  UInv'
<1>1. ASSUME NEW pc \in {"trace", "thread"}, NEW kind \in {"ask", "thread"},
             pc = "trace" <=> kind = "ask", NEW org, NEW code
      PROVE  Proper(pc, [[NoUsage EXCEPT !.kind = kind] EXCEPT !.org = org], code)
  <2> DEFINE new == [[NoUsage EXCEPT !.kind = kind] EXCEPT !.org = org]
  <2>1. DOMAIN new = DOMAIN NoUsage /\ new.kind = kind /\ new.start = 0 /\ new.end = 0
    BY DEF NoUsage
  <2> SUFFICES Proper(pc, new, code)
    OBVIOUS
  <2> HIDE DEF new
  <2>2. CASE pc = "trace"
    BY <1>1, <2>1, <2>2 DEF Proper, Registering
  <2>3. CASE pc = "thread"
    BY <1>1, <2>1, <2>3 DEF Proper, Registering
  <2> QED BY <2>2, <2>3
<1>2. CASE Ask(r)
  <2> DEFINE found == [NoUsage EXCEPT !.kind = "ask"]
  <2>1. \A org : \A code : Proper("trace", [found EXCEPT !.org = org], code)
    BY <1>1
  <2>2. Authenticate(r, "trace", found) /\ UNCHANGED <<now, traces>>
    BY <1>2 DEF Ask
  <2> HIDE DEF found
  <2> QED BY <2>1, <2>2, AuthenticateUsage
<1>3. CASE ThreadUsage(r)
  <2> DEFINE found == [NoUsage EXCEPT !.kind = "thread"]
  <2>1. \A org : \A code : Proper("thread", [found EXCEPT !.org = org], code)
    BY <1>1
  <2>2. Authenticate(r, "thread", found) /\ UNCHANGED <<now, traces>>
    BY <1>3 DEF ThreadUsage
  <2> HIDE DEF found
  <2> QED BY <2>1, <2>2, AuthenticateUsage
<1> QED BY <1>2, <1>3

\* The steps of an authenticated handler.
LEMMA TraceUsage ==
    ASSUME UInv, NEW r \in Requests, FlushTrace(r) \/ CommitTrace(r)
    PROVE  UInv'
<1>0. RInv' /\ now' \in Nat
  BY UsageKeeps DEF UInv, UsageStep, FlushTrace, CommitTrace
<1>1. CASE FlushTrace(r)
  <2>1. PICK call \in Calls :
           usage' = [usage EXCEPT ![r].row =
                        [id |-> r, org |-> usage[r].org, created_at |-> now, call |-> call]]
    BY <1>1 DEF FlushTrace
  <2> DEFINE row == [id |-> r, org |-> usage[r].org, created_at |-> now, call |-> call]
             new == [usage[r] EXCEPT !.row = row]
  <2>2. DOMAIN usage' = Requests /\ usage'[r] = new
        /\ \A q \in Requests \ {r} : usage'[q] = usage[q]
    BY <2>1 DEF UInv
  <2>3. Proper(handler[r].pc, usage[r], told[r].code) /\ handler[r].pc = "trace"
    BY <1>1 DEF UInv, FlushTrace
  <2>4. row.created_at \in Nat
    BY DEF UInv
  <2> HIDE DEF row
  <2>5. /\ DOMAIN new = DOMAIN NoUsage /\ new.kind = "ask"
        /\ new.start = usage[r].start /\ new.end = usage[r].end /\ new.row = row
    BY <2>3 DEF Proper, NoUsage
  <2> HIDE DEF new
  <2>6. Proper("store", new, told[r].code)
    BY <2>3, <2>4, <2>5 DEF Proper, Registering
  <2>7. Goto(r, "store") /\ UNCHANGED told /\ UNCHANGED traces
    BY <1>1 DEF FlushTrace
  <2>8. Proper(handler'[r].pc, usage'[r], told'[r].code)
    BY <2>2, <2>6, <2>7, Goes DEF UInv
  <2>9. TracesFinite'
    BY <2>7 DEF UInv, TracesFinite
  <2> QED BY <1>0, <2>2, <2>7, <2>8, <2>9, Goes, ProperFrame DEF UInv
<1>2. CASE CommitTrace(r)
  <2>1. traces' = traces \cup {usage[r].row} /\ Answer(r, 200, None) /\ UNCHANGED usage
        /\ handler[r].pc = "store"
    BY <1>2 DEF CommitTrace
  <2>2. Proper("store", usage[r], told[r].code)
    BY <2>1 DEF UInv
  <2>3. TracesFinite'
    BY <2>1, <2>2, FS_AddElement DEF UInv, TracesFinite, Proper
  <2>4. Proper("done", usage[r], 200)
    BY <2>2 DEF Proper, Registering
  <2>5. Proper(handler'[r].pc, usage'[r], told'[r].code)
    BY <2>1, <2>4, Answers DEF UInv
  <2> QED BY <1>0, <2>1, <2>3, <2>5, Answers, ProperFrame DEF UInv
<1> QED BY <1>1, <1>2

LEMMA OverviewUsage ==
    ASSUME UInv, NEW r \in Requests, Overview(r)
    PROVE  UInv'
<1>0. RInv' /\ now' \in Nat /\ TracesFinite'
  BY UsageKeeps DEF UInv, UsageStep, Overview, TracesFinite
<1>1. Goto(r, "breakdown") /\ UNCHANGED told /\ handler[r].pc = "overview"
  BY DEF Overview
<1> DEFINE totals == Totals(Scope(r))
           new == [[usage[r] EXCEPT !.overview = totals] EXCEPT !.before = traces]
<1>2. DOMAIN usage' = Requests /\ usage'[r] = new
      /\ \A q \in Requests \ {r} : usage'[q] = usage[q]
  BY DEF UInv, Overview
<1>3. totals.calls = Cardinality({t \in traces : t.org = usage[r].org /\ Within(t, usage[r])})
  BY DEF Totals, Scope
<1> HIDE DEF totals
<1>4. Proper("overview", usage[r], told[r].code)
  BY <1>1 DEF UInv
<1>5. /\ DOMAIN new = DOMAIN NoUsage /\ new.kind = usage[r].kind /\ new.org = usage[r].org
      /\ new.start = usage[r].start /\ new.end = usage[r].end
      /\ new.overview = totals /\ new.before = traces
  BY <1>4 DEF Proper, NoUsage
<1> HIDE DEF new
<1>6. Counted(new)
  <2>1. {t \in new.before : t.org = new.org /\ Within(t, new)}
          = {t \in traces : t.org = usage[r].org /\ Within(t, usage[r])}
    BY <1>5 DEF Within
  <2> QED BY <1>3, <1>4, <1>5, <2>1 DEF Counted, Proper, UInv, TracesFinite
<1>7. Proper("breakdown", new, told[r].code)
  BY <1>4, <1>5, <1>6 DEF Proper, Registering
<1>8. Proper(handler'[r].pc, usage'[r], told'[r].code)
  BY <1>1, <1>2, <1>7, Goes DEF UInv
<1> QED BY <1>0, <1>1, <1>2, <1>8, Goes, ProperFrame DEF UInv

\* The later queries of a report leave its overview as it is.
LEMMA RowsUsage ==
    ASSUME UInv, NEW r \in Requests, Breakdown(r) \/ ByFeature(r)
    PROVE  UInv'
<1>0. RInv' /\ now' \in Nat /\ TracesFinite'
  BY UsageKeeps DEF UInv, UsageStep, Breakdown, ByFeature, TracesFinite
<1>1. handler[r].pc \in {"breakdown", "features"} /\ Proper(handler[r].pc, usage[r], told[r].code)
  BY DEF UInv, Breakdown, ByFeature
<1>2. ASSUME NEW new, DOMAIN new = DOMAIN NoUsage,
             \A part \in {"kind", "org", "start", "end", "overview", "before"} :
                new[part] = usage[r][part],
             NEW pc \in {"features", "done"}, NEW code
      PROVE  Proper(pc, new, code)
  <2>1. /\ new.kind = "report" /\ new.org = usage[r].org
        /\ new.start = usage[r].start /\ new.end = usage[r].end
        /\ new.overview = usage[r].overview /\ new.before = usage[r].before
    BY <1>1, <1>2 DEF Proper
  <2>2. Counted(usage[r])
    BY <1>1 DEF Proper
  <2>3. Counted(new)
    BY <2>1, <2>2 DEF Counted, Within
  <2> QED BY <1>1, <1>2, <2>1, <2>3 DEF Proper, Registering
<1>3. CASE Breakdown(r)
  <2> DEFINE rows == GroupedBy("model", Scope(r))
             new == [usage[r] EXCEPT !.breakdown = rows]
  <2>1. DOMAIN usage' = Requests /\ usage'[r] = new
        /\ \A q \in Requests \ {r} : usage'[q] = usage[q]
    BY <1>3 DEF UInv, Breakdown
  <2> HIDE DEF rows
  <2>2. Proper("features", new, told[r].code)
    BY <1>1, <1>2 DEF Proper, NoUsage
  <2> HIDE DEF new
  <2>3. Goto(r, "features") /\ UNCHANGED told
    BY <1>3 DEF Breakdown
  <2>4. Proper(handler'[r].pc, usage'[r], told'[r].code)
    BY <2>1, <2>2, <2>3, Goes DEF UInv
  <2> QED BY <1>0, <2>1, <2>3, <2>4, Goes, ProperFrame DEF UInv
<1>4. CASE ByFeature(r)
  <2> DEFINE rows == FeatureRows(r)
             new == [[usage[r] EXCEPT !.features = rows] EXCEPT !.after = traces]
  <2>1. DOMAIN usage' = Requests /\ usage'[r] = new
        /\ \A q \in Requests \ {r} : usage'[q] = usage[q]
    BY <1>4 DEF UInv, ByFeature
  <2> HIDE DEF rows
  <2>2. Proper("done", new, 200)
    BY <1>1, <1>2 DEF Proper, NoUsage
  <2> HIDE DEF new
  <2>3. Answer(r, 200, None)
    BY <1>4 DEF ByFeature
  <2>4. Proper(handler'[r].pc, usage'[r], told'[r].code)
    BY <2>1, <2>2, <2>3, Answers DEF UInv
  <2> QED BY <1>0, <2>1, <2>3, <2>4, Answers, ProperFrame DEF UInv
<1> QED BY <1>3, <1>4

\* An answer that is no report.
LEMMA EndUsage ==
    ASSUME UInv, NEW r \in Requests, Rollup(r) \/ Refuse(r) \/ Fail(r)
    PROVE  UInv'
<1>0. RInv' /\ now' \in Nat /\ TracesFinite'
  BY UsageKeeps DEF UInv, UsageStep, Rollup, Refuse, Fail, TracesFinite, usageVars
<1>1. Proper(handler[r].pc, usage[r], told[r].code)
  BY DEF UInv
<1>2. CASE Rollup(r)
  <2>1. PICK thread \in Threads :
           usage' = [usage EXCEPT ![r].overview =
                        Totals({t \in traces : t.org = usage[r].org /\ t.call.thread = thread})]
    BY <1>2 DEF Rollup
  <2> DEFINE totals == Totals({t \in traces : t.org = usage[r].org /\ t.call.thread = thread})
             new == [usage[r] EXCEPT !.overview = totals]
  <2>2. DOMAIN usage' = Requests /\ usage'[r] = new
        /\ \A q \in Requests \ {r} : usage'[q] = usage[q]
    BY <2>1 DEF UInv
  <2> HIDE DEF totals
  <2>3. handler[r].pc = "thread" /\ Answer(r, 200, None)
    BY <1>2 DEF Rollup
  <2>4. /\ DOMAIN new = DOMAIN NoUsage /\ new.kind = "thread"
        /\ new.start = usage[r].start /\ new.end = usage[r].end
    BY <1>1, <2>3 DEF Proper, NoUsage
  <2> HIDE DEF new
  <2>5. Proper("done", new, 200)
    BY <1>1, <2>4 DEF Proper, Registering
  <2>6. Proper(handler'[r].pc, usage'[r], told'[r].code)
    BY <2>2, <2>3, <2>5, Answers DEF UInv
  <2> QED BY <1>0, <2>2, <2>3, <2>6, Answers, ProperFrame DEF UInv
<1>3. CASE Refuse(r)
  <2>1. handler[r].pc = "refuse" /\ Answer(r, 422, None) /\ UNCHANGED usage
    BY <1>3 DEF Refuse, usageVars
  <2>2. Proper("done", usage[r], 422)
    BY <1>1 DEF Proper, Registering
  <2>3. Proper(handler'[r].pc, usage'[r], told'[r].code)
    BY <2>1, <2>2, Answers DEF UInv
  <2> QED BY <1>0, <2>1, <2>3, Answers, ProperFrame DEF UInv
<1>4. CASE Fail(r)
  <2>1. Answer(r, 500, None) /\ usage' = [usage EXCEPT ![r] = NoUsage]
    BY <1>4 DEF Fail
  <2>2. DOMAIN usage' = Requests /\ usage'[r] = NoUsage
        /\ \A q \in Requests \ {r} : usage'[q] = usage[q]
    BY <2>1 DEF UInv
  <2>3. Proper(handler'[r].pc, usage'[r], told'[r].code)
    BY <2>1, <2>2, Answers, NoUsageProper DEF UInv
  <2> QED BY <1>0, <2>1, <2>2, <2>3, Answers, ProperFrame DEF UInv
<1> QED BY <1>2, <1>3, <1>4

LEMMA CrashUsage ==
    ASSUME UInv, Crash
    PROVE  UInv'
<1>0. RInv' /\ now' \in Nat /\ TracesFinite'
  BY CrashKeeps DEF UInv, Crash, TracesFinite
<1>1. /\ DOMAIN usage' = Requests /\ told' = told
      /\ \A r \in Requests :
           /\ handler'[r].pc = IF handler[r].pc \in {"idle", "done"} THEN handler[r].pc ELSE "lost"
           /\ usage'[r] = IF handler[r].pc \in {"idle", "done"} THEN usage[r] ELSE NoUsage
  BY DEF Crash, CrashHandlers, UInv, RInv, Typed
<1>2. ASSUME NEW r \in Requests PROVE Proper(handler'[r].pc, usage'[r], told'[r].code)
  BY <1>1, NoUsageProper DEF UInv
<1>3. \A r \in Requests : Proper(handler[r].pc, usage[r], told[r].code)'
  BY <1>2 DEF Proper, Counted, Within
<1> QED BY <1>0, <1>1, <1>3 DEF UInv

LEMMA UsageInvStep == UInv /\ [Next]_vars => UInv'
<1> SUFFICES ASSUME UInv, [Next]_vars PROVE UInv'
  OBVIOUS
<1>0. RInv'
  BY StepKeeps DEF UInv
<1>1. CASE \E r \in Requests : RegistrationStep(r) /\ UNCHANGED usageVars
  BY <1>1, RegistrationUsage
<1>2. CASE \E r \in Requests : UsageStep(r)
  BY <1>2, ReportUsage, AskUsage, TraceUsage, OverviewUsage, RowsUsage, EndUsage DEF UsageStep
<1>3. CASE Crash
  BY <1>3, CrashUsage
<1>4. CASE Tick \/ UNCHANGED vars
  <2>1. /\ UNCHANGED <<registrationVars, traces, usage>> /\ now' \in Nat
    BY <1>4 DEF Tick, vars, usageVars, UInv
  <2>2. handler' = handler /\ told' = told /\ traces' = traces /\ usage' = usage
    BY <2>1 DEF registrationVars
  <2>3. ASSUME NEW r \in Requests PROVE Proper(handler'[r].pc, usage'[r], told'[r].code)
    BY <2>2 DEF UInv
  <2>4. \A r \in Requests : Proper(handler[r].pc, usage[r], told[r].code)'
    BY <2>3 DEF Proper, Counted, Within
  <2> QED BY <1>0, <2>1, <2>2, <2>4 DEF UInv, TracesFinite
<1> QED BY <1>1, <1>2, <1>3, <1>4 DEF Next

LEMMA UsageInit == Init => UInv
<1> SUFFICES ASSUME Init PROVE UInv
  OBVIOUS
<1>1. /\ now = 0 /\ traces \in Earlier /\ usage = [r \in Requests |-> NoUsage]
      /\ handler = [r \in Requests |-> Idle] /\ told = [r \in Requests |-> Nothing]
  BY DEF Init, RegistrationInit
<1>2. TracesFinite
  BY <1>1, ObservabilityAssumption DEF TracesFinite
<1>3. \A r \in Requests : Proper(handler[r].pc, usage[r], told[r].code)
  BY <1>1, NoUsageProper DEF Idle
<1> QED BY <1>1, <1>2, <1>3, InitHolds DEF UInv

\* A day later is at least a day's length of ticks later.
LEMMA Midnights ==
    ASSUME NEW x \in Int, NEW y \in Int, x <= y
    PROVE  x * DayLength <= y * DayLength
<1>1. DayLength \in Nat /\ (y - x) \in Nat
  BY ObservabilityAssumption
<1>2. (y - x) * DayLength >= 0
  BY <1>1
<1>3. (y - x) * DayLength = y * DayLength - x * DayLength
  BY <1>1
<1> QED BY <1>1, <1>2, <1>3

LEMMA DisjointCount ==
    ASSUME NEW S, NEW T, IsFiniteSet(S), IsFiniteSet(T), S \cap T = {}
    PROVE  Cardinality(S \cup T) = Cardinality(S) + Cardinality(T) /\ IsFiniteSet(S \cup T)
<1>1. Cardinality(S \cap T) = 0
  BY FS_EmptySet
<1>2. Cardinality(S) \in Nat /\ Cardinality(T) \in Nat
  BY FS_CardinalityType
<1> QED BY <1>1, <1>2, FS_Union

LEMMA WindowsPart == UInv => DaysPartition
<1> SUFFICES ASSUME UInv,
                    NEW first \in {q \in Requests : Reported(q)},
                    NEW second \in {q \in Requests : Reported(q)},
                    NEW whole \in {q \in Requests : Reported(q)},
                    usage[first].org = usage[whole].org, usage[second].org = usage[whole].org,
                    usage[first].start = usage[whole].start,
                    usage[second].start = usage[first].end + 1,
                    usage[second].end = usage[whole].end
             PROVE  /\ usage[first].before \cup usage[second].before \subseteq usage[whole].before =>
                          usage[first].overview.calls + usage[second].overview.calls
                             <= usage[whole].overview.calls
                    /\ usage[whole].before \subseteq usage[first].before \cap usage[second].before =>
                          usage[whole].overview.calls
                             <= usage[first].overview.calls + usage[second].overview.calls
  BY DEF DaysPartition
<1> DEFINE a == usage[first]
           b == usage[second]
           c == usage[whole]
           In(u) == {t \in u.before : t.org = u.org /\ Within(t, u)}
<1>1. Counted(a) /\ Counted(b) /\ Counted(c)
  BY DEF UInv, Proper, Reported
<1>2. /\ a.start \in Int /\ a.end \in Int /\ b.start \in Int /\ b.end \in Int
      /\ c.start \in Int /\ c.end \in Int
  BY DEF UInv, Proper
<1>3. (a.start) * DayLength \in Int /\ (b.start) * DayLength \in Int /\ (b.end + 1) * DayLength \in Int
  BY <1>2, ObservabilityAssumption
<1>4. (a.start) * DayLength <= (b.start) * DayLength /\ (b.start) * DayLength <= (b.end + 1) * DayLength
  <2>1. a.start <= b.start /\ b.start <= b.end + 1
    BY <1>1, <1>2 DEF Counted
  <2> QED BY <1>2, <2>1, Midnights
<1>5. /\ IsFiniteSet(In(a)) /\ IsFiniteSet(In(b)) /\ IsFiniteSet(In(c))
      /\ a.overview.calls = Cardinality(In(a)) /\ b.overview.calls = Cardinality(In(b))
      /\ c.overview.calls = Cardinality(In(c))
  BY <1>1, FS_Subset DEF Counted
<1>6. In(a) \cap In(b) = {}
  <2> SUFFICES ASSUME NEW t \in In(a), t \in In(b) PROVE FALSE
    OBVIOUS
  <2>1. t.created_at \in Nat
    BY <1>1 DEF Counted
  <2>2. t.created_at < (b.start) * DayLength /\ (b.start) * DayLength <= t.created_at
    BY DEF Within
  <2> QED BY <1>3, <2>1, <2>2
<1>7. Cardinality(In(a) \cup In(b)) = Cardinality(In(a)) + Cardinality(In(b))
      /\ IsFiniteSet(In(a) \cup In(b))
  BY <1>5, <1>6, DisjointCount
<1>8. ASSUME a.before \cup b.before \subseteq c.before
      PROVE  a.overview.calls + b.overview.calls <= c.overview.calls
  <2>1. In(a) \cup In(b) \subseteq In(c)
    <3>1. ASSUME NEW t \in In(a) PROVE t \in In(c)
      <4>1. t.created_at \in Nat
        BY <1>1 DEF Counted
      <4>2. (c.start) * DayLength <= t.created_at /\ t.created_at < (b.start) * DayLength
        BY DEF Within
      <4>3. t.created_at < (c.end + 1) * DayLength
        BY <1>3, <1>4, <4>1, <4>2
      <4> QED BY <1>8, <4>2, <4>3 DEF Within
    <3>2. ASSUME NEW t \in In(b) PROVE t \in In(c)
      <4>1. t.created_at \in Nat
        BY <1>1 DEF Counted
      <4>2. (b.start) * DayLength <= t.created_at /\ t.created_at < (c.end + 1) * DayLength
        BY DEF Within
      <4>3. (c.start) * DayLength <= t.created_at
        BY <1>3, <1>4, <4>1, <4>2
      <4> QED BY <1>8, <4>2, <4>3 DEF Within
    <3> QED BY <3>1, <3>2
  <2> HIDE DEF In, a, b, c
  <2> QED BY <1>5, <1>7, <2>1, FS_Subset
<1>9. ASSUME c.before \subseteq a.before \cap b.before
      PROVE  c.overview.calls <= a.overview.calls + b.overview.calls
  <2>1. In(c) \subseteq In(a) \cup In(b)
    <3> SUFFICES ASSUME NEW t \in In(c) PROVE t \in In(a) \cup In(b)
      OBVIOUS
    <3>1. t.created_at \in Nat
      BY <1>1 DEF Counted
    <3>2. (a.start) * DayLength <= t.created_at /\ t.created_at < (b.end + 1) * DayLength
      BY DEF Within
    <3>3. t \in a.before /\ t \in b.before /\ t.org = a.org /\ t.org = b.org
      BY <1>9
    <3>4. CASE t.created_at < (b.start) * DayLength
      BY <3>2, <3>3, <3>4 DEF Within
    <3>5. CASE (b.start) * DayLength <= t.created_at
      BY <3>2, <3>3, <3>5 DEF Within
    <3> QED BY <1>3, <3>1, <3>4, <3>5
  <2> HIDE DEF In, a, b, c
  <2> QED BY <1>5, <1>7, <2>1, FS_Subset
<1> QED BY <1>8, <1>9

\* Reports of adjacent windows count each trace of the whole once, however
\* traces are committed and reports are made in between.
THEOREM DaysPartitionCorrect == Spec => []DaysPartition
BY UsageInit, UsageInvStep, WindowsPart, PTL DEF Spec

------------------------------------------------------------------------------
(* Sums over finite sets *)

Pick(s) == CHOOSE x \in s : TRUE

\* it[s] is the sum of f over s, for every s \subseteq S.
Sums(it, f, S) ==
    it = [s \in SUBSET S |-> IF s = {} THEN 0 ELSE f[Pick(s)] + it[s \ {Pick(s)}]]

Total(f, S) == (CHOOSE it : Sums(it, f, S))[S]

LEMMA Least ==
    ASSUME NEW B \in SUBSET Nat, B # {}
    PROVE  \E n \in B : \A m \in B : n <= m
<1>1. PICK n \in B : \A m \in B : ~ (<<m, n>> \in OpToRel(<, Nat))
  BY WFMin, NatLessThanWellFounded
<1>2. \A m \in B : ~ (m < n)
  BY <1>1 DEF OpToRel
<1> QED BY <1>2

LEMMA PickIn == \A s : s # {} => Pick(s) \in s
BY DEF Pick

LEMMA SumExists ==
    ASSUME NEW S, IsFiniteSet(S), NEW f
    PROVE  \E it : Sums(it, f, S)
<1> DEFINE Small(n) == {s \in SUBSET S : Cardinality(s) <= n}
           Body(it, s) == IF s = {} THEN 0 ELSE f[Pick(s)] + it[s \ {Pick(s)}]
           Upto(it, n) == it = [s \in Small(n) |-> Body(it, s)]
           Bad == {n \in Nat : \A it : ~Upto(it, n)}
<1>1. Cardinality(S) \in Nat /\ \A s \in SUBSET S : IsFiniteSet(s) /\ Cardinality(s) \in Nat
  BY FS_CardinalityType, FS_Subset
<1>2. Bad = {}
  <2>1. SUFFICES ASSUME Bad # {} PROVE FALSE
    OBVIOUS
  <2>2. PICK n \in Bad : \A m \in Bad : n <= m
    BY <2>1, Least
  <2>3. CASE n = 0
    <3> DEFINE it == [s \in Small(0) |-> 0]
    <3>1. \A s \in Small(0) : s = {}
      BY <1>1, FS_EmptySet
    <3>2. Upto(it, 0)
      BY <3>1
    <3> QED BY <2>3, <3>2
  <2>4. CASE n # 0
    <3>1. n - 1 \in Nat /\ n - 1 \notin Bad
      <4>1. n \in Nat
        OBVIOUS
      <4> HIDE DEF Bad
      <4> QED BY <2>2, <2>4, <4>1
    <3>2. PICK it : Upto(it, n - 1)
      BY <3>1
    <3> DEFINE jt == [s \in Small(n) |-> Body(it, s)]
    <3>3. ASSUME NEW s \in Small(n) PROVE Body(it, s) = Body(jt, s)
      <4>1. CASE s = {}
        BY <4>1
      <4>2. CASE s # {}
        <5> DEFINE t == s \ {Pick(s)}
        <5>1. t \in SUBSET S /\ Cardinality(t) = Cardinality(s) - 1
          BY <1>1, <4>2, PickIn, FS_RemoveElement
        <5>2. t \in Small(n - 1) /\ t \in Small(n)
          BY <5>1, <1>1
        <5>3. it[t] = Body(it, t) /\ jt[t] = Body(it, t)
          BY <3>2, <5>2
        <5> QED BY <4>2, <5>3
      <4> QED BY <4>1, <4>2
    <3>4. Upto(jt, n)
      BY <3>3
    <3> QED BY <2>2, <3>4
  <2> QED BY <2>3, <2>4
<1>3. PICK it : Upto(it, Cardinality(S))
  <2> HIDE DEF Upto
  <2> QED BY <1>1, <1>2
<1>4. Small(Cardinality(S)) = SUBSET S
  BY FS_Subset, FS_CardinalityType
<1> QED BY <1>3, <1>4 DEF Sums

\* Induction on the size of a set, as a smallest counterexample.
LEMMA Smallest ==
    ASSUME NEW S, IsFiniteSet(S), NEW B \in SUBSET (SUBSET S), B # {}
    PROVE  \E s \in B : IsFiniteSet(s) /\ \A x \in s : s \ {x} \notin B
<1> DEFINE Sizes == {Cardinality(s) : s \in B}
<1>1. \A s \in B : IsFiniteSet(s) /\ Cardinality(s) \in Nat
  BY FS_CardinalityType, FS_Subset
<1>2. Sizes \in SUBSET Nat /\ Sizes # {}
  BY <1>1
<1>3. PICK n \in Sizes : \A m \in Sizes : n <= m
  BY <1>2, Least
<1>4. PICK s \in B : n = Cardinality(s)
  OBVIOUS
<1>5. ASSUME NEW x \in s PROVE s \ {x} \notin B
  <2>1. Cardinality(s \ {x}) = n - 1 /\ n \in Nat
    BY <1>1, <1>4, FS_RemoveElement
  <2> QED BY <1>3, <2>1
<1> QED BY <1>1, <1>5

LEMMA SumUnique ==
    ASSUME NEW S, IsFiniteSet(S), NEW T \in SUBSET S, NEW f, NEW it, NEW jt,
           Sums(it, f, S), Sums(jt, f, T)
    PROVE  it[T] = jt[T]
<1> DEFINE Bad == {s \in SUBSET T : it[s] # jt[s]}
<1>1. SUFFICES ASSUME Bad # {} PROVE FALSE
  OBVIOUS
<1>2. IsFiniteSet(T)
  BY FS_Subset
<1>3. PICK s \in Bad : \A x \in s : s \ {x} \notin Bad
  BY <1>1, <1>2, Smallest
<1>4. CASE s = {}
  BY <1>4 DEF Sums
<1>5. CASE s # {}
  <2>1. Pick(s) \in s
    BY <1>5, PickIn
  <2>2. it[s] = f[Pick(s)] + it[s \ {Pick(s)}] /\ jt[s] = f[Pick(s)] + jt[s \ {Pick(s)}]
    BY <1>5 DEF Sums
  <2> QED BY <1>3, <2>1, <2>2
<1> QED BY <1>4, <1>5

LEMMA TotalOf ==
    ASSUME NEW S, IsFiniteSet(S), NEW f
    PROVE  Total(f, S) = IF S = {} THEN 0 ELSE f[Pick(S)] + Total(f, S \ {Pick(S)})
<1>1. \A T \in SUBSET S : Sums(CHOOSE it : Sums(it, f, T), f, T)
  BY SumExists, FS_Subset
<1> DEFINE it(T) == CHOOSE it : Sums(it, f, T)
<1>2. Sums(it(S), f, S)
  BY <1>1
<1>3. S # {} => it(S)[S \ {Pick(S)}] = it(S \ {Pick(S)})[S \ {Pick(S)}]
  <2>1. S \ {Pick(S)} \in SUBSET S
    OBVIOUS
  <2>2. Sums(it(S \ {Pick(S)}), f, S \ {Pick(S)})
    BY <1>1, <2>1
  <2> HIDE DEF it
  <2> QED BY <1>2, <2>1, <2>2, SumUnique
<1>4. it(S)[S] = IF S = {} THEN 0 ELSE f[Pick(S)] + it(S)[S \ {Pick(S)}]
  <2> HIDE DEF it
  <2> QED BY <1>2 DEF Sums
<1> QED BY <1>3, <1>4 DEF Total

LEMMA TotalType ==
    ASSUME NEW S, IsFiniteSet(S), NEW f, \A x \in S : f[x] \in Nat
    PROVE  Total(f, S) \in Nat
<1> DEFINE Bad == {s \in SUBSET S : Total(f, s) \notin Nat}
<1>1. SUFFICES ASSUME Bad # {} PROVE FALSE
  OBVIOUS
<1>2. PICK s \in Bad : IsFiniteSet(s) /\ \A x \in s : s \ {x} \notin Bad
  BY <1>1, Smallest
<1>3. Total(f, s) = IF s = {} THEN 0 ELSE f[Pick(s)] + Total(f, s \ {Pick(s)})
  BY <1>2, TotalOf
<1>4. CASE s = {}
  BY <1>3, <1>4
<1>5. CASE s # {}
  BY <1>2, <1>3, <1>5, PickIn
<1> QED BY <1>4, <1>5

\* Whichever element is added last.
LEMMA TotalAny ==
    ASSUME NEW S, IsFiniteSet(S), NEW f, \A x \in S : f[x] \in Nat, NEW x \in S
    PROVE  Total(f, S) = f[x] + Total(f, S \ {x})
<1> DEFINE Bad == {s \in SUBSET S : \E y \in s : Total(f, s) # f[y] + Total(f, s \ {y})}
<1>1. SUFFICES ASSUME Bad # {} PROVE FALSE
  OBVIOUS
<1>2. PICK s \in Bad : IsFiniteSet(s) /\ \A y \in s : s \ {y} \notin Bad
  BY <1>1, Smallest
<1>3. PICK y \in s : Total(f, s) # f[y] + Total(f, s \ {y})
  OBVIOUS
<1> DEFINE z == Pick(s)
<1>4. z \in s /\ Total(f, s) = f[z] + Total(f, s \ {z})
  BY <1>2, <1>3, TotalOf, PickIn
<1>5. z # y
  BY <1>3, <1>4
<1> HIDE DEF z
<1> DEFINE u == s \ {y}
           v == s \ {z}
           w == u \ {z}
<1>6. Total(f, v) = f[y] + Total(f, v \ {y})
  BY <1>2, <1>4, <1>5
<1>7. Total(f, u) = f[z] + Total(f, u \ {z})
  BY <1>2, <1>4, <1>5
<1>8. v \ {y} = w /\ w \in SUBSET S /\ IsFiniteSet(w)
  BY <1>2, FS_Subset
<1>9. Total(f, w) \in Nat /\ f[y] \in Nat /\ f[z] \in Nat
  BY <1>4, <1>8, TotalType
<1> HIDE DEF u, v, w, Bad
<1>10. Total(f, s) = f[z] + (f[y] + Total(f, w)) /\ Total(f, u) = f[z] + Total(f, w)
  BY <1>4, <1>6, <1>7, <1>8 DEF w, v
<1>11. Total(f, s) # f[y] + Total(f, u)
  BY <1>3 DEF u
<1> QED BY <1>9, <1>10, <1>11

LEMMA TotalSame ==
    ASSUME NEW S, IsFiniteSet(S), NEW f, NEW g, \A x \in S : f[x] = g[x]
    PROVE  Total(f, S) = Total(g, S)
<1> DEFINE Bad == {s \in SUBSET S : Total(f, s) # Total(g, s)}
<1>1. SUFFICES ASSUME Bad # {} PROVE FALSE
  OBVIOUS
<1>2. PICK s \in Bad : IsFiniteSet(s) /\ \A x \in s : s \ {x} \notin Bad
  BY <1>1, Smallest
<1>3. /\ Total(f, s) = IF s = {} THEN 0 ELSE f[Pick(s)] + Total(f, s \ {Pick(s)})
      /\ Total(g, s) = IF s = {} THEN 0 ELSE g[Pick(s)] + Total(g, s \ {Pick(s)})
  BY <1>2, TotalOf
<1>4. CASE s = {}
  BY <1>3, <1>4
<1>5. CASE s # {}
  BY <1>2, <1>3, <1>5, PickIn
<1> QED BY <1>4, <1>5

\* A sum over two sets that share nothing.
LEMMA TotalDisjoint ==
    ASSUME NEW S, IsFiniteSet(S), NEW f, \A x \in S : f[x] \in Nat, NEW T \in SUBSET S
    PROVE  Total(f, S) = Total(f, S \ T) + Total(f, T)
<1> DEFINE Bad == {s \in SUBSET T : Total(f, (S \ T) \cup s) # Total(f, S \ T) + Total(f, s)}
<1>1. SUFFICES ASSUME Bad # {} PROVE FALSE
  <2>1. T \notin Bad /\ (S \ T) \cup T = S
    OBVIOUS
  <2> QED BY <2>1
<1>2. IsFiniteSet(T)
  BY FS_Subset
<1>3. PICK s \in Bad : IsFiniteSet(s) /\ \A x \in s : s \ {x} \notin Bad
  BY <1>1, <1>2, Smallest
<1> DEFINE rest == S \ T
           all == rest \cup s
<1>4. IsFiniteSet(rest) /\ IsFiniteSet(all) /\ all \subseteq S
  BY FS_Subset
<1>5. Total(f, rest) \in Nat
  BY <1>4, TotalType
<1>6. CASE s = {}
  <2>1. Total(f, s) = 0
    BY <1>3, <1>6, TotalOf
  <2> QED BY <1>5, <1>6, <2>1
<1>7. CASE s # {}
  <2>1. PICK x \in s : TRUE
    BY <1>7
  <2> DEFINE t == s \ {x}
  <2>2. Total(f, rest \cup t) = Total(f, rest) + Total(f, t)
    BY <1>3, <2>1
  <2>3. Total(f, s) = f[x] + Total(f, t)
    BY <1>3, <2>1, TotalAny
  <2>4. Total(f, all) = f[x] + Total(f, all \ {x})
    BY <1>4, TotalAny
  <2>5. Total(f, all) = f[x] + Total(f, rest \cup t)
    <3>1. all \ {x} = rest \cup t
      OBVIOUS
    <3> QED BY <2>4, <3>1
  <2>6. IsFiniteSet(t) /\ Total(f, t) \in Nat /\ f[x] \in Nat
    <3>1. IsFiniteSet(t) /\ t \subseteq S
      BY <1>3, FS_Subset
    <3> QED BY <3>1, TotalType
  <2>7. Total(f, all) # Total(f, rest) + Total(f, s)
    OBVIOUS
  <2> HIDE DEF t, rest, all
  <2> QED BY <1>5, <2>2, <2>3, <2>5, <2>6, <2>7
<1> QED BY <1>6, <1>7

------------------------------------------------------------------------------
(* What totals add up to *)

Rated(ts) == IsFiniteSet(ts) /\ \A t \in ts : t.call.tokens \in Nat \cup {None}

Burnt(ts) == [t \in ts |-> Tokens(t)]
Column(part, rows) == [row \in rows |-> row.totals[part]]

Parts == {"calls", "tokens", "successes"}

\* The sums of a report are those that the lemmas above are about.
LEMMA TokensTotal ==
    ASSUME NEW S, IsFiniteSet(S)
    PROVE  MapThenSumSet(Tokens, S) = Total(Burnt(S), S)
<1> DEFINE P(it) == it = [s \in SUBSET S |->
                            IF s = {} THEN 0
                            ELSE Tokens(CHOOSE x \in s : TRUE) + it[s \ {CHOOSE x \in s : TRUE}]]
           iter == CHOOSE it : P(it)
<1>1. MapThenSumSet(Tokens, S) = iter[S]
  BY DEF MapThenSumSet, MapThenFoldSet
<1>2. ASSUME NEW it PROVE P(it) <=> Sums(it, Burnt(S), S)
  <2>1. \A s \in SUBSET S : s # {} => Burnt(S)[Pick(s)] = Tokens(CHOOSE x \in s : TRUE)
    BY PickIn DEF Pick, Burnt
  <2>2. [s \in SUBSET S |->
           IF s = {} THEN 0
           ELSE Tokens(CHOOSE x \in s : TRUE) + it[s \ {CHOOSE x \in s : TRUE}]]
        = [s \in SUBSET S |->
             IF s = {} THEN 0 ELSE Burnt(S)[Pick(s)] + it[s \ {Pick(s)}]]
    BY <2>1 DEF Pick
  <2> QED BY <2>2 DEF Sums
<1>3. \E it : P(it)
  <2> HIDE DEF P
  <2> QED BY <1>2, SumExists
<1>4. Sums(iter, Burnt(S), S)
  <2> HIDE DEF P
  <2>1. P(CHOOSE it : P(it))
    BY <1>3, Zenon
  <2> QED BY <1>2, <2>1
<1>5. Sums(CHOOSE it : Sums(it, Burnt(S), S), Burnt(S), S)
  BY SumExists
<1> HIDE DEF iter
<1>6. iter[S] = Total(Burnt(S), S)
  BY <1>4, <1>5, SumUnique DEF Total
<1> QED BY <1>1, <1>6

LEMMA ColumnTotal ==
    ASSUME NEW part, NEW S, IsFiniteSet(S)
    PROVE  MapThenSumSet(LAMBDA row : row.totals[part], S) = Total(Column(part, S), S)
<1> DEFINE P(it) == it = [s \in SUBSET S |->
                            IF s = {} THEN 0
                            ELSE (CHOOSE x \in s : TRUE).totals[part] + it[s \ {CHOOSE x \in s : TRUE}]]
           iter == CHOOSE it : P(it)
<1>1. MapThenSumSet(LAMBDA row : row.totals[part], S) = iter[S]
  BY DEF MapThenSumSet, MapThenFoldSet
<1>2. ASSUME NEW it PROVE P(it) <=> Sums(it, Column(part, S), S)
  <2>1. \A s \in SUBSET S : s # {} => Column(part, S)[Pick(s)] = (CHOOSE x \in s : TRUE).totals[part]
    BY PickIn DEF Pick, Column
  <2>2. [s \in SUBSET S |->
           IF s = {} THEN 0
           ELSE (CHOOSE x \in s : TRUE).totals[part] + it[s \ {CHOOSE x \in s : TRUE}]]
        = [s \in SUBSET S |->
             IF s = {} THEN 0 ELSE Column(part, S)[Pick(s)] + it[s \ {Pick(s)}]]
    BY <2>1 DEF Pick
  <2> QED BY <2>2 DEF Sums
<1>3. \E it : P(it)
  <2> HIDE DEF P
  <2> QED BY <1>2, SumExists
<1>4. Sums(iter, Column(part, S), S)
  <2> HIDE DEF P
  <2>1. P(CHOOSE it : P(it))
    BY <1>3, Zenon
  <2> QED BY <1>2, <2>1
<1>5. Sums(CHOOSE it : Sums(it, Column(part, S), S), Column(part, S), S)
  BY SumExists
<1> HIDE DEF iter
<1>6. iter[S] = Total(Column(part, S), S)
  BY <1>4, <1>5, SumUnique DEF Total
<1> QED BY <1>1, <1>6

LEMMA TotalsTyped ==
    ASSUME NEW S, Rated(S), NEW part \in Parts
    PROVE  Totals(S)[part] \in Nat
<1>1. Cardinality(S) \in Nat /\ Cardinality({t \in S : t.call.success}) \in Nat
  BY FS_CardinalityType, FS_Subset DEF Rated
<1>2. MapThenSumSet(Tokens, S) = Total(Burnt(S), S)
  BY TokensTotal DEF Rated
<1>3. \A t \in S : Burnt(S)[t] \in Nat
  BY DEF Rated, Burnt, Tokens
<1>4. Total(Burnt(S), S) \in Nat
  BY <1>3, TotalType DEF Rated
<1>5. Totals(S) = [calls |-> Cardinality(S), tokens |-> Total(Burnt(S), S),
                   successes |-> Cardinality({t \in S : t.call.success})]
  BY <1>2 DEF Totals
<1> QED BY <1>1, <1>4, <1>5 DEF Parts

\* The totals of two sets of traces that share none are those of both.
LEMMA TotalsDisjoint ==
    ASSUME NEW S, Rated(S), NEW T \in SUBSET S, NEW part \in Parts
    PROVE  Totals(S)[part] = Totals(S \ T)[part] + Totals(T)[part]
<1> DEFINE U == S \ T
           Good(ts) == {t \in ts : t.call.success}
<1>0. Rated(T) /\ Rated(U) /\ T \cup U = S /\ T \cap U = {}
  BY FS_Subset DEF Rated
<1>1. CASE part = "calls"
  <2>1. Cardinality(S) = Cardinality(U) + Cardinality(T)
    <3>1. Cardinality(T \cup U) = Cardinality(T) + Cardinality(U)
      BY <1>0, DisjointCount DEF Rated
    <3>2. Cardinality(T) \in Nat /\ Cardinality(U) \in Nat
      BY <1>0, FS_CardinalityType DEF Rated
    <3> HIDE DEF U
    <3> QED BY <1>0, <3>1, <3>2
  <2> QED BY <1>1, <2>1 DEF Totals
<1>2. CASE part = "successes"
  <2>1. Good(T) \cup Good(U) = Good(S) /\ Good(T) \cap Good(U) = {}
    OBVIOUS
  <2>2. IsFiniteSet(Good(T)) /\ IsFiniteSet(Good(U))
    BY <1>0, FS_Subset DEF Rated
  <2>3. Cardinality(Good(S)) = Cardinality(Good(U)) + Cardinality(Good(T))
    <3>1. Cardinality(Good(T) \cup Good(U)) = Cardinality(Good(T)) + Cardinality(Good(U))
      BY <2>1, <2>2, DisjointCount
    <3>2. Cardinality(Good(T)) \in Nat /\ Cardinality(Good(U)) \in Nat
      BY <2>2, FS_CardinalityType
    <3> HIDE DEF U, Good
    <3> QED BY <2>1, <3>1, <3>2
  <2> QED BY <1>2, <2>3 DEF Totals
<1>3. CASE part = "tokens"
  <2> DEFINE f == Burnt(S)
  <2>1. \A t \in S : f[t] \in Nat
    BY DEF Rated, Burnt, Tokens
  <2>2. Total(f, S) = Total(f, U) + Total(f, T)
    BY <2>1, TotalDisjoint DEF Rated
  <2>3. Total(f, U) = Total(Burnt(U), U) /\ Total(f, T) = Total(Burnt(T), T)
    <3>1. (\A t \in U : f[t] = Burnt(U)[t]) /\ (\A t \in T : f[t] = Burnt(T)[t])
      BY DEF Burnt
    <3> HIDE DEF f, U
    <3> QED BY <1>0, <3>1, TotalSame DEF Rated
  <2>4. /\ Totals(S).tokens = Total(Burnt(S), S) /\ Totals(U).tokens = Total(Burnt(U), U)
        /\ Totals(T).tokens = Total(Burnt(T), T)
    <3> HIDE DEF U
    <3> QED BY <1>0, TokensTotal DEF Totals, Rated
  <2> HIDE DEF f, U
  <2> QED BY <1>3, <2>2, <2>3, <2>4 DEF f, U
<1> QED BY <1>1, <1>2, <1>3 DEF Parts, U

LEMMA TotalsGrow ==
    ASSUME NEW S, Rated(S), NEW T \in SUBSET S
    PROVE  AtMost(Totals(T), Totals(S))
<1> SUFFICES ASSUME NEW part \in Parts PROVE Totals(T)[part] <= Totals(S)[part]
  BY DEF AtMost, Totals, Parts
<1>1. Rated(T) /\ Rated(S \ T)
  BY FS_Subset DEF Rated
<1>2. Totals(T)[part] \in Nat /\ Totals(S \ T)[part] \in Nat
  BY <1>1, TotalsTyped
<1>3. Totals(S)[part] = Totals(S \ T)[part] + Totals(T)[part]
  BY TotalsDisjoint
<1> QED BY <1>2, <1>3

LEMMA NothingTotals ==
    ASSUME NEW part \in Parts
    PROVE  Totals({})[part] = 0
<1>1. Rated({}) /\ {} \in SUBSET {} /\ {} \ {} = {}
  BY FS_EmptySet DEF Rated
<1>2. Totals({})[part] = Totals({})[part] + Totals({})[part]
  BY <1>1, TotalsDisjoint
<1>3. Totals({})[part] \in Nat
  BY <1>1, TotalsTyped
<1>4. \A n \in Nat : n = n + n => n = 0
  OBVIOUS
<1> QED BY <1>2, <1>3, <1>4

LEMMA ImageFinite ==
    ASSUME NEW f, IsFiniteSet(DOMAIN f)
    PROVE  IsFiniteSet({f[x] : x \in DOMAIN f})
<1> DEFINE image == {f[x] : x \in DOMAIN f}
           g == [x \in DOMAIN f |-> f[x]]
<1>1. g \in Surjection(DOMAIN f, image)
  BY DEF Surjection
<1> QED BY <1>1, FS_Surjection

\* The rows of a grouped query add up to the totals, whatever is grouped by.
LEMMA RowsAddUp ==
    ASSUME NEW S, Rated(S), NEW column
    PROVE  SumOf(GroupedBy(column, S)) = Totals(S)
<1> DEFINE Key(t) == t.call[column]
           keys == {Key(t) : t \in S}
           Of(K) == {t \in S : Key(t) \in K}
           Group(k) == {t \in S : Key(t) = k}
           Row(k) == [key |-> k, totals |-> Totals(Group(k))]
           Rows(K) == {Row(k) : k \in K}
<1>1. GroupedBy(column, S) = Rows(keys) /\ Of(keys) = S
  BY DEF GroupedBy
<1>2. /\ IsFiniteSet(keys) /\ \A K \in SUBSET keys : IsFiniteSet(Rows(K))
      /\ \A K : Rated(Of(K)) /\ \A k : Rated(Group(k))
  <2>1. IsFiniteSet(keys)
    <3> DEFINE f == [t \in S |-> Key(t)]
    <3>1. keys = {f[t] : t \in DOMAIN f} /\ DOMAIN f = S
      OBVIOUS
    <3> HIDE DEF f, keys
    <3> QED BY <3>1, ImageFinite DEF Rated
  <2>2. \A K \in SUBSET keys : IsFiniteSet(K)
    BY <2>1, FS_Subset
  <2>3. ASSUME NEW K, IsFiniteSet(K) PROVE IsFiniteSet(Rows(K))
    <3> DEFINE f == [k \in K |-> Row(k)]
    <3>1. Rows(K) = {f[k] : k \in DOMAIN f} /\ DOMAIN f = K
      OBVIOUS
    <3> HIDE DEF f, Rows
    <3> QED BY <2>3, <3>1, ImageFinite
  <2>4. ASSUME NEW T \in SUBSET S PROVE Rated(T)
    BY FS_Subset DEF Rated
  <2>5. \A K : Of(K) \in SUBSET S /\ \A k : Group(k) \in SUBSET S
    OBVIOUS
  <2> HIDE DEF Of, Group, Rows, keys
  <2> QED BY <2>1, <2>2, <2>3, <2>4, <2>5
<1>3. ASSUME NEW part \in Parts
      PROVE  Total(Column(part, Rows(keys)), Rows(keys)) = Totals(S)[part]
  <2> DEFINE f == Column(part, Rows(keys))
             Bad == {K \in SUBSET keys : Total(f, Rows(K)) # Totals(Of(K))[part]}
  <2>1. \A k \in keys : f[Row(k)] = Totals(Group(k))[part] /\ f[Row(k)] \in Nat
    <3>1. \A k \in keys : f[Row(k)] = Totals(Group(k))[part]
      BY DEF Column
    <3>2. \A k \in keys : Totals(Group(k))[part] \in Nat
      <4> HIDE DEF Group, keys
      <4> QED BY <1>2, TotalsTyped
    <3> QED BY <3>1, <3>2
  <2>2. SUFFICES ASSUME Bad # {} PROVE FALSE
    <3>1. keys \notin Bad => Total(f, Rows(keys)) = Totals(Of(keys))[part]
      OBVIOUS
    <3> HIDE DEF keys, Of, Rows, f
    <3> QED BY <1>1, <3>1 DEF f
  <2>3. PICK K \in SUBSET keys :
           /\ Total(f, Rows(K)) # Totals(Of(K))[part]
           /\ \A k \in K : Total(f, Rows(K \ {k})) = Totals(Of(K \ {k}))[part]
    <3> HIDE DEF keys, Of, Rows, f
    <3>1. PICK K \in Bad : IsFiniteSet(K) /\ \A k \in K : K \ {k} \notin Bad
      BY <1>2, <2>2, Smallest
    <3> QED BY <3>1
  <2> HIDE DEF Bad
  <2>4. CASE K = {}
    <3>1. Rows(K) = {} /\ Of(K) = {}
      BY <2>4
    <3>2. Total(f, {}) = 0
      BY TotalOf, FS_EmptySet
    <3>3. Totals({})[part] = 0
      BY NothingTotals
    <3> HIDE DEF f, Rows, Of
    <3> QED BY <2>3, <3>1, <3>2, <3>3
  <2>5. CASE K # {}
    <3>1. PICK k \in K : TRUE
      BY <2>5
    <3> DEFINE L == K \ {k}
    <3>2. Total(f, Rows(L)) = Totals(Of(L))[part]
      BY <2>3, <3>1
    <3>3. Row(k) \in Rows(K) /\ Rows(K) \ {Row(k)} = Rows(L)
      <4>1. \A j \in K : Row(j) = Row(k) => j = k
        OBVIOUS
      <4> HIDE DEF Row
      <4> QED BY <4>1
    <3>4. Total(f, Rows(K)) = f[Row(k)] + Total(f, Rows(L))
      <4>1. \A row \in Rows(K) : f[row] \in Nat
        <5> HIDE DEF Row, f
        <5> QED BY <2>1
      <4>2. IsFiniteSet(Rows(K))
        BY <1>2
      <4> HIDE DEF f, Row, Rows
      <4>3. Total(f, Rows(K)) = f[Row(k)] + Total(f, Rows(K) \ {Row(k)})
        BY <3>3, <4>1, <4>2, TotalAny
      <4> QED BY <3>3, <4>3
    <3>5. Totals(Of(K))[part] = Totals(Of(L))[part] + Totals(Group(k))[part]
      <4>1. Group(k) \in SUBSET Of(K) /\ Of(K) \ Group(k) = Of(L)
        OBVIOUS
      <4>2. Rated(Of(K))
        BY <1>2
      <4> HIDE DEF Of, Group
      <4>3. Totals(Of(K))[part] = Totals(Of(K) \ Group(k))[part] + Totals(Group(k))[part]
        BY <4>1, <4>2, TotalsDisjoint
      <4> QED BY <4>1, <4>3
    <3>6. Totals(Of(L))[part] \in Nat
      <4>1. Rated(Of(L))
        BY <1>2
      <4> HIDE DEF Of
      <4> QED BY <4>1, TotalsTyped
    <3>7. f[Row(k)] = Totals(Group(k))[part] /\ f[Row(k)] \in Nat
      BY <2>1
    <3>8. Total(f, Rows(K)) # Totals(Of(K))[part]
      BY <2>3
    <3> HIDE DEF f, Rows, Row, Of, Group, L
    <3> QED BY <3>2, <3>4, <3>5, <3>6, <3>7, <3>8
  <2> QED BY <2>4, <2>5
<1>4. ASSUME NEW part \in Parts
      PROVE  MapThenSumSet(LAMBDA row : row.totals[part], Rows(keys)) = Totals(S)[part]
  <2>1. IsFiniteSet(Rows(keys))
    BY <1>2
  <2> HIDE DEF Rows, keys
  <2> QED BY <1>3, <2>1, ColumnTotal
<1>5. SumOf(Rows(keys)) = [part \in Parts |-> Totals(S)[part]]
  <2> HIDE DEF Rows, keys
  <2>1. SumOf(Rows(keys)) = [part \in Parts |-> MapThenSumSet(LAMBDA row : row.totals[part], Rows(keys))]
    BY DEF SumOf, NoTotals, Parts
  <2> QED BY <1>4, <2>1
<1>6. Totals(S) = [part \in Parts |-> Totals(S)[part]]
  BY DEF Totals, Parts
<1> HIDE DEF Rows, keys
<1> QED BY <1>1, <1>5, <1>6

------------------------------------------------------------------------------
(* What the queries of a report found *)

Seen(found, ts) == {t \in ts : t.org = found.org /\ Within(t, found)}

\* The overview tells the traces there were.
Summed(found) == found.overview = Totals(Seen(found, found.before))

\* The rows by model tell those there were later, among ts.
BrokenDown(found, ts) ==
    \E mid \in SUBSET ts :
       found.before \subseteq mid /\ found.breakdown = GroupedBy("model", Seen(found, mid))

\* The rows by feature tell those there were last.
Listed(found) ==
    Rated(found.after) /\ found.features = GroupedBy("feature", Seen(found, found.after))

\* What a handler at pc, that has answered code or nothing, has found when ts
\* are the traces there are.
Accounted(pc, found, code, ts) ==
    /\ pc = "store" => found.row.call.tokens \in Nat \cup {None}
    /\ pc = "breakdown" => Summed(found) /\ found.before \subseteq ts
    /\ pc = "features" => Summed(found) /\ BrokenDown(found, ts)
    /\ pc = "done" /\ found.kind = "report" /\ code = 200
          => Summed(found) /\ BrokenDown(found, found.after) /\ Listed(found)

LedgerInv ==
    /\ UInv
    /\ Rated(traces)
    /\ \A r \in Requests : Accounted(handler[r].pc, usage[r], told[r].code, traces)

\* Other traces take nothing from what was found.
LEMMA AccountedStays ==
    ASSUME NEW pc, NEW found, NEW code, NEW ts, NEW more, ts \subseteq more,
           Accounted(pc, found, code, ts)
    PROVE  Accounted(pc, found, code, more)
BY DEF Accounted, BrokenDown

LEMMA AccountedFrame ==
    ASSUME LedgerInv, UInv', Rated(traces'), traces \subseteq traces', NEW r \in Requests,
           \A q \in Requests \ {r} : /\ handler'[q].pc = handler[q].pc
                                     /\ usage'[q] = usage[q] /\ told'[q] = told[q],
           Accounted(handler'[r].pc, usage'[r], told'[r].code, traces')
    PROVE  LedgerInv'
<1>1. ASSUME NEW q \in Requests
      PROVE  Accounted(handler'[q].pc, usage'[q], told'[q].code, traces')
  <2>1. CASE q = r
    BY <2>1
  <2>2. CASE q # r
    <3>1. Accounted(handler[q].pc, usage[q], told[q].code, traces)
      BY DEF LedgerInv
    <3>2. Accounted(handler[q].pc, usage[q], told[q].code, traces')
      BY <3>1, AccountedStays
    <3> QED BY <2>2, <3>2
  <2> QED BY <2>1, <2>2
<1>2. \A q \in Requests : Accounted(handler[q].pc, usage[q], told[q].code, traces)'
  BY <1>1
<1>3. Rated(traces)'
  OBVIOUS
<1> QED BY <1>2, <1>3 DEF LedgerInv

LEMMA NoUsageAccounted ==
    ASSUME NEW pc \in Registering \cup {"idle", "done", "lost", "trace", "thread", "refuse", "overview"},
           NEW found, NEW code, NEW ts, pc = "done" => found.kind # "report"
    PROVE  Accounted(pc, found, code, ts)
BY DEF Accounted, Registering

LEMMA RegistrationAccounts ==
    ASSUME LedgerInv, UInv', NEW r \in Requests, RegistrationStep(r), UNCHANGED usageVars
    PROVE  LedgerInv'
<1>1. UInv /\ traces' = traces /\ usage' = usage
  BY DEF LedgerInv, usageVars
<1>2. /\ handler[r].pc \in Registering \cup {"idle"}
      /\ handler'[r].pc \in Registering \cup {"done"}
      /\ \A q \in Requests \ {r} : handler'[q].pc = handler[q].pc /\ told'[q] = told[q]
  BY <1>1 DEF RegistrationStep, Register, LogIn, Receive, Existing, FlushOrganization, InsertUser,
         CommitUser, Refresh, CheckPassword, ReadCurrentUser, Break, Answer, Goto, Registering,
         UInv, RInv, Typed
<1>3. usage[r].kind = "none"
  BY <1>1, <1>2 DEF UInv, Proper
<1>4. Accounted(handler'[r].pc, usage'[r], told'[r].code, traces')
  BY <1>1, <1>2, <1>3, NoUsageAccounted
<1> QED BY <1>1, <1>2, <1>4, AccountedFrame DEF LedgerInv

\* A request that is let in has found nothing yet, nor has one that is not.
LEMMA AuthenticateAccounts ==
    ASSUME LedgerInv, UInv', NEW r \in Requests, NEW pc \in {"trace", "refuse", "overview", "thread"},
           NEW found, Authenticate(r, pc, found), UNCHANGED traces
    PROVE  LedgerInv'
<1>1. UInv /\ handler[r].pc = "idle" /\ Rated(traces')
  BY DEF LedgerInv, Authenticate
<1>2. usage[r].kind = "none"
  BY <1>1 DEF UInv, Proper
<1>3. CASE Answer(r, 401, None) /\ UNCHANGED usage
  <2>1. Accounted(handler'[r].pc, usage'[r], told'[r].code, traces')
    BY <1>1, <1>2, <1>3, Answers, NoUsageAccounted DEF UInv
  <2> QED BY <1>1, <1>3, <2>1, Answers, AccountedFrame DEF UInv
<1>4. CASE Goto(r, pc) /\ UNCHANGED <<tx, told>>
           /\ \E org : usage' = [usage EXCEPT ![r] = [found EXCEPT !.org = org]]
  <2>1. \A q \in Requests \ {r} : usage'[q] = usage[q]
    BY <1>1, <1>4 DEF UInv
  <2>2. Accounted(handler'[r].pc, usage'[r], told'[r].code, traces')
    BY <1>1, <1>4, Goes, NoUsageAccounted DEF UInv
  <2> QED BY <1>1, <1>4, <2>1, <2>2, Goes, AccountedFrame DEF UInv
<1> QED BY <1>3, <1>4 DEF Authenticate

LEMMA ReportAuthenticates ==
    ASSUME NEW r, Report(r)
    PROVE  \E pc \in {"refuse", "overview"} : \E found : Authenticate(r, pc, found)
<1>1. PICK window \in Windows :
         Authenticate(r, IF Resolved(window).start > Resolved(window).end THEN "refuse" ELSE "overview",
                      [NoUsage EXCEPT !.kind = "report", !.start = Resolved(window).start,
                                      !.end = Resolved(window).end])
  BY DEF Report
<1> DEFINE pc == IF Resolved(window).start > Resolved(window).end THEN "refuse" ELSE "overview"
<1>2. pc \in {"refuse", "overview"}
  OBVIOUS
<1> HIDE DEF pc
<1> QED BY <1>1, <1>2 DEF pc

LEMMA ArrivalAccounts ==
    ASSUME LedgerInv, UInv', NEW r \in Requests, Ask(r) \/ ThreadUsage(r) \/ Report(r)
    PROVE  LedgerInv'
<1>1. CASE Ask(r)
  BY <1>1, AuthenticateAccounts DEF Ask
<1>2. CASE ThreadUsage(r)
  BY <1>2, AuthenticateAccounts DEF ThreadUsage
<1>3. CASE Report(r)
  <2>1. PICK pc \in {"refuse", "overview"} : \E found : Authenticate(r, pc, found)
    BY <1>3, ReportAuthenticates
  <2>2. UNCHANGED traces
    BY <1>3 DEF Report
  <2> QED BY <2>1, <2>2, AuthenticateAccounts
<1> QED BY <1>1, <1>2, <1>3

LEMMA TraceAccounts ==
    ASSUME LedgerInv, UInv', NEW r \in Requests, FlushTrace(r) \/ CommitTrace(r)
    PROVE  LedgerInv'
<1>0. UInv /\ Rated(traces)
  BY DEF LedgerInv
<1>1. CASE FlushTrace(r)
  <2>1. PICK call \in Calls :
           usage' = [usage EXCEPT ![r].row =
                        [id |-> r, org |-> usage[r].org, created_at |-> now, call |-> call]]
    BY <1>1 DEF FlushTrace
  <2>2. Goto(r, "store") /\ UNCHANGED told /\ UNCHANGED traces /\ handler[r].pc = "trace"
    BY <1>1 DEF FlushTrace
  <2>3. "row" \in DOMAIN usage[r] /\ DOMAIN usage = Requests
    BY <1>0, <2>2 DEF UInv, Proper, NoUsage
  <2>4. usage'[r].row.call = call /\ \A q \in Requests \ {r} : usage'[q] = usage[q]
    BY <2>1, <2>3
  <2>5. call.tokens \in Nat \cup {None}
    BY ObservabilityAssumption
  <2>6. Accounted(handler'[r].pc, usage'[r], told'[r].code, traces')
    BY <1>0, <2>2, <2>4, <2>5, Goes DEF Accounted, UInv
  <2>7. Rated(traces') /\ traces \subseteq traces'
    BY <1>0, <2>2
  <2> QED BY <1>0, <2>2, <2>4, <2>6, <2>7, Goes, AccountedFrame DEF UInv
<1>2. CASE CommitTrace(r)
  <2>1. traces' = traces \cup {usage[r].row} /\ Answer(r, 200, None) /\ UNCHANGED usage
        /\ handler[r].pc = "store"
    BY <1>2 DEF CommitTrace
  <2>2. usage[r].kind = "ask" /\ usage[r].row.call.tokens \in Nat \cup {None}
    BY <1>0, <2>1 DEF LedgerInv, UInv, Proper, Accounted
  <2>3. Rated(traces')
    BY <1>0, <2>1, <2>2, FS_AddElement DEF Rated
  <2>4. Accounted(handler'[r].pc, usage'[r], told'[r].code, traces')
    BY <1>0, <2>1, <2>2, Answers, NoUsageAccounted DEF UInv
  <2>5. /\ traces \subseteq traces'
        /\ \A q \in Requests \ {r} : /\ handler'[q].pc = handler[q].pc
                                  /\ usage'[q] = usage[q] /\ told'[q] = told[q]
    BY <1>0, <2>1, Answers DEF UInv
  <2> QED BY <2>3, <2>4, <2>5, AccountedFrame
<1> QED BY <1>1, <1>2

\* Each of the three queries of a report.
LEMMA QueryAccounts ==
    ASSUME LedgerInv, UInv', NEW r \in Requests, Overview(r) \/ Breakdown(r) \/ ByFeature(r)
    PROVE  LedgerInv'
<1>0. /\ UInv /\ Rated(traces') /\ traces' = traces /\ DOMAIN usage = Requests
      /\ handler[r].pc \in {"overview", "breakdown", "features"}
      /\ Accounted(handler[r].pc, usage[r], told[r].code, traces)
  BY DEF LedgerInv, UInv, Overview, Breakdown, ByFeature
<1>1. DOMAIN usage[r] = DOMAIN NoUsage
  BY <1>0 DEF UInv, Proper
<1>2. CASE Overview(r)
  <2> DEFINE totals == Totals(Seen(usage[r], traces))
             new == [[usage[r] EXCEPT !.overview = totals] EXCEPT !.before = traces]
  <2>1. /\ Goto(r, "breakdown") /\ UNCHANGED told
        /\ usage'[r] = new /\ \A q \in Requests \ {r} : usage'[q] = usage[q]
    BY <1>0, <1>2 DEF Overview, Scope, Seen
  <2>2. /\ new.org = usage[r].org /\ new.start = usage[r].start /\ new.end = usage[r].end
        /\ new.overview = totals /\ new.before = traces
    BY <1>1 DEF NoUsage
  <2> HIDE DEF totals, new
  <2>3. Seen(new, traces) = Seen(usage[r], traces)
    BY <2>2 DEF Seen, Within
  <2>4. Summed(new) /\ new.before \subseteq traces
    BY <2>2, <2>3 DEF Summed, totals
  <2>5. Accounted("breakdown", new, told[r].code, traces)
    BY <2>4 DEF Accounted
  <2>6. Accounted(handler'[r].pc, usage'[r], told'[r].code, traces')
    BY <1>0, <2>1, <2>5, Goes DEF UInv
  <2> QED BY <1>0, <2>1, <2>6, Goes, AccountedFrame DEF UInv
<1>3. CASE Breakdown(r)
  <2> DEFINE rows == GroupedBy("model", Seen(usage[r], traces))
             new == [usage[r] EXCEPT !.breakdown = rows]
  <2>1. /\ Goto(r, "features") /\ UNCHANGED told /\ handler[r].pc = "breakdown"
        /\ usage'[r] = new /\ \A q \in Requests \ {r} : usage'[q] = usage[q]
    BY <1>0, <1>3 DEF Breakdown, Scope, Seen
  <2>2. /\ new.org = usage[r].org /\ new.start = usage[r].start /\ new.end = usage[r].end
        /\ new.overview = usage[r].overview /\ new.before = usage[r].before
        /\ new.breakdown = rows
    BY <1>1 DEF NoUsage
  <2> HIDE DEF rows, new
  <2>3. \A ts : Seen(new, ts) = Seen(usage[r], ts)
    BY <2>2 DEF Seen, Within
  <2>4. Summed(usage[r]) /\ usage[r].before \subseteq traces
    BY <1>0, <2>1 DEF Accounted
  <2>5. Summed(new)
    BY <2>2, <2>3, <2>4 DEF Summed
  <2>6. new.before \subseteq traces /\ new.breakdown = GroupedBy("model", Seen(new, traces))
    BY <2>2, <2>3, <2>4 DEF rows
  <2>7. BrokenDown(new, traces)
    BY <2>6 DEF BrokenDown
  <2>8. Accounted("features", new, told[r].code, traces)
    BY <2>5, <2>7 DEF Accounted
  <2>9. Accounted(handler'[r].pc, usage'[r], told'[r].code, traces')
    BY <1>0, <2>1, <2>8, Goes DEF UInv
  <2> QED BY <1>0, <2>1, <2>9, Goes, AccountedFrame DEF UInv
<1>4. CASE ByFeature(r)
  <2> DEFINE rows == GroupedBy("feature", Seen(usage[r], traces))
             new == [[usage[r] EXCEPT !.features = rows] EXCEPT !.after = traces]
  <2>1. /\ Answer(r, 200, None) /\ handler[r].pc = "features"
        /\ usage'[r] = new /\ \A q \in Requests \ {r} : usage'[q] = usage[q]
    BY <1>0, <1>4 DEF ByFeature, FeatureRows, Scope, Seen
  <2>2. /\ new.org = usage[r].org /\ new.start = usage[r].start /\ new.end = usage[r].end
        /\ new.overview = usage[r].overview /\ new.before = usage[r].before
        /\ new.breakdown = usage[r].breakdown /\ new.features = rows /\ new.after = traces
    BY <1>1 DEF NoUsage
  <2> HIDE DEF rows, new
  <2>3. \A ts : Seen(new, ts) = Seen(usage[r], ts)
    BY <2>2 DEF Seen, Within
  <2>4. Summed(usage[r]) /\ BrokenDown(usage[r], traces)
    BY <1>0, <2>1 DEF Accounted
  <2>5. Summed(new)
    BY <2>2, <2>3, <2>4 DEF Summed
  <2>6. BrokenDown(new, new.after)
    BY <2>2, <2>3, <2>4 DEF BrokenDown
  <2>7. Listed(new)
    BY <1>0, <2>2, <2>3 DEF Listed, rows
  <2>8. Accounted("done", new, 200, traces)
    BY <2>5, <2>6, <2>7 DEF Accounted
  <2>9. Accounted(handler'[r].pc, usage'[r], told'[r].code, traces')
    BY <1>0, <2>1, <2>8, Answers DEF UInv
  <2> QED BY <1>0, <2>1, <2>9, Answers, AccountedFrame DEF UInv
<1> QED BY <1>2, <1>3, <1>4

LEMMA EndAccounts ==
    ASSUME LedgerInv, UInv', NEW r \in Requests, Rollup(r) \/ Refuse(r) \/ Fail(r)
    PROVE  LedgerInv'
<1>0. UInv /\ Rated(traces') /\ traces' = traces /\ DOMAIN usage = Requests
  BY DEF LedgerInv, UInv, Rollup, Refuse, Fail, usageVars
<1>1. PICK code \in {200, 422, 500} :
         /\ Answer(r, code, None)
         /\ code = 200 => usage'[r].kind # "report"
         /\ \A q \in Requests \ {r} : usage'[q] = usage[q]
  <2>1. CASE Rollup(r)
    <3>1. usage[r].kind = "thread" /\ DOMAIN usage[r] = DOMAIN NoUsage
      BY <1>0, <2>1 DEF Rollup, UInv, Proper
    <3>2. PICK thread \in Threads :
             usage' = [usage EXCEPT ![r].overview =
                          Totals({t \in traces : t.org = usage[r].org /\ t.call.thread = thread})]
      BY <2>1 DEF Rollup
    <3>3. usage'[r].kind = "thread" /\ \A q \in Requests \ {r} : usage'[q] = usage[q]
      BY <1>0, <3>1, <3>2
    <3> QED BY <2>1, <3>3 DEF Rollup
  <2>2. CASE Refuse(r)
    BY <1>0, <2>2 DEF Refuse, usageVars
  <2>3. CASE Fail(r)
    BY <1>0, <2>3 DEF Fail
  <2> QED BY <2>1, <2>2, <2>3
<1>2. Accounted(handler'[r].pc, usage'[r], told'[r].code, traces')
  BY <1>0, <1>1, Answers DEF UInv, Accounted
<1> QED BY <1>0, <1>1, <1>2, Answers, AccountedFrame DEF UInv

LEMMA CrashAccounts ==
    ASSUME LedgerInv, UInv', Crash
    PROVE  LedgerInv'
<1>1. /\ traces' = traces /\ told' = told
      /\ \A r \in Requests :
           /\ handler'[r].pc = IF handler[r].pc \in {"idle", "done"} THEN handler[r].pc ELSE "lost"
           /\ usage'[r] = IF handler[r].pc \in {"idle", "done"} THEN usage[r] ELSE NoUsage
  BY DEF Crash, CrashHandlers, LedgerInv, UInv, RInv, Typed
<1>2. ASSUME NEW r \in Requests
      PROVE  Accounted(handler'[r].pc, usage'[r], told'[r].code, traces')
  BY <1>1 DEF LedgerInv, Accounted
<1>3. \A r \in Requests : Accounted(handler[r].pc, usage[r], told[r].code, traces)'
  BY <1>2
<1>4. Rated(traces)'
  BY <1>1 DEF LedgerInv
<1> QED BY <1>3, <1>4 DEF LedgerInv

LEMMA LedgerStep == LedgerInv /\ [Next]_vars => LedgerInv'
<1> SUFFICES ASSUME LedgerInv, [Next]_vars PROVE LedgerInv'
  OBVIOUS
<1>0. UInv /\ UInv'
  BY UsageInvStep DEF LedgerInv
<1>1. CASE \E r \in Requests : RegistrationStep(r) /\ UNCHANGED usageVars
  BY <1>0, <1>1, RegistrationAccounts
<1>2. CASE \E r \in Requests : UsageStep(r)
  BY <1>0, <1>2, ArrivalAccounts, TraceAccounts, QueryAccounts, EndAccounts DEF UsageStep
<1>3. CASE Crash
  BY <1>0, <1>3, CrashAccounts
<1>4. CASE Tick \/ UNCHANGED vars
  <2>1. handler' = handler /\ told' = told /\ traces' = traces /\ usage' = usage
    BY <1>4 DEF Tick, vars, usageVars, registrationVars
  <2> QED BY <1>0, <2>1 DEF LedgerInv
<1> QED BY <1>1, <1>2, <1>3, <1>4 DEF Next

LEMMA LedgerInit == Init => LedgerInv
<1> SUFFICES ASSUME Init PROVE LedgerInv
  OBVIOUS
<1>1. /\ traces \in Earlier /\ usage = [r \in Requests |-> NoUsage]
      /\ handler = [r \in Requests |-> Idle]
  BY DEF Init, RegistrationInit
<1>2. Rated(traces)
  BY <1>1, ObservabilityAssumption DEF Rated
<1>3. \A r \in Requests : Accounted(handler[r].pc, usage[r], told[r].code, traces)
  BY <1>1, NoUsageAccounted DEF Idle
<1> QED BY <1>2, <1>3, UsageInit DEF LedgerInv

LEMMA RowsTell == LedgerInv => ReportAddsUp
<1> SUFFICES ASSUME LedgerInv, NEW r \in Requests, Reported(r)
             PROVE  /\ AtMost(usage[r].overview, SumOf(usage[r].breakdown))
                    /\ AtMost(SumOf(usage[r].breakdown), SumOf(usage[r].features))
                    /\ usage[r].before = usage[r].after => usage[r].overview = SumOf(usage[r].features)
  BY DEF ReportAddsUp
<1> DEFINE found == usage[r]
           In(ts) == Seen(found, ts)
<1>1. Summed(found) /\ BrokenDown(found, found.after) /\ Listed(found)
  BY DEF LedgerInv, Accounted, Reported
<1>2. PICK mid \in SUBSET found.after :
         found.before \subseteq mid /\ found.breakdown = GroupedBy("model", In(mid))
  BY <1>1 DEF BrokenDown
<1>3. In(found.before) \subseteq In(mid) /\ In(mid) \subseteq In(found.after)
  BY <1>2 DEF Seen
<1>4. Rated(In(found.after)) /\ Rated(In(mid))
  <2>1. Rated(found.after) /\ \A ts : In(ts) \subseteq ts
    BY <1>1 DEF Listed, Seen
  <2> HIDE DEF In
  <2> QED BY <1>2, <2>1, FS_Subset DEF Rated
<1>5. /\ found.overview = Totals(In(found.before))
      /\ SumOf(found.breakdown) = Totals(In(mid))
      /\ SumOf(found.features) = Totals(In(found.after))
  BY <1>1, <1>2, <1>4, RowsAddUp DEF Summed, Listed
<1> HIDE DEF In
<1>6. AtMost(found.overview, SumOf(found.breakdown))
      /\ AtMost(SumOf(found.breakdown), SumOf(found.features))
  BY <1>3, <1>4, <1>5, TotalsGrow
<1> QED BY <1>5, <1>6

\* However traces are committed between the queries of a report, its rows by
\* model tell what its totals tell at least, and its rows by feature what
\* those by model do; if none is committed, they tell the same.
THEOREM ReportAddsUpCorrect == Spec => []ReportAddsUp
BY LedgerInit, LedgerStep, RowsTell, PTL DEF Spec

=============================================================================
