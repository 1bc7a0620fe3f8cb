----------------------------- MODULE Registration -----------------------------
(***************************************************************************)
(* POST /auth/register, POST /auth/login and GET /users/me                 *)
(* (app/routers/auth.py, app/routers/users.py), the tables organizations   *)
(* and users, and get_current_user (app/dependencies.py).                  *)
(*                                                                         *)
(* The handlers run in threads, each with a transaction of its own; the    *)
(* database is read committed.  An insert that meets the same email in     *)
(* another transaction waits for its end (the unique index ix_users_email).*)
(* A row's id is that of the request that made it.  Nothing is said of how *)
(* a password is hashed or a token signed: the one matches what it was     *)
(* made of, the other is what this server issued.                          *)
(***************************************************************************)
EXTENDS Naturals, FiniteSets

CONSTANTS
    Requests,
    Emails,
    Passwords,
    None,
    Founders    \* users who registered before

User == [id : Requests \cup {f.id : f \in Founders}, email : Emails, password : Passwords,
         role : {"admin"}, is_active : BOOLEAN]

ASSUME RegistrationAssumption ==
    /\ None \notin Requests \cup {f.id : f \in Founders}
    /\ Founders \subseteq User
    /\ \A f \in Founders : f.id \notin Requests
    /\ \A f, g \in Founders : f.id = g.id \/ f.email = g.email => f = g

VARIABLES
    organizations,  \* the committed rows, by id
    users,          \* the committed rows; organization_id equals id, as one makes both
    tx,             \* the rows each handler has flushed and not committed
    handler,        \* where each handler is, and its input
    told            \* what the client has been answered

registrationVars == <<organizations, users, tx, handler, told>>

NoRows == [organizations |-> {}, users |-> {}]
Idle == [pc |-> "idle", email |-> None, password |-> None]
Nothing == [code |-> 0, token |-> None]

RegistrationInit ==
    /\ organizations = {f.id : f \in Founders}
    /\ users = Founders
    /\ tx = [r \in Requests |-> NoRows]
    /\ handler = [r \in Requests |-> Idle]
    /\ told = [r \in Requests |-> Nothing]

\* The claims of a token, without its time of expiry.
TokenOf(u) == [sub |-> u.id, organization_id |-> u.id, role |-> u.role]

Goto(r, pc) == handler' = [handler EXCEPT ![r].pc = pc]

\* A response ends the handler, its Session and so what is not committed.
Answer(r, code, token) ==
    /\ told' = [told EXCEPT ![r] = [code |-> code, token |-> token]]
    /\ tx' = [tx EXCEPT ![r] = NoRows]
    /\ Goto(r, "done")

Receive(r, pc) ==
    /\ handler[r].pc = "idle"
    /\ \E email \in Emails, password \in Passwords :
          handler' = [handler EXCEPT ![r] = [pc |-> pc, email |-> email, password |-> password]]
    /\ UNCHANGED <<organizations, users, tx, told>>

------------------------------------------------------------------------------
(* register *)

Register(r) == Receive(r, "existing")

WithEmail(email) == {u \in users : u.email = email}

Existing(r) ==
    /\ handler[r].pc = "existing"
    /\ IF WithEmail(handler[r].email) # {}
         THEN Answer(r, 400, None)
         ELSE Goto(r, "organization") /\ UNCHANGED <<tx, told>>
    /\ UNCHANGED <<organizations, users>>

\* Mutant: db.flush() was db.commit().
CommitOrganization(r) ==
    /\ handler[r].pc = "organization"
    /\ organizations' = organizations \cup {r}
    /\ Goto(r, "user")
    /\ UNCHANGED <<users, tx, told>>

FlushOrganization(r) ==
    /\ handler[r].pc = "organization"
    /\ tx' = [tx EXCEPT ![r].organizations = {r}]
    /\ Goto(r, "user")
    /\ UNCHANGED <<organizations, users, told>>

NewUser(r) ==
    [id |-> r, email |-> handler[r].email, password |-> handler[r].password,
     role |-> "admin", is_active |-> TRUE]

\* Mutant: the index is not unique.
NoIndex(email) == {}

Taken(email) == WithEmail(email)

\* hash_password() comes before, and takes its time.  An IntegrityError is
\* caught by nobody.
InsertUser(r) ==
    /\ handler[r].pc = "user"
    /\ \A q \in Requests \ {r} : \A u \in tx[q].users : u.email # handler[r].email
    /\ IF Taken(handler[r].email) # {}
         THEN Answer(r, 500, None)
         ELSE /\ tx' = [tx EXCEPT ![r].users = {NewUser(r)}]
              /\ Goto(r, "commit")
              /\ UNCHANGED told
    /\ UNCHANGED <<organizations, users>>

CommitUser(r) ==
    /\ handler[r].pc = "commit"
    /\ organizations' = organizations \cup tx[r].organizations
    /\ users' = users \cup tx[r].users
    /\ tx' = [tx EXCEPT ![r] = NoRows]
    /\ Goto(r, "refresh")
    /\ UNCHANGED told

\* db.refresh(user) reads the row by its id.
Refresh(r) ==
    /\ handler[r].pc = "refresh"
    /\ \E u \in users : u.id = r /\ Answer(r, 201, TokenOf(u))
    /\ UNCHANGED <<organizations, users>>

------------------------------------------------------------------------------
(* login and get_current_user *)

LogIn(r) == Receive(r, "login")

Verified(u, r) == u.password = handler[r].password /\ u.is_active

CheckPassword(r) ==
    /\ handler[r].pc = "login"
    /\ IF \E u \in WithEmail(handler[r].email) : Verified(u, r)
         THEN \E u \in WithEmail(handler[r].email) : Answer(r, 200, TokenOf(u))
         ELSE Answer(r, 401, None)
    /\ UNCHANGED <<organizations, users>>

\* The tokens that clients hold.
Issued == ({told[r].token : r \in Requests} \ {None}) \cup {TokenOf(f) : f \in Founders}

\* The user is looked up by sub; what else the token says is not used.
CurrentUser(token) == {u \in users : u.id = token.sub /\ u.is_active}

\* A token may have expired.
ReadCurrentUser(r) ==
    /\ handler[r].pc = "idle"
    /\ \E token \in Issued, expired \in BOOLEAN :
          Answer(r, IF expired \/ CurrentUser(token) = {} THEN 401 ELSE 200, None)
    /\ UNCHANGED <<organizations, users>>

------------------------------------------------------------------------------
(* Failures *)

Registering == {"existing", "organization", "user", "commit", "refresh", "login"}

\* Any other exception.  One of db.commit() that the database did commit is
\* CommitUser and then this.
Break(r) ==
    /\ handler[r].pc \in Registering
    /\ Answer(r, 500, None)
    /\ UNCHANGED <<organizations, users>>

\* The process ends and is started again.
CrashHandlers ==
    /\ handler' = [r \in Requests |->
                      IF handler[r].pc \in {"idle", "done"} THEN handler[r]
                      ELSE [handler[r] EXCEPT !.pc = "lost"]]
    /\ tx' = [r \in Requests |-> NoRows]
    /\ UNCHANGED <<organizations, users, told>>

RegistrationStep(r) ==
    \/ Register(r)
    \/ Existing(r)
    \/ FlushOrganization(r)
    \/ InsertUser(r)
    \/ CommitUser(r)
    \/ Refresh(r)
    \/ LogIn(r)
    \/ CheckPassword(r)
    \/ ReadCurrentUser(r)
    \/ Break(r)

------------------------------------------------------------------------------
(* Properties *)

\* "Email is globally unique across all organizations", however the lookups
\* and inserts of registrations interleave (register, auth.py:22-43).
OneUserPerEmail == \A u, v \in users : u.email = v.email => u = v

\* A registration is all or nothing: every organisation has its admin, and
\* every user an organisation, whichever step failed and whoever was first.
\* (the flush of one row before the commit of both, auth.py:30-43)
OrganizationsOwned ==
    /\ \A o \in organizations : \E u \in users : u.id = o /\ u.role = "admin"
    /\ \A u \in users : u.id \in organizations

\* Several clients may race for one email and each may know a password of its
\* own: a token is only given to who gave the password of the one user there
\* is of that email, so nobody gets into another's organisation and whoever
\* was told 201 is the user that a login finds.
TokensHold ==
    \A r \in Requests :
        told[r].token # None =>
            \E u \in users :
               /\ told[r].token = TokenOf(u)
               /\ WithEmail(handler[r].email) = {u}
               /\ handler[r].password = u.password

==============================================================================
