------------------------------ MODULE Accounts ------------------------------
(***************************************************************************)
(* The users and how they sign in: registration, login with a password,    *)
(* Google, the edits of the profile and the flag of the platform           *)
(* administrators that every boot sets.                                    *)
(*                                                                         *)
(* No operation has a transaction of its own: every step below is one      *)
(* statement.  Saving a loaded user is a SELECT of its row, then an UPDATE *)
(* of every column in which the loaded entity differs from it.             *)
(***************************************************************************)
EXTENDS Naturals

CONSTANTS UserId,     \* the UUIDs a user can get (bounds their number)
          Email,      \* normalized emails
          Password,   \* passwords; a hash stands for what it matches
          Google,     \* the ids Google gives its accounts
          Text,       \* what a profile can say: name and avatar
          Admin,      \* PLATFORM_ADMIN_EMAILS
          Request,    \* request slots
          None        \* no row, no value

VARIABLES user,      \* the row of each user id, or None
          signedIn,  \* the users for whom a session was started
          vouched,   \* history: the profiles Google has sent, id and email
          request    \* what each slot is doing

vars == <<user, signedIn, vouched, request>>

\* provider is LOCAL for the rows with a password and GOOGLE for the others.
Row == [email: Email, password: Password \cup {None}, google: Google \cup {None},
        profile: Text, admin: BOOLEAN]
Column == {"email", "password", "google", "profile", "admin"}

Op == {"none", "register", "login", "google", "edit", "boot"}
Step == {"idle", "email", "insert", "organization", "start", "find", "google", "load",
         "select", "update", "seed"}

RequestState == [op: Op, step: Step, email: Email \cup {None}, password: Password \cup {None},
                 google: Google \cup {None}, text: Text \cup {None}, user: UserId \cup {None},
                 entity: Row \cup {None}, set: SUBSET Column, todo: SUBSET Admin]

ASSUME NoneAssumption ==
  None \notin Row \cup Email \cup Password \cup Google \cup Text \cup UserId
ASSUME AdminAssumption == Admin \subseteq Email

Idle == [op |-> "none", step |-> "idle", email |-> None, password |-> None, google |-> None,
         text |-> None, user |-> None, entity |-> None, set |-> {}, todo |-> {}]

Stored == {u \in UserId : user[u] # None}

\* The rows findOne can return; nothing but the email is unique.
WithEmail(e) == {u \in Stored : user[u].email = e}
WithGoogle(g) == {u \in Stored : user[u].google = g}

Init ==
  /\ user = [u \in UserId |-> None]
  /\ signedIn = {} /\ vouched = {}
  /\ request = [r \in Request |-> Idle]

Receive(r, q) ==
  /\ request[r].step = "idle"
  /\ request' = [request EXCEPT ![r] = q]
  /\ UNCHANGED <<user, signedIn>>

Answers(r) == request' = [request EXCEPT ![r] = Idle]
-----------------------------------------------------------------------------
(* Arrivals.                                                               *)

ReceiveRegister(r, e, p, t) ==
  /\ Receive(r, [Idle EXCEPT !.op = "register", !.step = "email", !.email = e,
                             !.password = p, !.text = t])
  /\ UNCHANGED vouched

ReceiveLogin(r, e, p) ==
  /\ Receive(r, [Idle EXCEPT !.op = "login", !.step = "find", !.email = e, !.password = p])
  /\ UNCHANGED vouched

\* The callback, with the profile Google vouches for.  The email of a Google
\* account may change.
ReceiveGoogle(r, g, e, t) ==
  /\ Receive(r, [Idle EXCEPT !.op = "google", !.step = "google", !.email = e,
                             !.google = g, !.text = t])
  /\ vouched' = vouched \cup {<<g, e>>}

\* PATCH /users/me and POST /users/me/avatar, with a session.
ReceiveEdit(r, u, t) ==
  /\ u \in signedIn
  /\ Receive(r, [Idle EXCEPT !.op = "edit", !.step = "load", !.user = u, !.text = t])
  /\ UNCHANGED vouched

\* A process boots while others serve requests.
Boot(r) ==
  /\ Receive(r, [Idle EXCEPT !.op = "boot", !.step = "seed", !.todo = Admin])
  /\ UNCHANGED vouched
-----------------------------------------------------------------------------
(* Creating a user.                                                        *)

\* The look-up of CreateUserUseCase.
FindEmail(r) ==
  LET q == request[r]
  IN  /\ q.step = "email"
      /\ \/ WithEmail(q.email) # {} /\ Answers(r)
         \/ WithEmail(q.email) = {} /\ request' = [request EXCEPT ![r].step = "insert"]
      /\ UNCHANGED <<user, signedIn, vouched>>

\* The unique index stops a second row of one email.  Neither provider can
\* make a platform administrator.
Insert(r, u) ==
  LET q == request[r]
  IN  /\ q.step = "insert"
      /\ user[u] = None
      /\ \/ WithEmail(q.email) # {} /\ Answers(r) /\ UNCHANGED user
         \/ /\ WithEmail(q.email) = {}
            /\ user' = [user EXCEPT ![u] = [email |-> q.email, password |-> q.password,
                          google |-> q.google, profile |-> q.text, admin |-> FALSE]]
            /\ request' = [request EXCEPT
                 ![r].step = IF q.op = "register" THEN "organization" ELSE "start",
                 ![r].user = u, ![r].text = None]
      /\ UNCHANGED <<signedIn, vouched>>

\* The registration creates the organization of its user, in tables that
\* nothing here reads.
CreateOrganization(r) ==
  /\ request[r].step = "organization"
  /\ request' = [request EXCEPT ![r].step = "start"]
  /\ UNCHANGED <<user, signedIn, vouched>>

\* The session, the last step of every way in.
StartSession(r) ==
  /\ request[r].step = "start"
  /\ signedIn' = signedIn \cup {request[r].user}
  /\ Answers(r)
  /\ UNCHANGED <<user, vouched>>
-----------------------------------------------------------------------------
(* Signing in.                                                             *)

\* A local user whose password matches.
Login(r, u) ==
  LET q == request[r]
  IN  /\ q.op = "login" /\ q.step = "find"
      /\ u \in WithEmail(q.email)
      /\ user[u].password = q.password
      /\ request' = [request EXCEPT ![r].step = "start", ![r].user = u]
      /\ UNCHANGED <<user, signedIn, vouched>>

\* No such user, one without a password, or another password.
RefuseLogin(r) ==
  LET q == request[r]
  IN  /\ q.op = "login" /\ q.step = "find"
      /\ \A u \in WithEmail(q.email) : user[u].password # q.password
      /\ Answers(r)
      /\ UNCHANGED <<user, signedIn, vouched>>

\* Mutant: a user found by the id need only have one.
FindGoogleAny(r) ==
  LET q == request[r]
      linked == {u \in Stored : user[u].google # None}
  IN  /\ q.step = "google"
      /\ \/ \E u \in linked : request' = [request EXCEPT ![r].step = "start", ![r].user = u]
         \/ linked = {} /\ request' = [request EXCEPT ![r].step = "find"]
      /\ UNCHANGED <<user, signedIn, vouched>>

\* A returning user is found by the Google id.
FindGoogle(r) ==
  LET q == request[r]
  IN  /\ q.step = "google"
      /\ \/ \E u \in WithGoogle(q.google) :
              request' = [request EXCEPT ![r].step = "start", ![r].user = u, ![r].text = None]
         \/ WithGoogle(q.google) = {} /\ request' = [request EXCEPT ![r].step = "find"]
      /\ UNCHANGED <<user, signedIn, vouched>>

\* Mutant: the account that is linked becomes a Google account.
LinkDropsPassword(r) ==
  LET q == request[r]
  IN  /\ q.op = "google" /\ q.step = "find"
      /\ \/ \E u \in WithEmail(q.email) :
              request' = [request EXCEPT ![r].step = "select", ![r].user = u,
                ![r].entity = [user[u] EXCEPT !.google = q.google, !.password = None]]
         \/ WithEmail(q.email) = {} /\ request' = [request EXCEPT ![r].step = "email"]
      /\ UNCHANGED <<user, signedIn, vouched>>

\* Mutant: an email that nobody has is linked all the same.
LinkUnchecked(r) ==
  LET q == request[r]
  IN  /\ q.op = "google" /\ q.step = "find"
      /\ \/ \E u \in WithEmail(q.email) :
              request' = [request EXCEPT ![r].step = "select", ![r].user = u,
                ![r].entity = [user[u] EXCEPT !.google = q.google]]
         \/ WithEmail(q.email) = {} /\ request' = [request EXCEPT ![r].step = "select"]
      /\ UNCHANGED <<user, signedIn, vouched>>

\* Otherwise the account with the email of the profile gets the id, whatever id
\* it had; if there is none, a user is created.
Link(r) ==
  LET q == request[r]
  IN  /\ q.op = "google" /\ q.step = "find"
      /\ \/ \E u \in WithEmail(q.email) :
              request' = [request EXCEPT ![r].step = "select", ![r].user = u,
                ![r].entity = [user[u] EXCEPT !.google = q.google]]
         \/ WithEmail(q.email) = {} /\ request' = [request EXCEPT ![r].step = "email"]
      /\ UNCHANGED <<user, signedIn, vouched>>
-----------------------------------------------------------------------------
(* Saves of loaded users.                                                  *)

\* The name, or the avatar once it is uploaded, is set in the loaded user.
Load(r) ==
  LET q == request[r]
  IN  /\ q.step = "load"
      /\ request' = [request EXCEPT ![r].step = "select", ![r].text = None,
                       ![r].entity = [user[q.user] EXCEPT !.profile = q.text]]
      /\ UNCHANGED <<user, signedIn, vouched>>

\* Mutant: the seeder flags any user while an email is configured.
SeedAny(r) ==
  LET q == request[r]
  IN  /\ q.step = "seed"
      /\ \/ q.todo = {} /\ Answers(r)
         \/ \E e \in q.todo, u \in Stored :
              request' = [request EXCEPT ![r].todo = @ \ {e}, ![r].step = "select",
                            ![r].user = u, ![r].entity = [user[u] EXCEPT !.admin = TRUE]]
      /\ UNCHANGED <<user, signedIn, vouched>>

\* One round of the seeder's loop: a configured email, if its user lacks the
\* flag.
Seed(r) ==
  LET q == request[r]
  IN  /\ q.step = "seed"
      /\ \/ q.todo = {} /\ Answers(r)
         \/ \E e \in q.todo :
              \/ /\ \A u \in WithEmail(e) : user[u].admin
                 /\ request' = [request EXCEPT ![r].todo = @ \ {e}]
              \/ \E u \in WithEmail(e) :
                   /\ ~user[u].admin
                   /\ request' = [request EXCEPT ![r].todo = @ \ {e}, ![r].step = "select",
                        ![r].user = u, ![r].entity = [user[u] EXCEPT !.admin = TRUE]]
      /\ UNCHANGED <<user, signedIn, vouched>>

\* What follows a save: the session, the next email of the seeder, the answer.
Continue(q) ==
  IF q.op = "edit" THEN Idle
  ELSE [q EXCEPT !.step = IF q.op = "google" THEN "start" ELSE "seed", !.entity = None, !.set = {}]

\* The SELECT of save.
SelectRow(r) ==
  LET q == request[r]
      set == {c \in Column : q.entity[c] # user[q.user][c]}
  IN  /\ q.step = "select"
      /\ request' = [request EXCEPT ![r] =
           IF set = {} THEN Continue(q) ELSE [q EXCEPT !.step = "update", !.set = set]]
      /\ UNCHANGED <<user, signedIn, vouched>>

Written(q, row) ==
  LET new(c) == IF c \in q.set THEN q.entity[c] ELSE row[c]
  IN  [email |-> new("email"), password |-> new("password"), google |-> new("google"),
       profile |-> new("profile"), admin |-> new("admin")]

\* The UPDATE of save.
UpdateRow(r) ==
  LET q == request[r]
  IN  /\ q.step = "update"
      /\ user' = [user EXCEPT ![q.user] = Written(q, @)]
      /\ request' = [request EXCEPT ![r] = Continue(q)]
      /\ UNCHANGED <<signedIn, vouched>>
-----------------------------------------------------------------------------
\* The process dies, or a call fails; what was written stays.
Fail(r) ==
  /\ request[r].step # "idle"
  /\ Answers(r)
  /\ UNCHANGED <<user, signedIn, vouched>>

Arrival(r) ==
  \/ \E e \in Email, p \in Password, t \in Text : ReceiveRegister(r, e, p, t)
  \/ \E e \in Email, p \in Password : ReceiveLogin(r, e, p)
  \/ \E g \in Google, e \in Email, t \in Text : ReceiveGoogle(r, g, e, t)
  \/ \E u \in UserId, t \in Text : ReceiveEdit(r, u, t)
  \/ Boot(r)

Progress(r) ==
  \/ FindEmail(r) \/ CreateOrganization(r) \/ StartSession(r)
  \/ RefuseLogin(r) \/ FindGoogle(r) \/ Link(r)
  \/ \E u \in UserId : Insert(r, u) \/ Login(r, u)
  \/ Load(r) \/ Seed(r) \/ SelectRow(r) \/ UpdateRow(r)

Next == \E r \in Request : Arrival(r) \/ Progress(r) \/ Fail(r)

Spec == Init /\ [][Next]_vars
-----------------------------------------------------------------------------
(* Properties.                                                             *)

\* The rows and the requests have their types, and what is saved was loaded.
TypeOK ==
  /\ user \in [UserId -> Row \cup {None}]
  /\ signedIn \subseteq UserId
  /\ vouched \subseteq Google \X Email
  /\ request \in [Request -> RequestState]
  /\ \A r \in Request : request[r].step \in {"select", "update"} => request[r].entity # None

\* Registrations, first sign-ins with Google and links may overlap: an email
\* never has two users.
EmailsUnique == \A u, v \in Stored : user[u].email = user[v].email => u = v

\* A session is about to be started only for the user the request has the
\* credentials of: the password of the row with that email, or a Google id that
\* Google has sent together with that user's email.
SignInsAreEntitled ==
  \A r \in Request :
    LET q == request[r]
    IN  q.step = "start" =>
          /\ q.user \in Stored
          /\ q.op \in {"register", "login"} =>
               user[q.user].email = q.email /\ user[q.user].password = q.password
          /\ q.op = "google" => <<q.google, user[q.user].email>> \in vouched

\* Boots and saves of stale users may take the flag away, but only a user of a
\* configured email ever has it.
AdminsAreConfigured == \A u \in Stored : user[u].admin => user[u].email \in Admin

\* No step takes a user's email or password away, though every save writes a
\* whole user: an account that is linked to Google keeps its password.
CredentialsStay ==
  [][\A u \in Stored : /\ u \in Stored'
                       /\ user'[u].email = user[u].email
                       /\ user'[u].password = user[u].password]_vars
=============================================================================
