--------------------------- MODULE AccountsProofs ---------------------------
(* Proofs of the safety properties of Accounts, for every set of users,    *)
(* emails, passwords, Google ids and requests.                             *)
EXTENDS Accounts, TLAPS

\* Which operations reach a step.
OpInv(q) ==
  /\ q.step \in {"email", "insert"} => q.op \in {"register", "google"}
  /\ q.step = "organization" => q.op = "register"
  /\ q.step = "start" => q.op \in {"register", "login", "google"}
  /\ q.step = "google" => q.op = "google"
  /\ q.step = "load" => q.op = "edit"
  /\ q.step = "seed" => q.op = "boot"
  /\ q.step \in {"select", "update"} => q.op \in {"google", "edit", "boot"}

\* What a request was given.
InputInv(q) ==
  /\ q.step # "idle" /\ q.op = "register" =>
       q.email \in Email /\ q.password \in Password /\ q.google = None
  /\ q.step # "idle" /\ q.op = "google" =>
       q.email \in Email /\ q.password = None /\ q.google \in Google
  /\ q.op = "google" => <<q.google, q.email>> \in vouched
  /\ q.step \in {"email", "insert", "load"} => q.text \in Text
  /\ q.step \in {"find", "google"} /\ q.op = "google" => q.text \in Text

\* The user a request has found or created, and what its row still says.
UserInv(q) ==
  /\ q.step \in {"organization", "start", "load", "select", "update"} => q.user \in Stored
  /\ q.op = "register" /\ q.step \in {"organization", "start"} =>
       user[q.user].email = q.email /\ user[q.user].password = q.password
  /\ q.op = "login" /\ q.step = "start" =>
       user[q.user].email = q.email /\ user[q.user].password = q.password
  /\ q.op = "google" /\ q.step \in {"select", "update"} => user[q.user].email = q.email
  /\ q.op = "google" /\ q.step = "start" => <<q.google, user[q.user].email>> \in vouched

\* A row, stored or held by a request, that a save may write.
Sound(row) ==
  /\ row.google # None => <<row.google, row.email>> \in vouched
  /\ row.admin => row.email \in Admin

\* The entity a request saves agrees with the row in its credentials.
EntityInv(q) ==
  q.step \in {"select", "update"} =>
    /\ q.entity # None
    /\ q.entity.email = user[q.user].email
    /\ q.entity.password = user[q.user].password
    /\ Sound(q.entity)

RequestInv(q) == OpInv(q) /\ InputInv(q) /\ UserInv(q) /\ EntityInv(q)

IInv ==
  /\ TypeOK
  /\ EmailsUnique
  /\ signedIn \subseteq Stored
  /\ \A u \in Stored : Sound(user[u])
  /\ \A r \in Request : RequestInv(request[r])

\* Rows are not taken away and keep their credentials; Google's profiles are
\* not forgotten.
RowsStay ==
  /\ \A u \in Stored : /\ u \in Stored'
                       /\ user'[u].email = user[u].email
                       /\ user'[u].password = user[u].password
  /\ vouched \subseteq vouched'

TablesOK ==
  /\ user \in [UserId -> Row \cup {None}]
  /\ vouched \subseteq Google \X Email
  /\ EmailsUnique
  /\ signedIn \subseteq Stored
  /\ \A u \in Stored : Sound(user[u])

-----------------------------------------------------------------------------
\* What a request knows survives the steps of the others.
LEMMA KnowledgeStays ==
  ASSUME NEW q, RequestInv(q), RowsStay
  PROVE  RequestInv(q)'
<1>1. OpInv(q)'
  BY DEF RequestInv, OpInv
<1>2. InputInv(q)'
  BY DEF RequestInv, InputInv, RowsStay
<1>3. UserInv(q)'
  BY DEF RequestInv, UserInv, RowsStay
<1>4. EntityInv(q)'
  BY DEF RequestInv, EntityInv, UserInv, Sound, RowsStay
<1> QED BY <1>1, <1>2, <1>3, <1>4 DEF RequestInv

\* A step of request r to a record that is typed and knows what it should
\* keeps the invariant, if the tables are sound after it.
LEMMA StepKeepsIInv ==
  ASSUME IInv, NEW r \in Request, NEW q, q \in RequestState,
         request' = [request EXCEPT ![r] = q], RequestInv(q)',
         RowsStay, TablesOK'
  PROVE  IInv'
<1>1. request' \in [Request -> RequestState]
  BY DEF IInv, TypeOK
<1>2. ASSUME NEW s \in Request PROVE RequestInv(request[s])'
  <2>1. CASE s = r
    BY <2>1 DEF IInv, TypeOK
  <2>2. CASE s # r
    <3>1. request'[s] = request[s]
      BY <2>2 DEF IInv, TypeOK
    <3>2. PICK t : t = request[s]
      OBVIOUS
    <3>3. RequestInv(t)'
      BY <3>2, KnowledgeStays DEF IInv
    <3> QED BY <3>1, <3>2, <3>3
  <2> QED BY <2>1, <2>2
<1>3. \A s \in Request : request'[s].step \in {"select", "update"} => request'[s].entity # None
  BY <1>2 DEF RequestInv, EntityInv
<1> QED BY <1>1, <1>2, <1>3 DEF IInv, TypeOK, TablesOK, Stored

\* The record of an idle request.
LEMMA IdleIsSound == Idle \in RequestState /\ RequestInv(Idle)
<1>1. Idle \in RequestState
  BY DEF Idle, RequestState, Op, Step
<1>2. OpInv(Idle) /\ InputInv(Idle) /\ UserInv(Idle) /\ EntityInv(Idle)
  BY DEF Idle, OpInv, InputInv, UserInv, EntityInv
<1> QED BY <1>1, <1>2 DEF RequestInv

\* A step that leaves the users and Google's profiles alone.
LEMMA RequestStep ==
  ASSUME IInv, NEW r \in Request, NEW q, q \in RequestState, RequestInv(q),
         request' = [request EXCEPT ![r] = q], UNCHANGED <<user, vouched>>,
         signedIn' \subseteq Stored
  PROVE  IInv'
<1>1. RowsStay
  BY DEF RowsStay, Stored
<1>2. TablesOK'
  BY DEF IInv, TypeOK, TablesOK, EmailsUnique, Stored, Sound
<1>3. RequestInv(q)'
  BY <1>1, KnowledgeStays
<1> QED BY <1>1, <1>2, <1>3, StepKeepsIInv

\* An answer that writes nothing, or only starts a session.
LEMMA AnswerStep ==
  ASSUME IInv, NEW r \in Request, Answers(r), UNCHANGED <<user, vouched>>,
         signedIn' \subseteq Stored
  PROVE  IInv'
<1>1. PICK q : q = Idle
  OBVIOUS
<1>2. q \in RequestState /\ RequestInv(q)
  BY <1>1, IdleIsSound
<1>3. request' = [request EXCEPT ![r] = q]
  BY <1>1 DEF Answers
<1> QED BY <1>2, <1>3, RequestStep

-----------------------------------------------------------------------------
LEMMA ReceiveRegisterStep ==
  ASSUME IInv, NEW r \in Request, NEW e \in Email, NEW p \in Password, NEW t \in Text,
         ReceiveRegister(r, e, p, t)
  PROVE  IInv'
<1>1. PICK q : q = [Idle EXCEPT !.op = "register", !.step = "email", !.email = e,
                                !.password = p, !.text = t]
  OBVIOUS
<1>2. q \in RequestState
  BY <1>1, IdleIsSound DEF RequestState, Op, Step
<1>3. OpInv(q) /\ InputInv(q) /\ UserInv(q) /\ EntityInv(q)
  BY <1>1 DEF Idle, OpInv, InputInv, UserInv, EntityInv
<1>4. request' = [request EXCEPT ![r] = q] /\ UNCHANGED <<user, signedIn, vouched>>
  BY <1>1 DEF ReceiveRegister, Receive
<1> QED BY <1>2, <1>3, <1>4, RequestStep DEF RequestInv, IInv, TypeOK

LEMMA ReceiveLoginStep ==
  ASSUME IInv, NEW r \in Request, NEW e \in Email, NEW p \in Password, ReceiveLogin(r, e, p)
  PROVE  IInv'
<1>1. PICK q : q = [Idle EXCEPT !.op = "login", !.step = "find", !.email = e, !.password = p]
  OBVIOUS
<1>2. q \in RequestState
  BY <1>1, IdleIsSound DEF RequestState, Op, Step
<1>3. OpInv(q) /\ InputInv(q) /\ UserInv(q) /\ EntityInv(q)
  BY <1>1 DEF Idle, OpInv, InputInv, UserInv, EntityInv
<1>4. request' = [request EXCEPT ![r] = q] /\ UNCHANGED <<user, signedIn, vouched>>
  BY <1>1 DEF ReceiveLogin, Receive
<1> QED BY <1>2, <1>3, <1>4, RequestStep DEF RequestInv, IInv, TypeOK

LEMMA ReceiveGoogleStep ==
  ASSUME IInv, NEW r \in Request, NEW g \in Google, NEW e \in Email, NEW t \in Text,
         ReceiveGoogle(r, g, e, t)
  PROVE  IInv'
<1>1. PICK q : q = [Idle EXCEPT !.op = "google", !.step = "google", !.email = e,
                                !.google = g, !.text = t]
  OBVIOUS
<1>2. q \in RequestState
  BY <1>1, IdleIsSound DEF RequestState, Op, Step
<1>3. /\ request' = [request EXCEPT ![r] = q]
      /\ vouched' = vouched \cup {<<g, e>>}
      /\ UNCHANGED <<user, signedIn>>
  BY <1>1 DEF ReceiveGoogle, Receive
<1>4. RowsStay
  BY <1>3 DEF RowsStay, Stored
<1>5. TablesOK'
  BY <1>3 DEF IInv, TypeOK, TablesOK, EmailsUnique, Stored, Sound
<1>6. (OpInv(q) /\ InputInv(q) /\ UserInv(q) /\ EntityInv(q))'
  BY <1>1, <1>3 DEF Idle, OpInv, InputInv, UserInv, EntityInv
<1> QED BY <1>2, <1>3, <1>4, <1>5, <1>6, StepKeepsIInv DEF RequestInv

LEMMA ReceiveEditStep ==
  ASSUME IInv, NEW r \in Request, NEW u \in UserId, NEW t \in Text, ReceiveEdit(r, u, t)
  PROVE  IInv'
<1>1. PICK q : q = [Idle EXCEPT !.op = "edit", !.step = "load", !.user = u, !.text = t]
  OBVIOUS
<1>2. q \in RequestState
  BY <1>1, IdleIsSound DEF RequestState, Op, Step
<1>3. u \in Stored
  BY DEF ReceiveEdit, IInv
<1>4. OpInv(q) /\ InputInv(q) /\ UserInv(q) /\ EntityInv(q)
  BY <1>1, <1>3 DEF Idle, OpInv, InputInv, UserInv, EntityInv
<1>5. request' = [request EXCEPT ![r] = q] /\ UNCHANGED <<user, signedIn, vouched>>
  BY <1>1 DEF ReceiveEdit, Receive
<1> QED BY <1>2, <1>4, <1>5, RequestStep DEF RequestInv, IInv

LEMMA BootStep ==
  ASSUME IInv, NEW r \in Request, Boot(r)
  PROVE  IInv'
<1>1. PICK q : q = [Idle EXCEPT !.op = "boot", !.step = "seed", !.todo = Admin]
  OBVIOUS
<1>2. q \in RequestState
  BY <1>1, IdleIsSound DEF RequestState, Op, Step
<1>3. OpInv(q) /\ InputInv(q) /\ UserInv(q) /\ EntityInv(q)
  BY <1>1 DEF Idle, OpInv, InputInv, UserInv, EntityInv
<1>4. request' = [request EXCEPT ![r] = q] /\ UNCHANGED <<user, signedIn, vouched>>
  BY <1>1 DEF Boot, Receive
<1> QED BY <1>2, <1>3, <1>4, RequestStep DEF RequestInv, IInv

-----------------------------------------------------------------------------
LEMMA FindEmailStep ==
  ASSUME IInv, NEW r \in Request, FindEmail(r)
  PROVE  IInv'
<1>1. request[r] \in RequestState /\ RequestInv(request[r]) /\ request[r].step = "email"
  BY DEF IInv, TypeOK, FindEmail
<1>2. CASE WithEmail(request[r].email) # {}
  BY <1>2, AnswerStep DEF FindEmail, IInv
<1>3. CASE WithEmail(request[r].email) = {}
  <2>1. PICK q : q = [request[r] EXCEPT !.step = "insert"]
    OBVIOUS
  <2>2. q \in RequestState
    BY <1>1, <2>1 DEF RequestState, Step
  <2>3. OpInv(q) /\ InputInv(q) /\ UserInv(q) /\ EntityInv(q)
    BY <1>1, <2>1 DEF RequestInv, OpInv, InputInv, UserInv, EntityInv, RequestState
  <2>4. request' = [request EXCEPT ![r] = q] /\ UNCHANGED <<user, signedIn, vouched>>
    BY <1>3, <2>1 DEF FindEmail
  <2> QED BY <2>2, <2>3, <2>4, RequestStep DEF RequestInv, IInv
<1> QED BY <1>2, <1>3

LEMMA InsertStep ==
  ASSUME IInv, NEW r \in Request, NEW u \in UserId, Insert(r, u)
  PROVE  IInv'
<1>1. request[r] \in RequestState /\ RequestInv(request[r]) /\ request[r].step = "insert"
  BY DEF IInv, TypeOK, Insert
<1>2. CASE WithEmail(request[r].email) # {}
  BY <1>2, AnswerStep DEF Insert, IInv
<1>3. CASE WithEmail(request[r].email) = {}
  <2>1. PICK q : q = request[r]
    OBVIOUS
  <2>2. PICK row : row = [email |-> q.email, password |-> q.password, google |-> q.google,
                          profile |-> q.text, admin |-> FALSE]
    OBVIOUS
  <2>3. PICK step : step = IF q.op = "register" THEN "organization" ELSE "start"
    OBVIOUS
  <2>4. PICK n : n = [q EXCEPT !.step = step, !.user = u, !.text = None]
    OBVIOUS
  <2>5. /\ user[u] = None
        /\ user' = [user EXCEPT ![u] = row]
        /\ request' = [request EXCEPT ![r] = n]
        /\ UNCHANGED <<signedIn, vouched>>
    BY <1>3, <2>1, <2>2, <2>3, <2>4 DEF Insert
  <2>6. q.op \in {"register", "google"} /\ q.email \in Email /\ q.text \in Text
    BY <1>1, <2>1 DEF RequestInv, OpInv, InputInv
  <2>7. row \in Row /\ row # None
    <3>1. q.password \in Password \cup {None} /\ q.google \in Google \cup {None}
      BY <1>1, <2>1 DEF RequestState
    <3>2. row \in Row
      BY <2>2, <2>6, <3>1 DEF Row
    <3> QED BY <3>2, NoneAssumption
  <2>8. \A v \in UserId : user'[v] = IF v = u THEN row ELSE user[v]
    BY <2>5 DEF IInv, TypeOK
  <2>9. Stored' = Stored \cup {u}
    BY <2>5, <2>7, <2>8 DEF Stored
  <2>10. RowsStay
    BY <2>5, <2>8, <2>9 DEF RowsStay, Stored
  <2>11. Sound(row)'
    BY <1>1, <2>1, <2>2, <2>5, <2>6 DEF Sound, RequestInv, InputInv
  <2>12. EmailsUnique'
    <3>1. \A v \in Stored : user[v].email # row.email
      BY <1>3, <2>1, <2>2 DEF WithEmail
    <3> QED BY <2>8, <2>9, <3>1 DEF EmailsUnique, IInv, Stored
  <2>13. TablesOK'
    <3>1. user' \in [UserId -> Row \cup {None}]
      BY <2>5, <2>7 DEF IInv, TypeOK
    <3>2. \A v \in Stored : Sound(user[v])'
      BY <2>5, <2>8, <2>10 DEF IInv, Sound, Stored
    <3>3. \A v \in Stored' : Sound(user[v])'
      BY <2>8, <2>9, <2>11, <3>2 DEF Sound
    <3> QED BY <2>5, <2>9, <2>12, <3>1, <3>3 DEF TablesOK, IInv, TypeOK
  <2>14. step \in {"organization", "start"}
    BY <2>3
  <2>15. n \in RequestState
    BY <1>1, <2>1, <2>4, <2>14 DEF RequestState, Step
  <2>16. n.op = q.op /\ n.email = q.email /\ n.password = q.password /\ n.google = q.google
         /\ n.user = u /\ n.step = step
    BY <1>1, <2>1, <2>4 DEF RequestState
  <2>17. OpInv(n)' /\ InputInv(n)' /\ EntityInv(n)'
    BY <1>1, <2>1, <2>3, <2>5, <2>6, <2>14, <2>16
    DEF RequestInv, OpInv, InputInv, EntityInv
  <2>18. UserInv(n)'
    <3>1. user'[u].email = q.email /\ user'[u].password = q.password
      BY <2>2, <2>8
    <3>2. q.op = "google" => <<q.google, q.email>> \in vouched'
      BY <1>1, <2>1, <2>5 DEF RequestInv, InputInv
    <3> QED BY <2>6, <2>9, <2>14, <2>16, <3>1, <3>2 DEF UserInv
  <2> QED BY <2>5, <2>10, <2>13, <2>15, <2>17, <2>18, StepKeepsIInv DEF RequestInv
<1> QED BY <1>2, <1>3

LEMMA CreateOrganizationStep ==
  ASSUME IInv, NEW r \in Request, CreateOrganization(r)
  PROVE  IInv'
<1>1. request[r] \in RequestState /\ RequestInv(request[r]) /\ request[r].step = "organization"
  BY DEF IInv, TypeOK, CreateOrganization
<1>2. PICK q : q = [request[r] EXCEPT !.step = "start"]
  OBVIOUS
<1>3. q \in RequestState
  BY <1>1, <1>2 DEF RequestState, Step
<1>4. OpInv(q) /\ InputInv(q) /\ UserInv(q) /\ EntityInv(q)
  BY <1>1, <1>2 DEF RequestInv, OpInv, InputInv, UserInv, EntityInv, RequestState
<1>5. request' = [request EXCEPT ![r] = q] /\ UNCHANGED <<user, signedIn, vouched>>
  BY <1>2 DEF CreateOrganization
<1> QED BY <1>3, <1>4, <1>5, RequestStep DEF RequestInv, IInv

LEMMA StartSessionStep ==
  ASSUME IInv, NEW r \in Request, StartSession(r)
  PROVE  IInv'
<1>1. RequestInv(request[r]) /\ request[r].step = "start"
  BY DEF IInv, StartSession
<1>2. signedIn' \subseteq Stored
  BY <1>1 DEF IInv, StartSession, RequestInv, UserInv
<1> QED BY <1>2, AnswerStep DEF StartSession

LEMMA LoginStep ==
  ASSUME IInv, NEW r \in Request, NEW u \in UserId, Login(r, u)
  PROVE  IInv'
<1>1. request[r] \in RequestState /\ RequestInv(request[r])
  BY DEF IInv, TypeOK
<1>2. PICK q : q = [request[r] EXCEPT !.step = "start", !.user = u]
  OBVIOUS
<1>3. q \in RequestState
  BY <1>1, <1>2 DEF RequestState, Step
<1>4. /\ u \in Stored
      /\ user[u].email = request[r].email
      /\ user[u].password = request[r].password
      /\ request[r].op = "login" /\ request[r].step = "find"
  BY DEF Login, WithEmail
<1>5. OpInv(q) /\ InputInv(q) /\ UserInv(q) /\ EntityInv(q)
  BY <1>1, <1>2, <1>4 DEF RequestInv, OpInv, InputInv, UserInv, EntityInv, RequestState
<1>6. request' = [request EXCEPT ![r] = q] /\ UNCHANGED <<user, signedIn, vouched>>
  BY <1>2 DEF Login
<1> QED BY <1>3, <1>5, <1>6, RequestStep DEF RequestInv, IInv

LEMMA FindGoogleStep ==
  ASSUME IInv, NEW r \in Request, FindGoogle(r)
  PROVE  IInv'
<1>1. request[r] \in RequestState /\ RequestInv(request[r]) /\ request[r].step = "google"
  BY DEF IInv, TypeOK, FindGoogle
<1>2. ASSUME NEW u \in WithGoogle(request[r].google),
             request' = [request EXCEPT ![r].step = "start", ![r].user = u, ![r].text = None]
      PROVE  IInv'
  <2>1. PICK q : q = [request[r] EXCEPT !.step = "start", !.user = u, !.text = None]
    OBVIOUS
  <2>2. u \in UserId /\ u \in Stored /\ user[u].google = request[r].google
    BY DEF WithGoogle, Stored
  <2>3. q \in RequestState
    BY <1>1, <2>1, <2>2 DEF RequestState, Step
  <2>4. request[r].op = "google" /\ request[r].google # None
    BY <1>1, NoneAssumption DEF RequestInv, OpInv, InputInv
  <2>5. <<request[r].google, user[u].email>> \in vouched
    BY <2>2, <2>4 DEF IInv, Sound
  <2>6. OpInv(q) /\ InputInv(q) /\ UserInv(q) /\ EntityInv(q)
    BY <1>1, <2>1, <2>2, <2>4, <2>5
    DEF RequestInv, OpInv, InputInv, UserInv, EntityInv, RequestState
  <2>7. request' = [request EXCEPT ![r] = q] /\ UNCHANGED <<user, signedIn, vouched>>
    BY <1>2, <2>1 DEF FindGoogle
  <2> QED BY <2>3, <2>6, <2>7, RequestStep DEF RequestInv, IInv
<1>3. CASE request' = [request EXCEPT ![r].step = "find"]
  <2>1. PICK q : q = [request[r] EXCEPT !.step = "find"]
    OBVIOUS
  <2>2. q \in RequestState
    BY <1>1, <2>1 DEF RequestState, Step
  <2>3. OpInv(q) /\ InputInv(q) /\ UserInv(q) /\ EntityInv(q)
    BY <1>1, <2>1 DEF RequestInv, OpInv, InputInv, UserInv, EntityInv, RequestState
  <2>4. request' = [request EXCEPT ![r] = q] /\ UNCHANGED <<user, signedIn, vouched>>
    BY <1>3, <2>1 DEF FindGoogle
  <2> QED BY <2>2, <2>3, <2>4, RequestStep DEF RequestInv, IInv
<1> QED BY <1>2, <1>3 DEF FindGoogle

LEMMA LinkStep ==
  ASSUME IInv, NEW r \in Request, Link(r)
  PROVE  IInv'
<1>1. /\ request[r] \in RequestState /\ RequestInv(request[r])
      /\ request[r].step = "find" /\ request[r].op = "google"
  BY DEF IInv, TypeOK, Link
<1>2. ASSUME NEW u \in WithEmail(request[r].email),
             request' = [request EXCEPT ![r].step = "select", ![r].user = u,
               ![r].entity = [user[u] EXCEPT !.google = request[r].google]]
      PROVE  IInv'
  <2>1. PICK entity : entity = [user[u] EXCEPT !.google = request[r].google]
    OBVIOUS
  <2>2. PICK q : q = [request[r] EXCEPT !.step = "select", !.user = u, !.entity = entity]
    OBVIOUS
  <2>3. u \in UserId /\ u \in Stored /\ user[u].email = request[r].email
    BY DEF WithEmail, Stored
  <2>4. user[u] \in Row
    BY <2>3 DEF IInv, TypeOK, Stored
  <2>5. request[r].google \in Google /\ <<request[r].google, request[r].email>> \in vouched
    BY <1>1 DEF RequestInv, InputInv
  <2>6. /\ entity \in Row
        /\ entity.google = request[r].google /\ entity.email = request[r].email
        /\ entity.password = user[u].password /\ entity.admin = user[u].admin
    BY <2>1, <2>3, <2>4, <2>5 DEF Row
  <2>7. entity # None
    BY <2>6, NoneAssumption
  <2>8. Sound(entity)
    BY <2>3, <2>5, <2>6 DEF IInv, Sound
  <2>9. q \in RequestState
    BY <1>1, <2>2, <2>3, <2>6 DEF RequestState, Step
  <2>10. q.op = "google" /\ q.step = "select" /\ q.user = u /\ q.entity = entity
         /\ q.email = request[r].email /\ q.google = request[r].google
         /\ q.password = request[r].password
    BY <1>1, <2>2 DEF RequestState
  <2>11. OpInv(q) /\ InputInv(q)
    BY <1>1, <2>10 DEF RequestInv, OpInv, InputInv
  <2>12. UserInv(q) /\ EntityInv(q)
    BY <2>3, <2>6, <2>7, <2>8, <2>10 DEF UserInv, EntityInv
  <2>13. request' = [request EXCEPT ![r] = q] /\ UNCHANGED <<user, signedIn, vouched>>
    BY <1>2, <2>1, <2>2 DEF Link
  <2> QED BY <2>9, <2>11, <2>12, <2>13, RequestStep DEF RequestInv, IInv
<1>3. CASE request' = [request EXCEPT ![r].step = "email"]
  <2>1. PICK q : q = [request[r] EXCEPT !.step = "email"]
    OBVIOUS
  <2>2. q \in RequestState
    BY <1>1, <2>1 DEF RequestState, Step
  <2>3. OpInv(q) /\ InputInv(q) /\ UserInv(q) /\ EntityInv(q)
    BY <1>1, <2>1 DEF RequestInv, OpInv, InputInv, UserInv, EntityInv, RequestState
  <2>4. request' = [request EXCEPT ![r] = q] /\ UNCHANGED <<user, signedIn, vouched>>
    BY <1>3, <2>1 DEF Link
  <2> QED BY <2>2, <2>3, <2>4, RequestStep DEF RequestInv, IInv
<1> QED BY <1>2, <1>3 DEF Link

LEMMA LoadStep ==
  ASSUME IInv, NEW r \in Request, Load(r)
  PROVE  IInv'
<1>1. request[r] \in RequestState /\ RequestInv(request[r]) /\ request[r].step = "load"
  BY DEF IInv, TypeOK, Load
<1>2. PICK u : u = request[r].user
  OBVIOUS
<1>3. u \in Stored /\ request[r].text \in Text /\ request[r].op = "edit"
  BY <1>1, <1>2 DEF RequestInv, UserInv, InputInv, OpInv
<1>4. user[u] \in Row
  BY <1>3 DEF IInv, TypeOK, Stored
<1>5. PICK entity : entity = [user[u] EXCEPT !.profile = request[r].text]
  OBVIOUS
<1>6. /\ entity \in Row
      /\ entity.google = user[u].google /\ entity.email = user[u].email
      /\ entity.password = user[u].password /\ entity.admin = user[u].admin
  BY <1>3, <1>4, <1>5 DEF Row
<1>7. entity # None /\ Sound(entity)
  BY <1>3, <1>6, NoneAssumption DEF IInv, Sound
<1>8. PICK q : q = [request[r] EXCEPT !.step = "select", !.text = None, !.entity = entity]
  OBVIOUS
<1>9. q \in RequestState
  BY <1>1, <1>6, <1>8 DEF RequestState, Step
<1>10. q.op = "edit" /\ q.step = "select" /\ q.user = u /\ q.entity = entity
  BY <1>1, <1>2, <1>3, <1>8 DEF RequestState
<1>11. OpInv(q) /\ InputInv(q) /\ UserInv(q) /\ EntityInv(q)
  BY <1>3, <1>6, <1>7, <1>10 DEF OpInv, InputInv, UserInv, EntityInv
<1>12. request' = [request EXCEPT ![r] = q] /\ UNCHANGED <<user, signedIn, vouched>>
  BY <1>2, <1>5, <1>8 DEF Load
<1> QED BY <1>9, <1>11, <1>12, RequestStep DEF RequestInv, IInv

LEMMA SeedStep ==
  ASSUME IInv, NEW r \in Request, Seed(r)
  PROVE  IInv'
<1>1. request[r] \in RequestState /\ RequestInv(request[r]) /\ request[r].step = "seed"
      /\ request[r].op = "boot"
  BY DEF IInv, TypeOK, Seed, RequestInv, OpInv
<1>2. CASE request[r].todo = {} /\ Answers(r)
  BY <1>2, AnswerStep DEF Seed, IInv
<1>3. ASSUME NEW e \in request[r].todo,
             request' = [request EXCEPT ![r].todo = request[r].todo \ {e}]
      PROVE  IInv'
  <2>1. PICK q : q = [request[r] EXCEPT !.todo = request[r].todo \ {e}]
    OBVIOUS
  <2>2. q \in RequestState
    BY <1>1, <2>1 DEF RequestState
  <2>3. OpInv(q) /\ InputInv(q) /\ UserInv(q) /\ EntityInv(q)
    BY <1>1, <2>1 DEF RequestInv, OpInv, InputInv, UserInv, EntityInv, RequestState
  <2>4. request' = [request EXCEPT ![r] = q] /\ UNCHANGED <<user, signedIn, vouched>>
    BY <1>3, <2>1 DEF Seed
  <2> QED BY <2>2, <2>3, <2>4, RequestStep DEF RequestInv, IInv
<1>4. ASSUME NEW e \in request[r].todo, NEW u \in WithEmail(e),
             request' = [request EXCEPT ![r].todo = request[r].todo \ {e}, ![r].step = "select",
               ![r].user = u, ![r].entity = [user[u] EXCEPT !.admin = TRUE]]
      PROVE  IInv'
  <2>1. PICK entity : entity = [user[u] EXCEPT !.admin = TRUE]
    OBVIOUS
  <2>2. PICK q : q = [request[r] EXCEPT !.todo = request[r].todo \ {e}, !.step = "select",
                                        !.user = u, !.entity = entity]
    OBVIOUS
  <2>3. u \in UserId /\ u \in Stored /\ user[u].email = e /\ e \in Admin
    BY <1>1 DEF WithEmail, Stored, RequestState
  <2>4. user[u] \in Row
    BY <2>3 DEF IInv, TypeOK, Stored
  <2>5. /\ entity \in Row
        /\ entity.google = user[u].google /\ entity.email = user[u].email
        /\ entity.password = user[u].password
    BY <2>1, <2>4 DEF Row
  <2>6. entity # None /\ Sound(entity)
    BY <2>3, <2>5, NoneAssumption DEF IInv, Sound
  <2>7. q \in RequestState
    BY <1>1, <2>2, <2>3, <2>5 DEF RequestState, Step
  <2>8. q.op = "boot" /\ q.step = "select" /\ q.user = u /\ q.entity = entity
    BY <1>1, <2>2 DEF RequestState
  <2>9. OpInv(q) /\ InputInv(q) /\ UserInv(q) /\ EntityInv(q)
    BY <2>3, <2>5, <2>6, <2>8 DEF OpInv, InputInv, UserInv, EntityInv
  <2>10. request' = [request EXCEPT ![r] = q] /\ UNCHANGED <<user, signedIn, vouched>>
    BY <1>4, <2>1, <2>2 DEF Seed
  <2> QED BY <2>7, <2>9, <2>10, RequestStep DEF RequestInv, IInv
<1> QED BY <1>2, <1>3, <1>4 DEF Seed

\* What follows a save: the session of a Google sign-in is for a user with the
\* email of the profile.
LEMMA ContinueIsSound ==
  ASSUME NEW q \in RequestState, RequestInv(q), q.step \in {"select", "update"}
  PROVE  Continue(q) \in RequestState /\ RequestInv(Continue(q))
<1>1. CASE q.op = "edit"
  BY <1>1, IdleIsSound DEF Continue
<1>2. CASE q.op # "edit"
  <2>1. PICK step : step = IF q.op = "google" THEN "start" ELSE "seed"
    OBVIOUS
  <2>2. PICK n : n = [q EXCEPT !.step = step, !.entity = None, !.set = {}]
    OBVIOUS
  <2>3. Continue(q) = n
    BY <1>2, <2>1, <2>2 DEF Continue
  <2>4. step \in {"start", "seed"}
    BY <2>1
  <2>5. n \in RequestState
    BY <2>2, <2>4 DEF RequestState, Step
  <2>6. /\ n.op = q.op /\ n.step = step /\ n.user = q.user /\ n.email = q.email
        /\ n.password = q.password /\ n.google = q.google
    BY <2>2 DEF RequestState
  <2>7. q.op \in {"google", "boot"}
    BY <1>2 DEF RequestInv, OpInv
  <2>8. OpInv(n)
    BY <2>1, <2>4, <2>6, <2>7 DEF OpInv
  <2>9. InputInv(n)
    BY <2>4, <2>6, <2>7 DEF RequestInv, InputInv
  <2>10. UserInv(n)
    BY <2>1, <2>4, <2>6, <2>7 DEF RequestInv, InputInv, UserInv
  <2>11. EntityInv(n)
    BY <2>4, <2>6 DEF EntityInv
  <2> QED BY <2>3, <2>5, <2>8, <2>9, <2>10, <2>11 DEF RequestInv
<1> QED BY <1>1, <1>2

LEMMA SelectRowStep ==
  ASSUME IInv, NEW r \in Request, SelectRow(r)
  PROVE  IInv'
<1>1. request[r] \in RequestState /\ RequestInv(request[r]) /\ request[r].step = "select"
  BY DEF IInv, TypeOK, SelectRow
<1>2. PICK set : set = {c \in Column : request[r].entity[c] # user[request[r].user][c]}
  OBVIOUS
<1>3. set \subseteq Column
  BY <1>2
<1>4. UNCHANGED <<user, signedIn, vouched>>
  BY DEF SelectRow
<1>5. CASE set = {}
  <2>1. PICK n : n = Continue(request[r])
    OBVIOUS
  <2>2. request' = [request EXCEPT ![r] = n]
    BY <1>2, <1>5, <2>1 DEF SelectRow
  <2>3. n \in RequestState /\ RequestInv(n)
    BY <1>1, <2>1, ContinueIsSound
  <2> QED BY <1>4, <2>2, <2>3, RequestStep DEF IInv
<1>6. CASE set # {}
  <2>1. PICK n : n = [request[r] EXCEPT !.step = "update", !.set = set]
    OBVIOUS
  <2>2. request' = [request EXCEPT ![r] = n]
    BY <1>2, <1>6, <2>1 DEF SelectRow
  <2>3. n \in RequestState
    BY <1>1, <1>3, <2>1 DEF RequestState, Step
  <2>4. OpInv(n) /\ InputInv(n) /\ UserInv(n) /\ EntityInv(n)
    BY <1>1, <2>1 DEF RequestInv, OpInv, InputInv, UserInv, EntityInv, RequestState
  <2> QED BY <1>4, <2>2, <2>3, <2>4, RequestStep DEF RequestInv, IInv
<1> QED BY <1>5, <1>6

\* A saved row has the credentials it had, and only sound columns.
LEMMA WrittenIsSound ==
  ASSUME NEW q, NEW row \in Row, q.entity \in Row, Sound(row), Sound(q.entity),
         q.entity.email = row.email, q.entity.password = row.password
  PROVE  /\ Written(q, row) \in Row
         /\ Written(q, row).email = row.email
         /\ Written(q, row).password = row.password
         /\ Sound(Written(q, row))
<1>1. PICK w : w = Written(q, row)
  OBVIOUS
<1>2. /\ w.email = row.email
      /\ w.password = row.password
      /\ w.google = (IF "google" \in q.set THEN q.entity.google ELSE row.google)
      /\ w.admin = (IF "admin" \in q.set THEN q.entity.admin ELSE row.admin)
  BY <1>1 DEF Written
<1>3. w \in Row
  BY <1>1 DEF Written, Row
<1>4. Sound(w)
  BY <1>2 DEF Sound
<1> QED BY <1>1, <1>2, <1>3, <1>4

LEMMA UpdateRowStep ==
  ASSUME IInv, NEW r \in Request, UpdateRow(r)
  PROVE  IInv'
<1>1. request[r] \in RequestState /\ RequestInv(request[r]) /\ request[r].step = "update"
  BY DEF IInv, TypeOK, UpdateRow
<1>2. PICK q : q = request[r]
  OBVIOUS
<1>3. PICK w : w = Written(q, user[q.user])
  OBVIOUS
<1>4. PICK n : n = Continue(q)
  OBVIOUS
<1>5. /\ user' = [user EXCEPT ![q.user] = w]
      /\ request' = [request EXCEPT ![r] = n]
      /\ UNCHANGED <<signedIn, vouched>>
  BY <1>2, <1>3, <1>4 DEF UpdateRow
<1>6. q.user \in Stored /\ user[q.user] \in Row
  BY <1>1, <1>2 DEF RequestInv, UserInv, IInv, TypeOK, Stored
<1>7. /\ q.entity \in Row /\ Sound(q.entity)
      /\ q.entity.email = user[q.user].email /\ q.entity.password = user[q.user].password
  BY <1>1, <1>2 DEF RequestInv, EntityInv, RequestState
<1>8. /\ w \in Row /\ w.email = user[q.user].email /\ w.password = user[q.user].password
      /\ Sound(w)
  BY <1>3, <1>6, <1>7, WrittenIsSound DEF IInv
<1>9. w # None
  BY <1>8, NoneAssumption
<1>10. \A u \in UserId : user'[u] = IF u = q.user THEN w ELSE user[u]
  BY <1>5 DEF IInv, TypeOK
<1>11. Stored' = Stored
  BY <1>6, <1>9, <1>10 DEF Stored
<1>12. RowsStay
  BY <1>5, <1>8, <1>10, <1>11 DEF RowsStay, Stored
<1>13. EmailsUnique'
  BY <1>8, <1>10, <1>11 DEF EmailsUnique, IInv, Stored
<1>14. Sound(w)'
  BY <1>5, <1>8 DEF Sound
<1>15. \A u \in Stored' : Sound(user[u])'
  BY <1>5, <1>10, <1>11, <1>14 DEF IInv, Sound, Stored
<1>16. user' \in [UserId -> Row \cup {None}]
  BY <1>5, <1>8 DEF IInv, TypeOK
<1>17. TablesOK'
  BY <1>5, <1>11, <1>13, <1>15, <1>16 DEF TablesOK, IInv, TypeOK
<1>18. n \in RequestState /\ RequestInv(n)
  BY <1>1, <1>2, <1>4, ContinueIsSound
<1>19. RequestInv(n)'
  BY <1>12, <1>18, KnowledgeStays
<1> QED BY <1>5, <1>12, <1>17, <1>18, <1>19, StepKeepsIInv

LEMMA StutterStep == ASSUME IInv, UNCHANGED vars PROVE IInv'
<1>1. RowsStay /\ UNCHANGED <<user, signedIn, vouched, request>>
  BY DEF vars, RowsStay, Stored
<1>2. \A r \in Request : RequestInv(request[r])'
  BY <1>1 DEF IInv, RequestInv, OpInv, InputInv, UserInv, EntityInv, Sound, Stored
<1> QED BY <1>1, <1>2 DEF IInv, TypeOK, EmailsUnique, Stored, Sound

-----------------------------------------------------------------------------
LEMMA Initially == Init => IInv
<1> SUFFICES ASSUME Init PROVE IInv
  OBVIOUS
<1>1. Stored = {}
  BY DEF Init, Stored
<1>2. \A r \in Request : request[r] \in RequestState /\ RequestInv(request[r])
  BY IdleIsSound DEF Init
<1>3. TypeOK
  BY <1>2 DEF Init, TypeOK, RequestInv, EntityInv
<1> QED BY <1>1, <1>2, <1>3 DEF Init, IInv, EmailsUnique

LEMMA Inductive == IInv /\ [Next]_vars => IInv'
<1> SUFFICES ASSUME IInv, [Next]_vars PROVE IInv'
  OBVIOUS
<1>1. ASSUME NEW r \in Request, Arrival(r) PROVE IInv'
  BY <1>1, ReceiveRegisterStep, ReceiveLoginStep, ReceiveGoogleStep, ReceiveEditStep, BootStep
  DEF Arrival
<1>2. ASSUME NEW r \in Request, Progress(r) PROVE IInv'
  <2>1. CASE RefuseLogin(r)
    BY <2>1, AnswerStep DEF RefuseLogin, IInv
  <2> QED BY <1>2, <2>1, FindEmailStep, CreateOrganizationStep, StartSessionStep, FindGoogleStep,
             LinkStep, InsertStep, LoginStep, LoadStep, SeedStep, SelectRowStep, UpdateRowStep
          DEF Progress
<1>3. ASSUME NEW r \in Request, Fail(r) PROVE IInv'
  BY <1>3, AnswerStep DEF Fail, IInv
<1> QED BY <1>1, <1>2, <1>3, StutterStep DEF Next

LEMMA Invariant == Spec => []IInv
BY Initially, Inductive, PTL DEF Spec

\* The rows and the requests have their types, for any number of users and
\* overlapping requests.
THEOREM TypeCorrect == Spec => []TypeOK
<1>1. IInv => TypeOK
  BY DEF IInv
<1> QED BY <1>1, Invariant, PTL

\* An email never has two users, however many creations overlap.
THEOREM OneUserPerEmail == Spec => []EmailsUnique
<1>1. IInv => EmailsUnique
  BY DEF IInv
<1> QED BY <1>1, Invariant, PTL

\* A session is started only for the user the request has the credentials of.
THEOREM EntitledSignIns == Spec => []SignInsAreEntitled
<1>1. IInv => SignInsAreEntitled
  <2>1. ASSUME NEW q, OpInv(q), UserInv(q), q.step = "start"
        PROVE  /\ q.user \in Stored
               /\ q.op \in {"register", "login"} =>
                    user[q.user].email = q.email /\ user[q.user].password = q.password
               /\ q.op = "google" => <<q.google, user[q.user].email>> \in vouched
    BY <2>1 DEF OpInv, UserInv
  <2> QED BY <2>1 DEF IInv, RequestInv, SignInsAreEntitled
<1> QED BY <1>1, Invariant, PTL

\* Only users of configured emails ever have the platform flag.
THEOREM ConfiguredAdmins == Spec => []AdminsAreConfigured
<1>1. IInv => AdminsAreConfigured
  BY DEF IInv, Sound, AdminsAreConfigured
<1> QED BY <1>1, Invariant, PTL

-----------------------------------------------------------------------------
\* What the action property of credentials says of one step.
KeepsCredentials ==
  \A u \in Stored : /\ u \in Stored'
                    /\ user'[u].email = user[u].email
                    /\ user'[u].password = user[u].password

LEMMA StepKeepsCredentials == IInv /\ [Next]_vars => KeepsCredentials
<1> SUFFICES ASSUME IInv, [Next]_vars PROVE KeepsCredentials
  OBVIOUS
<1>1. CASE UNCHANGED user
  BY <1>1 DEF KeepsCredentials, Stored
<1>2. ASSUME NEW r \in Request, NEW u \in UserId, Insert(r, u) PROVE KeepsCredentials
  BY <1>1, <1>2 DEF Insert, KeepsCredentials, Stored, IInv, TypeOK
<1>3. ASSUME NEW r \in Request, UpdateRow(r) PROVE KeepsCredentials
  <2>1. PICK q : q = request[r]
    OBVIOUS
  <2>2. q \in RequestState /\ RequestInv(q) /\ q.step = "update"
    BY <1>3, <2>1 DEF IInv, TypeOK, UpdateRow
  <2>3. q.user \in Stored /\ user[q.user] \in Row
    BY <2>2 DEF RequestInv, UserInv, IInv, TypeOK, Stored
  <2>4. /\ q.entity \in Row /\ Sound(q.entity)
        /\ q.entity.email = user[q.user].email /\ q.entity.password = user[q.user].password
    BY <2>2 DEF RequestInv, EntityInv, RequestState
  <2>5. PICK w : w = Written(q, user[q.user])
    OBVIOUS
  <2>6. w \in Row /\ w.email = user[q.user].email /\ w.password = user[q.user].password
    BY <2>3, <2>4, <2>5, WrittenIsSound DEF IInv
  <2>7. w # None
    BY <2>6, NoneAssumption
  <2>8. user' = [user EXCEPT ![q.user] = w]
    BY <1>3, <2>1, <2>5 DEF UpdateRow
  <2>9. \A u \in UserId : user'[u] = IF u = q.user THEN w ELSE user[u]
    BY <2>8 DEF IInv, TypeOK
  <2> QED BY <2>6, <2>7, <2>9 DEF KeepsCredentials, Stored
<1>4. ASSUME NEW r \in Request, Progress(r) PROVE KeepsCredentials
  BY <1>1, <1>2, <1>3, <1>4 DEF Progress, FindEmail, CreateOrganization, StartSession,
     RefuseLogin, FindGoogle, Link, Login, Load, Seed, SelectRow
<1>5. ASSUME NEW r \in Request, Arrival(r) PROVE KeepsCredentials
  BY <1>1, <1>5 DEF Arrival, ReceiveRegister, ReceiveLogin, ReceiveGoogle, ReceiveEdit, Boot, Receive
<1> QED BY <1>1, <1>4, <1>5 DEF Next, Fail, vars

\* The email and the password of a user never change.
THEOREM StableCredentials == Spec => CredentialsStay
<1>1. IInv /\ [Next]_vars =>
        (\A u \in Stored : /\ u \in Stored'
                           /\ user'[u].email = user[u].email
                           /\ user'[u].password = user[u].password)
  BY StepKeepsCredentials DEF KeepsCredentials
<1> QED BY <1>1, Invariant, PTL DEF Spec, CredentialsStay

=============================================================================
