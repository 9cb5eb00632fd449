---------------------------- MODULE SessionStore ----------------------------
(***************************************************************************)
(* The sessions table of the backend and the HTTP requests that use it:    *)
(* starting a session, rotating a refresh token, logging out, revoking one *)
(* session or every other one, and the access check of the JWT strategy.   *)
(*                                                                         *)
(* Requests interleave at the grain Postgres gives them under READ         *)
(* COMMITTED.  A SELECT ... FOR UPDATE waits for the row lock and reads    *)
(* the last committed row.  A bulk UPDATE picks its rows in the snapshot   *)
(* of the statement (BeginSweep), then locks them one at a time, checking  *)
(* its WHERE clause again on the committed row (SweepRow).  Writes become  *)
(* visible, and locks are released, when the transaction ends.             *)
(*                                                                         *)
(* A random UUID is a fresh member of SessionId, from one pool for the     *)
(* sessions a login starts and one for the replacements of a rotation, as  *)
(* two random draws never meet.  A family is named by the session that     *)
(* opened it.  The refresh token of a session stands for that session: a   *)
(* token is issued once, for one session id, and its hash is stored in     *)
(* that row and never changes.                                             *)
(***************************************************************************)
CONSTANTS User,           \* users; nothing in the program deletes one
          LoginId,        \* the UUIDs a started session can get (bounds their number)
          ReplacementId,  \* the UUIDs a replacement can get (bounds their number)
          Mortal,         \* the sessions that may reach expiresAt (bounds the expiries)
          Request,        \* the HTTP requests of a behaviour (bounds their number)
          None            \* no row, no lock, no session

VARIABLES session,    \* the committed row of each session id, or None
          expired,    \* sessions whose expiresAt is in the past
          lock,       \* the request whose transaction locks each row, or None
          request,    \* what each request is doing
          jar         \* sessions whose tokens reached a client

vars == <<session, expired, lock, request, jar>>

SessionId == LoginId \cup ReplacementId

SessionRow == [user: User, family: SessionId, revoked: BOOLEAN,
               replacedBy: SessionId \cup {None}]

Op == {"none", "refresh", "logout", "revoke", "revokeOthers"}
Step == {"idle", "authenticate", "lock", "rotate", "snapshot", "sweep", "answered"}
Answer == {"none", "rotated", "reused", "unauthorized", "revoked", "notFound", "failed"}

RequestState == [op: Op, step: Step, user: User \cup {None},
                 sid: SessionId \cup {None}, target: SessionId \cup {None},
                 seen: SUBSET SessionId, todo: SUBSET SessionId,
                 done: SUBSET SessionId, answer: Answer]

\* None is told apart from every value it stands in for.
ASSUME NoneAssumption ==
  None \notin User /\ None \notin SessionId /\ None \notin Request /\ None \notin SessionRow

Idle == [op |-> "none", step |-> "idle", user |-> None, sid |-> None, target |-> None,
         seen |-> {}, todo |-> {}, done |-> {}, answer |-> "none"]

Stored == {s \in SessionId : session[s] # None}
Unrevoked == {s \in Stored : ~session[s].revoked}

\* A session that passes the access check: stored, not revoked, not expired.
Active == Unrevoked \ expired

\* Mutant: buildSession leaves the family of the row unset.
NewSessionNoFamily(u, f) == [user |-> u, family |-> None, revoked |-> FALSE, replacedBy |-> None]

NewSession(u, f) == [user |-> u, family |-> f, revoked |-> FALSE, replacedBy |-> None]

Answered(r, a) == [request[r] EXCEPT !.step = "answered", !.answer = a]

\* The end of r's transaction frees the rows it locked.
Released(r) == [s \in SessionId |-> IF lock[s] = r THEN None ELSE lock[s]]

Init ==
  /\ session = [s \in SessionId |-> None]
  /\ expired = {}
  /\ lock = [s \in SessionId |-> None]
  /\ request = [r \in Request |-> Idle]
  /\ jar = {}
-----------------------------------------------------------------------------
(* Environment: time, clients, and the arrival of requests.                *)

\* A rotation gives the replacement a later expiresAt than the session it
\* replaces, so a family expires in the order of its chain.
Expire(s) ==
  /\ s \in (Mortal \cap Stored) \ expired
  /\ \A p \in Stored : session[p].replacedBy = s => p \in expired
  /\ expired' = expired \cup {s}
  /\ UNCHANGED <<session, lock, request, jar>>

\* Login, registration or the Google callback inserts a session in a family
\* of its own; the answer with the tokens may not reach the client.
StartSession(u, s) ==
  /\ s \in LoginId \ Stored
  /\ session' = [session EXCEPT ![s] = NewSession(u, s)]
  /\ jar' \in {jar, jar \cup {s}}
  /\ UNCHANGED <<expired, lock, request>>

\* POST /auth/refresh with a token the client once received, spent or not.
\* An expired token is refused before the database is asked.
ReceiveRefresh(r, t) ==
  /\ request[r] = Idle
  /\ t \in jar
  /\ request' = [request EXCEPT ![r] =
       [Idle EXCEPT !.op = "refresh", !.user = session[t].user, !.sid = t,
                    !.step = IF t \in expired THEN "answered" ELSE "lock",
                    !.answer = IF t \in expired THEN "unauthorized" ELSE "none"]]
  /\ UNCHANGED <<session, expired, lock, jar>>

\* POST /auth/logout: the error of an expired token is swallowed.
ReceiveLogout(r, t) ==
  /\ request[r] = Idle
  /\ t \in jar
  /\ request' = [request EXCEPT ![r] =
       [Idle EXCEPT !.op = "logout", !.user = session[t].user, !.sid = t, !.target = t,
                    !.step = IF t \in expired THEN "answered" ELSE "snapshot",
                    !.answer = IF t \in expired THEN "notFound" ELSE "none"]]
  /\ UNCHANGED <<session, expired, lock, jar>>

\* DELETE /me/sessions/:t and DELETE /me/sessions, sent from session c.
ReceiveManage(r, c, op, t) ==
  /\ request[r] = Idle
  /\ c \in jar
  /\ request' = [request EXCEPT ![r] =
       [Idle EXCEPT !.op = op, !.user = session[c].user, !.sid = c, !.target = t,
                    !.step = "authenticate"]]
  /\ UNCHANGED <<session, expired, lock, jar>>

ReceiveRevoke(r, c, t) == ReceiveManage(r, c, "revoke", t)
ReceiveRevokeOthers(r, c) == ReceiveManage(r, c, "revokeOthers", None)
-----------------------------------------------------------------------------
(* The access check, in a statement of its own.                            *)

Authenticate(r) ==
  /\ request[r].step = "authenticate"
  /\ request' = [request EXCEPT ![r] =
       IF request[r].sid \in Active THEN [@ EXCEPT !.step = "snapshot"]
                                    ELSE Answered(r, "unauthorized")]
  /\ UNCHANGED <<session, expired, lock, jar>>
-----------------------------------------------------------------------------
(* The rotation transaction.                                               *)

Invalid(r) ==
  LET current == session[request[r].sid]
  IN  current = None \/ current.user # request[r].user \/ request[r].sid \in expired

\* Mutant: the row is read without the pessimistic_write lock.
LockCurrentUnlocked(r) ==
  /\ request[r].step = "lock"
  /\ request' = [request EXCEPT ![r] =
       IF Invalid(r) THEN Answered(r, "unauthorized")
       ELSE [@ EXCEPT !.step = IF session[request[r].sid].revoked THEN "snapshot" ELSE "rotate"]]
  /\ UNCHANGED <<session, expired, lock, jar>>

\* Mutant: revokedAt is not looked at.
LockCurrentUnchecked(r) ==
  /\ request[r].step = "lock" /\ lock[request[r].sid] = None /\ ~Invalid(r)
  /\ request' = [request EXCEPT ![r].step = "rotate"]
  /\ lock' = [lock EXCEPT ![request[r].sid] = r]
  /\ UNCHANGED <<session, expired, jar>>

\* Mutant: the early return for an invalid token leaves the transaction open.
LockCurrentLeak(r) ==
  /\ request[r].step = "lock" /\ lock[request[r].sid] = None
  /\ request' = [request EXCEPT ![r] =
       IF Invalid(r) THEN Answered(r, "unauthorized")
       ELSE [@ EXCEPT !.step = IF session[request[r].sid].revoked THEN "snapshot" ELSE "rotate"]]
  /\ lock' = [lock EXCEPT ![request[r].sid] = r]
  /\ UNCHANGED <<session, expired, jar>>

\* SELECT ... FOR UPDATE of the current row, and the decision on what it read.
LockCurrent(r) ==
  LET s == request[r].sid
  IN  /\ request[r].step = "lock"
      /\ lock[s] = None
      /\ \/ /\ Invalid(r)
            /\ request' = [request EXCEPT ![r] = Answered(r, "unauthorized")]
            /\ UNCHANGED lock
         \/ /\ ~Invalid(r)
            /\ request' = [request EXCEPT ![r].step =
                 IF session[s].revoked THEN "snapshot" ELSE "rotate"]
            /\ lock' = [lock EXCEPT ![s] = r]
      /\ UNCHANGED <<session, expired, jar>>

\* Mutant: the current row is saved without its revokedAt.
CommitRotationUnspent(r, n) ==
  /\ request[r].step = "rotate" /\ n \in ReplacementId \ Stored
  /\ session' = [session EXCEPT
       ![n] = NewSession(request[r].user, session[request[r].sid].family)]
  /\ lock' = Released(r)
  /\ request' = [request EXCEPT ![r] = Answered(r, "rotated")]
  /\ jar' = jar \cup {n} /\ UNCHANGED expired

\* Mutant: the replacement keeps the family of its own that buildSession gave it.
CommitRotationOwnFamily(r, n) ==
  /\ request[r].step = "rotate" /\ n \in ReplacementId \ Stored
  /\ session' = [session EXCEPT
       ![request[r].sid] = [@ EXCEPT !.revoked = TRUE, !.replacedBy = n],
       ![n] = NewSession(request[r].user, n)]
  /\ lock' = Released(r)
  /\ request' = [request EXCEPT ![r] = Answered(r, "rotated")]
  /\ jar' = jar \cup {n} /\ UNCHANGED expired

\* The current row is spent and its replacement n inserted in the same family
\* by the same transaction; the answer with the new tokens may be lost.
CommitRotation(r, n) ==
  LET s == request[r].sid
  IN  /\ request[r].step = "rotate"
      /\ n \in ReplacementId \ Stored
      /\ session' = [session EXCEPT
           ![s] = [@ EXCEPT !.revoked = TRUE, !.replacedBy = n],
           ![n] = NewSession(request[r].user, session[s].family)]
      /\ lock' = Released(r)
      /\ request' = [request EXCEPT ![r] = Answered(r, "rotated")]
      /\ jar' \in {jar, jar \cup {n}}
      /\ UNCHANGED expired
-----------------------------------------------------------------------------
(* The revoking UPDATE statements.                                         *)

\* Mutants: revokeOwned without the user; a logout of every session of the user.
InScopeAnyUser(r, s) ==
  LET q == request[r]
  IN  \/ q.op = "refresh" /\ session[s].family = session[q.sid].family
      \/ q.op \in {"logout", "revoke"} /\ s = q.target
      \/ q.op = "revokeOthers" /\ s # q.sid /\ session[s].user = q.user

InScopeLogoutAll(r, s) ==
  LET q == request[r]
  IN  \/ q.op = "refresh" /\ session[s].family = session[q.sid].family
      \/ q.op \in {"logout", "revoke"} /\ session[s].user = q.user
      \/ q.op = "revokeOthers" /\ s # q.sid /\ session[s].user = q.user

\* The WHERE clause of the statement r runs, without revoked_at IS NULL:
\* the family of a reused token, one owned session, or all but one.
InScope(r, s) ==
  LET q == request[r]
  IN  \/ q.op = "refresh" /\ session[s].family = session[q.sid].family
      \/ q.op \in {"logout", "revoke"} /\ s = q.target /\ session[s].user = q.user
      \/ q.op = "revokeOthers" /\ s # q.sid /\ session[s].user = q.user

\* The statement starts: the rows it will visit are those of its snapshot.
BeginSweep(r) ==
  LET rows == {s \in Unrevoked : InScope(r, s)}
  IN  /\ request[r].step = "snapshot"
      /\ request' = [request EXCEPT ![r].step = "sweep", ![r].seen = rows, ![r].todo = rows]
      /\ UNCHANGED <<session, expired, lock, jar>>

\* Mutant: locked rows are skipped instead of waited for.
SweepRowSkip(r, s) ==
  /\ request[r].step = "sweep" /\ s \in request[r].todo
  /\ request' = [request EXCEPT ![r].todo = @ \ {s},
                   ![r].done = IF lock[s] = None THEN @ \cup {s} ELSE @]
  /\ lock' = IF lock[s] = None THEN [lock EXCEPT ![s] = r] ELSE lock
  /\ UNCHANGED <<session, expired, jar>>

\* It waits for the lock of the next row and updates it if it still qualifies.
SweepRow(r, s) ==
  /\ request[r].step = "sweep"
  /\ s \in request[r].todo
  /\ lock[s] = None
  /\ \/ /\ session[s].revoked
        /\ request' = [request EXCEPT ![r].todo = @ \ {s}]
        /\ UNCHANGED lock
     \/ /\ ~session[s].revoked
        /\ request' = [request EXCEPT ![r].todo = @ \ {s}, ![r].done = @ \cup {s}]
        /\ lock' = [lock EXCEPT ![s] = r]
  /\ UNCHANGED <<session, expired, jar>>

\* Commit.  No row affected is a 404 for DELETE /me/sessions/:t, and is
\* silent for a logout.
EndSweep(r) ==
  LET q == request[r]
      answer == IF q.op = "refresh" THEN "reused"
                ELSE IF q.op # "revokeOthers" /\ q.done = {} THEN "notFound"
                ELSE "revoked"
  IN  /\ q.step = "sweep"
      /\ q.todo = {}
      /\ session' = [s \in SessionId |->
           IF s \in q.done THEN [session[s] EXCEPT !.revoked = TRUE] ELSE session[s]]
      /\ lock' = Released(r)
      /\ request' = [request EXCEPT ![r] = Answered(r, answer)]
      /\ UNCHANGED <<expired, jar>>
-----------------------------------------------------------------------------
(* Failures.                                                               *)

InFlight(r) == request[r].step \notin {"idle", "answered"}

\* Nothing of an unfinished transaction survives it.
Rollback(r) ==
  /\ lock' = Released(r)
  /\ request' = [request EXCEPT ![r] = [Answered(r, "failed") EXCEPT !.todo = {}, !.done = {}]]
  /\ UNCHANGED <<session, expired, jar>>

\* The process or its connection dies before the request commits.
Fail(r) == InFlight(r) /\ Rollback(r)

\* A set of sweeps each of which waits only for rows the set holds, and
\* holds a row the set waits for.
Deadlocked(D) ==
  /\ D # {}
  /\ \A q \in D : /\ request[q].step = "sweep"
                  /\ request[q].todo # {}
                  /\ \A s \in request[q].todo : lock[s] \in D
                  /\ \E p \in D : \E s \in request[p].todo : lock[s] = q

\* Postgres aborts one of the transactions of such a set.
DeadlockVictim(r) ==
  /\ \E D \in SUBSET Request : r \in D /\ Deadlocked(D)
  /\ Rollback(r)
-----------------------------------------------------------------------------
\* What a server does with a request it has received.
Progress(r) ==
  \/ Authenticate(r)
  \/ LockCurrent(r)
  \/ \E n \in ReplacementId : CommitRotation(r, n)
  \/ BeginSweep(r)
  \/ \E s \in SessionId : SweepRow(r, s)
  \/ EndSweep(r)
  \/ DeadlockVictim(r)

Arrival(r) ==
  \/ \E t \in SessionId : ReceiveRefresh(r, t) \/ ReceiveLogout(r, t)
  \/ \E c, t \in SessionId : ReceiveRevoke(r, c, t)
  \/ \E c \in SessionId : ReceiveRevokeOthers(r, c)

Next ==
  \/ \E s \in SessionId : Expire(s)
  \/ \E u \in User, s \in LoginId : StartSession(u, s)
  \/ \E r \in Request : Arrival(r) \/ Progress(r) \/ Fail(r)

Spec == Init /\ [][Next]_vars

\* The event loop and the database serve every request they have accepted;
\* nothing obliges a client to send one.
Fairness == \A r \in Request : WF_vars(Progress(r))

FairSpec == Spec /\ Fairness
-----------------------------------------------------------------------------
(* Properties.                                                             *)

\* The tables, locks and requests have their types.
TypeOK ==
  /\ session \in [SessionId -> SessionRow \cup {None}]
  /\ expired \subseteq SessionId
  /\ lock \in [SessionId -> Request \cup {None}]
  /\ request \in [Request -> RequestState]
  /\ jar \subseteq SessionId

\* However refreshes of one token and revocations interleave, a family has at
\* most one session that is not revoked: the head of its chain.
OneLiveSessionPerFamily ==
  \A s, t \in Unrevoked : session[s].family = session[t].family => s = t

\* A session and its replacement are written together: a replaced session is
\* spent, its replacement is stored for the same user in the same family, and
\* no session is the replacement of two.
ChainIntegrity ==
  \A s \in Stored :
    LET n == session[s].replacedBy
    IN  n # None =>
          /\ session[s].revoked
          /\ n \in Stored
          /\ session[n].family = session[s].family
          /\ session[n].user = session[s].user
          /\ \A p \in Stored : session[p].replacedBy = n => p = s

\* A token that two tabs, or a client that never saw the first answer, submit
\* twice is exchanged for new tokens at most once.
TokenExchangedOnce ==
  \A q, r \in Request :
    /\ request[q].answer = "rotated" /\ request[r].answer = "rotated"
    /\ request[q].sid = request[r].sid
    => q = r

\* Every row the snapshot of a revoking UPDATE selected is revoked when the
\* request is answered, whoever held its lock meanwhile.
SweepRevokesWhatItSaw ==
  \A r \in Request :
    request[r].answer \in {"reused", "revoked", "notFound"}
      => request[r].seen \cap Unrevoked = {}

\* A circle of waits takes two revokeOthers requests: logouts and revocations
\* of one session never deadlock, nor do rotations with reuse detections alone.
DeadlockTakesTwoRevokeOthers ==
  \A D \in SUBSET Request :
    Deadlocked(D) =>
      /\ \A r \in D : request[r].op \in {"refresh", "revokeOthers"}
      /\ \E q, r \in D : /\ q # r
                         /\ request[q].op = "revokeOthers"
                         /\ request[r].op = "revokeOthers"

\* A step never brings a revoked session back, moves a session to another
\* user or family, or changes the replacement of a spent one.
RevocationIsPermanent ==
  [][\A s \in Stored :
       /\ session'[s] # None
       /\ session'[s].user = session[s].user /\ session'[s].family = session[s].family
       /\ session[s].revoked => session'[s] = session[s]]_vars

\* Once no session of a family is live, none ever is again: a rotation that
\* was under way when the family was revoked does not revive it.
DeadFamilyStaysDead ==
  [][\A s \in Stored :
       (\A t \in Unrevoked : session[t].family # session[s].family)
         => (\A t \in Unrevoked' : session'[t].family # session[s].family)]_vars

\* A session is revoked only by the step of a request of its own user.
RevokesOnlyOwn ==
  [][\A s \in Unrevoked :
       s \notin Unrevoked' =>
         \E r \in Request : request'[r] # request[r] /\ request[r].user = session[s].user]_vars

\* A request the server has accepted is answered: no lock is held for ever.
RequestsAreAnswered ==
  \A r \in Request : InFlight(r) ~> request[r].step = "answered"

\* The authentication specification: a reused refresh token revokes every
\* active session of its rotation family.  The UPDATE of the repository misses
\* a replacement that a concurrent rotation inserts after its snapshot.
ReuseRevokesFamily ==
  \A r \in Request :
    request[r].answer = "reused" =>
      \A t \in Unrevoked : session[t].family # session[request[r].sid].family
=============================================================================
