------------------------- MODULE SessionStoreProofs -------------------------
(***************************************************************************)
(* The invariants of SessionStore hold for every set of users, session ids *)
(* and requests.  The inductive invariant adds to them what each request   *)
(* in flight relies on: a rotation still holds the lock of an unrevoked    *)
(* row, and a sweep accounts for every row of its snapshot.                *)
(*                                                                         *)
(* Deadlocks take an order of their own: reuses of one family wait for one *)
(* another in the order of their snapshots, which a statement about every  *)
(* set of them says without a clock.                                       *)
(***************************************************************************)
EXTENDS SessionStore, TLAPS

\* What the database state must provide to request r at its current step.
RequestInv(r) ==
  LET q == request[r]
  IN  /\ q.step # "answered" => q.answer = "none"
      /\ q.step # "idle" => /\ q.user \in User
                            /\ q.sid \in Stored
                            /\ session[q.sid].user = q.user
      /\ q.step = "rotate" => lock[q.sid] = r /\ q.sid \in Unrevoked
      /\ q.step = "sweep" =>
           /\ q.todo \subseteq q.seen
           /\ \A s \in q.seen : session[s].user = q.user
           /\ \A s \in q.done : s \in q.seen /\ lock[s] = r
           /\ \A s \in q.seen : s \in q.todo \cup q.done \/ s \notin Unrevoked
      /\ q.step \notin {"sweep", "answered"} => q.seen = {} /\ q.done = {}
      /\ q.seen \subseteq Stored
      /\ q.answer = "rotated" => q.sid \notin Unrevoked
      /\ q.answer \in {"reused", "revoked", "notFound"} => q.seen \cap Unrevoked = {}

\* A family is named by the session that opened it, and has one user.
FamilyOpened ==
  \A s \in Stored : /\ session[s].family \in Stored
                    /\ session[session[s].family].user = session[s].user

IInv ==
  /\ TypeOK
  /\ FamilyOpened
  /\ jar \subseteq Stored
  /\ OneLiveSessionPerFamily
  /\ ChainIntegrity
  /\ TokenExchangedOnce
  /\ \A r \in Request : RequestInv(r)

\* What every step does to the rows already stored: they stay, keep their
\* user and family, and are not brought back once revoked.
RowsGrow ==
  \A s \in Stored : /\ s \in Stored'
                    /\ session'[s].user = session[s].user
                    /\ session'[s].family = session[s].family
                    /\ s \notin Unrevoked => s \notin Unrevoked'
-----------------------------------------------------------------------------
\* A stored row is a row, not None.
LEMMA StoredRow ==
  ASSUME TypeOK, NEW s \in Stored
  PROVE  s \in SessionId /\ session[s] \in SessionRow
BY DEF TypeOK, Stored

\* A step that leaves the table alone leaves its derived sets alone.
LEMMA SameTable ==
  ASSUME UNCHANGED session
  PROVE  /\ Stored' = Stored /\ Unrevoked' = Unrevoked /\ RowsGrow
         /\ OneLiveSessionPerFamily => OneLiveSessionPerFamily'
         /\ ChainIntegrity => ChainIntegrity'
         /\ FamilyOpened => FamilyOpened'
BY DEF Stored, Unrevoked, RowsGrow, OneLiveSessionPerFamily, ChainIntegrity, FamilyOpened

\* A request that a step does not serve keeps its invariant when its locks
\* are respected.
LEMMA RequestFrame ==
  ASSUME TypeOK, NEW q \in Request, RequestInv(q),
         request'[q] = request[q], RowsGrow,
         \A s \in SessionId : lock[s] = q => lock'[s] = q,
         request[q].step = "rotate" => request[q].sid \in Unrevoked'
  PROVE  RequestInv(q)'
<1>1. request[q].sid \in Stored => request[q].sid \in SessionId
  BY DEF Stored
<1>2. request[q].seen \subseteq SessionId
  BY DEF TypeOK, RequestState
<1>3. \A s \in Unrevoked' : s \in Stored => s \in Unrevoked
  BY DEF RowsGrow
<1>4. Stored \subseteq Stored' /\ Unrevoked \subseteq Stored
  BY DEF RowsGrow, Unrevoked
<1>5. request[q].sid \in Stored => session'[request[q].sid].user = session[request[q].sid].user
  BY DEF RowsGrow
<1>6. request[q].step \in Step
  BY DEF TypeOK, RequestState
<1>7. request[q].answer # "none" => request[q].step = "answered"
  BY DEF RequestInv
<1>8. request[q].step = "sweep" =>
        \A s \in request[q].done : s \in request[q].seen /\ lock'[s] = q
  BY <1>2 DEF RequestInv
<1>9. request[q].step = "sweep" =>
        \A s \in request[q].seen : s \in request[q].todo \cup request[q].done \/ s \notin Unrevoked'
  BY <1>3 DEF RequestInv
<1>10. request[q].answer = "rotated" => request[q].sid \notin Unrevoked'
  BY <1>3, <1>7 DEF RequestInv
<1>11. request[q].answer \in {"reused", "revoked", "notFound"} => request[q].seen \cap Unrevoked' = {}
  BY <1>3, <1>7 DEF RequestInv
<1>12. \A s \in request[q].seen : s \in Stored /\ session'[s].user = session[s].user
  BY DEF RowsGrow, RequestInv
<1> QED
  BY <1>1, <1>4, <1>5, <1>8, <1>9, <1>10, <1>11, <1>12 DEF RequestInv
-----------------------------------------------------------------------------
\* Steps that change one request, perhaps its locks, and not the table: the
\* other requests keep their invariant, so that one is left to check.
LEMMA OneRequestStep ==
  ASSUME IInv, NEW r \in Request, NEW q, q \in RequestState,
         request' = [request EXCEPT ![r] = q],
         UNCHANGED <<session, expired, jar>>,
         lock' \in [SessionId -> Request \cup {None}],
         \A s \in SessionId : lock[s] # None /\ lock[s] # r => lock'[s] = lock[s],
         RequestInv(r)', q.answer # "rotated"
  PROVE  IInv'
<1>1. TypeOK'
  BY DEF IInv, TypeOK
<1>2. /\ Stored' = Stored /\ RowsGrow /\ OneLiveSessionPerFamily' /\ ChainIntegrity'
      /\ FamilyOpened' /\ Unrevoked' = Unrevoked
  BY SameTable DEF IInv
<1>3. ASSUME NEW p \in Request, p # r
      PROVE  RequestInv(p)'
  <2>1. request'[p] = request[p]
    BY <1>3 DEF IInv, TypeOK
  <2>2. request[p].step = "rotate" => request[p].sid \in Unrevoked'
    BY <1>2 DEF IInv, RequestInv
  <2>3. \A s \in SessionId : lock[s] = p => lock'[s] = p
    BY <1>3, NoneAssumption
  <2> QED
    BY <1>2, <2>1, <2>2, <2>3, RequestFrame DEF IInv
<1>4. TokenExchangedOnce'
  <2>1. request'[r] = q /\ \A p \in Request : p # r => request'[p] = request[p]
    BY DEF IInv, TypeOK
  <2> QED
    BY <2>1 DEF IInv, TokenExchangedOnce
<1> QED
  BY <1>1, <1>2, <1>3, <1>4 DEF IInv

LEMMA ReceiveStep ==
  ASSUME IInv, NEW r \in Request, Arrival(r)
  PROVE  IInv'
<1>1. ASSUME NEW t \in SessionId, ReceiveRefresh(r, t)
      PROVE  IInv'
  <2> DEFINE q == [Idle EXCEPT !.op = "refresh", !.user = session[t].user, !.sid = t,
                    !.step = IF t \in expired THEN "answered" ELSE "lock",
                    !.answer = IF t \in expired THEN "unauthorized" ELSE "none"]
  <2>1. t \in Stored /\ session[t].user \in User
    BY <1>1, StoredRow DEF IInv, ReceiveRefresh, SessionRow
  <2>2. q \in RequestState
    BY <2>1 DEF Idle, RequestState, Op, Step, Answer
  <2>3. request'[r] = q
    BY <1>1 DEF ReceiveRefresh, IInv, TypeOK
  <2>4. RequestInv(r)'
    BY <1>1, <2>1, <2>3, SameTable DEF RequestInv, Idle, ReceiveRefresh
  <2>5. q.answer # "rotated" /\ request' = [request EXCEPT ![r] = q]
    BY <1>1 DEF ReceiveRefresh, Idle
  <2>6. UNCHANGED <<session, expired, lock, jar>>
    BY <1>1 DEF ReceiveRefresh
  <2> HIDE DEF q
  <2> QED
    BY <2>2, <2>4, <2>5, <2>6, OneRequestStep DEF IInv, TypeOK
<1>2. ASSUME NEW t \in SessionId, ReceiveLogout(r, t)
      PROVE  IInv'
  <2> DEFINE q == [Idle EXCEPT !.op = "logout", !.user = session[t].user, !.sid = t,
                    !.target = t,
                    !.step = IF t \in expired THEN "answered" ELSE "snapshot",
                    !.answer = IF t \in expired THEN "notFound" ELSE "none"]
  <2>1. t \in Stored /\ session[t].user \in User
    BY <1>2, StoredRow DEF IInv, ReceiveLogout, SessionRow
  <2>2. q \in RequestState
    BY <2>1 DEF Idle, RequestState, Op, Step, Answer
  <2>3. request'[r] = q
    BY <1>2 DEF ReceiveLogout, IInv, TypeOK
  <2>4. RequestInv(r)'
    BY <1>2, <2>1, <2>3, SameTable DEF RequestInv, Idle, ReceiveLogout
  <2>5. q.answer # "rotated" /\ request' = [request EXCEPT ![r] = q]
    BY <1>2 DEF ReceiveLogout, Idle
  <2>6. UNCHANGED <<session, expired, lock, jar>>
    BY <1>2 DEF ReceiveLogout
  <2> HIDE DEF q
  <2> QED
    BY <2>2, <2>4, <2>5, <2>6, OneRequestStep DEF IInv, TypeOK
<1>3. ASSUME NEW c \in SessionId, NEW t \in SessionId \cup {None},
             NEW op \in {"revoke", "revokeOthers"}, ReceiveManage(r, c, op, t)
      PROVE  IInv'
  <2> DEFINE q == [Idle EXCEPT !.op = op, !.user = session[c].user, !.sid = c,
                    !.target = t, !.step = "authenticate"]
  <2>1. c \in Stored /\ session[c].user \in User
    BY <1>3, StoredRow DEF IInv, ReceiveManage, SessionRow
  <2>2. q \in RequestState
    BY <2>1 DEF Idle, RequestState, Op, Step, Answer
  <2>3. request'[r] = q
    BY <1>3 DEF ReceiveManage, IInv, TypeOK
  <2>4. RequestInv(r)'
    BY <1>3, <2>1, <2>3, SameTable DEF RequestInv, Idle, ReceiveManage
  <2>5. q.answer # "rotated" /\ request' = [request EXCEPT ![r] = q]
    BY <1>3 DEF ReceiveManage, Idle
  <2>6. UNCHANGED <<session, expired, lock, jar>>
    BY <1>3 DEF ReceiveManage
  <2> HIDE DEF q
  <2> QED
    BY <2>2, <2>4, <2>5, <2>6, OneRequestStep DEF IInv, TypeOK
<1> QED
  BY <1>1, <1>2, <1>3 DEF Arrival, ReceiveRevoke, ReceiveRevokeOthers

LEMMA AuthenticateStep ==
  ASSUME IInv, NEW r \in Request, Authenticate(r)
  PROVE  IInv'
<1> DEFINE q == IF request[r].sid \in Active THEN [request[r] EXCEPT !.step = "snapshot"]
                                              ELSE Answered(r, "unauthorized")
<1>1. request[r] \in RequestState /\ request[r].step = "authenticate"
  BY DEF IInv, TypeOK, Authenticate
<1>2. q \in RequestState /\ q.answer # "rotated"
  BY <1>1 DEF Answered, RequestState, Step, Answer, IInv, RequestInv
<1>3. request' = [request EXCEPT ![r] = q] /\ UNCHANGED <<session, expired, lock, jar>>
  BY DEF Authenticate
<1>4. request'[r] = q
  BY <1>3 DEF IInv, TypeOK
<1>5. RequestInv(r)'
  BY <1>1, <1>3, <1>4, SameTable DEF RequestInv, Answered, IInv, RequestState
<1> HIDE DEF q
<1> QED
  BY <1>2, <1>3, <1>5, OneRequestStep DEF IInv, TypeOK

LEMMA LockCurrentStep ==
  ASSUME IInv, NEW r \in Request, LockCurrent(r)
  PROVE  IInv'
<1>1. /\ request[r] \in RequestState /\ request[r].step = "lock"
      /\ request[r].sid \in Stored /\ request[r].sid \in SessionId
      /\ request[r].answer = "none"
  BY DEF IInv, TypeOK, LockCurrent, RequestInv, Stored
<1>2. UNCHANGED <<session, expired, jar>>
  BY DEF LockCurrent
<1>3. CASE Invalid(r)
  <2> DEFINE q == Answered(r, "unauthorized")
  <2>1. q \in RequestState /\ q.answer # "rotated"
    BY <1>1 DEF Answered, RequestState, Step, Answer
  <2>2. request' = [request EXCEPT ![r] = q] /\ UNCHANGED lock
    BY <1>3 DEF LockCurrent
  <2>3. request'[r] = q
    BY <2>2 DEF IInv, TypeOK
  <2>4. RequestInv(r)'
    BY <1>1, <1>2, <2>2, <2>3, SameTable DEF RequestInv, Answered, IInv, RequestState
  <2> HIDE DEF q
  <2> QED
    BY <1>2, <2>1, <2>2, <2>4, OneRequestStep DEF IInv, TypeOK
<1>4. CASE ~Invalid(r)
  <2> DEFINE s == request[r].sid
             q == [request[r] EXCEPT !.step = IF session[s].revoked THEN "snapshot" ELSE "rotate"]
  <2>1. q \in RequestState /\ q.answer # "rotated"
    BY <1>1 DEF RequestState, Step, Answer
  <2>2. /\ request' = [request EXCEPT ![r] = q]
        /\ lock' = [lock EXCEPT ![s] = r] /\ lock[s] = None
    BY <1>4 DEF LockCurrent
  <2>3. request'[r] = q
    BY <2>2 DEF IInv, TypeOK
  <2>4. lock'[s] = r
    BY <1>1, <2>2 DEF IInv, TypeOK
  <2>5. RequestInv(r)'
    BY <1>1, <1>2, <2>3, <2>4, SameTable DEF RequestInv, IInv, RequestState, Unrevoked
  <2>6. /\ lock' \in [SessionId -> Request \cup {None}]
        /\ \A t \in SessionId : lock[t] # None /\ lock[t] # r => lock'[t] = lock[t]
    BY <1>1, <2>2 DEF IInv, TypeOK
  <2> HIDE DEF q, s
  <2> QED
    BY <1>2, <2>1, <2>2, <2>5, <2>6, OneRequestStep
<1> QED
  BY <1>3, <1>4

LEMMA BeginSweepStep ==
  ASSUME IInv, NEW r \in Request, BeginSweep(r)
  PROVE  IInv'
<1> DEFINE rows == {s \in Unrevoked : InScope(r, s)}
           q == [request[r] EXCEPT !.step = "sweep", !.seen = rows, !.todo = rows]
<1>1. /\ request[r] \in RequestState /\ request[r].step = "snapshot"
      /\ request[r].answer = "none" /\ RequestInv(r)
      /\ rows \subseteq Stored /\ rows \subseteq SessionId
  BY DEF IInv, TypeOK, BeginSweep, RequestInv, Stored, Unrevoked
<1>2. q \in RequestState /\ q.answer # "rotated"
  BY <1>1 DEF RequestState, Step
<1>3. request' = [request EXCEPT ![r] = q] /\ UNCHANGED <<session, expired, lock, jar>>
  BY DEF BeginSweep, IInv, TypeOK
<1>4. request'[r] = q
  BY <1>3 DEF IInv, TypeOK
<1>5. \A s \in rows : session[s].user = request[r].user
  <2> SUFFICES ASSUME NEW s \in rows PROVE session[s].user = request[r].user
    OBVIOUS
  <2>1. CASE request[r].op = "refresh" /\ session[s].family = session[request[r].sid].family
    <3>1. s \in Stored /\ request[r].sid \in Stored
      BY <1>1 DEF RequestInv
    <3> QED
      BY <1>1, <2>1, <3>1 DEF IInv, FamilyOpened, RequestInv
  <2> QED
    BY <2>1 DEF InScope
<1>6. RequestInv(r)'
  BY <1>1, <1>3, <1>4, <1>5, SameTable DEF RequestInv, RequestState
<1> HIDE DEF q
<1> QED
  BY <1>2, <1>3, <1>6, OneRequestStep DEF IInv, TypeOK

LEMMA SweepRowStep ==
  ASSUME IInv, NEW r \in Request, NEW s \in SessionId, SweepRow(r, s)
  PROVE  IInv'
<1>1. /\ request[r] \in RequestState /\ request[r].step = "sweep"
      /\ request[r].answer = "none" /\ RequestInv(r)
      /\ s \in request[r].todo /\ lock[s] = None /\ s \in Stored
  BY DEF IInv, TypeOK, SweepRow, RequestInv
<1>2. UNCHANGED <<session, expired, jar>>
  BY DEF SweepRow
<1>3. CASE session[s].revoked
  <2> DEFINE q == [request[r] EXCEPT !.todo = @ \ {s}]
  <2>1. q \in RequestState /\ q.answer # "rotated"
    BY <1>1 DEF RequestState
  <2>2. request' = [request EXCEPT ![r] = q] /\ UNCHANGED lock
    BY <1>3 DEF SweepRow, IInv, TypeOK
  <2>3. request'[r] = q
    BY <2>2 DEF IInv, TypeOK
  <2>4. s \notin Unrevoked
    BY <1>3 DEF Unrevoked
  <2>5. RequestInv(r)'
    BY <1>1, <1>2, <2>2, <2>3, <2>4, SameTable DEF RequestInv, RequestState
  <2> HIDE DEF q
  <2> QED
    BY <1>2, <2>1, <2>2, <2>5, OneRequestStep DEF IInv, TypeOK
<1>4. CASE ~session[s].revoked
  <2> DEFINE q == [request[r] EXCEPT !.todo = @ \ {s}, !.done = @ \cup {s}]
  <2>1. q \in RequestState /\ q.answer # "rotated"
    BY <1>1 DEF RequestState
  <2>2. request' = [request EXCEPT ![r] = q] /\ lock' = [lock EXCEPT ![s] = r]
    BY <1>4 DEF SweepRow, IInv, TypeOK
  <2>3. request'[r] = q
    BY <2>2 DEF IInv, TypeOK
  <2>4. /\ lock' \in [SessionId -> Request \cup {None}]
        /\ lock'[s] = r
        /\ \A t \in SessionId : lock[t] # None => lock'[t] = lock[t]
    BY <1>1, <2>2 DEF IInv, TypeOK
  <2>5. \A t \in q.done : t \in q.seen /\ lock'[t] = r
    <3> SUFFICES ASSUME NEW t \in q.done
                 PROVE  t \in q.seen /\ lock'[t] = r
      OBVIOUS
    <3>1. CASE t = s
      BY <1>1, <2>4, <3>1 DEF RequestInv, RequestState
    <3>2. CASE t # s
      BY <1>1, <2>4, <3>2, NoneAssumption DEF RequestInv, RequestState
    <3> QED
      BY <3>1, <3>2
  <2>6. RequestInv(r)'
    BY <1>1, <1>2, <2>3, <2>5, SameTable DEF RequestInv, RequestState
  <2> HIDE DEF q
  <2> QED
    BY <1>2, <2>1, <2>2, <2>4, <2>6, OneRequestStep
<1> QED
  BY <1>1, <1>3, <1>4, StoredRow DEF IInv, SessionRow

LEMMA RollbackStep ==
  ASSUME IInv, NEW r \in Request, InFlight(r), Rollback(r)
  PROVE  IInv'
<1> DEFINE q == [Answered(r, "failed") EXCEPT !.todo = {}, !.done = {}]
<1>1. request[r] \in RequestState /\ RequestInv(r) /\ request[r].step \notin {"idle", "answered"}
  BY DEF IInv, TypeOK, InFlight
<1>2. q \in RequestState /\ q.answer # "rotated"
  BY <1>1 DEF Answered, RequestState, Step, Answer
<1>3. request' = [request EXCEPT ![r] = q] /\ UNCHANGED <<session, expired, jar>>
  BY DEF Rollback
<1>4. request'[r] = q
  BY <1>3 DEF IInv, TypeOK
<1>5. RequestInv(r)'
  <2>1. /\ q.step = "answered" /\ q.answer = "failed" /\ q.seen = request[r].seen
        /\ q.user = request[r].user /\ q.sid = request[r].sid
    BY <1>1 DEF Answered, RequestState
  <2> QED
    BY <1>1, <1>3, <1>4, <2>1, SameTable DEF RequestInv
<1>6. /\ lock' \in [SessionId -> Request \cup {None}]
      /\ \A s \in SessionId : lock[s] # None /\ lock[s] # r => lock'[s] = lock[s]
  BY DEF Rollback, Released, IInv, TypeOK
<1> HIDE DEF q
<1> QED
  BY <1>2, <1>3, <1>5, <1>6, OneRequestStep

LEMMA ExpireStep ==
  ASSUME IInv, NEW s \in SessionId, Expire(s)
  PROVE  IInv'
<1>1. TypeOK'
  BY DEF IInv, TypeOK, Expire
<1>2. UNCHANGED <<session, lock, request, jar>>
  BY DEF Expire
<1>3. /\ Stored' = Stored /\ Unrevoked' = Unrevoked
      /\ OneLiveSessionPerFamily' /\ ChainIntegrity' /\ FamilyOpened'
  BY <1>2, SameTable DEF IInv
<1>4. \A q \in Request : RequestInv(q)'
  BY <1>2, <1>3 DEF IInv, RequestInv
<1> QED
  BY <1>1, <1>2, <1>3, <1>4 DEF IInv, TokenExchangedOnce
-----------------------------------------------------------------------------
\* Steps that write to the table.

\* A session opens a family that no stored session belongs to.
LEMMA StartSessionStep ==
  ASSUME IInv, NEW u \in User, NEW s \in LoginId, StartSession(u, s)
  PROVE  IInv'
<1>1. /\ s \in SessionId \ Stored /\ UNCHANGED <<expired, lock, request>>
      /\ session' = [session EXCEPT ![s] = NewSession(u, s)]
  BY DEF StartSession, SessionId
<1>2. TypeOK'
  <2>1. NewSession(u, s) \in SessionRow
    BY <1>1 DEF NewSession, SessionRow
  <2> QED
    BY <1>1, <2>1 DEF IInv, TypeOK, StartSession
<1>3. /\ session'[s] = NewSession(u, s)
      /\ \A t \in SessionId : t # s => session'[t] = session[t]
  BY <1>1 DEF IInv, TypeOK
<1>4. Stored' = Stored \cup {s} /\ Unrevoked' = Unrevoked \cup {s}
  <2>1. NewSession(u, s) \in SessionRow /\ ~NewSession(u, s).revoked
    BY <1>1 DEF NewSession, SessionRow
  <2>2. NewSession(u, s) # None
    BY <2>1, NoneAssumption
  <2> QED
    BY <1>1, <1>3, <2>1, <2>2 DEF Stored, Unrevoked
<1>5. RowsGrow
  BY <1>1, <1>3, <1>4 DEF RowsGrow, Stored
<1>6. jar' \subseteq Stored'
  BY <1>4 DEF IInv, StartSession
<1>7. FamilyOpened'
  BY <1>1, <1>3, <1>4 DEF IInv, FamilyOpened, NewSession, Stored
<1>8. OneLiveSessionPerFamily'
  <2>1. \A t \in Unrevoked : session'[t] = session[t] /\ session[t].family # s
    BY <1>1, <1>3 DEF IInv, FamilyOpened, Stored, Unrevoked
  <2> QED
    BY <1>3, <1>4, <2>1 DEF IInv, OneLiveSessionPerFamily, NewSession
<1>9. ChainIntegrity'
  <2> SUFFICES ASSUME NEW t \in Stored', session'[t].replacedBy # None
               PROVE  LET n == session'[t].replacedBy
                      IN  /\ session'[t].revoked
                          /\ n \in Stored'
                          /\ session'[n].family = session'[t].family
                          /\ session'[n].user = session'[t].user
                          /\ \A p \in Stored' : session'[p].replacedBy = n => p = t
    BY DEF ChainIntegrity
  <2>1. t # s /\ t \in Stored /\ session'[t] = session[t]
    BY <1>3, <1>4 DEF NewSession, Stored
  <2>2. /\ session[t].replacedBy \in Stored
        /\ session'[session[t].replacedBy] = session[session[t].replacedBy]
    BY <1>1, <1>3, <2>1 DEF IInv, ChainIntegrity, Stored
  <2>3. \A p \in Stored' : session'[p].replacedBy = session[t].replacedBy =>
                            p \in Stored /\ session'[p] = session[p]
    BY <1>3, <1>4, <2>1 DEF NewSession, Stored
  <2> QED
    BY <1>4, <2>1, <2>2, <2>3 DEF IInv, ChainIntegrity
<1>10. ASSUME NEW q \in Request
       PROVE  RequestInv(q)'
  BY <1>1, <1>4, <1>5, RequestFrame DEF IInv, RequestInv
<1> QED
  BY <1>1, <1>2, <1>6, <1>7, <1>8, <1>9, <1>10 DEF IInv, TokenExchangedOnce

\* The spent row stays in its family, whose one live session is now the new one.
LEMMA CommitRotationStep ==
  ASSUME IInv, NEW r \in Request, NEW n \in ReplacementId, CommitRotation(r, n)
  PROVE  IInv'
<1> DEFINE s == request[r].sid
           spent == [session[s] EXCEPT !.revoked = TRUE, !.replacedBy = n]
           new == NewSession(request[r].user, session[s].family)
           q == Answered(r, "rotated")
<1>1. /\ n \in SessionId \ Stored /\ UNCHANGED expired
      /\ session' = [session EXCEPT ![s] = spent, ![n] = new]
      /\ request' = [request EXCEPT ![r] = q]
      /\ lock' = Released(r)
      /\ jar' \in {jar, jar \cup {n}}
      /\ request[r].step = "rotate"
  BY DEF CommitRotation, SessionId, IInv, TypeOK
<1>2. /\ request[r] \in RequestState /\ RequestInv(r)
      /\ s \in Unrevoked /\ s \in Stored /\ s \in SessionId /\ lock[s] = r
      /\ session[s] \in SessionRow /\ session[s].user = request[r].user
      /\ request[r].user \in User /\ s # n
  BY <1>1, StoredRow DEF IInv, TypeOK, RequestInv, Stored
<1>3. spent \in SessionRow /\ new \in SessionRow /\ spent # None /\ new # None
  <2>1. spent \in SessionRow /\ new \in SessionRow
    BY <1>1, <1>2 DEF SessionRow, NewSession
  <2> HIDE DEF spent, new
  <2> QED
    BY <2>1, NoneAssumption
<1>4. TypeOK'
  <2>1. q \in RequestState
    BY <1>2 DEF Answered, RequestState, Step, Answer
  <2> HIDE DEF spent, new, q
  <2> QED
    BY <1>1, <1>2, <1>3, <2>1 DEF IInv, TypeOK, Released
<1>5. /\ session'[s] = spent /\ session'[n] = new
      /\ \A t \in SessionId : t # s /\ t # n => session'[t] = session[t]
  BY <1>1, <1>2 DEF IInv, TypeOK
<1>6. /\ spent.user = request[r].user /\ spent.family = session[s].family
      /\ spent.revoked = TRUE /\ spent.replacedBy = n
      /\ new.user = request[r].user /\ new.family = session[s].family
      /\ new.revoked = FALSE /\ new.replacedBy = None
  BY <1>2 DEF SessionRow, NewSession
<1> HIDE DEF spent, new
<1>7. /\ Stored' = Stored \cup {n}
      /\ Unrevoked' = (Unrevoked \ {s}) \cup {n}
  BY ZenonT(30), <1>1, <1>2, <1>3, <1>5, <1>6 DEF Stored, Unrevoked
<1>8. RowsGrow
  BY <1>1, <1>2, <1>5, <1>6, <1>7 DEF RowsGrow, Stored
<1>9. jar' \subseteq Stored'
  BY <1>1, <1>7 DEF IInv
<1>10. FamilyOpened'
  <2>1. \A t \in Stored : /\ t \in Stored' /\ session'[t].family = session[t].family
                          /\ session'[t].user = session[t].user
    BY <1>8 DEF RowsGrow
  <2>2. \A t \in Stored : /\ session'[t].family \in Stored'
                          /\ session'[session'[t].family].user = session'[t].user
    BY <2>1 DEF IInv, FamilyOpened
  <2>3. session'[n].family = session'[s].family /\ session'[n].user = session'[s].user
    BY <1>5, <1>6
  <2> QED
    BY <1>2, <1>7, <2>2, <2>3 DEF FamilyOpened
<1>11. OneLiveSessionPerFamily'
  <2>1. \A t \in Unrevoked \ {s} : session'[t] = session[t] /\ session[t].family # session[s].family
    BY <1>1, <1>2, <1>5 DEF IInv, OneLiveSessionPerFamily, Unrevoked, Stored
  <2> QED
    BY <1>5, <1>6, <1>7, <2>1 DEF IInv, OneLiveSessionPerFamily
<1>12. ChainIntegrity'
  <2> SUFFICES ASSUME NEW t \in Stored', session'[t].replacedBy # None
               PROVE  LET m == session'[t].replacedBy
                      IN  /\ session'[t].revoked
                          /\ m \in Stored'
                          /\ session'[m].family = session'[t].family
                          /\ session'[m].user = session'[t].user
                          /\ \A p \in Stored' : session'[p].replacedBy = m => p = t
    BY DEF ChainIntegrity
  <2> n \notin Stored /\ n # None /\ s # n /\ s \in Stored
    BY <1>1, <1>2, NoneAssumption
  <2>1. \A p \in Stored \ {s} : session'[p] = session[p] /\ session'[p].replacedBy # n
    <3>1. \A p \in Stored : session[p].replacedBy # n
      BY DEF IInv, ChainIntegrity
    <3> QED
      BY <1>5, <3>1 DEF Stored
  <2>2. CASE t = s
    BY <1>5, <1>6, <1>7, <2>1, <2>2
  <2>3. CASE t # s
    <3> DEFINE m == session[t].replacedBy
    <3>1. t \in Stored /\ t # n /\ session'[t] = session[t]
      BY <1>5, <1>6, <1>7, <2>1, <2>3
    <3>2. /\ m \in Stored /\ m # n /\ session[t].revoked
          /\ session[m].family = session[t].family /\ session[m].user = session[t].user
          /\ \A p \in Stored : session[p].replacedBy = m => p = t
      BY <1>1, <3>1 DEF IInv, ChainIntegrity
    <3>3. session'[m].family = session[m].family /\ session'[m].user = session[m].user
      BY <1>8, <3>2 DEF RowsGrow
    <3>4. \A p \in Stored' : session'[p].replacedBy = m => p = t
      BY <1>5, <1>6, <1>7, <2>1, <3>1, <3>2
    <3> QED
      BY <1>7, <3>1, <3>2, <3>3, <3>4
  <2> QED
    BY <2>2, <2>3
<1>13. request'[r] = q /\ \A p \in Request : p # r => request'[p] = request[p]
  BY <1>1 DEF IInv, TypeOK
<1>14. /\ q.step = "answered" /\ q.answer = "rotated" /\ q.sid = s
       /\ q.user = request[r].user /\ q.seen = {}
  BY <1>1, <1>2 DEF Answered, RequestState, RequestInv
<1> HIDE DEF q
<1>15. RequestInv(r)'
  BY <1>1, <1>2, <1>5, <1>6, <1>7, <1>13, <1>14 DEF RequestInv
<1>16. ASSUME NEW p \in Request, p # r
       PROVE  RequestInv(p)'
  <2>1. \A t \in SessionId : lock[t] = p => lock'[t] = p
    BY <1>1, <1>16 DEF Released
  <2>2. request[p].step = "rotate" => request[p].sid \in Unrevoked'
    BY <1>2, <1>7, <1>16 DEF IInv, RequestInv
  <2> QED
    BY <1>8, <1>13, <1>16, <2>1, <2>2, RequestFrame DEF IInv
<1>17. TokenExchangedOnce'
  <2>1. \A p \in Request : request[p].answer = "rotated" => request[p].sid # s
    BY <1>2 DEF IInv, RequestInv
  <2> QED
    BY <1>13, <1>14, <2>1 DEF IInv, TokenExchangedOnce
<1> QED
  BY <1>4, <1>9, <1>10, <1>11, <1>12, <1>15, <1>16, <1>17 DEF IInv

\* The swept rows were locked by r, so no other request relies on them.
LEMMA EndSweepStep ==
  ASSUME IInv, NEW r \in Request, EndSweep(r)
  PROVE  IInv'
<1> DEFINE done == request[r].done
           answer == IF request[r].op = "refresh" THEN "reused"
                     ELSE IF request[r].op # "revokeOthers" /\ done = {} THEN "notFound"
                     ELSE "revoked"
           q == Answered(r, answer)
<1>1. /\ UNCHANGED <<expired, jar>> /\ lock' = Released(r)
      /\ session' = [s \in SessionId |->
           IF s \in done THEN [session[s] EXCEPT !.revoked = TRUE] ELSE session[s]]
      /\ request' = [request EXCEPT ![r] = q]
      /\ request[r].step = "sweep" /\ request[r].todo = {}
  BY DEF EndSweep
<1>2. /\ request[r] \in RequestState /\ RequestInv(r)
      /\ done \subseteq Stored /\ done \subseteq SessionId
      /\ \A s \in done : lock[s] = r
  BY <1>1 DEF IInv, TypeOK, RequestInv, RequestState
<1>3. \A s \in done : /\ session'[s] \in SessionRow
                       /\ session'[s].user = session[s].user
                       /\ session'[s].family = session[s].family
                       /\ session'[s].replacedBy = session[s].replacedBy
                       /\ session'[s].revoked
  BY <1>1, <1>2, StoredRow DEF IInv, SessionRow
<1>4. \A s \in SessionId \ done : session'[s] = session[s]
  BY <1>1
<1>5. TypeOK'
  <2>1. q \in RequestState
    BY ZenonT(30), <1>2 DEF Answered, RequestState, Step, Answer
  <2>2. session' \in [SessionId -> SessionRow \cup {None}]
    BY <1>1, <1>3, <1>4 DEF IInv, TypeOK
  <2> QED
    BY <1>1, <2>1, <2>2 DEF IInv, TypeOK, Released
<1>6. \A s \in done : session'[s] # None
  BY <1>3, NoneAssumption
<1>7. Stored' = Stored /\ Unrevoked' = Unrevoked \ done
  BY <1>2, <1>3, <1>4, <1>6 DEF Stored, Unrevoked
<1>8. \A s \in Stored : /\ session'[s].user = session[s].user
                         /\ session'[s].family = session[s].family
                         /\ session'[s].replacedBy = session[s].replacedBy
  BY <1>3, <1>4 DEF Stored
<1>9. RowsGrow
  BY <1>7, <1>8 DEF RowsGrow
<1>10. FamilyOpened' /\ jar' \subseteq Stored'
  BY <1>1, <1>7, <1>8 DEF IInv, FamilyOpened
<1>11. OneLiveSessionPerFamily'
  BY <1>7, <1>8 DEF IInv, OneLiveSessionPerFamily, Unrevoked
<1>12. ChainIntegrity'
  <2>1. \A s \in Stored : session[s].revoked => session'[s].revoked
    BY <1>3, <1>4 DEF Stored
  <2> QED
    BY <1>7, <1>8, <2>1 DEF IInv, ChainIntegrity
<1>13. request'[r] = q /\ \A p \in Request : p # r => request'[p] = request[p]
  BY <1>1 DEF IInv, TypeOK
<1>14. /\ q.step = "answered" /\ q.answer = answer /\ q.sid = request[r].sid
       /\ q.user = request[r].user /\ q.seen = request[r].seen
       /\ answer # "rotated" /\ answer # "none"
  BY <1>2 DEF Answered, RequestState
<1> HIDE DEF q, answer
<1>15. RequestInv(r)'
  BY <1>1, <1>2, <1>7, <1>8, <1>13, <1>14 DEF RequestInv
<1>16. ASSUME NEW p \in Request, p # r
       PROVE  RequestInv(p)'
  <2>1. \A t \in SessionId : lock[t] = p => lock'[t] = p
    BY <1>1, <1>16 DEF Released
  <2>2. request[p].step = "rotate" => request[p].sid \in Unrevoked'
    BY <1>2, <1>7, <1>16 DEF IInv, RequestInv
  <2> QED
    BY <1>9, <1>13, <1>16, <2>1, <2>2, RequestFrame DEF IInv
<1>17. TokenExchangedOnce'
  BY <1>13, <1>14 DEF IInv, TokenExchangedOnce
<1> QED
  BY <1>5, <1>10, <1>11, <1>12, <1>15, <1>16, <1>17 DEF IInv
-----------------------------------------------------------------------------
LEMMA InitIInv == Init => IInv
<1> SUFFICES ASSUME Init PROVE IInv
  OBVIOUS
<1>1. TypeOK
  BY DEF Init, TypeOK, Idle, RequestState, Op, Step, Answer
<1>2. Stored = {} /\ Unrevoked = {}
  BY DEF Init, Stored, Unrevoked
<1>3. \A r \in Request : RequestInv(r)
  BY DEF Init, RequestInv, Idle
<1> QED
  BY <1>1, <1>2, <1>3 DEF Init, IInv, FamilyOpened, OneLiveSessionPerFamily,
                         ChainIntegrity, TokenExchangedOnce, Idle

LEMMA NextIInv == IInv /\ [Next]_vars => IInv'
<1> SUFFICES ASSUME IInv, [Next]_vars PROVE IInv'
  OBVIOUS
<1>1. CASE UNCHANGED vars
  <2>1. UNCHANGED session
    BY <1>1 DEF vars
  <2>2. \A r \in Request : RequestInv(r)'
    BY <1>1, <2>1, SameTable DEF vars, IInv, RequestInv
  <2> QED
    BY <1>1, <2>1, <2>2, SameTable DEF vars, IInv, TypeOK, TokenExchangedOnce
<1>2. ASSUME NEW s \in SessionId, Expire(s)
      PROVE  IInv'
  BY <1>2, ExpireStep
<1>3. ASSUME NEW u \in User, NEW s \in LoginId, StartSession(u, s)
      PROVE  IInv'
  BY <1>3, StartSessionStep
<1>4. ASSUME NEW r \in Request, Arrival(r)
      PROVE  IInv'
  BY <1>4, ReceiveStep
<1>5. ASSUME NEW r \in Request, Progress(r)
      PROVE  IInv'
  <2>1. CASE Authenticate(r)
    BY <2>1, AuthenticateStep
  <2>2. CASE LockCurrent(r)
    BY <2>2, LockCurrentStep
  <2>3. CASE \E n \in ReplacementId : CommitRotation(r, n)
    BY <2>3, CommitRotationStep
  <2>4. CASE BeginSweep(r)
    BY <2>4, BeginSweepStep
  <2>5. CASE \E s \in SessionId : SweepRow(r, s)
    BY <2>5, SweepRowStep
  <2>6. CASE EndSweep(r)
    BY <2>6, EndSweepStep
  <2>7. CASE DeadlockVictim(r)
    BY <2>7, RollbackStep DEF DeadlockVictim, Deadlocked, InFlight
  <2> QED
    BY <1>5, <2>1, <2>2, <2>3, <2>4, <2>5, <2>6, <2>7 DEF Progress
<1>6. ASSUME NEW r \in Request, Fail(r)
      PROVE  IInv'
  BY <1>6, RollbackStep DEF Fail
<1> QED
  BY <1>1, <1>2, <1>3, <1>4, <1>5, <1>6 DEF Next

\* The conjunction of everything below is inductive.
THEOREM Invariance == Spec => []IInv
<1>1. QED
  BY InitIInv, NextIInv, PTL DEF Spec

\* The tables, locks and requests keep their types.
THEOREM TypeCorrect == Spec => []TypeOK
<1>1. IInv => TypeOK
  BY DEF IInv
<1> QED
  BY <1>1, Invariance, PTL

\* At most one session of a family is live, for any number of overlapping
\* refreshes and revocations (the FOR UPDATE lock of the rotation).
THEOREM OneLiveSession == Spec => []OneLiveSessionPerFamily
<1>1. IInv => OneLiveSessionPerFamily
  BY DEF IInv
<1> QED
  BY <1>1, Invariance, PTL

\* A spent row and its replacement are always written together.
THEOREM ChainIntegrityHolds == Spec => []ChainIntegrity
<1>1. IInv => ChainIntegrity
  BY DEF IInv
<1> QED
  BY <1>1, Invariance, PTL

\* No refresh token is exchanged for new tokens twice.
THEOREM ExchangedOnce == Spec => []TokenExchangedOnce
<1>1. IInv => TokenExchangedOnce
  BY DEF IInv
<1> QED
  BY <1>1, Invariance, PTL

\* A revoking UPDATE revokes every row its snapshot selected.
THEOREM SweepComplete == Spec => []SweepRevokesWhatItSaw
<1>1. IInv => SweepRevokesWhatItSaw
  BY DEF IInv, RequestInv, SweepRevokesWhatItSaw
<1> QED
  BY <1>1, Invariance, PTL
-----------------------------------------------------------------------------
(* What the three kinds of steps that write to the table do to it.         *)

\* A step changes the table by starting a session, committing a rotation or
\* committing a sweep, or not at all.
LEMMA Writers ==
  ASSUME [Next]_vars
  PROVE  \/ UNCHANGED session
         \/ \E u \in User, s \in LoginId : StartSession(u, s)
         \/ \E r \in Request, n \in ReplacementId : CommitRotation(r, n)
         \/ \E r \in Request : EndSweep(r)
<1>1. CASE UNCHANGED vars
  BY <1>1 DEF vars
<1>2. ASSUME NEW r \in Request, Arrival(r) \/ Fail(r)
      PROVE  UNCHANGED session
  BY <1>2 DEF Arrival, ReceiveRefresh, ReceiveLogout, ReceiveRevoke,
              ReceiveRevokeOthers, ReceiveManage, Fail, Rollback
<1>3. ASSUME NEW r \in Request, Progress(r)
      PROVE  \/ UNCHANGED session
             \/ \E n \in ReplacementId : CommitRotation(r, n)
             \/ EndSweep(r)
  BY <1>3 DEF Progress, Authenticate, LockCurrent, BeginSweep, SweepRow,
              DeadlockVictim, Rollback
<1>4. ASSUME NEW s \in SessionId, Expire(s)
      PROVE  UNCHANGED session
  BY <1>4 DEF Expire
<1> QED
  BY <1>1, <1>2, <1>3, <1>4 DEF Next

\* StartSession adds a row in a family no stored session is in.
LEMMA StartEffect ==
  ASSUME IInv, NEW u \in User, NEW s \in LoginId, StartSession(u, s)
  PROVE  /\ s \notin Stored /\ Stored' = Stored \cup {s} /\ Unrevoked' = Unrevoked \cup {s}
         /\ session'[s].family = s
         /\ \A t \in Stored : session'[t] = session[t] /\ session[t].family # s
<1>1. s \in SessionId \ Stored /\ session' = [session EXCEPT ![s] = NewSession(u, s)]
  BY DEF StartSession, SessionId
<1>2. NewSession(u, s) \in SessionRow /\ ~NewSession(u, s).revoked /\ NewSession(u, s).family = s
  BY <1>1 DEF NewSession, SessionRow
<1>3. NewSession(u, s) # None
  BY <1>2, NoneAssumption
<1>4. /\ session'[s] = NewSession(u, s)
      /\ \A t \in SessionId : t # s => session'[t] = session[t]
  BY <1>1 DEF IInv, TypeOK
<1> QED
  BY <1>1, <1>2, <1>3, <1>4 DEF IInv, FamilyOpened, Stored, Unrevoked

\* CommitRotation moves the head of one family from s to n.
LEMMA RotationEffect ==
  ASSUME IInv, NEW r \in Request, NEW n \in ReplacementId, CommitRotation(r, n)
  PROVE  LET s == request[r].sid
         IN  /\ s \in Unrevoked /\ n \in SessionId \ Stored /\ s # n
             /\ session[s].user = request[r].user /\ request'[r] # request[r]
             /\ Stored' = Stored \cup {n}
             /\ Unrevoked' = (Unrevoked \ {s}) \cup {n}
             /\ session'[n].family = session[s].family
             /\ session'[s].family = session[s].family
             /\ session'[s].user = session[s].user
             /\ \A t \in Stored \ {s} : session'[t] = session[t]
<1> DEFINE s == request[r].sid
           spent == [session[s] EXCEPT !.revoked = TRUE, !.replacedBy = n]
           new == NewSession(request[r].user, session[s].family)
<1>1. /\ n \in SessionId \ Stored
      /\ session' = [session EXCEPT ![s] = spent, ![n] = new]
      /\ request' = [request EXCEPT ![r] = Answered(r, "rotated")]
      /\ request[r].step = "rotate"
  BY DEF CommitRotation, SessionId, IInv, TypeOK
<1>2. /\ request[r] \in RequestState /\ RequestInv(r)
      /\ s \in Unrevoked /\ s \in Stored /\ s \in SessionId
      /\ session[s] \in SessionRow /\ session[s].user = request[r].user
      /\ request[r].user \in User /\ s # n
  BY <1>1, StoredRow DEF IInv, TypeOK, RequestInv, Stored
<1>3. spent \in SessionRow /\ new \in SessionRow
  BY <1>1, <1>2 DEF SessionRow, NewSession
<1>4. /\ spent.user = session[s].user /\ spent.family = session[s].family
      /\ spent.revoked = TRUE
      /\ new.family = session[s].family /\ new.revoked = FALSE
  BY <1>2 DEF SessionRow, NewSession
<1>5. request'[r] # request[r]
  <2>1. Answered(r, "rotated").step = "answered"
    BY <1>2 DEF Answered, RequestState
  <2> QED
    BY <1>1, <2>1 DEF IInv, TypeOK
<1> HIDE DEF spent, new
<1>6. spent # None /\ new # None
  BY <1>3, NoneAssumption
<1>7. /\ session'[s] = spent /\ session'[n] = new
      /\ \A t \in SessionId : t # s /\ t # n => session'[t] = session[t]
  BY <1>1, <1>2 DEF IInv, TypeOK
<1>8. Stored' = Stored \cup {n} /\ Unrevoked' = (Unrevoked \ {s}) \cup {n}
  BY ZenonT(30), <1>1, <1>2, <1>4, <1>6, <1>7 DEF Stored, Unrevoked
<1>9. \A t \in Stored \ {s} : session'[t] = session[t]
  BY <1>1, <1>7 DEF Stored
<1> QED
  BY <1>1, <1>2, <1>4, <1>5, <1>7, <1>8, <1>9

\* EndSweep revokes rows of the request's user and changes nothing else.
LEMMA SweepEffect ==
  ASSUME IInv, NEW r \in Request, EndSweep(r)
  PROVE  /\ Stored' = Stored /\ Unrevoked' = Unrevoked \ request[r].done
         /\ request'[r] # request[r]
         /\ \A s \in request[r].done : s \in Stored /\ session[s].user = request[r].user
         /\ RowsGrow
         /\ \A s \in Stored : s \notin Unrevoked => session'[s] = session[s]
<1> DEFINE done == request[r].done
<1>1. /\ session' = [s \in SessionId |->
           IF s \in done THEN [session[s] EXCEPT !.revoked = TRUE] ELSE session[s]]
      /\ request[r].step = "sweep"
  BY DEF EndSweep
<1>2. /\ request[r] \in RequestState /\ RequestInv(r)
      /\ done \subseteq Stored /\ done \subseteq SessionId
      /\ \A s \in done : session[s].user = request[r].user
  BY <1>1 DEF IInv, TypeOK, RequestInv, RequestState
<1>3. \A s \in done : session'[s] \in SessionRow /\ session'[s].user = session[s].user
                      /\ session'[s].family = session[s].family /\ session'[s].revoked
  BY <1>1, <1>2, StoredRow DEF IInv, SessionRow
<1>4. \A s \in SessionId \ done : session'[s] = session[s]
  BY <1>1
<1>5. \A s \in done : s \notin Unrevoked => session'[s] = session[s]
  <2> SUFFICES ASSUME NEW s \in done, s \notin Unrevoked PROVE session'[s] = session[s]
    OBVIOUS
  <2>1. session[s] \in SessionRow /\ session[s].revoked = TRUE
    BY <1>2, StoredRow DEF IInv, Unrevoked, SessionRow
  <2> QED
    BY <1>1, <1>2, <2>1 DEF SessionRow
<1>6. \A s \in done : session'[s] # None
  BY <1>3, NoneAssumption
<1>7. request'[r] # request[r]
  <2>1. \E a : request' = [request EXCEPT ![r] = Answered(r, a)]
    BY DEF EndSweep
  <2>2. \A a : Answered(r, a).step = "answered"
    BY <1>2 DEF Answered, RequestState
  <2> QED
    BY <1>1, <2>1, <2>2 DEF IInv, TypeOK
<1>8. Stored' = Stored /\ Unrevoked' = Unrevoked \ done
  BY <1>2, <1>3, <1>4, <1>6 DEF Stored, Unrevoked
<1>9. RowsGrow
  BY <1>2, <1>3, <1>4, <1>8 DEF RowsGrow, Stored
<1>10. \A s \in Stored : s \notin Unrevoked => session'[s] = session[s]
  BY <1>4, <1>5 DEF Stored
<1> QED
  BY <1>2, <1>7, <1>8, <1>9, <1>10

\* No step brings a revoked session back, moves a row to another user or
\* family, or gives a spent session another replacement.
THEOREM RevocationPermanent == Spec => RevocationIsPermanent
<1> DEFINE A == \A s \in Stored :
                 /\ session'[s] # None
                 /\ session'[s].user = session[s].user /\ session'[s].family = session[s].family
                 /\ session[s].revoked => session'[s] = session[s]
<1>1. IInv /\ [Next]_vars => [A]_vars
  <2> SUFFICES ASSUME IInv, [Next]_vars PROVE A
    OBVIOUS
  <2>1. CASE UNCHANGED session
    BY <2>1 DEF Stored
  <2>2. ASSUME NEW u \in User, NEW s \in LoginId, StartSession(u, s)
        PROVE  A
    BY <2>2, StartEffect DEF Stored
  <2>3. ASSUME NEW r \in Request, NEW n \in ReplacementId, CommitRotation(r, n)
        PROVE  A
    <3>1. \A s \in Stored : s \in Stored'
      BY <2>3, RotationEffect
    <3>2. request[r].sid \in Unrevoked /\ ~session[request[r].sid].revoked
      BY <2>3, RotationEffect DEF Unrevoked
    <3> QED
      BY <2>3, <3>1, <3>2, RotationEffect DEF Stored
  <2>4. ASSUME NEW r \in Request, EndSweep(r)
        PROVE  A
    <3>1. \A s \in Stored : session[s].revoked => s \notin Unrevoked
      BY DEF Unrevoked
    <3>2. \A s \in Stored : session'[s] # None
      BY <2>4, SweepEffect DEF Stored
    <3>3. \A s \in Stored : /\ session'[s].user = session[s].user
                            /\ session'[s].family = session[s].family
      BY <2>4, SweepEffect DEF RowsGrow
    <3>4. \A s \in Stored : session[s].revoked => session'[s] = session[s]
      BY <2>4, <3>1, SweepEffect
    <3> QED
      BY <3>2, <3>3, <3>4
  <2> QED
    BY <2>1, <2>2, <2>3, <2>4, Writers
<1> QED
  BY <1>1, Invariance, PTL DEF Spec, RevocationIsPermanent

\* A family without a live session never has one again.
THEOREM DeadFamilies == Spec => DeadFamilyStaysDead
<1> DEFINE A == \A s \in Stored :
                 (\A t \in Unrevoked : session[t].family # session[s].family)
                   => (\A t \in Unrevoked' : session'[t].family # session[s].family)
<1>1. IInv /\ [Next]_vars => [A]_vars
  <2> SUFFICES ASSUME IInv, [Next]_vars PROVE A
    OBVIOUS
  <2> Unrevoked \subseteq Stored
    BY DEF Unrevoked
  <2>1. CASE UNCHANGED session
    BY <2>1, SameTable
  <2>2. ASSUME NEW u \in User, NEW s \in LoginId, StartSession(u, s)
        PROVE  A
    BY <2>2, StartEffect
  <2>3. ASSUME NEW r \in Request, NEW n \in ReplacementId, CommitRotation(r, n)
        PROVE  A
    BY <2>3, RotationEffect
  <2>4. ASSUME NEW r \in Request, EndSweep(r)
        PROVE  A
    BY <2>4, SweepEffect DEF RowsGrow
  <2> QED
    BY <2>1, <2>2, <2>3, <2>4, Writers
<1> QED
  BY <1>1, Invariance, PTL DEF Spec, DeadFamilyStaysDead

\* Only a request of its own user revokes a session: the family UPDATE, which
\* does not name the user, stays within one.
THEOREM OwnOnly == Spec => RevokesOnlyOwn
<1> DEFINE A == \A s \in Unrevoked :
                 s \notin Unrevoked' =>
                   \E r \in Request : request'[r] # request[r] /\ request[r].user = session[s].user
<1>1. IInv /\ [Next]_vars => [A]_vars
  <2> SUFFICES ASSUME IInv, [Next]_vars PROVE A
    OBVIOUS
  <2>1. CASE UNCHANGED session
    BY <2>1, SameTable
  <2>2. ASSUME NEW u \in User, NEW s \in LoginId, StartSession(u, s)
        PROVE  A
    BY <2>2, StartEffect
  <2>3. ASSUME NEW r \in Request, NEW n \in ReplacementId, CommitRotation(r, n)
        PROVE  A
    BY <2>3, RotationEffect
  <2>4. ASSUME NEW r \in Request, EndSweep(r)
        PROVE  A
    BY <2>4, SweepEffect
  <2> QED
    BY <2>1, <2>2, <2>3, <2>4, Writers
<1> QED
  BY <1>1, Invariance, PTL DEF Spec, RevokesOnlyOwn
-----------------------------------------------------------------------------
(* Deadlocks.                                                              *)

\* What a request in flight holds and waits for: a rotation the lock of the
\* submitted session, which has been spent when it turns out to be a reuse; a
\* sweep the rows it is to revoke, at most one of a family; a logout or a
\* revocation waits for one row and holds none while it waits.
Waits(r) ==
  LET q == request[r]
  IN  /\ q.step # "idle" => q.op # "none"
      /\ q.step = "authenticate" => q.op \in {"revoke", "revokeOthers"}
      /\ q.step \in {"lock", "rotate"} => q.op = "refresh"
      /\ q.op = "refresh" /\ q.step \in {"snapshot", "sweep"} => q.sid \notin Unrevoked
      /\ \A s \in SessionId : lock[s] = r =>
           \/ q.op = "refresh" /\ q.step \in {"rotate", "snapshot", "sweep"} /\ s = q.sid
           \/ q.step = "sweep" /\ s \in q.done
      /\ q.step = "sweep" =>
           /\ q.todo \cap q.done = {} /\ q.done \subseteq Unrevoked
           /\ \A s, t \in q.seen : session[s].family = session[t].family => s = t
           /\ q.op = "refresh" =>
                \A s \in q.seen : s # q.sid /\ session[s].family = session[q.sid].family
           /\ q.op \in {"logout", "revoke"} => q.seen \subseteq {q.target}

Reuses == {r \in Request : request[r].op = "refresh" /\ request[r].step = "sweep"}

\* A reuse waits for a session spent after its snapshot, by a reuse that took
\* its snapshot later: of any set of them one took it first, and none of the
\* others waits for that one.
ReusesInOrder ==
  \A E \in SUBSET Reuses :
    E # {} => \E m \in E : \A p \in E : request[m].sid \notin request[p].todo

WaitInv == ReusesInOrder /\ \A r \in Request : Waits(r)

\* A request that a step does not serve waits for what it waited for, and
\* holds what it held.
LEMMA WaitFrame ==
  ASSUME IInv, WaitInv, RowsGrow, NEW p \in Request, request'[p] = request[p],
         \A s \in SessionId : lock'[s] = p => lock[s] = p,
         \A s \in Unrevoked : lock[s] = p => s \in Unrevoked'
  PROVE  Waits(p)'
<1>1. Waits(p) /\ RequestInv(p)
  BY DEF WaitInv, IInv
<1>2. request[p].step # "idle" => request[p].sid \in Stored
  BY <1>1 DEF RequestInv
<1>3. \A s \in Stored : session'[s].family = session[s].family
  BY DEF RowsGrow
<1>4. request[p].seen \subseteq Stored
  BY <1>1 DEF RequestInv
<1>5. \A s \in Stored \ Unrevoked : s \notin Unrevoked'
  BY DEF RowsGrow
<1>6. request[p].step = "sweep" => request[p].done \subseteq Unrevoked'
  BY <1>1 DEF RequestInv, Waits
<1>7. request[p].op = "refresh" /\ request[p].step \in {"snapshot", "sweep"} =>
        request[p].sid \notin Unrevoked'
  BY <1>1, <1>2, <1>5 DEF Waits
<1>8. \A s \in SessionId : lock'[s] = p =>
        \/ request[p].op = "refresh" /\ request[p].step \in {"rotate", "snapshot", "sweep"}
           /\ s = request[p].sid
        \/ request[p].step = "sweep" /\ s \in request[p].done
  BY <1>1 DEF Waits
<1>9. request[p].step = "sweep" =>
        /\ \A s, t \in request[p].seen : session'[s].family = session'[t].family => s = t
        /\ request[p].op = "refresh" =>
             \A s \in request[p].seen :
               s # request[p].sid /\ session'[s].family = session'[request[p].sid].family
  BY <1>1, <1>2, <1>3, <1>4 DEF Waits
<1> QED
  BY <1>1, <1>6, <1>7, <1>8, <1>9 DEF Waits

\* The order stands when a reuse joins that waits for sessions not yet spent,
\* or when one has fewer sessions left to wait for, or is done.
LEMMA OrderKept ==
  ASSUME IInv, WaitInv, NEW r \in Request, Waits(r)', RequestInv(r)',
         \A p \in Request : p # r => request'[p] = request[p],
         r \in Reuses' =>
           \/ r \in Reuses /\ request'[r].sid = request[r].sid
              /\ request'[r].todo \subseteq request[r].todo
           \/ request'[r].todo \subseteq Unrevoked
  PROVE  ReusesInOrder'
<1> SUFFICES ASSUME NEW E \in SUBSET Reuses', E # {}
             PROVE  \E m \in E : \A p \in E : request'[m].sid \notin request'[p].todo
  BY DEF ReusesInOrder
<1>1. \A p \in E : p \in Request /\ (p # r => p \in Reuses /\ request'[p] = request[p])
  BY DEF Reuses
<1>2. CASE r \in E => r \in Reuses /\ request'[r].sid = request[r].sid
                      /\ request'[r].todo \subseteq request[r].todo
  <2>1. E \in SUBSET Reuses
    BY <1>1, <1>2
  <2>2. PICK m \in E : \A p \in E : request[m].sid \notin request[p].todo
    BY <2>1 DEF WaitInv, ReusesInOrder
  <2>3. request'[m].sid = request[m].sid
        /\ \A p \in E : request'[p].todo \subseteq request[p].todo
    BY <1>1, <1>2
  <2> QED
    BY <2>2, <2>3
<1>3. CASE r \in E /\ request'[r].todo \subseteq Unrevoked
  <2>1. request'[r].sid \notin request'[r].todo
    <3>1. request'[r].op = "refresh" /\ request'[r].step = "sweep"
      BY <1>3 DEF Reuses
    <3> QED
      BY <3>1 DEF Waits, RequestInv
  <2>2. CASE E \ {r} = {}
    BY <1>3, <2>1, <2>2
  <2>3. CASE E \ {r} # {}
    <3>1. E \ {r} \in SUBSET Reuses
      BY <1>1
    <3>2. PICK m \in E \ {r} : \A p \in E \ {r} : request[m].sid \notin request[p].todo
      BY <2>3, <3>1 DEF WaitInv, ReusesInOrder
    <3>3. request[m].sid \notin Unrevoked
      BY <3>1 DEF WaitInv, Waits, Reuses
    <3>4. request'[m] = request[m] /\ \A p \in E \ {r} : request'[p] = request[p]
      BY <1>1
    <3> QED
      BY <1>3, <3>2, <3>3, <3>4
  <2> QED
    BY <2>2, <2>3
<1> QED
  BY <1>2, <1>3

\* A step that serves r, takes no lock from another or gives it one, and
\* revokes only what r has locked.
LEMMA WaitStep ==
  ASSUME IInv, IInv', WaitInv, RowsGrow, NEW r \in Request, NEW q,
         request' = [request EXCEPT ![r] = q],
         \A s \in SessionId : lock'[s] \in {lock[s], r, None},
         \A s \in Unrevoked : lock[s] # r => s \in Unrevoked',
         Waits(r)',
         q.op = "refresh" /\ q.step = "sweep" =>
           \/ r \in Reuses /\ q.sid = request[r].sid /\ q.todo \subseteq request[r].todo
           \/ q.todo \subseteq Unrevoked
  PROVE  WaitInv'
<1>1. request'[r] = q /\ \A p \in Request : p # r => request'[p] = request[p]
  BY DEF IInv, TypeOK
<1>2. ASSUME NEW p \in Request, p # r PROVE Waits(p)'
  <2>1. \A s \in SessionId : lock'[s] = p => lock[s] = p
    BY <1>2, NoneAssumption
  <2>2. \A s \in Unrevoked : lock[s] = p => s \in Unrevoked'
    BY <1>2
  <2> QED
    BY <1>1, <1>2, <2>1, <2>2, WaitFrame
<1>3. ReusesInOrder'
  <2>1. RequestInv(r)'
    BY DEF IInv
  <2>2. r \in Reuses' => q.op = "refresh" /\ q.step = "sweep"
    BY <1>1 DEF Reuses
  <2> QED
    BY <1>1, <2>1, <2>2, OrderKept
<1> QED
  BY <1>2, <1>3 DEF WaitInv

\* A step that serves no request.
LEMMA WaitIdle ==
  ASSUME IInv, WaitInv, RowsGrow, UNCHANGED <<lock, request>>, Unrevoked \subseteq Unrevoked'
  PROVE  WaitInv'
<1>1. \A p \in Request : Waits(p)'
  BY WaitFrame
<1>2. ReusesInOrder'
  BY DEF WaitInv, ReusesInOrder, Reuses
<1> QED
  BY <1>1, <1>2 DEF WaitInv

\* Arrival: nothing is locked yet.
LEMMA WaitReceive ==
  ASSUME IInv, IInv', WaitInv, NEW r \in Request, Arrival(r)
  PROVE  WaitInv'
<1>1. request[r] = Idle /\ UNCHANGED <<session, expired, lock, jar>>
  BY DEF Arrival, ReceiveRefresh, ReceiveLogout, ReceiveRevoke, ReceiveRevokeOthers, ReceiveManage
<1>2. PICK q : /\ request' = [request EXCEPT ![r] = q]
               /\ q.step \in {"lock", "snapshot", "authenticate", "answered"}
               /\ q.op \in {"refresh", "logout", "revoke", "revokeOthers"}
               /\ q.step = "lock" => q.op = "refresh"
               /\ q.step = "snapshot" => q.op = "logout"
               /\ q.step = "authenticate" => q.op \in {"revoke", "revokeOthers"}
  <2>1. CASE \E t \in SessionId : ReceiveRefresh(r, t)
    <3>1. PICK t \in SessionId : ReceiveRefresh(r, t)
      BY <2>1
    <3> DEFINE q == [Idle EXCEPT !.op = "refresh", !.user = session[t].user, !.sid = t,
                      !.step = IF t \in expired THEN "answered" ELSE "lock",
                      !.answer = IF t \in expired THEN "unauthorized" ELSE "none"]
    <3>2. request' = [request EXCEPT ![r] = q]
      BY <3>1 DEF ReceiveRefresh
    <3>3. q.op = "refresh" /\ q.step \in {"answered", "lock"}
      BY DEF Idle
    <3> HIDE DEF q
    <3> QED
      BY <3>2, <3>3
  <2>2. CASE \E t \in SessionId : ReceiveLogout(r, t)
    <3>1. PICK t \in SessionId : ReceiveLogout(r, t)
      BY <2>2
    <3> DEFINE q == [Idle EXCEPT !.op = "logout", !.user = session[t].user, !.sid = t,
                      !.target = t,
                      !.step = IF t \in expired THEN "answered" ELSE "snapshot",
                      !.answer = IF t \in expired THEN "notFound" ELSE "none"]
    <3>2. request' = [request EXCEPT ![r] = q]
      BY <3>1 DEF ReceiveLogout
    <3>3. q.op = "logout" /\ q.step \in {"answered", "snapshot"}
      BY DEF Idle
    <3> HIDE DEF q
    <3> QED
      BY <3>2, <3>3
  <2>3. CASE \E c \in SessionId, op \in {"revoke", "revokeOthers"}, t \in SessionId \cup {None} :
               ReceiveManage(r, c, op, t)
    <3>1. PICK c \in SessionId, op \in {"revoke", "revokeOthers"}, t \in SessionId \cup {None} :
            ReceiveManage(r, c, op, t)
      BY <2>3
    <3> DEFINE q == [Idle EXCEPT !.op = op, !.user = session[c].user, !.sid = c,
                      !.target = t, !.step = "authenticate"]
    <3>2. request' = [request EXCEPT ![r] = q]
      BY <3>1 DEF ReceiveManage
    <3>3. q.op = op /\ q.step = "authenticate"
      BY DEF Idle
    <3> HIDE DEF q
    <3> QED
      BY <3>2, <3>3
  <2> QED
    BY <2>1, <2>2, <2>3 DEF Arrival, ReceiveRevoke, ReceiveRevokeOthers
<1>3. request'[r] = q
  BY <1>2 DEF IInv, TypeOK
<1>4. \A s \in SessionId : lock'[s] # r
  BY <1>1 DEF WaitInv, Waits, Idle
<1>5. Waits(r)'
  BY <1>2, <1>3, <1>4 DEF Waits
<1> QED
  BY <1>1, <1>2, <1>5, WaitStep, SameTable

\* An answer: the request holds nothing any more.
LEMMA WaitAnswer ==
  ASSUME IInv, IInv', WaitInv, RowsGrow, NEW r \in Request, NEW q,
         request' = [request EXCEPT ![r] = q],
         q.step = "answered", q.op = request[r].op, request[r].step # "idle",
         lock' = Released(r) \/ (UNCHANGED lock /\ request[r].step \in {"authenticate", "lock"}),
         \A s \in Unrevoked : lock[s] # r => s \in Unrevoked'
  PROVE  WaitInv'
<1>1. request'[r] = q
  BY DEF IInv, TypeOK
<1>2. \A s \in SessionId : lock'[s] # r
  <2>1. CASE lock' = Released(r)
    BY <2>1, NoneAssumption DEF Released
  <2>2. CASE UNCHANGED lock /\ request[r].step \in {"authenticate", "lock"}
    BY <2>2 DEF WaitInv, Waits
  <2> QED
    BY <2>1, <2>2
<1>3. Waits(r)'
  BY <1>1, <1>2 DEF WaitInv, Waits
<1>4. \A s \in SessionId : lock'[s] \in {lock[s], r, None}
  BY DEF Released
<1> QED
  BY <1>3, <1>4, WaitStep

\* The access check: no refresh goes through it.
LEMMA WaitAuthenticate ==
  ASSUME IInv, IInv', WaitInv, NEW r \in Request, Authenticate(r)
  PROVE  WaitInv'
<1>1. /\ request[r] \in RequestState /\ request[r].step = "authenticate"
      /\ UNCHANGED <<session, expired, lock, jar>> /\ RowsGrow /\ Unrevoked' = Unrevoked
  BY SameTable DEF IInv, TypeOK, Authenticate
<1>2. CASE request[r].sid \in Active
  <2> DEFINE q == [request[r] EXCEPT !.step = "snapshot"]
  <2>1. request' = [request EXCEPT ![r] = q]
    BY <1>2 DEF Authenticate
  <2>2. request'[r] = q /\ q.step = "snapshot" /\ q.op = request[r].op /\ q.op # "refresh"
        /\ q.op # "none"
    BY <1>1, <2>1 DEF IInv, TypeOK, RequestState, WaitInv, Waits
  <2> HIDE DEF q
  <2>3. Waits(r)'
    BY <1>1, <2>2 DEF WaitInv, Waits
  <2> QED
    BY <1>1, <2>1, <2>2, <2>3, WaitStep
<1>3. CASE request[r].sid \notin Active
  <2> DEFINE q == Answered(r, "unauthorized")
  <2>1. request' = [request EXCEPT ![r] = q]
    BY <1>3 DEF Authenticate
  <2>2. q.step = "answered" /\ q.op = request[r].op
    BY <1>1 DEF RequestState, Answered
  <2> HIDE DEF q
  <2> QED
    BY <1>1, <2>1, <2>2, WaitAnswer
<1> QED
  BY <1>2, <1>3

\* The lock of the submitted session, spent already or about to be.
LEMMA WaitLock ==
  ASSUME IInv, IInv', WaitInv, NEW r \in Request, LockCurrent(r)
  PROVE  WaitInv'
<1>1. /\ request[r] \in RequestState /\ request[r].step = "lock"
      /\ UNCHANGED <<session, expired, jar>> /\ RowsGrow /\ Unrevoked' = Unrevoked
  BY SameTable DEF IInv, TypeOK, LockCurrent
<1>2. CASE Invalid(r)
  <2> DEFINE q == Answered(r, "unauthorized")
  <2>1. request' = [request EXCEPT ![r] = q] /\ UNCHANGED lock
    BY <1>2 DEF LockCurrent
  <2>2. q.step = "answered" /\ q.op = request[r].op
    BY <1>1 DEF RequestState, Answered
  <2> HIDE DEF q
  <2> QED
    BY <1>1, <2>1, <2>2, WaitAnswer
<1>3. CASE ~Invalid(r)
  <2> DEFINE s == request[r].sid
             q == [request[r] EXCEPT !.step = IF session[s].revoked THEN "snapshot" ELSE "rotate"]
  <2>1. request' = [request EXCEPT ![r] = q] /\ lock' = [lock EXCEPT ![s] = r]
    BY <1>3 DEF LockCurrent
  <2>2. /\ request'[r] = q /\ q.op = "refresh" /\ q.sid = s
        /\ q.step = IF session[s].revoked THEN "snapshot" ELSE "rotate"
    BY <1>1, <2>1 DEF IInv, TypeOK, RequestState, WaitInv, Waits
  <2>3. session[s].revoked => s \notin Unrevoked
    BY DEF Unrevoked
  <2> HIDE DEF q
  <2>4. \A t \in SessionId : lock'[t] = r => t = s
    BY <1>1, <2>1 DEF IInv, TypeOK, WaitInv, Waits
  <2>5. Waits(r)'
    BY <1>1, <2>2, <2>3, <2>4 DEF Waits
  <2>6. \A t \in SessionId : lock'[t] \in {lock[t], r, None}
    BY <2>1 DEF IInv, TypeOK
  <2> QED
    BY <1>1, <2>1, <2>2, <2>5, <2>6, WaitStep
<1> QED
  BY <1>2, <1>3

\* The snapshot: it selects sessions not spent, at most one of a family.
LEMMA WaitBegin ==
  ASSUME IInv, IInv', WaitInv, NEW r \in Request, BeginSweep(r)
  PROVE  WaitInv'
<1> DEFINE rows == {s \in Unrevoked : InScope(r, s)}
           q == [request[r] EXCEPT !.step = "sweep", !.seen = rows, !.todo = rows]
<1>1. /\ request[r] \in RequestState /\ request[r].step = "snapshot"
      /\ UNCHANGED <<session, expired, lock, jar>> /\ RowsGrow /\ Unrevoked' = Unrevoked
      /\ RequestInv(r)
  BY SameTable DEF IInv, TypeOK, BeginSweep
<1>2. request' = [request EXCEPT ![r] = q]
  BY DEF BeginSweep, IInv, TypeOK
<1>3. /\ request'[r] = q /\ q.step = "sweep" /\ q.op = request[r].op /\ q.sid = request[r].sid
      /\ q.target = request[r].target /\ q.seen = rows /\ q.todo = rows /\ q.done = {}
  <2>1. request'[r] = q
    BY <1>2 DEF IInv, TypeOK
  <2>2. request[r].done = {}
    BY <1>1 DEF RequestInv
  <2> HIDE DEF rows
  <2> QED
    BY <1>1, <2>1, <2>2 DEF RequestState
<1>4. rows \subseteq Unrevoked
      /\ \A s, t \in rows : session[s].family = session[t].family => s = t
  BY DEF IInv, OneLiveSessionPerFamily
<1>5. /\ q.op = "refresh" => \A s \in rows : session[s].family = session[q.sid].family
      /\ q.op \in {"logout", "revoke"} => rows \subseteq {q.target}
  BY <1>3 DEF InScope
<1> HIDE DEF q, rows
<1>6. Waits(r)'
  BY <1>1, <1>3, <1>4, <1>5 DEF WaitInv, Waits
<1> QED
  BY <1>1, <1>2, <1>3, <1>4, <1>6, WaitStep

\* A row of the sweep: spent meanwhile, or locked and done.
LEMMA WaitRow ==
  ASSUME IInv, IInv', WaitInv, NEW r \in Request, NEW s \in SessionId, SweepRow(r, s)
  PROVE  WaitInv'
<1>1. /\ request[r] \in RequestState /\ request[r].step = "sweep" /\ s \in request[r].todo
      /\ UNCHANGED <<session, expired, jar>> /\ RowsGrow /\ Unrevoked' = Unrevoked
      /\ RequestInv(r) /\ Waits(r)
  BY SameTable DEF IInv, TypeOK, SweepRow, WaitInv
<1>2. PICK q : /\ request' = [request EXCEPT ![r] = q] /\ request'[r] = q
               /\ q.step = "sweep" /\ q.op = request[r].op /\ q.sid = request[r].sid
               /\ q.target = request[r].target /\ q.seen = request[r].seen
               /\ q.todo = request[r].todo \ {s}
               /\ \/ session[s].revoked /\ q.done = request[r].done /\ UNCHANGED lock
                  \/ /\ ~session[s].revoked /\ q.done = request[r].done \cup {s}
                     /\ lock' = [lock EXCEPT ![s] = r]
  <2>1. CASE session[s].revoked /\ UNCHANGED lock
    <3> DEFINE q == [request[r] EXCEPT !.todo = @ \ {s}]
    <3>1. request' = [request EXCEPT ![r] = q]
      BY <2>1 DEF SweepRow, IInv, TypeOK
    <3>2. request'[r] = q
      BY <3>1 DEF IInv, TypeOK
    <3>3. /\ q.step = "sweep" /\ q.op = request[r].op /\ q.sid = request[r].sid
          /\ q.target = request[r].target /\ q.seen = request[r].seen
          /\ q.todo = request[r].todo \ {s} /\ q.done = request[r].done
      BY <1>1 DEF RequestState
    <3> HIDE DEF q
    <3> QED
      BY <2>1, <3>1, <3>2, <3>3
  <2>2. CASE ~session[s].revoked
    <3> DEFINE q == [request[r] EXCEPT !.todo = @ \ {s}, !.done = @ \cup {s}]
    <3>1. request' = [request EXCEPT ![r] = q] /\ lock' = [lock EXCEPT ![s] = r]
      BY <2>2 DEF SweepRow, IInv, TypeOK
    <3>2. request'[r] = q
      BY <3>1 DEF IInv, TypeOK
    <3>3. /\ q.step = "sweep" /\ q.op = request[r].op /\ q.sid = request[r].sid
          /\ q.target = request[r].target /\ q.seen = request[r].seen
          /\ q.todo = request[r].todo \ {s} /\ q.done = request[r].done \cup {s}
      BY <1>1 DEF RequestState
    <3> HIDE DEF q
    <3> QED
      BY <2>2, <3>1, <3>2, <3>3
  <2> QED
    BY <2>1, <2>2 DEF SweepRow
<1>3. \A t \in SessionId : lock'[t] = r => lock[t] = r \/ (t = s /\ s \in q.done)
  BY <1>2 DEF IInv, TypeOK
<1>4. request[r].done \subseteq q.done /\ q.todo \cap q.done = {} /\ q.done \subseteq Unrevoked
  <2>1. s \in Stored
    BY <1>1 DEF RequestInv
  <2> QED
    BY <1>1, <1>2, <2>1 DEF Waits, Unrevoked
<1>5. Waits(r)'
  BY <1>1, <1>2, <1>3, <1>4 DEF Waits
<1>6. \A t \in SessionId : lock'[t] \in {lock[t], r, None}
  BY <1>2 DEF IInv, TypeOK
<1>7. q.op = "refresh" => r \in Reuses
  BY <1>1, <1>2 DEF Reuses
<1> QED
  BY <1>1, <1>2, <1>5, <1>6, <1>7, WaitStep

\* Every step keeps the order in which reuses wait.
LEMMA NextWaits == IInv /\ IInv' /\ WaitInv /\ [Next]_vars => WaitInv'
<1> SUFFICES ASSUME IInv, IInv', WaitInv, [Next]_vars PROVE WaitInv'
  OBVIOUS
<1>1. ASSUME UNCHANGED <<session, lock, request>> PROVE WaitInv'
  BY <1>1, SameTable, WaitIdle
<1>2. ASSUME NEW u \in User, NEW s \in LoginId, StartSession(u, s) PROVE WaitInv'
  <2>1. UNCHANGED <<lock, request>>
    BY <1>2 DEF StartSession
  <2>2. /\ s \notin Stored /\ Stored' = Stored \cup {s} /\ Unrevoked' = Unrevoked \cup {s}
        /\ \A x \in Stored : session'[x] = session[x]
    BY <1>2, StartEffect
  <2>3. RowsGrow
    BY <2>2 DEF RowsGrow
  <2> QED
    BY <2>1, <2>2, <2>3, WaitIdle
<1>3. ASSUME NEW r \in Request, NEW n \in ReplacementId, CommitRotation(r, n) PROVE WaitInv'
  <2> DEFINE q == Answered(r, "rotated")
  <2>1. request[r] \in RequestState /\ request[r].step = "rotate" /\ lock' = Released(r)
        /\ request' = [request EXCEPT ![r] = q]
    BY <1>3 DEF CommitRotation, IInv, TypeOK
  <2>2. q.step = "answered" /\ q.op = request[r].op
    BY <2>1 DEF RequestState, Answered
  <2>3. RowsGrow /\ \A s \in Unrevoked : lock[s] # r => s \in Unrevoked'
    <3>1. lock[request[r].sid] = r
      BY <2>1 DEF IInv, RequestInv
    <3> QED
      BY <1>3, <3>1, RotationEffect DEF RowsGrow, Stored
  <2> HIDE DEF q
  <2> QED
    BY <2>1, <2>2, <2>3, WaitAnswer
<1>4. ASSUME NEW r \in Request, EndSweep(r) PROVE WaitInv'
  <2>1. PICK answer : request' = [request EXCEPT ![r] = Answered(r, answer)]
    BY <1>4 DEF EndSweep
  <2> DEFINE q == Answered(r, answer)
  <2>2. request[r] \in RequestState /\ request[r].step = "sweep" /\ lock' = Released(r)
    BY <1>4 DEF EndSweep, IInv, TypeOK
  <2>3. q.step = "answered" /\ q.op = request[r].op
    BY <2>2 DEF RequestState, Answered
  <2>4. \A s \in Unrevoked : lock[s] # r => s \in Unrevoked'
    BY <1>4, <2>2, SweepEffect DEF IInv, RequestInv
  <2>5. request' = [request EXCEPT ![r] = q] /\ RowsGrow
    BY <1>4, <2>1, SweepEffect
  <2> HIDE DEF q
  <2> QED
    BY <2>2, <2>3, <2>4, <2>5, WaitAnswer
<1>5. ASSUME NEW r \in Request, InFlight(r), Rollback(r) PROVE WaitInv'
  <2> DEFINE q == [Answered(r, "failed") EXCEPT !.todo = {}, !.done = {}]
  <2>1. request[r] \in RequestState /\ request[r].step # "idle" /\ lock' = Released(r)
        /\ request' = [request EXCEPT ![r] = q] /\ UNCHANGED session
    BY <1>5 DEF InFlight, Rollback, IInv, TypeOK
  <2>2. q.step = "answered" /\ q.op = request[r].op
    BY <2>1 DEF RequestState, Answered
  <2> HIDE DEF q
  <2> QED
    BY <2>1, <2>2, WaitAnswer, SameTable
<1>6. ASSUME NEW r \in Request, Progress(r) PROVE WaitInv'
  <2>1. CASE Authenticate(r) \/ LockCurrent(r) \/ BeginSweep(r) \/ \E s \in SessionId : SweepRow(r, s)
    BY <2>1, WaitAuthenticate, WaitLock, WaitBegin, WaitRow
  <2>2. CASE DeadlockVictim(r)
    BY <1>5, <2>2 DEF DeadlockVictim, Deadlocked, InFlight
  <2> QED
    BY <1>3, <1>4, <1>6, <2>1, <2>2 DEF Progress
<1>7. CASE UNCHANGED vars
  BY <1>1, <1>7 DEF vars
<1>8. ASSUME NEW s \in SessionId, Expire(s) PROVE WaitInv'
  BY <1>1, <1>8 DEF Expire
<1>9. ASSUME NEW r \in Request, Arrival(r) \/ Fail(r) PROVE WaitInv'
  BY <1>5, <1>9, WaitReceive DEF Fail
<1> QED
  BY <1>2, <1>6, <1>7, <1>8, <1>9 DEF Next

\* In a circle of waits each sweep holds a session another waits for, never
\* one it waits for itself.  A reuse holds only the session submitted to it,
\* having one to wait for and nothing done; a logout or a revocation holds
\* nothing.  So a circle has no logout or revocation.  Were there at most one
\* revokeOthers in it: some reuse waits for a session that one holds, the first
\* reuse of that family is waited for by no reuse, hence by the revokeOthers,
\* whose snapshot then held two live sessions of the family.
LEMMA CirclesOfWaits ==
  ASSUME IInv, WaitInv
  PROVE  DeadlockTakesTwoRevokeOthers
<1> SUFFICES ASSUME NEW D \in SUBSET Request, Deadlocked(D)
             PROVE  /\ \A r \in D : request[r].op \in {"refresh", "revokeOthers"}
                    /\ \E q, r \in D : /\ q # r
                                       /\ request[q].op = "revokeOthers"
                                       /\ request[r].op = "revokeOthers"
  BY DEF DeadlockTakesTwoRevokeOthers
<1>1. ASSUME NEW r \in D
      PROVE  /\ r \in Request /\ RequestInv(r) /\ Waits(r) /\ request[r].op \in Op
             /\ request[r].step = "sweep" /\ request[r].todo # {}
             /\ request[r].todo \subseteq request[r].seen /\ request[r].done \subseteq request[r].seen
             /\ request[r].todo \cap request[r].done = {} /\ request[r].seen \subseteq SessionId
             /\ \A s \in request[r].todo : lock[s] \in D /\ s \in SessionId
             /\ \E p \in D : \E s \in request[p].todo : lock[s] = r
  <2>1. r \in Request /\ RequestInv(r) /\ Waits(r) /\ request[r] \in RequestState
    BY DEF IInv, TypeOK, WaitInv
  <2>2. /\ request[r].step = "sweep" /\ request[r].todo # {}
        /\ \A s \in request[r].todo : lock[s] \in D
        /\ \E p \in D : \E s \in request[p].todo : lock[s] = r
    BY DEF Deadlocked
  <2>3. /\ request[r].todo \subseteq request[r].seen
        /\ request[r].done \subseteq request[r].seen
    BY <2>1, <2>2 DEF RequestInv
  <2>4. request[r].todo \cap request[r].done = {}
    BY <2>1, <2>2 DEF Waits
  <2>5. request[r].seen \subseteq SessionId /\ request[r].op \in Op
    BY <2>1 DEF RequestState
  <2> QED
    BY <2>1, <2>2, <2>3, <2>4, <2>5
<1>2. ASSUME NEW r \in D, NEW s \in SessionId, lock[s] = r, request[r].op \in {"refresh", "logout", "revoke"}
      PROVE  request[r].op = "refresh" /\ s = request[r].sid
  <2>1. request[r].done = {}
    <3>1. \A s1, s2 \in request[r].seen : s1 = s2
      BY <1>1, <1>2 DEF Waits
    <3> QED
      BY <1>1, <3>1
  <2> QED
    BY <1>1, <1>2, <2>1 DEF Waits
<1>3. ASSUME NEW r \in D PROVE request[r].op \in {"refresh", "revokeOthers"}
  <2>1. request[r].op \in {"refresh", "logout", "revoke", "revokeOthers"}
    BY <1>1 DEF Waits, Op
  <2>2. PICK s \in SessionId : lock[s] = r
    BY <1>1
  <2> QED
    BY <1>2, <2>1, <2>2
<1>4. ASSUME NEW r \in D PROVE \A s \in request[r].todo : lock[s] # r
  <2> SUFFICES ASSUME NEW s \in request[r].todo, lock[s] = r PROVE FALSE
    OBVIOUS
  <2>1. s \in SessionId /\ s \in request[r].seen /\ s \notin request[r].done
    BY <1>1
  <2> QED
    BY <1>1, <2>1 DEF Waits
<1>5. ASSUME \A q, r \in D : request[q].op = "revokeOthers" /\ request[r].op = "revokeOthers" => q = r
      PROVE  FALSE
  <2>1. ASSUME NEW f
        PROVE  LET E == {r \in D : request[r].op = "refresh" /\ session[request[r].sid].family = f}
               IN  E # {} => \E m \in E, w \in D : /\ request[w].op = "revokeOthers"
                                                   /\ request[m].sid \in request[w].todo
    <3> DEFINE E == {r \in D : request[r].op = "refresh" /\ session[request[r].sid].family = f}
    <3> SUFFICES ASSUME E # {}
                 PROVE  \E m \in E, w \in D : /\ request[w].op = "revokeOthers"
                                              /\ request[m].sid \in request[w].todo
      OBVIOUS
    <3>1. E \in SUBSET Reuses
      BY <1>1 DEF Reuses
    <3>2. PICK m \in E : \A p \in E : request[m].sid \notin request[p].todo
      BY <3>1 DEF WaitInv, ReusesInOrder
    <3>3. PICK w \in D : \E s \in request[w].todo : lock[s] = m
      BY <1>1, <3>2
    <3>4. request[m].sid \in request[w].todo
      BY <1>1, <1>2, <3>2, <3>3
    <3>5. request[w].op # "refresh"
      <4> SUFFICES ASSUME request[w].op = "refresh" PROVE w \in E
        BY <3>2, <3>4
      <4>1. request[m].sid \in request[w].seen /\ Waits(w) /\ request[w].step = "sweep"
        BY <1>1, <3>4
      <4>2. session[request[m].sid].family = session[request[w].sid].family
        BY <4>1 DEF Waits
      <4>3. session[request[m].sid].family = f
        OBVIOUS
      <4> QED
        BY <4>2, <4>3
    <3> QED
      BY <1>3, <3>2, <3>4, <3>5
  <2>2. PICK v \in D : request[v].op = "revokeOthers"
    <3>1. PICK r \in D : TRUE
      BY DEF Deadlocked
    <3>2. CASE request[r].op = "refresh"
      BY <2>1, <3>2
    <3> QED
      BY <1>3, <3>1, <3>2
  <2>3. PICK p \in D : \E s \in request[p].todo : lock[s] = v
    BY <1>1
  <2>4. PICK s \in request[p].todo : lock[s] = v
    BY <2>3
  <2>5. request[p].op = "refresh"
    BY <1>3, <1>4, <1>5, <2>2, <2>4
  <2>6. s \in request[v].done /\ s \in Unrevoked
    BY <1>1, <2>2, <2>4 DEF Waits
  <2> DEFINE f == session[request[p].sid].family
  <2>7. session[s].family = f
    BY <1>1, <2>5, <2>4 DEF Waits
  <2>8. PICK m \in D, w \in D : /\ request[m].op = "refresh" /\ session[request[m].sid].family = f
                                /\ request[w].op = "revokeOthers"
                                /\ request[m].sid \in request[w].todo
    BY <2>1, <2>5
  <2>9. w = v
    BY <1>5, <2>2, <2>8
  <2>10. request[m].sid \notin Unrevoked
    BY <1>1, <2>8 DEF Waits
  <2>11. request[m].sid \in request[v].seen /\ s \in request[v].seen
    BY <1>1, <2>6, <2>8, <2>9
  <2>12. request[m].sid = s
    BY <1>1, <2>7, <2>8, <2>11 DEF Waits
  <2> QED
    BY <2>6, <2>10, <2>12
<1> QED
  BY <1>3, <1>5

\* Logouts and revocations of one session never deadlock, nor do rotations
\* and reuse detections alone, however many overlap.
THEOREM DeadlockNeedsTwo == Spec => []DeadlockTakesTwoRevokeOthers
<1>1. Init => WaitInv
  BY NoneAssumption DEF Init, WaitInv, ReusesInOrder, Reuses, Waits, Idle, Unrevoked, Stored
<1>2. IInv /\ WaitInv => DeadlockTakesTwoRevokeOthers
  BY CirclesOfWaits
<1> QED
  BY <1>1, <1>2, Invariance, NextWaits, PTL DEF Spec
=============================================================================
