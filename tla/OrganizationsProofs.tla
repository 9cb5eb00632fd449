------------------------- MODULE OrganizationsProofs ------------------------
(***************************************************************************)
(* Proofs of the safety properties of Organizations, for every set of      *)
(* organizations, users, names, files and requests.                        *)
(*                                                                         *)
(* The argument: nothing is taken away, so what a stale entity names is    *)
(* still there, and the index guards what a stale save restores.  What     *)
(* needs fresh reads is proved of requests that come in turn: then the     *)
(* entity differs from its row in the columns of the request alone.        *)
(***************************************************************************)
EXTENDS Organizations, TLAPS

\* What a request knows of the tables: the row it edits exists, its caller has
\* a membership there once that was checked, and the images of the entity it
\* holds were uploaded.
RequestInv(q) ==
  /\ q.op = "update" => q.cols \subseteq Brand
  /\ q.step \in {"guard", "permission", "load", "upload", "select", "update", "delete", "context"} =>
       q.org \in Org /\ q.user \in User
  /\ q.step \in {"upload", "select", "update", "delete"} => org[q.org] # None
  /\ q.step \in {"permission", "load", "upload", "select", "update", "delete"} =>
       rank[<<q.org, q.user>>] # "none"
  /\ q.step \in {"slug", "insert"} => q.user \in User /\ q.base \in Base
  /\ q.step \in {"upload", "select", "update"} => q.entity # None
  /\ q.entity # None => \A c \in Image : q.entity[c] \in stored \cup {None}

IInv ==
  /\ TypeOK
  /\ ActiveSlugsUnique
  /\ ImagesAreStored
  /\ \A r \in Request : RequestInv(request[r])

\* No step takes a row, a membership or a file away.
TablesGrow ==
  /\ \A o \in Org : org[o] # None => org'[o] # None
  /\ \A p \in Seat : rank[p] # "none" => rank'[p] # "none"
  /\ stored \subseteq stored'

\* The tables are well typed, and what they say of slugs and images holds.
TablesOK ==
  /\ org \in [Org -> Row \cup {None}]
  /\ rank \in [Seat -> Rank]
  /\ stored \subseteq File
  /\ ActiveSlugsUnique
  /\ ImagesAreStored

-----------------------------------------------------------------------------
\* What a request knows survives the steps of the others.
LEMMA KnowledgeStays ==
  ASSUME NEW q, RequestInv(q), TablesGrow
  PROVE  RequestInv(q)'
<1>1. q.step \in {"upload", "select", "update", "delete"} => org'[q.org] # None
  BY DEF RequestInv, TablesGrow
<1>2. q.step \in {"permission", "load", "upload", "select", "update", "delete"} =>
        rank'[<<q.org, q.user>>] # "none"
  BY DEF RequestInv, TablesGrow, Seat
<1>3. q.entity # None => \A c \in Image : q.entity[c] \in stored' \cup {None}
  BY DEF RequestInv, TablesGrow
<1> QED BY <1>1, <1>2, <1>3 DEF RequestInv

\* A step of request r to a record that is typed and knows what it should
\* keeps the invariant, if the tables are sound after it.
LEMMA StepKeepsIInv ==
  ASSUME IInv, NEW r \in Request, NEW q, q \in RequestState,
         request' = [request EXCEPT ![r] = q], RequestInv(q)',
         TablesGrow, TablesOK'
  PROVE  IInv'
<1>1. request' \in [Request -> RequestState]
  BY DEF IInv, TypeOK
<1>2. ASSUME NEW s \in Request PROVE RequestInv(request[s])'
  <2>1. CASE s = r
    BY <2>1 DEF IInv, TypeOK
  <2>2. CASE s # r
    <3>1. request'[s] = request[s]
      BY <2>2 DEF IInv, TypeOK
    <3>2. PICK t : t = request[s]
      OBVIOUS
    <3>3. RequestInv(t)'
      BY <3>2, KnowledgeStays DEF IInv
    <3> QED BY <3>1, <3>2, <3>3
  <2> QED BY <2>1, <2>2
<1>3. \A s \in Request : request'[s].step \in {"upload", "select", "update"} =>
        request'[s].entity # None
  BY <1>2 DEF RequestInv
<1> QED BY <1>1, <1>2, <1>3 DEF IInv, TypeOK, TablesOK

\* The record of an idle request.
LEMMA IdleIsSound == Idle \in RequestState /\ RequestInv(Idle)
<1>1. Idle \in RequestState
  BY CandidateAssumption DEF Idle, RequestState, Op, Step, Value
<1> QED BY <1>1 DEF Idle, RequestInv


\* A step of a request that leaves the tables alone.
LEMMA RequestStep ==
  ASSUME IInv, NEW r \in Request, NEW q, q \in RequestState, RequestInv(q),
         request' = [request EXCEPT ![r] = q], UNCHANGED <<org, rank, stored>>
  PROVE  IInv'
<1>1. TablesGrow
  BY DEF TablesGrow
<1>2. TablesOK'
  BY DEF IInv, TypeOK, TablesOK, ActiveSlugsUnique, ActiveOrg, ImagesAreStored
<1>3. RequestInv(q)'
  BY DEF RequestInv
<1> QED BY <1>1, <1>2, <1>3, StepKeepsIInv

\* An answered request, whatever was written before.
LEMMA AnswerStep ==
  ASSUME IInv, NEW r \in Request, Answers(r), TablesGrow, TablesOK'
  PROVE  IInv'
<1>1. PICK q : q = Idle
  OBVIOUS
<1>2. q \in RequestState /\ RequestInv(q)
  BY <1>1, IdleIsSound
<1>3. RequestInv(q)'
  BY <1>2, KnowledgeStays
<1>4. request' = [request EXCEPT ![r] = q]
  BY <1>1 DEF Answers
<1> QED BY <1>2, <1>3, <1>4, StepKeepsIInv

\* An answer that writes nothing.
LEMMA AnswerOnly ==
  ASSUME IInv, NEW r \in Request, Answers(r), UNCHANGED <<org, rank, stored>>
  PROVE  IInv'
<1>1. TablesGrow
  BY DEF TablesGrow
<1>2. TablesOK'
  BY DEF IInv, TypeOK, TablesOK, ActiveSlugsUnique, ActiveOrg, ImagesAreStored
<1> QED BY <1>1, <1>2, AnswerStep

\* A request that only moves to another step.
LEMMA GoesStep ==
  ASSUME IInv, NEW r \in Request, NEW step \in Step, Goes(r, step),
         RequestInv([request[r] EXCEPT !.step = step]), UNCHANGED <<org, rank, stored>>
  PROVE  IInv'
<1>1. PICK q : q = [request[r] EXCEPT !.step = step]
  OBVIOUS
<1>2. q \in RequestState
  BY <1>1 DEF IInv, TypeOK, RequestState
<1>3. request' = [request EXCEPT ![r] = q]
  BY <1>1 DEF Goes
<1> QED BY <1>1, <1>2, <1>3, RequestStep

-----------------------------------------------------------------------------
LEMMA ReceiveEditStep ==
  ASSUME IInv, NEW r \in Request, NEW u \in User, NEW o \in Org,
         NEW op \in {"update", "image", "delete"}, NEW cols \in SUBSET Column,
         NEW v \in Text \cup {None}, ReceiveEdit(r, u, o, op, cols, v)
  PROVE  IInv'
<1>1. PICK q : q = [Idle EXCEPT !.op = op, !.step = "guard", !.org = o, !.user = u,
                                !.cols = cols, !.value = v]
  OBVIOUS
<1>2. q \in RequestState
  BY <1>1, IdleIsSound DEF RequestState, Op, Step, Value
<1>3. RequestInv(q)
  BY <1>1 DEF Idle, RequestInv, ReceiveEdit
<1> QED BY <1>1, <1>2, <1>3, RequestStep DEF ReceiveEdit, Receive

LEMMA ReceiveCreateStep ==
  ASSUME IInv, NEW r \in Request, NEW u \in User, NEW b \in Base, ReceiveCreate(r, u, b)
  PROVE  IInv'
<1>1. PICK q : q = [Idle EXCEPT !.op = "create", !.step = "slug", !.user = u, !.base = b]
  OBVIOUS
<1>2. q \in RequestState
  BY <1>1, IdleIsSound DEF RequestState, Op, Step, Value
<1>3. RequestInv(q)
  BY <1>1 DEF Idle, RequestInv
<1> QED BY <1>1, <1>2, <1>3, RequestStep DEF ReceiveCreate, Receive

LEMMA ReceiveOtherStep ==
  ASSUME IInv, NEW r \in Request, NEW u \in User, NEW o \in Org, ReceiveOther(r, u, o)
  PROVE  IInv'
<1>1. PICK q : q = [Idle EXCEPT !.op = "other", !.step = "context", !.user = u, !.org = o]
  OBVIOUS
<1>2. q \in RequestState
  BY <1>1, IdleIsSound DEF RequestState, Op, Step, Value
<1>3. RequestInv(q)
  BY <1>1 DEF Idle, RequestInv
<1> QED BY <1>1, <1>2, <1>3, RequestStep DEF ReceiveOther, Receive

LEMMA CheckPermissionStep ==
  ASSUME IInv, NEW r \in Request, CheckPermission(r)
  PROVE  IInv'
<1> DEFINE step == IF request[r].step = "guard" THEN "permission" ELSE "load"
<1>1. request[r] \in RequestState /\ RequestInv(request[r])
  BY DEF IInv, TypeOK
<1>2. CASE Granted(<<request[r].org, request[r].user>>, request[r].op)
  <2>1. rank[<<request[r].org, request[r].user>>] # "none"
    BY <1>2 DEF Granted
  <2>2. step \in Step /\ step \in {"permission", "load"}
    BY DEF Step
  <2> HIDE DEF step
  <2>3. RequestInv([request[r] EXCEPT !.step = step])
    BY <1>1, <2>1, <2>2 DEF CheckPermission, RequestInv, RequestState
  <2>4. Goes(r, step) /\ UNCHANGED <<org, rank, stored>>
    BY <1>2 DEF CheckPermission, step
  <2> QED BY <2>2, <2>3, <2>4, GoesStep
<1>3. CASE ~Granted(<<request[r].org, request[r].user>>, request[r].op)
  BY <1>3, AnswerOnly DEF CheckPermission
<1> QED BY <1>2, <1>3

\* Patching keeps the images of an edit that names no image.
LEMMA PatchedType ==
  ASSUME NEW q \in RequestState, NEW cols \in [Column -> Value]
  PROVE  Patched(q, cols) \in [Column -> Value]
BY DEF Patched, RequestState

LEMMA LoadStep ==
  ASSUME IInv, NEW r \in Request, Load(r)
  PROVE  IInv'
<1>1. request[r] \in RequestState /\ RequestInv(request[r]) /\ request[r].step = "load"
  BY DEF IInv, TypeOK, Load
<1>2. request[r].org \in Org /\ rank[<<request[r].org, request[r].user>>] # "none"
  BY <1>1 DEF RequestInv
<1>3. CASE request[r].org \notin ActiveOrg
  BY <1>3, AnswerOnly DEF Load
<1>4. CASE request[r].org \in ActiveOrg
  <2>1. org[request[r].org] # None /\ org[request[r].org] \in Row
    BY <1>2, <1>4 DEF ActiveOrg, IInv, TypeOK
  <2>2. PICK cols : cols = org[request[r].org].cols
    OBVIOUS
  <2>3. cols \in [Column -> Value]
    BY <2>1, <2>2 DEF Row
  <2>4. \A c \in Image : cols[c] \in stored \cup {None}
    BY <1>2, <2>1, <2>2 DEF IInv, ImagesAreStored
  <2>5. CASE request[r].op = "delete"
    <3>1. Goes(r, "delete") /\ UNCHANGED <<org, rank, stored>>
      BY <1>4, <2>5 DEF Load
    <3>2. RequestInv([request[r] EXCEPT !.step = "delete"])
      BY <1>1, <1>2, <2>1 DEF RequestInv, RequestState
    <3> QED BY <3>1, <3>2, GoesStep DEF Step
  <2>6. CASE request[r].op = "update"
    <3>1. PICK e : e = Patched(request[r], cols)
      OBVIOUS
    <3>2. e \in [Column -> Value]
      BY <1>1, <2>3, <3>1, PatchedType
    <3>3. \A c \in Image : e[c] \in stored \cup {None}
      BY <1>1, <2>4, <2>6, <3>1, ColumnAssumption DEF Patched, RequestInv, Column
    <3>4. PICK q : q = [request[r] EXCEPT !.step = "select", !.entity = e, !.value = None]
      OBVIOUS
    <3>5. request' = [request EXCEPT ![r] = q] /\ UNCHANGED <<org, rank, stored>>
      BY <1>4, <2>2, <2>6, <3>1, <3>4 DEF Load
    <3>6. q \in RequestState
      BY <1>1, <3>2, <3>4 DEF RequestState, Step, Value
    <3>7. RequestInv(q)
      BY <1>1, <1>2, <2>1, <3>2, <3>3, <3>4, NoneAssumption DEF RequestInv, RequestState
    <3> QED BY <3>5, <3>6, <3>7, RequestStep
  <2>7. CASE request[r].op = "image"
    <3>1. PICK q : q = [request[r] EXCEPT !.step = "upload", !.entity = cols]
      OBVIOUS
    <3>2. request' = [request EXCEPT ![r] = q] /\ UNCHANGED <<org, rank, stored>>
      BY <1>4, <2>2, <2>7, <3>1 DEF Load
    <3>3. q \in RequestState
      BY <1>1, <2>3, <3>1 DEF RequestState, Step
    <3>4. RequestInv(q)
      BY <1>1, <1>2, <2>1, <2>3, <2>4, <3>1, NoneAssumption DEF RequestInv, RequestState
    <3> QED BY <3>2, <3>3, <3>4, RequestStep
  <2> QED BY <1>4, <2>5, <2>6, <2>7 DEF Load
<1> QED BY <1>3, <1>4

LEMMA UploadStep ==
  ASSUME IInv, NEW r \in Request, NEW f \in File, Upload(r, f)
  PROVE  IInv'
<1>1. request[r] \in RequestState /\ RequestInv(request[r]) /\ request[r].step = "upload"
  BY DEF IInv, TypeOK, Upload
<1>2. stored' = stored \cup {f} /\ UNCHANGED <<org, rank>>
  BY DEF Upload
<1>3. TablesGrow
  BY <1>2 DEF TablesGrow
<1>4. TablesOK'
  BY <1>2 DEF IInv, TypeOK, TablesOK, ActiveSlugsUnique, ActiveOrg, ImagesAreStored
<1>5. PICK e : e = [c \in Column |-> IF c \in request[r].cols THEN f ELSE request[r].entity[c]]
  OBVIOUS
<1>6. request[r].entity # None
  BY <1>1 DEF RequestInv
<1>7. request[r].entity \in [Column -> Value]
  BY <1>1, <1>6 DEF RequestState
<1>8. e \in [Column -> Value]
  BY <1>5, <1>7 DEF Value
<1>9. \A c \in Image : e[c] \in stored' \cup {None}
  BY <1>1, <1>2, <1>5, <1>6 DEF RequestInv, Column
<1>10. PICK q : q = [request[r] EXCEPT !.step = "select", !.entity = e]
  OBVIOUS
<1>11. request' = [request EXCEPT ![r] = q]
  BY <1>1, <1>5, <1>10 DEF Upload, Patched, RequestState
<1>12. q \in RequestState
  BY <1>1, <1>8, <1>10 DEF RequestState, Step
<1>13. RequestInv(q)'
  BY <1>1, <1>2, <1>8, <1>9, <1>10, NoneAssumption DEF RequestInv, RequestState
<1> QED BY <1>3, <1>4, <1>11, <1>12, <1>13, StepKeepsIInv

LEMMA SelectRowStep ==
  ASSUME IInv, NEW r \in Request, SelectRow(r)
  PROVE  IInv'
<1>1. request[r] \in RequestState /\ RequestInv(request[r]) /\ request[r].step = "select"
  BY DEF IInv, TypeOK, SelectRow
<1> DEFINE set == {c \in Column : request[r].entity[c] # org[request[r].org].cols[c]}
                    \cup (IF org[request[r].org].deleted THEN {"deleted"} ELSE {})
<1>2. CASE set = {}
  BY <1>2, AnswerOnly DEF SelectRow
<1>3. CASE set # {}
  <2>1. PICK q : q = [request[r] EXCEPT !.step = "update", !.set = set]
    OBVIOUS
  <2>2. request' = [request EXCEPT ![r] = q] /\ UNCHANGED <<org, rank, stored>>
    BY <1>3, <2>1 DEF SelectRow
  <2>3. set \in SUBSET (Column \cup {"deleted"})
    OBVIOUS
  <2> HIDE DEF set
  <2>4. q \in RequestState
    BY <1>1, <2>1, <2>3 DEF RequestState, Step
  <2>5. RequestInv(q)
    BY <1>1, <2>1 DEF RequestInv, RequestState
  <2> QED BY <2>2, <2>4, <2>5, RequestStep
<1> QED BY <1>2, <1>3

LEMMA UpdateRowStep ==
  ASSUME IInv, NEW r \in Request, UpdateRow(r)
  PROVE  IInv'
<1>1. request[r] \in RequestState /\ RequestInv(request[r]) /\ request[r].step = "update"
  BY DEF IInv, TypeOK, UpdateRow
<1>2. CASE UNCHANGED org
  BY <1>2, AnswerOnly DEF UpdateRow
<1>3. CASE org' # org
  <2>1. PICK q : q = request[r]
    OBVIOUS
  <2>2. PICK row : row = org[q.org]
    OBVIOUS
  <2>3. q.org \in Org /\ q.entity # None /\ row # None
    BY <1>1, <2>1, <2>2 DEF RequestInv
  <2>4. row \in Row /\ q.entity \in [Column -> Value]
    BY <1>1, <2>1, <2>2, <2>3 DEF IInv, TypeOK, RequestState
  <2>5. PICK cols : cols = [c \in Column |-> IF c \in q.set THEN q.entity[c] ELSE row.cols[c]]
    OBVIOUS
  <2>6. PICK new : new = [row EXCEPT !.cols = cols,
                                     !.deleted = row.deleted /\ "deleted" \notin q.set]
    OBVIOUS
  <2>7. org' = [org EXCEPT ![q.org] = new]
    BY <1>3, <2>1, <2>2, <2>5, <2>6 DEF UpdateRow
  <2>8. cols \in [Column -> Value]
    BY <2>4, <2>5 DEF Row
  <2>9. new \in Row /\ new.slug = row.slug /\ new.cols = cols
    BY <2>4, <2>6, <2>8 DEF Row
  <2>10. new # None
    BY <2>9, NoneAssumption
  <2>11. ~new.deleted => ~row.deleted \/ ~SlugTaken(row.slug)
    <3>1. ~(row.deleted /\ "deleted" \in q.set /\ SlugTaken(row.slug))
      BY <1>3, <2>1, <2>2 DEF UpdateRow
    <3>2. new.deleted = (row.deleted /\ "deleted" \notin q.set)
      BY <2>4, <2>6 DEF Row
    <3> QED BY <3>1, <3>2
  <2>12. \A c \in Image : cols[c] \in stored \cup {None}
    <3>1. \A c \in Image : row.cols[c] \in stored \cup {None}
      BY <2>2, <2>3 DEF IInv, ImagesAreStored
    <3>2. \A c \in Image : q.entity[c] \in stored \cup {None}
      BY <1>1, <2>1, <2>3 DEF RequestInv
    <3> QED BY <2>5, <3>1, <3>2 DEF Column
  <2>13. org' \in [Org -> Row \cup {None}] /\ UNCHANGED <<rank, stored>> /\ Answers(r)
    BY <2>7, <2>9 DEF IInv, TypeOK, UpdateRow
  <2>14. \A o \in Org : org'[o] = IF o = q.org THEN new ELSE org[o]
    BY <2>7 DEF IInv, TypeOK
  <2>15. TablesGrow
    BY <2>10, <2>13, <2>14 DEF TablesGrow
  <2>16. ImagesAreStored'
    BY <2>9, <2>12, <2>13, <2>14 DEF ImagesAreStored, IInv
  <2>17. ActiveSlugsUnique'
    <3>1. \A o \in ActiveOrg' : o # q.org => o \in ActiveOrg
      BY <2>14 DEF ActiveOrg
    <3>2. q.org \in ActiveOrg' => q.org \in ActiveOrg \/ ~SlugTaken(row.slug)
      BY <2>2, <2>3, <2>11, <2>14 DEF ActiveOrg
    <3>3. \A o \in ActiveOrg' : org'[o].slug = org[o].slug
      BY <2>2, <2>9, <2>14 DEF ActiveOrg
    <3>4. \A o \in ActiveOrg : org[o].slug = row.slug => o = q.org \/ SlugTaken(row.slug)
      BY DEF SlugTaken
    <3> QED BY <2>2, <3>1, <3>2, <3>3, <3>4 DEF ActiveSlugsUnique, IInv
  <2>18. TablesOK'
    BY <2>13, <2>16, <2>17 DEF TablesOK, IInv, TypeOK
  <2> QED BY <2>13, <2>15, <2>18, AnswerStep
<1> QED BY <1>2, <1>3

LEMMA SoftDeleteStep ==
  ASSUME IInv, NEW r \in Request, SoftDelete(r)
  PROVE  IInv'
<1>1. PICK o : o = request[r].org
  OBVIOUS
<1>2. o \in Org /\ org[o] \in Row
  BY <1>1 DEF IInv, TypeOK, RequestInv, SoftDelete
<1>3. PICK new : new = [org[o] EXCEPT !.deleted = TRUE]
  OBVIOUS
<1>4. new \in Row /\ new.deleted /\ new.cols = org[o].cols
  BY <1>2, <1>3 DEF Row
<1>5. new # None
  BY <1>4, NoneAssumption
<1>6. org' = [org EXCEPT ![o] = new] /\ UNCHANGED <<rank, stored>> /\ Answers(r)
  BY <1>1, <1>3 DEF SoftDelete
<1>7. \A p \in Org : org'[p] = IF p = o THEN new ELSE org[p]
  BY <1>6 DEF IInv, TypeOK
<1>8. TablesGrow
  BY <1>5, <1>6, <1>7 DEF TablesGrow
<1>9. \A p \in ActiveOrg' : p \in ActiveOrg /\ org'[p] = org[p]
  BY <1>4, <1>7 DEF ActiveOrg
<1>10. ActiveSlugsUnique'
  BY <1>9 DEF ActiveSlugsUnique, IInv
<1>11. ImagesAreStored'
  BY <1>2, <1>4, <1>6, <1>7, NoneAssumption DEF ImagesAreStored, IInv
<1>12. TablesOK'
  BY <1>2, <1>4, <1>6, <1>10, <1>11 DEF TablesOK, IInv, TypeOK
<1> QED BY <1>6, <1>8, <1>12, AnswerStep

LEMMA FindSlugStep ==
  ASSUME IInv, NEW r \in Request, FindSlug(r)
  PROVE  IInv'
<1>1. request[r] \in RequestState /\ RequestInv(request[r]) /\ request[r].step = "slug"
  BY DEF IInv, TypeOK, FindSlug
<1>2. CASE Goes(r, "insert")
  <2>1. RequestInv([request[r] EXCEPT !.step = "insert"])
    BY <1>1 DEF RequestInv, RequestState
  <2> QED BY <1>2, <2>1, GoesStep DEF FindSlug, Step
<1>3. CASE request[r].try < Tries /\ request' = [request EXCEPT ![r].try = @ + 1]
  <2>1. PICK q : q = [request[r] EXCEPT !.try = request[r].try + 1]
    OBVIOUS
  <2>2. request' = [request EXCEPT ![r] = q] /\ UNCHANGED <<org, rank, stored>>
    BY <1>3, <2>1 DEF FindSlug
  <2>3. request[r].try + 1 \in 1..Tries
    BY <1>1, <1>3, CandidateAssumption DEF RequestState
  <2>4. q \in RequestState
    BY <1>1, <2>1, <2>3 DEF RequestState
  <2>5. RequestInv(q)
    BY <1>1, <2>1 DEF RequestInv, RequestState
  <2> QED BY <2>2, <2>4, <2>5, RequestStep
<1> QED BY <1>2, <1>3 DEF FindSlug

LEMMA InsertStep ==
  ASSUME IInv, NEW r \in Request, NEW o \in Org, Insert(r, o)
  PROVE  IInv'
<1>1. request[r] \in RequestState /\ RequestInv(request[r]) /\ request[r].step = "insert"
  BY DEF IInv, TypeOK, Insert
<1>2. CASE UNCHANGED <<org, rank>>
  BY <1>2, AnswerOnly DEF Insert
<1>3. CASE ~UNCHANGED <<org, rank>>
  <2>1. PICK s : s = CandidateOf(r)
    OBVIOUS
  <2>2. s \in Slug /\ request[r].user \in User
    BY <1>1, <2>1 DEF RequestInv, RequestState, CandidateOf, Slug
  <2>3. PICK t \in Text :
          org' = [org EXCEPT ![o] = [slug |-> s, deleted |-> FALSE,
                    cols |-> [c \in Column |-> IF c = Name THEN t ELSE None]]]
    BY <1>3, <2>1 DEF Insert
  <2>4. PICK cols : cols = [c \in Column |-> IF c = Name THEN t ELSE None]
    OBVIOUS
  <2>5. PICK new : new = [slug |-> s, deleted |-> FALSE, cols |-> cols]
    OBVIOUS
  <2>6. cols \in [Column -> Value] /\ \A c \in Image : cols[c] = None
    BY <2>4, ColumnAssumption DEF Column, Value
  <2>7. new \in Row /\ new.slug = s /\ ~new.deleted /\ new.cols = cols
    BY <2>2, <2>5, <2>6 DEF Row
  <2>8. new # None
    BY <2>7, NoneAssumption
  <2>9. /\ org[o] = None
        /\ ~SlugTaken(s)
        /\ org' = [org EXCEPT ![o] = new]
        /\ rank' = [rank EXCEPT ![<<o, request[r].user>>] = "owner"]
        /\ Answers(r)
        /\ UNCHANGED stored
    BY <1>3, <2>1, <2>3, <2>4, <2>5 DEF Insert
  <2>10. \A p \in Org : org'[p] = IF p = o THEN new ELSE org[p]
    BY <2>9 DEF IInv, TypeOK
  <2>11. rank' \in [Seat -> Rank]
    BY <2>2, <2>9 DEF IInv, TypeOK, Rank, Seat
  <2>12. \A p \in Seat : rank'[p] = "owner" \/ rank'[p] = rank[p]
    BY <2>9 DEF IInv, TypeOK
  <2>13. TablesGrow
    BY <2>8, <2>9, <2>10, <2>12 DEF TablesGrow
  <2>14. ActiveSlugsUnique'
    <3>1. \A p \in ActiveOrg' : p # o => p \in ActiveOrg /\ org'[p] = org[p]
      BY <2>10 DEF ActiveOrg
    <3>2. \A p \in ActiveOrg : org[p].slug # s
      BY <2>9 DEF SlugTaken
    <3>3. org'[o].slug = s
      BY <2>7, <2>10
    <3> QED BY <3>1, <3>2, <3>3 DEF ActiveSlugsUnique, IInv
  <2>15. ImagesAreStored'
    BY <2>6, <2>7, <2>9, <2>10 DEF ImagesAreStored, IInv
  <2>16. TablesOK'
    BY <2>7, <2>9, <2>11, <2>14, <2>15 DEF TablesOK, IInv, TypeOK
  <2> QED BY <2>9, <2>13, <2>16, AnswerStep
<1> QED BY <1>2, <1>3

LEMMA ReadContextStep ==
  ASSUME IInv, NEW r \in Request, ReadContext(r)
  PROVE  IInv'
<1>1. request[r] \in RequestState /\ RequestInv(request[r]) /\ request[r].step = "context"
  BY DEF IInv, TypeOK, ReadContext
<1>2. PICK active : active = IF <<request[r].org, request[r].user>> \in ActiveSeat
                             THEN request[r].org ELSE None
  OBVIOUS
<1>3. active \in Org \cup {None}
  BY <1>1, <1>2 DEF RequestInv
<1>4. PICK q : q = [request[r] EXCEPT !.step = "handler", !.active = active]
  OBVIOUS
<1>5. request' = [request EXCEPT ![r] = q] /\ UNCHANGED <<org, rank, stored>>
  BY <1>2, <1>4 DEF ReadContext
<1>6. q \in RequestState
  BY <1>1, <1>3, <1>4 DEF RequestState, Step
<1>7. RequestInv(q)
  BY <1>1, <1>4 DEF RequestInv, RequestState
<1> QED BY <1>5, <1>6, <1>7, RequestStep

\* The members' requests move no request of this module.
LEMMA ChangeMemberStep ==
  ASSUME IInv, NEW p \in Seat, NEW k \in {"admin", "staff", "removed"}, ChangeMember(p, k)
  PROVE  IInv'
<1>1. rank' = [rank EXCEPT ![p] = k] /\ UNCHANGED <<org, stored, request>>
  BY DEF ChangeMember
<1>2. rank' \in [Seat -> Rank] /\ \A s \in Seat : rank[s] # "none" => rank'[s] # "none"
  BY <1>1 DEF IInv, TypeOK, Rank
<1>3. TablesGrow
  BY <1>1, <1>2 DEF TablesGrow
<1>4. ASSUME NEW s \in Request PROVE RequestInv(request[s])'
  <2>1. PICK q : q = request[s]
    OBVIOUS
  <2>2. RequestInv(q)'
    BY <1>3, <2>1, KnowledgeStays DEF IInv
  <2> QED BY <1>1, <2>1, <2>2
<1>5. TypeOK'
  BY <1>1, <1>2 DEF IInv, TypeOK
<1>6. ActiveSlugsUnique' /\ ImagesAreStored'
  BY <1>1 DEF IInv, ActiveSlugsUnique, ActiveOrg, ImagesAreStored
<1> QED BY <1>4, <1>5, <1>6 DEF IInv

LEMMA StutterStep == ASSUME IInv, UNCHANGED vars PROVE IInv'
BY DEF IInv, vars, TypeOK, ActiveSlugsUnique, ActiveOrg, ImagesAreStored, RequestInv

-----------------------------------------------------------------------------
LEMMA Initially == Init => IInv
<1> SUFFICES ASSUME Init PROVE IInv
  OBVIOUS
<1>1. PICK slug \in [Org -> Slug \cup {None}], owner \in [Org -> User], text \in [Column -> Value] :
        /\ \A c \in Column \ {Name} : text[c] = None
        /\ \A o, q \in Org : slug[o] # None /\ slug[o] = slug[q] => o = q
        /\ org = [o \in Org |-> IF slug[o] = None THEN None
                                ELSE [slug |-> slug[o], cols |-> text, deleted |-> FALSE]]
        /\ \E other \in [Seat -> {"none", "admin", "staff", "removed"}] :
             rank = [p \in Seat |-> IF slug[p[1]] = None THEN "none"
                                    ELSE IF owner[p[1]] = p[2] THEN "owner" ELSE other[p]]
  BY ZenonT(60) DEF Init
<1>2. \A o \in Org : org[o] # None =>
        /\ slug[o] \in Slug /\ slug[o] # None
        /\ org[o] = [slug |-> slug[o], cols |-> text, deleted |-> FALSE]
  BY <1>1
<1>3. \A o \in Org : org[o] # None => org[o] \in Row /\ org[o].slug = slug[o] /\ org[o].cols = text
  BY <1>1, <1>2 DEF Row
<1>4. org \in [Org -> Row \cup {None}]
  BY <1>1, <1>3
<1>5. rank \in [Seat -> Rank]
  BY <1>1 DEF Rank
<1>6. stored = {} /\ request = [r \in Request |-> Idle]
  BY DEF Init
<1>7. \A r \in Request : request[r] \in RequestState /\ RequestInv(request[r])
  BY <1>6, IdleIsSound
<1>8. TypeOK
  BY <1>4, <1>5, <1>6, <1>7 DEF TypeOK, RequestInv
<1>9. ActiveSlugsUnique
  BY <1>1, <1>2, <1>3 DEF ActiveSlugsUnique, ActiveOrg
<1>10. ImagesAreStored
  BY <1>1, <1>3, ColumnAssumption DEF ImagesAreStored, Column
<1> QED BY <1>7, <1>8, <1>9, <1>10 DEF IInv

LEMMA Inductive == IInv /\ [Next]_vars => IInv'
<1> SUFFICES ASSUME IInv, [Next]_vars PROVE IInv'
  OBVIOUS
<1>1. ASSUME NEW p \in Seat, NEW k \in {"admin", "staff", "removed"}, ChangeMember(p, k)
      PROVE  IInv'
  BY <1>1, ChangeMemberStep
<1>2. ASSUME NEW r \in Request, Arrival(r) PROVE IInv'
  BY <1>2, ReceiveEditStep, ReceiveCreateStep, ReceiveOtherStep DEF Arrival
<1>3. ASSUME NEW r \in Request, Progress(r) PROVE IInv'
  <2>1. CASE Handle(r)
    BY <2>1, AnswerOnly DEF Handle
  <2> QED BY <1>3, <2>1, CheckPermissionStep, LoadStep, UploadStep, SelectRowStep, UpdateRowStep,
             SoftDeleteStep, FindSlugStep, InsertStep, ReadContextStep DEF Progress
<1>4. ASSUME NEW r \in Request, Fail(r) PROVE IInv'
  BY <1>4, AnswerOnly DEF Fail
<1> QED BY <1>1, <1>2, <1>3, <1>4, StutterStep DEF Next

LEMMA Invariant == Spec => []IInv
BY Initially, Inductive, PTL DEF Spec

\* The tables, the store and the requests have their types, for any number of
\* organizations, users and overlapping requests.
THEOREM TypeCorrect == Spec => []TypeOK
<1>1. IInv => TypeOK
  BY DEF IInv
<1> QED BY <1>1, Invariant, PTL

\* Two organizations in use never have one slug, however many creations and
\* restoring saves overlap.
THEOREM SlugsUnique == Spec => []ActiveSlugsUnique
<1>1. IInv => ActiveSlugsUnique
  BY DEF IInv
<1> QED BY <1>1, Invariant, PTL

\* Whatever uploads fail and whatever stale entities are saved, an image column
\* names a file that was uploaded.
THEOREM ImagesExist == Spec => []ImagesAreStored
<1>1. IInv => ImagesAreStored
  BY DEF IInv
<1> QED BY <1>1, Invariant, PTL

-----------------------------------------------------------------------------
\* What the action property of tenants says of one step.
WritesByMembers ==
  \A o \in Org : org[o] # None /\ org'[o] # org[o] =>
    \E r \in Request : /\ request'[r] # request[r] /\ request[r].org = o
                       /\ rank[<<o, request[r].user>>] # "none"

\* An answered request was not idle.
LEMMA AnswerMoves ==
  ASSUME IInv, NEW r \in Request, request[r].step # "idle", Answers(r)
  PROVE  request'[r] # request[r]
<1>1. request'[r] = Idle
  BY DEF Answers, IInv, TypeOK
<1> QED BY <1>1 DEF Idle

LEMMA StepWritesByMembers == IInv /\ [Next]_vars => WritesByMembers
<1> SUFFICES ASSUME IInv, Next PROVE WritesByMembers
  BY DEF WritesByMembers, vars
<1>1. ASSUME NEW r \in Request, UpdateRow(r) \/ SoftDelete(r) PROVE WritesByMembers
  <2>1. RequestInv(request[r]) /\ request[r].step \in {"update", "delete"} /\ Answers(r)
    BY <1>1 DEF IInv, UpdateRow, SoftDelete
  <2>2. request'[r] # request[r] /\ rank[<<request[r].org, request[r].user>>] # "none"
    BY <2>1, AnswerMoves DEF RequestInv
  <2>3. \A o \in Org : org'[o] # org[o] => o = request[r].org
    BY <1>1 DEF UpdateRow, SoftDelete, IInv, TypeOK
  <2> QED BY <2>2, <2>3 DEF WritesByMembers
<1>2. ASSUME NEW r \in Request, NEW o \in Org, Insert(r, o) PROVE WritesByMembers
  <2>1. \A p \in Org : org'[p] # org[p] => org[p] = None
    BY <1>2 DEF Insert, IInv, TypeOK
  <2> QED BY <2>1 DEF WritesByMembers
<1>3. CASE UNCHANGED org
  BY <1>3 DEF WritesByMembers
<1>4. ASSUME NEW r \in Request, Progress(r) PROVE WritesByMembers
  BY <1>1, <1>2, <1>3, <1>4 DEF Progress, CheckPermission, Load, Upload, SelectRow, FindSlug,
     ReadContext, Handle
<1>5. ASSUME NEW r \in Request, Arrival(r) PROVE UNCHANGED org
  BY <1>5 DEF Arrival, ReceiveEdit, ReceiveCreate, ReceiveOther, Receive
<1> QED BY <1>3, <1>4, <1>5 DEF Next, ChangeMember, Fail

\* The rows of an organization are written only by requests of its members,
\* present or past.
THEOREM TenantsApart == Spec => TenantWritesByMembers
<1>1. IInv /\ [Next]_vars =>
        (\A o \in Org : org[o] # None /\ org'[o] # org[o] =>
          \E r \in Request : /\ request'[r] # request[r] /\ request[r].org = o
                             /\ rank[<<o, request[r].user>>] # "none")
  BY StepWritesByMembers DEF WritesByMembers
<1> QED BY <1>1, Invariant, PTL DEF Spec, TenantWritesByMembers

-----------------------------------------------------------------------------
(* Requests in turn.                                                       *)

\* Requests come one at a time: of two slots one is idle.  The members'
\* requests still come between the statements of a request.
InTurn ==
  \A q, r \in Request : request[q].step = "idle" \/ request[r].step = "idle" \/ q = r

\* What a save that is served alone knows: the row it has loaded is not
\* deleted, and only the columns it was asked to change differ from it.
Fresh(q) ==
  q.step \in {"upload", "select", "update"} =>
    /\ q.org \in ActiveOrg
    /\ \A c \in Column \ q.cols : q.entity[c] = org[q.org].cols[c]
    /\ q.step = "update" => "deleted" \notin q.set

TurnInv == \A r \in Request : Fresh(request[r])

\* What the two action properties say of one step.
NoneRestored ==
  \A o \in Org : org[o] # None /\ org[o].deleted => org'[o] # None /\ org'[o].deleted

OtherColumnsKept ==
  \A o \in Org, c \in Column :
    org[o] # None /\ org'[o].cols[c] # org[o].cols[c] =>
      \E r \in Request : request'[r] # request[r] /\ request[r].org = o /\ c \in request[r].cols

Kept == NoneRestored /\ OtherColumnsKept

\* A step that leaves the rows alone.
LEMMA RowsStand == ASSUME UNCHANGED org PROVE Kept
BY DEF Kept, NoneRestored, OtherColumnsKept

\* It keeps what the requests know that it does not serve.
LEMMA TurnRead ==
  ASSUME IInv, TurnInv, UNCHANGED org, NEW r \in Request, NEW q, Fresh(q),
         request' = [request EXCEPT ![r] = q]
  PROVE  TurnInv' /\ Kept
<1>1. ASSUME NEW s \in Request PROVE Fresh(request[s])'
  <2>1. PICK p : p = request'[s]
    OBVIOUS
  <2>2. Fresh(p)
    BY <2>1 DEF IInv, TypeOK, TurnInv
  <2>3. Fresh(p)'
    BY <2>2 DEF Fresh, ActiveOrg
  <2> QED
    BY <2>1, <2>3
<1> QED
  BY <1>1, RowsStand DEF TurnInv

\* Who is not about to save needs to know nothing.
LEMMA FreshElsewhere ==
  ASSUME NEW q, q.step \notin {"upload", "select", "update"}
  PROVE  Fresh(q)
BY DEF Fresh

\* An answer that writes nothing.
LEMMA TurnAnswers ==
  ASSUME IInv, TurnInv, UNCHANGED org, NEW r \in Request, Answers(r)
  PROVE  TurnInv' /\ Kept
<1>1. PICK q : q = Idle
  OBVIOUS
<1>2. q.step = "idle" /\ request' = [request EXCEPT ![r] = q]
  BY <1>1 DEF Idle, Answers
<1> QED
  BY <1>2, FreshElsewhere, TurnRead

\* After a write of the one request in flight nobody is in flight.
LEMMA TurnWrites ==
  ASSUME IInv, InTurn, NEW r \in Request, request[r].step # "idle", Answers(r)
  PROVE  TurnInv'
<1>1. \A s \in Request : request'[s].step = "idle"
  BY DEF InTurn, Answers, Idle, IInv, TypeOK
<1> QED
  BY <1>1 DEF TurnInv, Fresh

\* A request that arrives has loaded nothing.
LEMMA TurnReceives ==
  ASSUME IInv, TurnInv, NEW r \in Request, NEW q, q.step \in {"guard", "slug", "context"},
         Receive(r, q)
  PROVE  TurnInv' /\ Kept
BY FreshElsewhere, TurnRead DEF Receive

LEMMA TurnArrives ==
  ASSUME IInv, TurnInv, NEW r \in Request, Arrival(r)
  PROVE  TurnInv' /\ Kept
<1>1. ASSUME NEW u \in User, NEW o \in Org, NEW op, NEW cols, NEW v, ReceiveEdit(r, u, o, op, cols, v)
      PROVE  TurnInv' /\ Kept
  <2>1. PICK q : q = [Idle EXCEPT !.op = op, !.step = "guard", !.org = o, !.user = u,
                                  !.cols = cols, !.value = v]
    OBVIOUS
  <2>2. q.step = "guard"
    BY <2>1 DEF Idle
  <2>3. Receive(r, q)
    BY <1>1, <2>1 DEF ReceiveEdit
  <2> QED
    BY <2>2, <2>3, TurnReceives
<1>2. ASSUME NEW u \in User, NEW b \in Base, ReceiveCreate(r, u, b)
      PROVE  TurnInv' /\ Kept
  <2>1. PICK q : q = [Idle EXCEPT !.op = "create", !.step = "slug", !.user = u, !.base = b]
    OBVIOUS
  <2>2. q.step = "slug"
    BY <2>1 DEF Idle
  <2>3. Receive(r, q)
    BY <1>2, <2>1 DEF ReceiveCreate
  <2> QED
    BY <2>2, <2>3, TurnReceives
<1>3. ASSUME NEW u \in User, NEW o \in Org, ReceiveOther(r, u, o)
      PROVE  TurnInv' /\ Kept
  <2>1. PICK q : q = [Idle EXCEPT !.op = "other", !.step = "context", !.user = u, !.org = o]
    OBVIOUS
  <2>2. q.step = "context"
    BY <2>1 DEF Idle
  <2>3. Receive(r, q)
    BY <1>3, <2>1 DEF ReceiveOther
  <2> QED
    BY <2>2, <2>3, TurnReceives
<1> QED
  BY <1>1, <1>2, <1>3 DEF Arrival

\* A request that has nothing to save yet goes on.
LEMMA TurnGoes ==
  ASSUME IInv, TurnInv, UNCHANGED org, NEW r \in Request,
         NEW step \in {"permission", "load", "delete", "insert"}, Goes(r, step)
  PROVE  TurnInv' /\ Kept
<1>1. PICK q : q = [request[r] EXCEPT !.step = step]
  OBVIOUS
<1>2. q.step = step
  BY <1>1 DEF IInv, TypeOK, RequestState
<1>3. request' = [request EXCEPT ![r] = q]
  BY <1>1 DEF Goes
<1> QED
  BY <1>2, <1>3, FreshElsewhere, TurnRead

\* The entity is loaded: it is the row, but for the columns of the patch.
LEMMA TurnLoads ==
  ASSUME IInv, TurnInv, NEW r \in Request, Load(r)
  PROVE  TurnInv' /\ Kept
<1>1. request[r] \in RequestState /\ UNCHANGED org
  BY DEF IInv, TypeOK, Load
<1> DEFINE cols == org[request[r].org].cols
<1>2. ASSUME NEW e, NEW step \in {"select", "upload"}, NEW v,
             request[r].org \in ActiveOrg, e \in {cols, Patched(request[r], cols)},
             request' = [request EXCEPT ![r].step = step, ![r].entity = e, ![r].value = v]
      PROVE  TurnInv' /\ Kept
  <2>1. PICK q : q = [request[r] EXCEPT !.step = step, !.entity = e, !.value = v]
    OBVIOUS
  <2>2. q.step = step /\ q.entity = e /\ q.org = request[r].org /\ q.cols = request[r].cols
    BY <1>1, <2>1 DEF RequestState
  <2>3. \A c \in Column \ q.cols : q.entity[c] = org[q.org].cols[c]
    BY <1>2, <2>2 DEF Patched
  <2>4. Fresh(q)
    BY <1>2, <2>2, <2>3 DEF Fresh
  <2>5. request' = [request EXCEPT ![r] = q]
    BY <1>2, <2>1
  <2> QED
    BY <1>1, <2>4, <2>5, TurnRead
<1>3. CASE Answers(r) \/ Goes(r, "delete")
  BY <1>1, <1>3, TurnAnswers, TurnGoes
<1>4. CASE request[r].org \in ActiveOrg /\ request' = [request EXCEPT
             ![r].step = "select", ![r].entity = Patched(request[r], cols), ![r].value = None]
  BY <1>2, <1>4
<1>5. CASE request[r].org \in ActiveOrg /\ request' = [request EXCEPT
             ![r].step = "upload", ![r].entity = cols]
  <2>1. PICK v : v = request[r].value
    OBVIOUS
  <2>2. request' = [request EXCEPT ![r].step = "upload", ![r].entity = cols, ![r].value = v]
    BY <1>1, <1>5, <2>1 DEF RequestState
  <2> QED
    BY <1>2, <1>5, <2>2
<1> QED
  BY <1>3, <1>4, <1>5 DEF Load

\* An upload sets a column it was asked to set.
LEMMA TurnUploads ==
  ASSUME IInv, TurnInv, NEW r \in Request, NEW f \in File, Upload(r, f)
  PROVE  TurnInv' /\ Kept
<1>1. request[r] \in RequestState /\ Fresh(request[r]) /\ request[r].step = "upload" /\ UNCHANGED org
  BY DEF IInv, TypeOK, TurnInv, Upload
<1>2. PICK e : e = [c \in Column |-> IF c \in request[r].cols THEN f ELSE request[r].entity[c]]
  OBVIOUS
<1>3. PICK q : q = [request[r] EXCEPT !.step = "select", !.entity = e]
  OBVIOUS
<1>4. request' = [request EXCEPT ![r] = q]
  BY <1>1, <1>2, <1>3 DEF Upload, Patched, RequestState
<1>5. q.step = "select" /\ q.entity = e /\ q.org = request[r].org /\ q.cols = request[r].cols
  BY <1>1, <1>3 DEF RequestState
<1>6. Fresh(q)
  BY <1>1, <1>2, <1>5 DEF Fresh
<1> QED
  BY <1>1, <1>4, <1>6, TurnRead

\* The SELECT finds the row as it was loaded, not deleted.
LEMMA TurnSelects ==
  ASSUME IInv, TurnInv, NEW r \in Request, SelectRow(r)
  PROVE  TurnInv' /\ Kept
<1>1. request[r] \in RequestState /\ Fresh(request[r]) /\ request[r].step = "select" /\ UNCHANGED org
  BY DEF IInv, TypeOK, TurnInv, SelectRow
<1> DEFINE set == {c \in Column : request[r].entity[c] # org[request[r].org].cols[c]}
                    \cup (IF org[request[r].org].deleted THEN {"deleted"} ELSE {})
<1>2. CASE set = {}
  BY <1>1, <1>2, TurnAnswers DEF SelectRow
<1>3. CASE set # {}
  <2>1. "deleted" \notin set
    BY <1>1, ColumnAssumption DEF Fresh, ActiveOrg
  <2>2. request' = [request EXCEPT ![r].step = "update", ![r].set = set]
    BY <1>3 DEF SelectRow
  <2> HIDE DEF set
  <2>3. PICK q : q = [request[r] EXCEPT !.step = "update", !.set = set]
    OBVIOUS
  <2>4. /\ q.step = "update" /\ q.set = set /\ q.entity = request[r].entity
        /\ q.org = request[r].org /\ q.cols = request[r].cols
    BY <1>1, <2>3 DEF RequestState
  <2>5. Fresh(q)
    BY <1>1, <2>1, <2>4 DEF Fresh
  <2>6. request' = [request EXCEPT ![r] = q]
    BY <2>2, <2>3
  <2> QED
    BY <1>1, <2>5, <2>6, TurnRead
<1> QED
  BY <1>2, <1>3

\* The UPDATE changes a row that is not deleted, in the columns of the patch.
LEMMA TurnUpdates ==
  ASSUME IInv, TurnInv, InTurn, NEW r \in Request, UpdateRow(r)
  PROVE  TurnInv' /\ Kept
<1>1. PICK q : q = request[r]
  OBVIOUS
<1>2. q \in RequestState /\ Fresh(q) /\ q.step = "update" /\ Answers(r)
  BY <1>1 DEF IInv, TypeOK, TurnInv, UpdateRow
<1>3. PICK o : o = q.org
  OBVIOUS
<1>4. o \in ActiveOrg /\ o \in Org /\ org[o] \in Row /\ ~org[o].deleted
  BY <1>2, <1>3 DEF Fresh, ActiveOrg, IInv, TypeOK
<1>5. \A p \in Org : p # o => org'[p] = org[p]
  BY <1>1, <1>3 DEF UpdateRow, IInv, TypeOK
<1>6. TurnInv'
  BY <1>1, <1>2, TurnWrites
<1>7. NoneRestored
  BY <1>4, <1>5 DEF NoneRestored
<1>8. ASSUME NEW c \in Column, org'[o].cols[c] # org[o].cols[c]
      PROVE  c \in q.cols
  <2>1. org' = [org EXCEPT
           ![o].cols = [d \in Column |-> IF d \in q.set THEN q.entity[d] ELSE @[d]],
           ![o].deleted = @ /\ "deleted" \notin q.set]
    BY <1>1, <1>3, <1>8 DEF UpdateRow
  <2>2. org'[o].cols = [d \in Column |-> IF d \in q.set THEN q.entity[d] ELSE org[o].cols[d]]
    BY <1>4, <2>1 DEF IInv, TypeOK, Row
  <2>3. q.entity[c] # org[o].cols[c]
    BY <1>8, <2>2
  <2> QED
    BY <1>2, <1>3, <2>3 DEF Fresh
<1>9. request'[r] # request[r]
  BY <1>1, <1>2, AnswerMoves
<1>10. OtherColumnsKept
  BY <1>1, <1>3, <1>5, <1>8, <1>9 DEF OtherColumnsKept
<1> QED
  BY <1>6, <1>7, <1>10 DEF Kept

\* A deletion leaves the columns alone and restores nothing.
LEMMA TurnDeletes ==
  ASSUME IInv, TurnInv, InTurn, NEW r \in Request, SoftDelete(r)
  PROVE  TurnInv' /\ Kept
<1>1. PICK o : o = request[r].org
  OBVIOUS
<1>2. RequestInv(request[r]) /\ request[r].step = "delete" /\ Answers(r)
  BY DEF IInv, SoftDelete
<1>3. o \in Org /\ org[o] \in Row
  BY <1>1, <1>2 DEF RequestInv, IInv, TypeOK
<1>4. PICK new : new = [org[o] EXCEPT !.deleted = TRUE]
  OBVIOUS
<1>5. new \in Row /\ new.deleted /\ new.cols = org[o].cols
  BY <1>3, <1>4 DEF Row
<1>6. \A p \in Org : org'[p] = IF p = o THEN new ELSE org[p]
  BY <1>1, <1>4 DEF SoftDelete, IInv, TypeOK
<1>7. new # None
  BY <1>5, NoneAssumption
<1>8. NoneRestored /\ OtherColumnsKept
  BY <1>5, <1>6, <1>7 DEF NoneRestored, OtherColumnsKept
<1>9. TurnInv'
  BY <1>2, TurnWrites
<1> QED
  BY <1>8, <1>9 DEF Kept

\* A creation writes a row that was not there.
LEMMA TurnInserts ==
  ASSUME IInv, TurnInv, InTurn, NEW r \in Request, NEW o \in Org, Insert(r, o)
  PROVE  TurnInv' /\ Kept
<1>1. \A p \in Org : org[p] # None => org'[p] = org[p]
  BY DEF Insert, IInv, TypeOK
<1>2. TurnInv'
  BY TurnWrites DEF Insert
<1> QED
  BY <1>1, <1>2 DEF Kept, NoneRestored, OtherColumnsKept

\* The search for a slug and the active organization.
LEMMA TurnElsewhere ==
  ASSUME IInv, TurnInv, NEW r \in Request, FindSlug(r) \/ ReadContext(r)
  PROVE  TurnInv' /\ Kept
<1>1. request[r] \in RequestState /\ UNCHANGED org /\ request[r].step \in {"slug", "context"}
  BY DEF IInv, TypeOK, FindSlug, ReadContext
<1>2. PICK active : active = IF <<request[r].org, request[r].user>> \in ActiveSeat
                             THEN request[r].org ELSE None
  OBVIOUS
<1>3. CASE Goes(r, "insert")
  BY <1>1, <1>3, TurnGoes
<1>4. CASE FindSlug(r) /\ request' = [request EXCEPT ![r].try = @ + 1]
  <2>1. PICK q : q = [request[r] EXCEPT !.try = request[r].try + 1]
    OBVIOUS
  <2>2. q.step = "slug" /\ request' = [request EXCEPT ![r] = q]
    BY <1>1, <1>4, <2>1 DEF FindSlug, RequestState
  <2> QED
    BY <1>1, <2>2, FreshElsewhere, TurnRead
<1>5. CASE request' = [request EXCEPT ![r].step = "handler", ![r].active = active]
  <2>1. PICK q : q = [request[r] EXCEPT !.step = "handler", !.active = active]
    OBVIOUS
  <2>2. q.step = "handler" /\ request' = [request EXCEPT ![r] = q]
    BY <1>1, <1>5, <2>1 DEF RequestState
  <2> QED
    BY <1>1, <2>2, FreshElsewhere, TurnRead
<1> QED
  BY <1>2, <1>3, <1>4, <1>5 DEF FindSlug, ReadContext

LEMMA NextTurn ==
  ASSUME IInv, TurnInv, InTurn, [Next]_vars
  PROVE  TurnInv' /\ Kept
<1>1. CASE UNCHANGED <<org, request>>
  BY <1>1, RowsStand DEF TurnInv, Fresh, ActiveOrg
<1>2. ASSUME NEW r \in Request, Progress(r) PROVE TurnInv' /\ Kept
  <2>1. CASE CheckPermission(r)
    <3>1. UNCHANGED org /\ (Goes(r, "permission") \/ Goes(r, "load") \/ Answers(r))
      BY <2>1 DEF CheckPermission
    <3> QED
      BY <3>1, TurnGoes, TurnAnswers
  <2>2. CASE Handle(r)
    BY <2>2, TurnAnswers DEF Handle
  <2> QED
    BY <1>2, <2>1, <2>2, TurnLoads, TurnUploads, TurnSelects, TurnUpdates, TurnDeletes, TurnInserts,
       TurnElsewhere DEF Progress
<1>3. ASSUME NEW r \in Request, Fail(r) PROVE TurnInv' /\ Kept
  BY <1>3, TurnAnswers DEF Fail
<1>4. ASSUME NEW r \in Request, Arrival(r) PROVE TurnInv' /\ Kept
  BY <1>4, TurnArrives
<1> QED
  BY <1>1, <1>2, <1>3, <1>4 DEF Next, ChangeMember, vars

\* Initially nobody has loaded anything.
LEMMA TurnInit == Init => TurnInv
<1> SUFFICES ASSUME Init PROVE TurnInv
  OBVIOUS
<1>1. request = [r \in Request |-> Idle]
  BY DEF Init
<1>2. \A r \in Request : request[r].step = "idle"
  BY <1>1 DEF Idle
<1> QED
  BY <1>2 DEF TurnInv, Fresh

\* What a step keeps, of all steps.
LEMMA InTurnKeeps == Spec /\ []InTurn => [][Kept]_vars
BY TurnInit, NextTurn, Invariant, PTL DEF Spec

\* While requests come one at a time, a deleted organization stays deleted.
THEOREM DeletedInTurn == Spec /\ []InTurn => DeletedStaysDeleted
<1>1. Kept => NoneRestored
  BY DEF Kept
<1>2. Spec /\ []InTurn => [][NoneRestored]_vars
  BY <1>1, InTurnKeeps, PTL
<1> QED
  BY <1>2 DEF DeletedStaysDeleted, NoneRestored

\* While requests come one at a time, an edit changes no column but those it
\* was asked to change.
THEOREM EditsInTurn == Spec /\ []InTurn => EditsKeepOtherColumns
<1>1. Kept => OtherColumnsKept
  BY DEF Kept
<1>2. Spec /\ []InTurn => [][OtherColumnsKept]_vars
  BY <1>1, InTurnKeeps, PTL
<1> QED
  BY <1>2 DEF EditsKeepOtherColumns, OtherColumnsKept
=============================================================================
