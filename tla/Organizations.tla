---------------------------- MODULE Organizations ---------------------------
(***************************************************************************)
(* The organizations (the tenants): creating one under a slug of its own,  *)
(* editing its branding, uploading its images, deleting it, and the        *)
(* active organization a request is given from its cookie.                 *)
(*                                                                         *)
(* Every step below is one statement or one call of the object store; only *)
(* the insert of an organization with its owner is a transaction.  An edit *)
(* saves the entity it loaded: a SELECT of the row, deleted or not, then   *)
(* an UPDATE of every column in which the entity differs from it.          *)
(***************************************************************************)
EXTENDS Naturals

CONSTANTS Org,        \* the UUIDs an organization can get (bounds their number)
          User,       \* users
          Base,       \* what slugify makes of the names
          Candidate,  \* the candidates of each base: base, base-2, base-3, ...
          Tries,      \* how many candidates there are; more than organizations
          Name,       \* the column of the name
          Brand,      \* the columns of the branding, the name among them
          Image,      \* columns of the images
          Text,       \* values of the branding
          File,       \* the keys an upload can get (bounds the uploads)
          Request,    \* request slots
          None        \* no row, no value

VARIABLES org,      \* the row of each organization id, or None
          rank,     \* the membership of each seat
          stored,   \* the files in the object store
          request   \* what each slot is doing

vars == <<org, rank, stored, request>>

Seat == Org \X User
Slug == {Candidate[b][n] : b \in Base, n \in 1..Tries}
Column == Brand \cup Image
Value == Text \cup File \cup {None}
Row == [slug: Slug, cols: [Column -> Value], deleted: BOOLEAN]
Rank == {"none", "owner", "admin", "staff", "removed"}

Op == {"none", "create", "update", "image", "delete", "other"}
Step == {"idle", "guard", "permission", "load", "upload", "select", "update", "delete",
         "slug", "insert", "context", "handler"}

RequestState == [op: Op, step: Step, org: Org \cup {None}, user: User \cup {None},
                 base: Base \cup {None}, try: 1..Tries, cols: SUBSET Column,
                 value: Value, entity: [Column -> Value] \cup {None},
                 set: SUBSET (Column \cup {"deleted"}),
                 active: Org \cup {None}]

ASSUME NoneAssumption == None \notin Row \cup [Column -> Value] \cup Org \cup User \cup Base
ASSUME ColumnAssumption == 
  Name \in Brand /\ Brand \cap Image = {} /\ "deleted" \notin Column
ASSUME FileAssumption == File \cap (Text \cup {None}) = {}
ASSUME CandidateAssumption ==
  /\ Tries \in Nat \ {0}
  /\ \A b \in Base : \A m, n \in 1..Tries : Candidate[b][m] = Candidate[b][n] => m = n

Idle == [op |-> "none", step |-> "idle", org |-> None, user |-> None, base |-> None,
         try |-> 1, cols |-> {}, value |-> None, entity |-> None, set |-> {},
         active |-> None]

\* What the queries of the repositories see.
ActiveOrg == {o \in Org : org[o] # None /\ ~org[o].deleted}
ActiveSeat == {p \in Seat : rank[p] \notin {"none", "removed"}}
SlugTaken(s) == \E o \in ActiveOrg : org[o].slug = s

\* The seeded roles: owners and administrators update, owners delete.
Granted(p, op) == rank[p] = "owner" \/ (op # "delete" /\ rank[p] = "admin")

\* A database with any organizations in use, each with its owner and members.
Init ==
  /\ \E slug \in [Org -> Slug \cup {None}], owner \in [Org -> User], text \in [Column -> Value] :
       /\ text[Name] \in Text /\ \A c \in Column \ {Name} : text[c] = None
       /\ \A o, q \in Org : slug[o] # None /\ slug[o] = slug[q] => o = q
       /\ org = [o \in Org |-> IF slug[o] = None THEN None
                               ELSE [slug |-> slug[o], cols |-> text, deleted |-> FALSE]]
       /\ \E other \in [Seat -> {"none", "admin", "staff", "removed"}] :
            rank = [p \in Seat |-> IF slug[p[1]] = None THEN "none"
                                   ELSE IF owner[p[1]] = p[2] THEN "owner" ELSE other[p]]
  /\ stored = {}
  /\ request = [r \in Request |-> Idle]

Receive(r, q) ==
  /\ request[r].step = "idle"
  /\ request' = [request EXCEPT ![r] = q]
  /\ UNCHANGED <<org, rank, stored>>

Goes(r, step) == request' = [request EXCEPT ![r].step = step]
Answers(r) == request' = [request EXCEPT ![r] = Idle]
-----------------------------------------------------------------------------
(* Editing and deleting an organization.                                   *)

\* PATCH /organizations/:id, the image uploads and DELETE /organizations/:id.
ReceiveEdit(r, u, o, op, cols, v) ==
  /\ \/ op = "update" /\ cols \subseteq Brand
        /\ v \in Text \cup {None} /\ (cols = {} => v = None) /\ (Name \in cols => v # None)
     \/ op = "image" /\ (\E c \in Image : cols = {c}) /\ v = None
     \/ op = "delete" /\ cols = {} /\ v = None
  /\ Receive(r, [Idle EXCEPT !.op = op, !.step = "guard", !.org = o, !.user = u,
                             !.cols = cols, !.value = v])

\* Mutant: the permission is looked for in any organization of the caller.
CheckPermissionAnywhere(r) ==
  LET q == request[r]
  IN  /\ q.step \in {"guard", "permission"}
      /\ IF \E o \in Org : Granted(<<o, q.user>>, q.op)
         THEN Goes(r, IF q.step = "guard" THEN "permission" ELSE "load")
         ELSE Answers(r)
      /\ UNCHANGED <<org, rank, stored>>

\* The guard and then the use case ask for the permission in the organization
\* of the path.
CheckPermission(r) ==
  LET q == request[r]
  IN  /\ q.step \in {"guard", "permission"}
      /\ IF Granted(<<q.org, q.user>>, q.op)
         THEN Goes(r, IF q.step = "guard" THEN "permission" ELSE "load")
         ELSE Answers(r)
      /\ UNCHANGED <<org, rank, stored>>

Patched(q, cols) == [c \in Column |-> IF c \in q.cols THEN q.value ELSE cols[c]]

\* Mutant: an update resets the columns the patch leaves undefined.
LoadResets(r) ==
  LET q == request[r]
  IN  /\ q.step = "load"
      /\ IF q.org \notin ActiveOrg THEN Answers(r)
         ELSE IF q.op = "delete" THEN Goes(r, "delete")
         ELSE request' = [request EXCEPT ![r].step = IF q.op = "image" THEN "upload" ELSE "select",
                            ![r].entity = [c \in Column |-> IF c \in q.cols THEN q.value ELSE None]]
      /\ UNCHANGED <<org, rank, stored>>

\* Mutant: an organization that is not found is patched all the same.
LoadUnchecked(r) ==
  LET q == request[r]
  IN  /\ q.step = "load"
      /\ request' = [request EXCEPT
           ![r].step = CHOOSE s \in Step : <<q.op, s>> \in
                         {<<"delete", "delete">>, <<"update", "select">>, <<"image", "upload">>},
           ![r].entity = IF q.org \notin ActiveOrg THEN None
                         ELSE IF q.op = "update" THEN Patched(q, org[q.org].cols)
                         ELSE org[q.org].cols]
      /\ UNCHANGED <<org, rank, stored>>

\* Mutant: the organization is looked up among the deleted ones too.
LoadDeleted(r) ==
  LET q == request[r]
  IN  /\ q.step = "load"
      /\ IF org[q.org] = None THEN Answers(r)
         ELSE IF q.op = "delete" THEN Goes(r, "delete")
         ELSE request' = [request EXCEPT ![r].step = "update", ![r].set = q.cols \cup {"deleted"},
                            ![r].entity = Patched(q, org[q.org].cols)]
      /\ UNCHANGED <<org, rank, stored>>

\* The entity is loaded and, for an update, patched.
Load(r) ==
  LET q == request[r]
      entity == Patched(q, org[q.org].cols)
  IN  /\ q.step = "load"
      /\ \/ q.org \notin ActiveOrg /\ Answers(r)
         \/ q.org \in ActiveOrg /\ q.op = "delete" /\ Goes(r, "delete")
         \/ /\ q.org \in ActiveOrg /\ q.op = "update"
            /\ request' = [request EXCEPT ![r].step = "select", ![r].entity = entity, ![r].value = None]
         \/ /\ q.org \in ActiveOrg /\ q.op = "image"
            /\ request' = [request EXCEPT ![r].step = "upload", ![r].entity = org[q.org].cols]
      /\ UNCHANGED <<org, rank, stored>>

\* Mutant: the row is saved without waiting for the upload.
UploadLater(r, f) ==
  /\ request[r].step = "upload" /\ f \notin stored
  /\ request' = [request EXCEPT ![r].step = "select",
       ![r].entity = Patched([request[r] EXCEPT !.value = f], @)]
  /\ UNCHANGED <<org, rank, stored>>

\* The file is stored under a new key, then the column of the entity set to it.
Upload(r, f) ==
  /\ request[r].step = "upload"
  /\ f \notin stored
  /\ stored' = stored \cup {f}
  /\ request' = [request EXCEPT ![r].step = "select",
       ![r].entity = Patched([request[r] EXCEPT !.value = f], @)]
  /\ UNCHANGED <<org, rank>>

\* The SELECT of save.
SelectRow(r) ==
  LET q == request[r]
      set == {c \in Column : q.entity[c] # org[q.org].cols[c]}
               \cup (IF org[q.org].deleted THEN {"deleted"} ELSE {})
  IN  /\ q.step = "select"
      /\ IF set = {} THEN Answers(r)
         ELSE request' = [request EXCEPT ![r].step = "update", ![r].set = set]
      /\ UNCHANGED <<org, rank, stored>>

\* Mutant: the index on the slug does not look at restored rows.
UpdateRowUnchecked(r) ==
  LET q == request[r]
  IN  /\ q.step = "update"
      /\ org' = [org EXCEPT
           ![q.org].cols = [c \in Column |-> IF c \in q.set THEN q.entity[c] ELSE @[c]],
           ![q.org].deleted = @ /\ "deleted" \notin q.set]
      /\ Answers(r) /\ UNCHANGED <<rank, stored>>

\* The UPDATE of save; the index on the slug refuses to restore a row whose
\* slug has been taken meanwhile.
UpdateRow(r) ==
  LET q == request[r]
      restores == org[q.org].deleted /\ "deleted" \in q.set
  IN  /\ q.step = "update"
      /\ \/ /\ ~(restores /\ SlugTaken(org[q.org].slug))
            /\ org' = [org EXCEPT
                 ![q.org].cols = [c \in Column |-> IF c \in q.set THEN q.entity[c] ELSE @[c]],
                 ![q.org].deleted = @ /\ "deleted" \notin q.set]
         \/ restores /\ SlugTaken(org[q.org].slug) /\ UNCHANGED org
      /\ Answers(r)
      /\ UNCHANGED <<rank, stored>>

\* The memberships of the organization stay.
SoftDelete(r) ==
  /\ request[r].step = "delete"
  /\ org' = [org EXCEPT ![request[r].org].deleted = TRUE]
  /\ Answers(r)
  /\ UNCHANGED <<rank, stored>>
-----------------------------------------------------------------------------
(* Creating an organization.                                               *)

ReceiveCreate(r, u, b) ==
  Receive(r, [Idle EXCEPT !.op = "create", !.step = "slug", !.user = u, !.base = b])

CandidateOf(r) == Candidate[request[r].base][request[r].try]

\* Mutant: the suffix is not increased.
FindSlugSame(r) ==
  /\ request[r].step = "slug"
  /\ Goes(r, IF SlugTaken(CandidateOf(r)) THEN "slug" ELSE "insert")
  /\ UNCHANGED <<org, rank, stored>>

\* One look-up of the loop that derives the slug.
FindSlug(r) ==
  /\ request[r].step = "slug"
  /\ \/ ~SlugTaken(CandidateOf(r)) /\ Goes(r, "insert")
     \/ /\ SlugTaken(CandidateOf(r)) /\ request[r].try < Tries
        /\ request' = [request EXCEPT ![r].try = @ + 1]
  /\ UNCHANGED <<org, rank, stored>>

\* The organization and its owner's membership, in one transaction, which the
\* index on the slug aborts if the slug has been taken meanwhile.
Insert(r, o) ==
  LET s == CandidateOf(r)
  IN  /\ request[r].step = "insert"
      /\ org[o] = None
      /\ \/ /\ ~SlugTaken(s)
            /\ \E t \in Text :
                 org' = [org EXCEPT ![o] = [slug |-> s, deleted |-> FALSE,
                           cols |-> [c \in Column |-> IF c = Name THEN t ELSE None]]]
            /\ rank' = [rank EXCEPT ![<<o, request[r].user>>] = "owner"]
         \/ SlugTaken(s) /\ UNCHANGED <<org, rank>>
      /\ Answers(r)
      /\ UNCHANGED stored
-----------------------------------------------------------------------------
(* The active organization.                                                *)

\* A request of u with a cookie that names o: its own, an old or a forged one.
ReceiveOther(r, u, o) ==
  Receive(r, [Idle EXCEPT !.op = "other", !.step = "context", !.user = u, !.org = o])

\* The middleware trusts the cookie after looking the membership up.
ReadContext(r) ==
  LET q == request[r]
  IN  /\ q.step = "context"
      /\ request' = [request EXCEPT ![r].step = "handler",
           ![r].active = IF <<q.org, q.user>> \in ActiveSeat THEN q.org ELSE None]
      /\ UNCHANGED <<org, rank, stored>>

\* What runs behind it: the guard of the active organization, the onboarding
\* status, the members' requests; none of it writes to these tables.
Handle(r) ==
  /\ request[r].step = "handler"
  /\ Answers(r)
  /\ UNCHANGED <<org, rank, stored>>
-----------------------------------------------------------------------------
\* The requests of the members' component, which leave the owner alone.
ChangeMember(p, k) ==
  /\ rank[p] \notin {"none", "owner"}
  /\ rank' = [rank EXCEPT ![p] = k]
  /\ UNCHANGED <<org, stored, request>>

\* The process dies, or a call fails: a file that was stored stays.
Fail(r) ==
  /\ request[r].step # "idle"
  /\ Answers(r)
  /\ UNCHANGED <<org, rank, stored>>

Arrival(r) ==
  \E u \in User :
    \/ \E o \in Org, op \in {"update", "image", "delete"}, cols \in SUBSET Column, v \in Text \cup {None} :
         ReceiveEdit(r, u, o, op, cols, v)
    \/ \E b \in Base : ReceiveCreate(r, u, b)
    \/ \E o \in Org : ReceiveOther(r, u, o)

Progress(r) ==
  \/ CheckPermission(r) \/ Load(r) \/ \E f \in File : Upload(r, f)
  \/ SelectRow(r) \/ UpdateRow(r) \/ SoftDelete(r)
  \/ FindSlug(r) \/ \E o \in Org : Insert(r, o)
  \/ ReadContext(r) \/ Handle(r)

Next ==
  \/ \E p \in Seat, k \in {"admin", "staff", "removed"} : ChangeMember(p, k)
  \/ \E r \in Request : Arrival(r) \/ Progress(r) \/ Fail(r)

Spec == Init /\ [][Next]_vars

\* Every accepted request is served; clients, failures and members' changes
\* come when they please.
FairSpec == Spec /\ \A r \in Request : WF_vars(Progress(r))
-----------------------------------------------------------------------------
(* Properties.                                                             *)

\* The tables, the store and the requests have their types, and what is saved
\* was loaded.
TypeOK ==
  /\ org \in [Org -> Row \cup {None}]
  /\ rank \in [Seat -> Rank]
  /\ stored \subseteq File
  /\ request \in [Request -> RequestState]
  /\ \A r \in Request : request[r].step \in {"upload", "select", "update"} => request[r].entity # None

\* Two organizations in use never have one slug, though the slug is looked up
\* before it is taken and a stale save may restore a deleted row.
ActiveSlugsUnique ==
  \A o, q \in ActiveOrg : org[o].slug = org[q].slug => o = q

\* An image column names a file of the store: whatever fails or is saved from
\* a stale entity, no organization shows an image that was never uploaded.
ImagesAreStored ==
  \A o \in Org : org[o] # None =>
    \A c \in Image : org[o].cols[c] \in stored \cup {None}

\* The row of an organization is written only by requests of users who have a
\* membership in that organization, present or past: a permission held in one
\* tenant never reaches another.
TenantWritesByMembers ==
  [][\A o \in Org : org[o] # None /\ org'[o] # org[o] =>
       \E r \in Request : /\ request'[r] # request[r] /\ request[r].org = o
                          /\ rank[<<o, request[r].user>>] # "none"]_vars

\* A deleted organization stays deleted.  It holds while requests come one at
\* a time; the save of a stale entity restores the row otherwise.
DeletedStaysDeleted ==
  [][\A o \in Org :
       org[o] # None /\ org[o].deleted => org'[o] # None /\ org'[o].deleted]_vars

\* A request changes only the columns it was asked to change.  It holds while
\* requests come one at a time; a stale entity undoes other edits otherwise.
EditsKeepOtherColumns ==
  [][\A o \in Org, c \in Column :
       org[o] # None /\ org'[o].cols[c] # org[o].cols[c] =>
         \E r \in Request : request'[r] # request[r] /\ request[r].org = o /\ c \in request[r].cols]_vars

\* The loop that derives the slug of a new organization ends, though others are
\* created, deleted and restored while it runs.
DerivationEnds ==
  \A r \in Request : request[r].step = "slug" ~> request[r].step # "slug"
=============================================================================
