---------------------------- MODULE RequestPipeline -------------------------
(***************************************************************************)
(* One request on its way through the middleware, the guards and the use   *)
(* case, while the other requests go on changing the tables.               *)
(*                                                                         *)
(* What a step reads is a set of facts: rows that are there and not        *)
(* deleted.  Every read is a statement of its own and sees the facts of    *)
(* its moment; the facts change between any two of them.  The statements   *)
(* of the other requests are those of the modules on sessions, members,    *)
(* roles, permissions and organizations, one fact or set at a time.        *)
(***************************************************************************)
EXTENDS HttpErrors, Naturals, Ownership, Routes, Sequences

CONSTANTS User, Org, Role, Session,
          Owner,       \* the user of each session
          Level,       \* the hierarchy level of each role
          Sets,        \* the sets of permissions administrators write
          Resource,    \* records with an organization and a creator
          Served,      \* the names of the routes requests come for
          Start,       \* the sets of facts a request may find when it arrives
          MaxChanges,  \* bound: changes while the request is served
          Malformed,   \* an id that is no UUID
          None         \* no row, no cookie, no id

VARIABLES fact,     \* what the tables hold
          ever,     \* what they held at some moment since the request arrived
          kept,     \* what they held at every moment since
          changes,  \* how often they changed
          request   \* the request

vars == <<fact, ever, kept, changes, request>>

Code == UNION Sets

\* The facts that authorize: a session that is neither revoked nor expired, the
\* role of a member, a role, a permission of it, an organization, an
\* administrator of the platform.
LiveSession(s) == <<"session", s>>
Seat(u, o, i) == <<"seat", u, o, i>>
RoleExists(i) == <<"role", i>>
Grant(i, p) == <<"grant", i, p>>
OrgExists(o) == <<"org", o>>
Admin(u) == <<"admin", u>>

Fact ==
  {LiveSession(s) : s \in Session} \cup {Seat(u, o, i) : u \in User, o \in Org, i \in Role}
    \cup {RoleExists(i) : i \in Role} \cup {Grant(i, p) : i \in Role, p \in Code}
    \cup {OrgExists(o) : o \in Org} \cup {Admin(u) : u \in User}

\* A membership is one row, with one role.
OneSeat(facts, u, o) ==
  \A i, j \in Role : {Seat(u, o, i), Seat(u, o, j)} \subseteq facts => i = j

Id == Org \cup {Malformed}
Answer == [status : Nat, error : Error \cup {"none"}, access : Nat, logged : BOOLEAN,
           listed : SUBSET Org]

RequestState ==
  [route : Routes, todo : Seq(Step), session : Session \cup {None},
   cookie : Id \cup {None}, path : Id \cup {None},
   active : Org \cup {None},       \* the active organization of the context
   blind : BOOLEAN,                \* the context was not read, a statement failed
   role : Role \cup {None},        \* the role of the membership that was read
   seats : SUBSET (Org \X Role), at : (Org \X Role) \cup {None},
   pending : SUBSET Fact, found : BOOLEAN, listed : SUBSET Org,
   answer : Answer \cup {None}]

ASSUME OwnerAssumption == Owner \in [Session -> User]
ASSUME LevelAssumption == Level \in [Role -> {SELF, ORGANIZATION}]
ASSUME StartAssumption ==
  /\ Start \subseteq SUBSET Fact
  /\ \A facts \in Start, u \in User, o \in Org : OneSeat(facts, u, o)
ASSUME IdAssumption ==
  /\ Malformed \notin Org \cup {None}
  /\ None \notin User \cup Org \cup Session \cup (Org \X Role)
ASSUME ResourceAssumption ==
  /\ None # "default" /\ None \notin Resource
  /\ None \notin [user : User, organization : Org, level : {SELF, ORGANIZATION}]
ASSUME MaxChangesAssumption == MaxChanges \in Nat

InFlight == request.todo # <<>>

\* A request has a session if its access token is valid: the token names it.
Caller == IF request.session = None THEN None ELSE Owner[request.session]
-----------------------------------------------------------------------------
(* The others.                                                             *)

Becomes(facts) ==
  /\ InFlight /\ changes < MaxChanges /\ facts # fact
  /\ fact' = facts
  /\ ever' = ever \cup facts
  /\ kept' = kept \cap facts
  /\ changes' = changes + 1
  /\ UNCHANGED request

RevokeSession(s) == Becomes(fact \ {LiveSession(s)})

SeatsOf(u, o) == {f \in fact : \E i \in Role : f = Seat(u, o, i)}

\* Mutant: a change of role inserts a row.
InsertMemberRole(u, o, i) == SeatsOf(u, o) # {} /\ Becomes(fact \cup {Seat(u, o, i)})

\* A change of role writes the one row the membership has.
ChangeMemberRole(u, o, i) ==
  SeatsOf(u, o) # {} /\ Becomes((fact \ SeatsOf(u, o)) \cup {Seat(u, o, i)})
RemoveMember(u, o) == Becomes(fact \ SeatsOf(u, o))

DeleteRole(i) == Becomes(fact \ {RoleExists(i)})
DeleteOrganization(o) == Becomes(fact \ {OrgExists(o)})

\* The save of an entity that was loaded before its row was deleted.
RestoreRole(i) == Becomes(fact \cup {RoleExists(i)})
RestoreOrganization(o) == Becomes(fact \cup {OrgExists(o)})

ReplacePermissions(i, codes) ==
  Becomes((fact \ {Grant(i, p) : p \in Code}) \cup {Grant(i, p) : p \in codes})

\* At the boot of a process; the flag is taken away by hand.
SeedAdmin(u) == Becomes(fact \cup {Admin(u)})
WithdrawAdmin(u) == Becomes(fact \ {Admin(u)})
-----------------------------------------------------------------------------
(* The request.                                                            *)

Current(step) == InFlight /\ Head(request.todo) = step

Unchanged == UNCHANGED <<fact, ever, kept, changes>>

Goes(changed) == request' = [changed EXCEPT !.todo = Tail(@)] /\ Unchanged

\* The interceptor runs behind the guards, around the pipes and the handler.
Intercepted == \A n \in 2..Len(request.todo) : request.todo[n] # "pipes"

\* An error ends the request wherever it is raised.
Refuse(e) ==
  /\ request' = [request EXCEPT !.todo = <<>>,
       !.answer = [status |-> AnswerStatus(e, request.route.filters), error |-> e,
                   access |-> IF Intercepted THEN LoggedStatus(e) ELSE 0,
                   logged |-> LogsError(e, request.route.filters), listed |-> {}]]
  /\ Unchanged

Passes(condition, e) == IF condition THEN Goes(request) ELSE Refuse(e)

\* Mutant: the active organization is any the user is a member of.
ReadContextAny ==
  /\ Current("context")
  /\ \E o \in Org \cup {None} :
       /\ o # None <=> Caller # None /\ \E q \in Org, i \in Role : Seat(Caller, q, i) \in fact
       /\ o # None => \E i \in Role : Seat(Caller, o, i) \in fact
       /\ Goes([request EXCEPT !.active = o])

\* AuthContextMiddleware.use: the active organization is the one of the cookie,
\* if the user is a member of it.
ReadContext ==
  LET member == /\ Caller # None
                /\ \E i \in Role : Seat(Caller, request.cookie, i) \in fact
  IN  /\ Current("context")
      /\ Goes([request EXCEPT !.active = IF member THEN request.cookie ELSE None])

\* A membership that cannot be read is no membership.
LoseContext ==
  /\ Current("context") /\ Caller # None /\ request.cookie # None
  /\ Goes([request EXCEPT !.blind = TRUE])

Throttle == Current("throttle") /\ \E free \in BOOLEAN : Passes(free, "TooManyRequests")

AskGoogle == Current("google") /\ \E known \in BOOLEAN : Passes(known, "Unauthorized")

\* JwtStrategy.validate; users are never deleted.
ReadSession ==
  /\ Current("session")
  /\ Passes(request.session # None /\ LiveSession(request.session) \in fact, "Unauthorized")

CheckActiveOrg ==
  /\ Current("activeOrg")
  /\ Passes(request.active # None /\ request.path \in {request.active, None}, "Forbidden")

\* Mutant: the organization the user works in goes before that of the path.
ActiveFirst == IF request.active = None THEN request.path ELSE request.active

\* The guard asks about the organization of the path, or else the active one;
\* the use case about that of the path.
Organization == IF request.path = None THEN request.active ELSE request.path
Denied == IF Intercepted /\ request.route.use # "effectivePermissions"
          THEN "PermissionDenied" ELSE "Forbidden"
Need == IF Intercepted THEN UseCase[request.route.use].need ELSE request.route.need

\* findMembershipRole: the membership, then its role.  An id that is no UUID
\* fails the statement.
ReadSeat ==
  LET seats == {i \in Role : Seat(Caller, Organization, i) \in fact}
  IN  /\ Current("seat")
      /\ IF Organization = Malformed THEN Refuse("QueryFailed")
         ELSE IF seats = {} THEN Refuse(Denied)
         ELSE Goes([request EXCEPT !.role = CHOOSE i \in seats : TRUE])

ReadRole == Current("role") /\ Passes(RoleExists(request.role) \in fact, Denied)

ReadCodes ==
  /\ Current("codes")
  /\ Passes(Need = "none" \/ Grant(request.role, Need) \in fact, Denied)

\* PlatformAdminGuard: the flag as it is now, whatever the session says.
ReadAdmin == Current("admin") /\ Passes(Admin(Caller) \in fact, "Forbidden")

\* The body may be malformed; an id of the path that is no UUID is refused.
Pipes ==
  /\ Current("pipes")
  /\ \/ Refuse("BadRequest")
     \/ request.path # Malformed /\ Goes(request)

ValidateImage ==
  /\ Current("image")
  /\ Goes(request) \/ \E e \in ImageErrors : Refuse(e)

FindOrganization ==
  /\ Current("organization")
  /\ Passes(OrgExists(request.path) \in fact, "OrganizationNotFound")

\* ListMyOrganizations: the memberships; for one after the other, at once, its
\* organization and its role.
ReadSeats ==
  /\ Current("seats")
  /\ Goes([request EXCEPT !.seats = {p \in Org \X Role : Seat(Caller, p[1], p[2]) \in fact}])

OpenSeat(p) ==
  /\ Current("listing") /\ request.at = None /\ p \in request.seats
  /\ request' = [request EXCEPT !.seats = @ \ {p}, !.at = p, !.found = TRUE,
                                !.pending = {OrgExists(p[1]), RoleExists(p[2])}]
  /\ Unchanged

\* Mutant: an organization or a role that is gone ends the listing.
LookAndStop(f) ==
  LET found == request.found /\ f \in fact
  IN  /\ f \in request.pending
      /\ request' = IF request.pending = {f}
                    THEN [request EXCEPT !.pending = {}, !.at = None, !.found = FALSE,
                            !.seats = IF found THEN @ ELSE {},
                            !.listed = IF found THEN @ \cup {request.at[1]} ELSE @]
                    ELSE [request EXCEPT !.pending = @ \ {f}, !.found = found]
      /\ Unchanged

Look(f) ==
  LET found == request.found /\ f \in fact
  IN  /\ f \in request.pending
      /\ request' = IF request.pending = {f}
                    THEN [request EXCEPT !.pending = {}, !.at = None, !.found = FALSE,
                            !.listed = IF found THEN @ \cup {request.at[1]} ELSE @]
                    ELSE [request EXCEPT !.pending = @ \ {f}, !.found = found]
      /\ Unchanged

EndListing ==
  /\ Current("listing") /\ request.at = None /\ request.seats = {}
  /\ Goes(request)

\* The rest of the use case succeeds or raises one of its errors.
Finish ==
  /\ Current("work")
  /\ \/ \E e \in UseCase[request.route.use].raises : Refuse(e)
     \/ /\ request' = [request EXCEPT !.todo = <<>>,
             !.answer = [status |-> 200, error |-> "none", access |-> 200,
                         logged |-> FALSE, listed |-> request.listed]]
        /\ Unchanged

\* A statement or a call that fails, wherever one is made.
FailStatement ==
  /\ \E step \in {"google", "session", "seat", "role", "codes", "admin", "organization",
                  "seats", "listing", "work"} : Current(step)
  /\ ~(Current("work") /\ request.route.use \in Swallows)
  /\ Refuse("QueryFailed")
-----------------------------------------------------------------------------
Arriving(route, session, cookie, path) ==
  [route |-> route, todo |-> Plan(route), session |-> session, cookie |-> cookie,
   path |-> path, active |-> None, blind |-> FALSE, role |-> None, seats |-> {},
   at |-> None, pending |-> {}, found |-> FALSE, listed |-> {}, answer |-> None]

\* A request of anyone, for anything, with any cookie that was ever set.
Init ==
  /\ fact \in Start /\ ever = fact /\ kept = fact /\ changes = 0
  /\ \E route \in {x \in Routes : x.name \in Served}, session \in Session \cup {None},
        cookie \in Id \cup {None} :
       \E path \in IF route.path THEN Id ELSE {None} :
         request = Arriving(route, session, cookie, path)

Change ==
  \/ \E s \in Session : RevokeSession(s)
  \/ \E u \in User, o \in Org : RemoveMember(u, o) \/ \E i \in Role : ChangeMemberRole(u, o, i)
  \/ \E i \in Role : DeleteRole(i) \/ RestoreRole(i)
                     \/ \E codes \in Sets : ReplacePermissions(i, codes)
  \/ \E o \in Org : DeleteOrganization(o) \/ RestoreOrganization(o)
  \/ \E u \in User : SeedAdmin(u) \/ WithdrawAdmin(u)

Serve ==
  \/ ReadContext \/ LoseContext \/ Throttle \/ AskGoogle \/ ReadSession \/ CheckActiveOrg
  \/ ReadSeat \/ ReadRole \/ ReadCodes \/ ReadAdmin \/ Pipes \/ ValidateImage
  \/ FindOrganization \/ ReadSeats
  \/ \E p \in request.seats : OpenSeat(p)
  \/ \E f \in request.pending : Look(f)
  \/ EndListing \/ Finish \/ FailStatement

Next == Change \/ Serve

Spec == Init /\ [][Next]_vars
-----------------------------------------------------------------------------
(* Properties.                                                             *)

\* The facts and the request have their types, a membership has one role.
TypeOK ==
  /\ fact \in SUBSET Fact /\ ever \in SUBSET Fact /\ kept \in SUBSET Fact
  /\ kept \subseteq fact /\ fact \subseteq ever
  /\ \A u \in User, o \in Org : OneSeat(fact, u, o)
  /\ changes \in 0..MaxChanges
  /\ DOMAIN request = DOMAIN Arriving(request.route, None, None, None)
  /\ request.route \in Routes
  /\ request.role \in Role \cup {None} /\ request.active \in Org \cup {None}
  /\ request.seats \subseteq Org \X Role /\ request.pending \subseteq Fact
  /\ request.listed \subseteq Org
  /\ request.answer # None => request.answer \in [
       status : {200, 400, 401, 403, 404, 409, 413, 429, 500}, error : Error \cup {"none"},
       access : {0, 200, 400, 401, 403, 404, 409, 429, 500}, logged : BOOLEAN,
       listed : SUBSET Org]

Answered == request.answer # None

\* What a caller holds, according to a set of facts.
Member(facts, o) == \E i \in Role : Seat(Caller, o, i) \in facts
May(facts, o, need) ==
  \E i \in Role : /\ {Seat(Caller, o, i), RoleExists(i)} \subseteq facts
                  /\ need = "none" \/ Grant(i, need) \in facts

Asks(step) == \E n \in DOMAIN request.route.guards : request.route.guards[n] = step
AsksTwice == UseCase[request.route.use].need # "none"
             \/ request.route.use = "effectivePermissions"

\* The guards of the route let the caller pass, according to the facts.
Admitted(facts) ==
  /\ Asks("session") => request.session # None /\ LiveSession(request.session) \in facts
  /\ Asks("activeOrg") => request.path = request.cookie /\ Member(facts, request.path)
  /\ Asks("seat") => May(facts, request.path, request.route.need)
  /\ Asks("admin") => Admin(Caller) \in facts

\* And so does its use case.
Authorized(facts) ==
  /\ Admitted(facts)
  /\ AsksTwice => May(facts, request.path, UseCase[request.route.use].need)

\* Who never held, while the request was served, the session, the membership,
\* the permission or the flag the route asks for gets no further than the
\* guards, and does not learn from the answer whether an organization exists.
StrangersLearnNothing ==
  Answered =>
    /\ request.answer.access # 0 => Admitted(ever)
    /\ request.answer.status \notin {400, 401, 403, 429, 500} => Authorized(ever)

\* The organization the path names, where it names one, is not deleted.
PathStands(facts) == request.path = None \/ OrgExists(request.path) \in facts

\* Who held all of it throughout, in an organization that stood throughout, is
\* not turned away, although guards and use case read it several times while it
\* changes for others, unless the context could not be read.  Of the members of
\* a deleted organization it says nothing: they are to be refused.
EntitledAreServed ==
  Answered /\ Asks("session") /\ Authorized(kept) /\ PathStands(kept) /\ ~request.blind =>
    request.answer.status \notin {401, 403}

\* A listing names the organizations in which the user kept a role, and none
\* in which the user never had one.
ListingHasWhatStood ==
  Answered /\ request.answer.error = "none" /\ request.route.use \in {"listMyOrganizations", "getOnboardingStatus"} =>
    \A o \in Org :
      /\ May(kept, o, "none") /\ OrgExists(o) \in kept => o \in request.answer.listed
      /\ o \in request.answer.listed => May(ever, o, "none") /\ OrgExists(o) \in ever

\* Every route has the filters its errors need: a domain error is answered with
\* the status it declares; the server errors, and no other, are in the error log.
AnswersTellTheError ==
  Answered /\ request.answer.error # "none" =>
    /\ request.answer.error \in DomainError =>
         request.answer.status = DomainStatus(request.answer.error)
    /\ request.answer.logged <=> request.answer.status >= 500

\* The context in which a member touches the resources of an organization.
Context(u, o) ==
  {[user |-> u, organization |-> o, level |-> Level[i]] :
     i \in {j \in Role : {Seat(u, o, j), RoleExists(j)} \subseteq fact}}

\* A listing narrowed for a member returns the resources the validator would
\* let them touch one by one, and no other.
ScopeAdmitsWhatIsOwned ==
  \A u \in User, o \in Org : \A context \in Context(u, o) :
    Scope(Resource, context) =
      {x \in Resource : CheckOwnership(<<>>, "default", "any", context, x, None) = "none"}

\* The documentation of the module auth: the email that is taken is answered
\* with 409.  The filter for all exceptions is asked first and answers 500.
DuplicateEmailIsConflict ==
  Answered /\ request.answer.error = "DuplicateEmail" => request.answer.status = 409
=============================================================================
