------------------------------ MODULE HttpErrors ----------------------------
(***************************************************************************)
(* From an error to the answer: the errors the program raises, the filters *)
(* that turn them into a status, and the log entries they leave.  The      *)
(* framework asks the filters of the controller first, then the global     *)
(* ones, the one registered last before the others; the first that catches *)
(* the error answers.                                                      *)
(***************************************************************************)
EXTENDS Naturals, Sequences

\* The domain errors declare the status they are to be answered with.
MembershipErrors == [DuplicateMembership |-> 409, MembershipNotFound |-> 404, SoleOwner |-> 409,
                     CannotChangeOwnRole |-> 409, UnknownRole |-> 404,
                     OwnerRoleNotAssignable |-> 409]
RoleErrors == [RoleNotFound |-> 404, RoleKeyConflict |-> 409, RoleInUse |-> 409,
               OwnerRoleProtected |-> 409]
PermissionErrors == [PermissionDenied |-> 403, UnknownPermission |-> 400]
StorageErrors == [InvalidFileType |-> 400, FileTooLarge |-> 413, MissingFile |-> 400]
OrganizationErrors == [OrganizationNotFound |-> 404, SlugTaken |-> 409]

Declared == <<MembershipErrors, RoleErrors, PermissionErrors, StorageErrors, OrganizationErrors>>

DomainError == UNION {DOMAIN Declared[n] : n \in DOMAIN Declared}
DomainStatus(e) == LET n == CHOOSE k \in DOMAIN Declared : e \in DOMAIN Declared[k]
                   IN  Declared[n][e]

\* The errors about users are older than DomainError and declare nothing.
UserError == {"DuplicateEmail", "UserNotFound"}

\* HTTP exceptions of the framework, of guards, pipes and controllers.
HttpException == [BadRequest |-> 400, Unauthorized |-> 401, Forbidden |-> 403,
                  NotFound |-> 404, TooManyRequests |-> 429]

\* What a statement can end with: a unique index, or any other failure.
QueryError == {"UniqueViolation", "QueryFailed"}

Error == DomainError \cup UserError \cup DOMAIN HttpException \cup QueryError
-----------------------------------------------------------------------------
\* AllExceptionsFilter.resolve.
Resolve(e) ==
  IF e \in DOMAIN HttpException THEN HttpException[e]
  ELSE IF e = "UniqueViolation" THEN 409
  ELSE 500

\* The filter of the module auth, by type of error.
ResolveUserError(e) == IF e = "DuplicateEmail" THEN 409 ELSE 404

Catches(filter, e) ==
  CASE filter = "domain" -> e \in DomainError
    [] filter = "auth"   -> e \in UserError
    [] filter = "all"    -> TRUE

Translate(filter, e) ==
  CASE filter = "domain" -> DomainStatus(e)
    [] filter = "auth"   -> ResolveUserError(e)
    [] filter = "all"    -> Resolve(e)

\* The filter of auth is registered while the application is built, the one for
\* all exceptions afterwards: the latter is asked first.
GlobalFilters == <<"all", "auth">>

FilterFor(e, controllerFilters) ==
  LET filters == controllerFilters \o GlobalFilters
  IN  filters[CHOOSE n \in DOMAIN filters :
                /\ Catches(filters[n], e)
                /\ \A k \in 1..(n - 1) : ~Catches(filters[k], e)]

AnswerStatus(e, controllerFilters) == Translate(FilterFor(e, controllerFilters), e)

\* The server error is logged by the filter for all exceptions and by no other.
LogsError(e, controllerFilters) ==
  FilterFor(e, controllerFilters) = "all" /\ Resolve(e) >= 500

\* The access log is written before the filters run.
LoggedStatus(e) == IF e \in DOMAIN HttpException THEN HttpException[e] ELSE 500
=============================================================================
