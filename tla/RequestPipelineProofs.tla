------------------------ MODULE RequestPipelineProofs -----------------------
(***************************************************************************)
(* Proofs about RequestPipeline, for every number of users, organizations, *)
(* roles and sessions, every route and every interleaving of the changes   *)
(* others commit between two reads of a request.                           *)
(*                                                                         *)
(* The argument: what is left to do is the end of the plan of the route,   *)
(* so the step a request is at says which steps it has passed.  A step     *)
(* that is passed teaches that a fact held at that moment; `ever' keeps    *)
(* all such facts, so what was learnt stays known, whatever the others do. *)
(* A fact of `kept' was there at all moments, so no read can have missed   *)
(* it.  Answers that tell something come from a request that has learnt    *)
(* all its guards ask for; refusals come from one that has missed a fact,  *)
(* which then is not in `kept'.  The plans of the routes are made by the   *)
(* constructors of Routes, a look-up of a permission always in one piece.  *)
(***************************************************************************)
EXTENDS RequestPipeline, TLAPS

\* Concatenation, position by position.
LEMMA Concatenation ==
  ASSUME NEW S, NEW s \in Seq(S), NEW t \in Seq(S)
  PROVE  /\ s \o t \in Seq(S) /\ Len(s \o t) = Len(s) + Len(t)
         /\ \A j \in 1..Len(s) : (s \o t)[j] = s[j]
         /\ \A j \in 1..Len(t) : (s \o t)[Len(s) + j] = t[j]
<1>1. \A j \in 1..Len(t) : Len(s) + j \in 1..(Len(s) + Len(t)) /\ Len(s) + j > Len(s)
  OBVIOUS
<1> QED
  BY <1>1
-----------------------------------------------------------------------------
(* Errors.                                                                 *)

\* The domain errors and the status each declares.
LEMMA DomainErrors ==
  DomainError = DOMAIN MembershipErrors \cup DOMAIN RoleErrors \cup DOMAIN PermissionErrors
                  \cup DOMAIN StorageErrors \cup DOMAIN OrganizationErrors
BY DEF DomainError, Declared

\* A declared status is one of five; only a denied permission declares 403.
LEMMA DeclaredStatus ==
  ASSUME NEW e \in DomainError
  PROVE  /\ DomainStatus(e) \in {400, 403, 404, 409, 413}
         /\ DomainStatus(e) = 403 <=> e = "PermissionDenied"
<1> USE DEF MembershipErrors, RoleErrors, PermissionErrors, StorageErrors, OrganizationErrors
<1>1. CASE e \in DOMAIN MembershipErrors
  <2>1. DomainStatus(e) = MembershipErrors[e]
    BY <1>1 DEF DomainStatus, Declared
  <2> QED
    BY <1>1, <2>1
<1>2. CASE e \in DOMAIN RoleErrors
  <2>1. DomainStatus(e) = RoleErrors[e]
    BY <1>2 DEF DomainStatus, Declared
  <2> QED
    BY <1>2, <2>1
<1>3. CASE e \in DOMAIN PermissionErrors
  <2>1. DomainStatus(e) = PermissionErrors[e]
    BY <1>3 DEF DomainStatus, Declared
  <2> QED
    BY <1>3, <2>1
<1>4. CASE e \in DOMAIN StorageErrors
  <2>1. DomainStatus(e) = StorageErrors[e]
    BY <1>4 DEF DomainStatus, Declared
  <2> QED
    BY <1>4, <2>1
<1>5. CASE e \in DOMAIN OrganizationErrors
  <2>1. DomainStatus(e) = OrganizationErrors[e]
    BY <1>5 DEF DomainStatus, Declared
  <2> QED
    BY <1>5, <2>1
<1> QED
  BY <1>1, <1>2, <1>3, <1>4, <1>5, DomainErrors

\* What the filters catch.
LEMMA Caught == \A e : Catches("all", e) /\ (Catches("domain", e) <=> e \in DomainError)
BY DEF Catches

\* The first filter that catches an error answers.
LEMMA FirstFilter ==
  ASSUME NEW e, NEW filters, NEW f, f = filters \o GlobalFilters, NEW n \in DOMAIN f,
         DOMAIN f \subseteq Nat \ {0},
         Catches(f[n], e), \A k \in Nat \ {0} : k < n => ~Catches(f[k], e)
  PROVE  FilterFor(e, filters) = f[n]
<1>1. \A m \in DOMAIN f :
        (/\ Catches(f[m], e) /\ \A k \in 1..(m - 1) : ~Catches(f[k], e)) <=> m = n
  <2>1. \A k \in 1..(n - 1) : ~Catches(f[k], e)
    OBVIOUS
  <2>2. ASSUME NEW m \in DOMAIN f, Catches(f[m], e), \A k \in 1..(m - 1) : ~Catches(f[k], e)
        PROVE  m = n
    <3>1. ~(m < n)
      BY <2>2
    <3>2. n < m => n \in 1..(m - 1)
      OBVIOUS
    <3> QED
      BY <2>2, <3>1, <3>2
  <2> QED
    BY <2>1, <2>2
<1> QED
  BY <1>1 DEF FilterFor

\* The filter that answers is that of the controller for a domain error, if the
\* controller has it, and the one for all exceptions otherwise.
LEMMA FilterIs ==
  ASSUME NEW e \in Error, NEW filters \in {<<"domain">>, <<>>}
  PROVE  FilterFor(e, filters) = IF filters = <<"domain">> /\ e \in DomainError THEN "domain" ELSE "all"
<1> DEFINE f == filters \o GlobalFilters
           S == {"domain", "all", "auth"}
<1>0. f = filters \o GlobalFilters
  OBVIOUS
<1>1. GlobalFilters \in Seq(S) /\ Len(GlobalFilters) = 2
      /\ GlobalFilters[1] = "all" /\ GlobalFilters[2] = "auth"
  BY DEF GlobalFilters
<1>2. CASE filters = <<>>
  <2>1. DOMAIN f = 1..2 /\ f[1] = "all"
    BY SMTT(30), <1>1, <1>2
  <2>2. FilterFor(e, filters) = f[1]
    <3> HIDE DEF f
    <3>1. 1 \in DOMAIN f /\ DOMAIN f \subseteq Nat \ {0} /\ Catches(f[1], e)
      BY <2>1, Caught
    <3>2. \A k \in Nat \ {0} : ~(k < 1)
      OBVIOUS
    <3> QED
      BY <1>0, <3>1, <3>2, FirstFilter
  <2> QED
    BY <1>2, <2>1, <2>2
<1>3. CASE filters = <<"domain">>
  <2>1. filters \in Seq(S) /\ Len(filters) = 1 /\ filters[1] = "domain"
    BY SMTT(30), <1>3
  <2>2. DOMAIN f = 1..3 /\ f[1] = "domain" /\ f[2] = "all"
    BY SMTT(30), <1>1, <2>1, Concatenation
  <2> HIDE DEF f
  <2>3. CASE e \in DomainError
    <3>1. 1 \in DOMAIN f /\ DOMAIN f \subseteq Nat \ {0} /\ Catches(f[1], e)
      BY <2>2, <2>3, Caught
    <3>2. \A k \in Nat \ {0} : ~(k < 1)
      OBVIOUS
    <3>3. FilterFor(e, filters) = f[1]
      BY <1>0, <3>1, <3>2, FirstFilter
    <3> QED
      BY <1>3, <2>2, <2>3, <3>3
  <2>4. CASE e \notin DomainError
    <3>1. 2 \in DOMAIN f /\ DOMAIN f \subseteq Nat \ {0} /\ Catches(f[2], e)
      BY <2>2, <2>4, Caught
    <3>2. \A k \in Nat \ {0} : k < 2 => ~Catches(f[k], e)
      BY <2>2, <2>4, Caught
    <3>3. FilterFor(e, filters) = f[2]
      BY <1>0, <3>1, <3>2, FirstFilter
    <3> QED
      BY <1>3, <2>2, <2>4, <3>3
  <2> QED
    BY <2>3, <2>4
<1> QED
  BY <1>2, <1>3

\* The answer to an error on a route: the declared status of a domain error, if
\* the route has its filter, or else what the filter for all exceptions makes of it.
LEMMA StatusIs ==
  ASSUME NEW e \in Error, NEW filters \in {<<"domain">>, <<>>}
  PROVE  IF filters = <<"domain">> /\ e \in DomainError
         THEN AnswerStatus(e, filters) = DomainStatus(e) /\ ~LogsError(e, filters)
         ELSE AnswerStatus(e, filters) = Resolve(e) /\ (LogsError(e, filters) <=> Resolve(e) >= 500)
<1>1. CASE filters = <<"domain">> /\ e \in DomainError
  <2>1. FilterFor(e, filters) = "domain"
    BY <1>1, FilterIs
  <2> QED
    BY <1>1, <2>1 DEF AnswerStatus, LogsError, Translate
<1>2. CASE ~(filters = <<"domain">> /\ e \in DomainError)
  <2>1. FilterFor(e, filters) = "all"
    BY <1>2, FilterIs
  <2> QED
    BY <1>2, <2>1 DEF AnswerStatus, LogsError, Translate
<1> QED
  BY <1>1, <1>2

\* What is never answered: a status outside the list; 401 and 403 to an error
\* that means something else.
LEMMA Statuses ==
  ASSUME NEW e \in Error, NEW filters \in {<<"domain">>, <<>>}
  PROVE  /\ AnswerStatus(e, filters) \in {400, 401, 403, 404, 409, 413, 429, 500}
         /\ AnswerStatus(e, filters) \in {401, 403}
              => e \in {"Unauthorized", "Forbidden", "PermissionDenied"}
         /\ e \in {"Unauthorized", "Forbidden", "PermissionDenied", "BadRequest", "TooManyRequests",
                    "QueryFailed"}
              => AnswerStatus(e, filters) \in {400, 401, 403, 429, 500}
         /\ LoggedStatus(e) \in {400, 401, 403, 404, 429, 500}
         /\ LogsError(e, filters) <=> AnswerStatus(e, filters) >= 500
<1>1. /\ Resolve(e) \in {400, 401, 403, 404, 409, 429, 500}
      /\ Resolve(e) \in {401, 403} => e \in {"Unauthorized", "Forbidden"}
      /\ e \in {"Unauthorized", "Forbidden", "PermissionDenied", "BadRequest", "TooManyRequests",
                 "QueryFailed"}
           => Resolve(e) \in {400, 401, 403, 429, 500}
      /\ LoggedStatus(e) \in {400, 401, 403, 404, 429, 500}
  BY DEF Resolve, LoggedStatus, HttpException
<1>2. {"Unauthorized", "Forbidden", "BadRequest", "TooManyRequests", "QueryFailed"} \cap DomainError = {}
  BY DomainErrors
     DEF MembershipErrors, RoleErrors, PermissionErrors, StorageErrors, OrganizationErrors
<1>3. CASE filters = <<"domain">> /\ e \in DomainError
  <2>1. AnswerStatus(e, filters) = DomainStatus(e) /\ ~LogsError(e, filters)
    BY <1>3, StatusIs
  <2> QED
    BY <1>1, <1>2, <1>3, <2>1, DeclaredStatus
<1>4. CASE ~(filters = <<"domain">> /\ e \in DomainError)
  <2>1. AnswerStatus(e, filters) = Resolve(e) /\ (LogsError(e, filters) <=> Resolve(e) >= 500)
    BY <1>4, StatusIs
  <2> QED
    BY <1>1, <2>1
<1> QED
  BY <1>3, <1>4
-----------------------------------------------------------------------------
(* Routes.                                                                 *)

Has(s, step) == \E j \in DOMAIN s : s[j] = step

\* A look-up of a permission is made of three steps, always together.
Checked(s) ==
  /\ \A j \in DOMAIN s : s[j] = "seat" => j + 2 \in DOMAIN s /\ s[j + 2] = "codes"
  /\ \A j \in DOMAIN s : s[j] = "role" => j - 1 \in DOMAIN s /\ s[j - 1] = "seat"
  /\ \A j \in DOMAIN s : s[j] = "codes" => j - 1 \in DOMAIN s /\ s[j - 1] = "role"

\* Concatenation keeps what was there and adds no step of its own.
LEMMA HasConcatenation ==
  ASSUME NEW s \in Seq(Step), NEW t \in Seq(Step), NEW step
  PROVE  Has(s \o t, step) <=> Has(s, step) \/ Has(t, step)
<1> DEFINE c == s \o t
           m == Len(s)
           n == Len(t)
<1>1. DOMAIN s = 1..m /\ DOMAIN t = 1..n /\ DOMAIN c = 1..(m + n) /\ m \in Nat /\ n \in Nat
  BY Concatenation
<1>2. /\ \A j \in 1..m : c[j] = s[j]
      /\ \A j \in 1..n : c[m + j] = t[j]
  BY Concatenation
<1> HIDE DEF c, m, n
<1>3. ASSUME NEW j \in DOMAIN c, c[j] = step PROVE Has(s, step) \/ Has(t, step)
  <2>1. CASE j \in 1..m
    BY <1>1, <1>2, <1>3, <2>1 DEF Has
  <2>2. CASE j \notin 1..m
    <3>1. j - m \in 1..n /\ j = m + (j - m)
      BY <1>1, <1>3, <2>2
    <3> QED
      BY <1>1, <1>2, <1>3, <3>1 DEF Has
  <2> QED
    BY <2>1, <2>2
<1>4. ASSUME NEW j \in DOMAIN s, s[j] = step PROVE Has(c, step)
  BY <1>1, <1>2, <1>4 DEF Has
<1>5. ASSUME NEW j \in DOMAIN t, t[j] = step PROVE Has(c, step)
  <2>1. m + j \in DOMAIN c
    BY <1>1, <1>5
  <2> QED
    BY <1>1, <1>2, <1>5, <2>1 DEF Has
<1> QED
  BY <1>3, <1>4, <1>5 DEF Has, c

\* Look-ups stay whole in a concatenation.
LEMMA CheckedConcatenation ==
  ASSUME NEW s \in Seq(Step), NEW t \in Seq(Step), Checked(s), Checked(t)
  PROVE  Checked(s \o t)
<1> DEFINE c == s \o t
           m == Len(s)
           n == Len(t)
<1>1. DOMAIN s = 1..m /\ DOMAIN t = 1..n /\ DOMAIN c = 1..(m + n) /\ m \in Nat /\ n \in Nat
  BY Concatenation
<1>2. /\ \A j \in 1..m : c[j] = s[j]
      /\ \A j \in 1..n : c[m + j] = t[j]
  BY Concatenation
<1> HIDE DEF c, m, n
<1>3. ASSUME NEW j \in DOMAIN c
      PROVE  /\ c[j] = "seat" => j + 2 \in DOMAIN c /\ c[j + 2] = "codes"
             /\ c[j] = "role" => j - 1 \in DOMAIN c /\ c[j - 1] = "seat"
             /\ c[j] = "codes" => j - 1 \in DOMAIN c /\ c[j - 1] = "role"
  <2>1. CASE j \in 1..m
    <3>1. /\ s[j] = "seat" => j + 2 \in 1..m /\ s[j + 2] = "codes"
          /\ s[j] = "role" => j - 1 \in 1..m /\ s[j - 1] = "seat"
          /\ s[j] = "codes" => j - 1 \in 1..m /\ s[j - 1] = "role"
      BY <1>1, <2>1 DEF Checked
    <3> QED
      BY <1>1, <1>2, <2>1, <3>1
  <2>2. CASE j \notin 1..m
    <3> DEFINE k == j - m
    <3>1. k \in 1..n /\ j = m + k /\ j + 2 = m + (k + 2) /\ j - 1 = m + (k - 1)
      BY <1>1, <2>2
    <3> HIDE DEF k
    <3>2. /\ t[k] = "seat" => k + 2 \in 1..n /\ t[k + 2] = "codes"
          /\ t[k] = "role" => k - 1 \in 1..n /\ t[k - 1] = "seat"
          /\ t[k] = "codes" => k - 1 \in 1..n /\ t[k - 1] = "role"
      BY <1>1, <3>1 DEF Checked
    <3>3. c[j] = t[k]
      BY <1>2, <3>1
    <3>4. t[k] = "seat" => j + 2 \in DOMAIN c /\ c[j + 2] = "codes"
      BY <1>1, <1>2, <3>1, <3>2
    <3>5. t[k] \in {"role", "codes"} => j - 1 \in DOMAIN c /\ c[j - 1] = t[k - 1]
      BY <1>1, <1>2, <3>1, <3>2
    <3> QED
      BY <3>2, <3>3, <3>4, <3>5
  <2> QED
    BY <2>1, <2>2
<1> QED
  BY <1>3 DEF Checked, c

\* A list of steps, with its look-ups whole, made of some set of steps.
StepList(s, steps) ==
  s \in Seq(Step) /\ Checked(s) /\ \A step : Has(s, step) <=> step \in steps

\* Such lists concatenate; the sets of their steps join.
LEMMA ListConcatenation ==
  ASSUME NEW s, NEW t, NEW S, NEW T, StepList(s, S), StepList(t, T)
  PROVE  StepList(s \o t, S \cup T)
<1>1. s \o t \in Seq(Step)
  BY Concatenation DEF StepList
<1> QED
  BY <1>1, HasConcatenation, CheckedConcatenation DEF StepList

CheckSteps == <<"seat", "role", "codes">>

\* The lists that the routes are put together from.
LEMMA SimpleLists ==
  /\ StepList(<<>>, {})
  /\ \A step \in Step \ {"seat", "role", "codes"} : StepList(<<step>>, {step})
  /\ StepList(CheckSteps, {"seat", "role", "codes"})
<1>1. StepList(<<>>, {})
  BY DEF StepList, Checked, Has
<1>2. ASSUME NEW step \in Step \ {"seat", "role", "codes"} PROVE StepList(<<step>>, {step})
  <2> DEFINE s == <<step>>
  <2>1. s \in Seq(Step) /\ DOMAIN s = {1} /\ s[1] = step
    OBVIOUS
  <2> HIDE DEF s
  <2>2. Checked(s)
    BY <2>1 DEF Checked
  <2>3. \A x : Has(s, x) <=> x \in {step}
    BY <2>1 DEF Has
  <2> QED
    BY <2>1, <2>2, <2>3 DEF StepList, s
<1>3. StepList(CheckSteps, {"seat", "role", "codes"})
  <2>1. /\ CheckSteps \in Seq(Step) /\ DOMAIN CheckSteps = 1..3
        /\ CheckSteps[1] = "seat" /\ CheckSteps[2] = "role" /\ CheckSteps[3] = "codes"
    BY DEF CheckSteps, Step, GuardStep
  <2>2. Checked(CheckSteps)
    BY <2>1 DEF Checked
  <2>3. \A x : Has(CheckSteps, x) <=> x \in {"seat", "role", "codes"}
    BY <2>1 DEF Has
  <2> QED
    BY <2>1, <2>2, <2>3 DEF StepList
<1> QED
  BY <1>1, <1>2, <1>3

\* The guards of the controllers.
LEMMA GuardLists ==
  ASSUME NEW need
  PROVE  LET checks == IF need = "none" THEN {} ELSE {"seat", "role", "codes"}
         IN  /\ StepList(Jwt, {"session"})
             /\ StepList(Jwt \o Permission(need), {"session"} \cup checks)
             /\ StepList(Jwt \o ActiveOrg \o Permission(need), {"session", "activeOrg"} \cup checks)
             /\ StepList(Jwt \o PlatformAdmin, {"session", "admin"})
             /\ StepList(Throttler, {"throttle"})
             /\ StepList(Google, {"google"})
<1> DEFINE checks == IF need = "none" THEN {} ELSE {"seat", "role", "codes"}
<1>1. /\ StepList(Jwt, {"session"}) /\ StepList(ActiveOrg, {"activeOrg"})
      /\ StepList(PlatformAdmin, {"admin"}) /\ StepList(Throttler, {"throttle"})
      /\ StepList(Google, {"google"})
  BY SimpleLists DEF Jwt, ActiveOrg, PlatformAdmin, Throttler, Google, Step, GuardStep
<1>2. StepList(Permission(need), checks)
  BY SimpleLists DEF Permission, CheckSteps
<1> HIDE DEF checks
<1>3. StepList(Jwt \o Permission(need), {"session"} \cup checks)
  BY <1>1, <1>2, ListConcatenation
<1>4. StepList(Jwt \o ActiveOrg, {"session"} \cup {"activeOrg"})
  BY <1>1, ListConcatenation
<1>5. StepList((Jwt \o ActiveOrg) \o Permission(need), ({"session"} \cup {"activeOrg"}) \cup checks)
  BY <1>2, <1>4, ListConcatenation
<1>6. StepList(Jwt \o PlatformAdmin, {"session"} \cup {"admin"})
  BY <1>1, ListConcatenation
<1>7. ({"session"} \cup {"activeOrg"}) \cup checks = {"session", "activeOrg"} \cup checks
      /\ {"session"} \cup {"admin"} = {"session", "admin"}
  OBVIOUS
<1> QED
  BY <1>1, <1>3, <1>5, <1>6, <1>7 DEF checks

\* A list of two steps that are no part of a look-up.
LEMMA PairLists ==
  ASSUME NEW a \in Step \ {"seat", "role", "codes"}, NEW b \in Step \ {"seat", "role", "codes"}
  PROVE  StepList(<<a, b>>, {a, b})
<1> DEFINE s == <<a, b>>
<1>1. s \in Seq(Step) /\ DOMAIN s = 1..2 /\ s[1] = a /\ s[2] = b
  OBVIOUS
<1> HIDE DEF s
<1>2. Checked(s)
  BY <1>1 DEF Checked
<1>3. \A x : Has(s, x) <=> x \in {a, b}
  BY <1>1 DEF Has
<1> QED
  BY <1>1, <1>2, <1>3 DEF StepList, s

\* A use case that looks up the caller's permission itself.
Twice(use) == UseCase[use].need # "none" \/ use = "effectivePermissions"

\* What a use case reads before its own work, and the errors it may raise: the
\* permission first, if it requires one itself, and no organization without it.
UseCaseInv(use) ==
  /\ IF Twice(use)
     THEN \E rest \in Seq(Step), R \in SUBSET {"organization", "image"} :
            UseCase[use].reads = CheckSteps \o rest /\ StepList(rest, R)
     ELSE UseCase[use].reads \in {<<>>, <<"image">>, <<"seats", "listing">>}
  /\ UseCase[use].raises \subseteq Error \ {"Forbidden", "PermissionDenied"}

\* The errors use cases raise are errors the filters know.
LEMMA RaisedErrors ==
  {"CannotChangeOwnRole", "UnknownRole", "OwnerRoleNotAssignable", "MembershipNotFound", "SoleOwner",
   "RoleKeyConflict", "RoleNotFound", "OwnerRoleProtected", "RoleInUse", "UnknownPermission",
   "UniqueViolation", "QueryFailed", "NotFound", "DuplicateEmail", "Unauthorized", "BadRequest",
   "TooManyRequests", "Forbidden", "PermissionDenied", "OrganizationNotFound"} \cup ImageErrors
    \subseteq Error
BY DomainErrors
   DEF MembershipErrors, RoleErrors, PermissionErrors, StorageErrors, OrganizationErrors,
       Error, UserError, HttpException, QueryError, ImageErrors

\* The use cases that look the caller's permission up, and those that list.
CheckingUse == {"getOrganization", "updateOrganization", "setOrganizationImage", "deleteOrganization",
                "listOrganizationMembers", "changeMemberRole", "removeMember", "listRoles",
                "effectivePermissions"}
ListingUse == {"listMyOrganizations", "getOnboardingStatus"}

\* A use case that looks the permission up does it before all else.
LEMMA CheckingUses ==
  ASSUME NEW use \in CheckingUse
  PROVE  UseCaseInv(use) /\ Twice(use)
<1>1. Twice(use)
  BY DEF Twice, UseCase, Requires, Does, CheckingUse
<1>2. \E rest \in {<<>>, <<"organization">>, <<"image", "organization">>} :
        UseCase[use].reads = CheckSteps \o rest
  <2>1. CASE use \in {"getOrganization", "updateOrganization", "deleteOrganization"}
    <3>1. UseCase[use].reads = CheckSteps \o <<"organization">>
      BY <2>1 DEF UseCase, Requires, CheckSteps
    <3> HIDE DEF CheckSteps
    <3> QED
      BY <3>1
  <2>2. CASE use = "setOrganizationImage"
    BY <2>2 DEF UseCase, Requires, CheckSteps
  <2>3. CASE use \in {"listOrganizationMembers", "changeMemberRole", "removeMember", "listRoles"}
    <3>1. UseCase[use].reads = CheckSteps \o <<>>
      BY <2>3 DEF UseCase, Requires, CheckSteps
    <3> QED
      BY <3>1
  <2>4. CASE use = "effectivePermissions"
    <3>1. UseCase[use].reads = CheckSteps
      BY <2>4 DEF UseCase, Does, CheckSteps
    <3>2. CheckSteps \o <<>> = CheckSteps
      BY SimpleLists DEF StepList
    <3> QED
      BY <3>1, <3>2
  <2> QED
    BY <2>1, <2>2, <2>3, <2>4 DEF CheckingUse
<1>3. \A rest \in {<<>>, <<"organization">>, <<"image", "organization">>} :
        \E R \in SUBSET {"organization", "image"} : StepList(rest, R)
  <2>1. StepList(<<>>, {}) /\ StepList(<<"organization">>, {"organization"})
    BY SimpleLists DEF Step, ReadStep
  <2>2. StepList(<<"image", "organization">>, {"image", "organization"})
    BY PairLists DEF Step, ReadStep
  <2> QED
    BY <2>1, <2>2
<1>4. UseCase[use].raises \subseteq Error \ {"Forbidden", "PermissionDenied"}
  BY RaisedErrors DEF UseCase, Requires, Does, CheckingUse
<1>5. \A rest, R : StepList(rest, R) => rest \in Seq(Step)
  BY DEF StepList
<1> QED
  BY <1>1, <1>2, <1>3, <1>4, <1>5 DEF UseCaseInv

\* The others look no permission up; they read an image, a listing or nothing.
LEMMA OtherUses ==
  ASSUME NEW use \in (DOMAIN UseCase) \ CheckingUse
  PROVE  UseCaseInv(use) /\ ~Twice(use)
<1>1. use \in {"createOrganization", "listMyOrganizations", "getOnboardingStatus", "createRole",
               "updateRole", "deleteRole", "replaceRolePermissions", "updateUserProfile",
               "setUserAvatar", "revokeSession", "register", "login", "refreshToken", "logout",
               "googleAuth", "health", "nothing"}
  BY DEF UseCase, CheckingUse
<1>2. ~Twice(use)
  BY <1>1 DEF Twice, UseCase, Requires, Does
<1>3. UseCase[use].reads \in {<<>>, <<"image">>, <<"seats", "listing">>}
  BY <1>1 DEF UseCase, Does
<1>4. UseCase[use].raises \subseteq Error \ {"Forbidden", "PermissionDenied"}
  BY <1>1, RaisedErrors DEF UseCase, Does
<1> QED
  BY <1>2, <1>3, <1>4 DEF UseCaseInv

\* The lists that are no look-up and have no look-up in front.
LEMMA PlainReads ==
  ASSUME NEW reads \in {<<>>, <<"image">>, <<"seats", "listing">>}
  PROVE  \E R \in SUBSET {"image", "seats", "listing"} : StepList(reads, R)
<1>1. StepList(<<>>, {}) /\ StepList(<<"image">>, {"image"})
  BY SimpleLists DEF Step, ReadStep
<1>2. StepList(<<"seats", "listing">>, {"seats", "listing"})
  BY PairLists DEF Step, ReadStep
<1> QED
  BY <1>1, <1>2

\* The use cases behind controllers that leave domain errors to the filter for
\* all exceptions raise none.
UnfilteredUse == {"nothing", "revokeSession", "register", "login", "refreshToken", "logout",
                  "googleAuth", "health", "getOnboardingStatus"}

\* None of these looks up a permission or raises a domain error.
LEMMA UnfilteredUses ==
  ASSUME NEW use \in UnfilteredUse
  PROVE  /\ use \in DOMAIN UseCase /\ use \notin CheckingUse
         /\ UseCase[use].reads \in {<<>>, <<"seats", "listing">>}
         /\ UseCase[use].raises \cap DomainError = {}
<1>1. use \in DOMAIN UseCase /\ use \notin CheckingUse
      /\ UseCase[use].reads \in {<<>>, <<"seats", "listing">>}
  BY DEF UseCase, Does, CheckingUse, UnfilteredUse
<1>2. UseCase[use].raises \subseteq {"NotFound", "DuplicateEmail", "UniqueViolation", "Unauthorized"}
  BY DEF UseCase, Does, UnfilteredUse
<1>3. {"NotFound", "DuplicateEmail", "UniqueViolation", "Unauthorized"} \cap DomainError = {}
  BY DomainErrors
     DEF MembershipErrors, RoleErrors, PermissionErrors, StorageErrors, OrganizationErrors
<1> QED
  BY <1>1, <1>2, <1>3

\* Only login and refreshToken answer Unauthorized of their own; the use cases
\* that list read the memberships, then their organizations.
LEMMA UnauthorizedUses ==
  /\ \A use \in (DOMAIN UseCase) \ {"login", "refreshToken"} :
       "Unauthorized" \notin UseCase[use].raises
  /\ \A use \in ListingUse :
       use \notin CheckingUse /\ UseCase[use].reads = <<"seats", "listing">>
<1>1. ASSUME NEW use \in (DOMAIN UseCase) \ {"login", "refreshToken"}
      PROVE  "Unauthorized" \notin UseCase[use].raises
  <2>1. CASE use \in CheckingUse
    <3>1. UseCase[use].raises \subseteq
            {"UniqueViolation", "CannotChangeOwnRole", "UnknownRole", "OwnerRoleNotAssignable",
             "MembershipNotFound", "SoleOwner"}
      BY <2>1 DEF UseCase, Requires, Does, CheckingUse
    <3> QED
      BY <3>1
  <2>2. CASE use \in {"createOrganization", "listMyOrganizations", "getOnboardingStatus", "createRole",
                      "updateRole", "deleteRole", "replaceRolePermissions", "updateUserProfile"}
    BY <2>2 DEF UseCase, Does
  <2>3. CASE use \in {"setUserAvatar", "revokeSession", "register", "logout", "googleAuth", "health",
                      "nothing"}
    BY <2>3 DEF UseCase, Does
  <2> QED
    BY <2>1, <2>2, <2>3 DEF UseCase, CheckingUse
<1>2. ASSUME NEW use \in ListingUse
      PROVE  use \notin CheckingUse /\ UseCase[use].reads = <<"seats", "listing">>
  BY DEF UseCase, Does, ListingUse, CheckingUse
<1> QED
  BY <1>1, <1>2

\* What holds of every route: its guards are guards; a step that needs an
\* organization has one in the path; a route without the filter for domain
\* errors raises none; one that asks for a session asks Google nothing.
RouteInv(route) ==
  /\ \E G \in SUBSET GuardStep : StepList(route.guards, G)
  /\ route.use \in DOMAIN UseCase
  /\ Has(route.guards, "activeOrg") \/ Has(route.guards, "seat") \/ Twice(route.use) => route.path = TRUE
  /\ route.filters \in {<<"domain">>, <<>>}
  /\ route.filters = <<>> =>
       ~Has(route.guards, "seat") /\ route.use \in UnfilteredUse
  /\ Has(route.guards, "session") =>
       ~Has(route.guards, "google") /\ route.use \notin {"login", "refreshToken"}

\* The constructors of routes make such routes.
LEMMA ManagedRoutes ==
  ASSUME NEW name, NEW path \in BOOLEAN, NEW need, NEW use \in (DOMAIN UseCase) \ {"login", "refreshToken"},
         need # "none" \/ Twice(use) => path
  PROVE  RouteInv(Managed(name, path, need, use))
<1> DEFINE route == Managed(name, path, need, use)
           checks == IF need = "none" THEN {} ELSE {"seat", "role", "codes"}
<1>1. route.guards = Jwt \o Permission(need) /\ route.use = use /\ route.path = path
      /\ route.filters = <<"domain">>
  BY DEF Managed, Route
<1>2. StepList(route.guards, {"session"} \cup checks)
  BY <1>1, GuardLists
<1>3. {"session"} \cup checks \in SUBSET GuardStep
  BY DEF GuardStep
<1>4. <<"domain">> # <<>>
  OBVIOUS
<1>5. ~Has(route.guards, "activeOrg") /\ ~Has(route.guards, "google")
      /\ (Has(route.guards, "seat") => need # "none")
  BY <1>2 DEF StepList
<1> HIDE DEF route, checks
<1> QED
  BY <1>1, <1>2, <1>3, <1>4, <1>5 DEF RouteInv, route

\* The routes of an active organization.
LEMMA BusinessRoutes ==
  ASSUME NEW name, NEW need, NEW use \in (DOMAIN UseCase) \ {"login", "refreshToken"}
  PROVE  RouteInv(Business(name, need, use))
<1> DEFINE route == Business(name, need, use)
           checks == IF need = "none" THEN {} ELSE {"seat", "role", "codes"}
<1>1. route.guards = Jwt \o ActiveOrg \o Permission(need) /\ route.use = use /\ route.path = TRUE
      /\ route.filters = <<"domain">>
  BY DEF Business, Route
<1>2. StepList(route.guards, {"session", "activeOrg"} \cup checks)
  BY <1>1, GuardLists
<1>3. {"session", "activeOrg"} \cup checks \in SUBSET GuardStep
  BY DEF GuardStep
<1>4. <<"domain">> # <<>>
  OBVIOUS
<1>5. ~Has(route.guards, "google")
  BY <1>2 DEF StepList
<1> HIDE DEF route, checks
<1> QED
  BY <1>1, <1>2, <1>3, <1>4, <1>5 DEF RouteInv, route

\* The routes of the platform's administrators.
LEMMA AdministeredRoutes ==
  ASSUME NEW name, NEW use \in (DOMAIN UseCase) \ {"login", "refreshToken"}, ~Twice(use)
  PROVE  RouteInv(Administered(name, use))
<1> DEFINE route == Administered(name, use)
<1>1. route.guards = Jwt \o PlatformAdmin /\ route.use = use /\ route.filters = <<"domain">>
  BY DEF Administered, Route
<1>2. StepList(route.guards, {"session", "admin"})
  BY <1>1, GuardLists
<1>3. {"session", "admin"} \in SUBSET GuardStep
  BY DEF GuardStep
<1>4. <<"domain">> # <<>>
  OBVIOUS
<1>5. ~Has(route.guards, "activeOrg") /\ ~Has(route.guards, "seat") /\ ~Has(route.guards, "google")
  BY <1>2 DEF StepList
<1> HIDE DEF route
<1> QED
  BY <1>1, <1>2, <1>3, <1>4, <1>5 DEF RouteInv, route

\* The routes of an account and the open ones differ in their guards and filters.
LEMMA OtherRoutes ==
  ASSUME NEW name, NEW guards \in {Jwt, Throttler, Google, <<>>}, NEW filters \in {<<"domain">>, <<>>},
         NEW use \in DOMAIN UseCase, ~Twice(use),
         filters = <<>> => use \in UnfilteredUse,
         guards = Jwt => use \notin {"login", "refreshToken"}
  PROVE  RouteInv(Route(name, guards, FALSE, "none", filters, use))
<1> DEFINE route == Route(name, guards, FALSE, "none", filters, use)
<1>1. route.guards = guards /\ route.use = use /\ route.filters = filters
  BY DEF Route
<1>2. /\ StepList(Jwt, {"session"}) /\ StepList(Throttler, {"throttle"})
      /\ StepList(Google, {"google"}) /\ StepList(<<>>, {})
  BY GuardLists, SimpleLists
<1>3. PICK G \in SUBSET {"session", "throttle", "google"} :
        StepList(guards, G) /\ ("session" \in G => guards = Jwt /\ G = {"session"})
  <2>1. CASE guards = Jwt
    BY <1>2, <2>1
  <2>2. CASE guards = Throttler
    BY <1>2, <2>2
  <2>3. CASE guards = Google
    BY <1>2, <2>3
  <2>4. CASE guards = <<>>
    BY <1>2, <2>4
  <2> QED
    BY <2>1, <2>2, <2>3, <2>4
<1>4. G \in SUBSET GuardStep
  BY DEF GuardStep
<1>5. /\ ~Has(guards, "activeOrg") /\ ~Has(guards, "seat")
      /\ Has(guards, "session") => ~Has(guards, "google") /\ guards = Jwt
  BY <1>3 DEF StepList
<1> HIDE DEF route
<1> QED
  BY <1>1, <1>3, <1>4, <1>5 DEF RouteInv, route

\* Every route is such a route.
LEMMA RoutesHold == \A route \in Routes : RouteInv(route)
<1>1. ASSUME NEW use \in DOMAIN UseCase PROVE Twice(use) <=> use \in CheckingUse
  BY CheckingUses, OtherUses
<1>2. \A route \in OrganizationRoutes : RouteInv(route)
  <2>1. {"createOrganization", "listMyOrganizations", "nothing", "getOrganization",
         "updateOrganization", "setOrganizationImage", "deleteOrganization"}
          \subseteq (DOMAIN UseCase) \ {"login", "refreshToken"}
    BY DEF UseCase
  <2>2. ~Twice("createOrganization") /\ ~Twice("listMyOrganizations") /\ ~Twice("nothing")
    BY <1>1, <2>1 DEF CheckingUse
  <2>3. /\ RouteInv(Managed("organizations.create", FALSE, "none", "createOrganization"))
        /\ RouteInv(Managed("organizations.listMine", FALSE, "none", "listMyOrganizations"))
        /\ RouteInv(Managed("organizations.clearActive", FALSE, "none", "nothing"))
    BY <2>1, <2>2, ManagedRoutes
  <2>4. /\ RouteInv(Managed("organizations.getById", TRUE, "organization:read", "getOrganization"))
        /\ RouteInv(Managed("organizations.update", TRUE, "organization:update", "updateOrganization"))
        /\ RouteInv(Managed("organizations.uploadLogo", TRUE, "organization:update", "setOrganizationImage"))
        /\ RouteInv(Managed("organizations.uploadBanner", TRUE, "organization:update", "setOrganizationImage"))
        /\ RouteInv(Managed("organizations.remove", TRUE, "organization:delete", "deleteOrganization"))
        /\ RouteInv(Managed("organizations.select", TRUE, "none", "getOrganization"))
    BY <2>1, ManagedRoutes
  <2> QED
    BY <2>3, <2>4 DEF OrganizationRoutes
<1>3. \A route \in MemberRoutes \cup RoleRoutes \cup MyPermissionRoutes : RouteInv(route)
  <2>1. {"listOrganizationMembers", "changeMemberRole", "removeMember", "listRoles",
         "effectivePermissions"} \subseteq (DOMAIN UseCase) \ {"login", "refreshToken"}
    BY DEF UseCase
  <2> QED
    BY <2>1, BusinessRoutes DEF MemberRoutes, RoleRoutes, MyPermissionRoutes
<1>4. \A route \in AdminRoleRoutes \cup AdminPermissionRoutes : RouteInv(route)
  <2>1. {"nothing", "createRole", "updateRole", "deleteRole", "replaceRolePermissions"}
          \subseteq (DOMAIN UseCase) \ {"login", "refreshToken"}
    BY DEF UseCase
  <2>2. \A use \in {"nothing", "createRole", "updateRole", "deleteRole", "replaceRolePermissions"} :
          ~Twice(use)
    BY <1>1, <2>1 DEF CheckingUse
  <2> QED
    BY <2>1, <2>2, AdministeredRoutes DEF AdminRoleRoutes, AdminPermissionRoutes
<1>5. \A route \in OnboardingRoutes \cup UserRoutes \cup SessionRoutes : RouteInv(route)
  <2>1. {"getOnboardingStatus", "updateUserProfile", "setUserAvatar", "nothing", "revokeSession"}
          \subseteq (DOMAIN UseCase) \ {"login", "refreshToken"}
    BY DEF UseCase
  <2>2. \A use \in {"getOnboardingStatus", "updateUserProfile", "setUserAvatar", "nothing",
                    "revokeSession"} : ~Twice(use)
    BY <1>1, <2>1 DEF CheckingUse
  <2>3. \A name, filters, use :
          /\ use \in {"getOnboardingStatus", "updateUserProfile", "setUserAvatar", "nothing",
                      "revokeSession"}
          /\ filters \in {<<"domain">>, <<>>}
          /\ filters = <<>> => use \in UnfilteredUse
          => RouteInv(Account(name, filters, use))
    BY <2>1, <2>2, OtherRoutes DEF Account
  <2>4. "getOnboardingStatus" \in UnfilteredUse /\ "nothing" \in UnfilteredUse
        /\ "revokeSession" \in UnfilteredUse /\ <<"domain">> # <<>>
    BY DEF UnfilteredUse
  <2> QED
    BY <2>3, <2>4 DEF OnboardingRoutes, UserRoutes, SessionRoutes
<1>6. \A route \in AuthRoutes \cup PublicRoutes : RouteInv(route)
  <2>1. {"register", "login", "refreshToken", "logout", "nothing", "googleAuth", "health"}
          \subseteq (DOMAIN UseCase) \cap UnfilteredUse
    BY DEF UseCase, UnfilteredUse
  <2>2. \A use \in {"register", "login", "refreshToken", "logout", "nothing", "googleAuth", "health"} :
          ~Twice(use)
    BY <1>1, <2>1 DEF CheckingUse
  <2>3. \A name, guards, use :
          /\ use \in {"register", "login", "refreshToken", "logout", "nothing", "googleAuth", "health"}
          /\ guards \in {Jwt, Throttler, Google, <<>>}
          /\ guards = Jwt => use \notin {"login", "refreshToken"}
          => RouteInv(Open(name, guards, use))
    BY <2>1, <2>2, OtherRoutes DEF Open
  <2>4. Throttler # Jwt /\ Google # Jwt /\ <<>> # Jwt
    BY DEF Throttler, Google, Jwt
  <2> QED
    BY <2>3, <2>4 DEF AuthRoutes, PublicRoutes
<1> QED
  BY <1>2, <1>3, <1>4, <1>5, <1>6 DEF Routes

\* The reads of a use case are steps of a use case, its look-up in front.
LEMMA ReadsHold ==
  ASSUME NEW use \in DOMAIN UseCase
  PROVE  /\ \E R \in SUBSET ReadStep : StepList(UseCase[use].reads, R)
         /\ Twice(use) => /\ Len(UseCase[use].reads) >= 3
                          /\ UseCase[use].reads[1] = "seat" /\ UseCase[use].reads[2] = "role"
                          /\ UseCase[use].reads[3] = "codes"
                          /\ \A j \in DOMAIN UseCase[use].reads :
                               /\ j > 3 => UseCase[use].reads[j] \in {"image", "organization"}
                               /\ UseCase[use].reads[j] \notin {"seats", "listing"}
         /\ ~Twice(use) => UseCase[use].reads \in {<<>>, <<"image">>, <<"seats", "listing">>}
         /\ UseCase[use].raises \subseteq Error \ {"Forbidden", "PermissionDenied"}
<1> DEFINE reads == UseCase[use].reads
<1>0. UseCaseInv(use)
  BY CheckingUses, OtherUses
<1>1. CASE Twice(use)
  <2>1. PICK rest \in Seq(Step), R \in SUBSET {"organization", "image"} :
          reads = CheckSteps \o rest /\ StepList(rest, R)
    BY <1>0, <1>1 DEF UseCaseInv
  <2>2. StepList(CheckSteps, {"seat", "role", "codes"})
    BY SimpleLists
  <2>3. StepList(reads, {"seat", "role", "codes"} \cup R)
    BY <2>1, <2>2, ListConcatenation
  <2>4. CheckSteps \in Seq(Step) /\ Len(CheckSteps) = 3 /\ CheckSteps[1] = "seat"
        /\ CheckSteps[2] = "role" /\ CheckSteps[3] = "codes"
    BY <2>2 DEF StepList, CheckSteps
  <2>5. /\ Len(reads) = 3 + Len(rest) /\ reads \in Seq(Step)
        /\ reads[1] = "seat" /\ reads[2] = "role" /\ reads[3] = "codes"
        /\ \A j \in 1..Len(rest) : reads[3 + j] = rest[j]
    <3> DEFINE c == CheckSteps \o rest
    <3>1. /\ c \in Seq(Step) /\ Len(c) = Len(CheckSteps) + Len(rest)
          /\ \A j \in 1..Len(CheckSteps) : c[j] = CheckSteps[j]
          /\ \A j \in 1..Len(rest) : c[Len(CheckSteps) + j] = rest[j]
      <4>1. CheckSteps \in Seq(Step)
        BY <2>4
      <4> QED
        BY <4>1, Concatenation
    <3>2. reads = c
      BY <2>1
    <3> HIDE DEF c, reads, CheckSteps
    <3> QED
      BY <2>4, <3>1, <3>2
  <2> HIDE DEF reads
  <2>6. ASSUME NEW j \in DOMAIN reads, j > 3 PROVE reads[j] \in {"image", "organization"}
    <3> DEFINE k == j - 3
    <3>1. k \in 1..Len(rest) /\ j = 3 + k /\ k \in DOMAIN rest
      BY <2>5, <2>6
    <3> HIDE DEF k
    <3>2. reads[j] = rest[k] /\ Has(rest, rest[k])
      BY <2>5, <3>1 DEF Has
    <3> QED
      BY <2>1, <3>2 DEF StepList
  <2>7. ASSUME NEW j \in DOMAIN reads PROVE reads[j] \notin {"seats", "listing"}
    <3>1. reads[j] \in {"seat", "role", "codes"} \cup R
      BY <2>3 DEF StepList, Has
    <3> QED
      BY <3>1
  <2>8. {"seat", "role", "codes"} \cup R \in SUBSET ReadStep
    BY DEF ReadStep
  <2> QED
    <3>1. \E T \in SUBSET ReadStep : StepList(reads, T)
      BY <2>3, <2>8
    <3>2. Len(reads) >= 3
      BY <2>5
    <3>3. UseCase[use].raises \subseteq Error \ {"Forbidden", "PermissionDenied"}
      BY <1>0 DEF UseCaseInv
    <3> QED
      BY <1>1, <2>5, <2>6, <2>7, <3>1, <3>2, <3>3 DEF reads
<1>2. CASE ~Twice(use)
  <2>1. reads \in {<<>>, <<"image">>, <<"seats", "listing">>}
    BY <1>0, <1>2 DEF UseCaseInv
  <2>2. PICK R \in SUBSET {"image", "seats", "listing"} : StepList(reads, R)
    BY <2>1, PlainReads
  <2>3. R \in SUBSET ReadStep
    BY DEF ReadStep
  <2> QED
    BY <1>0, <1>2, <2>1, <2>2, <2>3 DEF UseCaseInv
<1> QED
  BY <1>1, <1>2

-----------------------------------------------------------------------------
(* What holds of a request.                                                *)

\* The caller, by the session; what the guards ask for on behalf of the caller,
\* and what the use case asks for beside it, given the facts.
CallerOf(q) == IF q.session = None THEN None ELSE Owner[q.session]

MemberOf(q, facts, o) == \E i \in Role : Seat(CallerOf(q), o, i) \in facts

MayOf(q, facts, o, need) ==
  \E i \in Role : /\ {Seat(CallerOf(q), o, i), RoleExists(i)} \subseteq facts
                  /\ need = "none" \/ Grant(i, need) \in facts

AdmittedOf(q, facts) ==
  /\ Has(q.route.guards, "session") => q.session # None /\ LiveSession(q.session) \in facts
  /\ Has(q.route.guards, "activeOrg") => q.path = q.cookie /\ MemberOf(q, facts, q.path)
  /\ Has(q.route.guards, "seat") => MayOf(q, facts, q.path, q.route.need)
  /\ Has(q.route.guards, "admin") => Admin(CallerOf(q)) \in facts

AuthorizedOf(q, facts) ==
  /\ AdmittedOf(q, facts)
  /\ Twice(q.route.use) => MayOf(q, facts, q.path, UseCase[q.route.use].need)

\* The request is what arrived, and what is left to do is the end of its plan.
Position(q) == Len(Plan(q.route)) - Len(q.todo) + 1

Course(q) ==
  /\ q \in RequestState
  /\ q.path \in IF q.route.path THEN Id ELSE {None}
  /\ Len(q.todo) <= Len(Plan(q.route))
  /\ \A j \in DOMAIN q.todo : q.todo[j] = Plan(q.route)[Position(q) + j - 1]

Passed(q, step) ==
  \E j \in DOMAIN q.route.guards : j + 1 < Position(q) /\ q.route.guards[j] = step

\* What a request in flight has learnt, at some moment each, from the steps it
\* has passed.
Learnt(q, facts) ==
  /\ q.active # None => Position(q) > 1 /\ q.active = q.cookie /\ MemberOf(q, facts, q.active)
  /\ Passed(q, "session") => q.session # None /\ LiveSession(q.session) \in facts
  /\ Passed(q, "activeOrg") => q.active # None /\ q.path \in {q.active, None}
  /\ Passed(q, "admin") => Admin(CallerOf(q)) \in facts
  /\ Passed(q, "codes") => MayOf(q, facts, q.path, q.route.need)
  /\ Twice(q.route.use) /\ Position(q) > Len(q.route.guards) + 5 =>
       MayOf(q, facts, q.path, UseCase[q.route.use].need)
  /\ q.todo[1] \in {"role", "codes"} =>
       q.role \in Role /\ Seat(CallerOf(q), q.path, q.role) \in facts
  /\ q.todo[1] = "codes" => RoleExists(q.role) \in facts

\* What a request in flight cannot have missed, for it was there all the time.
Noticed(q, facts) ==
  /\ Position(q) > 1 /\ ~q.blind /\ MemberOf(q, facts, q.cookie) => q.active = q.cookie
  /\ q.todo[1] \in {"role", "codes"} =>
       \A i \in Role : Seat(CallerOf(q), q.path, i) \in facts => i = q.role

\* What a listing has found was there at some moment; it goes on looking after
\* the request has failed.
Found(q, facts) ==
  /\ q.at = None => q.pending = {}
  /\ q.at # None =>
       /\ q.pending \subseteq {OrgExists(q.at[1]), RoleExists(q.at[2])}
       /\ Seat(CallerOf(q), q.at[1], q.at[2]) \in facts
       /\ q.found => {OrgExists(q.at[1]), RoleExists(q.at[2])} \ q.pending \subseteq facts
  /\ \A p \in q.seats : Seat(CallerOf(q), p[1], p[2]) \in facts
  /\ \A o \in q.listed : MayOf(q, facts, o, "none") /\ OrgExists(o) \in facts

\* A listing in flight still has before it, or has listed, all that stays.
Complete(q, facts) ==
  /\ q.at # None \/ q.seats # {} => q.todo[1] = "listing"
  /\ q.todo[1] = "listing" \/ (q.todo[1] = "work" /\ q.route.use \in ListingUse) =>
       \A o \in Org, i \in Role :
         {Seat(CallerOf(q), o, i), RoleExists(i), OrgExists(o)} \subseteq facts =>
           \/ o \in q.listed \/ <<o, i>> \in q.seats
           \/ q.at = <<o, i>> /\ q.found

\* What an answer says.
AnswerOK == [
  status : {200, 400, 401, 403, 404, 409, 413, 429, 500}, error : Error \cup {"none"},
  access : {0, 200, 400, 401, 403, 404, 409, 429, 500}, logged : BOOLEAN,
  listed : SUBSET Org]

Strangers(q, facts) ==
  /\ q.answer.access # 0 => AdmittedOf(q, facts)
  /\ q.answer.status \notin {400, 401, 403, 429, 500} => AuthorizedOf(q, facts)

Entitled(q, facts) ==
  Has(q.route.guards, "session") /\ AuthorizedOf(q, facts) /\ ~q.blind =>
    q.answer.status \notin {401, 403}

Stood(q, ever1, kept1) ==
  q.answer.error = "none" /\ q.route.use \in ListingUse =>
    \A o \in Org :
      /\ MayOf(q, kept1, o, "none") /\ OrgExists(o) \in kept1 => o \in q.answer.listed
      /\ o \in q.answer.listed => MayOf(q, ever1, o, "none") /\ OrgExists(o) \in ever1

Tells(q) ==
  q.answer.error # "none" =>
    /\ q.answer.error \in DomainError => q.answer.status = DomainStatus(q.answer.error)
    /\ q.answer.logged <=> q.answer.status >= 500

\* The request: on its way, or answered.
RequestInv(q, ever1, kept1) ==
  /\ Course(q) /\ Found(q, ever1)
  /\ q.todo # <<>> =>
       q.answer = None /\ Learnt(q, ever1) /\ Noticed(q, kept1) /\ Complete(q, kept1)
  /\ q.answer # None =>
       q.answer \in AnswerOK /\ Strangers(q, ever1) /\ Entitled(q, kept1) /\ Stood(q, ever1, kept1)
       /\ Tells(q)

FactsInv(fact1, ever1, kept1) ==
  /\ ever1 \subseteq Fact /\ kept1 \subseteq fact1 /\ fact1 \subseteq ever1
  /\ \A u \in User, o \in Org : OneSeat(fact1, u, o)

IInv ==
  /\ FactsInv(fact, ever, kept) /\ changes \in 0..MaxChanges
  /\ RequestInv(request, ever, kept)
-----------------------------------------------------------------------------
(* The record of the request, with some of its fields changed.             *)

\* Each assignment of a step leaves a record of a request.
LEMMA TodoState ==
  ASSUME NEW q \in RequestState, NEW todo \in Seq(Step)
  PROVE  [q EXCEPT !.todo = todo] \in RequestState
BY SMTT(30) DEF RequestState

LEMMA ContextState ==
  ASSUME NEW q \in RequestState, NEW active \in Org \cup {None}, NEW blind \in BOOLEAN
  PROVE  [q EXCEPT !.active = active, !.blind = blind] \in RequestState
BY ZenonT(30) DEF RequestState

LEMMA RoleState ==
  ASSUME NEW q \in RequestState, NEW role \in Role \cup {None}
  PROVE  [q EXCEPT !.role = role] \in RequestState
BY ZenonT(30) DEF RequestState

LEMMA AnswerState ==
  ASSUME NEW q \in RequestState, NEW answer \in Answer
  PROVE  [q EXCEPT !.answer = answer] \in RequestState
BY ZenonT(30) DEF RequestState

LEMMA SeatsState ==
  ASSUME NEW q \in RequestState, NEW seats \in SUBSET (Org \X Role), NEW at \in (Org \X Role) \cup {None}
  PROVE  [q EXCEPT !.seats = seats, !.at = at] \in RequestState
BY ZenonT(30) DEF RequestState

LEMMA PendingState ==
  ASSUME NEW q \in RequestState, NEW pending \in SUBSET Fact, NEW found \in BOOLEAN
  PROVE  [q EXCEPT !.pending = pending, !.found = found] \in RequestState
BY ZenonT(30) DEF RequestState

LEMMA ListedState ==
  ASSUME NEW q \in RequestState, NEW listed \in SUBSET Org
  PROVE  [q EXCEPT !.listed = listed] \in RequestState
BY ZenonT(30) DEF RequestState

LEMMA ListingState ==
  ASSUME NEW q \in RequestState, NEW seats \in SUBSET (Org \X Role), NEW at \in (Org \X Role) \cup {None},
         NEW pending \in SUBSET Fact, NEW found \in BOOLEAN, NEW listed \in SUBSET Org
  PROVE  [q EXCEPT !.seats = seats, !.at = at, !.pending = pending, !.found = found,
                   !.listed = listed] \in RequestState
BY SeatsState, PendingState, ListedState

-----------------------------------------------------------------------------
(* Where a request stands.                                                 *)

ReadsOf(q) == UseCase[q.route.use].reads

Interceptible(q) == \A n \in 2..Len(q.todo) : q.todo[n] # "pipes"

\* The lists of the route of a request.
LEMMA RouteLists ==
  ASSUME NEW q, Course(q)
  PROVE  /\ RouteInv(q.route) /\ q.route \in Routes /\ q.route.use \in DOMAIN UseCase
         /\ q.todo \in Seq(Step)
         /\ q.route.guards \in Seq(Step) /\ Checked(q.route.guards)
         /\ \A j \in DOMAIN q.route.guards : q.route.guards[j] \in GuardStep
         /\ ReadsOf(q) \in Seq(Step) /\ Checked(ReadsOf(q))
         /\ \A j \in DOMAIN ReadsOf(q) : ReadsOf(q)[j] \in ReadStep
         /\ Len(q.route.guards) \in Nat /\ DOMAIN q.route.guards = 1..Len(q.route.guards)
         /\ Len(ReadsOf(q)) \in Nat /\ DOMAIN ReadsOf(q) = 1..Len(ReadsOf(q))
<1>1. q.route \in Routes /\ q.todo \in Seq(Step)
  BY DEF Course, RequestState
<1>2. RouteInv(q.route)
  BY <1>1, RoutesHold
<1>3. q.route.use \in DOMAIN UseCase
  BY <1>2 DEF RouteInv
<1>4. PICK G \in SUBSET GuardStep : StepList(q.route.guards, G)
  BY <1>2 DEF RouteInv
<1>5. PICK R \in SUBSET ReadStep : StepList(ReadsOf(q), R)
  BY <1>3, ReadsHold DEF ReadsOf
<1>6. q.route.guards \in Seq(Step) /\ Checked(q.route.guards)
      /\ \A j \in DOMAIN q.route.guards : q.route.guards[j] \in GuardStep
  BY <1>4 DEF StepList, Has
<1>7. ReadsOf(q) \in Seq(Step) /\ Checked(ReadsOf(q))
      /\ \A j \in DOMAIN ReadsOf(q) : ReadsOf(q)[j] \in ReadStep
  BY <1>5 DEF StepList, Has
<1> QED
  BY <1>1, <1>2, <1>3, <1>6, <1>7

\* The plan of a request.
LEMMA PlanOf ==
  ASSUME NEW q, Course(q)
  PROVE  LET g == Len(q.route.guards)
             r == Len(ReadsOf(q))
         IN  /\ Len(Plan(q.route)) = g + r + 3
             /\ Plan(q.route)[1] = "context"
             /\ \A j \in 1..g : Plan(q.route)[1 + j] = q.route.guards[j]
             /\ Plan(q.route)[g + 2] = "pipes"
             /\ \A j \in 1..r : Plan(q.route)[g + 2 + j] = ReadsOf(q)[j]
             /\ Plan(q.route)[g + r + 3] = "work"
<1> DEFINE guards == q.route.guards
           reads == ReadsOf(q)
<1>11. guards \in Seq(Step) /\ reads \in Seq(Step)
  BY RouteLists
<1>12. guards = q.route.guards /\ reads = UseCase[q.route.use].reads
  BY DEF ReadsOf
<1> HIDE DEF guards, reads
<1> DEFINE c == <<"context">>
           p == <<"pipes">>
           w == <<"work">>
           a1 == c \o guards
           a2 == a1 \o p
           a3 == a2 \o reads
           a4 == a3 \o w
           m == Len(guards)
           n == Len(reads)
<1>1. /\ c \in Seq(Step) /\ Len(c) = 1 /\ c[1] = "context"
      /\ p \in Seq(Step) /\ Len(p) = 1 /\ p[1] = "pipes"
      /\ w \in Seq(Step) /\ Len(w) = 1 /\ w[1] = "work"
  BY DEF Step
<1>2. m \in Nat /\ n \in Nat
  BY <1>11
<1> HIDE DEF c, p, w, m, n
<1>3. /\ a1 \in Seq(Step) /\ Len(a1) = 1 + m /\ a1[1] = "context"
      /\ \A j \in 1..m : a1[1 + j] = guards[j]
  <2>1. /\ a1 \in Seq(Step) /\ Len(a1) = Len(c) + Len(guards)
        /\ \A j \in 1..Len(c) : a1[j] = c[j]
        /\ \A j \in 1..Len(guards) : a1[Len(c) + j] = guards[j]
    <3>1. c \in Seq(Step)
      BY <1>1
    <3> QED
      BY <1>11, <3>1, Concatenation
  <2> HIDE DEF a1
  <2> QED
    BY <1>1, <1>2, <2>1 DEF m
<1> HIDE DEF a1
<1>4. /\ a2 \in Seq(Step) /\ Len(a2) = m + 2 /\ (\A j \in 1..(m + 1) : a2[j] = a1[j])
      /\ a2[m + 2] = "pipes"
  <2>1. /\ a2 \in Seq(Step) /\ Len(a2) = Len(a1) + Len(p)
        /\ \A j \in 1..Len(a1) : a2[j] = a1[j]
        /\ \A j \in 1..Len(p) : a2[Len(a1) + j] = p[j]
    <3>1. p \in Seq(Step) /\ a1 \in Seq(Step)
      BY <1>1, <1>3
    <3> QED
      BY <1>11, <3>1, Concatenation
  <2> HIDE DEF a2
  <2>2. a2[Len(a1) + 1] = "pipes"
    BY <1>1, <2>1
  <2>3. Len(a1) + 1 = m + 2 /\ Len(a1) = m + 1
    BY <1>2, <1>3
  <2> QED
    BY <1>1, <1>2, <2>1, <2>2, <2>3
<1> HIDE DEF a2
<1>5. /\ a3 \in Seq(Step) /\ Len(a3) = m + 2 + n /\ (\A j \in 1..(m + 2) : a3[j] = a2[j])
      /\ \A j \in 1..n : a3[m + 2 + j] = reads[j]
  <2>1. /\ a3 \in Seq(Step) /\ Len(a3) = Len(a2) + Len(reads)
        /\ \A j \in 1..Len(a2) : a3[j] = a2[j]
        /\ \A j \in 1..Len(reads) : a3[Len(a2) + j] = reads[j]
    <3>1. a2 \in Seq(Step)
      BY <1>4
    <3> QED
      BY <1>11, <3>1, Concatenation
  <2> HIDE DEF a3
  <2> QED
    BY <1>2, <1>4, <2>1 DEF n
<1> HIDE DEF a3
<1>6. /\ a4 \in Seq(Step) /\ Len(a4) = m + n + 3 /\ (\A j \in 1..(m + 2 + n) : a4[j] = a3[j])
      /\ a4[m + n + 3] = "work"
  <2>1. /\ a4 \in Seq(Step) /\ Len(a4) = Len(a3) + Len(w)
        /\ \A j \in 1..Len(a3) : a4[j] = a3[j]
        /\ \A j \in 1..Len(w) : a4[Len(a3) + j] = w[j]
    <3>1. w \in Seq(Step) /\ a3 \in Seq(Step)
      BY <1>1, <1>5
    <3> QED
      BY <1>11, <3>1, Concatenation
  <2> HIDE DEF a4
  <2>2. a4[Len(a3) + 1] = "work"
    BY <1>1, <2>1
  <2>3. Len(a3) + 1 = m + n + 3 /\ Len(a3) = m + 2 + n
    BY <1>2, <1>5
  <2> QED
    BY <1>1, <1>2, <2>1, <2>2, <2>3
<1>7. Plan(q.route) = a4
  BY <1>12 DEF Plan, a4, a3, a2, a1, c, p, w
<1> HIDE DEF a4
<1>8. a4[1] = "context" /\ \A j \in 1..m : a4[1 + j] = guards[j]
  <2>1. ASSUME NEW j \in 1..(m + 1) PROVE a4[j] = a1[j]
    <3>1. j \in 1..(m + 2) /\ j \in 1..(m + 2 + n)
      BY <1>2
    <3> QED
      BY <1>4, <1>5, <1>6, <3>1
  <2>2. 1 \in 1..(m + 1) /\ \A j \in 1..m : 1 + j \in 1..(m + 1)
    BY <1>2
  <2> QED
    BY <1>3, <2>1, <2>2
<1>9. a4[m + 2] = "pipes" /\ \A j \in 1..n : a4[m + 2 + j] = reads[j]
  <2>1. m + 2 \in 1..(m + 2) /\ m + 2 \in 1..(m + 2 + n)
    BY <1>2
  <2>2. \A j \in 1..n : m + 2 + j \in 1..(m + 2 + n)
    BY <1>2
  <2> QED
    BY <1>4, <1>5, <1>6, <2>1, <2>2
<1> QED
  BY <1>6, <1>7, <1>8, <1>9 DEF m, n, guards, reads

\* The step a request is at, by its position.
LEMMA Positions ==
  ASSUME NEW q, Course(q), q.todo # <<>>
  PROVE  LET g == Len(q.route.guards)
             r == Len(ReadsOf(q))
             n == Position(q)
         IN  /\ n \in 1..(g + r + 3) /\ Len(q.todo) = g + r + 4 - n /\ Head(q.todo) = q.todo[1]
             /\ \A j \in DOMAIN q.todo : q.todo[j] = Plan(q.route)[n + j - 1]
             /\ q.todo[1] = IF n = 1 THEN "context"
                            ELSE IF n <= g + 1 THEN q.route.guards[n - 1]
                            ELSE IF n = g + 2 THEN "pipes"
                            ELSE IF n <= g + r + 2 THEN ReadsOf(q)[n - g - 2]
                            ELSE "work"
<1> DEFINE g == Len(q.route.guards)
           r == Len(ReadsOf(q))
           n == Position(q)
           plan == Plan(q.route)
<1>1. q.route.guards \in Seq(Step) /\ ReadsOf(q) \in Seq(Step) /\ q.todo \in Seq(Step)
      /\ g \in Nat /\ r \in Nat
  BY RouteLists
<1>2. /\ Len(plan) = g + r + 3 /\ plan[1] = "context"
      /\ \A j \in 1..g : plan[1 + j] = q.route.guards[j]
      /\ plan[g + 2] = "pipes"
      /\ \A j \in 1..r : plan[g + 2 + j] = ReadsOf(q)[j]
      /\ plan[g + r + 3] = "work"
  BY PlanOf
<1>3. Len(q.todo) \in 1..(g + r + 3) /\ n = g + r + 4 - Len(q.todo) /\ 1 \in DOMAIN q.todo
      /\ Head(q.todo) = q.todo[1]
  BY <1>1, <1>2 DEF Course, Position
<1>5. \A j \in DOMAIN q.todo : q.todo[j] = plan[n + j - 1]
  BY DEF Course
<1> HIDE DEF g, r, n, plan
<1>4. n \in 1..(g + r + 3) /\ Len(q.todo) = g + r + 4 - n
  <2> DEFINE l == Len(q.todo)
  <2>1. l \in 1..(g + r + 3) /\ n = g + r + 4 - l /\ g \in Nat /\ r \in Nat
    BY <1>1, <1>3
  <2> HIDE DEF l
  <2>2. n \in 1..(g + r + 3) /\ l = g + r + 4 - n
    BY <2>1
  <2> QED
    BY <2>2 DEF l
<1>6. q.todo[1] = plan[n]
  <2>1. q.todo[1] = plan[n + 1 - 1] /\ n + 1 - 1 = n
    BY <1>3, <1>4, <1>5
  <2> QED
    BY <2>1
<1>7. n \in 2..(g + 1) => plan[n] = q.route.guards[n - 1]
  <2>1. SUFFICES ASSUME n \in 2..(g + 1) PROVE plan[n] = q.route.guards[n - 1]
    OBVIOUS
  <2>2. n - 1 \in 1..g /\ n = 1 + (n - 1)
    BY <1>1, <2>1
  <2> QED
    BY <1>2, <2>2
<1>8. n \in (g + 3)..(g + r + 2) => plan[n] = ReadsOf(q)[n - g - 2]
  <2>1. SUFFICES ASSUME n \in (g + 3)..(g + r + 2) PROVE plan[n] = ReadsOf(q)[n - g - 2]
    OBVIOUS
  <2>2. n - g - 2 \in 1..r /\ n = g + 2 + (n - g - 2)
    BY <1>1, <2>1
  <2> QED
    BY <1>2, <2>2
<1>9. q.todo[1] = IF n = 1 THEN "context"
                  ELSE IF n <= g + 1 THEN q.route.guards[n - 1]
                  ELSE IF n = g + 2 THEN "pipes"
                  ELSE IF n <= g + r + 2 THEN ReadsOf(q)[n - g - 2]
                  ELSE "work"
  <2>1. n = 1 \/ n \in 2..(g + 1) \/ n = g + 2 \/ n \in (g + 3)..(g + r + 2) \/ n = g + r + 3
    BY <1>1, <1>4
  <2>2. CASE n = 1
    BY <1>2, <1>6, <2>2
  <2>3. CASE n \in 2..(g + 1)
    <3>1. n # 1 /\ n <= g + 1
      BY <1>1, <2>3
    <3> QED
      BY <1>6, <1>7, <2>3, <3>1
  <2>4. CASE n = g + 2
    <3>1. n # 1 /\ ~(n <= g + 1)
      BY <1>1, <2>4
    <3> QED
      BY <1>2, <1>6, <2>4, <3>1
  <2>5. CASE n \in (g + 3)..(g + r + 2)
    <3>1. n # 1 /\ ~(n <= g + 1) /\ n # g + 2 /\ n <= g + r + 2
      BY <1>1, <2>5
    <3> QED
      BY <1>6, <1>8, <2>5, <3>1
  <2>6. CASE n = g + r + 3
    <3>1. n # 1 /\ ~(n <= g + 1) /\ n # g + 2 /\ ~(n <= g + r + 2)
      BY <1>1, <2>6
    <3> QED
      BY <1>2, <1>6, <2>6, <3>1
  <2> QED
    BY <2>1, <2>2, <2>3, <2>4, <2>5, <2>6
<1> QED
  BY <1>3, <1>4, <1>5, <1>9 DEF g, r, n, plan

\* The position a request is at, by its step.
LEMMA Where ==
  ASSUME NEW q, Course(q), q.todo # <<>>
  PROVE  LET g == Len(q.route.guards)
             r == Len(ReadsOf(q))
             n == Position(q)
         IN  /\ n = 1 <=> q.todo[1] = "context"
             /\ n = g + 2 <=> q.todo[1] = "pipes"
             /\ n = g + r + 3 <=> q.todo[1] = "work"
             /\ q.todo[1] \in GuardStep \ ReadStep => n < g + 2
             /\ q.todo[1] \in ReadStep \ GuardStep => n > g + 2
             /\ 1 < n /\ n < g + 2 =>
                  /\ q.todo[1] \in GuardStep
                  /\ n - 1 \in DOMAIN q.route.guards /\ q.route.guards[n - 1] = q.todo[1]
             /\ g + 2 < n /\ n < g + r + 3 =>
                  /\ q.todo[1] \in ReadStep
                  /\ n - g - 2 \in DOMAIN ReadsOf(q) /\ ReadsOf(q)[n - g - 2] = q.todo[1]
<1> DEFINE g == Len(q.route.guards)
           r == Len(ReadsOf(q))
           n == Position(q)
<1>1. /\ g \in Nat /\ r \in Nat
      /\ \A j \in 1..g : q.route.guards[j] \in GuardStep
      /\ \A j \in 1..r : ReadsOf(q)[j] \in ReadStep
      /\ DOMAIN q.route.guards = 1..g /\ DOMAIN ReadsOf(q) = 1..r
  BY RouteLists
<1>2. /\ n \in 1..(g + r + 3)
      /\ q.todo[1] = IF n = 1 THEN "context"
                     ELSE IF n <= g + 1 THEN q.route.guards[n - 1]
                     ELSE IF n = g + 2 THEN "pipes"
                     ELSE IF n <= g + r + 2 THEN ReadsOf(q)[n - g - 2]
                     ELSE "work"
  BY Positions
<1>3. {"context", "pipes", "work"} \cap (GuardStep \cup ReadStep) = {}
  BY DEF GuardStep, ReadStep
<1> HIDE DEF g, r, n
<1>4. 1 < n /\ n < g + 2 => n - 1 \in 1..g /\ q.todo[1] = q.route.guards[n - 1] /\ q.todo[1] \in GuardStep
  BY <1>1, <1>2
<1>5. g + 2 < n /\ n < g + r + 3 =>
        n - g - 2 \in 1..r /\ q.todo[1] = ReadsOf(q)[n - g - 2] /\ q.todo[1] \in ReadStep
  BY <1>1, <1>2
<1>6. /\ n = 1 => q.todo[1] = "context"
      /\ n = g + 2 => q.todo[1] = "pipes"
      /\ n = g + r + 3 => q.todo[1] = "work"
  BY <1>1, <1>2
<1>7. n = 1 \/ (1 < n /\ n < g + 2) \/ n = g + 2 \/ (g + 2 < n /\ n < g + r + 3) \/ n = g + r + 3
  BY <1>1, <1>2
<1>8. "context" # "pipes" /\ "context" # "work" /\ "pipes" # "work"
  OBVIOUS
<1>9. /\ n = 1 <=> q.todo[1] = "context"
      /\ n = g + 2 <=> q.todo[1] = "pipes"
      /\ n = g + r + 3 <=> q.todo[1] = "work"
  BY <1>3, <1>4, <1>5, <1>6, <1>7, <1>8
<1>10. /\ q.todo[1] \in GuardStep \ ReadStep => n < g + 2
       /\ q.todo[1] \in ReadStep \ GuardStep => n > g + 2
  BY <1>1, <1>2, <1>3, <1>4, <1>5, <1>6, <1>7
<1> QED
  BY <1>1, <1>4, <1>5, <1>9, <1>10 DEF g, r, n

\* The interceptor runs from the pipes on.
LEMMA Interception ==
  ASSUME NEW q, Course(q), q.todo # <<>>
  PROVE  Interceptible(q) <=> Position(q) >= Len(q.route.guards) + 2
<1> DEFINE g == Len(q.route.guards)
           r == Len(ReadsOf(q))
           n == Position(q)
<1>1. /\ g \in Nat /\ r \in Nat /\ n \in 1..(g + r + 3) /\ Len(q.todo) = g + r + 4 - n
      /\ q.todo \in Seq(Step)
      /\ \A j \in DOMAIN q.todo : q.todo[j] = Plan(q.route)[n + j - 1]
  BY RouteLists, Positions
<1>2. /\ \A j \in 1..r : Plan(q.route)[g + 2 + j] = ReadsOf(q)[j] /\ ReadsOf(q)[j] \in ReadStep
      /\ Plan(q.route)[g + 2] = "pipes" /\ Plan(q.route)[g + r + 3] = "work"
  BY RouteLists, PlanOf
<1>3. DOMAIN q.todo = 1..(g + r + 4 - n)
  BY <1>1
<1> HIDE DEF g, r, n
<1>4. ASSUME n >= g + 2, NEW j \in 2..(g + r + 4 - n) PROVE q.todo[j] # "pipes"
  <2> DEFINE k == n + j - 1
  <2>1. k \in (g + 3)..(g + r + 3) /\ j \in 1..(g + r + 4 - n)
    BY <1>1, <1>4
  <2>2. q.todo[j] = Plan(q.route)[k]
    BY <1>1, <1>3, <2>1
  <2> HIDE DEF k
  <2>3. CASE k = g + r + 3
    BY <1>2, <2>2, <2>3
  <2>4. CASE k # g + r + 3
    <3>1. k - g - 2 \in 1..r /\ k = g + 2 + (k - g - 2)
      BY <1>1, <2>1, <2>4
    <3>2. Plan(q.route)[k] \in ReadStep
      BY <1>2, <3>1
    <3> QED
      BY <2>2, <3>2 DEF ReadStep
  <2> QED
    BY <2>3, <2>4
<1>5. ASSUME n < g + 2 PROVE \E j \in 2..(g + r + 4 - n) : q.todo[j] = "pipes"
  <2>1. g + 3 - n \in 2..(g + r + 4 - n) /\ g + 3 - n \in 1..(g + r + 4 - n)
        /\ n + (g + 3 - n) - 1 = g + 2
    BY <1>1, <1>5
  <2> QED
    BY ZenonT(30), <1>1, <1>2, <1>3, <2>1
<1> QED
  BY <1>1, <1>4, <1>5 DEF Interceptible, g, n

\* The step behind the present one; the work of the use case is the last.
LEMMA Advance ==
  ASSUME NEW q, Course(q), q.todo # <<>>, q.todo[1] # "work",
         NEW r, r \in RequestState, r.todo = Tail(q.todo), r.route = q.route, r.path = q.path
  PROVE  Course(r) /\ r.todo # <<>> /\ Position(r) = Position(q) + 1
<1> DEFINE l == Len(q.todo)
           n == Position(q)
           m == Len(Plan(q.route))
<1>1. q.todo \in Seq(Step) /\ l \in Nat \ {0} /\ l <= m /\ n = m - l + 1 /\ m \in Nat
      /\ \A j \in DOMAIN q.todo : q.todo[j] = Plan(q.route)[n + j - 1]
  <2>1. q.todo \in Seq(Step) /\ l <= m
        /\ \A j \in DOMAIN q.todo : q.todo[j] = Plan(q.route)[n + j - 1]
    BY RouteLists DEF Course
  <2>2. m \in Nat
    BY RouteLists, PlanOf
  <2>3. l \in Nat \ {0} /\ n = m - l + 1
    BY <2>1 DEF Position
  <2> HIDE DEF l, n, m
  <2> QED
    BY <2>1, <2>2, <2>3
<1>2. l # 1
  <2>1. SUFFICES ASSUME l = 1 PROVE q.todo[1] = "work"
    OBVIOUS
  <2>2. Position(q) = Len(q.route.guards) + Len(ReadsOf(q)) + 3
    <3> DEFINE g == Len(q.route.guards)
               k == Len(ReadsOf(q))
    <3>1. g \in Nat /\ k \in Nat /\ l = g + k + 4 - n /\ n \in 1..(g + k + 3)
      BY Positions, RouteLists
    <3> HIDE DEF g, k, n, l
    <3>2. n = g + k + 3
      BY <2>1, <3>1
    <3> QED
      BY <3>2 DEF g, k, n
  <2> QED
    BY <2>2, Where
<1>3. r.todo \in Seq(Step) /\ Len(r.todo) = l - 1 /\ \A j \in 1..(l - 1) : r.todo[j] = q.todo[j + 1]
  BY <1>1
<1>4. Position(r) = n + 1
  <2>1. Position(r) = m - Len(r.todo) + 1
    BY DEF Position
  <2> HIDE DEF l, n, m
  <2> QED
    BY <1>1, <1>3, <2>1
<1>5. \A j \in DOMAIN r.todo : r.todo[j] = Plan(r.route)[Position(r) + j - 1]
  <2>1. SUFFICES ASSUME NEW j \in 1..(l - 1) PROVE r.todo[j] = Plan(q.route)[n + 1 + j - 1]
    BY <1>3, <1>4
  <2>2. j + 1 \in DOMAIN q.todo /\ n + (j + 1) - 1 = n + 1 + j - 1
    <3>1. j + 1 \in 1..l /\ DOMAIN q.todo = 1..l
      BY <1>1
    <3> HIDE DEF n, l, m
    <3> QED
      BY <1>1, <3>1
  <2> HIDE DEF n, l, m
  <2> QED
    BY <1>1, <1>3, <2>2
<1>6. r.todo # <<>> /\ Len(r.todo) <= Len(Plan(r.route))
  <2>1. Len(r.todo) # 0 /\ Len(r.todo) <= m
    <3> HIDE DEF l, m, n
    <3> QED
      BY <1>1, <1>2, <1>3
  <2>2. Len(<<>>) = 0
    OBVIOUS
  <2> HIDE DEF l, n
  <2> QED
    BY <2>1, <2>2
<1> QED
  BY <1>4, <1>5, <1>6 DEF Course

\* Use cases that look a permission up do it first; those that list do nothing else.
LEMMA Reads ==
  ASSUME NEW q, Course(q), q.todo # <<>>
  PROVE  LET g == Len(q.route.guards)
             n == Position(q)
         IN  /\ Twice(q.route.use) =>
                  /\ Len(ReadsOf(q)) >= 3
                  /\ n = g + 3 => q.todo[1] = "seat"
                  /\ n = g + 4 => q.todo[1] = "role"
                  /\ n = g + 5 => q.todo[1] = "codes"
                  /\ n > g + 5 => q.todo[1] \in {"image", "organization", "work"}
             /\ ~Twice(q.route.use) => (n > g + 2 => q.todo[1] \in {"image", "seats", "listing", "work"})
             /\ q.todo[1] \in {"seats", "listing"} \/ q.route.use \in ListingUse =>
                  /\ ReadsOf(q) = <<"seats", "listing">> /\ ~Twice(q.route.use)
                  /\ n = g + 3 <=> q.todo[1] = "seats"
                  /\ n = g + 4 <=> q.todo[1] = "listing"
                  /\ n = g + 5 <=> q.todo[1] = "work"
<1> DEFINE g == Len(q.route.guards)
           r == Len(ReadsOf(q))
           n == Position(q)
           use == q.route.use
<1>1. /\ use \in DOMAIN UseCase /\ g \in Nat /\ r \in Nat /\ n \in 1..(g + r + 3)
      /\ DOMAIN ReadsOf(q) = 1..r
  BY RouteLists, Positions
<1>2. /\ n = g + r + 3 <=> q.todo[1] = "work"
      /\ q.todo[1] \in ReadStep \ GuardStep => n > g + 2
      /\ g + 2 < n /\ n < g + r + 3 => n - g - 2 \in 1..r /\ ReadsOf(q)[n - g - 2] = q.todo[1]
  BY <1>1, Where
<1>3. ASSUME Twice(use)
      PROVE  /\ r >= 3 /\ ReadsOf(q)[1] = "seat" /\ ReadsOf(q)[2] = "role" /\ ReadsOf(q)[3] = "codes"
             /\ \A j \in 1..r : /\ j > 3 => ReadsOf(q)[j] \in {"image", "organization"}
                                /\ ReadsOf(q)[j] \notin {"seats", "listing"}
  BY <1>1, <1>3, ReadsHold DEF ReadsOf
<1>4. ASSUME ~Twice(use)
      PROVE  ReadsOf(q) \in {<<>>, <<"image">>, <<"seats", "listing">>}
  BY <1>1, <1>4, ReadsHold DEF ReadsOf
<1>5. ASSUME use \in ListingUse PROVE ReadsOf(q) = <<"seats", "listing">> /\ ~Twice(use)
  <2>1. ReadsOf(q) = <<"seats", "listing">> /\ use \notin CheckingUse
    BY <1>5, UnauthorizedUses DEF ReadsOf
  <2> QED
    BY <1>1, <2>1, OtherUses
<1> HIDE DEF g, r, n, use
<1>6. ASSUME Twice(use)
      PROVE  /\ n = g + 3 => q.todo[1] = "seat"
             /\ n = g + 4 => q.todo[1] = "role"
             /\ n = g + 5 => q.todo[1] = "codes"
             /\ n > g + 5 => q.todo[1] \in {"image", "organization", "work"}
             /\ q.todo[1] \notin {"seats", "listing"}
  <2>1. n = g + 3 => n - g - 2 = 1 /\ n < g + r + 3
    BY <1>1, <1>3, <1>6
  <2>2. n = g + 4 => n - g - 2 = 2 /\ n < g + r + 3
    BY <1>1, <1>3, <1>6
  <2>3. n = g + 5 => n - g - 2 = 3 /\ n < g + r + 3
    BY <1>1, <1>3, <1>6
  <2>4. n > g + 5 => n - g - 2 > 3 /\ (n < g + r + 3 \/ n = g + r + 3)
    BY <1>1
  <2>5. n = g + 3 \/ n = g + 4 \/ n = g + 5 \/ n > g + 5 => n > g + 2
    BY <1>1
  <2>6. q.todo[1] \in {"seats", "listing"} => g + 2 < n /\ n < g + r + 3
    BY <1>1, <1>2 DEF ReadStep, GuardStep
  <2> QED
    BY <1>1, <1>2, <1>3, <1>6, <2>1, <2>2, <2>3, <2>4, <2>5, <2>6
<1>7. ASSUME ReadsOf(q) = <<"seats", "listing">>
      PROVE  /\ n = g + 3 <=> q.todo[1] = "seats"
             /\ n = g + 4 <=> q.todo[1] = "listing"
             /\ n = g + 5 <=> q.todo[1] = "work"
  <2>1. r = 2 /\ ReadsOf(q)[1] = "seats" /\ ReadsOf(q)[2] = "listing"
    BY <1>7 DEF r
  <2>2. q.todo[1] \in {"seats", "listing"} => n = g + 3 \/ n = g + 4
    BY <1>1, <1>2, <2>1 DEF ReadStep, GuardStep
  <2>3. n = g + 3 => n - g - 2 = 1 /\ n < g + r + 3 /\ g + 2 < n
    BY <1>1, <2>1
  <2>4. n = g + 4 => n - g - 2 = 2 /\ n < g + r + 3 /\ g + 2 < n
    BY <1>1, <2>1
  <2>5. n = g + 5 <=> n = g + r + 3
    BY <1>1, <2>1
  <2> QED
    BY <1>2, <2>1, <2>2, <2>3, <2>4, <2>5
<1>8. ASSUME ~Twice(use), n > g + 2
      PROVE  q.todo[1] \in {"image", "seats", "listing", "work"}
  <2>1. CASE n = g + r + 3
    BY <1>2, <2>1
  <2>2. CASE n < g + r + 3
    <3> DEFINE k == n - g - 2
    <3>1. k \in 1..r /\ ReadsOf(q)[k] = q.todo[1] /\ r = Len(ReadsOf(q))
      BY <1>2, <1>8, <2>2 DEF r
    <3> HIDE DEF k
    <3> QED
      BY <1>4, <1>8, <3>1
  <2> QED
    BY <1>1, <2>1, <2>2
<1>9. ASSUME q.todo[1] \in {"seats", "listing"}, ~Twice(use)
      PROVE  ReadsOf(q) = <<"seats", "listing">>
  <2>1. n > g + 2 /\ n # g + r + 3
    BY <1>2, <1>9 DEF ReadStep, GuardStep
  <2> DEFINE k == n - g - 2
  <2>2. k \in 1..r /\ ReadsOf(q)[k] = q.todo[1] /\ r = Len(ReadsOf(q))
    BY <1>1, <1>2, <2>1 DEF r
  <2> HIDE DEF k
  <2> QED
    BY <1>4, <1>9, <2>2
<1>10. q.todo[1] \in {"seats", "listing"} \/ use \in ListingUse =>
         ReadsOf(q) = <<"seats", "listing">> /\ ~Twice(use)
  BY <1>5, <1>6, <1>9
<1> QED
  BY <1>3, <1>6, <1>7, <1>8, <1>10 DEF g, r, n, use

\* Who looks a permission up names the organization in the path.
LEMMA PathNamed ==
  ASSUME NEW q, Course(q), q.todo # <<>>
  PROVE  /\ q.todo[1] \in {"seat", "role", "codes"} => q.path \in Id
         /\ q.todo[1] \in {"seat", "role", "codes"} /\ Position(q) < Len(q.route.guards) + 2 =>
              Has(q.route.guards, "seat")
         /\ q.todo[1] \in {"seat", "role", "codes"} /\ Position(q) >= Len(q.route.guards) + 2 =>
              Twice(q.route.use)
<1> DEFINE g == Len(q.route.guards)
           r == Len(ReadsOf(q))
           n == Position(q)
<1>1. SUFFICES ASSUME q.todo[1] \in {"seat", "role", "codes"}
               PROVE  /\ q.path \in Id
                      /\ n < g + 2 => Has(q.route.guards, "seat")
                      /\ n >= g + 2 => Twice(q.route.use)
  OBVIOUS
<1>2. /\ g \in Nat /\ r \in Nat /\ n \in 1..(g + r + 3)
      /\ RouteInv(q.route) /\ Checked(q.route.guards)
  BY RouteLists, Positions
<1>3. ASSUME n < g + 2 PROVE Has(q.route.guards, "seat")
  <2>1. n - 1 \in DOMAIN q.route.guards /\ q.route.guards[n - 1] = q.todo[1]
    BY <1>1, <1>2, <1>3, Where
  <2> HIDE DEF n
  <2> QED
    BY <1>1, <1>2, <2>1 DEF Checked, Has
<1>4. ASSUME n >= g + 2 PROVE Twice(q.route.use)
  <2>1. n # g + 2
    BY <1>1, Where
  <2> QED
    BY <1>1, <1>2, <1>4, <2>1, Reads
<1>5. q.route.path = TRUE
  BY <1>2, <1>3, <1>4 DEF RouteInv
<1> QED
  BY <1>3, <1>4, <1>5 DEF Course

\* What follows what.
LEMMA Following ==
  ASSUME NEW q, Course(q), q.todo # <<>>, NEW r, Course(r), r.todo # <<>>, r.route = q.route,
         Position(r) = Position(q) + 1
  PROVE  /\ r.todo[1] = "role" => q.todo[1] = "seat"
         /\ r.todo[1] = "codes" => q.todo[1] = "role"
         /\ r.todo[1] = "listing" <=> q.todo[1] = "seats"
         /\ r.todo[1] = "work" /\ r.route.use \in ListingUse => q.todo[1] = "listing"
         /\ \A step : Passed(r, step) =>
              Passed(q, step) \/ (q.todo[1] = step /\ Position(q) < Len(q.route.guards) + 2)
         /\ Twice(q.route.use) /\ Position(r) > Len(r.route.guards) + 5 =>
              Position(q) > Len(q.route.guards) + 5
                \/ (q.todo[1] = "codes" /\ Position(q) > Len(q.route.guards) + 2)
<1> DEFINE g == Len(q.route.guards)
           k == Len(ReadsOf(q))
           n == Position(q)
<1>1. /\ g \in Nat /\ k \in Nat /\ n \in 1..(g + k + 3) /\ n + 1 \in 1..(g + k + 3)
      /\ ReadsOf(r) = ReadsOf(q)
      /\ Checked(q.route.guards) /\ Checked(ReadsOf(q))
      /\ DOMAIN q.route.guards = 1..g /\ DOMAIN ReadsOf(q) = 1..k
  <2>1. /\ g \in Nat /\ k \in Nat /\ n \in 1..(g + k + 3) /\ ReadsOf(r) = ReadsOf(q)
        /\ Checked(q.route.guards) /\ Checked(ReadsOf(q))
        /\ DOMAIN q.route.guards = 1..g /\ DOMAIN ReadsOf(q) = 1..k
    BY RouteLists, Positions DEF ReadsOf
  <2>2. Position(r) \in 1..(g + k + 3)
    BY <2>1, Positions
  <2> QED
    BY <2>1, <2>2
<1>2. /\ 1 < n /\ n < g + 2 => n - 1 \in 1..g /\ q.route.guards[n - 1] = q.todo[1]
      /\ g + 2 < n /\ n < g + k + 3 => n - g - 2 \in 1..k /\ ReadsOf(q)[n - g - 2] = q.todo[1]
  BY <1>1, Where
<1>3. /\ n + 1 < g + 2 => n \in 1..g /\ q.route.guards[n] = r.todo[1]
      /\ g + 2 < n + 1 /\ n + 1 < g + k + 3 => n - g - 1 \in 1..k /\ ReadsOf(q)[n - g - 1] = r.todo[1]
      /\ n + 1 = g + 2 <=> r.todo[1] = "pipes"
      /\ n + 1 = g + k + 3 <=> r.todo[1] = "work"
  <2>1. LET m == Position(r)
        IN  /\ m = g + 2 <=> r.todo[1] = "pipes"
            /\ m = g + k + 3 <=> r.todo[1] = "work"
            /\ 1 < m /\ m < g + 2 => m - 1 \in DOMAIN q.route.guards /\ q.route.guards[m - 1] = r.todo[1]
            /\ g + 2 < m /\ m < g + k + 3 =>
                 m - g - 2 \in DOMAIN ReadsOf(q) /\ ReadsOf(q)[m - g - 2] = r.todo[1]
    BY <1>1, Where
  <2>2. n + 1 - 1 = n /\ n + 1 - g - 2 = n - g - 1 /\ 1 < n + 1 /\ Position(r) = n + 1
    BY SMTT(30), <1>1
  <2> HIDE DEF g, k, n
  <2> QED
    BY <1>1, <2>1, <2>2
<1> HIDE DEF g, k, n
<1>4. ASSUME r.todo[1] \in {"role", "codes"}
      PROVE  q.todo[1] = IF r.todo[1] = "role" THEN "seat" ELSE "role"
  <2>1. CASE n + 1 < g + 2
    <3>1. n - 1 \in 1..g /\ q.route.guards[n - 1] = IF r.todo[1] = "role" THEN "seat" ELSE "role"
      <4>1. n \in DOMAIN q.route.guards /\ q.route.guards[n] = r.todo[1]
        BY <1>1, <1>3, <2>1
      <4>2. /\ r.todo[1] = "role" =>
                 n - 1 \in DOMAIN q.route.guards /\ q.route.guards[n - 1] = "seat"
            /\ r.todo[1] = "codes" =>
                 n - 1 \in DOMAIN q.route.guards /\ q.route.guards[n - 1] = "role"
        BY <1>1, <4>1 DEF Checked
      <4> QED
        BY <1>1, <1>4, <4>2
    <3>2. 1 < n /\ n < g + 2
      BY <1>1, <2>1, <3>1
    <3> QED
      BY <1>2, <3>1, <3>2
  <2>2. CASE g + 2 < n + 1 /\ n + 1 < g + k + 3
    <3> DEFINE j == n - g - 1
    <3>1. j - 1 \in 1..k /\ ReadsOf(q)[j - 1] = IF r.todo[1] = "role" THEN "seat" ELSE "role"
      <4>1. j \in 1..k /\ ReadsOf(q)[j] = r.todo[1]
        BY <1>3, <2>2
      <4> HIDE DEF j
      <4>2. /\ r.todo[1] = "role" => j - 1 \in DOMAIN ReadsOf(q) /\ ReadsOf(q)[j - 1] = "seat"
            /\ r.todo[1] = "codes" => j - 1 \in DOMAIN ReadsOf(q) /\ ReadsOf(q)[j - 1] = "role"
        BY <1>1, <4>1 DEF Checked
      <4> QED
        BY <1>1, <1>4, <4>2
    <3>2. j - 1 = n - g - 2 /\ g + 2 < n /\ n < g + k + 3
      BY <1>1, <2>2, <3>1
    <3> QED
      BY <1>2, <3>1, <3>2
  <2>3. n + 1 # g + 2 /\ n + 1 # g + k + 3
    BY <1>3, <1>4
  <2> QED
    BY <1>1, <2>1, <2>2, <2>3
<1>5. ASSUME NEW step, Passed(r, step)
      PROVE  Passed(q, step) \/ (q.todo[1] = step /\ n < g + 2)
  <2>1. PICK j \in 1..g : j + 1 < n + 1 /\ q.route.guards[j] = step
    BY <1>1, <1>5 DEF Passed, n
  <2>2. CASE j + 1 < n
    BY <1>1, <2>1, <2>2 DEF Passed, n
  <2>3. CASE ~(j + 1 < n)
    <3>1. j = n - 1 /\ 1 < n /\ n < g + 2
      BY <1>1, <2>1, <2>3
    <3> QED
      BY <1>2, <2>1, <3>1
  <2> QED
    BY <2>2, <2>3
<1>6. Twice(q.route.use) /\ n + 1 > g + 5 => n > g + 5 \/ (q.todo[1] = "codes" /\ n > g + 2)
  <2>1. Twice(q.route.use) => (n = g + 5 => q.todo[1] = "codes")
    BY Reads DEF n, g
  <2> QED
    BY <1>1, <2>1
<1>7. r.todo[1] = "listing" => q.todo[1] = "seats"
  <2>1. SUFFICES ASSUME r.todo[1] = "listing" PROVE q.todo[1] = "seats"
    OBVIOUS
  <2>2. Position(r) = g + 4 /\ ReadsOf(q) = <<"seats", "listing">>
    BY <1>1, <2>1, Reads DEF g
  <2>3. n = g + 3 /\ k = 2 /\ ReadsOf(q)[1] = "seats"
    BY <1>1, <2>2 DEF n, k
  <2>4. n - g - 2 = 1 /\ g + 2 < n /\ n < g + k + 3
    BY <1>1, <2>3
  <2> QED
    BY <1>2, <2>3, <2>4
<1>9. q.todo[1] = "seats" => r.todo[1] = "listing"
  <2>1. SUFFICES ASSUME q.todo[1] = "seats" PROVE r.todo[1] = "listing"
    OBVIOUS
  <2>2. n = g + 3 /\ ReadsOf(q) = <<"seats", "listing">>
    BY <2>1, Reads DEF g, n
  <2>3. k = 2 /\ ReadsOf(q)[2] = "listing"
    BY <2>2 DEF k
  <2>4. n - g - 1 = 2 /\ g + 2 < n + 1 /\ n + 1 < g + k + 3
    BY <1>1, <2>2, <2>3
  <2> QED
    BY <1>3, <2>3, <2>4
<1>8. r.todo[1] = "work" /\ r.route.use \in ListingUse => q.todo[1] = "listing"
  <2>1. SUFFICES ASSUME r.todo[1] = "work", r.route.use \in ListingUse PROVE q.todo[1] = "listing"
    OBVIOUS
  <2>2. n + 1 = g + 5
    BY <2>1, Reads DEF g, n
  <2>3. n = g + 4
    BY <1>1, <2>2
  <2> QED
    BY <2>1, <2>3, Reads DEF g, n
<1> QED
  BY <1>4, <1>5, <1>6, <1>7, <1>8, <1>9 DEF g, n
-----------------------------------------------------------------------------
(* The facts.                                                              *)

\* What a seat names; facts of different kinds differ.
LEMMA Seats ==
  /\ \A u, o, i : Seat(u, o, i) \in Fact => u \in User /\ o \in Org /\ i \in Role
  /\ \A u, o, i, v, p, j : Seat(u, o, i) = Seat(v, p, j) => u = v /\ o = p /\ i = j
  /\ \A u, o, i, x, p : /\ Seat(u, o, i) # RoleExists(x) /\ Seat(u, o, i) # OrgExists(x)
                        /\ Seat(u, o, i) # Admin(x) /\ Seat(u, o, i) # Grant(x, p)
BY DEF Seat, Fact, LiveSession, RoleExists, Grant, OrgExists, Admin

\* A membership has one role also for who is nobody, or where nothing is.
LEMMA OneSeatEver ==
  ASSUME NEW f, NEW e, NEW k, FactsInv(f, e, k), NEW u, NEW o, NEW i, NEW j,
         Seat(u, o, i) \in f, Seat(u, o, j) \in f
  PROVE  i = j
<1>1. u \in User /\ o \in Org /\ i \in Role /\ j \in Role
  BY Seats DEF FactsInv
<1> QED
  BY <1>1 DEF FactsInv, OneSeat

\* What is known of a request in flight stays known when the facts change: it
\* held at some moment, or it was to be there at all of them.
LEMMA Monotonic ==
  ASSUME NEW q, NEW e, NEW k, RequestInv(q, e, k), q.todo # <<>>,
         NEW e2, NEW k2, e \subseteq e2, k2 \subseteq k
  PROVE  RequestInv(q, e2, k2)
<1>1. Course(q) /\ Found(q, e) /\ q.answer = None /\ Learnt(q, e) /\ Noticed(q, k) /\ Complete(q, k)
  BY DEF RequestInv
<1>2. /\ \A o : MemberOf(q, e, o) => MemberOf(q, e2, o)
      /\ \A o : MemberOf(q, k2, o) => MemberOf(q, k, o)
      /\ \A o, need : MayOf(q, e, o, need) => MayOf(q, e2, o, need)
  BY DEF MemberOf, MayOf
<1>3. Found(q, e2)
  BY <1>1, <1>2 DEF Found
<1>4. Learnt(q, e2)
  BY <1>1, <1>2 DEF Learnt
<1>5. Noticed(q, k2)
  BY <1>1, <1>2 DEF Noticed
<1>6. Complete(q, k2)
  BY <1>1 DEF Complete
<1> QED
  BY <1>1, <1>3, <1>4, <1>5, <1>6 DEF RequestInv
-----------------------------------------------------------------------------
(* A step that lets the request go on.                                     *)

NeedOf(q) == IF Interceptible(q) THEN UseCase[q.route.use].need ELSE q.route.need

\* Each step that is passed teaches something about the facts.
Lesson(q, r, facts) ==
  /\ r.route = q.route /\ r.session = q.session /\ r.cookie = q.cookie /\ r.path = q.path
  /\ r.at = q.at /\ r.pending = q.pending /\ r.found = q.found /\ r.listed = q.listed
  /\ r.answer = q.answer /\ r.todo = Tail(q.todo) /\ r \in RequestState
  /\ q.todo # <<>> /\ q.todo[1] # "work"
  /\ IF q.todo[1] = "context"
     THEN /\ r.active # None => r.active = q.cookie /\ MemberOf(q, facts, q.cookie)
          /\ ~r.blind /\ MemberOf(q, facts, q.cookie) => r.active = q.cookie
     ELSE r.active = q.active /\ r.blind = q.blind
  /\ q.todo[1] = "session" => q.session # None /\ LiveSession(q.session) \in facts
  /\ q.todo[1] = "activeOrg" => q.active # None /\ q.path \in {q.active, None}
  /\ q.todo[1] = "admin" => Admin(CallerOf(q)) \in facts
  /\ q.todo[1] = "seat" => r.role \in Role /\ Seat(CallerOf(q), q.path, r.role) \in facts
  /\ q.todo[1] = "role" => r.role = q.role /\ RoleExists(q.role) \in facts
  /\ q.todo[1] = "codes" => NeedOf(q) = "none" \/ Grant(q.role, NeedOf(q)) \in facts
  /\ IF q.todo[1] = "seats"
     THEN r.seats = {p \in Org \X Role : Seat(CallerOf(q), p[1], p[2]) \in facts}
     ELSE r.seats = q.seats
  /\ q.todo[1] = "listing" => q.at = None /\ q.seats = {}

\* A request that has learnt what the step teaches keeps the invariant.
LEMMA Passing ==
  ASSUME NEW q, NEW f, NEW e, NEW k, FactsInv(f, e, k), RequestInv(q, e, k),
         NEW r, Lesson(q, r, f)
  PROVE  RequestInv(r, e, k)
<1> DEFINE g == Len(q.route.guards)
           n == Position(q)
<1>1. Course(q) /\ Found(q, e) /\ q.answer = None /\ Learnt(q, e) /\ Noticed(q, k) /\ Complete(q, k)
      /\ q.todo # <<>>
  BY DEF RequestInv, Lesson
<1>2. k \subseteq f /\ f \subseteq e
  BY DEF FactsInv
<1>3. Course(r) /\ r.todo # <<>> /\ Position(r) = n + 1 /\ r.route = q.route
  BY ZenonT(30), <1>1, Advance DEF Lesson
<1>4. /\ r.todo[1] = "role" => q.todo[1] = "seat"
      /\ r.todo[1] = "codes" => q.todo[1] = "role"
      /\ r.todo[1] = "listing" <=> q.todo[1] = "seats"
      /\ r.todo[1] = "work" /\ r.route.use \in ListingUse => q.todo[1] = "listing"
      /\ \A step : Passed(r, step) => Passed(q, step) \/ (q.todo[1] = step /\ n < g + 2)
      /\ Twice(q.route.use) /\ Position(r) > g + 5 =>
           n > g + 5 \/ (q.todo[1] = "codes" /\ n > g + 2)
  BY <1>1, <1>3, Following
<1>5. g \in Nat /\ n \in Nat \ {0} /\ (n = 1 <=> q.todo[1] = "context")
      /\ (Interceptible(q) <=> n >= g + 2)
  BY <1>1, RouteLists, Positions, Where, Interception
<1>6. /\ CallerOf(r) = CallerOf(q) /\ r.cookie = q.cookie /\ r.path = q.path /\ r.session = q.session
      /\ \A facts, o : MemberOf(r, facts, o) = MemberOf(q, facts, o)
      /\ \A facts, o, need : MayOf(r, facts, o, need) = MayOf(q, facts, o, need)
  BY DEF Lesson, CallerOf, MemberOf, MayOf
<1>7. /\ \A o : MemberOf(q, f, o) => MemberOf(q, e, o)
      /\ \A o : MemberOf(q, k, o) => MemberOf(q, f, o)
  BY <1>2 DEF MemberOf
<1> HIDE DEF g, n
<1>8. Found(r, e)
  <2>1. r.at = q.at /\ r.pending = q.pending /\ r.found = q.found /\ r.listed = q.listed
    BY DEF Lesson
  <2>2. \A p \in r.seats : Seat(CallerOf(q), p[1], p[2]) \in e
    BY <1>1, <1>2 DEF Lesson, Found
  <2>3. \A o \in r.listed : MayOf(r, e, o, "none") /\ OrgExists(o) \in e
    BY <1>1, <1>6, <2>1 DEF Found
  <2>4. r.at # None =>
          /\ r.pending \subseteq {OrgExists(r.at[1]), RoleExists(r.at[2])}
          /\ Seat(CallerOf(r), r.at[1], r.at[2]) \in e
          /\ r.found => {OrgExists(r.at[1]), RoleExists(r.at[2])} \ r.pending \subseteq e
    BY <1>1, <1>6, <2>1 DEF Found
  <2>5. r.at = None => r.pending = {}
    BY <1>1, <2>1 DEF Found
  <2> QED
    BY <1>6, <2>2, <2>3, <2>4, <2>5 DEF Found
<1>9. q.todo[1] = "codes" =>
        IF n < g + 2 THEN MayOf(q, e, q.path, q.route.need)
        ELSE MayOf(q, e, q.path, UseCase[q.route.use].need)
  <2>1. SUFFICES ASSUME q.todo[1] = "codes" PROVE MayOf(q, e, q.path, NeedOf(q))
    BY <1>5 DEF NeedOf
  <2>2. q.role \in Role /\ Seat(CallerOf(q), q.path, q.role) \in e /\ RoleExists(q.role) \in e
    BY <1>1, <2>1 DEF Learnt
  <2>3. NeedOf(q) = "none" \/ Grant(q.role, NeedOf(q)) \in e
    BY <1>2, <2>1 DEF Lesson
  <2> QED
    BY <2>2, <2>3 DEF MayOf
<1>10. Learnt(r, e)
  <2>9. Position(r) > 1
    BY <1>3, <1>5
  <2>1. r.active # None => r.active = r.cookie /\ MemberOf(r, e, r.active)
    <3>1. CASE q.todo[1] = "context"
      <4>1. r.active # None => r.active = q.cookie /\ MemberOf(q, f, q.cookie)
        BY <3>1 DEF Lesson
      <4> QED
        BY <1>6, <1>7, <4>1
    <3>2. CASE q.todo[1] # "context"
      <4>1. r.active = q.active /\ (q.active # None => q.active = q.cookie /\ MemberOf(q, e, q.active))
        BY <1>1, <3>2 DEF Lesson, Learnt
      <4> QED
        BY <1>6, <4>1
    <3> QED
      BY <3>1, <3>2
  <2>2. Passed(r, "session") => r.session # None /\ LiveSession(r.session) \in e
    BY <1>1, <1>2, <1>4, <1>6 DEF Lesson, Learnt
  <2>3. Passed(r, "activeOrg") => r.active # None /\ r.path \in {r.active, None}
    <3>1. SUFFICES ASSUME Passed(r, "activeOrg") PROVE r.active # None /\ r.path \in {r.active, None}
      OBVIOUS
    <3>2. Passed(q, "activeOrg") \/ q.todo[1] = "activeOrg"
      BY <1>4, <3>1
    <3>3. q.todo[1] # "context"
      <4>1. Passed(q, "activeOrg") => n # 1
        BY <1>1, <1>5, RouteLists DEF Passed, n
      <4> QED
        BY <1>5, <3>2, <4>1
    <3> QED
      BY <1>1, <1>6, <3>2, <3>3 DEF Lesson, Learnt
  <2>4. Passed(r, "admin") => Admin(CallerOf(r)) \in e
    BY <1>1, <1>2, <1>4, <1>6 DEF Lesson, Learnt
  <2>5. Passed(r, "codes") => MayOf(r, e, r.path, r.route.need)
    <3>1. Passed(r, "codes") => Passed(q, "codes") \/ (q.todo[1] = "codes" /\ n < g + 2)
      BY <1>4
    <3>2. Passed(q, "codes") => MayOf(q, e, q.path, q.route.need)
      BY <1>1 DEF Learnt
    <3>3. Passed(r, "codes") => MayOf(q, e, q.path, q.route.need)
      BY <1>9, <3>1, <3>2
    <3> QED
      BY <1>3, <1>6, <3>3
  <2>6. Twice(r.route.use) /\ Position(r) > Len(r.route.guards) + 5 =>
          MayOf(r, e, r.path, UseCase[r.route.use].need)
    <3>1. n > g + 2 => ~(n < g + 2)
      BY <1>5
    <3>2. Twice(q.route.use) /\ n > g + 5 => MayOf(q, e, q.path, UseCase[q.route.use].need)
      BY <1>1 DEF Learnt, g, n
    <3>3. Twice(q.route.use) /\ Position(r) > g + 5 => MayOf(q, e, q.path, UseCase[q.route.use].need)
      BY <1>4, <1>9, <3>1, <3>2
    <3> QED
      BY <1>3, <1>6, <3>3 DEF g
  <2>7. r.todo[1] \in {"role", "codes"} =>
          r.role \in Role /\ Seat(CallerOf(r), r.path, r.role) \in e
    BY <1>1, <1>2, <1>4, <1>6 DEF Lesson, Learnt
  <2>8. r.todo[1] = "codes" => RoleExists(r.role) \in e
    BY <1>2, <1>4 DEF Lesson
  <2> QED
    BY <2>1, <2>2, <2>3, <2>4, <2>5, <2>6, <2>7, <2>8, <2>9 DEF Learnt
<1>11. Noticed(r, k)
  <2>1. ~r.blind /\ MemberOf(r, k, r.cookie) => r.active = r.cookie
    <3>1. CASE q.todo[1] = "context"
      BY <1>6, <1>7, <3>1 DEF Lesson
    <3>2. CASE q.todo[1] # "context"
      <4>1. n > 1
        BY <1>5, <3>2
      <4> QED
        BY <1>1, <1>6, <3>2, <4>1 DEF Lesson, Noticed, n
    <3> QED
      BY <3>1, <3>2
  <2>2. ASSUME r.todo[1] \in {"role", "codes"}, NEW i \in Role, Seat(CallerOf(r), r.path, i) \in k
        PROVE  i = r.role
    <3>1. CASE q.todo[1] = "seat"
      <4>1. Seat(CallerOf(q), q.path, i) \in f /\ Seat(CallerOf(q), q.path, r.role) \in f
        BY <1>2, <1>6, <2>2, <3>1 DEF Lesson
      <4> QED
        BY <4>1, OneSeatEver
    <3>2. CASE q.todo[1] = "role"
      BY <1>1, <1>6, <2>2, <3>2 DEF Lesson, Noticed
    <3> QED
      BY <1>4, <2>2, <3>1, <3>2
  <2> QED
    BY <2>1, <2>2 DEF Noticed
<1>12. Complete(r, k)
  <2>1. r.at # None \/ r.seats # {} => r.todo[1] = "listing"
    BY <1>1, <1>4 DEF Lesson, Complete
  <2>2. ASSUME r.todo[1] = "listing" \/ (r.todo[1] = "work" /\ r.route.use \in ListingUse),
               NEW o \in Org, NEW i \in Role,
               {Seat(CallerOf(r), o, i), RoleExists(i), OrgExists(o)} \subseteq k
        PROVE  o \in r.listed \/ <<o, i>> \in r.seats \/ (r.at = <<o, i>> /\ r.found)
    <3>1. CASE q.todo[1] = "seats"
      <4> DEFINE p == <<o, i>>
      <4>1. p \in Org \X Role /\ p[1] = o /\ p[2] = i
        OBVIOUS
      <4>2. Seat(CallerOf(q), p[1], p[2]) \in f
        BY <1>2, <1>6, <2>2, <4>1
      <4> HIDE DEF p
      <4>3. p \in r.seats
        BY <3>1, <4>1, <4>2 DEF Lesson
      <4> QED
        BY <4>3 DEF p
    <3>2. CASE q.todo[1] = "listing"
      <4>1. q.at = None /\ q.seats = {} /\ r.listed = q.listed /\ r.at = q.at /\ r.seats = q.seats
            /\ r.found = q.found
        BY <3>2 DEF Lesson
      <4>2. o \in q.listed \/ <<o, i>> \in q.seats \/ (q.at = <<o, i>> /\ q.found)
        BY <1>1, <1>6, <2>2, <3>2 DEF Complete
      <4> QED
        BY <4>1, <4>2
    <3> QED
      BY <1>4, <2>2, <3>1, <3>2
  <2> QED
    BY <2>1, <2>2 DEF Complete
<1>13. r.answer = None
  BY <1>1 DEF Lesson
<1> QED
  BY <1>3, <1>8, <1>10, <1>11, <1>12, <1>13 DEF RequestInv
-----------------------------------------------------------------------------
(* A step that ends the request.                                           *)

\* Past the guards all of them have been passed; past the look-up of the use
\* case that one, too.
LEMMA Past ==
  ASSUME NEW q, NEW e, Course(q), q.todo # <<>>, Learnt(q, e),
         Position(q) >= Len(q.route.guards) + 2
  PROVE  /\ AdmittedOf(q, e)
         /\ (Twice(q.route.use) => Position(q) > Len(q.route.guards) + 5) => AuthorizedOf(q, e)
<1> DEFINE g == Len(q.route.guards)
           n == Position(q)
<1>1. g \in Nat /\ n \in Nat /\ n >= g + 2 /\ DOMAIN q.route.guards = 1..g
      /\ RouteInv(q.route) /\ Checked(q.route.guards)
  BY RouteLists, Positions
<1>2. \A step : Has(q.route.guards, step) => Passed(q, step)
  <2>1. \A j \in 1..g : j + 1 < n
    <3> HIDE DEF g, n
    <3> QED
      BY <1>1
  <2> QED
    BY <1>1, <2>1 DEF Has, Passed
<1>3. Has(q.route.guards, "seat") => Has(q.route.guards, "codes")
  BY <1>1 DEF Has, Checked
<1>4. Has(q.route.guards, "activeOrg") => q.path = q.cookie /\ MemberOf(q, e, q.path)
  <2>1. SUFFICES ASSUME Has(q.route.guards, "activeOrg")
                 PROVE  q.path = q.cookie /\ MemberOf(q, e, q.path)
    OBVIOUS
  <2>2. q.active # None /\ q.path \in {q.active, None}
    BY <1>2, <2>1 DEF Learnt
  <2>3. q.path \in Id
    BY <1>1, <2>1 DEF RouteInv, Course
  <2>4. None \notin Id
    BY IdAssumption DEF Id
  <2>5. q.path = q.active
    BY <2>2, <2>3, <2>4
  <2> QED
    BY <2>2, <2>5 DEF Learnt
<1>5. AdmittedOf(q, e)
  BY <1>2, <1>3, <1>4 DEF AdmittedOf, Learnt
<1> QED
  BY <1>5 DEF AuthorizedOf, Learnt

\* Who is entitled throughout has in hand what the next step asks for.
LEMMA Standing ==
  ASSUME NEW q, NEW f, NEW e, NEW k, FactsInv(f, e, k), RequestInv(q, e, k), q.todo # <<>>,
         Has(q.route.guards, "session"), AuthorizedOf(q, k), ~q.blind
  PROVE  /\ q.todo[1] # "google"
         /\ q.todo[1] = "session" => q.session # None /\ LiveSession(q.session) \in f
         /\ q.todo[1] = "activeOrg" => q.active # None /\ q.path \in {q.active, None}
         /\ q.todo[1] = "admin" => Admin(CallerOf(q)) \in f
         /\ q.todo[1] = "seat" => \E i \in Role : Seat(CallerOf(q), q.path, i) \in f
         /\ q.todo[1] = "role" => RoleExists(q.role) \in f
         /\ q.todo[1] = "codes" => NeedOf(q) = "none" \/ Grant(q.role, NeedOf(q)) \in f
         /\ q.route.use \notin {"login", "refreshToken"}
<1> DEFINE g == Len(q.route.guards)
           n == Position(q)
<1>1. Course(q) /\ Noticed(q, k) /\ AdmittedOf(q, k) /\ k \subseteq f /\ f \subseteq e
  BY DEF RequestInv, AuthorizedOf, FactsInv
<1>2. g \in Nat /\ n \in Nat \ {0} /\ RouteInv(q.route) /\ DOMAIN q.route.guards = 1..g
      /\ (n = 1 <=> q.todo[1] = "context")
      /\ (Interceptible(q) <=> n >= g + 2)
  BY SMTT(30), <1>1, RouteLists, Positions, Where, Interception
<1>3. q.todo[1] \in GuardStep \ ReadStep => Has(q.route.guards, q.todo[1])
  <2>1. SUFFICES ASSUME q.todo[1] \in GuardStep \ ReadStep PROVE Has(q.route.guards, q.todo[1])
    OBVIOUS
  <2>2. q.todo[1] # "context"
    BY <2>1 DEF GuardStep
  <2>3. 1 < n /\ n < g + 2
    BY <1>1, <1>2, <2>1, <2>2, Where
  <2>4. n - 1 \in DOMAIN q.route.guards /\ q.route.guards[n - 1] = q.todo[1]
    BY <1>1, <2>3, Where
  <2> QED
    BY <2>4 DEF Has
<1>4. {"google", "session", "activeOrg", "admin"} \subseteq GuardStep \ ReadStep
  BY DEF GuardStep, ReadStep
<1>5. q.todo[1] # "google" /\ q.route.use \notin {"login", "refreshToken"}
  BY <1>2, <1>3, <1>4 DEF RouteInv
<1>6. q.todo[1] = "session" => q.session # None /\ LiveSession(q.session) \in f
  BY <1>1 DEF AdmittedOf
<1>7. q.todo[1] = "admin" => Admin(CallerOf(q)) \in f
  BY <1>1, <1>3, <1>4 DEF AdmittedOf
<1>8. ASSUME q.todo[1] = "activeOrg" PROVE q.active # None /\ q.path \in {q.active, None}
  <2>1. q.path = q.cookie /\ MemberOf(q, k, q.cookie)
    BY <1>1, <1>3, <1>4, <1>8 DEF AdmittedOf
  <2>2. n > 1
    BY <1>2, <1>8
  <2>3. q.active = q.cookie
    BY <1>1, <2>1, <2>2 DEF Noticed
  <2>4. q.path \in Id
    BY <1>1, <1>2, <1>3, <1>4, <1>8 DEF RouteInv, Course
  <2>5. None \notin Id
    BY IdAssumption DEF Id
  <2> QED
    BY <2>1, <2>3, <2>4, <2>5
<1>9. q.todo[1] \in {"seat", "role", "codes"} => MayOf(q, k, q.path, NeedOf(q))
  <2>1. SUFFICES ASSUME q.todo[1] \in {"seat", "role", "codes"} PROVE MayOf(q, k, q.path, NeedOf(q))
    OBVIOUS
  <2>2. CASE n < g + 2
    <3>1. Has(q.route.guards, "seat") /\ NeedOf(q) = q.route.need
      BY <1>1, <1>2, <2>1, <2>2, PathNamed DEF NeedOf
    <3> QED
      BY <1>1, <3>1 DEF AdmittedOf
  <2>3. CASE n >= g + 2
    <3>1. Twice(q.route.use) /\ NeedOf(q) = UseCase[q.route.use].need
      BY <1>1, <1>2, <2>1, <2>3, PathNamed DEF NeedOf
    <3> QED
      BY <3>1 DEF AuthorizedOf
  <2> QED
    BY <1>2, <2>2, <2>3
<1>10. ASSUME q.todo[1] \in {"seat", "role", "codes"}
       PROVE  \E i \in Role : /\ {Seat(CallerOf(q), q.path, i), RoleExists(i)} \subseteq f
                              /\ NeedOf(q) = "none" \/ Grant(i, NeedOf(q)) \in f
                              /\ q.todo[1] # "seat" => i = q.role
  <2>1. PICK i \in Role : /\ {Seat(CallerOf(q), q.path, i), RoleExists(i)} \subseteq k
                          /\ NeedOf(q) = "none" \/ Grant(i, NeedOf(q)) \in k
    BY <1>9, <1>10 DEF MayOf
  <2>2. q.todo[1] # "seat" => i = q.role
    BY <1>1, <1>10, <2>1 DEF Noticed
  <2> QED
    BY <1>1, <2>1, <2>2
<1>11. /\ q.todo[1] = "seat" => \E i \in Role : Seat(CallerOf(q), q.path, i) \in f
       /\ q.todo[1] = "role" => RoleExists(q.role) \in f
       /\ q.todo[1] = "codes" => NeedOf(q) = "none" \/ Grant(q.role, NeedOf(q)) \in f
  BY <1>10
<1> QED
  BY <1>5, <1>6, <1>7, <1>8, <1>11

\* The request, refused.
Refused(q, err) ==
  [q EXCEPT !.todo = <<>>,
     !.answer = [status |-> AnswerStatus(err, q.route.filters), error |-> err,
                 access |-> IF Interceptible(q) THEN LoggedStatus(err) ELSE 0,
                 logged |-> LogsError(err, q.route.filters), listed |-> {}]]

\* The errors that say nothing of the tables to a stranger, and those that an
\* entitled caller is never shown.
Discreet == {"Unauthorized", "Forbidden", "PermissionDenied", "BadRequest", "TooManyRequests",
             "QueryFailed"}
Denial == {"Unauthorized", "Forbidden", "PermissionDenied"}

\* What makes an error a good one to end the request with.
Justified(q, e, k, err) ==
  /\ err \in Error
  /\ err \in DomainError => q.route.filters = <<"domain">>
  /\ err \notin Discreet => AuthorizedOf(q, e)
  /\ err \in Denial => ~(Has(q.route.guards, "session") /\ AuthorizedOf(q, k) /\ ~q.blind)

\* A request refused with such an error keeps the invariant.
LEMMA Refusing ==
  ASSUME NEW q, NEW e, NEW k, RequestInv(q, e, k), q.todo # <<>>, NEW err, Justified(q, e, k, err)
  PROVE  RequestInv(Refused(q, err), e, k)
<1> DEFINE r == Refused(q, err)
           filters == q.route.filters
<1>1. Course(q) /\ Found(q, e) /\ Learnt(q, e) /\ err \in Error
  BY DEF RequestInv, Justified
<1>2. filters \in {<<"domain">>, <<>>}
  BY <1>1, RouteLists DEF RouteInv
<1>3. q \in RequestState
  BY <1>1 DEF Course
<1>4. /\ r.route = q.route /\ r.session = q.session /\ r.cookie = q.cookie /\ r.path = q.path
      /\ r.active = q.active /\ r.blind = q.blind /\ r.role = q.role
      /\ r.at = q.at /\ r.pending = q.pending /\ r.found = q.found /\ r.listed = q.listed
      /\ r.seats = q.seats /\ r.todo = <<>>
      /\ r.answer = [status |-> AnswerStatus(err, filters), error |-> err,
                     access |-> IF Interceptible(q) THEN LoggedStatus(err) ELSE 0,
                     logged |-> LogsError(err, filters), listed |-> {}]
  BY <1>3 DEF Refused, RequestState
<1>5. /\ AnswerStatus(err, filters) \in {400, 401, 403, 404, 409, 413, 429, 500}
      /\ AnswerStatus(err, filters) \in {401, 403} => err \in Denial
      /\ err \in Discreet => AnswerStatus(err, filters) \in {400, 401, 403, 429, 500}
      /\ LoggedStatus(err) \in {400, 401, 403, 404, 429, 500}
      /\ LogsError(err, filters) <=> AnswerStatus(err, filters) >= 500
  BY <1>1, <1>2, Statuses DEF Denial, Discreet
<1>6. LogsError(err, filters) \in BOOLEAN
  BY DEF LogsError
<1>7. r.answer \in AnswerOK /\ r.answer \in Answer
  BY <1>1, <1>4, <1>5, <1>6 DEF AnswerOK, Answer
<1>8. r \in RequestState
  <2>1. <<>> \in Seq(Step)
    OBVIOUS
  <2> DEFINE a == r.answer
  <2>2. a \in Answer /\ r = [q EXCEPT !.todo = <<>>, !.answer = a]
    BY <1>3, <1>4, <1>7 DEF Refused
  <2> HIDE DEF a, r
  <2> QED
    BY <1>3, <2>1, <2>2, TodoState, AnswerState
<1>9. r.answer.status = AnswerStatus(err, filters) /\ r.answer.error = err
      /\ r.answer.access = (IF Interceptible(q) THEN LoggedStatus(err) ELSE 0)
      /\ r.answer.logged = LogsError(err, filters)
  BY <1>4
<1> HIDE DEF r
<1>10. Course(r)
  <2>1. Len(r.todo) = 0 /\ DOMAIN r.todo = {}
    BY <1>4
  <2>2. Len(Plan(r.route)) \in Nat
    BY <1>1, <1>4, RouteLists, PlanOf
  <2>3. r.path \in IF r.route.path THEN Id ELSE {None}
    BY <1>1, <1>4 DEF Course
  <2> QED
    BY <1>8, <2>1, <2>2, <2>3 DEF Course
<1>11. /\ CallerOf(r) = CallerOf(q) /\ r.cookie = q.cookie /\ r.path = q.path /\ r.session = q.session
       /\ \A facts, o, need : MayOf(r, facts, o, need) = MayOf(q, facts, o, need)
       /\ \A facts : AdmittedOf(r, facts) = AdmittedOf(q, facts)
       /\ \A facts : AuthorizedOf(r, facts) = AuthorizedOf(q, facts)
  BY <1>4 DEF CallerOf, MemberOf, MayOf, AdmittedOf, AuthorizedOf
<1>12. Found(r, e)
  <2>1. \A o \in r.listed : MayOf(r, e, o, "none") /\ OrgExists(o) \in e
    BY <1>1, <1>4, <1>11 DEF Found
  <2>2. r.at # None =>
          /\ r.pending \subseteq {OrgExists(r.at[1]), RoleExists(r.at[2])}
          /\ Seat(CallerOf(r), r.at[1], r.at[2]) \in e
          /\ r.found => {OrgExists(r.at[1]), RoleExists(r.at[2])} \ r.pending \subseteq e
    BY <1>1, <1>4, <1>11 DEF Found
  <2>3. (r.at = None => r.pending = {}) /\ \A p \in r.seats : Seat(CallerOf(r), p[1], p[2]) \in e
    BY <1>1, <1>4, <1>11 DEF Found
  <2> QED
    BY <2>1, <2>2, <2>3 DEF Found
<1>13. Strangers(r, e)
  <2>1. r.answer.access # 0 => AdmittedOf(q, e)
    BY <1>1, <1>9, Interception, Past
  <2>2. r.answer.status \notin {400, 401, 403, 429, 500} => AuthorizedOf(q, e)
    BY <1>5, <1>9 DEF Justified
  <2> QED
    BY <1>11, <2>1, <2>2 DEF Strangers
<1>14. Entitled(r, k)
  BY <1>4, <1>5, <1>9, <1>11 DEF Entitled, Justified
<1>15. Stood(r, e, k)
  <2>1. "none" \notin Error
    BY DomainErrors DEF MembershipErrors, RoleErrors, PermissionErrors, StorageErrors,
                        OrganizationErrors, Error, UserError, HttpException, QueryError
  <2> QED
    BY <1>1, <1>9, <2>1 DEF Stood
<1>16. Tells(r)
  <2>1. err \in DomainError => AnswerStatus(err, filters) = DomainStatus(err)
    BY <1>1, <1>2, StatusIs DEF Justified
  <2> QED
    BY <1>5, <1>9, <2>1 DEF Tells
<1> QED
  BY <1>4, <1>7, <1>10, <1>12, <1>13, <1>14, <1>15, <1>16 DEF RequestInv, r

\* The errors that depend on nothing, and those that depend on a look.
LEMMA PlainErrors ==
  ASSUME NEW q, NEW e, NEW k, NEW err
  PROVE  /\ err \in {"BadRequest", "TooManyRequests", "QueryFailed"} => Justified(q, e, k, err)
         /\ /\ err \in {"Unauthorized", "Forbidden"}
            /\ ~(Has(q.route.guards, "session") /\ AuthorizedOf(q, k) /\ ~q.blind)
            => Justified(q, e, k, err)
<1>1. {"BadRequest", "TooManyRequests", "QueryFailed", "Unauthorized", "Forbidden"} \cap DomainError = {}
  BY DomainErrors
     DEF MembershipErrors, RoleErrors, PermissionErrors, StorageErrors, OrganizationErrors
<1> QED
  BY <1>1, RaisedErrors DEF Justified, Discreet, Denial

\* A look-up that denies: in a use case with an error of the domain, which the
\* controller has the filter for.
LEMMA DeniedErrors ==
  ASSUME NEW q, Course(q), q.todo # <<>>, q.todo[1] \in {"seat", "role", "codes"}, NEW e, NEW k,
         ~(Has(q.route.guards, "session") /\ AuthorizedOf(q, k) /\ ~q.blind)
  PROVE  Justified(q, e, k, IF Interceptible(q) /\ q.route.use # "effectivePermissions"
                            THEN "PermissionDenied" ELSE "Forbidden")
<1>1. CASE Interceptible(q) /\ q.route.use # "effectivePermissions"
  <2>1. Twice(q.route.use)
    BY <1>1, Interception, PathNamed
  <2>2. q.route.filters = <<"domain">>
    <3>1. q.route.use \notin UnfilteredUse
      <4>1. ASSUME q.route.use \in UnfilteredUse PROVE ~Twice(q.route.use)
        BY <4>1, UnfilteredUses, OtherUses
      <4> QED
        BY <2>1, <4>1
    <3> QED
      BY <3>1, RouteLists DEF RouteInv
  <2> QED
    BY <1>1, <2>2, RaisedErrors DEF Justified, Discreet
<1>2. CASE ~(Interceptible(q) /\ q.route.use # "effectivePermissions")
  BY <1>2, PlainErrors
<1> QED
  BY <1>1, <1>2

\* The errors of the use case itself come from who has passed all look-ups.
LEMMA UseErrors ==
  ASSUME NEW q, Course(q), q.todo # <<>>, NEW e, NEW k, Learnt(q, e), NEW err,
         \/ q.todo[1] = "image" /\ err \in ImageErrors
         \/ q.todo[1] = "organization" /\ err = "OrganizationNotFound"
         \/ q.todo[1] = "work" /\ err \in UseCase[q.route.use].raises
  PROVE  Justified(q, e, k, err) /\ AuthorizedOf(q, e)
<1> DEFINE g == Len(q.route.guards)
           n == Position(q)
           m == Len(ReadsOf(q))
<1>1. /\ g \in Nat /\ m \in Nat /\ n \in 1..(g + m + 3) /\ RouteInv(q.route)
      /\ q.route.use \in DOMAIN UseCase
      /\ n = g + m + 3 <=> q.todo[1] = "work"
  BY RouteLists, Positions, Where
<1>2. q.todo[1] \in {"image", "organization"} => n > g + 2 /\ Has(ReadsOf(q), q.todo[1])
  <2>1. SUFFICES ASSUME q.todo[1] \in {"image", "organization"}
                 PROVE  n > g + 2 /\ Has(ReadsOf(q), q.todo[1])
    OBVIOUS
  <2>2. n > g + 2
    BY <2>1, Where DEF ReadStep, GuardStep
  <2>3. n < g + m + 3
    BY <1>1, <2>1
  <2>4. n - g - 2 \in DOMAIN ReadsOf(q) /\ ReadsOf(q)[n - g - 2] = q.todo[1]
    BY <2>2, <2>3, Where
  <2> QED
    BY <2>2, <2>4 DEF Has
<1>3. n > g + 2
  BY <1>1, <1>2
<1>4. Twice(q.route.use) => n > g + 5
  <2>1. SUFFICES ASSUME Twice(q.route.use) PROVE n > g + 5
    OBVIOUS
  <2>2. m >= 3 /\ n # g + 3 /\ n # g + 4 /\ n # g + 5
    <3>1. m >= 3 /\ (n = g + 3 => q.todo[1] = "seat") /\ (n = g + 4 => q.todo[1] = "role")
          /\ (n = g + 5 => q.todo[1] = "codes")
      BY <2>1, Reads
    <3> QED
      BY <3>1
  <2> HIDE DEF g, m, n
  <2> QED
    BY <1>1, <1>3, <2>2
<1>5. AuthorizedOf(q, e)
  <2>1. n >= g + 2
    BY <1>1, <1>3
  <2> QED
    BY <1>4, <2>1, Past
<1>6. err \in DomainError => q.route.filters = <<"domain">>
  <2>1. CASE q.todo[1] = "work"
    BY <1>1, <2>1, UnfilteredUses DEF RouteInv
  <2>2. CASE q.todo[1] \in {"image", "organization"}
    <3>1. Has(ReadsOf(q), q.todo[1])
      BY <1>2, <2>2
    <3>2. ReadsOf(q) \notin {<<>>, <<"seats", "listing">>}
      BY <2>2, <3>1 DEF Has
    <3> QED
      BY <1>1, <3>2, UnfilteredUses DEF RouteInv, ReadsOf
  <2> QED
    BY <2>1, <2>2
<1>7. err \in Error
  BY <1>1, RaisedErrors, ReadsHold
<1>8. err \in Denial =>
        ~(Has(q.route.guards, "session") /\ AuthorizedOf(q, k) /\ ~q.blind)
  <2>1. CASE q.todo[1] # "work"
    BY <2>1 DEF ImageErrors, Denial
  <2>2. CASE q.todo[1] = "work"
    <3>1. err \in UseCase[q.route.use].raises /\ err \notin {"Forbidden", "PermissionDenied"}
      BY <1>1, <2>2, ReadsHold
    <3>2. err = "Unauthorized" => q.route.use \in {"login", "refreshToken"}
      BY <1>1, <3>1, UnauthorizedUses
    <3> QED
      BY <1>1, <3>1, <3>2 DEF Denial, RouteInv
  <2> QED
    BY <2>1, <2>2
<1> QED
  BY <1>5, <1>6, <1>7, <1>8 DEF Justified
-----------------------------------------------------------------------------
(* The steps of the request.                                               *)

\* What a definition of the request says of its record.
LEMMA OfRequest ==
  /\ Caller = CallerOf(request) /\ (Intercepted <=> Interceptible(request))
  /\ Need = NeedOf(request) /\ (InFlight <=> request.todo # <<>>)
  /\ Denied = IF Interceptible(request) /\ request.route.use # "effectivePermissions"
              THEN "PermissionDenied" ELSE "Forbidden"
  /\ \A facts : Admitted(facts) = AdmittedOf(request, facts)
  /\ \A facts : Authorized(facts) = AuthorizedOf(request, facts)
  /\ \A facts, o, need : May(facts, o, need) = MayOf(request, facts, o, need)
<1>1. Caller = CallerOf(request) /\ (Intercepted <=> Interceptible(request))
  BY DEF Caller, CallerOf, Intercepted, Interceptible
<1>2. \A facts, o, need : May(facts, o, need) = MayOf(request, facts, o, need)
  BY <1>1 DEF May, MayOf
<1>3. \A facts, o : Member(facts, o) = MemberOf(request, facts, o)
  BY <1>1 DEF Member, MemberOf
<1>4. \A facts : Admitted(facts) = AdmittedOf(request, facts)
  BY <1>1, <1>2, <1>3 DEF Admitted, AdmittedOf, Asks, Has
<1>5. AsksTwice = Twice(request.route.use)
  BY DEF AsksTwice, Twice
<1>6. \A facts : Authorized(facts) = AuthorizedOf(request, facts)
  BY <1>2, <1>4, <1>5 DEF Authorized, AuthorizedOf
<1>7. Need = NeedOf(request)
  BY <1>1 DEF Need, NeedOf
<1> QED
  BY <1>1, <1>2, <1>4, <1>6, <1>7 DEF InFlight, Denied

\* The step a request is at.
LEMMA AtStep ==
  ASSUME IInv, NEW step, Current(step)
  PROVE  /\ FactsInv(fact, ever, kept) /\ RequestInv(request, ever, kept)
         /\ request.todo # <<>> /\ request.todo[1] = step /\ request \in RequestState
         /\ Course(request) /\ Learnt(request, ever) /\ request.answer = None
         /\ Tail(request.todo) \in Seq(Step)
<1>1. /\ FactsInv(fact, ever, kept) /\ RequestInv(request, ever, kept)
      /\ request.todo # <<>> /\ Head(request.todo) = step
  BY OfRequest DEF IInv, Current
<1>2. Course(request) /\ Learnt(request, ever) /\ request.answer = None
  BY <1>1 DEF RequestInv
<1>3. request \in RequestState /\ request.todo \in Seq(Step)
  BY <1>2 DEF Course, RequestState
<1>4. Head(request.todo) = request.todo[1] /\ Tail(request.todo) \in Seq(Step)
  BY <1>1, <1>3
<1> QED
  BY <1>1, <1>2, <1>3, <1>4

\* A step that refuses for a good reason keeps the invariant.
LEMMA Refuses ==
  ASSUME IInv, NEW step, Current(step), NEW err, Refuse(err), Justified(request, ever, kept, err)
  PROVE  RequestInv(request', ever, kept)
<1>1. RequestInv(request, ever, kept) /\ request.todo # <<>>
  BY AtStep
<1>2. request' = Refused(request, err)
  BY OfRequest DEF Refuse, Refused
<1> QED
  BY <1>1, <1>2, Refusing

\* A step that only goes on, having seen what it asks for, keeps it, too.
LEMMA GoesOn ==
  ASSUME IInv, NEW step, Current(step), step \notin {"work", "context", "seat", "seats"}, Goes(request),
         step = "session" => request.session # None /\ LiveSession(request.session) \in fact,
         step = "activeOrg" => request.active # None /\ request.path \in {request.active, None},
         step = "admin" => Admin(Caller) \in fact,
         step = "role" => RoleExists(request.role) \in fact,
         step = "codes" => Need = "none" \/ Grant(request.role, Need) \in fact,
         step = "listing" => request.at = None /\ request.seats = {}
  PROVE  RequestInv(request', ever, kept)
<1>1. /\ FactsInv(fact, ever, kept) /\ RequestInv(request, ever, kept)
      /\ request.todo # <<>> /\ request.todo[1] = step /\ request \in RequestState
      /\ Tail(request.todo) \in Seq(Step)
  BY AtStep
<1>2. request' = [request EXCEPT !.todo = Tail(request.todo)]
  BY DEF Goes
<1>3. request' \in RequestState
  BY <1>1, <1>2, TodoState
<1>4. Lesson(request, request', fact)
  <2>1. /\ request'.route = request.route /\ request'.session = request.session
        /\ request'.cookie = request.cookie /\ request'.path = request.path
        /\ request'.at = request.at /\ request'.pending = request.pending
        /\ request'.found = request.found /\ request'.listed = request.listed
        /\ request'.answer = request.answer /\ request'.todo = Tail(request.todo)
        /\ request'.active = request.active /\ request'.blind = request.blind
        /\ request'.role = request.role /\ request'.seats = request.seats
    BY <1>1, <1>2 DEF RequestState
  <2> QED
    BY <1>1, <1>3, <2>1, OfRequest DEF Lesson
<1> QED
  BY <1>1, <1>4, Passing

\* A step that refuses whom it does not find entitled, and lets others go on.
LEMMA PassesOn ==
  ASSUME IInv, NEW step, Current(step), NEW condition \in BOOLEAN, NEW err, Passes(condition, err),
         step \in {"session", "activeOrg", "admin", "role", "codes"},
         condition <=> CASE step = "session" ->
                              request.session # None /\ LiveSession(request.session) \in fact
                         [] step = "activeOrg" ->
                              request.active # None /\ request.path \in {request.active, None}
                         [] step = "admin" -> Admin(Caller) \in fact
                         [] step = "role" -> RoleExists(request.role) \in fact
                         [] step = "codes" -> Need = "none" \/ Grant(request.role, Need) \in fact,
         err = IF step \in {"role", "codes"} THEN Denied
               ELSE IF step = "session" THEN "Unauthorized" ELSE "Forbidden"
  PROVE  RequestInv(request', ever, kept)
<1>1. /\ FactsInv(fact, ever, kept) /\ RequestInv(request, ever, kept) /\ Course(request)
      /\ request.todo # <<>> /\ request.todo[1] = step
  BY AtStep
<1>2. CASE condition
  <2>1. Goes(request)
    BY <1>2 DEF Passes
  <2> QED
    BY <1>2, <2>1, GoesOn
<1>3. CASE ~condition
  <2>1. Refuse(err)
    BY <1>3 DEF Passes
  <2>2. ~(Has(request.route.guards, "session") /\ AuthorizedOf(request, kept) /\ ~request.blind)
    BY <1>1, <1>3, Standing, OfRequest
  <2>3. Justified(request, ever, kept, err)
    BY <1>1, <2>2, PlainErrors, DeniedErrors, OfRequest
  <2> QED
    BY <2>1, <2>3, Refuses
<1> QED
  BY <1>2, <1>3

\* The middleware: the cookie of a member becomes the active organization.
LEMMA ContextStep ==
  ASSUME IInv, ReadContext \/ LoseContext
  PROVE  RequestInv(request', ever, kept)
<1>1. Current("context")
  BY DEF ReadContext, LoseContext
<1>2. /\ FactsInv(fact, ever, kept) /\ RequestInv(request, ever, kept) /\ Course(request)
      /\ request.todo # <<>> /\ request.todo[1] = "context" /\ request \in RequestState
      /\ Tail(request.todo) \in Seq(Step) /\ Learnt(request, ever)
  BY <1>1, AtStep
<1>3. request.active = None
  <2>1. Position(request) = 1
    BY <1>2, Where
  <2> QED
    BY <1>2, <2>1 DEF Learnt
<1> DEFINE member == MemberOf(request, fact, request.cookie)
<1>4. member => Caller # None /\ request.cookie \in Org
  <2>1. fact \subseteq Fact
    BY <1>2 DEF FactsInv
  <2>2. member => CallerOf(request) \in User /\ request.cookie \in Org
    BY <2>1, Seats DEF MemberOf
  <2> QED
    BY <2>2, OfRequest, IdAssumption
<1>5. PICK active \in Org \cup {None}, blind \in BOOLEAN :
        /\ request' = [request EXCEPT !.active = active, !.blind = blind, !.todo = Tail(request.todo)]
        /\ active # None => active = request.cookie /\ member
        /\ ~blind /\ member => active = request.cookie
  <2>1. CASE ReadContext
    <3>1. (Caller # None /\ \E i \in Role : Seat(Caller, request.cookie, i) \in fact) <=> member
      BY <1>4, OfRequest DEF MemberOf
    <3> DEFINE active == IF member THEN request.cookie ELSE None
    <3>2. Goes([request EXCEPT !.active = active])
      BY <2>1, <3>1 DEF ReadContext
    <3> HIDE DEF member
    <3>3. active \in Org \cup {None} /\ request.blind \in BOOLEAN
          /\ (active # None => active = request.cookie /\ member)
          /\ (member => active = request.cookie)
      BY <1>2, <1>4 DEF RequestState
    <3> HIDE DEF active
    <3>4. request' = [request EXCEPT !.active = active, !.blind = request.blind,
                                     !.todo = Tail(request.todo)]
      BY <1>2, <3>2 DEF Goes, RequestState
    <3> QED
      BY <3>3, <3>4
  <2>2. CASE LoseContext
    <3>1. request' = [request EXCEPT !.active = None, !.blind = TRUE, !.todo = Tail(request.todo)]
      BY <1>2, <1>3, <2>2 DEF LoseContext, Goes, RequestState
    <3> QED
      BY <3>1
  <2> QED
    BY <2>1, <2>2
<1>6. request' \in RequestState
  BY <1>2, <1>5, ContextState, TodoState
<1>7. Lesson(request, request', fact)
  <2>1. /\ request'.route = request.route /\ request'.session = request.session
        /\ request'.cookie = request.cookie /\ request'.path = request.path
        /\ request'.at = request.at /\ request'.pending = request.pending
        /\ request'.found = request.found /\ request'.listed = request.listed
        /\ request'.answer = request.answer /\ request'.todo = Tail(request.todo)
        /\ request'.active = active /\ request'.blind = blind
        /\ request'.role = request.role /\ request'.seats = request.seats
    BY <1>2, <1>5 DEF RequestState
  <2> HIDE DEF member
  <2> QED
    BY <1>2, <1>5, <1>6, <2>1 DEF Lesson, member
<1> QED
  BY <1>2, <1>7, Passing

\* The throttler lets a request go on or ends it, whatever the facts.
LEMMA ThrottleStep == ASSUME IInv, Throttle PROVE RequestInv(request', ever, kept)
<1>1. Current("throttle") /\ (Goes(request) \/ Refuse("TooManyRequests"))
  BY DEF Throttle, Passes
<1> QED
  BY <1>1, GoesOn, Refuses, PlainErrors

\* So does the guard of Google, who may know nobody.
LEMMA GoogleStep == ASSUME IInv, AskGoogle PROVE RequestInv(request', ever, kept)
<1>1. Current("google") /\ (Goes(request) \/ Refuse("Unauthorized"))
  BY DEF AskGoogle, Passes
<1>2. CASE Goes(request)
  BY <1>1, <1>2, GoesOn
<1>3. CASE Refuse("Unauthorized")
  <2>1. /\ FactsInv(fact, ever, kept) /\ RequestInv(request, ever, kept)
        /\ request.todo # <<>> /\ request.todo[1] = "google"
    BY <1>1, AtStep
  <2>2. ~(Has(request.route.guards, "session") /\ AuthorizedOf(request, kept) /\ ~request.blind)
    BY <2>1, Standing
  <2>3. Justified(request, ever, kept, "Unauthorized")
    BY <2>2, PlainErrors
  <2> QED
    BY <1>1, <1>3, <2>3, Refuses
<1> QED
  BY <1>1, <1>2, <1>3

\* The session guard: who passes has a session that is not revoked.
LEMMA SessionStep == ASSUME IInv, ReadSession PROVE RequestInv(request', ever, kept)
<1>1. /\ Current("session")
      /\ Passes(request.session # None /\ LiveSession(request.session) \in fact, "Unauthorized")
  BY DEF ReadSession
<1> QED
  BY <1>1, PassesOn

\* The active organization: who passes names the one of the cookie.
LEMMA ActiveOrgStep == ASSUME IInv, CheckActiveOrg PROVE RequestInv(request', ever, kept)
<1>1. /\ Current("activeOrg")
      /\ Passes(request.active # None /\ request.path \in {request.active, None}, "Forbidden")
  BY DEF CheckActiveOrg
<1> QED
  BY <1>1, PassesOn

\* The flag of an administrator of the platform.
LEMMA AdminStep == ASSUME IInv, ReadAdmin PROVE RequestInv(request', ever, kept)
<1> DEFINE granted == Admin(Caller) \in fact
<1>1. Current("admin") /\ Passes(granted, "Forbidden")
  BY DEF ReadAdmin
<1>2. granted \in BOOLEAN /\ (granted <=> Admin(Caller) \in fact)
  OBVIOUS
<1> HIDE DEF granted
<1> QED
  BY <1>1, <1>2, PassesOn

\* The role of the membership, and that it has not been deleted.
LEMMA RoleStep == ASSUME IInv, ReadRole PROVE RequestInv(request', ever, kept)
<1> DEFINE there == RoleExists(request.role) \in fact
<1>1. Current("role") /\ Passes(there, Denied)
  BY DEF ReadRole
<1>2. there \in BOOLEAN /\ (there <=> RoleExists(request.role) \in fact)
  OBVIOUS
<1> HIDE DEF there
<1> QED
  BY <1>1, <1>2, PassesOn

\* The permissions of the role: who passes may do what the route asks for.
LEMMA CodesStep == ASSUME IInv, ReadCodes PROVE RequestInv(request', ever, kept)
<1>1. Current("codes") /\ Passes(Need = "none" \/ Grant(request.role, Need) \in fact, Denied)
  BY DEF ReadCodes
<1> QED
  BY <1>1, PassesOn

\* The membership: the organization is that of the path.
LEMMA SeatStep == ASSUME IInv, ReadSeat PROVE RequestInv(request', ever, kept)
<1> DEFINE seats == {i \in Role : Seat(Caller, Organization, i) \in fact}
<1>1. /\ Current("seat")
      /\ IF Organization = Malformed THEN Refuse("QueryFailed")
         ELSE IF seats = {} THEN Refuse(Denied)
         ELSE Goes([request EXCEPT !.role = CHOOSE i \in seats : TRUE])
  BY DEF ReadSeat
<1>2. /\ FactsInv(fact, ever, kept) /\ RequestInv(request, ever, kept) /\ Course(request)
      /\ request.todo # <<>> /\ request.todo[1] = "seat" /\ request \in RequestState
      /\ Tail(request.todo) \in Seq(Step)
  BY <1>1, AtStep
<1>3. Organization = request.path
  <2>1. request.path \in Id /\ None \notin Id
    BY <1>2, PathNamed, IdAssumption DEF Id
  <2> QED
    BY <2>1 DEF Organization
<1>4. CASE Refuse("QueryFailed")
  BY <1>1, <1>4, Refuses, PlainErrors
<1>5. CASE seats = {} /\ Refuse(Denied)
  <2>1. ~(Has(request.route.guards, "session") /\ AuthorizedOf(request, kept) /\ ~request.blind)
    BY <1>2, <1>3, <1>5, Standing, OfRequest
  <2>2. Justified(request, ever, kept, Denied)
    BY <1>2, <2>1, DeniedErrors, OfRequest
  <2> QED
    BY <1>1, <1>5, <2>2, Refuses
<1>6. CASE seats # {} /\ Goes([request EXCEPT !.role = CHOOSE i \in seats : TRUE])
  <2> DEFINE role == CHOOSE i \in seats : TRUE
  <2>1. role \in seats
    BY <1>6
  <2>2. role \in Role /\ Seat(Caller, request.path, role) \in fact
    BY <1>3, <2>1
  <2>3. request' = [request EXCEPT !.role = role, !.todo = Tail(request.todo)]
    BY <1>2, <1>6 DEF Goes, RequestState
  <2> HIDE DEF role
  <2>4. request' \in RequestState
    BY <1>2, <2>2, <2>3, RoleState, TodoState
  <2>5. /\ request'.route = request.route /\ request'.session = request.session
        /\ request'.cookie = request.cookie /\ request'.path = request.path
        /\ request'.at = request.at /\ request'.pending = request.pending
        /\ request'.found = request.found /\ request'.listed = request.listed
        /\ request'.answer = request.answer /\ request'.todo = Tail(request.todo)
        /\ request'.active = request.active /\ request'.blind = request.blind
        /\ request'.role = role /\ request'.seats = request.seats
    BY <1>2, <2>3 DEF RequestState
  <2>6. Lesson(request, request', fact)
    BY <1>2, <2>2, <2>4, <2>5, OfRequest DEF Lesson
  <2> QED
    BY <1>2, <2>6, Passing
<1> QED
  BY <1>1, <1>4, <1>5, <1>6

\* The pipes refuse what is no UUID or breaks a rule of the body.
LEMMA PipesStep == ASSUME IInv, Pipes PROVE RequestInv(request', ever, kept)
<1>1. Current("pipes") /\ (Refuse("BadRequest") \/ Goes(request))
  BY DEF Pipes
<1> QED
  BY <1>1, GoesOn, Refuses, PlainErrors

\* The image is refused by what it is, whoever the caller.
LEMMA ImageStep == ASSUME IInv, ValidateImage PROVE RequestInv(request', ever, kept)
<1>1. Current("image") /\ (Goes(request) \/ \E e \in ImageErrors : Refuse(e))
  BY DEF ValidateImage
<1>2. Course(request) /\ request.todo # <<>> /\ request.todo[1] = "image" /\ Learnt(request, ever)
  BY <1>1, AtStep
<1>3. \A e \in ImageErrors : Justified(request, ever, kept, e)
  BY <1>2, UseErrors
<1> QED
  BY <1>1, <1>3, GoesOn, Refuses

\* The organization is found only by who has passed the look-up.
LEMMA OrganizationStep == ASSUME IInv, FindOrganization PROVE RequestInv(request', ever, kept)
<1>1. Current("organization") /\ (Goes(request) \/ Refuse("OrganizationNotFound"))
  BY DEF FindOrganization, Passes
<1>2. Course(request) /\ request.todo # <<>> /\ request.todo[1] = "organization" /\ Learnt(request, ever)
  BY <1>1, AtStep
<1>3. Justified(request, ever, kept, "OrganizationNotFound")
  BY <1>2, UseErrors
<1> QED
  BY <1>1, <1>3, GoesOn, Refuses

\* A statement that fails.
LEMMA FailStep == ASSUME IInv, FailStatement PROVE RequestInv(request', ever, kept)
<1>1. PICK step : Current(step) /\ Refuse("QueryFailed")
  BY DEF FailStatement
<1> QED
  BY <1>1, Refuses, PlainErrors
-----------------------------------------------------------------------------
(* The listing.                                                            *)

\* The memberships, all at once.
LEMMA SeatsStep == ASSUME IInv, ReadSeats PROVE RequestInv(request', ever, kept)
<1> DEFINE seats == {p \in Org \X Role : Seat(Caller, p[1], p[2]) \in fact}
<1>1. Current("seats") /\ Goes([request EXCEPT !.seats = seats])
  BY DEF ReadSeats
<1>2. /\ FactsInv(fact, ever, kept) /\ RequestInv(request, ever, kept)
      /\ request.todo # <<>> /\ request.todo[1] = "seats" /\ request \in RequestState
      /\ Tail(request.todo) \in Seq(Step)
  BY <1>1, AtStep
<1>3. seats \subseteq Org \X Role
      /\ seats = {p \in Org \X Role : Seat(CallerOf(request), p[1], p[2]) \in fact}
  BY OfRequest
<1> HIDE DEF seats
<1>4. request' = [request EXCEPT !.seats = seats, !.todo = Tail(request.todo)]
  BY <1>1, <1>2 DEF Goes, RequestState
<1>5. request' \in RequestState
  <2>1. request' = [request EXCEPT !.seats = seats, !.at = request.at, !.todo = Tail(request.todo)]
        /\ request.at \in (Org \X Role) \cup {None} /\ seats \in SUBSET (Org \X Role)
    BY <1>2, <1>3, <1>4 DEF RequestState
  <2> QED
    BY <1>2, <2>1, SeatsState, TodoState
<1>6. /\ request'.route = request.route /\ request'.session = request.session
      /\ request'.cookie = request.cookie /\ request'.path = request.path
      /\ request'.at = request.at /\ request'.pending = request.pending
      /\ request'.found = request.found /\ request'.listed = request.listed
      /\ request'.answer = request.answer /\ request'.todo = Tail(request.todo)
      /\ request'.active = request.active /\ request'.blind = request.blind
      /\ request'.role = request.role /\ request'.seats = seats
  BY <1>2, <1>4 DEF RequestState
<1>7. Lesson(request, request', fact)
  BY <1>2, <1>3, <1>5, <1>6 DEF Lesson
<1> QED
  BY <1>2, <1>7, Passing

\* All memberships looked at, the listing is done.
LEMMA EndStep == ASSUME IInv, EndListing PROVE RequestInv(request', ever, kept)
<1>1. Current("listing") /\ request.at = None /\ request.seats = {} /\ Goes(request)
  BY DEF EndListing
<1> QED
  BY <1>1, GoesOn

\* A membership is taken up: its organization and its role are to be looked up.
LEMMA OpenStep ==
  ASSUME IInv, NEW p \in request.seats, OpenSeat(p)
  PROVE  RequestInv(request', ever, kept)
<1> DEFINE q == request
           r == request'
<1>1. Current("listing") /\ q.at = None
      /\ r = [q EXCEPT !.seats = @ \ {p}, !.at = p, !.found = TRUE,
                       !.pending = {OrgExists(p[1]), RoleExists(p[2])}]
  BY DEF OpenSeat
<1>2. /\ FactsInv(fact, ever, kept) /\ RequestInv(q, ever, kept) /\ Course(q)
      /\ q.todo # <<>> /\ q.todo[1] = "listing" /\ q \in RequestState
      /\ Learnt(q, ever) /\ q.answer = None
  BY <1>1, AtStep
<1>3. Found(q, ever) /\ Noticed(q, kept) /\ Complete(q, kept)
  BY <1>2 DEF RequestInv
<1>4. p \in Org \X Role /\ q.seats \subseteq Org \X Role
  BY <1>2 DEF RequestState
<1>5. {OrgExists(p[1]), RoleExists(p[2])} \subseteq Fact
  BY <1>4 DEF Fact
<1>6. /\ r.route = q.route /\ r.todo = q.todo /\ r.session = q.session /\ r.cookie = q.cookie
      /\ r.path = q.path /\ r.active = q.active /\ r.blind = q.blind /\ r.role = q.role
      /\ r.listed = q.listed /\ r.answer = q.answer
      /\ r.seats = q.seats \ {p} /\ r.at = p /\ r.found = TRUE
      /\ r.pending = {OrgExists(p[1]), RoleExists(p[2])}
  BY <1>1, <1>2 DEF RequestState
<1>7. r \in RequestState
  <2> DEFINE pending == {OrgExists(p[1]), RoleExists(p[2])}
             seats == q.seats \ {p}
  <2>1. r = [q EXCEPT !.seats = seats, !.at = p, !.pending = pending, !.found = TRUE, !.listed = q.listed]
    BY <1>1, <1>2 DEF RequestState
  <2>2. pending \in SUBSET Fact /\ seats \in SUBSET (Org \X Role) /\ p \in (Org \X Role) \cup {None}
    BY <1>4, <1>5
  <2>3. q \in RequestState /\ q.listed \in SUBSET Org
    BY <1>2 DEF RequestState
  <2> HIDE DEF pending, seats, q, r
  <2> QED
    BY <2>1, <2>2, <2>3, ListingState
<1> HIDE DEF q, r
<1>8. /\ CallerOf(r) = CallerOf(q)
      /\ \A facts, o : MemberOf(r, facts, o) = MemberOf(q, facts, o)
      /\ \A facts, o, need : MayOf(r, facts, o, need) = MayOf(q, facts, o, need)
      /\ Position(r) = Position(q) /\ \A step : Passed(r, step) = Passed(q, step)
  BY <1>6 DEF CallerOf, MemberOf, MayOf, Position, Passed
<1>9. Course(r)
  BY <1>2, <1>6, <1>7, <1>8 DEF Course
<1>10. Learnt(r, ever) /\ Noticed(r, kept)
  <2>1. Learnt(r, ever)
    BY <1>2, <1>6, <1>8 DEF Learnt
  <2>2. Noticed(r, kept)
    BY <1>3, <1>6, <1>8 DEF Noticed
  <2> QED
    BY <2>1, <2>2
<1>11. Found(r, ever)
  <2>1. \A o \in r.listed : MayOf(r, ever, o, "none") /\ OrgExists(o) \in ever
    BY <1>3, <1>6, <1>8 DEF Found
  <2>2. p \in q.seats
    BY DEF q
  <2>3. Seat(CallerOf(r), p[1], p[2]) \in ever
    BY <1>3, <1>8, <2>2 DEF Found
  <2>4. r.at # None /\ \A x \in r.seats : Seat(CallerOf(r), x[1], x[2]) \in ever
    BY <1>3, <1>4, <1>6, <1>8, IdAssumption DEF Found
  <2> QED
    BY <1>6, <2>1, <2>3, <2>4 DEF Found
<1>12. Complete(r, kept)
  <2>1. ASSUME NEW o \in Org, NEW i \in Role,
               {Seat(CallerOf(r), o, i), RoleExists(i), OrgExists(o)} \subseteq kept
        PROVE  o \in r.listed \/ <<o, i>> \in r.seats \/ (r.at = <<o, i>> /\ r.found)
    <3>1. o \in q.listed \/ <<o, i>> \in q.seats \/ (q.at = <<o, i>> /\ q.found)
      BY <1>2, <1>3, <1>8, <2>1 DEF Complete
    <3>2. q.at # <<o, i>>
      BY <1>1, IdAssumption DEF q
    <3> QED
      BY <1>6, <3>1, <3>2
  <2> QED
    BY <1>2, <1>6, <2>1 DEF Complete
<1> QED
  BY <1>2, <1>6, <1>9, <1>10, <1>11, <1>12 DEF RequestInv, r

\* What of a request does not depend on how far its listing is.
LEMMA SameRequest ==
  ASSUME NEW q, NEW r, r.route = q.route, r.todo = q.todo, r.session = q.session, r.cookie = q.cookie,
         r.path = q.path, r.active = q.active, r.blind = q.blind, r.role = q.role, r.answer = q.answer
  PROVE  /\ CallerOf(r) = CallerOf(q)
         /\ \A facts, o : MemberOf(r, facts, o) = MemberOf(q, facts, o)
         /\ \A facts, o, need : MayOf(r, facts, o, need) = MayOf(q, facts, o, need)
         /\ \A facts : Learnt(q, facts) => Learnt(r, facts)
         /\ \A facts : Noticed(q, facts) => Noticed(r, facts)
         /\ \A facts : Strangers(q, facts) => Strangers(r, facts)
         /\ \A facts : Entitled(q, facts) => Entitled(r, facts)
         /\ \A e, k : Stood(q, e, k) => Stood(r, e, k)
         /\ Tells(q) => Tells(r)
         /\ Course(q) /\ r \in RequestState => Course(r)
<1>1. /\ CallerOf(r) = CallerOf(q)
      /\ \A facts, o : MemberOf(r, facts, o) = MemberOf(q, facts, o)
      /\ \A facts, o, need : MayOf(r, facts, o, need) = MayOf(q, facts, o, need)
      /\ Position(r) = Position(q) /\ \A step : Passed(r, step) = Passed(q, step)
  BY DEF CallerOf, MemberOf, MayOf, Position, Passed
<1>2. \A facts : AdmittedOf(r, facts) = AdmittedOf(q, facts)
  BY <1>1 DEF AdmittedOf
<1>3. \A facts : AuthorizedOf(r, facts) = AuthorizedOf(q, facts)
  BY <1>1, <1>2 DEF AuthorizedOf
<1>4. \A facts : Learnt(q, facts) => Learnt(r, facts)
  BY <1>1 DEF Learnt
<1>5. \A facts : Noticed(q, facts) => Noticed(r, facts)
  BY <1>1 DEF Noticed
<1>6. /\ \A facts : Strangers(q, facts) => Strangers(r, facts)
      /\ \A facts : Entitled(q, facts) => Entitled(r, facts)
      /\ Tells(q) => Tells(r)
  BY <1>2, <1>3 DEF Strangers, Entitled, Tells
<1>7. \A e, k : Stood(q, e, k) => Stood(r, e, k)
  BY <1>1 DEF Stood
<1>8. Course(q) /\ r \in RequestState => Course(r)
  BY <1>1 DEF Course
<1> QED
  BY <1>1, <1>4, <1>5, <1>6, <1>7, <1>8

\* One of the two rows of a membership is looked up; after the other, the
\* organization is listed if both were there.
LEMMA LookStep ==
  ASSUME IInv, NEW f \in request.pending, Look(f)
  PROVE  RequestInv(request', ever, kept)
<1> DEFINE q == request
           r == request'
           found == q.found /\ f \in fact
           rows == {OrgExists(q.at[1]), RoleExists(q.at[2])}
<1>1. /\ FactsInv(fact, ever, kept) /\ RequestInv(q, ever, kept) /\ Course(q) /\ Found(q, ever)
      /\ kept \subseteq fact /\ fact \subseteq ever /\ q \in RequestState
  BY DEF IInv, RequestInv, FactsInv, Course
<1>2. /\ q.at # None /\ q.pending \subseteq rows /\ f \in q.pending
      /\ Seat(CallerOf(q), q.at[1], q.at[2]) \in ever
      /\ q.found => rows \ q.pending \subseteq ever
  BY <1>1 DEF Found
<1>3. q.at \in Org \X Role /\ q.at[1] \in Org /\ q.at[2] \in Role
      /\ q.seats \subseteq Org \X Role /\ q.pending \subseteq Fact /\ q.listed \subseteq Org
      /\ q.found \in BOOLEAN
  BY <1>1, <1>2 DEF RequestState
<1>4. PICK at \in {q.at, None}, pending \in SUBSET q.pending, seen \in BOOLEAN, listed \in SUBSET Org :
        /\ r = [q EXCEPT !.seats = q.seats, !.at = at, !.pending = pending, !.found = seen,
                         !.listed = listed]
        /\ \/ /\ at = None /\ pending = {} /\ q.pending = {f}
              /\ listed = IF found THEN q.listed \cup {q.at[1]} ELSE q.listed
           \/ /\ at = q.at /\ pending = q.pending \ {f} /\ q.pending # {f} /\ listed = q.listed
              /\ seen <=> found
  <2>1. CASE q.pending = {f}
    <3> DEFINE listed == IF found THEN q.listed \cup {q.at[1]} ELSE q.listed
    <3>1. r = [q EXCEPT !.seats = q.seats, !.at = None, !.pending = {}, !.found = FALSE,
                        !.listed = listed]
      BY <1>1, <2>1 DEF Look, RequestState
    <3>2. listed \in SUBSET Org
      BY <1>3
    <3> QED
      BY <2>1, <3>1, <3>2
  <2>2. CASE q.pending # {f}
    <3>1. r = [q EXCEPT !.seats = q.seats, !.at = q.at, !.pending = q.pending \ {f}, !.found = found,
                        !.listed = q.listed]
      BY <1>1, <2>2 DEF Look, RequestState
    <3>2. q.listed \in SUBSET Org /\ found \in BOOLEAN /\ q.pending \ {f} \in SUBSET q.pending
      BY <1>3
    <3> HIDE DEF found
    <3> QED
      BY <2>2, <3>1, <3>2
  <2> QED
    BY <2>1, <2>2
<1>5. r \in RequestState
  <2>1. q.seats \in SUBSET (Org \X Role) /\ at \in (Org \X Role) \cup {None} /\ pending \in SUBSET Fact
    BY <1>3, <1>4
  <2> HIDE DEF q, r, found, rows
  <2> QED
    BY <1>1, <1>4, <2>1, ListingState
<1>6. /\ r.route = q.route /\ r.todo = q.todo /\ r.session = q.session /\ r.cookie = q.cookie
      /\ r.path = q.path /\ r.active = q.active /\ r.blind = q.blind /\ r.role = q.role
      /\ r.answer = q.answer
      /\ r.seats = q.seats /\ r.at = at /\ r.found = seen /\ r.pending = pending /\ r.listed = listed
  <2> HIDE DEF found, rows
  <2> QED
    BY <1>1, <1>4 DEF RequestState
<1>7. f \in fact => f \in ever
  BY <1>1
<1> HIDE DEF q, r, rows
<1>8. /\ CallerOf(r) = CallerOf(q) /\ Course(r)
      /\ \A facts, o, need : MayOf(r, facts, o, need) = MayOf(q, facts, o, need)
  BY <1>1, <1>5, <1>6, SameRequest
<1>9. found /\ q.pending = {f} => rows \subseteq ever
  BY <1>2, <1>7
<1>10. Found(r, ever)
  <2>1. ASSUME NEW o \in r.listed PROVE MayOf(r, ever, o, "none") /\ OrgExists(o) \in ever
    <3>1. CASE o \in q.listed
      BY <1>1, <1>8, <3>1 DEF Found
    <3>2. CASE o \notin q.listed
      <4>1. found /\ q.pending = {f} /\ o = q.at[1]
        BY <1>4, <1>6, <2>1, <3>2
      <4>2. {Seat(CallerOf(q), o, q.at[2]), RoleExists(q.at[2]), OrgExists(o)} \subseteq ever
        BY <1>2, <1>9, <4>1 DEF rows
      <4>3. MayOf(q, ever, o, "none")
        BY <1>3, <4>2 DEF MayOf
      <4> QED
        BY <1>8, <4>2, <4>3
    <3> QED
      BY <3>1, <3>2
  <2>2. \A p \in r.seats : Seat(CallerOf(r), p[1], p[2]) \in ever
    BY <1>1, <1>6, <1>8 DEF Found
  <2>3. r.at = None => r.pending = {}
    BY <1>2, <1>4, <1>6
  <2>4. ASSUME r.at # None
        PROVE  /\ r.pending \subseteq {OrgExists(r.at[1]), RoleExists(r.at[2])}
               /\ Seat(CallerOf(r), r.at[1], r.at[2]) \in ever
               /\ r.found => {OrgExists(r.at[1]), RoleExists(r.at[2])} \ r.pending \subseteq ever
    <3>1. r.at = q.at /\ r.pending = q.pending \ {f} /\ (r.found <=> found)
      BY <1>4, <1>6, <2>4
    <3>2. r.found => rows \ r.pending \subseteq ever
      BY <1>2, <1>7, <3>1
    <3> QED
      BY <1>2, <1>8, <3>1, <3>2 DEF rows
  <2> QED
    BY <2>1, <2>2, <2>3, <2>4 DEF Found
<1>11. ASSUME r.todo # <<>>
       PROVE  r.answer = None /\ Learnt(r, ever) /\ Noticed(r, kept) /\ Complete(r, kept)
  <2>1. q.answer = None /\ Learnt(q, ever) /\ Noticed(q, kept) /\ Complete(q, kept)
    BY <1>1, <1>6, <1>11 DEF RequestInv
  <2>2. Learnt(r, ever) /\ Noticed(r, kept)
    BY <1>6, <2>1, SameRequest
  <2>3. q.todo[1] = "listing" /\ r.todo[1] = "listing"
    BY <1>2, <1>6, <2>1 DEF Complete
  <2>4. ASSUME NEW o \in Org, NEW i \in Role,
               {Seat(CallerOf(r), o, i), RoleExists(i), OrgExists(o)} \subseteq kept
        PROVE  o \in r.listed \/ <<o, i>> \in r.seats \/ (r.at = <<o, i>> /\ r.found)
    <3>1. o \in q.listed \/ <<o, i>> \in q.seats \/ (q.at = <<o, i>> /\ q.found)
      BY <1>8, <2>1, <2>3, <2>4 DEF Complete
    <3>2. CASE o \in q.listed \/ <<o, i>> \in q.seats
      BY <1>4, <1>6, <3>2
    <3>3. CASE q.at = <<o, i>> /\ q.found
      <4>1. q.at[1] = o /\ q.at[2] = i
        BY <3>3
      <4>2. rows \subseteq fact
        BY <1>1, <2>4, <4>1 DEF rows
      <4>3. found
        BY <1>2, <3>3, <4>2
      <4> HIDE DEF found
      <4> QED
        BY <1>4, <1>6, <3>3, <4>1, <4>3
    <3> QED
      BY <3>1, <3>2, <3>3
  <2>5. Complete(r, kept)
    BY <2>3, <2>4 DEF Complete
  <2> QED
    BY <1>6, <2>1, <2>2, <2>5
<1>12. ASSUME r.answer # None
       PROVE  r.answer \in AnswerOK /\ Strangers(r, ever) /\ Entitled(r, kept)
              /\ Stood(r, ever, kept) /\ Tells(r)
  <2>1. q.answer \in AnswerOK /\ Strangers(q, ever) /\ Entitled(q, kept) /\ Stood(q, ever, kept)
        /\ Tells(q)
    BY <1>1, <1>6, <1>12 DEF RequestInv
  <2> QED
    BY <1>6, <2>1, SameRequest
<1>13. RequestInv(r, ever, kept)
  BY <1>8, <1>10, <1>11, <1>12 DEF RequestInv
<1> QED
  BY <1>13 DEF r

\* The work done, the answer carries what the listing has found.
LEMMA FinishStep == ASSUME IInv, Finish PROVE RequestInv(request', ever, kept)
<1> DEFINE q == request
           r == request'
           a == [status |-> 200, error |-> "none", access |-> 200, logged |-> FALSE, listed |-> q.listed]
<1>1. /\ Current("work")
      /\ \/ \E e \in UseCase[q.route.use].raises : Refuse(e)
         \/ r = [q EXCEPT !.todo = <<>>, !.answer = a]
  BY DEF Finish
<1>2. /\ RequestInv(q, ever, kept) /\ q.todo # <<>> /\ q.todo[1] = "work" /\ q \in RequestState
      /\ Course(q) /\ Learnt(q, ever) /\ Found(q, ever) /\ Complete(q, kept)
  BY <1>1, AtStep DEF RequestInv
<1>3. CASE \E e \in UseCase[q.route.use].raises : Refuse(e)
  <2>1. \A e \in UseCase[q.route.use].raises : Justified(q, ever, kept, e)
    BY <1>2, UseErrors
  <2> QED
    BY <1>1, <1>3, <2>1, Refuses
<1>4. CASE r = [q EXCEPT !.todo = <<>>, !.answer = a]
  <2>1. AuthorizedOf(q, ever)
    <3>1. Len(q.route.guards) \in Nat /\ Len(ReadsOf(q)) \in Nat
          /\ Position(q) = Len(q.route.guards) + Len(ReadsOf(q)) + 3
      BY <1>2, RouteLists, Where
    <3>2. Twice(q.route.use) => Len(ReadsOf(q)) >= 3
      BY <1>2, Reads
    <3>3. Position(q) >= Len(q.route.guards) + 2
          /\ (Twice(q.route.use) => Position(q) > Len(q.route.guards) + 5)
      BY <3>1, <3>2
    <3> QED
      BY <1>2, <3>3, Past
  <2>2. q.listed \subseteq Org
    BY <1>2 DEF RequestState
  <2>3. a \in Answer /\ a \in AnswerOK
    BY <2>2 DEF Answer, AnswerOK
  <2>4. a.status = 200 /\ a.error = "none" /\ a.listed = q.listed
    OBVIOUS
  <2> HIDE DEF a
  <2>5. <<>> \in Seq(Step)
    OBVIOUS
  <2>6. r \in RequestState
    BY <1>2, <1>4, <2>3, <2>5, TodoState, AnswerState
  <2>7. /\ r.route = q.route /\ r.todo = <<>> /\ r.session = q.session /\ r.cookie = q.cookie
        /\ r.path = q.path /\ r.active = q.active /\ r.blind = q.blind /\ r.role = q.role
        /\ r.answer = a /\ r.seats = q.seats /\ r.at = q.at /\ r.found = q.found
        /\ r.pending = q.pending /\ r.listed = q.listed
    BY <1>2, <1>4 DEF RequestState
  <2> HIDE DEF q, r
  <2>8. /\ CallerOf(r) = CallerOf(q)
        /\ \A facts, o, need : MayOf(r, facts, o, need) = MayOf(q, facts, o, need)
        /\ AdmittedOf(r, ever) = AdmittedOf(q, ever) /\ AuthorizedOf(r, ever) = AuthorizedOf(q, ever)
    BY <2>7 DEF CallerOf, MayOf, MemberOf, AdmittedOf, AuthorizedOf
  <2>9. Course(r)
    <3>1. Len(r.todo) = 0 /\ DOMAIN r.todo = {}
      BY <2>7
    <3>2. Len(Plan(r.route)) \in Nat
      BY <1>2, <2>7, RouteLists, PlanOf
    <3>3. r.path \in IF r.route.path THEN Id ELSE {None}
      BY <1>2, <2>7 DEF Course
    <3> QED
      BY <2>6, <3>1, <3>2, <3>3 DEF Course
  <2>10. Found(r, ever)
    <3>1. \A o \in r.listed : MayOf(r, ever, o, "none") /\ OrgExists(o) \in ever
      BY <1>2, <2>7, <2>8 DEF Found
    <3>2. r.at # None =>
            /\ r.pending \subseteq {OrgExists(r.at[1]), RoleExists(r.at[2])}
            /\ Seat(CallerOf(r), r.at[1], r.at[2]) \in ever
            /\ r.found => {OrgExists(r.at[1]), RoleExists(r.at[2])} \ r.pending \subseteq ever
      BY <1>2, <2>7, <2>8 DEF Found
    <3>3. (r.at = None => r.pending = {}) /\ \A p \in r.seats : Seat(CallerOf(r), p[1], p[2]) \in ever
      BY <1>2, <2>7, <2>8 DEF Found
    <3> QED
      BY <3>1, <3>2, <3>3 DEF Found
  <2>11. Strangers(r, ever)
    BY <2>1, <2>7, <2>8 DEF Strangers, AuthorizedOf
  <2>12. Entitled(r, kept) /\ Tells(r)
    BY <2>4, <2>7 DEF Entitled, Tells
  <2>13. ASSUME r.route.use \in ListingUse, NEW o \in Org
         PROVE  /\ MayOf(r, kept, o, "none") /\ OrgExists(o) \in kept => o \in r.answer.listed
                /\ o \in r.answer.listed => MayOf(r, ever, o, "none") /\ OrgExists(o) \in ever
    <3>1. ASSUME MayOf(r, kept, o, "none"), OrgExists(o) \in kept PROVE o \in q.listed
      <4>1. PICK i \in Role : {Seat(CallerOf(q), o, i), RoleExists(i)} \subseteq kept
        BY <2>8, <3>1 DEF MayOf
      <4>2. q.at = None /\ q.seats = {}
        BY <1>2 DEF Complete
      <4>3. o \in q.listed \/ <<o, i>> \in q.seats \/ (q.at = <<o, i>> /\ q.found)
        BY <1>2, <2>7, <2>13, <3>1, <4>1 DEF Complete
      <4>4. None # <<o, i>>
        BY IdAssumption
      <4> QED
        BY <4>2, <4>3, <4>4
    <3>2. o \in q.listed => MayOf(r, ever, o, "none") /\ OrgExists(o) \in ever
      BY <2>7, <2>10 DEF Found
    <3> QED
      BY <2>4, <2>7, <3>1, <3>2
  <2>14. Stood(r, ever, kept)
    BY <2>13 DEF Stood
  <2>15. RequestInv(r, ever, kept)
    BY <2>3, <2>7, <2>9, <2>10, <2>11, <2>12, <2>14 DEF RequestInv
  <2> QED
    BY <2>15 DEF r
<1> QED
  BY <1>1, <1>3, <1>4
-----------------------------------------------------------------------------
(* The invariant is inductive.                                             *)

\* The plan of a route is made of steps.
LEMMA PlanIsSteps == ASSUME NEW route \in Routes PROVE Plan(route) \in Seq(Step)
<1>1. RouteInv(route)
  BY RoutesHold
<1> DEFINE guards == route.guards
           reads == UseCase[route.use].reads
<1>2. guards \in Seq(Step) /\ reads \in Seq(Step)
  BY <1>1, ReadsHold DEF RouteInv, StepList
<1>3. Plan(route) = <<"context">> \o guards \o <<"pipes">> \o reads \o <<"work">>
  BY DEF Plan
<1> HIDE DEF guards, reads
<1> QED
  BY <1>2, <1>3 DEF Step

\* A request that arrives has learnt nothing.
LEMMA Arrival == Init => IInv
<1> SUFFICES ASSUME Init PROVE IInv
  OBVIOUS
<1>1. FactsInv(fact, ever, kept) /\ changes \in 0..MaxChanges
  BY StartAssumption, MaxChangesAssumption DEF Init, FactsInv
<1>2. PICK route \in Routes, session \in Session \cup {None}, cookie \in Id \cup {None} :
        \E path \in IF route.path THEN Id ELSE {None} :
          request = Arriving(route, session, cookie, path)
  BY DEF Init
<1>3. PICK path \in IF route.path THEN Id ELSE {None} :
        request = Arriving(route, session, cookie, path)
  BY <1>2
<1>4. Plan(route) \in Seq(Step)
  BY PlanIsSteps
<1> DEFINE q == request
<1>5. /\ q.route = route /\ q.todo = Plan(route) /\ q.path = path /\ q.active = None /\ q.role = None
      /\ q.seats = {} /\ q.at = None /\ q.pending = {} /\ q.listed = {} /\ q.answer = None
  BY <1>3 DEF Arriving
<1>6. q \in RequestState
  <2>1. path \in Id \cup {None}
    OBVIOUS
  <2> QED
    BY <1>3, <1>4, <2>1 DEF Arriving, RequestState
<1> HIDE DEF q
<1>7. Position(q) = 1 /\ Len(q.todo) <= Len(Plan(route))
  <2>1. Len(Plan(route)) \in Nat
    BY <1>4
  <2> QED
    BY <1>5, <2>1 DEF Position
<1>8. Course(q)
  <2>1. ASSUME NEW j \in DOMAIN q.todo PROVE q.todo[j] = Plan(q.route)[Position(q) + j - 1]
    <3>1. j \in Nat
      BY <1>4, <1>5
    <3>2. Position(q) + j - 1 = j
      BY <1>7, <3>1
    <3> QED
      BY <1>5, <3>2
  <2> QED
    BY <1>5, <1>6, <1>7, <2>1 DEF Course
<1>9. Found(q, ever)
  BY <1>5 DEF Found
<1>10. ASSUME q.todo # <<>>
       PROVE  q.answer = None /\ Learnt(q, ever) /\ Noticed(q, kept) /\ Complete(q, kept)
  <2>1. q.todo[1] = "context"
    BY <1>7, <1>8, <1>10, Where
  <2>2. \A step : ~Passed(q, step)
    <3>1. DOMAIN q.route.guards \subseteq Nat \ {0}
      BY <1>8, RouteLists
    <3> QED
      BY <1>7, <3>1 DEF Passed
  <2>3. ~(Position(q) > Len(q.route.guards) + 5) /\ ~(Position(q) > 1)
    <3>1. Len(q.route.guards) \in Nat
      BY <1>8, RouteLists
    <3> QED
      BY <1>7, <3>1
  <2>4. Learnt(q, ever)
    BY <1>5, <2>1, <2>2, <2>3 DEF Learnt
  <2>5. Noticed(q, kept) /\ Complete(q, kept)
    BY <1>5, <2>1, <2>3 DEF Noticed, Complete
  <2> QED
    BY <1>5, <2>4, <2>5
<1>11. RequestInv(q, ever, kept)
  BY <1>5, <1>8, <1>9, <1>10 DEF RequestInv
<1> QED
  BY <1>1, <1>11 DEF IInv, q

\* The facts become others of which the memberships still have one role each.
LEMMA Changing ==
  ASSUME IInv, NEW facts, Becomes(facts), facts \subseteq Fact,
         \A u \in User, o \in Org : OneSeat(facts, u, o)
  PROVE  IInv'
<1>1. /\ fact' = facts /\ ever' = ever \cup facts /\ kept' = kept \cap facts
      /\ changes' = changes + 1 /\ changes < MaxChanges /\ request' = request
      /\ request.todo # <<>>
  BY OfRequest DEF Becomes
<1>2. FactsInv(fact, ever, kept) /\ changes \in 0..MaxChanges /\ RequestInv(request, ever, kept)
  BY DEF IInv
<1>3. FactsInv(fact', ever', kept')
  BY <1>1, <1>2 DEF FactsInv
<1>4. changes' \in 0..MaxChanges
  BY <1>1, <1>2, MaxChangesAssumption
<1>5. RequestInv(request, ever', kept')
  BY <1>1, <1>2, Monotonic
<1>6. RequestInv(request', ever', kept')
  BY <1>1, <1>5
<1> QED
  BY <1>3, <1>4, <1>6 DEF IInv

\* Every statement of the others leaves each membership one role: they take
\* facts away, or add facts that are no membership, or write the row that is there.
LEMMA ChangeKeeps == ASSUME IInv, Change PROVE IInv'
<1>1. fact \subseteq Fact /\ \A u \in User, o \in Org : OneSeat(fact, u, o)
  BY DEF IInv, FactsInv
<1>2. ASSUME NEW gone, Becomes(fact \ gone) PROVE IInv'
  <2>1. \A u \in User, o \in Org : OneSeat(fact \ gone, u, o)
    BY <1>1 DEF OneSeat
  <2>2. fact \ gone \subseteq Fact
    BY <1>1
  <2> QED
    BY <1>2, <2>1, <2>2, Changing
<1>3. ASSUME NEW gone, NEW new \in SUBSET Fact, Becomes((fact \ gone) \cup new),
             \A u, o, i : Seat(u, o, i) \notin new
      PROVE  IInv'
  <2>1. \A u \in User, o \in Org : OneSeat((fact \ gone) \cup new, u, o)
    BY <1>1, <1>3 DEF OneSeat
  <2>2. (fact \ gone) \cup new \subseteq Fact
    BY <1>1
  <2> QED
    BY <1>3, <2>1, <2>2, Changing
<1>4. ASSUME NEW new \in Fact, Becomes(fact \cup {new}), \A u, o, i : Seat(u, o, i) # new
      PROVE  IInv'
  <2>1. fact \cup {new} = (fact \ {}) \cup {new}
    OBVIOUS
  <2> QED
    BY <1>3, <1>4, <2>1
<1>5. ASSUME NEW u \in User, NEW o \in Org, NEW i \in Role, ChangeMemberRole(u, o, i) PROVE IInv'
  <2> DEFINE facts == (fact \ SeatsOf(u, o)) \cup {Seat(u, o, i)}
  <2>1. Becomes(facts)
    BY <1>5 DEF ChangeMemberRole
  <2>2. facts \subseteq Fact
    BY <1>1 DEF Fact
  <2>3. ASSUME NEW v \in User, NEW p \in Org, NEW j \in Role, NEW k \in Role,
               Seat(v, p, j) \in facts, Seat(v, p, k) \in facts
        PROVE  j = k
    <3>1. CASE v = u /\ p = o
      <4>1. \A x \in Role : Seat(u, o, x) \in facts => x = i
        BY Seats DEF SeatsOf
      <4> QED
        BY <2>3, <3>1, <4>1
    <3>2. CASE ~(v = u /\ p = o)
      <4>1. Seat(v, p, j) \in fact /\ Seat(v, p, k) \in fact
        BY <2>3, <3>2, Seats
      <4> QED
        BY <1>1, <4>1 DEF OneSeat
    <3> QED
      BY <3>1, <3>2
  <2>4. \A v \in User, p \in Org : OneSeat(facts, v, p)
    BY <2>3 DEF OneSeat
  <2> HIDE DEF facts
  <2> QED
    BY <2>1, <2>2, <2>4, Changing
<1>6. ASSUME NEW i \in Role, NEW codes \in Sets, ReplacePermissions(i, codes) PROVE IInv'
  <2> DEFINE new == {Grant(i, p) : p \in codes}
             gone == {Grant(i, p) : p \in Code}
  <2>1. Becomes((fact \ gone) \cup new)
    BY <1>6 DEF ReplacePermissions
  <2>2. new \in SUBSET Fact
    BY DEF Fact, Code
  <2>3. \A u, o, x : Seat(u, o, x) \notin new
    BY Seats
  <2> HIDE DEF new, gone
  <2> QED
    BY <1>3, <2>1, <2>2, <2>3
<1>7. ASSUME NEW s \in Session, RevokeSession(s) PROVE IInv'
  BY <1>2, <1>7 DEF RevokeSession
<1>8. ASSUME NEW u \in User, NEW o \in Org, RemoveMember(u, o) PROVE IInv'
  BY <1>2, <1>8 DEF RemoveMember
<1>9. ASSUME NEW i \in Role, DeleteRole(i) \/ RestoreRole(i) PROVE IInv'
  <2>1. RoleExists(i) \in Fact /\ \A u, o, x : Seat(u, o, x) # RoleExists(i)
    BY SMTT(30), Seats DEF Fact
  <2> QED
    BY <1>2, <1>4, <1>9, <2>1 DEF DeleteRole, RestoreRole
<1>10. ASSUME NEW o \in Org, DeleteOrganization(o) \/ RestoreOrganization(o) PROVE IInv'
  <2>1. OrgExists(o) \in Fact /\ \A u, p, x : Seat(u, p, x) # OrgExists(o)
    BY Seats DEF Fact
  <2> QED
    BY <1>2, <1>4, <1>10, <2>1 DEF DeleteOrganization, RestoreOrganization
<1>11. ASSUME NEW u \in User, SeedAdmin(u) \/ WithdrawAdmin(u) PROVE IInv'
  <2>1. Admin(u) \in Fact /\ \A v, o, x : Seat(v, o, x) # Admin(u)
    BY Seats DEF Fact
  <2> QED
    BY <1>2, <1>4, <1>11, <2>1 DEF SeedAdmin, WithdrawAdmin
<1> QED
  BY <1>5, <1>6, <1>7, <1>8, <1>9, <1>10, <1>11 DEF Change

\* And so does every step of the request, which leaves the facts alone.
LEMMA ServeKeeps == ASSUME IInv, Serve PROVE IInv'
<1>1. RequestInv(request', ever, kept)
  <2>1. ASSUME ReadSeat \/ ReadRole \/ ReadCodes \/ ReadAdmin \/ Pipes \/ ValidateImage
               \/ FindOrganization \/ ReadSeats
        PROVE  RequestInv(request', ever, kept)
    BY <2>1, SeatStep, RoleStep, CodesStep, AdminStep, PipesStep, ImageStep, OrganizationStep, SeatsStep
  <2>2. ASSUME ReadContext \/ LoseContext \/ Throttle \/ AskGoogle \/ ReadSession \/ CheckActiveOrg
        PROVE  RequestInv(request', ever, kept)
    BY <2>2, ContextStep, ThrottleStep, GoogleStep, SessionStep, ActiveOrgStep
  <2>3. ASSUME NEW p \in request.seats, OpenSeat(p) PROVE RequestInv(request', ever, kept)
    BY <2>3, OpenStep
  <2>4. ASSUME NEW f \in request.pending, Look(f) PROVE RequestInv(request', ever, kept)
    BY <2>4, LookStep
  <2>5. ASSUME EndListing \/ Finish \/ FailStatement PROVE RequestInv(request', ever, kept)
    BY <2>5, EndStep, FinishStep, FailStep
  <2> QED
    BY <2>1, <2>2, <2>3, <2>4, <2>5 DEF Serve
<1>2. UNCHANGED <<fact, ever, kept, changes>>
  <2> USE DEF Goes, Refuse, Unchanged, Passes
  <2>1. ASSUME ReadSeat \/ ReadRole \/ ReadCodes \/ ReadAdmin \/ Pipes \/ ValidateImage
               \/ FindOrganization \/ ReadSeats
        PROVE  UNCHANGED <<fact, ever, kept, changes>>
    BY <2>1 DEF ReadSeat, ReadRole, ReadCodes, ReadAdmin, Pipes, ValidateImage, FindOrganization,
                ReadSeats
  <2>2. ASSUME ReadContext \/ LoseContext \/ Throttle \/ AskGoogle \/ ReadSession \/ CheckActiveOrg
        PROVE  UNCHANGED <<fact, ever, kept, changes>>
    BY <2>2 DEF ReadContext, LoseContext, Throttle, AskGoogle, ReadSession, CheckActiveOrg
  <2>3. ASSUME NEW p \in request.seats, OpenSeat(p) PROVE UNCHANGED <<fact, ever, kept, changes>>
    BY <2>3 DEF OpenSeat
  <2>4. ASSUME NEW f \in request.pending, Look(f) PROVE UNCHANGED <<fact, ever, kept, changes>>
    BY <2>4 DEF Look
  <2>5. ASSUME EndListing \/ Finish \/ FailStatement PROVE UNCHANGED <<fact, ever, kept, changes>>
    BY <2>5 DEF EndListing, Finish, FailStatement
  <2> QED
    BY <2>1, <2>2, <2>3, <2>4, <2>5 DEF Serve
<1>3. FactsInv(fact, ever, kept) /\ changes \in 0..MaxChanges
  BY DEF IInv
<1>4. FactsInv(fact', ever', kept') /\ changes' \in 0..MaxChanges /\ RequestInv(request', ever', kept')
  BY <1>1, <1>2, <1>3
<1> QED
  BY <1>4 DEF IInv

\* The invariant holds throughout, whatever the others do between the reads of
\* the middleware, the guards and the use case.
THEOREM Invariance == Spec => []IInv
<1>1. IInv /\ [Next]_vars => IInv'
  <2>1. ASSUME IInv, UNCHANGED vars PROVE IInv'
    <3>1. fact' = fact /\ ever' = ever /\ kept' = kept /\ changes' = changes /\ request' = request
      BY <2>1 DEF vars
    <3>2. FactsInv(fact, ever, kept) /\ changes \in 0..MaxChanges /\ RequestInv(request, ever, kept)
      BY <2>1 DEF IInv
    <3>3. FactsInv(fact', ever', kept') /\ changes' \in 0..MaxChanges
          /\ RequestInv(request', ever', kept')
      BY <3>1, <3>2
    <3> QED
      BY <3>3 DEF IInv
  <2> QED
    BY <2>1, ChangeKeeps, ServeKeeps DEF Next
<1> QED
  BY <1>1, Arrival, PTL DEF Spec
-----------------------------------------------------------------------------
(* What follows from it.                                                   *)

\* The facts and the request have their types at every moment; a membership
\* has one role.
THEOREM TypeCorrect == Spec => []TypeOK
<1>1. IInv => TypeOK
  <2> SUFFICES ASSUME IInv PROVE TypeOK
    OBVIOUS
  <2>1. FactsInv(fact, ever, kept) /\ changes \in 0..MaxChanges /\ RequestInv(request, ever, kept)
    BY DEF IInv
  <2>2. request \in RequestState
    BY <2>1 DEF RequestInv, Course
  <2>3. DOMAIN request = DOMAIN Arriving(request.route, None, None, None)
    BY <2>2 DEF RequestState, Arriving
  <2>4. request.route \in Routes /\ request.role \in Role \cup {None}
        /\ request.active \in Org \cup {None} /\ request.seats \subseteq Org \X Role
        /\ request.pending \subseteq Fact /\ request.listed \subseteq Org
    BY <2>2 DEF RequestState
  <2>5. request.answer # None => request.answer \in AnswerOK
    BY <2>1 DEF RequestInv
  <2> QED
    BY <2>1, <2>3, <2>4, <2>5 DEF TypeOK, FactsInv, AnswerOK
<1> QED
  BY <1>1, Invariance, PTL

\* Who never had what the guards and the use case of a route ask for, at any
\* moment since the request arrived, gets an answer that tells nothing.
THEOREM StrangersTurnedAway == Spec => []StrangersLearnNothing
<1>1. IInv => StrangersLearnNothing
  <2> SUFFICES ASSUME IInv, Answered PROVE StrangersLearnNothing
    BY DEF StrangersLearnNothing
  <2>1. Strangers(request, ever)
    BY DEF IInv, RequestInv, Answered
  <2> QED
    BY <2>1, OfRequest DEF Strangers, StrangersLearnNothing
<1> QED
  BY <1>1, Invariance, PTL

\* Who had all of it at every moment, in an organization that stood, is not
\* refused for a want of it.  The invariant says it of any organization.
THEOREM EntitledServed == Spec => []EntitledAreServed
<1>1. IInv => EntitledAreServed
  <2> SUFFICES ASSUME IInv, Answered PROVE EntitledAreServed
    BY DEF EntitledAreServed
  <2>1. Entitled(request, kept)
    BY DEF IInv, RequestInv, Answered
  <2>2. Asks("session") => Has(request.route.guards, "session")
    BY DEF Asks, Has
  <2> QED
    BY <2>1, <2>2, OfRequest DEF Entitled, EntitledAreServed
<1> QED
  BY <1>1, Invariance, PTL

\* A listing of the caller's organizations has what was there throughout and
\* nothing that never was.
THEOREM ListingCorrect == Spec => []ListingHasWhatStood
<1>1. IInv => ListingHasWhatStood
  <2> SUFFICES ASSUME IInv, Answered PROVE ListingHasWhatStood
    BY DEF ListingHasWhatStood
  <2>1. Stood(request, ever, kept)
    BY DEF IInv, RequestInv, Answered
  <2> QED
    BY <2>1, OfRequest DEF Stood, ListingUse, ListingHasWhatStood
<1> QED
  BY <1>1, Invariance, PTL

\* Every domain error is answered with the status it declares on every route
\* that can raise it; exactly the server errors are logged as errors.
THEOREM AnswersAreTrue == Spec => []AnswersTellTheError
<1>1. IInv => AnswersTellTheError
  <2> SUFFICES ASSUME IInv, Answered PROVE AnswersTellTheError
    BY DEF AnswersTellTheError
  <2>1. Tells(request)
    BY DEF IInv, RequestInv, Answered
  <2> QED
    BY <2>1 DEF Tells, AnswersTellTheError
<1> QED
  BY <1>1, Invariance, PTL

\* A listing narrowed for a member admits what the validator admits one by one,
\* in every context a member can have.
THEOREM ScopeIsOwnership == Spec => []ScopeAdmitsWhatIsOwned
<1>1. ScopeAdmitsWhatIsOwned
  <2>1. ASSUME NEW u \in User, NEW o \in Org, NEW context \in Context(u, o), NEW x \in Resource
        PROVE  CheckOwnership(<<>>, "default", "any", context, x, None) = "none" <=> Owned(x, context)
    <3>1. context \in [user : User, organization : Org, level : {SELF, ORGANIZATION}]
      BY LevelAssumption DEF Context
    <3>2. None # context /\ None # x /\ None # "default"
      BY <3>1, ResourceAssumption
    <3>3. ValidatorFor(<<>>, "default", "any") = "default"
      <4>1. DOMAIN <<>> = {}
        OBVIOUS
      <4> QED
        BY <4>1 DEF ValidatorFor
    <3> QED
      BY <3>2, <3>3 DEF CheckOwnership
  <2>2. ASSUME NEW u \in User, NEW o \in Org, NEW context \in Context(u, o), NEW x \in Resource
        PROVE  x \in Scope(Resource, context) <=> Owned(x, context)
    BY DEF Scope, Owned, HasGlobalAccess, HasOrganizationAccess
  <2>3. ASSUME NEW u \in User, NEW o \in Org, NEW context \in Context(u, o)
        PROVE  Scope(Resource, context) =
                 {x \in Resource : CheckOwnership(<<>>, "default", "any", context, x, None) = "none"}
    <3>1. Scope(Resource, context) \subseteq Resource
      BY DEF Scope
    <3> QED
      BY <2>1, <2>2, <3>1
  <2> QED
    BY <2>3 DEF ScopeAdmitsWhatIsOwned
<1> QED
  BY <1>1, PTL DEF Spec
=============================================================================
