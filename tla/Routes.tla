-------------------------------- MODULE Routes ------------------------------
(***************************************************************************)
(* The routes of the API: per route, the guards its controller puts in     *)
(* front of it, whether its path names an organization, the permission it  *)
(* declares, the filters of its controller, and the use case behind it;    *)
(* per use case, the permission it requires itself, the reads it does      *)
(* before its own work, and the errors that work may raise.                *)
(***************************************************************************)
EXTENDS Sequences

\* The steps a request may take: those of the guards, those use cases start
\* with, and those every request takes.
GuardStep == {"throttle", "google", "session", "activeOrg", "seat", "role", "codes", "admin"}
ReadStep == {"seat", "role", "codes", "organization", "image", "seats", "listing"}
Step == {"context", "pipes", "work"} \cup GuardStep \cup ReadStep

Jwt == <<"session">>
ActiveOrg == <<"activeOrg">>
Permission(need) == IF need = "none" THEN <<>> ELSE <<"seat", "role", "codes">>
PlatformAdmin == <<"admin">>
Throttler == <<"throttle">>
Google == <<"google">>

Route(name, guards, path, need, filters, use) ==
  [name |-> name, guards |-> guards, path |-> path, need |-> need,
   filters |-> filters, use |-> use]

\* OrganizationsController: a JWT and the declared permission.
Managed(name, path, need, use) ==
  Route(name, Jwt \o Permission(need), path, need, <<"domain">>, use)

OrganizationRoutes ==
  {Managed("organizations.create", FALSE, "none", "createOrganization"),
   Managed("organizations.listMine", FALSE, "none", "listMyOrganizations"),
   Managed("organizations.clearActive", FALSE, "none", "nothing"),
   Managed("organizations.getById", TRUE, "organization:read", "getOrganization"),
   Managed("organizations.update", TRUE, "organization:update", "updateOrganization"),
   Managed("organizations.uploadLogo", TRUE, "organization:update", "setOrganizationImage"),
   Managed("organizations.uploadBanner", TRUE, "organization:update", "setOrganizationImage"),
   Managed("organizations.remove", TRUE, "organization:delete", "deleteOrganization"),
   Managed("organizations.select", TRUE, "none", "getOrganization")}

\* The routes that work on the active organization.
Business(name, need, use) ==
  Route(name, Jwt \o ActiveOrg \o Permission(need), TRUE, need, <<"domain">>, use)

MemberRoutes ==
  {Business("members.list", "members:read", "listOrganizationMembers"),
   Business("members.changeRole", "members:update_role", "changeMemberRole"),
   Business("members.remove", "members:remove", "removeMember")}

RoleRoutes == {Business("roles.list", "roles:read", "listRoles")}

MyPermissionRoutes == {Business("me.permissions", "none", "effectivePermissions")}

\* Mutant: without the filter for domain errors.
AdministeredUnfiltered(name, use) ==
  Route(name, Jwt \o PlatformAdmin, FALSE, "none", <<>>, use)

\* The administration of the platform.
Administered(name, use) ==
  Route(name, Jwt \o PlatformAdmin, FALSE, "none", <<"domain">>, use)

AdminRoleRoutes ==
  {Administered("admin.roles.list", "nothing"),
   Administered("admin.roles.create", "createRole"),
   Administered("admin.roles.update", "updateRole"),
   Administered("admin.roles.remove", "deleteRole"),
   Administered("admin.roles.replacePermissions", "replaceRolePermissions")}

AdminPermissionRoutes == {Administered("admin.permissions.list", "nothing")}

\* The routes of an account; no path of theirs names an organization.
Account(name, filters, use) == Route(name, Jwt, FALSE, "none", filters, use)

OnboardingRoutes == {Account("onboarding.status", <<>>, "getOnboardingStatus")}

UserRoutes ==
  {Account("users.updateMe", <<"domain">>, "updateUserProfile"),
   Account("users.uploadAvatar", <<"domain">>, "setUserAvatar")}

SessionRoutes ==
  {Account("sessions.list", <<>>, "nothing"),
   Account("sessions.revokeOthers", <<>>, "nothing"),
   Account("sessions.revoke", <<>>, "revokeSession")}

Open(name, guards, use) == Route(name, guards, FALSE, "none", <<>>, use)

AuthRoutes ==
  {Open("auth.register", Throttler, "register"),
   Open("auth.login", Throttler, "login"),
   Open("auth.refresh", Throttler, "refreshToken"),
   Open("auth.logout", <<>>, "logout"),
   Open("auth.me", Jwt, "nothing"),
   Open("auth.googleCallback", Google, "googleAuth")}

PublicRoutes == {Open("root.hello", <<>>, "nothing"), Open("health.check", <<>>, "health")}

Routes == OrganizationRoutes \cup MemberRoutes \cup RoleRoutes \cup MyPermissionRoutes
            \cup AdminRoleRoutes \cup AdminPermissionRoutes \cup OnboardingRoutes
            \cup UserRoutes \cup SessionRoutes \cup AuthRoutes \cup PublicRoutes
-----------------------------------------------------------------------------
\* requirePermission(need), then the reads the use case starts with.
Requires(need, reads, raises) ==
  [need |-> need, reads |-> <<"seat", "role", "codes">> \o reads, raises |-> raises]
Does(reads, raises) == [need |-> "none", reads |-> reads, raises |-> raises]

ImageErrors == {"MissingFile", "InvalidFileType", "FileTooLarge"}

UseCase == [
  getOrganization |-> Requires("organization:read", <<"organization">>, {}),
  updateOrganization |-> Requires("organization:update", <<"organization">>, {"UniqueViolation"}),
  setOrganizationImage |->
    Requires("organization:update", <<"image", "organization">>, {"UniqueViolation"}),
  deleteOrganization |-> Requires("organization:delete", <<"organization">>, {}),
  createOrganization |-> Does(<<>>, {"UniqueViolation"}),
  listMyOrganizations |-> Does(<<"seats", "listing">>, {}),
  getOnboardingStatus |-> Does(<<"seats", "listing">>, {}),
  listOrganizationMembers |-> Requires("members:read", <<>>, {}),
  changeMemberRole |-> Requires("members:update_role", <<>>,
    {"CannotChangeOwnRole", "UnknownRole", "OwnerRoleNotAssignable", "MembershipNotFound",
     "SoleOwner"}),
  removeMember |-> Requires("members:remove", <<>>, {"MembershipNotFound", "SoleOwner"}),
  listRoles |-> Requires("roles:read", <<>>, {}),
  effectivePermissions |-> Does(<<"seat", "role", "codes">>, {}),
  createRole |-> Does(<<>>, {"RoleKeyConflict", "UniqueViolation"}),
  updateRole |-> Does(<<>>, {"RoleNotFound", "UniqueViolation"}),
  deleteRole |-> Does(<<>>, {"RoleNotFound", "OwnerRoleProtected", "RoleInUse"}),
  replaceRolePermissions |-> Does(<<>>, {"RoleNotFound", "UnknownPermission", "UniqueViolation"}),
  updateUserProfile |-> Does(<<>>, {}),
  setUserAvatar |-> Does(<<"image">>, {}),
  revokeSession |-> Does(<<>>, {"NotFound"}),
  register |-> Does(<<>>, {"DuplicateEmail", "UniqueViolation"}),
  login |-> Does(<<>>, {"Unauthorized"}),
  refreshToken |-> Does(<<>>, {"Unauthorized"}),
  logout |-> Does(<<>>, {}),
  googleAuth |-> Does(<<>>, {"DuplicateEmail", "UniqueViolation"}),
  health |-> Does(<<>>, {}),
  nothing |-> Does(<<>>, {})]

\* The use cases that answer as well when a statement of theirs fails.
Swallows == {"logout", "health"}

\* What happens to a request, in order: the middleware, the guards, the pipes,
\* the reads of the use case and the rest of it.
Plan(route) ==
  <<"context">> \o route.guards \o <<"pipes">> \o UseCase[route.use].reads \o <<"work">>
=============================================================================
