------------------------------- MODULE Ownership ----------------------------
(***************************************************************************)
(* The reach of a role over the resources of an organization: one resource *)
(* is validated before it is touched, a listing is narrowed by a condition *)
(* of its query.  A resource has an organization and a creator, either of  *)
(* which may be missing; a context has a user, an organization and the     *)
(* level of the role the user has there.                                   *)
(***************************************************************************)
EXTENDS Naturals

SELF == 1
ORGANIZATION == 5
GLOBAL == 10

HasOrganizationAccess(level) == level >= ORGANIZATION
HasGlobalAccess(level) == level >= GLOBAL

\* DefaultOwnershipValidator.validate of a resource that was found.
Owned(resource, context) ==
  \/ HasGlobalAccess(context.level)
  \/ /\ resource.organization = context.organization
     /\ HasOrganizationAccess(context.level) \/ resource.creator = context.user

\* Mutant: the condition on the organization is only added for the level
\* ORGANIZATION.
ScopeSelfAnywhere(resources, context) ==
  {x \in resources :
     \/ HasGlobalAccess(context.level)
     \/ HasOrganizationAccess(context.level) /\ x.organization = context.organization
     \/ ~HasOrganizationAccess(context.level) /\ x.creator = context.user}

\* applyOwnershipScope: the rows the narrowed query returns; a comparison with
\* NULL is not true.
Scope(resources, context) ==
  {x \in resources :
     \/ HasGlobalAccess(context.level)
     \/ /\ x.organization = context.organization
        /\ ~HasOrganizationAccess(context.level) => x.creator = context.user}

\* The registry: the validator registered for the type, or the default one.
ValidatorFor(validators, default, type) ==
  IF type \in DOMAIN validators THEN validators[type] ELSE default

\* PermissionGuard.checkOwnership: the validator, the context, the resource, in
\* this order.  None is no validator, no membership, no resource.
CheckOwnership(validators, default, type, context, resource, None) ==
  IF None \in {ValidatorFor(validators, default, type), context} THEN "Forbidden"
  ELSE IF resource = None THEN "NotFound"
  ELSE IF Owned(resource, context) THEN "none"
  ELSE "Forbidden"
=============================================================================
