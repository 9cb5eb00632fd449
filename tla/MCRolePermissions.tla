-------------------------- MODULE MCRolePermissions -------------------------
(* Model-checking instances of RolePermissions.                            *)
EXTENDS RolePermissions

\* The owner role is seeded with one of the two permissions.
MCSeedSet == [k \in {"owner"} |-> {"read"}]

\* Nothing, both in either order, one that the catalog does not know, one twice.
MCList == {<<>>, <<"read", "update">>, <<"update", "read">>, <<"fly">>, <<"read", "read">>}
=============================================================================
