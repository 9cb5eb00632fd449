-------------------------- MODULE MCRequestPipeline -------------------------
(* Model-checking instances of RequestPipeline: one user, a member of two  *)
(* organizations, in one with a role that reads, in the other with one     *)
(* that lacks a permission.                                                *)
EXTENDS RequestPipeline

CONSTANTS u1, u2, o1, o2, i1, i2, s1

MCOwner == [s \in {s1} |-> u1]
MCLevel == [i \in {i1, i2} |-> IF i = i1 THEN ORGANIZATION ELSE SELF]
MCResource == [organization: {o1, o2, None}, creator: {u1, u2, None}]

\* An administrator grants everything, reading or nothing.
MCReads == {"organization:read", "members:read", "roles:read"}
MCAll == MCReads \cup {"organization:update", "organization:delete", "members:update_role",
                       "members:remove"}
MCSets == {{}, MCReads, MCAll}

MCFacts == {LiveSession(s1), Seat(u1, o1, i1), Seat(u1, o2, i2), RoleExists(i1), RoleExists(i2),
            OrgExists(o1), OrgExists(o2), Admin(u1)}
             \cup {Grant(i1, p) : p \in MCAll} \cup {Grant(i2, p) : p \in MCReads}

\* Everything is there; the session is revoked; the user is no administrator,
\* has left an organization, and the other is deleted.
MCStart == {MCFacts, MCFacts \ {LiveSession(s1)},
            MCFacts \ {Seat(u1, o2, i2), OrgExists(o1), Admin(u1)}}

\* All of them.
MCServed == {route.name : route \in Routes}
=============================================================================
