---------------------------- MODULE ProjectAccess ----------------------------
(***************************************************************************)
(* Who may read, write and manage one project.                             *)
(*                                                                         *)
(* A project starts personal: its owner and the invited members decide     *)
(* access (server/src/projectAccess.ts).  Once it is bound to an           *)
(* organization the tenant's membership takes precedence over ownership    *)
(* and invitations, and the tenant's billing entitlement gates writes.     *)
(***************************************************************************)

CONSTANTS
  Users,      \* registered accounts
  Owner,      \* projects.user_id, fixed when the project is created
  Editors     \* accounts the owner has invited as editors before the start

ASSUME OwnerAssumption == Owner \in Users /\ Editors \subseteq Users \ {Owner}

VARIABLES
  members,      \* project_members: user -> invited role, "none" without a row
  tenant,       \* projects.organization_id IS NOT NULL
  orgRole,      \* organization_members: user -> tenant role, "none" without a row
  orgWritable   \* the tenant's entitlement is valid and not over capacity

accessVars == <<members, tenant, orgRole, orgWritable>>

MemberRole == {"editor", "viewer"}
OrgRole    == {"owner", "admin", "editor", "viewer"}

AccessTypeOK ==
  /\ members \in [Users -> MemberRole \cup {"none"}]
  /\ tenant \in BOOLEAN
  /\ orgRole \in [Users -> OrgRole \cup {"none"}]
  /\ orgWritable \in BOOLEAN

AccessInit ==
  /\ members = [u \in Users |-> IF u \in Editors THEN "editor" ELSE "none"]
  /\ tenant = FALSE
  /\ orgRole = [u \in Users |-> IF u = Owner THEN "owner" ELSE "none"]
  /\ orgWritable = TRUE

-----------------------------------------------------------------------------
(* The role the server resolves on every request. *)
RoleOf(u) ==
  IF tenant THEN IF orgRole[u] \in {"owner", "admin"} THEN "owner" ELSE orgRole[u]
            ELSE IF u = Owner THEN "owner" ELSE members[u]

CanRead(u)   == RoleOf(u) # "none"
CanWrite(u)  == RoleOf(u) \in {"owner", "editor"} /\ (tenant => orgWritable)
CanManage(u) == RoleOf(u) = "owner"

OrgAdmin(u)  == orgRole[u] \in {"owner", "admin"}

-----------------------------------------------------------------------------
(* One write of a membership table, each a statement of its own. *)
SetMember(target, role) ==
  /\ members' = [members EXCEPT ![target] = role]
  /\ UNCHANGED <<tenant, orgRole, orgWritable>>

SetOrgRole(target, role) ==
  /\ orgRole' = [orgRole EXCEPT ![target] = role]
  /\ UNCHANGED <<members, tenant, orgWritable>>

BindToTenant ==
  /\ tenant' = TRUE
  /\ members' = [u \in Users |-> "none"]
  /\ UNCHANGED <<orgRole, orgWritable>>

(* Guards the organization routes test inside their transaction. *)
MayAppoint(actor, target, role) ==
  /\ OrgAdmin(actor)
  /\ orgRole[target] = "none"
  /\ role = "admin" => orgRole[actor] = "owner"
  /\ orgWritable                                  \* canAddMember implies it

MayChangeRole(actor, target, role) ==
  /\ OrgAdmin(actor)
  /\ orgRole[target] \notin {"none", "owner"}
  /\ orgRole[actor] = "owner" \/ "admin" \notin {orgRole[target], role}

MayDismiss(actor, target) ==
  /\ OrgAdmin(actor)
  /\ orgRole[target] # "owner"
  /\ orgRole[target] = "admin" => orgRole[actor] = "owner"

MayTransfer(actor, target) ==
  /\ orgRole[actor] = "owner"
  /\ target # actor
  /\ orgRole[target] # "none"
=============================================================================
