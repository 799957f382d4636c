-------------------------------- MODULE Rbac --------------------------------
(***************************************************************************)
(* The platform's capability matrix (internal/rbac/rbac.go): what a role   *)
(* may do at all.  Who owns what is the second layer, in SurveyService.    *)
(***************************************************************************)

Roles == {"admin", "creator", "respondent"}

\* The controlled actions, one per protected endpoint.
StudioActions ==
  {"survey:list", "survey:read", "survey:stats", "survey:create", "survey:copy",
   "survey:update", "survey:publish", "survey:close", "survey:reopen"}

RbacActions == StudioActions \cup {"answer:submit", "account:manage"}

\* matrix: an action that a role does not list is refused.
Capabilities ==
  [admin      |-> RbacActions,
   creator    |-> StudioActions,
   respondent |-> {"answer:submit"}]

\* Can: an unknown role can do nothing.
Can(role, action) ==
  /\ role \in DOMAIN Capabilities
  /\ action \in Capabilities[role]

\* IsAdmin: the roles that cross the ownership check.
IsAdmin(role) == role = "admin"

=============================================================================
