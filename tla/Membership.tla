----------------------------- MODULE Membership ----------------------------
(***************************************************************************)
(* Organizations, invitations and accounts of the API: what the services   *)
(* organization, invitation and user do to MongoDB, with the projects and  *)
(* events that hang on an organization.                                    *)
(*                                                                         *)
(* A request is a goroutine of the server. Each of its database calls is a *)
(* step of its own, and nothing but single documents is atomic: there are  *)
(* no transactions here. Any call may fail, and the API may stop between   *)
(* two calls; the request is then over, with what it had written.          *)
(*                                                                         *)
(* The entries of a user in an organization's member array are a sequence  *)
(* of roles: the order between users decides nothing, a second entry of    *)
(* one user is possible. An organization has at most one project.          *)
(***************************************************************************)
EXTENDS Naturals, FiniteSets, Sequences, FiniteSetsExt, Functions

CONSTANTS
  Users,
  Orgs, Slugs, Invs,  \* the ids and the slugs there are to use
  Procs,              \* requests served at once
  Worlds,             \* what organizations and invitations may be at first
  MaxRequests         \* bound: requests served in all

VARIABLES
  accounts,     \* the users collection
  orgs,         \* the organizations collection
  projects,     \* the organizations that have a project
  events,       \* the organizations whose project has events
  invitations,  \* the invitations collection
  req,          \* the request each goroutine serves, and its next call
  answer,       \* the code a goroutine answered last
  served,       \* counts the requests, for the bound
  stale,        \* history: an organization its request had read has changed
  loose,        \* history: got a project or events while they were deleted
  late,         \* history: <<u, o>> when u joined o and its account was going
  given         \* history: the ids in use or used; none is given out twice

docs == <<accounts, orgs, projects, events, invitations>>
hist == <<loose, late, given>>
vars == <<docs, req, answer, served, stale, hist>>
-----------------------------------------------------------------------------
Roles == {"admin", "member"}
Members == [Users -> Seq(Roles)]
Organization == [slug : Slugs, members : Members]
Invitation == [org : Orgs, email : Users, status : {"pending", "accepted"}]

(* At first an admin is the first and only entry of a user that is one.    *)
ASSUME MembershipAssumption ==
  /\ IsFiniteSet(Users) /\ MaxRequests \in Nat
  /\ \A w \in Worlds :
       /\ w.orgs \in [DOMAIN w.orgs -> Organization] /\ DOMAIN w.orgs \subseteq Orgs
       /\ w.invitations \in [DOMAIN w.invitations -> Invitation]
       /\ DOMAIN w.invitations \subseteq Invs /\ IsFiniteSet(DOMAIN w.invitations)
       /\ \A o \in DOMAIN w.orgs, u \in Users : \A i \in 2 .. Len(w.orgs[o].members[u]) :
            w.orgs[o].members[u][i] = "member"

Codes == {"none", "ok", "internal", "denied", "invalid", "exists",
          "precondition", "not_found"}

(* The messages, with who is signed in.                                    *)
CreateOrganizationReq == [op : {"CreateOrganization"}, by : Users, slug : Slugs]
UpdateOrganizationReq == [op : {"UpdateOrganization"}, by : Users, org : Orgs, slug : Slugs]
UpdateMemberRoleReq ==
  [op : {"UpdateMemberRole"}, by : Users, org : Orgs, target : Users, role : Roles]
RemoveMemberReq == [op : {"RemoveMember"}, by : Users, org : Orgs, target : Users]
LeaveOrganizationReq == [op : {"LeaveOrganization"}, by : Users, org : Orgs]
CreateInvitationReq == [op : {"CreateInvitation"}, by : Users, org : Orgs, target : Users]
RevokeInvitationReq == [op : {"RevokeInvitation"}, by : Users, inv : Invs]
AcceptInvitationReq == [op : {"AcceptInvitation"}, by : Users, inv : Invs]
DeleteAccountReq == [op : {"DeleteAccount"}, by : Users]
RegisterProjectReq == [op : {"RegisterProject"}, org : Orgs]
SendLogsReq == [op : {"Collect"}, by : Users, org : Orgs]

Calls ==
  CreateOrganizationReq \cup UpdateOrganizationReq \cup UpdateMemberRoleReq
    \cup RemoveMemberReq \cup LeaveOrganizationReq \cup CreateInvitationReq
    \cup RevokeInvitationReq \cup AcceptInvitationReq \cup DeleteAccountReq
    \cup RegisterProjectReq \cup SendLogsReq

Steps == {"idle", "slug", "create", "requester", "update", "target", "admins", "write",
          "org", "projects", "delete_events", "delete_projects", "delete_org",
          "members", "pending", "invitation", "push", "status", "account", "list",
          "user", "access", "project", "insert", "inviter", "count",
          "org_as_admin", "requester_late"}

(* call is the message, org the organization being worked at, left what    *)
(* DeleteAccount has listed and not handled: the member count of each.     *)
NoOrg == "no organization"
Idle == [call |-> [op |-> "none"], pc |-> "idle", org |-> NoOrg, left |-> <<>>]
IsRequest(r) ==
  /\ r.call \in Calls /\ r.pc \in Steps \ {"idle"} /\ r.org \in Orgs \cup {NoOrg}
  /\ DOMAIN r.left \subseteq Orgs /\ \A o \in DOMAIN r.left : r.left[o] \in Nat
  /\ r = [call |-> r.call, pc |-> r.pc, org |-> r.org, left |-> r.left]

Busy(p) == req[p].pc # "idle"
Op(p) == req[p].call.op

(* The first database call of each handler.                                *)
FirstStep ==
  [CreateOrganization |-> "slug", UpdateOrganization |-> "requester",
   UpdateMemberRole |-> "requester", RemoveMember |-> "requester",
   LeaveOrganization |-> "requester", CreateInvitation |-> "requester",
   RevokeInvitation |-> "invitation", AcceptInvitation |-> "account",
   DeleteAccount |-> "account", RegisterProject |-> "project", Collect |-> "access"]
-----------------------------------------------------------------------------
(* organization_repo.go                                                    *)

Insert(coll, id, doc) == [x \in DOMAIN coll \cup {id} |-> IF x = id THEN doc ELSE coll[x]]

None == [u \in Users |-> <<>>]
Single(u, role) == [None EXCEPT ![u] = <<role>>]

Entries(o, u) == IF o \in DOMAIN orgs THEN orgs[o].members[u] ELSE <<>>

(* The role of the first entry; "" for who has none.                       *)
GetMemberRole(o, u) == IF Entries(o, u) = <<>> THEN "" ELSE Head(Entries(o, u))

(* Mutant: only an admin counts as a member.                               *)
IsMemberAsAdmin(o, u) == GetMemberRole(o, u) = "admin"

IsMember(o, u) == Entries(o, u) # <<>>

(* Joined with the accounts: a member who has none is not seen.            *)
GetMembersWithDetails(o) == {u \in accounts : IsMember(o, u)}

(* Array elements are counted, not users.                                  *)
Elements(m) == UNION {{u} \X DOMAIN m[u] : u \in Users}

(* Mutant: the elements are filtered by role, as CountAdmins does.         *)
CountMembersFiltered(o) ==
  LET m == orgs[o].members
  IN Cardinality({e \in Elements(m) : m[e[1]][e[2]] = "admin"})

CountMembers(o) == Cardinality(Elements(orgs[o].members))

(* Mutant: the stage that keeps the admins is missing.                     *)
CountAdminsUnfiltered(o) == IF o \in DOMAIN orgs THEN Cardinality(Elements(orgs[o].members)) ELSE 0

CountAdmins(o) ==
  IF o \in DOMAIN orgs
  THEN LET m == orgs[o].members
       IN Cardinality({e \in Elements(m) : m[e[1]][e[2]] = "admin"})
  ELSE 0

SlugTaken(s) == {o \in DOMAIN orgs : orgs[o].slug = s}

(* The unique index on the slug makes the write fail.                      *)
SlugIndexed(o, s) == SlugTaken(s) \subseteq {o}

SetMembers(o, u, entries) ==
  IF o \in DOMAIN orgs THEN [orgs EXCEPT ![o].members[u] = entries] ELSE orgs

(* The positional operator sets the first entry that matches.              *)
WriteRole(o, u, role) ==
  IF IsMember(o, u) THEN SetMembers(o, u, [Entries(o, u) EXCEPT ![1] = role]) ELSE orgs

PullMember(o, u) == SetMembers(o, u, <<>>)

PushMember(o, u) == SetMembers(o, u, Append(Entries(o, u), "member"))

DeleteOrganization(o) == Restrict(orgs, DOMAIN orgs \ {o})

(* An account that a DeleteAccount past its listing is about to remove, or *)
(* that is gone.                                                           *)
Leaving(u) ==
  \/ u \notin accounts
  \/ \E q \in Procs : /\ Busy(q) /\ req[q].call.op = "DeleteAccount" /\ req[q].call.by = u
                      /\ req[q].pc \notin {"account", "list"}

GetUserOrganizations(u) == {o \in DOMAIN orgs : IsMember(o, u)}
-----------------------------------------------------------------------------
(* Errors, by the words the handlers look for in their texts.              *)
Words ==
  [slug_taken |-> {"slug", "already taken"}, duplicate_slug |-> {"slug"},
   not_a_member |-> {"not a member"}, admin_required |-> {"admin role required", "required"},
   target_not_a_member |-> {"not a member"}, last_admin |-> {"last admin"},
   sole_admin |-> {"sole admin"}, org_not_found |-> {"not found"},
   already_member |-> {"already a member"}, yourself |-> {"cannot invite yourself"},
   already_sent |-> {"invitation already sent"}, invitation_not_found |-> {"not found"},
   processed |-> {"already processed"}, no_longer_valid |-> {"no longer valid"},
   mismatch |-> {"email mismatch"}, user_not_found |-> {"not found", "user not found"},
   call_failed |-> {}]

(* A handler tries its tests in order; what none of them knows is internal.*)
FirstMatch(tests, err) ==
  LET hits == {i \in DOMAIN tests : tests[i][1] \cap Words[err] # {}}
  IN IF hits = {} THEN "internal" ELSE tests[Min(hits)][2]

CreateOrganizationCode(err) ==
  FirstMatch(<<<<{"slug", "name", "required", "characters"}, "invalid">>,
               <<{"already taken"}, "exists">>>>, err)
UpdateOrganizationCode(err) ==
  FirstMatch(<<<<{"admin role required", "not a member"}, "denied">>,
               <<{"slug", "name", "required"}, "invalid">>>>, err)
UpdateMemberRoleCode(err) ==
  FirstMatch(<<<<{"admin role required"}, "denied">>, <<{"last admin"}, "precondition">>,
               <<{"role must be", "required"}, "invalid">>>>, err)
RemoveMemberCode(err) ==
  FirstMatch(<<<<{"admin role required"}, "denied">>, <<{"last admin"}, "precondition">>>>, err)
LeaveOrganizationCode(err) ==
  FirstMatch(<<<<{"sole admin"}, "precondition">>, <<{"not a member"}, "denied">>>>, err)
CreateInvitationCode(err) ==
  FirstMatch(<<<<{"admin role required"}, "denied">>, <<{"already a member"}, "exists">>,
               <<{"cannot invite yourself"}, "invalid">>,
               <<{"invitation already sent"}, "exists">>, <<{"required"}, "invalid">>>>, err)
RevokeInvitationCode(err) ==
  FirstMatch(<<<<{"admin role required"}, "denied">>, <<{"not found"}, "not_found">>,
               <<{"already processed"}, "precondition">>>>, err)
AcceptInvitationCode(err) ==
  FirstMatch(<<<<{"not found"}, "not_found">>,
               <<{"no longer valid", "email mismatch"}, "precondition">>>>, err)
DeleteAccountCode(err) ==
  FirstMatch(<<<<{"confirmation phrase"}, "invalid">>, <<{"user not found"}, "not_found">>>>, err)
CollectCode(err) == FirstMatch(<<<<{"not a member"}, "denied">>>>, err)

ErrorCode(op, err) ==
  CASE op = "CreateOrganization" -> CreateOrganizationCode(err)
    [] op = "UpdateOrganization" -> UpdateOrganizationCode(err)
    [] op = "UpdateMemberRole" -> UpdateMemberRoleCode(err)
    [] op = "RemoveMember" -> RemoveMemberCode(err)
    [] op = "LeaveOrganization" -> LeaveOrganizationCode(err)
    [] op = "CreateInvitation" -> CreateInvitationCode(err)
    [] op = "RevokeInvitation" -> RevokeInvitationCode(err)
    [] op = "AcceptInvitation" -> AcceptInvitationCode(err)
    [] op = "DeleteAccount" -> DeleteAccountCode(err)
    [] op = "Collect" -> CollectCode(err)
    [] OTHER -> "internal"
-----------------------------------------------------------------------------
(* The steps of a request.                                                 *)

(* What the handler has read: nothing before its first call.               *)
Reading(q) ==
  IF Busy(q) /\ req[q].pc # FirstStep[Op(q)]
  THEN {req[q].org} \cup DOMAIN req[q].left ELSE {}

Overtaken(p, changed) == {q \in Procs \ {p} : Reading(q) \cap changed # {}}

Goto(p, step) ==
  /\ req' = [req EXCEPT ![p].pc = step]
  /\ UNCHANGED <<answer, served>>

Answer(p, code) ==
  /\ req' = [req EXCEPT ![p] = Idle]
  /\ answer' = [answer EXCEPT ![p] = code]
  /\ UNCHANGED served

Refuse(p, err) == Answer(p, ErrorCode(Op(p), err)) /\ stale' = stale \ {p}
Read(p, step) == Goto(p, step) /\ UNCHANGED stale
Write(p, step, changed) == Goto(p, step) /\ stale' = stale \cup Overtaken(p, changed)
Finish(p, changed) == Answer(p, "ok") /\ stale' = (stale \cup Overtaken(p, changed)) \ {p}

(* A call returns an error, or the API stops: the request goes no further. *)
CallFails(p) ==
  /\ Busy(p)
  /\ Refuse(p, "call_failed")
  /\ UNCHANGED <<docs, hist>>

(* A request comes in. A token is good until it expires, so who asks need  *)
(* not have an account any more.                                           *)
Receive(p, call) ==
  /\ ~Busy(p)
  /\ served < MaxRequests
  /\ served' = served + 1
  /\ req' = [req EXCEPT ![p] = [call |-> call, pc |-> FirstStep[call.op],
                               org |-> IF "org" \in DOMAIN call THEN call.org ELSE NoOrg,
                               left |-> <<>>]]
  /\ answer' = [answer EXCEPT ![p] = "none"]
  /\ UNCHANGED <<docs, stale, hist>>

Init ==
  /\ accounts = Users
  /\ \E world \in Worlds : orgs = world.orgs /\ invitations = world.invitations
  /\ projects = DOMAIN orgs /\ events = DOMAIN orgs
  /\ req = [p \in Procs |-> Idle]
  /\ answer = [p \in Procs |-> "none"]
  /\ given = DOMAIN orgs \cup DOMAIN invitations
  /\ served = 0
  /\ stale = {}
  /\ loose = {} /\ late = {}
-----------------------------------------------------------------------------
(* organization_service.go                                                 *)

CreateOrganization(p) ==
  LET call == req[p].call IN
  /\ Op(p) = "CreateOrganization"
  /\ \/ /\ req[p].pc = "slug"
        /\ IF SlugTaken(call.slug) # {} THEN Refuse(p, "slug_taken") ELSE Read(p, "create")
        /\ UNCHANGED <<docs, hist>>
     \/ /\ req[p].pc = "create"
        /\ \E o \in Orgs \ given :
             IF SlugIndexed(o, call.slug)
             THEN /\ orgs' = Insert(orgs, o, [slug |-> call.slug, members |-> Single(call.by, "admin")])
                  /\ given' = given \cup {o}
                  /\ late' = IF Leaving(call.by) THEN late \cup {<<call.by, o>>} ELSE late
                  /\ Finish(p, {o})
                  /\ UNCHANGED <<accounts, projects, events, invitations, loose>>
             ELSE Refuse(p, "duplicate_slug") /\ UNCHANGED <<docs, hist>>

UpdateOrganization(p) ==
  LET call == req[p].call
      role == GetMemberRole(call.org, call.by) IN
  /\ Op(p) = "UpdateOrganization"
  /\ \/ /\ req[p].pc = "requester"
        /\ CASE role = "" -> Refuse(p, "not_a_member")
             [] role = "member" -> Refuse(p, "admin_required")
             [] role = "admin" -> Read(p, "slug")
        /\ UNCHANGED <<docs, hist>>
     \/ /\ req[p].pc = "slug"
        /\ IF SlugTaken(call.slug) \subseteq {call.org}
           THEN Read(p, "update") ELSE Refuse(p, "slug_taken")
        /\ UNCHANGED <<docs, hist>>
     \/ /\ req[p].pc = "update"
        /\ CASE call.org \notin DOMAIN orgs -> Refuse(p, "org_not_found") /\ UNCHANGED orgs
             [] call.org \in DOMAIN orgs /\ ~SlugIndexed(call.org, call.slug) ->
                  Refuse(p, "duplicate_slug") /\ UNCHANGED orgs
             [] OTHER -> /\ orgs' = [orgs EXCEPT ![call.org].slug = call.slug]
                         /\ Finish(p, {})
        /\ UNCHANGED <<accounts, projects, events, invitations, hist>>

UpdateMemberRole(p) ==
  LET call == req[p].call
      target == GetMemberRole(call.org, call.target) IN
  /\ Op(p) = "UpdateMemberRole"
  /\ \/ /\ req[p].pc = "requester"
        /\ IF GetMemberRole(call.org, call.by) # "admin"
           THEN Refuse(p, "admin_required") ELSE Read(p, "target")
        /\ UNCHANGED <<docs, hist>>
     \/ /\ req[p].pc = "target"
        /\ IF target = "" THEN Refuse(p, "target_not_a_member")
           ELSE Read(p, IF target = "admin" /\ call.role = "member" THEN "admins" ELSE "write")
        /\ UNCHANGED <<docs, hist>>
     \/ /\ req[p].pc = "admins"
        /\ IF CountAdmins(call.org) = 1 THEN Refuse(p, "last_admin") ELSE Read(p, "write")
        /\ UNCHANGED <<docs, hist>>
     \/ /\ req[p].pc = "write"
        /\ orgs' = WriteRole(call.org, call.target, call.role)
        /\ Finish(p, {call.org})
        /\ UNCHANGED <<accounts, projects, events, invitations, hist>>

RemoveMember(p) ==
  LET call == req[p].call
      target == GetMemberRole(call.org, call.target) IN
  /\ Op(p) = "RemoveMember"
  /\ \/ /\ req[p].pc = "requester"
        /\ IF GetMemberRole(call.org, call.by) # "admin"
           THEN Refuse(p, "admin_required") ELSE Read(p, "target")
        /\ UNCHANGED <<docs, hist>>
     \/ /\ req[p].pc = "target"
        /\ CASE target = "" -> Refuse(p, "target_not_a_member")
             [] target = "admin" -> Read(p, "admins")
             [] target = "member" -> Read(p, "write")
        /\ UNCHANGED <<docs, hist>>
     \/ /\ req[p].pc = "admins"
        /\ IF CountAdmins(call.org) = 1 THEN Refuse(p, "last_admin") ELSE Read(p, "write")
        /\ UNCHANGED <<docs, hist>>
     \/ /\ req[p].pc = "write"
        /\ orgs' = PullMember(call.org, call.target)
        /\ Finish(p, {call.org})
        /\ UNCHANGED <<accounts, projects, events, invitations, hist>>

LeaveOrganization(p) ==
  LET call == req[p].call
      role == GetMemberRole(call.org, call.by) IN
  /\ Op(p) = "LeaveOrganization"
  /\ \/ /\ req[p].pc = "requester"
        /\ CASE role = "" -> Refuse(p, "not_a_member")
             [] role = "member" -> Read(p, "org")
             [] role = "admin" -> Read(p, "org_as_admin")
        /\ UNCHANGED <<docs, hist>>
     \/ /\ req[p].pc \in {"org", "org_as_admin"}
        /\ IF call.org \in DOMAIN orgs
           THEN /\ req' = [req EXCEPT ![p].left = [o \in {call.org} |-> CountMembers(o)],
                      ![p].pc = IF req[p].pc = "org_as_admin" THEN "admins" ELSE "count"]
                /\ UNCHANGED <<answer, served, stale>>
           ELSE Refuse(p, "org_not_found")
        /\ UNCHANGED <<docs, hist>>
     \/ /\ req[p].pc = "admins"
        /\ IF CountAdmins(call.org) = 1 /\ req[p].left[call.org] > 1
           THEN Refuse(p, "sole_admin") ELSE Read(p, "count")
        /\ UNCHANGED <<docs, hist>>
     \/ /\ req[p].pc = "count"
        /\ Read(p, IF req[p].left[call.org] = 1 THEN "projects" ELSE "write")
        /\ UNCHANGED <<docs, hist>>
     \/ /\ req[p].pc = "delete_org"
        /\ orgs' = DeleteOrganization(call.org)
        /\ Finish(p, {call.org})
        /\ UNCHANGED <<accounts, projects, events, invitations, hist>>
     \/ /\ req[p].pc = "write"
        /\ orgs' = PullMember(call.org, call.by)
        /\ Finish(p, {call.org})
        /\ UNCHANGED <<accounts, projects, events, invitations, hist>>
-----------------------------------------------------------------------------
(* cascade_delete_repo.go: the ids of the projects are read, then their    *)
(* events are deleted, then the projects. Sessions are not touched.        *)

(* Mutant: the test for an empty list of ids is the wrong way round.       *)
DeleteEventsInverted(p) ==
  LET o == req[p].org IN
  \/ /\ req[p].pc = "projects"
     /\ Read(p, IF o \notin projects THEN "delete_events" ELSE "delete_projects")
     /\ UNCHANGED <<docs, hist>>
  \/ /\ req[p].pc = "delete_events"
     /\ events' = events \ {o}
     /\ Read(p, "delete_projects")
     /\ UNCHANGED <<accounts, orgs, projects, invitations, hist>>

DeleteEventsByOrganization(p) ==
  LET o == req[p].org IN
  \/ /\ req[p].pc = "projects"
     /\ Read(p, IF o \in projects THEN "delete_events" ELSE "delete_projects")
     /\ UNCHANGED <<docs, hist>>
  \/ /\ req[p].pc = "delete_events"
     /\ events' = events \ {o}
     /\ Read(p, "delete_projects")
     /\ UNCHANGED <<accounts, orgs, projects, invitations, hist>>

DeleteProjectsByOrganization(p) ==
  /\ req[p].pc = "delete_projects"
  /\ projects' = projects \ {req[p].org}
  /\ Read(p, "delete_org")
  /\ UNCHANGED <<accounts, orgs, events, invitations, hist>>

(* Deleting, from the moment the ids of the projects are known.            *)
Deleting(o) ==
  \E q \in Procs : req[q].org = o /\ req[q].pc \in {"delete_events", "delete_projects", "delete_org"}
-----------------------------------------------------------------------------
(* user_service.go. The organizations are handled one by one, as they were *)
(* counted when they were listed.                                          *)

(* Mutant: the shared organizations are passed over.                       *)
NextSoleOrganization(p, left, changed) ==
  LET sole == {o \in DOMAIN left : left[o] = 1} IN
  /\ \/ sole = {} /\ req' = [req EXCEPT ![p].pc = "user", ![p].left = <<>>]
     \/ \E o \in sole :
          req' = [req EXCEPT ![p].org = o, ![p].left = left, ![p].pc = "projects"]
  /\ stale' = stale \cup Overtaken(p, changed)
  /\ UNCHANGED <<answer, served>>

NextOrganization(p, left, changed) ==
  /\ \/ left = <<>> /\ req' = [req EXCEPT ![p].pc = "user", ![p].left = <<>>]
     \/ \E o \in DOMAIN left :
          req' = [req EXCEPT ![p].org = o, ![p].left = left,
                             ![p].pc = IF left[o] = 1 THEN "projects" ELSE "write"]
  /\ stale' = stale \cup Overtaken(p, changed)
  /\ UNCHANGED <<answer, served>>

DeleteAccount(p) ==
  LET u == req[p].call.by
      o == req[p].org
      rest == Restrict(req[p].left, DOMAIN req[p].left \ {o}) IN
  /\ Op(p) = "DeleteAccount"
  /\ \/ /\ req[p].pc = "account"
        /\ IF u \in accounts THEN Read(p, "list") ELSE Refuse(p, "user_not_found")
        /\ UNCHANGED <<docs, hist>>
     \/ /\ req[p].pc = "list"
        /\ NextOrganization(p, [x \in GetUserOrganizations(u) |-> CountMembers(x)], {})
        /\ UNCHANGED <<docs, hist>>
     \/ /\ req[p].pc = "delete_org"
        /\ orgs' = DeleteOrganization(o)
        /\ NextOrganization(p, rest, {o})
        /\ UNCHANGED <<accounts, projects, events, invitations, hist>>
     \/ /\ req[p].pc = "write"
        /\ orgs' = PullMember(o, u)
        /\ NextOrganization(p, rest, {o})
        /\ UNCHANGED <<accounts, projects, events, invitations, hist>>
     \/ /\ req[p].pc = "user"
        /\ accounts' = accounts \ {u}
        /\ Finish(p, {})
        /\ UNCHANGED <<orgs, projects, events, invitations, hist>>
-----------------------------------------------------------------------------
(* invitation_service.go                                                   *)

Pending(u, o) ==
  {i \in DOMAIN invitations :
     invitations[i] = [org |-> o, email |-> u, status |-> "pending"]}

CreateInvitation(p) ==
  LET call == req[p].call IN
  /\ Op(p) = "CreateInvitation"
  /\ \/ /\ req[p].pc = "requester"
        /\ IF GetMemberRole(call.org, call.by) # "admin"
           THEN Refuse(p, "admin_required") ELSE Read(p, "members")
        /\ UNCHANGED <<docs, hist>>
     \/ /\ req[p].pc = "members"
        /\ IF call.target \in GetMembersWithDetails(call.org)
           THEN Refuse(p, "already_member") ELSE Read(p, "inviter")
        /\ UNCHANGED <<docs, hist>>
     \/ /\ req[p].pc = "inviter"
        /\ IF call.by = call.target /\ call.by \in accounts
           THEN Refuse(p, "yourself") ELSE Read(p, "pending")
        /\ UNCHANGED <<docs, hist>>
     \/ /\ req[p].pc = "pending"
        /\ IF Pending(call.target, call.org) # {} THEN Refuse(p, "already_sent") ELSE Read(p, "create")
        /\ UNCHANGED <<docs, hist>>
     \/ /\ req[p].pc = "create"
        /\ \E i \in Invs \ given :
             /\ invitations' = Insert(invitations, i,
                  [org |-> call.org, email |-> call.target, status |-> "pending"])
             /\ given' = given \cup {i}
        /\ Finish(p, {call.org})
        /\ UNCHANGED <<accounts, orgs, projects, events, loose, late>>

RevokeInvitation(p) ==
  LET call == req[p].call IN
  /\ Op(p) = "RevokeInvitation"
  /\ \/ /\ req[p].pc = "invitation"
        /\ IF call.inv \in DOMAIN invitations
           THEN /\ req' = [req EXCEPT ![p].org = invitations[call.inv].org,
                      ![p].pc = IF invitations[call.inv].status = "pending"
                                THEN "requester" ELSE "requester_late"]
                /\ UNCHANGED <<answer, served, stale>>
           ELSE Refuse(p, "invitation_not_found")
        /\ UNCHANGED <<docs, hist>>
     \/ /\ req[p].pc \in {"requester", "requester_late"}
        /\ CASE GetMemberRole(req[p].org, call.by) # "admin" -> Refuse(p, "admin_required")
             [] GetMemberRole(req[p].org, call.by) = "admin" /\ req[p].pc = "requester_late" ->
                  Refuse(p, "processed")
             [] OTHER -> Read(p, "write")
        /\ UNCHANGED <<docs, hist>>
     \/ /\ req[p].pc = "write"
        /\ invitations' = Restrict(invitations, DOMAIN invitations \ {call.inv})
        /\ Finish(p, {req[p].org})
        /\ UNCHANGED <<accounts, orgs, projects, events, hist>>

(* Mutant: the update matches nothing.                                     *)
UpdateStatusNoMatch(i) == invitations

UpdateStatus(i) ==
  IF i \in DOMAIN invitations THEN [invitations EXCEPT ![i].status = "accepted"] ELSE invitations

(* The handler reads the account for its address; then the service.        *)
AcceptInvitation(p) ==
  LET call == req[p].call
      inv == invitations[call.inv] IN
  /\ Op(p) = "AcceptInvitation"
  /\ \/ /\ req[p].pc = "account"
        /\ IF call.by \in accounts THEN Read(p, "invitation") ELSE Refuse(p, "user_not_found")
        /\ UNCHANGED <<docs, hist>>
     \/ /\ req[p].pc = "invitation"
        /\ CASE call.inv \notin DOMAIN invitations -> Refuse(p, "invitation_not_found")
             [] call.inv \in DOMAIN invitations /\ inv.status # "pending" -> Refuse(p, "no_longer_valid")
             [] call.inv \in DOMAIN invitations /\ inv.status = "pending" /\ inv.email # call.by ->
                  Refuse(p, "mismatch")
             [] OTHER -> /\ req' = [req EXCEPT ![p].org = inv.org, ![p].pc = "requester"]
                         /\ UNCHANGED <<answer, served, stale>>
        /\ UNCHANGED <<docs, hist>>
     \/ /\ req[p].pc = "requester"
        /\ Read(p, IF IsMember(req[p].org, call.by) THEN "status" ELSE "push")
        /\ UNCHANGED <<docs, hist>>
     \/ /\ req[p].pc = "push"
        /\ orgs' = PushMember(req[p].org, call.by)
        /\ late' = IF Leaving(call.by) THEN late \cup {<<call.by, req[p].org>>} ELSE late
        /\ Write(p, "status", {req[p].org})
        /\ UNCHANGED <<accounts, projects, events, invitations, loose, given>>
     \/ /\ req[p].pc = "status"
        /\ invitations' = UpdateStatus(call.inv)
        /\ Finish(p, {req[p].org})
        /\ UNCHANGED <<accounts, orgs, projects, events, hist>>
-----------------------------------------------------------------------------
(* What hangs on an organization: project_repo.go, event_repo.go.          *)

(* No member of the organization need ask, nor need there be one.          *)
RegisterProject(p) ==
  LET o == req[p].call.org IN
  /\ Op(p) = "RegisterProject"
  /\ \/ /\ req[p].pc = "project"
        /\ IF o \in projects
           THEN Answer(p, "ok") /\ stale' = stale \ {p} ELSE Read(p, "insert")
        /\ UNCHANGED <<docs, hist>>
     \/ /\ req[p].pc = "insert"
        /\ projects' = projects \cup {o}
        /\ loose' = IF o \notin DOMAIN orgs \/ Deleting(o) THEN loose \cup {o} ELSE loose
        /\ Finish(p, {})
        /\ UNCHANGED <<accounts, orgs, events, invitations, late, given>>

Collect(p) ==
  LET call == req[p].call IN
  /\ Op(p) = "Collect"
  /\ \/ /\ req[p].pc = "access"
        /\ IF IsMember(call.org, call.by) THEN Read(p, "project") ELSE Refuse(p, "not_a_member")
        /\ UNCHANGED <<docs, hist>>
     \/ /\ req[p].pc = "project"
        /\ IF call.org \in projects THEN Read(p, "insert") ELSE Refuse(p, "call_failed")
        /\ UNCHANGED <<docs, hist>>
     \/ /\ req[p].pc = "insert"
        /\ events' = events \cup {call.org}
        /\ loose' = IF call.org \notin projects \/ Deleting(call.org)
                    THEN loose \cup {call.org} ELSE loose
        /\ Finish(p, {})
        /\ UNCHANGED <<accounts, orgs, projects, invitations, late, given>>
-----------------------------------------------------------------------------
Serve(p) ==
  \/ CreateOrganization(p) \/ UpdateOrganization(p)
  \/ UpdateMemberRole(p) \/ RemoveMember(p) \/ LeaveOrganization(p)
  \/ DeleteEventsByOrganization(p) \/ DeleteProjectsByOrganization(p)
  \/ DeleteAccount(p)
  \/ CreateInvitation(p) \/ RevokeInvitation(p) \/ AcceptInvitation(p)
  \/ RegisterProject(p) \/ Collect(p)

Next == \E p \in Procs : (\E call \in Calls : Receive(p, call)) \/ Serve(p) \/ CallFails(p)

Spec == Init /\ [][Next]_vars
-----------------------------------------------------------------------------
TypeOK ==
  /\ accounts \subseteq Users
  /\ DOMAIN orgs \subseteq Orgs /\ \A o \in DOMAIN orgs : orgs[o] \in Organization
  /\ projects \subseteq Orgs /\ events \subseteq Orgs /\ loose \subseteq Orgs
  /\ DOMAIN invitations \subseteq Invs
  /\ \A i \in DOMAIN invitations : invitations[i] \in Invitation
  /\ DOMAIN req = Procs /\ \A p \in Procs : req[p] = Idle \/ IsRequest(req[p])
  /\ answer \in [Procs -> Codes]
  /\ given \subseteq Orgs \cup Invs /\ DOMAIN orgs \cup DOMAIN invitations \subseteq given
  /\ served \in 0 .. MaxRequests
  /\ stale \subseteq Procs
  /\ late \subseteq Users \X Orgs

(* A request that writes, having read what is not true any more.           *)
Outdated(o) == \E p \in stale : req[p].org = o /\ req'[p] # req[p]

(* An organization and its data are deleted only when one member is left:  *)
(* LeaveOrganization and DeleteAccount decide by the member count they     *)
(* read; who joins in between loses everything, and no one else does.      *)
SharedOrgKept ==
  [][\A o \in DOMAIN orgs :
       (o \notin DOMAIN orgs' \/ o \in (events \ events') \cup (projects \ projects'))
         => Cardinality({u \in Users : Entries(o, u) # <<>>}) <= 1 \/ Outdated(o)]_vars

(* UpdateMemberRole, RemoveMember and LeaveOrganization never take away    *)
(* the last admin, unless two of them count the admins before either       *)
(* writes. DeleteAccount does not ask.                                     *)
HasAdmin(o) == \E u \in Users : "admin" \in Range(Entries(o, u))

LastAdminKept ==
  [][\A o \in DOMAIN orgs :
       (HasAdmin(o) /\ o \in DOMAIN orgs' /\ ~HasAdmin(o)')
         => \/ Outdated(o)
            \/ \E p \in Procs : Op(p) = "DeleteAccount" /\ req[p].org = o /\ req'[p] # req[p]]_vars

(* A user is entered in an organization twice, or has two invitations to   *)
(* it that wait, only when two requests looked before either wrote.        *)
DuplicateOnlyWhenRaced ==
  [][\A o \in Orgs, u \in Users :
       \/ Len(Entries(o, u))' > 1 /\ Len(Entries(o, u))' > Len(Entries(o, u))
       \/ Cardinality(Pending(u, o)') > 1 /\ Cardinality(Pending(u, o)') > Cardinality(Pending(u, o))
       => Outdated(o)]_vars

(* Who is told that an invitation was accepted is a member, the invitation *)
(* is used up and asked for this user: unless the organization is gone or  *)
(* was changed meanwhile.                                                  *)
AcceptedMeansMember ==
  [][\A p \in Procs, o \in Orgs, u \in Users, i \in Invs :
       /\ req[p].call = [op |-> "AcceptInvitation", by |-> u, inv |-> i]
       /\ req[p].org = o
       /\ answer'[p] = "ok" /\ answer[p] # "ok"
       => \/ p \in stale
          \/ o \notin DOMAIN orgs
          \/ /\ (Entries(o, u) # <<>>)'
             /\ invitations'[i] = [org |-> o, email |-> u, status |-> "accepted"]]_vars

(* No project and no events are left behind by an organization deleted,    *)
(* and no events by a project, unless they came while it was deleted: a    *)
(* cascade that fails halfway can be run again.                            *)
OrphansForAReason ==
  \A o \in Orgs :
    \/ o \in projects /\ o \notin DOMAIN orgs
    \/ o \in events /\ o \notin projects
    => o \in loose

(* An account deleted is a member nowhere, unless it joined after its      *)
(* organizations were listed.                                              *)
DeletedAccountLeft ==
  \A u \in Users \ accounts, o \in Orgs : Entries(o, u) # <<>> => <<u, o>> \in late
=============================================================================
