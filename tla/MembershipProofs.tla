--------------------------- MODULE MembershipProofs -------------------------
(***************************************************************************)
(* What holds of Membership for any users, organizations, invitations and  *)
(* any number of requests served at once: the types, what is left behind   *)
(* by a deletion, and what a request does that nobody overtook.            *)
(*                                                                         *)
(* A request acts on what it read some calls before. The invariant says    *)
(* for each place of each handler what it has read, and that this is still *)
(* so unless the request is stale.                                         *)
(***************************************************************************)
EXTENDS Membership, FiniteSetTheorems, SequenceTheorems, TLAPS

(* The collections as parameters, so that the facts about a request can be *)
(* carried from one state of them to the next.                             *)
EntriesIn(os, o, u) == IF o \in DOMAIN os THEN os[o].members[u] ELSE <<>>
RoleIn(os, o, u) == IF EntriesIn(os, o, u) = <<>> THEN "" ELSE Head(EntriesIn(os, o, u))
OtherAdmin(os, o, u) == \E v \in Users \ {u} : RoleIn(os, o, v) = "admin"
Count(os, o) == Cardinality(Elements(os[o].members))
PendingIn(is, u, o) ==
  {i \in DOMAIN is : is[i] = [org |-> o, email |-> u, status |-> "pending"]}

(* Nobody is an admin by an entry other than the first.                    *)
FirstOnly(os) ==
  \A o \in DOMAIN os, u \in Users : \A i \in 2 .. Len(os[o].members[u]) :
    os[o].members[u][i] = "member"

Cascade == {"projects", "delete_events", "delete_projects", "delete_org"}

(* The database calls of each handler.                                     *)
CallsOf ==
  [CreateOrganization |-> {"slug", "create"},
   UpdateOrganization |-> {"requester", "slug", "update"},
   UpdateMemberRole |-> {"requester", "target", "admins", "write"},
   RemoveMember |-> {"requester", "target", "admins", "write"},
   LeaveOrganization |->
     {"requester", "org", "org_as_admin", "admins", "count", "write"} \cup Cascade,
   CreateInvitation |-> {"requester", "members", "inviter", "pending", "create"},
   RevokeInvitation |-> {"invitation", "requester", "requester_late", "write"},
   AcceptInvitation |-> {"account", "invitation", "requester", "push", "status"},
   DeleteAccount |-> {"account", "list", "write", "user"} \cup Cascade,
   RegisterProject |-> {"project", "insert"},
   Collect |-> {"access", "project", "insert"}]

AtOrganization ==
  {"UpdateOrganization", "UpdateMemberRole", "RemoveMember", "LeaveOrganization",
   "CreateInvitation", "RegisterProject", "Collect"}

(* What the locals of a request are, stale or not: its organization and    *)
(* the member counts it took. An id names one invitation for ever.         *)
LeavesOne(r) ==
  /\ r.pc \in {"admins", "count", "write"} \cup Cascade => DOMAIN r.left = {r.org}
  /\ r.pc \in Cascade => r.left[r.org] = 1

DeletesListed(r) ==
  /\ r.pc \in {"write"} \cup Cascade => r.org \in DOMAIN r.left
  /\ r.pc \in Cascade => r.left[r.org] = 1
  /\ r.pc = "user" => DOMAIN r.left = {}

FoundInvitation(r, is, g) ==
  /\ r.org \in Orgs /\ r.call.inv \in g
  /\ r.call.inv \in DOMAIN is =>
       /\ is[r.call.inv].org = r.org
       /\ r.call.op = "AcceptInvitation" => is[r.call.inv].email = r.call.by

Shaped(r, is, g) ==
  /\ r.pc \in CallsOf[r.call.op]
  /\ r.call.op \in AtOrganization => r.org = r.call.org
  /\ r.call.op = "LeaveOrganization" => LeavesOne(r)
  /\ r.call.op = "DeleteAccount" => DeletesListed(r)
  /\ r.call.op = "RevokeInvitation" /\ r.pc # "invitation" => FoundInvitation(r, is, g)
  /\ r.call.op = "AcceptInvitation" /\ r.pc \notin {"account", "invitation"} =>
       FoundInvitation(r, is, g)

(* What a request that is not stale has read and can still rely on.        *)
KnowsTarget(r, os) ==
  /\ r.pc = "admins" => RoleIn(os, r.org, r.call.target) = "admin"
  /\ r.pc = "write" =>
       \/ RoleIn(os, r.org, r.call.target) # "admin"
       \/ r.call.op = "UpdateMemberRole" /\ r.call.role = "admin"
       \/ OtherAdmin(os, r.org, r.call.target)

KnowsLeaver(r, os) ==
  LET role == RoleIn(os, r.org, r.call.by) IN
  /\ r.pc = "org" => role = "member"
  /\ r.pc \in {"org_as_admin", "admins"} => role = "admin"
  /\ r.pc \in {"admins", "count", "write"} \cup Cascade =>
       r.org \in DOMAIN os /\ r.left[r.org] = Count(os, r.org)
  /\ r.pc \in {"count", "write"} =>
       /\ role # ""
       /\ role # "admin" \/ OtherAdmin(os, r.org, r.call.by) \/ r.left[r.org] <= 1
  /\ r.pc = "write" => r.left[r.org] # 1

KnowsListed(r, os) ==
  r.pc \notin {"account", "list"} =>
    \A o \in DOMAIN r.left : o \in DOMAIN os /\ r.left[o] = Count(os, o)

KnowsInvitation(r, os, is) ==
  LET u == r.call.by IN
  /\ r.pc \in {"requester", "push", "status"} =>
       /\ r.call.inv \in DOMAIN is
       /\ is[r.call.inv] = [org |-> r.org, email |-> u, status |-> "pending"]
  /\ r.pc = "push" => EntriesIn(os, r.org, u) = <<>>
  /\ r.pc = "status" /\ r.org \in DOMAIN os => EntriesIn(os, r.org, u) # <<>>

Knows(r, os, is) ==
  /\ r.call.op \in {"UpdateMemberRole", "RemoveMember"} => KnowsTarget(r, os)
  /\ r.call.op = "LeaveOrganization" => KnowsLeaver(r, os)
  /\ r.call.op = "DeleteAccount" => KnowsListed(r, os)
  /\ r.call.op = "CreateInvitation" /\ r.pc = "create" => PendingIn(is, r.call.target, r.org) = {}
  /\ r.call.op = "AcceptInvitation" => KnowsInvitation(r, os, is)

(* DeleteAccount has listed all but what was joined late; what its cascade *)
(* has deleted of an organization is not back, unless it came meanwhile.   *)
Listed(r, os, joined) ==
  r.call.op = "DeleteAccount" /\ r.pc \notin {"account", "list"} =>
    \A o \in Orgs : EntriesIn(os, o, r.call.by) # <<>> =>
      o \in DOMAIN r.left \/ <<r.call.by, o>> \in joined

Emptied(r, ps, es, came) ==
  r.org \notin came =>
    /\ r.pc \in {"delete_projects", "delete_org"} => r.org \notin es
    /\ r.pc = "delete_org" => r.org \notin ps

RequestOK(r, fresh) ==
  /\ Shaped(r, invitations, given)
  /\ fresh => Knows(r, orgs, invitations)
  /\ Listed(r, orgs, late)
  /\ Emptied(r, projects, events, loose)

Requests == \A p \in Procs : Busy(p) => RequestOK(req[p], p \notin stale)

Collections ==
  /\ orgs \in [DOMAIN orgs -> Organization] /\ FirstOnly(orgs)
  /\ invitations \in [DOMAIN invitations -> Invitation] /\ IsFiniteSet(DOMAIN invitations)

IInv == TypeOK /\ Collections /\ Requests /\ OrphansForAReason /\ DeletedAccountLeft
-----------------------------------------------------------------------------
(* The messages and the requests.                                          *)

LEMMA CallTypes ==
  ASSUME NEW c \in Calls
  PROVE  /\ c.op = "CreateOrganization" => c \in CreateOrganizationReq
         /\ c.op = "UpdateOrganization" => c \in UpdateOrganizationReq
         /\ c.op = "UpdateMemberRole" => c \in UpdateMemberRoleReq
         /\ c.op = "RemoveMember" => c \in RemoveMemberReq
         /\ c.op = "LeaveOrganization" => c \in LeaveOrganizationReq
         /\ c.op = "CreateInvitation" => c \in CreateInvitationReq
         /\ c.op = "RevokeInvitation" => c \in RevokeInvitationReq
         /\ c.op = "AcceptInvitation" => c \in AcceptInvitationReq
         /\ c.op = "DeleteAccount" => c \in DeleteAccountReq
         /\ c.op = "RegisterProject" => c \in RegisterProjectReq
         /\ c.op = "Collect" => c \in SendLogsReq
         /\ c.op \in DOMAIN FirstStep
  BY DEF Calls, CreateOrganizationReq, UpdateOrganizationReq, UpdateMemberRoleReq,
         RemoveMemberReq, LeaveOrganizationReq, CreateInvitationReq, RevokeInvitationReq,
         AcceptInvitationReq, DeleteAccountReq, RegisterProjectReq, SendLogsReq, FirstStep

LEMMA AtOrganizationTypes ==
  ASSUME NEW c \in Calls
  PROVE  /\ c.op \in AtOrganization <=> "org" \in DOMAIN c
         /\ c.op \in AtOrganization => c.org \in Orgs
  BY DEF Calls, CreateOrganizationReq, UpdateOrganizationReq, UpdateMemberRoleReq,
         RemoveMemberReq, LeaveOrganizationReq, CreateInvitationReq, RevokeInvitationReq,
         AcceptInvitationReq, DeleteAccountReq, RegisterProjectReq, SendLogsReq, AtOrganization

LEMMA RequestType ==
  ASSUME TypeOK, NEW p \in Procs, Busy(p)
  PROVE  IsRequest(req[p]) /\ req[p].call \in Calls
  BY DEF TypeOK, Busy, Idle, IsRequest

(* A request with another place, as Read and Write make it.                *)
At(r, step) == [call |-> r.call, pc |-> step, org |-> r.org, left |-> r.left]

LEMMA AtIs ==
  ASSUME NEW r, IsRequest(r), NEW step \in Steps \ {"idle"}
  PROVE  /\ [r EXCEPT !.pc = step] = At(r, step) /\ IsRequest(At(r, step))
         /\ At(r, step).call = r.call /\ At(r, step).pc = step
         /\ At(r, step).org = r.org /\ At(r, step).left = r.left
  BY DEF IsRequest, At

LEMMA WithLeft ==
  ASSUME NEW r, IsRequest(r), NEW step, NEW left
  PROVE  /\ [r EXCEPT !.left = left, !.pc = step] =
               [call |-> r.call, pc |-> step, org |-> r.org, left |-> left]
         /\ [r EXCEPT !.pc = step, !.left = left] =
               [call |-> r.call, pc |-> step, org |-> r.org, left |-> left]
  <1> DEFINE Rec(c, s, o, l) == [call |-> c, pc |-> s, org |-> o, left |-> l]
  <1>1. r = Rec(r.call, r.pc, r.org, r.left)
    BY DEF IsRequest
  <1>2. ASSUME NEW x, x = [f \in DOMAIN r |-> x[f]]
        PROVE  x = Rec(x.call, x.pc, x.org, x.left)
    <2>1. DOMAIN r = {"call", "pc", "org", "left"}
      BY <1>1
    <2> QED
      BY <1>2, <2>1
  <1>3. [r EXCEPT !.left = left, !.pc = step] = Rec(r.call, step, r.org, left)
    <2> DEFINE x == [r EXCEPT !.left = left, !.pc = step]
    <2>1. x = [f \in DOMAIN r |-> x[f]] /\ x.call = r.call /\ x.pc = step /\ x.org = r.org /\ x.left = left
      BY <1>1
    <2> HIDE DEF x
    <2>2. x = Rec(x.call, x.pc, x.org, x.left)
      BY <1>2, <2>1
    <2> QED
      BY <2>1, <2>2 DEF x
  <1>4. [r EXCEPT !.pc = step, !.left = left] = Rec(r.call, step, r.org, left)
    <2> DEFINE x == [r EXCEPT !.pc = step, !.left = left]
    <2>1. x = [f \in DOMAIN r |-> x[f]] /\ x.call = r.call /\ x.pc = step /\ x.org = r.org /\ x.left = left
      BY <1>1
    <2> HIDE DEF x
    <2>2. x = Rec(x.call, x.pc, x.org, x.left)
      BY <1>2, <2>1
    <2> QED
      BY <2>1, <2>2 DEF x
  <1> QED
    BY <1>3, <1>4

LEMMA WithOrg ==
  ASSUME NEW r, IsRequest(r), NEW step, NEW org
  PROVE  [r EXCEPT !.org = org, !.pc = step] =
            [call |-> r.call, pc |-> step, org |-> org, left |-> r.left]
  <1> DEFINE x == [r EXCEPT !.org = org, !.pc = step]
  <1>1. DOMAIN r = {"call", "pc", "org", "left"}
    <2>1. r = [call |-> r.call, pc |-> r.pc, org |-> r.org, left |-> r.left]
      BY DEF IsRequest
    <2> QED
      BY <2>1
  <1>2. /\ x = [f \in DOMAIN r |-> x[f]]
        /\ x.call = r.call /\ x.pc = step /\ x.org = org /\ x.left = r.left
    BY <1>1
  <1> HIDE DEF x
  <1>3. x = [call |-> r.call, pc |-> step, org |-> org, left |-> r.left]
    BY <1>1, <1>2
  <1> QED
    BY <1>3 DEF x

LEMMA WithAll ==
  ASSUME NEW r, IsRequest(r), NEW step, NEW left, NEW org
  PROVE  [r EXCEPT !.org = org, !.left = left, !.pc = step] =
            [call |-> r.call, pc |-> step, org |-> org, left |-> left]
  <1> DEFINE x == [r EXCEPT !.org = org, !.left = left, !.pc = step]
  <1>1. DOMAIN r = {"call", "pc", "org", "left"}
    <2>1. r = [call |-> r.call, pc |-> r.pc, org |-> r.org, left |-> r.left]
      BY DEF IsRequest
    <2> QED
      BY <2>1
  <1>2. /\ x = [f \in DOMAIN r |-> x[f]]
        /\ x.call = r.call /\ x.pc = step /\ x.org = org /\ x.left = left
    BY <1>1
  <1> HIDE DEF x
  <1>3. x = [call |-> r.call, pc |-> step, org |-> org, left |-> left]
    BY <1>1, <1>2
  <1> QED
    BY <1>3 DEF x

(* Only p's own request changes.                                           *)
LEMMA Moved ==
  ASSUME TypeOK, NEW p \in Procs, NEW x, req' = [req EXCEPT ![p] = x]
  PROVE  req'[p] = x /\ DOMAIN req' = Procs /\ \A q \in Procs : q # p => req'[q] = req[q]
  BY DEF TypeOK

LEMMA Goes ==
  ASSUME TypeOK, NEW p \in Procs, Busy(p), NEW step \in Steps \ {"idle"}, Goto(p, step)
  PROVE  req' = [req EXCEPT ![p] = At(req[p], step)] /\ answer' = answer /\ served' = served
  <1>1. [req[p] EXCEPT !.pc = step] = At(req[p], step)
    BY RequestType, AtIs
  <1> QED
    BY <1>1 DEF Goto

(* The entries of a user in an organization just made.                     *)
LEMMA AtMostOne ==
  ASSUME NEW entries \in {<<>>, <<"admin">>}
  PROVE  Len(entries) <= 1
  <1>1. CASE entries = <<>>
    BY <1>1
  <1>2. CASE entries = <<"admin">>
    BY <1>2
  <1> QED
    BY <1>1, <1>2

(* The codes of the handlers.                                              *)
ErrorCodes == Codes \ {"none", "ok"}

LEMMA FirstMatchType ==
  ASSUME NEW tests, NEW n \in 1 .. 5, DOMAIN tests = 1 .. n,
         \A i \in 1 .. n : tests[i][2] \in ErrorCodes, NEW err
  PROVE  FirstMatch(tests, err) \in ErrorCodes
  <1> DEFINE hits == {i \in DOMAIN tests : tests[i][1] \cap Words[err] # {}}
  <1>1. CASE hits = {}
    BY <1>1 DEF FirstMatch, ErrorCodes, Codes
  <1>2. CASE hits # {}
    <2>1. \E x \in hits : \A y \in hits : x =< y
      <3>1. hits \subseteq {1, 2, 3, 4, 5}
        OBVIOUS
      <3> HIDE DEF hits
      <3>2. CASE 1 \in hits
        BY <3>1, <3>2
      <3>3. CASE 1 \notin hits /\ 2 \in hits
        BY <3>1, <3>3
      <3>4. CASE 1 \notin hits /\ 2 \notin hits /\ 3 \in hits
        BY <3>1, <3>4
      <3>5. CASE 1 \notin hits /\ 2 \notin hits /\ 3 \notin hits /\ 4 \in hits
        BY <3>1, <3>5
      <3>6. CASE 1 \notin hits /\ 2 \notin hits /\ 3 \notin hits /\ 4 \notin hits
        <4>1. \A y \in hits : y = 5
          BY <3>1, <3>6
        <4> QED
          BY <1>2, <4>1
      <3> QED
        BY <3>2, <3>3, <3>4, <3>5, <3>6
    <2>2. Min(hits) \in DOMAIN tests
      <3> HIDE DEF hits
      <3>1. Min(hits) \in hits
        BY <2>1 DEF Min
      <3> QED
        BY <3>1 DEF hits
    <2> QED
      BY <1>2, <2>2 DEF FirstMatch
  <1> QED
    BY <1>1, <1>2

LEMMA Tested ==
  ASSUME NEW A, NEW a \in ErrorCodes, NEW B, NEW b \in ErrorCodes, NEW C, NEW c \in ErrorCodes,
         NEW D, NEW d \in ErrorCodes, NEW E, NEW e \in ErrorCodes, NEW err
  PROVE  /\ FirstMatch(<<<<A, a>>>>, err) \in ErrorCodes
         /\ FirstMatch(<<<<A, a>>, <<B, b>>>>, err) \in ErrorCodes
         /\ FirstMatch(<<<<A, a>>, <<B, b>>, <<C, c>>>>, err) \in ErrorCodes
         /\ FirstMatch(<<<<A, a>>, <<B, b>>, <<C, c>>, <<D, d>>, <<E, e>>>>, err) \in ErrorCodes
  <1>1. FirstMatch(<<<<A, a>>>>, err) \in ErrorCodes
    <2> DEFINE tests == <<<<A, a>>>>
    <2>1. DOMAIN tests = 1 .. 1 /\ 1 \in 1 .. 5 /\ \A i \in 1 .. 1 : tests[i][2] \in ErrorCodes
      OBVIOUS
    <2> QED
      BY <2>1, FirstMatchType
  <1>2. FirstMatch(<<<<A, a>>, <<B, b>>>>, err) \in ErrorCodes
    <2> DEFINE tests == <<<<A, a>>, <<B, b>>>>
    <2>1. DOMAIN tests = 1 .. 2 /\ 2 \in 1 .. 5 /\ \A i \in 1 .. 2 : tests[i][2] \in ErrorCodes
      OBVIOUS
    <2> QED
      BY <2>1, FirstMatchType
  <1>3. FirstMatch(<<<<A, a>>, <<B, b>>, <<C, c>>>>, err) \in ErrorCodes
    <2> DEFINE tests == <<<<A, a>>, <<B, b>>, <<C, c>>>>
    <2>1. DOMAIN tests = 1 .. 3 /\ 3 \in 1 .. 5 /\ \A i \in 1 .. 3 : tests[i][2] \in ErrorCodes
      OBVIOUS
    <2> QED
      BY <2>1, FirstMatchType
  <1>4. FirstMatch(<<<<A, a>>, <<B, b>>, <<C, c>>, <<D, d>>, <<E, e>>>>, err) \in ErrorCodes
    <2> DEFINE tests == <<<<A, a>>, <<B, b>>, <<C, c>>, <<D, d>>, <<E, e>>>>
    <2>1. DOMAIN tests = 1 .. 5 /\ 5 \in 1 .. 5 /\ \A i \in 1 .. 5 : tests[i][2] \in ErrorCodes
      OBVIOUS
    <2> QED
      BY <2>1, FirstMatchType
  <1> QED
    BY <1>1, <1>2, <1>3, <1>4

LEMMA ErrorCodeType ==
  ASSUME NEW op, NEW err
  PROVE  ErrorCode(op, err) \in ErrorCodes
  <1>1. /\ {"internal", "denied", "invalid", "exists", "precondition", "not_found"} \subseteq ErrorCodes
        /\ "internal" \in ErrorCodes /\ "denied" \in ErrorCodes /\ "invalid" \in ErrorCodes
        /\ "exists" \in ErrorCodes /\ "precondition" \in ErrorCodes /\ "not_found" \in ErrorCodes
    BY DEF ErrorCodes, Codes
  <1>2. CreateOrganizationCode(err) \in ErrorCodes
    BY <1>1, Tested, ZenonT(60) DEF CreateOrganizationCode
  <1>3. UpdateOrganizationCode(err) \in ErrorCodes
    BY <1>1, Tested, ZenonT(60) DEF UpdateOrganizationCode
  <1>4. UpdateMemberRoleCode(err) \in ErrorCodes
    BY <1>1, Tested DEF UpdateMemberRoleCode
  <1>5. RemoveMemberCode(err) \in ErrorCodes
    BY <1>1, Tested, ZenonT(60) DEF RemoveMemberCode
  <1>6. LeaveOrganizationCode(err) \in ErrorCodes
    BY <1>1, Tested, ZenonT(60) DEF LeaveOrganizationCode
  <1>7. CreateInvitationCode(err) \in ErrorCodes
    BY <1>1, Tested DEF CreateInvitationCode
  <1>8. RevokeInvitationCode(err) \in ErrorCodes
    BY <1>1, Tested DEF RevokeInvitationCode
  <1>9. AcceptInvitationCode(err) \in ErrorCodes
    BY <1>1, Tested, ZenonT(60) DEF AcceptInvitationCode
  <1>10. DeleteAccountCode(err) \in ErrorCodes
    BY <1>1, Tested, ZenonT(60) DEF DeleteAccountCode
  <1>11. CollectCode(err) \in ErrorCodes
    <2> DEFINE tests == <<<<{"not a member"}, "denied">>>>
    <2>1. DOMAIN tests = 1 .. 1 /\ 1 \in 1 .. 5 /\ \A i \in 1 .. 1 : tests[i][2] \in ErrorCodes
      BY <1>1
    <2> HIDE DEF tests
    <2>2. FirstMatch(tests, err) \in ErrorCodes
      BY <2>1, FirstMatchType
    <2> QED
      BY <2>2 DEF CollectCode, tests
  <1> QED
    BY <1>1, <1>2, <1>3, <1>4, <1>5, <1>6, <1>7, <1>8, <1>9, <1>10, <1>11 DEF ErrorCode
-----------------------------------------------------------------------------
(* Members and their roles.                                                *)

LEMMA EntriesType ==
  ASSUME NEW os, os \in [DOMAIN os -> Organization], NEW o, NEW u \in Users
  PROVE  /\ EntriesIn(os, o, u) \in Seq(Roles)
         /\ RoleIn(os, o, u) \in {"", "admin", "member"}
         /\ RoleIn(os, o, u) # "" <=> EntriesIn(os, o, u) # <<>>
         /\ RoleIn(os, o, u) # "" => o \in DOMAIN os
  <1>1. EntriesIn(os, o, u) \in Seq(Roles)
    BY DEF EntriesIn, Organization, Members
  <1>2. EntriesIn(os, o, u) # <<>> => Head(EntriesIn(os, o, u)) \in Roles
    BY <1>1
  <1> QED
    BY <1>1, <1>2 DEF RoleIn, Roles, EntriesIn

LEMMA AsIn ==
  /\ \A o, u : Entries(o, u) = EntriesIn(orgs, o, u)
  /\ \A o, u : GetMemberRole(o, u) = RoleIn(orgs, o, u)
  /\ \A o, u : IsMember(o, u) <=> EntriesIn(orgs, o, u) # <<>>
  /\ \A o : CountMembers(o) = Count(orgs, o)
  /\ \A o, u : Pending(u, o) = PendingIn(invitations, u, o)
  BY DEF Entries, EntriesIn, GetMemberRole, RoleIn, IsMember, CountMembers, Count, Pending, PendingIn

LEMMA ElementsFinite ==
  ASSUME NEW m \in Members
  PROVE  IsFiniteSet(Elements(m)) /\ Cardinality(Elements(m)) \in Nat
  <1> DEFINE S == {{u} \X DOMAIN m[u] : u \in Users}
             f == [u \in Users |-> {u} \X DOMAIN m[u]]
  <1>1. f \in Surjection(Users, S)
    BY DEF Surjection
  <1>2. IsFiniteSet(S)
    BY <1>1, FS_Surjection, MembershipAssumption
  <1>3. \A T \in S : IsFiniteSet(T)
    <2> SUFFICES ASSUME NEW u \in Users PROVE IsFiniteSet({u} \X DOMAIN m[u])
      OBVIOUS
    <2>1. DOMAIN m[u] = 1 .. Len(m[u]) /\ Len(m[u]) \in Nat
      BY DEF Members
    <2>2. IsFiniteSet(DOMAIN m[u])
      BY <2>1, FS_Interval
    <2> QED
      BY <2>2, FS_Product, FS_Singleton
  <1>4. IsFiniteSet(UNION S)
    BY <1>2, <1>3, FS_UNION
  <1>5. IsFiniteSet(Elements(m))
    BY <1>4 DEF Elements
  <1> QED
    BY <1>5, FS_CardinalityType

LEMMA CountType ==
  ASSUME NEW os, os \in [DOMAIN os -> Organization], NEW o \in DOMAIN os
  PROVE  Count(os, o) \in Nat
  BY ElementsFinite DEF Count, Organization

(* One element in the array is one member; and a member is an element.     *)
LEMMA OneElement ==
  ASSUME NEW os, os \in [DOMAIN os -> Organization], NEW o \in DOMAIN os
  PROVE  /\ Count(os, o) = 1 => Cardinality({u \in Users : EntriesIn(os, o, u) # <<>>}) <= 1
         /\ \A u \in Users : EntriesIn(os, o, u) # <<>> => Count(os, o) >= 1
  <1> DEFINE m == os[o].members
             M == {u \in Users : EntriesIn(os, o, u) # <<>>}
  <1>1. m \in Members
    BY DEF Organization
  <1>2. \A u \in M : <<u, 1>> \in Elements(m)
    <2> SUFFICES ASSUME NEW u \in Users, m[u] # <<>> PROVE <<u, 1>> \in Elements(m)
      BY DEF EntriesIn
    <2>1. m[u] \in Seq(Roles)
      BY <1>1 DEF Members
    <2>2. 1 \in DOMAIN m[u]
      BY <2>1
    <2> QED
      BY <2>2 DEF Elements
  <1>3. ASSUME Count(os, o) = 1 PROVE Cardinality(M) <= 1
    <2>1. PICK x : Elements(m) = {x}
      BY <1>1, <1>3, ElementsFinite, FS_Singleton DEF Count
    <2>2. M \in SUBSET {x[1]}
      BY <1>2, <2>1
    <2>3. IsFiniteSet({x[1]}) /\ Cardinality({x[1]}) = 1
      BY FS_Singleton
    <2> HIDE DEF M
    <2> QED
      BY <2>2, <2>3, FS_Subset
  <1>4. ASSUME NEW u \in M PROVE Count(os, o) >= 1
    <2>1. Elements(m) # {}
      BY <1>2, <1>4
    <2>2. Cardinality(Elements(m)) # 0
      BY <1>1, <2>1, ElementsFinite, FS_EmptySet
    <2> QED
      BY <1>1, <2>2, ElementsFinite DEF Count
  <1> QED
    BY <1>3, <1>4

(* An admin that the count does not find alone is not the only one.        *)
LEMMA NotLastAdmin ==
  ASSUME Collections, NEW o, NEW u \in Users, RoleIn(orgs, o, u) = "admin", CountAdmins(o) # 1
  PROVE  OtherAdmin(orgs, o, u)
  <1>1. o \in DOMAIN orgs
    BY EntriesType DEF Collections
  <1> DEFINE m == orgs[o].members
             A == {e \in Elements(m) : m[e[1]][e[2]] = "admin"}
  <1>2. m \in Members
    BY <1>1 DEF Collections, Organization
  <1>3. \A v \in Users : m[v] \in Seq(Roles) /\ EntriesIn(orgs, o, v) = m[v]
    BY <1>1, <1>2 DEF Members, EntriesIn
  <1>4. <<u, 1>> \in A
    <2>1. m[u] # <<>> /\ m[u][1] = "admin"
      BY <1>3 DEF RoleIn
    <2>2. 1 \in DOMAIN m[u]
      BY <1>3, <2>1
    <2> QED
      BY <2>1, <2>2 DEF Elements
  <1>5. A # {<<u, 1>>}
    BY <1>1, FS_Singleton DEF CountAdmins
  <1>6. PICK e \in A : e # <<u, 1>>
    <2> HIDE DEF A
    <2> QED
      BY <1>4, <1>5
  <1>7. PICK v \in Users : e \in {v} \X DOMAIN m[v]
    BY <1>6 DEF Elements
  <1> DEFINE i == e[2]
  <1>7a. e = <<v, i>> /\ i \in DOMAIN m[v] /\ m[v][i] = "admin"
    BY <1>6, <1>7
  <1> HIDE DEF i
  <1>8. i = 1
    <2>1. i \in 1 .. Len(m[v]) /\ \A j \in 2 .. Len(m[v]) : m[v][j] = "member"
      BY <1>1, <1>3, <1>7a DEF Collections, FirstOnly
    <2> QED
      BY <1>7a, <2>1
  <1>9. v # u /\ m[v] # <<>> /\ Head(m[v]) = "admin"
    BY <1>3, <1>6, <1>7a, <1>8
  <1> QED
    BY <1>3, <1>9 DEF OtherAdmin, RoleIn
-----------------------------------------------------------------------------
(* What one request does to the others.                                    *)

(* To who works at o nothing has changed.                                  *)
Same(o, os, is, os2, is2) ==
  /\ o \in DOMAIN os <=> o \in DOMAIN os2
  /\ o \in DOMAIN os => os2[o].members = os[o].members
  /\ \A i \in DOMAIN is : is[i].org = o => i \in DOMAIN is2 /\ is2[i] = is[i]
  /\ \A i \in DOMAIN is2 : is2[i].org = o => i \in DOMAIN is /\ is[i] = is2[i]

LEMMA SameReads ==
  ASSUME NEW o, NEW os, NEW is, NEW os2, NEW is2, Same(o, os, is, os2, is2)
  PROVE  /\ \A u : EntriesIn(os2, o, u) = EntriesIn(os, o, u)
         /\ \A u : RoleIn(os2, o, u) = RoleIn(os, o, u)
         /\ \A u : OtherAdmin(os2, o, u) <=> OtherAdmin(os, o, u)
         /\ o \in DOMAIN os => o \in DOMAIN os2 /\ Count(os2, o) = Count(os, o)
         /\ \A u : PendingIn(is2, u, o) = PendingIn(is, u, o)
  <1>1. \A u : EntriesIn(os2, o, u) = EntriesIn(os, o, u)
    BY DEF Same, EntriesIn
  <1>2. ASSUME NEW u PROVE RoleIn(os2, o, u) = RoleIn(os, o, u)
    <2>1. EntriesIn(os2, o, u) = EntriesIn(os, o, u)
      BY <1>1
    <2> QED
      BY <2>1 DEF RoleIn
  <1>3. \A u : OtherAdmin(os2, o, u) <=> OtherAdmin(os, o, u)
    BY <1>2 DEF OtherAdmin
  <1>4. o \in DOMAIN os => o \in DOMAIN os2 /\ Count(os2, o) = Count(os, o)
    BY DEF Same, Count
  <1>5. ASSUME NEW u PROVE PendingIn(is2, u, o) = PendingIn(is, u, o)
    <2> DEFINE asked == [org |-> o, email |-> u, status |-> "pending"]
    <2>1. asked.org = o
      OBVIOUS
    <2> HIDE DEF asked
    <2>2. {i \in DOMAIN is2 : is2[i] = asked} = {i \in DOMAIN is : is[i] = asked}
      BY <2>1 DEF Same
    <2> QED
      BY <2>2 DEF PendingIn, asked
  <1> QED
    BY <1>1, <1>2, <1>3, <1>4, <1>5

LEMMA KnowsKept ==
  ASSUME NEW r, IsRequest(r), NEW os, NEW is, NEW os2, NEW is2, NEW g, Shaped(r, is, g),
         Knows(r, os, is), \A o \in {r.org} \cup DOMAIN r.left : Same(o, os, is, os2, is2)
  PROVE  Knows(r, os2, is2)
  <1>1. Same(r.org, os, is, os2, is2)
    OBVIOUS
  <1>2. r.call.op \in {"UpdateMemberRole", "RemoveMember"} => KnowsTarget(r, os2)
    BY <1>1, SameReads DEF Knows, KnowsTarget
  <1>3. r.call.op = "LeaveOrganization" => KnowsLeaver(r, os2)
    <2>1. /\ RoleIn(os2, r.org, r.call.by) = RoleIn(os, r.org, r.call.by)
          /\ OtherAdmin(os2, r.org, r.call.by) <=> OtherAdmin(os, r.org, r.call.by)
          /\ r.org \in DOMAIN os => r.org \in DOMAIN os2 /\ Count(os2, r.org) = Count(os, r.org)
      BY <1>1, SameReads
    <2> QED
      BY <2>1 DEF Knows, KnowsLeaver
  <1>4. r.call.op = "DeleteAccount" => KnowsListed(r, os2)
    BY SameReads DEF Knows, KnowsListed
  <1>5. r.call.op = "CreateInvitation" /\ r.pc = "create" => PendingIn(is2, r.call.target, r.org) = {}
    BY <1>1, SameReads DEF Knows
  <1>6. r.call.op = "AcceptInvitation" => KnowsInvitation(r, os2, is2)
    <2> SUFFICES ASSUME r.call.op = "AcceptInvitation" PROVE KnowsInvitation(r, os2, is2)
      OBVIOUS
    <2>1. KnowsInvitation(r, os, is)
      BY DEF Knows
    <2>2. r.pc \in {"requester", "push", "status"} => is[r.call.inv].org = r.org
      BY <2>1 DEF KnowsInvitation
    <2>3. EntriesIn(os2, r.org, r.call.by) = EntriesIn(os, r.org, r.call.by)
      BY <1>1, SameReads
    <2>4. r.org \in DOMAIN os2 => r.org \in DOMAIN os
      BY <1>1 DEF Same
    <2>5. r.pc \in {"requester", "push", "status"} =>
            r.call.inv \in DOMAIN is2 /\ is2[r.call.inv] = is[r.call.inv]
      BY <1>1, <2>1, <2>2 DEF KnowsInvitation, Same
    <2> QED
      BY <2>1, <2>3, <2>4, <2>5 DEF KnowsInvitation
  <1> QED
    BY <1>2, <1>3, <1>4, <1>5, <1>6 DEF Knows

(* A request that has made no call knows nothing.                          *)
LEMMA KnowsAtFirst ==
  ASSUME NEW r, r.call \in Calls, r.pc = FirstStep[r.call.op], NEW os, NEW is
  PROVE  Knows(r, os, is)
  <1>1. r.call.op \in DOMAIN FirstStep
    BY CallTypes
  <1> DEFINE op == r.call.op
  <1>2. /\ op \in {"UpdateMemberRole", "RemoveMember", "LeaveOrganization", "CreateInvitation"} =>
             r.pc = "requester"
        /\ op \in {"DeleteAccount", "AcceptInvitation"} => r.pc = "account"
    BY DEF FirstStep
  <1> HIDE DEF op
  <1>3. op \in {"UpdateMemberRole", "RemoveMember"} => KnowsTarget(r, os)
    BY <1>2 DEF KnowsTarget
  <1>4. op = "LeaveOrganization" => KnowsLeaver(r, os)
    BY <1>2 DEF KnowsLeaver, Cascade
  <1>5. op = "DeleteAccount" => KnowsListed(r, os)
    BY <1>2 DEF KnowsListed
  <1>6. op = "AcceptInvitation" => KnowsInvitation(r, os, is)
    BY <1>2 DEF KnowsInvitation
  <1> QED
    BY <1>2, <1>3, <1>4, <1>5, <1>6 DEF Knows, op

(* A request r after the step.                                             *)
After(r, fresh) ==
  /\ Shaped(r, invitations', given')
  /\ fresh => Knows(r, orgs', invitations')
  /\ Listed(r, orgs', late')
  /\ Emptied(r, projects', events', loose')

(* What the step may do to the collections while others work: what is not  *)
(* in changed stays as they read it, and what is new is recorded.          *)
Minds(changed) ==
  /\ \A o \in (Orgs \cup {NoOrg}) \ changed : Same(o, orgs, invitations, orgs', invitations')
  /\ given \subseteq given'
  /\ \A i \in given \cap DOMAIN invitations' :
       /\ i \in DOMAIN invitations
       /\ invitations'[i].org = invitations[i].org /\ invitations'[i].email = invitations[i].email
  /\ late \subseteq late'
  /\ \A u \in Users, o \in Orgs :
       EntriesIn(orgs', o, u) # <<>> =>
         EntriesIn(orgs, o, u) # <<>> \/ <<u, o>> \in late' \/ ~Leaving(u)
  /\ loose \subseteq loose'
  /\ \A o \in (projects' \ projects) \cup (events' \ events) : o \in loose' \/ ~Deleting(o)

LEMMA OthersKept ==
  ASSUME IInv, NEW p \in Procs, NEW changed, stale \cup Overtaken(p, changed) \subseteq stale' \cup {p},
         Minds(changed), NEW q \in Procs \ {p}, Busy(q)
  PROVE  After(req[q], q \notin stale')
  <1> DEFINE r == req[q]
  <1>1. IsRequest(r) /\ r.call \in Calls /\ RequestOK(r, q \notin stale)
    BY RequestType DEF IInv, Requests
  <1>2. Shaped(r, invitations', given')
    <2>1. Shaped(r, invitations, given)
      BY <1>1 DEF RequestOK
    <2>2. FoundInvitation(r, invitations, given) => FoundInvitation(r, invitations', given')
      BY DEF FoundInvitation, Minds
    <2> HIDE DEF r
    <2> QED
      BY <2>1, <2>2 DEF Shaped
  <1>3. ASSUME q \notin stale' PROVE Knows(r, orgs', invitations')
    <2>1. CASE r.pc = FirstStep[r.call.op]
      BY <1>1, <2>1, KnowsAtFirst
    <2>2. CASE r.pc # FirstStep[r.call.op]
      <3>1. Knows(r, orgs, invitations) /\ Shaped(r, invitations, given)
        BY <1>1, <1>3 DEF RequestOK
      <3>2. q \notin Overtaken(p, changed)
        BY <1>3
      <3>3. ({r.org} \cup DOMAIN r.left) \cap changed = {}
        BY <2>2, <3>2 DEF Overtaken, Reading, Op
      <3>4. {r.org} \cup DOMAIN r.left \subseteq Orgs \cup {NoOrg}
        BY <1>1 DEF IsRequest
      <3>5. \A o \in {r.org} \cup DOMAIN r.left : Same(o, orgs, invitations, orgs', invitations')
        BY <3>3, <3>4 DEF Minds
      <3> HIDE DEF r
      <3> QED
        BY <1>1, <3>1, <3>5, KnowsKept
    <2> QED
      BY <2>1, <2>2
  <1>4. Listed(r, orgs', late')
    <2> SUFFICES ASSUME r.call.op = "DeleteAccount", r.pc \notin {"account", "list"}, NEW o \in Orgs,
                        EntriesIn(orgs', o, r.call.by) # <<>>
                 PROVE  o \in DOMAIN r.left \/ <<r.call.by, o>> \in late'
      BY DEF Listed
    <2>1. r.call.by \in Users
      BY <1>1, CallTypes DEF DeleteAccountReq
    <2>2. Leaving(r.call.by)
      BY DEF Leaving
    <2>3. EntriesIn(orgs, o, r.call.by) # <<>> \/ <<r.call.by, o>> \in late'
      BY <2>1, <2>2 DEF Minds
    <2> QED
      BY <1>1, <2>3 DEF Minds, RequestOK, Listed
  <1>5. Emptied(r, projects', events', loose')
    <2>1. r.pc \in {"delete_projects", "delete_org"} => Deleting(r.org)
      BY DEF Deleting
    <2>2. Emptied(r, projects, events, loose)
      BY <1>1 DEF RequestOK
    <2> HIDE DEF r
    <2> QED
      BY <2>1, <2>2 DEF Emptied, Minds
  <1> QED
    BY <1>2, <1>3, <1>4, <1>5 DEF After

(* The conjuncts of TypeOK on what is stored.                              *)
Stored ==
  /\ accounts \subseteq Users
  /\ DOMAIN orgs \subseteq Orgs /\ \A o \in DOMAIN orgs : orgs[o] \in Organization
  /\ projects \subseteq Orgs /\ events \subseteq Orgs /\ loose \subseteq Orgs
  /\ DOMAIN invitations \subseteq Invs
  /\ \A i \in DOMAIN invitations : invitations[i] \in Invitation
  /\ given \subseteq Orgs \cup Invs /\ DOMAIN orgs \cup DOMAIN invitations \subseteq given
  /\ late \subseteq Users \X Orgs

LEMMA StoredType == ASSUME TypeOK PROVE Stored
  BY DEF TypeOK, Stored

(* A step of p, whose request becomes x.                                   *)
Becomes(p, x) ==
  /\ req' = [req EXCEPT ![p] = x] /\ (x = Idle \/ IsRequest(x))
  /\ answer' \in [Procs -> Codes] /\ served' \in 0 .. MaxRequests /\ stale' \subseteq Procs

LEMMA Stepped ==
  ASSUME IInv, NEW p \in Procs, NEW x, Becomes(p, x), x = Idle \/ After(x, p \notin stale'),
         NEW changed, stale \cup Overtaken(p, changed) \subseteq stale' \cup {p}, Minds(changed),
         Stored', Collections', OrphansForAReason', DeletedAccountLeft'
  PROVE  IInv'
  <1>1. req'[p] = x /\ DOMAIN req' = Procs /\ \A q \in Procs : q # p => req'[q] = req[q]
    BY Moved DEF Becomes, IInv
  <1>2. TypeOK'
    <2>1. \A q \in Procs : req'[q] = Idle \/ IsRequest(req'[q])
      BY <1>1 DEF Becomes, IInv, TypeOK
    <2>2. \A q \in Procs : IsRequest(req[q])' <=> IsRequest(req'[q])
      BY DEF IsRequest
    <2>3. \A q \in Procs : (req[q] = Idle)' <=> req'[q] = Idle
      BY DEF Idle
    <2> QED
      BY <1>1, <2>1, <2>2, <2>3 DEF TypeOK, Stored, Becomes
  <1>3. Requests'
    <2> SUFFICES ASSUME NEW q \in Procs, Busy(q)' PROVE RequestOK(req[q], q \notin stale)'
      BY DEF Requests
    <2>1. After(req'[q], q \notin stale')
      <3>1. CASE q = p
        <4>1. x # Idle
          BY <1>1, <3>1 DEF Busy, Idle
        <4> QED
          BY <1>1, <3>1, <4>1
      <3>2. CASE q # p
        <4>1. Busy(q)
          BY <1>1, <3>2 DEF Busy
        <4> QED
          BY <1>1, <3>2, <4>1, OthersKept
      <3> QED
        BY <3>1, <3>2
    <2> QED
      BY <2>1 DEF After, RequestOK, Shaped, FoundInvitation, Knows
  <1> QED
    BY <1>2, <1>3 DEF IInv
-----------------------------------------------------------------------------
(* Steps that only read.                                                   *)

LEMMA Quiet ==
  ASSUME IInv, NEW p \in Procs, NEW x, Becomes(p, x), x = Idle \/ RequestOK(x, p \notin stale'),
         stale \subseteq stale' \cup {p}, UNCHANGED <<docs, hist>>
  PROVE  IInv'
  <1>1. x = Idle \/ After(x, p \notin stale')
    BY DEF After, RequestOK, docs, hist
  <1>2. stale \cup Overtaken(p, {}) \subseteq stale' \cup {p}
    BY DEF Overtaken
  <1>3. Minds({})
    BY DEF Minds, Same, docs, hist
  <1>4. Stored'
    <2>1. Stored
      BY StoredType DEF IInv
    <2> QED
      BY <2>1 DEF Stored, docs, hist
  <1>5. Collections' /\ OrphansForAReason' /\ DeletedAccountLeft'
    BY DEF IInv, Collections, FirstOnly, OrphansForAReason, DeletedAccountLeft, Entries, docs, hist
  <1> QED
    BY <1>1, <1>2, <1>3, <1>4, <1>5, Stepped

(* A request answered becomes Idle.                                        *)
LEMMA Answered ==
  ASSUME IInv, NEW p \in Procs, NEW code \in Codes, Answer(p, code), stale' \subseteq Procs
  PROVE  Becomes(p, Idle)
  BY DEF IInv, TypeOK, Answer, Becomes

LEMMA Refused ==
  ASSUME IInv, NEW p \in Procs, NEW err, Refuse(p, err), UNCHANGED <<docs, hist>>
  PROVE  IInv'
  <1>1. stale' \subseteq Procs /\ stale \subseteq stale' \cup {p}
    BY DEF Refuse, IInv, TypeOK
  <1>2. PICK code \in Codes : Answer(p, code)
    BY ErrorCodeType DEF Refuse, ErrorCodes
  <1>3. Becomes(p, Idle)
    BY <1>1, <1>2, Answered
  <1> QED
    BY <1>1, <1>3, Quiet

LEMMA Going ==
  ASSUME IInv, NEW p \in Procs, Busy(p), NEW step \in Steps \ {"idle"}, Goto(p, step),
         stale' \subseteq Procs
  PROVE  Becomes(p, At(req[p], step))
  <1>1. IsRequest(At(req[p], step))
    BY RequestType, AtIs DEF IInv
  <1> QED
    BY <1>1, Goes DEF IInv, TypeOK, Becomes

LEMMA ReadOn ==
  ASSUME IInv, NEW p \in Procs, Busy(p), NEW step \in Steps \ {"idle"}, Read(p, step),
         RequestOK(At(req[p], step), p \notin stale), UNCHANGED <<docs, hist>>
  PROVE  IInv'
  <1>1. stale' = stale /\ stale' \subseteq Procs /\ Goto(p, step)
    BY DEF Read, IInv, TypeOK
  <1>2. Becomes(p, At(req[p], step))
    BY <1>1, Going
  <1> QED
    BY <1>1, <1>2, Quiet

(* The handlers that keep nothing but what the message says.               *)
Plain ==
  {"CreateOrganization", "UpdateOrganization", "UpdateMemberRole", "RemoveMember",
   "CreateInvitation", "RegisterProject", "Collect"}

LEMMA CallsAreSteps == \A op \in DOMAIN CallsOf : CallsOf[op] \subseteq Steps \ {"idle"}
  BY DEF CallsOf, Cascade, Steps

LEMMA ReadPlain ==
  ASSUME IInv, NEW p \in Procs, Busy(p), NEW step, Read(p, step), Op(p) \in Plain,
         step \in CallsOf[Op(p)], UNCHANGED <<docs, hist>>,
         p \notin stale => Knows(At(req[p], step), orgs, invitations)
  PROVE  IInv'
  <1> DEFINE r == req[p]
             s == At(req[p], step)
  <1>1. IsRequest(r) /\ Shaped(r, invitations, given)
    BY RequestType DEF IInv, Requests, RequestOK
  <1>2. Op(p) \in DOMAIN CallsOf /\ r.call.op = Op(p)
    BY DEF CallsOf, Plain, Op
  <1>3. step \in Steps \ {"idle"}
    BY <1>2, CallsAreSteps
  <1>4. s.call = r.call /\ s.pc = step /\ s.org = r.org
    BY <1>1, <1>3, AtIs
  <1>5. step \notin Cascade
    BY DEF CallsOf, Cascade, Plain
  <1> HIDE DEF s
  <1>6. Shaped(s, invitations, given)
    BY <1>1, <1>2, <1>4 DEF Shaped, Plain
  <1>7. Listed(s, orgs, late) /\ Emptied(s, projects, events, loose)
    BY <1>2, <1>4, <1>5 DEF Listed, Emptied, Cascade, Plain
  <1> QED
    BY <1>3, <1>6, <1>7, ReadOn DEF RequestOK, s

LEMMA CallFailsStep ==
  ASSUME IInv, NEW p \in Procs, CallFails(p)
  PROVE  IInv'
  BY Refused DEF CallFails

LEMMA ReceiveStep ==
  ASSUME IInv, NEW p \in Procs, NEW call \in Calls, Receive(p, call)
  PROVE  IInv'
  <1> DEFINE x == [call |-> call, pc |-> FirstStep[call.op],
                   org |-> IF "org" \in DOMAIN call THEN call.org ELSE NoOrg, left |-> <<>>]
  <1>1. /\ call.op \in DOMAIN FirstStep /\ FirstStep[call.op] \in Steps \ {"idle"}
        /\ FirstStep[call.op] \notin {"delete_projects", "delete_org"}
    <2>1. call.op \in DOMAIN FirstStep
      BY CallTypes
    <2> QED
      BY <2>1 DEF FirstStep, Steps
  <1>2. x.org \in Orgs \cup {NoOrg} /\ (call.op \in AtOrganization => x.org = call.org)
    BY AtOrganizationTypes
  <1>3. IsRequest(x)
    BY <1>1, <1>2 DEF IsRequest
  <1>4. x.call = call /\ x.pc = FirstStep[call.op] /\ DOMAIN x.left = {}
    OBVIOUS
  <1> HIDE DEF x
  <1>5. Becomes(p, x)
    <2>1. served + 1 \in 0 .. MaxRequests
      BY MembershipAssumption DEF Receive, IInv, TypeOK
    <2>2. "none" \in Codes
      BY DEF Codes
    <2> QED
      BY <1>3, <2>1, <2>2 DEF Receive, Becomes, IInv, TypeOK, x
  <1>6. RequestOK(x, p \notin stale')
    <2>1. Shaped(x, invitations, given)
      <3>1. FirstStep[call.op] \in CallsOf[call.op]
        BY <1>1 DEF FirstStep, CallsOf
      <3>2. /\ call.op = "LeaveOrganization" => x.pc = "requester"
            /\ call.op = "DeleteAccount" => x.pc = "account"
            /\ call.op = "RevokeInvitation" => x.pc = "invitation"
            /\ call.op = "AcceptInvitation" => x.pc = "account"
        BY <1>4 DEF FirstStep
      <3> QED
        BY <1>2, <1>4, <3>1, <3>2 DEF Shaped, LeavesOne, DeletesListed, Cascade
    <2>2. Knows(x, orgs, invitations)
      BY <1>4, KnowsAtFirst
    <2>3. Listed(x, orgs, late)
      BY <1>4 DEF Listed, FirstStep
    <2>4. Emptied(x, projects, events, loose)
      BY <1>1, <1>4 DEF Emptied
    <2> QED
      BY <2>1, <2>2, <2>3, <2>4 DEF RequestOK
  <1> QED
    BY <1>5, <1>6, Quiet DEF Receive
-----------------------------------------------------------------------------
(* Steps that write an organization.                                       *)

(* What the writers of an entry do: the others keep theirs, and only       *)
(* PushMember gives one to a user that has none.                           *)
Entered(o, u, os) ==
  /\ DOMAIN os = DOMAIN orgs /\ os \in [DOMAIN os -> Organization] /\ FirstOnly(os)
  /\ \A x \in DOMAIN orgs : x # o => os[x] = orgs[x]
  /\ \A v \in Users : v # u => EntriesIn(os, o, v) = EntriesIn(orgs, o, v)

LEMMA SetMembersType ==
  ASSUME Collections, NEW o, NEW u \in Users, NEW entries \in Seq(Roles),
         \A i \in 2 .. Len(entries) : entries[i] = "member"
  PROVE  /\ Entered(o, u, SetMembers(o, u, entries))
         /\ o \in DOMAIN orgs => EntriesIn(SetMembers(o, u, entries), o, u) = entries
  <1> DEFINE os == SetMembers(o, u, entries)
  <1>1. CASE o \notin DOMAIN orgs
    BY <1>1 DEF SetMembers, Collections, Entered
  <1>2. CASE o \in DOMAIN orgs
    <2>1. orgs[o] \in Organization /\ orgs \in [DOMAIN orgs -> Organization]
      BY <1>2 DEF Collections
    <2>2. orgs[o].members \in [Users -> Seq(Roles)]
      BY <2>1 DEF Organization, Members
    <2> DEFINE members == [orgs[o].members EXCEPT ![u] = entries]
               org == [orgs[o] EXCEPT !.members = members]
    <2>3. os = [orgs EXCEPT ![o] = org]
      BY <1>2 DEF SetMembers
    <2>4. members \in [Users -> Seq(Roles)] /\ members[u] = entries
          /\ \A v \in Users : v # u => members[v] = orgs[o].members[v]
      BY <2>2
    <2> HIDE DEF members
    <2>5. org \in Organization /\ org.members = members
      BY <2>1, <2>4 DEF Organization, Members
    <2> HIDE DEF org, os
    <2>6. /\ DOMAIN os = DOMAIN orgs /\ os \in [DOMAIN os -> Organization] /\ os[o] = org
          /\ \A x \in DOMAIN orgs : x # o => os[x] = orgs[x]
      BY <1>2, <2>1, <2>3, <2>5
    <2>7. FirstOnly(os)
      <3> SUFFICES ASSUME NEW a \in DOMAIN os, NEW v \in Users, NEW i \in 2 .. Len(os[a].members[v])
                   PROVE  os[a].members[v][i] = "member"
        BY DEF FirstOnly
      <3>1. CASE a = o /\ v = u
        BY <2>4, <2>5, <2>6, <3>1
      <3>2. CASE ~(a = o /\ v = u)
        <4>1. os[a].members[v] = orgs[a].members[v]
          BY <2>4, <2>5, <2>6, <3>2
        <4> QED
          BY <2>6, <4>1 DEF FirstOnly, Collections
      <3> QED
        BY <3>1, <3>2
    <2>8. /\ \A v \in Users : v # u => EntriesIn(os, o, v) = EntriesIn(orgs, o, v)
          /\ EntriesIn(os, o, u) = entries
      BY <1>2, <2>4, <2>5, <2>6 DEF EntriesIn
    <2> QED
      BY <2>6, <2>7, <2>8 DEF os, Entered
  <1> QED
    BY <1>1, <1>2

LEMMA PullMemberIs ==
  ASSUME Collections, NEW o, NEW u \in Users
  PROVE  Entered(o, u, PullMember(o, u)) /\ EntriesIn(PullMember(o, u), o, u) = <<>>
  <1>1. <<>> \in Seq(Roles) /\ \A i \in 2 .. Len(<<>>) : <<>>[i] = "member"
    OBVIOUS
  <1>2. o \notin DOMAIN orgs => EntriesIn(PullMember(o, u), o, u) = <<>>
    BY DEF PullMember, SetMembers, EntriesIn
  <1> QED
    BY <1>1, <1>2, SetMembersType DEF PullMember

LEMMA PushMemberIs ==
  ASSUME Collections, NEW o, NEW u \in Users
  PROVE  /\ Entered(o, u, PushMember(o, u))
         /\ o \in DOMAIN orgs =>
              EntriesIn(PushMember(o, u), o, u) = Append(EntriesIn(orgs, o, u), "member")
  <1> DEFINE entries == Append(Entries(o, u), "member")
  <1>1. Entries(o, u) = EntriesIn(orgs, o, u) /\ Entries(o, u) \in Seq(Roles)
    BY EntriesType, AsIn DEF Collections
  <1>2. entries \in Seq(Roles)
    BY <1>1 DEF Roles
  <1>3. \A i \in 2 .. Len(Entries(o, u)) : Entries(o, u)[i] = "member"
    BY DEF Collections, FirstOnly, Entries
  <1>4. \A i \in 2 .. Len(entries) : entries[i] = "member"
    BY <1>1, <1>3
  <1> QED
    BY <1>1, <1>2, <1>4, SetMembersType DEF PushMember

LEMMA WriteRoleIs ==
  ASSUME Collections, NEW o, NEW u \in Users, NEW role \in Roles
  PROVE  /\ Entered(o, u, WriteRole(o, u, role))
         /\ EntriesIn(orgs, o, u) = <<>> => EntriesIn(WriteRole(o, u, role), o, u) = <<>>
         /\ EntriesIn(orgs, o, u) # <<>> => RoleIn(WriteRole(o, u, role), o, u) = role
         /\ Len(EntriesIn(WriteRole(o, u, role), o, u)) = Len(EntriesIn(orgs, o, u))
  <1>1. Entries(o, u) = EntriesIn(orgs, o, u) /\ Entries(o, u) \in Seq(Roles)
    BY EntriesType, AsIn DEF Collections
  <1>2. CASE ~IsMember(o, u)
    BY <1>1, <1>2, AsIn DEF WriteRole, Entered, Collections
  <1>3. CASE IsMember(o, u)
    <2> DEFINE entries == [Entries(o, u) EXCEPT ![1] = role]
    <2>1. /\ entries \in Seq(Roles) /\ Len(entries) = Len(Entries(o, u))
          /\ entries[1] = role /\ Len(entries) >= 1
          /\ \A i \in 2 .. Len(entries) : entries[i] = Entries(o, u)[i]
      BY <1>1, <1>3 DEF IsMember
    <2>2. \A i \in 2 .. Len(entries) : entries[i] = "member"
      BY <2>1 DEF Collections, FirstOnly, Entries
    <2>3. o \in DOMAIN orgs
      BY <1>3 DEF IsMember, Entries
    <2> HIDE DEF entries
    <2>4. /\ Entered(o, u, SetMembers(o, u, entries))
          /\ EntriesIn(SetMembers(o, u, entries), o, u) = entries
      BY <2>1, <2>2, <2>3, SetMembersType
    <2>5. WriteRole(o, u, role) = SetMembers(o, u, entries)
      BY <1>3 DEF WriteRole, entries
    <2>6. entries # <<>> /\ Head(entries) = role
      BY <2>1
    <2> QED
      BY <1>1, <1>3, <2>1, <2>4, <2>5, <2>6, AsIn DEF RoleIn
  <1> QED
    BY <1>2, <1>3

(* What a step may do to organization o.                                   *)
LEMMA OrganizationWritten ==
  ASSUME IInv, NEW p \in Procs, NEW x, Becomes(p, x), x = Idle \/ After(x, p \notin stale'),
         NEW o, stale \cup Overtaken(p, {o}) \subseteq stale' \cup {p},
         UNCHANGED <<accounts, projects, events, invitations, loose>>,
         orgs' \in [DOMAIN orgs' -> Organization], FirstOnly(orgs'),
         DOMAIN orgs' \subseteq Orgs \cap given', given' \subseteq Orgs \cup Invs,
         given \subseteq given', late \subseteq late', late' \subseteq Users \X Orgs,
         \A a : a # o => (a \in DOMAIN orgs <=> a \in DOMAIN orgs'),
         \A a \in DOMAIN orgs : a # o => orgs'[a].members = orgs[a].members,
         \A u \in Users : EntriesIn(orgs', o, u) # <<>> =>
            EntriesIn(orgs, o, u) # <<>> \/ <<u, o>> \in late' \/ ~Leaving(u),
         o \in DOMAIN orgs \ DOMAIN orgs' => o \in loose \/ o \notin projects
  PROVE  IInv'
  <1>1. Stored'
    BY DEF IInv, TypeOK, Stored
  <1>2. Collections'
    <2>1. (orgs \in [DOMAIN orgs -> Organization])' <=> orgs' \in [DOMAIN orgs' -> Organization]
      BY DEF Organization, Members, Roles
    <2>2. FirstOnly(orgs)'
      BY DEF FirstOnly
    <2> QED
      BY <2>1, <2>2 DEF IInv, Collections, Invitation
  <1>3. \A a \in Orgs, u \in Users : EntriesIn(orgs', a, u) # <<>> =>
          EntriesIn(orgs, a, u) # <<>> \/ <<u, a>> \in late' \/ ~Leaving(u)
    BY DEF EntriesIn
  <1>4. Minds({o})
    <2>1. \A a \in (Orgs \cup {NoOrg}) \ {o} : Same(a, orgs, invitations, orgs', invitations')
      BY DEF Same
    <2> QED
      BY <1>3, <2>1 DEF Minds
  <1>5. OrphansForAReason'
    BY DEF IInv, OrphansForAReason
  <1>6. DeletedAccountLeft'
    <2>1. \A a \in Orgs, u \in Users \ accounts : EntriesIn(orgs', a, u) # <<>> => <<u, a>> \in late'
      BY <1>3, AsIn DEF IInv, DeletedAccountLeft, Leaving
    <2> QED
      BY <2>1 DEF DeletedAccountLeft, Entries, EntriesIn
  <1> QED
    BY <1>1, <1>2, <1>4, <1>5, <1>6, Stepped
LEMMA Finished ==
  ASSUME IInv, NEW p \in Procs, NEW changed, Finish(p, changed)
  PROVE  /\ Becomes(p, Idle) /\ stale' \subseteq Procs
         /\ stale \cup Overtaken(p, changed) \subseteq stale' \cup {p}
  <1>1. stale' \subseteq Procs /\ stale \cup Overtaken(p, changed) \subseteq stale' \cup {p}
    BY DEF Finish, Overtaken, IInv, TypeOK
  <1>2. "ok" \in Codes /\ Answer(p, "ok")
    BY DEF Finish, Codes
  <1> QED
    BY <1>1, <1>2, Answered

LEMMA EntryWritten ==
  ASSUME IInv, NEW p \in Procs, NEW x, Becomes(p, x), x = Idle \/ After(x, p \notin stale'),
         NEW o, stale \cup Overtaken(p, {o}) \subseteq stale' \cup {p},
         UNCHANGED <<accounts, projects, events, invitations, loose, given>>,
         NEW u \in Users, Entered(o, u, orgs'),
         late \subseteq late', late' \subseteq Users \X Orgs,
         EntriesIn(orgs', o, u) # <<>> =>
            EntriesIn(orgs, o, u) # <<>> \/ <<u, o>> \in late' \/ ~Leaving(u)
  PROVE  IInv'
  <1>1. DOMAIN orgs' = DOMAIN orgs /\ orgs' \in [DOMAIN orgs' -> Organization] /\ FirstOnly(orgs')
    BY DEF Entered
  <1>2. DOMAIN orgs' \subseteq Orgs \cap given' /\ given' \subseteq Orgs \cup Invs
    BY <1>1 DEF IInv, TypeOK
  <1>3. \A v \in Users : EntriesIn(orgs', o, v) # <<>> =>
            EntriesIn(orgs, o, v) # <<>> \/ <<v, o>> \in late' \/ ~Leaving(v)
    BY DEF Entered
  <1>4. \A a \in DOMAIN orgs : a # o => orgs'[a].members = orgs[a].members
    BY DEF Entered
  <1> QED
    BY <1>1, <1>2, <1>3, <1>4, OrganizationWritten

LEMMA EntryFinished ==
  ASSUME IInv, NEW p \in Procs, NEW o, Finish(p, {o}), NEW u \in Users, Entered(o, u, orgs'),
         EntriesIn(orgs, o, u) = <<>> => EntriesIn(orgs', o, u) = <<>>,
         UNCHANGED <<accounts, projects, events, invitations, hist>>
  PROVE  IInv'
  <1>1. UNCHANGED <<accounts, projects, events, invitations, loose, given>> /\ late' = late
    BY DEF hist
  <1>2. late' \subseteq Users \X Orgs
    BY <1>1 DEF IInv, TypeOK
  <1> QED
    BY <1>1, <1>2, Finished, EntryWritten

LEMMA CreateOrganizationStep ==
  ASSUME IInv, NEW p \in Procs, Busy(p), CreateOrganization(p)
  PROVE  IInv'
  <1> DEFINE call == req[p].call
  <1>1. call \in Calls /\ call.op = "CreateOrganization" /\ call.by \in Users /\ call.slug \in Slugs
    BY RequestType, CallTypes DEF CreateOrganization, Op, IInv, CreateOrganizationReq
  <1>2. CASE req[p].pc = "slug" /\ Refuse(p, "slug_taken") /\ UNCHANGED <<docs, hist>>
    BY <1>2, Refused
  <1>3. CASE req[p].pc = "slug" /\ Read(p, "create") /\ UNCHANGED <<docs, hist>>
    <2>1. Op(p) = "CreateOrganization" /\ Op(p) \in Plain /\ "create" \in CallsOf[Op(p)]
      BY <1>1 DEF Op, Plain, CallsOf
    <2>2. Knows(At(req[p], "create"), orgs, invitations)
      BY <1>1 DEF Knows, At
    <2> QED
      BY <1>3, <2>1, <2>2, ReadPlain
  <1>4. CASE Refuse(p, "duplicate_slug") /\ UNCHANGED <<docs, hist>>
    BY <1>4, Refused, SMTT(30)
  <1>5. ASSUME NEW o \in Orgs \ given,
               orgs' = Insert(orgs, o, [slug |-> call.slug, members |-> Single(call.by, "admin")]),
               given' = given \cup {o},
               late' = IF Leaving(call.by) THEN late \cup {<<call.by, o>>} ELSE late,
               Finish(p, {o}),
               UNCHANGED <<accounts, projects, events, invitations, loose>>
        PROVE  IInv'
    <2> DEFINE doc == [slug |-> call.slug, members |-> Single(call.by, "admin")]
    <2>1. /\ Single(call.by, "admin") \in Members
          /\ Single(call.by, "admin")[call.by] = <<"admin">>
          /\ \A u \in Users \ {call.by} : Single(call.by, "admin")[u] = <<>>
      <3>1. <<>> \in Seq(Roles) /\ <<"admin">> \in Seq(Roles)
        BY DEF Roles
      <3> QED
        BY <1>1, <3>1 DEF Single, None, Members
    <2>2. doc \in Organization
      BY <1>1, <2>1 DEF Organization
    <2>3. o \notin DOMAIN orgs /\ orgs \in [DOMAIN orgs -> Organization] /\ DOMAIN orgs \subseteq Orgs
      BY <1>5 DEF IInv, TypeOK, Collections
    <2>4. /\ DOMAIN orgs' = DOMAIN orgs \cup {o} /\ orgs'[o] = doc
          /\ \A a \in DOMAIN orgs : a # o /\ orgs'[a] = orgs[a]
          /\ orgs' = [a \in DOMAIN orgs' |-> orgs'[a]]
      BY <1>5, <2>3 DEF Insert
    <2> HIDE DEF doc
    <2>5. orgs' \in [DOMAIN orgs' -> Organization]
      BY <2>2, <2>3, <2>4
    <2>6. FirstOnly(orgs')
      <3> SUFFICES ASSUME NEW a \in DOMAIN orgs', NEW v \in Users, NEW i \in 2 .. Len(orgs'[a].members[v])
                   PROVE  orgs'[a].members[v][i] = "member"
        BY DEF FirstOnly
      <3>1. CASE a = o
        <4>1. Len(orgs'[a].members[v]) <= 1
          <5>1. orgs'[a].members[v] \in {<<>>, <<"admin">>}
            <6>1. orgs'[a].members = Single(call.by, "admin")
              BY <2>4, <3>1 DEF doc
            <6> QED
              BY <1>1, <2>1, <6>1
          <5> QED
            BY <5>1, AtMostOne
        <4> QED
          BY <4>1
      <3>2. CASE a # o
        BY <2>4, <3>2 DEF IInv, Collections, FirstOnly
      <3> QED
        BY <3>1, <3>2
    <2>7. /\ DOMAIN orgs' \subseteq Orgs \cap given' /\ given' \subseteq Orgs \cup Invs
          /\ given \subseteq given' /\ late \subseteq late' /\ late' \subseteq Users \X Orgs
      BY <1>1, <1>5, <2>4 DEF IInv, TypeOK
    <2>8. \A u \in Users : EntriesIn(orgs', o, u) # <<>> =>
            EntriesIn(orgs, o, u) # <<>> \/ <<u, o>> \in late' \/ ~Leaving(u)
      <3>1. \A u \in Users : EntriesIn(orgs', o, u) # <<>> => u = call.by
        BY <2>1, <2>4 DEF EntriesIn, doc
      <3> QED
        BY <1>5, <3>1
    <2>9. /\ \A a : a # o => (a \in DOMAIN orgs <=> a \in DOMAIN orgs')
          /\ \A a \in DOMAIN orgs : a # o => orgs'[a].members = orgs[a].members
          /\ o \notin DOMAIN orgs \ DOMAIN orgs'
      BY <2>3, <2>4
    <2>10. Becomes(p, Idle) /\ stale \cup Overtaken(p, {o}) \subseteq stale' \cup {p}
      BY <1>5, Finished
    <2> QED
      BY <1>5, <2>5, <2>6, <2>7, <2>8, <2>9, <2>10, OrganizationWritten
  <1> QED
    BY <1>2, <1>3, <1>4, <1>5 DEF CreateOrganization

LEMMA UpdateOrganizationStep ==
  ASSUME IInv, NEW p \in Procs, Busy(p), UpdateOrganization(p)
  PROVE  IInv'
  <1> DEFINE call == req[p].call
             o == call.org
             role == GetMemberRole(o, call.by)
  <1>1. /\ call \in Calls /\ call.op = "UpdateOrganization" /\ Op(p) = "UpdateOrganization"
        /\ o \in Orgs /\ call.slug \in Slugs /\ call.by \in Users
    BY RequestType, CallTypes DEF UpdateOrganization, Op, IInv, UpdateOrganizationReq
  <1>2. \A step : Knows(At(req[p], step), orgs, invitations)
    BY <1>1 DEF Knows, At
  <1>3. Op(p) \in Plain /\ {"slug", "update"} \subseteq CallsOf[Op(p)]
    BY <1>1 DEF Plain, CallsOf
  <1>4. ASSUME NEW err, Refuse(p, err), UNCHANGED <<docs, hist>> PROVE IInv'
    BY <1>4, Refused
  <1>5. ASSUME NEW step \in {"slug", "update"}, Read(p, step), UNCHANGED <<docs, hist>> PROVE IInv'
    BY <1>2, <1>3, <1>5, ReadPlain
  <1>6. CASE req[p].pc = "requester"
    <2>1. role \in {"", "admin", "member"}
      BY <1>1, EntriesType, AsIn DEF IInv, Collections
    <2>2. CASE role = ""
      BY <1>1, <1>4, <1>6, <2>2 DEF UpdateOrganization
    <2>3. CASE role = "member"
      BY <1>1, <1>4, <1>6, <2>3 DEF UpdateOrganization
    <2>4. CASE role = "admin"
      BY <1>1, <1>5, <1>6, <2>4 DEF UpdateOrganization
    <2> QED
      BY <2>1, <2>2, <2>3, <2>4
  <1>7. CASE req[p].pc = "slug"
    BY <1>1, <1>4, <1>5, <1>7 DEF UpdateOrganization
  <1>8. CASE req[p].pc = "update"
    <2>1. CASE o \notin DOMAIN orgs
      BY <1>1, <1>4, <1>8, <2>1 DEF UpdateOrganization, docs
    <2>2. CASE o \in DOMAIN orgs /\ ~SlugIndexed(o, call.slug)
      BY <1>1, <1>4, <1>8, <2>2 DEF UpdateOrganization, docs
    <2>3. CASE o \in DOMAIN orgs /\ SlugIndexed(o, call.slug)
      <3>1. /\ orgs' = [orgs EXCEPT ![o].slug = call.slug] /\ Finish(p, {})
            /\ UNCHANGED <<accounts, projects, events, invitations, hist>>
        BY <1>1, <1>8, <2>3 DEF UpdateOrganization
      <3>2. orgs[o] \in Organization /\ orgs \in [DOMAIN orgs -> Organization]
        BY <2>3 DEF IInv, Collections
      <3>3. /\ [orgs[o] EXCEPT !.slug = call.slug] \in Organization
            /\ [orgs[o] EXCEPT !.slug = call.slug].members = orgs[o].members
        BY <1>1, <3>2 DEF Organization
      <3>4. /\ DOMAIN orgs' = DOMAIN orgs /\ orgs' \in [DOMAIN orgs' -> Organization]
            /\ \A a \in DOMAIN orgs : orgs'[a].members = orgs[a].members
        BY <2>3, <3>1, <3>2, <3>3
      <3>5. FirstOnly(orgs')
        BY <3>4 DEF IInv, Collections, FirstOnly
      <3>6. \A u \in Users : EntriesIn(orgs', o, u) = EntriesIn(orgs, o, u)
        BY <3>4 DEF EntriesIn
      <3>7. /\ DOMAIN orgs' \subseteq Orgs \cap given' /\ given' = given /\ late' = late
            /\ given' \subseteq Orgs \cup Invs /\ late' \subseteq Users \X Orgs /\ loose' = loose
        BY <3>1, <3>4 DEF hist, IInv, TypeOK
      <3>8. stale \cup Overtaken(p, {}) \subseteq stale' \cup {p} /\ Becomes(p, Idle)
        BY <3>1, Finished
      <3>9. IInv'
        <4>1. Stored'
          BY <3>1, <3>4, <3>7 DEF IInv, TypeOK, Stored
        <4>2. Collections'
          <5>1. (orgs \in [DOMAIN orgs -> Organization])' <=> orgs' \in [DOMAIN orgs' -> Organization]
            BY DEF Organization, Members, Roles
          <5>2. FirstOnly(orgs)'
            BY <3>5 DEF FirstOnly
          <5> QED
            BY <3>1, <3>4, <5>1, <5>2 DEF IInv, Collections, Invitation
        <4>3. \A a \in Orgs, u \in Users : EntriesIn(orgs', a, u) = EntriesIn(orgs, a, u)
          BY <3>4 DEF EntriesIn
        <4>4. Minds({})
          <5>1. \A a \in (Orgs \cup {NoOrg}) \ {} : Same(a, orgs, invitations, orgs', invitations')
            BY <3>1, <3>4 DEF Same
          <5> QED
            BY <3>1, <3>7, <4>3, <5>1 DEF Minds
        <4>5. OrphansForAReason'
          BY <3>1, <3>4, <3>7 DEF IInv, OrphansForAReason
        <4>6. DeletedAccountLeft'
          <5>1. \A a \in Orgs, u \in Users \ accounts : EntriesIn(orgs', a, u) # <<>> => <<u, a>> \in late'
            BY <3>7, <4>3, AsIn DEF IInv, DeletedAccountLeft
          <5> QED
            BY <3>1, <5>1 DEF DeletedAccountLeft, Entries, EntriesIn
        <4> QED
          BY <3>8, <4>1, <4>2, <4>4, <4>5, <4>6, Stepped
      <3> QED
        BY <3>9
    <2> QED
      BY <2>1, <2>2, <2>3
  <1> QED
    BY <1>1, <1>6, <1>7, <1>8 DEF UpdateOrganization
LEMMA UpdateMemberRoleStep ==
  ASSUME IInv, NEW p \in Procs, Busy(p), UpdateMemberRole(p)
  PROVE  IInv'
  <1> DEFINE r == req[p]
             call == r.call
             o == call.org
             t == call.target
  <1>1. /\ IsRequest(r) /\ call.op = "UpdateMemberRole" /\ Op(p) = "UpdateMemberRole"
        /\ o \in Orgs /\ t \in Users /\ call.role \in Roles
    BY RequestType, CallTypes DEF UpdateMemberRole, Op, IInv, UpdateMemberRoleReq
  <1>2. r.org = o
    BY <1>1, RequestType DEF IInv, Requests, RequestOK, Shaped, AtOrganization
  <1>3. Op(p) \in Plain /\ {"target", "admins", "write"} \subseteq CallsOf[Op(p)]
    BY <1>1 DEF Plain, CallsOf
  <1>4. ASSUME NEW err, Refuse(p, err), UNCHANGED <<docs, hist>> PROVE IInv'
    BY <1>4, Refused
  <1>5. ASSUME NEW step \in {"target", "admins", "write"}, Read(p, step), UNCHANGED <<docs, hist>>,
               KnowsTarget(At(r, step), orgs)
        PROVE  IInv'
    <2>1. Knows(At(r, step), orgs, invitations)
      BY <1>1, <1>5 DEF Knows, At
    <2> QED
      BY <1>3, <1>5, <2>1, ReadPlain
  <1>6. GetMemberRole(o, t) = RoleIn(orgs, o, t) /\ GetMemberRole(o, t) \in {"", "admin", "member"}
    BY <1>1, EntriesType, AsIn DEF IInv, Collections
  <1>7. \A step : At(r, step).pc = step /\ At(r, step).org = o /\ At(r, step).call = call
    BY <1>2 DEF At
  <1>8. CASE r.pc = "requester"
    <2>1. KnowsTarget(At(r, "target"), orgs)
      BY <1>7 DEF KnowsTarget
    <2> QED
      BY <1>1, <1>4, <1>5, <1>8, <2>1 DEF UpdateMemberRole
  <1>9. CASE r.pc = "target"
    <2>1. CASE GetMemberRole(o, t) = ""
      BY <1>1, <1>4, <1>9, <2>1 DEF UpdateMemberRole
    <2>2. CASE GetMemberRole(o, t) = "admin" /\ call.role = "member"
      <3>1. KnowsTarget(At(r, "admins"), orgs)
        BY <1>6, <1>7, <2>2 DEF KnowsTarget
      <3> QED
        BY <1>1, <1>5, <1>9, <2>2, <3>1 DEF UpdateMemberRole
    <2>3. CASE GetMemberRole(o, t) # "" /\ ~(GetMemberRole(o, t) = "admin" /\ call.role = "member")
      <3>1. KnowsTarget(At(r, "write"), orgs)
        BY <1>1, <1>6, <1>7, <2>3 DEF KnowsTarget, Roles
      <3> QED
        BY <1>1, <1>5, <1>9, <2>3, <3>1 DEF UpdateMemberRole
    <2> QED
      BY <2>1, <2>2, <2>3
  <1>10. CASE r.pc = "admins"
    <2>1. CASE CountAdmins(o) = 1
      BY <1>1, <1>4, <1>10, <2>1 DEF UpdateMemberRole
    <2>2. CASE CountAdmins(o) # 1
      <3>1. Read(p, "write") /\ UNCHANGED <<docs, hist>>
        BY <1>1, <1>10, <2>2 DEF UpdateMemberRole
      <3>2. p \notin stale => RoleIn(orgs, o, t) = "admin"
        BY <1>1, <1>2, <1>10, RequestType DEF IInv, Requests, RequestOK, Knows, KnowsTarget
      <3>3. p \notin stale => OtherAdmin(orgs, o, t)
        BY <1>1, <2>2, <3>2, NotLastAdmin DEF IInv
      <3>4. p \notin stale => Knows(At(r, "write"), orgs, invitations)
        BY <1>1, <1>7, <3>3 DEF Knows, KnowsTarget
      <3> QED
        BY <1>3, <3>1, <3>4, ReadPlain
    <2> QED
      BY <2>1, <2>2
  <1>11. CASE r.pc = "write"
    <2>1. /\ orgs' = WriteRole(o, t, call.role) /\ Finish(p, {o})
          /\ UNCHANGED <<accounts, projects, events, invitations, hist>>
      BY <1>1, <1>11 DEF UpdateMemberRole
    <2>2. Entered(o, t, orgs') /\ (EntriesIn(orgs, o, t) = <<>> => EntriesIn(orgs', o, t) = <<>>)
      BY <1>1, <2>1, WriteRoleIs DEF IInv
    <2> QED
      BY <1>1, <2>1, <2>2, EntryFinished
  <1> QED
    BY <1>1, <1>8, <1>9, <1>10, <1>11 DEF UpdateMemberRole

LEMMA RemoveMemberStep ==
  ASSUME IInv, NEW p \in Procs, Busy(p), RemoveMember(p)
  PROVE  IInv'
  <1> DEFINE r == req[p]
             call == r.call
             o == call.org
             t == call.target
  <1>1. /\ IsRequest(r) /\ call.op = "RemoveMember" /\ Op(p) = "RemoveMember"
        /\ o \in Orgs /\ t \in Users
    BY RequestType, CallTypes DEF RemoveMember, Op, IInv, RemoveMemberReq
  <1>2. r.org = o
    BY <1>1, RequestType DEF IInv, Requests, RequestOK, Shaped, AtOrganization
  <1>3. Op(p) \in Plain /\ {"target", "admins", "write"} \subseteq CallsOf[Op(p)]
    BY <1>1 DEF Plain, CallsOf
  <1>4. ASSUME NEW err, Refuse(p, err), UNCHANGED <<docs, hist>> PROVE IInv'
    BY <1>4, Refused
  <1>5. ASSUME NEW step \in {"target", "admins", "write"}, Read(p, step), UNCHANGED <<docs, hist>>,
               KnowsTarget(At(r, step), orgs)
        PROVE  IInv'
    <2>1. Knows(At(r, step), orgs, invitations)
      BY <1>1, <1>5 DEF Knows, At
    <2> QED
      BY <1>3, <1>5, <2>1, ReadPlain
  <1>6. GetMemberRole(o, t) = RoleIn(orgs, o, t) /\ GetMemberRole(o, t) \in {"", "admin", "member"}
    BY <1>1, EntriesType, AsIn DEF IInv, Collections
  <1>7. \A step : At(r, step).pc = step /\ At(r, step).org = o /\ At(r, step).call = call
    BY <1>2 DEF At
  <1>8. CASE r.pc = "requester"
    <2>1. KnowsTarget(At(r, "target"), orgs)
      BY <1>7 DEF KnowsTarget
    <2> QED
      BY <1>1, <1>4, <1>5, <1>8, <2>1 DEF RemoveMember
  <1>9. CASE r.pc = "target"
    <2>1. CASE GetMemberRole(o, t) = ""
      BY <1>1, <1>4, <1>9, <2>1 DEF RemoveMember
    <2>2. CASE GetMemberRole(o, t) = "admin"
      <3>1. KnowsTarget(At(r, "admins"), orgs)
        BY <1>6, <1>7, <2>2 DEF KnowsTarget
      <3> QED
        BY <1>1, <1>5, <1>9, <2>2, <3>1 DEF RemoveMember
    <2>3. CASE GetMemberRole(o, t) = "member"
      <3>1. KnowsTarget(At(r, "write"), orgs)
        BY <1>1, <1>6, <1>7, <2>3 DEF KnowsTarget
      <3> QED
        BY <1>1, <1>5, <1>9, <2>3, <3>1 DEF RemoveMember
    <2> QED
      BY <1>6, <2>1, <2>2, <2>3
  <1>10. CASE r.pc = "admins"
    <2>1. CASE CountAdmins(o) = 1
      BY <1>1, <1>4, <1>10, <2>1 DEF RemoveMember
    <2>2. CASE CountAdmins(o) # 1
      <3>1. Read(p, "write") /\ UNCHANGED <<docs, hist>>
        BY <1>1, <1>10, <2>2 DEF RemoveMember
      <3>2. p \notin stale => RoleIn(orgs, o, t) = "admin"
        BY <1>1, <1>2, <1>10, RequestType DEF IInv, Requests, RequestOK, Knows, KnowsTarget
      <3>3. p \notin stale => OtherAdmin(orgs, o, t)
        BY <1>1, <2>2, <3>2, NotLastAdmin DEF IInv
      <3>4. p \notin stale => Knows(At(r, "write"), orgs, invitations)
        BY <1>1, <1>7, <3>3 DEF Knows, KnowsTarget
      <3> QED
        BY <1>3, <3>1, <3>4, ReadPlain
    <2> QED
      BY <2>1, <2>2
  <1>11. CASE r.pc = "write"
    <2>1. /\ orgs' = PullMember(o, t) /\ Finish(p, {o})
          /\ UNCHANGED <<accounts, projects, events, invitations, hist>>
      BY <1>1, <1>11 DEF RemoveMember
    <2>2. Entered(o, t, orgs') /\ EntriesIn(orgs', o, t) = <<>>
      BY <1>1, <2>1, PullMemberIs DEF IInv
    <2> QED
      BY <1>1, <2>1, <2>2, EntryFinished
  <1> QED
    BY <1>1, <1>8, <1>9, <1>10, <1>11 DEF RemoveMember
-----------------------------------------------------------------------------
(* Leaving, and the cascade that LeaveOrganization and DeleteAccount share.*)

LEMMA OrganizationDeleted ==
  ASSUME IInv, NEW p \in Procs, NEW x, Becomes(p, x), x = Idle \/ After(x, p \notin stale'),
         NEW o, stale \cup Overtaken(p, {o}) \subseteq stale' \cup {p},
         orgs' = DeleteOrganization(o), o \in loose \/ o \notin projects,
         UNCHANGED <<accounts, projects, events, invitations, hist>>
  PROVE  IInv'
  <1>1. /\ DOMAIN orgs' = DOMAIN orgs \ {o}
        /\ orgs' = [a \in DOMAIN orgs' |-> orgs[a]]
    BY DEF DeleteOrganization, Restrict
  <1>2. orgs' \in [DOMAIN orgs' -> Organization] /\ \A a \in DOMAIN orgs' : orgs'[a] = orgs[a]
    BY <1>1 DEF IInv, Collections
  <1>3. FirstOnly(orgs')
    BY <1>1, <1>2 DEF IInv, Collections, FirstOnly
  <1>4. /\ given' = given /\ late' = late /\ loose' = loose
        /\ DOMAIN orgs' \subseteq Orgs \cap given' /\ given' \subseteq Orgs \cup Invs
        /\ late' \subseteq Users \X Orgs
    BY <1>1 DEF hist, IInv, TypeOK
  <1>5. \A u : EntriesIn(orgs', o, u) = <<>>
    BY <1>1 DEF EntriesIn
  <1>6. /\ \A a : a # o => (a \in DOMAIN orgs <=> a \in DOMAIN orgs')
        /\ \A a \in DOMAIN orgs : a # o => orgs'[a].members = orgs[a].members
    BY <1>1, <1>2
  <1> QED
    BY <1>2, <1>3, <1>4, <1>5, <1>6, OrganizationWritten

LEMMA DataWritten ==
  ASSUME IInv, NEW p \in Procs, NEW x, Becomes(p, x), x = Idle \/ After(x, p \notin stale'),
         stale \subseteq stale' \cup {p},
         UNCHANGED <<accounts, orgs, invitations, late, given>>,
         projects' \subseteq Orgs, events' \subseteq Orgs, loose' \subseteq Orgs, loose \subseteq loose',
         OrphansForAReason',
         \A o \in (projects' \ projects) \cup (events' \ events) : o \in loose' \/ ~Deleting(o)
  PROVE  IInv'
  <1>1. Stored'
    BY DEF IInv, TypeOK, Stored, Organization, Members, Roles, Invitation
  <1>2. Collections' /\ DeletedAccountLeft'
    BY DEF IInv, Collections, DeletedAccountLeft, Entries, FirstOnly, Organization, Members, Roles,
           Invitation
  <1>3. Minds({})
    BY DEF Minds, Same
  <1>4. stale \cup Overtaken(p, {}) \subseteq stale' \cup {p}
    BY DEF Overtaken
  <1> QED
    BY <1>1, <1>2, <1>3, <1>4, Stepped

(* Within the cascade only the next call changes.                          *)
LEMMA CascadeCall ==
  ASSUME IInv, NEW p \in Procs, req[p].pc \in Cascade, NEW step \in Cascade
  PROVE  /\ Busy(p) /\ step \in Steps \ {"idle"} /\ req[p].org \in Orgs
         /\ Op(p) \in {"LeaveOrganization", "DeleteAccount"}
         /\ Shaped(At(req[p], step), invitations, given)
         /\ p \notin stale => Knows(At(req[p], step), orgs, invitations)
         /\ Listed(At(req[p], step), orgs, late)
         /\ Emptied(req[p], projects, events, loose)
         /\ At(req[p], step).pc = step /\ At(req[p], step).org = req[p].org
  <1> DEFINE r == req[p]
             s == At(r, step)
  <1>1. Busy(p) /\ step \in Steps \ {"idle"}
    BY DEF Busy, Cascade, Steps
  <1>2. IsRequest(r) /\ r.call \in Calls /\ RequestOK(r, p \notin stale)
    BY <1>1, RequestType DEF IInv, Requests
  <1>3. r.call.op \in {"LeaveOrganization", "DeleteAccount"}
    <2>1. r.call.op \in DOMAIN FirstStep
      BY <1>2, CallTypes
    <2> QED
      BY <1>2, <2>1 DEF RequestOK, Shaped, CallsOf, Cascade, FirstStep
  <1>4. s.call = r.call /\ s.pc = step /\ s.org = r.org /\ s.left = r.left
    BY DEF At
  <1>5. r.org \in Orgs
    BY <1>2, <1>3 DEF RequestOK, Shaped, LeavesOne, DeletesListed, IsRequest
  <1>6. step \in CallsOf[r.call.op]
    BY <1>3 DEF CallsOf
  <1> HIDE DEF s
  <1>7. Shaped(s, invitations, given)
    BY <1>2, <1>3, <1>4, <1>6 DEF RequestOK, Shaped, LeavesOne, DeletesListed, AtOrganization, Cascade
  <1>8. ASSUME p \notin stale PROVE Knows(s, orgs, invitations)
    <2>1. Knows(r, orgs, invitations)
      BY <1>2, <1>8 DEF RequestOK
    <2> QED
      BY <1>3, <1>4, <2>1 DEF Knows, KnowsLeaver, KnowsListed, Cascade
  <1>9. Listed(s, orgs, late)
    BY <1>2, <1>4 DEF RequestOK, Listed, Cascade
  <1> QED
    BY <1>1, <1>2, <1>3, <1>4, <1>5, <1>7, <1>8, <1>9 DEF RequestOK, s, Op

LEMMA DeleteEventsStep ==
  ASSUME IInv, NEW p \in Procs, Busy(p), DeleteEventsByOrganization(p)
  PROVE  IInv'
  <1> DEFINE o == req[p].org
  <1>1. ASSUME NEW step \in Cascade, req[p].pc = "projects", Read(p, step), UNCHANGED <<docs, hist>>,
               step = "delete_projects" => o \notin projects, step # "delete_org"
        PROVE  IInv'
    <2>1. req[p].pc \in Cascade
      BY <1>1 DEF Cascade
    <2>2. Emptied(At(req[p], step), projects, events, loose)
      BY <1>1, <2>1, CascadeCall DEF Emptied, IInv, OrphansForAReason
    <2> QED
      BY <1>1, <2>1, <2>2, CascadeCall, ReadOn DEF RequestOK
  <1>2. CASE req[p].pc = "projects"
    <2>1. {"delete_events", "delete_projects"} \subseteq Cascade
      BY DEF Cascade
    <2> QED
      BY <1>1, <1>2, <2>1 DEF DeleteEventsByOrganization
  <1>3. CASE req[p].pc = "delete_events"
    <2> DEFINE s == At(req[p], "delete_projects")
    <2>1. /\ events' = events \ {o} /\ Read(p, "delete_projects")
          /\ UNCHANGED <<accounts, orgs, projects, invitations, hist>>
      BY <1>3 DEF DeleteEventsByOrganization
    <2>2. req[p].pc \in Cascade /\ "delete_projects" \in Cascade /\ "delete_projects" \in Steps \ {"idle"}
      BY <1>3 DEF Cascade, Steps
    <2>3. stale' = stale /\ stale' \subseteq Procs /\ Becomes(p, s)
      BY <2>1, <2>2, Going DEF Read, IInv, TypeOK
    <2>4. Emptied(s, projects', events', loose')
      BY <2>1, <2>2, CascadeCall DEF Emptied
    <2>5. After(s, p \notin stale')
      BY <2>1, <2>2, <2>3, <2>4, CascadeCall DEF After, hist
    <2>6. events' \subseteq Orgs /\ projects' \subseteq Orgs /\ loose' \subseteq Orgs /\ loose' = loose
      BY <2>1 DEF IInv, TypeOK, hist
    <2>7. OrphansForAReason'
      BY <2>1, <2>6 DEF IInv, OrphansForAReason
    <2> HIDE DEF s
    <2> QED
      BY <2>1, <2>3, <2>5, <2>6, <2>7, DataWritten DEF hist
  <1> QED
    BY <1>2, <1>3 DEF DeleteEventsByOrganization

LEMMA DeleteProjectsStep ==
  ASSUME IInv, NEW p \in Procs, Busy(p), DeleteProjectsByOrganization(p)
  PROVE  IInv'
  <1> DEFINE o == req[p].org
             s == At(req[p], "delete_org")
  <1>1. /\ projects' = projects \ {o} /\ Read(p, "delete_org")
        /\ UNCHANGED <<accounts, orgs, events, invitations, hist>>
    BY DEF DeleteProjectsByOrganization
  <1>2. req[p].pc \in Cascade /\ "delete_org" \in Cascade /\ "delete_org" \in Steps \ {"idle"}
    BY DEF DeleteProjectsByOrganization, Cascade, Steps
  <1>3. stale' = stale /\ stale' \subseteq Procs /\ Becomes(p, s)
    BY <1>1, <1>2, Going DEF Read, IInv, TypeOK
  <1>4. o \notin loose => o \notin events
    BY <1>2, CascadeCall DEF Emptied, DeleteProjectsByOrganization
  <1>5. Emptied(s, projects', events', loose')
    BY <1>1, <1>2, <1>4, CascadeCall DEF Emptied, hist
  <1>6. After(s, p \notin stale')
    BY <1>1, <1>2, <1>3, <1>5, CascadeCall DEF After, hist
  <1>7. events' \subseteq Orgs /\ projects' \subseteq Orgs /\ loose' \subseteq Orgs /\ loose' = loose
    BY <1>1 DEF IInv, TypeOK, hist
  <1>8. OrphansForAReason'
    BY <1>1, <1>4, <1>7 DEF IInv, OrphansForAReason
  <1> HIDE DEF s
  <1> QED
    BY <1>1, <1>3, <1>6, <1>7, <1>8, DataWritten DEF hist

LEMMA ReadLeaves ==
  ASSUME IInv, NEW p \in Procs, Busy(p), NEW step, Read(p, step), Op(p) = "LeaveOrganization",
         step \in CallsOf["LeaveOrganization"] \ {"delete_projects", "delete_org"},
         UNCHANGED <<docs, hist>>, LeavesOne(At(req[p], step)),
         p \notin stale => KnowsLeaver(At(req[p], step), orgs)
  PROVE  IInv'
  <1> DEFINE r == req[p]
             s == At(req[p], step)
  <1>1. IsRequest(r) /\ Shaped(r, invitations, given) /\ r.call.op = "LeaveOrganization"
    BY RequestType DEF IInv, Requests, RequestOK, Op
  <1>2. step \in Steps \ {"idle"}
    BY CallsAreSteps DEF CallsOf
  <1>3. s.call = r.call /\ s.pc = step /\ s.org = r.org
    BY DEF At
  <1> HIDE DEF s
  <1>4. Shaped(s, invitations, given)
    BY <1>1, <1>3 DEF Shaped, s
  <1>5. /\ p \notin stale => Knows(s, orgs, invitations)
        /\ Listed(s, orgs, late) /\ Emptied(s, projects, events, loose)
    BY <1>1, <1>3 DEF Knows, Listed, Emptied, s
  <1> QED
    BY <1>2, <1>4, <1>5, ReadOn DEF RequestOK, s

LEMMA LeaveOrganizationStep ==
  ASSUME IInv, NEW p \in Procs, Busy(p), LeaveOrganization(p)
  PROVE  IInv'
  <1> DEFINE r == req[p]
             call == r.call
             o == call.org
             u == call.by
  <1>1. /\ IsRequest(r) /\ call.op = "LeaveOrganization" /\ Op(p) = "LeaveOrganization"
        /\ o \in Orgs /\ u \in Users
    BY RequestType, CallTypes DEF LeaveOrganization, Op, IInv, LeaveOrganizationReq
  <1>2. /\ r.org = o /\ LeavesOne(r) /\ Shaped(r, invitations, given)
        /\ p \notin stale => KnowsLeaver(r, orgs)
        /\ Emptied(r, projects, events, loose)
    BY <1>1, RequestType DEF IInv, Requests, RequestOK, Shaped, AtOrganization, Knows
  <1>3. ASSUME NEW err, Refuse(p, err), UNCHANGED <<docs, hist>> PROVE IInv'
    BY <1>3, Refused
  <1>4. GetMemberRole(o, u) = RoleIn(orgs, o, u) /\ GetMemberRole(o, u) \in {"", "admin", "member"}
    BY <1>1, EntriesType, AsIn DEF IInv, Collections
  <1>5. \A step : /\ At(r, step).pc = step /\ At(r, step).org = o /\ At(r, step).call = call
                  /\ At(r, step).left = r.left
    BY <1>2 DEF At
  <1>6. {"org", "org_as_admin", "admins", "count", "write", "projects"} \subseteq
          CallsOf["LeaveOrganization"] \ {"delete_projects", "delete_org"}
    BY DEF CallsOf, Cascade
  <1>7. CASE r.pc = "requester"
    <2>1. CASE GetMemberRole(o, u) = ""
      BY <1>1, <1>3, <1>7, <2>1 DEF LeaveOrganization
    <2>2. ASSUME NEW step \in {"org", "org_as_admin"}, Read(p, step), UNCHANGED <<docs, hist>>,
                 step = "org" => GetMemberRole(o, u) = "member",
                 step = "org_as_admin" => GetMemberRole(o, u) = "admin"
          PROVE  IInv'
      <3>1. LeavesOne(At(r, step)) /\ KnowsLeaver(At(r, step), orgs)
        BY <1>4, <1>5, <2>2 DEF LeavesOne, KnowsLeaver, Cascade
      <3> QED
        BY <1>1, <1>6, <2>2, <3>1, ReadLeaves
    <2>3. CASE GetMemberRole(o, u) = "member"
      BY <1>1, <1>7, <2>2, <2>3 DEF LeaveOrganization
    <2>4. CASE GetMemberRole(o, u) = "admin"
      BY <1>1, <1>7, <2>2, <2>4 DEF LeaveOrganization
    <2> QED
      BY <1>4, <2>1, <2>3, <2>4
  <1>8. CASE r.pc \in {"org", "org_as_admin"}
    <2>1. CASE o \notin DOMAIN orgs
      BY <1>1, <1>3, <1>8, <2>1 DEF LeaveOrganization
    <2>2. CASE o \in DOMAIN orgs
      <3> DEFINE left == [a \in {o} |-> CountMembers(a)]
                 step == IF r.pc = "org_as_admin" THEN "admins" ELSE "count"
                 x == [call |-> call, pc |-> step, org |-> r.org, left |-> left]
      <3>1. /\ req' = [req EXCEPT ![p].left = left, ![p].pc = step]
            /\ UNCHANGED <<answer, served, stale>> /\ UNCHANGED <<docs, hist>>
        BY <1>1, <1>8, <2>2 DEF LeaveOrganization
      <3>2. DOMAIN left = {o} /\ left[o] = Count(orgs, o) /\ left[o] \in Nat
        BY <2>2, AsIn, CountType DEF IInv, Collections
      <3>3. step \in Steps \ {"idle"} /\ step \in CallsOf["LeaveOrganization"] /\ step \in {"admins", "count"}
        BY DEF Steps, CallsOf
      <3> HIDE DEF left, step
      <3>4. x.call = call /\ x.pc = step /\ x.org = o /\ x.left = left
        BY <1>2
      <3>5. IsRequest(x)
        BY <1>1, <1>2, <3>2, <3>3 DEF IsRequest
      <3>6. [r EXCEPT !.left = left, !.pc = step] = x
        BY <1>1, WithLeft
      <3> HIDE DEF x
      <3>7. Becomes(p, x)
        BY <3>1, <3>5, <3>6 DEF Becomes, IInv, TypeOK
      <3>8. RequestOK(x, p \notin stale')
        <4>1. LeavesOne(x)
          BY <3>2, <3>3, <3>4 DEF LeavesOne, Cascade
        <4>2. Shaped(x, invitations, given)
          BY <1>1, <3>3, <3>4, <4>1 DEF Shaped
        <4>3. ASSUME p \notin stale PROVE KnowsLeaver(x, orgs)
          <5>1. RoleIn(orgs, o, u) = IF step = "admins" THEN "admin" ELSE "member"
            BY <1>2, <1>8, <4>3 DEF KnowsLeaver, step
          <5> QED
            BY <2>2, <3>2, <3>3, <3>4, <5>1 DEF KnowsLeaver, Cascade
        <4>4. Listed(x, orgs, late) /\ Emptied(x, projects, events, loose)
          BY <1>1, <3>3, <3>4 DEF Listed, Emptied
        <4> QED
          BY <1>1, <3>1, <3>4, <4>2, <4>3, <4>4 DEF RequestOK, Knows
      <3> QED
        BY <3>1, <3>7, <3>8, Quiet
    <2> QED
      BY <2>1, <2>2
  <1>9. CASE r.pc = "admins"
    <2>1. CASE CountAdmins(o) = 1 /\ r.left[o] > 1
      BY <1>1, <1>3, <1>9, <2>1 DEF LeaveOrganization
    <2>2. CASE ~(CountAdmins(o) = 1 /\ r.left[o] > 1)
      <3>1. Read(p, "count") /\ UNCHANGED <<docs, hist>>
        BY <1>1, <1>9, <2>2 DEF LeaveOrganization
      <3>2. LeavesOne(At(r, "count"))
        BY <1>2, <1>5, <1>9 DEF LeavesOne, Cascade
      <3>3. ASSUME p \notin stale PROVE KnowsLeaver(At(r, "count"), orgs)
        <4>1. KnowsLeaver(r, orgs)
          BY <1>2, <3>3
        <4>2. RoleIn(orgs, o, u) = "admin" /\ o \in DOMAIN orgs /\ r.left[o] = Count(orgs, o)
          BY <1>2, <1>9, <4>1 DEF KnowsLeaver
        <4>3. r.left[o] \in Nat
          BY <4>2, CountType DEF IInv, Collections
        <4>4. OtherAdmin(orgs, o, u) \/ r.left[o] <= 1
          BY <1>1, <2>2, <4>2, <4>3, NotLastAdmin DEF IInv
        <4> QED
          BY <1>5, <4>2, <4>4 DEF KnowsLeaver, Cascade
      <3>4. "count" \in CallsOf["LeaveOrganization"] \ {"delete_projects", "delete_org"}
        BY <1>6
      <3> QED
        BY <1>1, <3>1, <3>2, <3>3, <3>4, ReadLeaves
    <2> QED
      BY <2>1, <2>2
  <1>10. CASE r.pc = "count"
    <2>1. ASSUME NEW step \in {"projects", "write"}, Read(p, step), UNCHANGED <<docs, hist>>,
                 step = "projects" <=> r.left[o] = 1
          PROVE  IInv'
      <3>1. LeavesOne(At(r, step))
        BY <1>2, <1>5, <1>10, <2>1 DEF LeavesOne, Cascade
      <3>2. p \notin stale => KnowsLeaver(At(r, step), orgs)
        BY <1>2, <1>5, <1>10, <2>1 DEF KnowsLeaver, Cascade
      <3> QED
        BY <1>1, <1>6, <2>1, <3>1, <3>2, ReadLeaves
    <2> QED
      BY <1>1, <1>10, <2>1 DEF LeaveOrganization
  <1>11. CASE r.pc = "delete_org"
    <2>1. /\ orgs' = DeleteOrganization(o) /\ Finish(p, {o})
          /\ UNCHANGED <<accounts, projects, events, invitations, hist>>
      BY <1>1, <1>11 DEF LeaveOrganization
    <2>2. o \in loose \/ o \notin projects
      BY <1>2, <1>11 DEF Emptied
    <2> QED
      BY <2>1, <2>2, Finished, OrganizationDeleted
  <1>12. CASE r.pc = "write"
    <2>1. /\ orgs' = PullMember(o, u) /\ Finish(p, {o})
          /\ UNCHANGED <<accounts, projects, events, invitations, hist>>
      BY <1>1, <1>12 DEF LeaveOrganization
    <2>2. Entered(o, u, orgs') /\ EntriesIn(orgs', o, u) = <<>>
      BY <1>1, <2>1, PullMemberIs, SMTT(60) DEF IInv
    <2> QED
      BY <1>1, <2>1, <2>2, EntryFinished
  <1> QED
    BY <1>1, <1>7, <1>8, <1>9, <1>10, <1>11, <1>12 DEF LeaveOrganization
-----------------------------------------------------------------------------
(* Account deletion.                                                       *)

(* What the loop of DeleteAccount makes of its request.                    *)
Turned(r, x, left) ==
  /\ x.call = r.call /\ x.left = left /\ x.pc \in {"user", "projects", "write"}
  /\ x.pc = "user" => DOMAIN left = {}
  /\ x.pc # "user" => x.org \in DOMAIN left
  /\ x.pc = "projects" => left[x.org] = 1

LEMMA NextOrganizationIs ==
  ASSUME IInv, NEW p \in Procs, Busy(p), NEW left, DOMAIN left \subseteq Orgs,
         \A o \in DOMAIN left : left[o] \in Nat, NEW changed, NextOrganization(p, left, changed)
  PROVE  /\ stale' = stale \cup Overtaken(p, changed) /\ stale' \subseteq Procs
         /\ \E x : Becomes(p, x) /\ Turned(req[p], x, left)
  <1> DEFINE r == req[p]
  <1>1. stale' = stale \cup Overtaken(p, changed) /\ stale' \subseteq Procs
    BY DEF NextOrganization, Overtaken, IInv, TypeOK
  <1>2. IsRequest(r)
    BY RequestType DEF IInv
  <1>3. ASSUME NEW step \in {"user", "projects", "write"}, NEW o \in Orgs \cup {NoOrg},
               req' = [req EXCEPT ![p] = [call |-> r.call, pc |-> step, org |-> o, left |-> left]],
               step = "user" => DOMAIN left = {}, step # "user" => o \in DOMAIN left,
               step = "projects" => left[o] = 1
        PROVE  \E x : Becomes(p, x) /\ Turned(r, x, left)
    <2> DEFINE x == [call |-> r.call, pc |-> step, org |-> o, left |-> left]
    <2>1. x.call = r.call /\ x.pc = step /\ x.org = o /\ x.left = left
      OBVIOUS
    <2>2. IsRequest(x)
      <3>1. step \in Steps \ {"idle"}
        BY DEF Steps
      <3> QED
        BY <1>2, <3>1 DEF IsRequest
    <2> HIDE DEF x
    <2>3. Turned(r, x, left)
      BY <1>3, <2>1 DEF Turned
    <2>4. Becomes(p, x)
      BY <1>1, <1>3, <2>2 DEF Becomes, NextOrganization, IInv, TypeOK, x
    <2> QED
      BY <2>3, <2>4
  <1>4. CASE left = <<>> /\ req' = [req EXCEPT ![p].pc = "user", ![p].left = <<>>]
    <2>1. req' = [req EXCEPT ![p] = [call |-> r.call, pc |-> "user", org |-> r.org, left |-> left]]
      <3>1. [r EXCEPT !.pc = "user", !.left = left] =
              [call |-> r.call, pc |-> "user", org |-> r.org, left |-> left]
        BY <1>2, WithLeft
      <3> QED
        BY <1>4, <3>1
    <2>2. r.org \in Orgs \cup {NoOrg} /\ DOMAIN left = {}
      BY <1>2, <1>4 DEF IsRequest
    <2> QED
      BY <1>1, <1>3, <2>1, <2>2
  <1>5. ASSUME NEW o \in DOMAIN left,
               req' = [req EXCEPT ![p].org = o, ![p].left = left,
                                  ![p].pc = IF left[o] = 1 THEN "projects" ELSE "write"]
        PROVE  \E x : Becomes(p, x) /\ Turned(r, x, left)
    <2> DEFINE step == IF left[o] = 1 THEN "projects" ELSE "write"
    <2>1. req' = [req EXCEPT ![p] = [call |-> r.call, pc |-> step, org |-> o, left |-> left]]
      <3> HIDE DEF step
      <3>1. [r EXCEPT !.org = o, !.left = left, !.pc = step] =
              [call |-> r.call, pc |-> step, org |-> o, left |-> left]
        BY <1>2, WithAll
      <3>2. req' = [req EXCEPT ![p].org = o, ![p].left = left, ![p].pc = step]
        BY <1>5 DEF step
      <3> QED
        BY <3>1, <3>2
    <2> QED
      BY <1>3, <2>1
  <1> QED
    BY <1>1, <1>4, <1>5 DEF NextOrganization

LEMMA DeleteAccountStep ==
  ASSUME IInv, NEW p \in Procs, Busy(p), DeleteAccount(p)
  PROVE  IInv'
  <1> DEFINE r == req[p]
             u == r.call.by
             o == r.org
             rest == Restrict(r.left, DOMAIN r.left \ {o})
  <1>1. /\ IsRequest(r) /\ r.call.op = "DeleteAccount" /\ Op(p) = "DeleteAccount" /\ u \in Users
        /\ r.call \in Calls
    BY RequestType, CallTypes DEF DeleteAccount, Op, IInv, DeleteAccountReq
  <1>2. /\ Shaped(r, invitations, given) /\ DeletesListed(r)
        /\ p \notin stale => KnowsListed(r, orgs)
        /\ Listed(r, orgs, late) /\ Emptied(r, projects, events, loose)
    BY <1>1, RequestType DEF IInv, Requests, RequestOK, Shaped, Knows
  <1>3. ASSUME NEW x, NEW left, Turned(r, x, left), NEW fresh,
               fresh => \A a \in DOMAIN left : a \in DOMAIN orgs' /\ left[a] = Count(orgs', a),
               \A a \in Orgs : EntriesIn(orgs', a, u) # <<>> => a \in DOMAIN left \/ <<u, a>> \in late'
        PROVE  After(x, fresh)
    <2>1. x.call = r.call /\ x.left = left /\ x.pc \in {"user", "projects", "write"}
      BY <1>3 DEF Turned
    <2>2. Shaped(x, invitations', given')
      <3>1. x.pc \in CallsOf["DeleteAccount"]
        BY <2>1 DEF CallsOf, Cascade
      <3>2. DeletesListed(x)
        BY <1>3, <2>1 DEF Turned, DeletesListed, Cascade
      <3> QED
        BY <1>1, <2>1, <3>1, <3>2 DEF Shaped, AtOrganization
    <2>3. fresh => Knows(x, orgs', invitations')
      BY <1>1, <1>3, <2>1 DEF Knows, KnowsListed
    <2>4. Listed(x, orgs', late') /\ Emptied(x, projects', events', loose')
      BY <1>3, <2>1 DEF Listed, Emptied
    <2> QED
      BY <2>2, <2>3, <2>4 DEF After
  <1>4. CASE r.pc = "account"
    <2>1. CASE u \notin accounts
      BY <1>1, <1>4, <2>1, Refused DEF DeleteAccount
    <2>2. CASE u \in accounts
      <3>1. Read(p, "list") /\ UNCHANGED <<docs, hist>>
        BY <1>1, <1>4, <2>2 DEF DeleteAccount
      <3> DEFINE s == At(r, "list")
      <3>2. s.call = r.call /\ s.pc = "list"
        BY DEF At
      <3> HIDE DEF s
      <3>3. Shaped(s, invitations, given)
        <4>1. "list" \in CallsOf["DeleteAccount"]
          BY DEF CallsOf
        <4> QED
          BY <1>1, <3>2, <4>1 DEF Shaped, AtOrganization, DeletesListed, Cascade
      <3>4. /\ Knows(s, orgs, invitations) /\ Listed(s, orgs, late)
            /\ Emptied(s, projects, events, loose)
        BY <1>1, <3>2 DEF Knows, KnowsListed, Listed, Emptied
      <3>5. "list" \in Steps \ {"idle"}
        BY DEF Steps
      <3> QED
        BY <3>1, <3>3, <3>4, <3>5, ReadOn DEF RequestOK, s
    <2> QED
      BY <2>1, <2>2
  <1>5. CASE r.pc = "list"
    <2> DEFINE left == [x \in GetUserOrganizations(u) |-> CountMembers(x)]
    <2>1. NextOrganization(p, left, {}) /\ UNCHANGED <<docs, hist>>
      BY <1>1, <1>5 DEF DeleteAccount
    <2>2. /\ DOMAIN left = {a \in DOMAIN orgs : EntriesIn(orgs, a, u) # <<>>}
          /\ \A a \in DOMAIN left : left[a] = Count(orgs, a)
      BY AsIn DEF GetUserOrganizations
    <2>3. DOMAIN left \subseteq Orgs /\ \A a \in DOMAIN left : left[a] \in Nat
      BY <2>2, CountType DEF IInv, TypeOK, Collections
    <2>4. \A a : EntriesIn(orgs, a, u) # <<>> => a \in DOMAIN left
      BY <2>2 DEF EntriesIn
    <2> HIDE DEF left
    <2>5. /\ stale' = stale \cup Overtaken(p, {})
          /\ \E x : Becomes(p, x) /\ Turned(r, x, left)
      BY <2>1, <2>3, NextOrganizationIs
    <2>6. PICK x : Becomes(p, x) /\ Turned(r, x, left)
      BY <2>5
    <2>7. After(x, p \notin stale')
      BY <1>3, <2>1, <2>2, <2>4, <2>6 DEF docs
    <2>8. RequestOK(x, p \notin stale')
      BY <2>1, <2>7 DEF After, RequestOK, docs, hist
    <2> QED
      BY <2>1, <2>5, <2>6, <2>8, Quiet
  <1>6. ASSUME r.pc \in {"delete_org", "write"}
        PROVE  /\ DOMAIN rest = DOMAIN r.left \ {o} /\ \A a \in DOMAIN rest : rest[a] = r.left[a]
               /\ DOMAIN rest \subseteq Orgs /\ \A a \in DOMAIN rest : rest[a] \in Nat
               /\ o \in Orgs
    BY <1>1, <1>2, <1>6 DEF Restrict, IsRequest, DeletesListed, Cascade
  <1>7. ASSUME r.pc \in {"delete_org", "write"}, NextOrganization(p, rest, {o}),
               \A a \in DOMAIN orgs : a # o => a \in DOMAIN orgs' /\ orgs'[a] = orgs[a],
               \A a : a # o /\ a \in DOMAIN orgs' => a \in DOMAIN orgs,
               EntriesIn(orgs', o, u) = <<>>, UNCHANGED hist
        PROVE  \E x : /\ Becomes(p, x) /\ After(x, p \notin stale')
                      /\ stale \cup Overtaken(p, {o}) \subseteq stale' \cup {p}
    <2> HIDE DEF rest
    <2>1. /\ stale' = stale \cup Overtaken(p, {o})
          /\ \E x : Becomes(p, x) /\ Turned(r, x, rest)
      BY <1>6, <1>7, NextOrganizationIs
    <2>2. PICK x : Becomes(p, x) /\ Turned(r, x, rest)
      BY <2>1
    <2>3. ASSUME p \notin stale', NEW a \in DOMAIN rest
          PROVE  a \in DOMAIN orgs' /\ rest[a] = Count(orgs', a)
      <3>1. KnowsListed(r, orgs) /\ a \in DOMAIN r.left /\ a # o
        BY <1>2, <1>6, <1>7, <2>1, <2>3
      <3>2. a \in DOMAIN orgs /\ r.left[a] = Count(orgs, a)
        BY <1>7, <3>1 DEF KnowsListed
      <3> QED
        BY <1>6, <1>7, <3>1, <3>2 DEF Count
    <2>4. ASSUME NEW a \in Orgs, EntriesIn(orgs', a, u) # <<>>
          PROVE  a \in DOMAIN rest \/ <<u, a>> \in late'
      <3>1. a # o /\ EntriesIn(orgs, a, u) # <<>>
        BY <1>7, <2>4 DEF EntriesIn
      <3>2. a \in DOMAIN r.left \/ <<u, a>> \in late
        BY <1>1, <1>2, <1>7, <3>1 DEF Listed
      <3> QED
        BY <1>6, <1>7, <3>1, <3>2 DEF hist
    <2>5. After(x, p \notin stale')
      BY <1>3, <2>2, <2>3, <2>4
    <2> QED
      BY <2>1, <2>2, <2>5
  <1>8. CASE r.pc = "delete_org"
    <2>1. /\ orgs' = DeleteOrganization(o) /\ NextOrganization(p, rest, {o})
          /\ UNCHANGED <<accounts, projects, events, invitations, hist>>
      BY <1>1, <1>8 DEF DeleteAccount
    <2>2. /\ \A a \in DOMAIN orgs : a # o => a \in DOMAIN orgs' /\ orgs'[a] = orgs[a]
          /\ \A a : a # o /\ a \in DOMAIN orgs' => a \in DOMAIN orgs
          /\ EntriesIn(orgs', o, u) = <<>>
      BY <2>1 DEF DeleteOrganization, Restrict, EntriesIn
    <2>3. o \in loose \/ o \notin projects
      BY <1>2, <1>8 DEF Emptied
    <2>4. PICK x : /\ Becomes(p, x) /\ After(x, p \notin stale')
                   /\ stale \cup Overtaken(p, {o}) \subseteq stale' \cup {p}
      <3> HIDE DEF rest
      <3> QED
        BY <1>7, <1>8, <2>1, <2>2
    <2> QED
      BY <2>1, <2>3, <2>4, OrganizationDeleted
  <1>9. CASE r.pc = "write"
    <2>1. /\ orgs' = PullMember(o, u) /\ NextOrganization(p, rest, {o})
          /\ UNCHANGED <<accounts, projects, events, invitations, hist>>
      BY <1>1, <1>9 DEF DeleteAccount
    <2>2. Entered(o, u, orgs') /\ EntriesIn(orgs', o, u) = <<>>
      BY <1>1, <2>1, PullMemberIs DEF IInv
    <2>3. PICK x : /\ Becomes(p, x) /\ After(x, p \notin stale')
                   /\ stale \cup Overtaken(p, {o}) \subseteq stale' \cup {p}
      <3> HIDE DEF rest
      <3> QED
        BY <1>7, <1>9, <2>1, <2>2 DEF Entered
    <2>4. late' = late /\ late' \subseteq Users \X Orgs /\ UNCHANGED <<loose, given>>
      BY <2>1 DEF hist, IInv, TypeOK
    <2> QED
      BY <1>1, <2>1, <2>2, <2>3, <2>4, EntryWritten
  <1>10. CASE r.pc = "user"
    <2>1. /\ accounts' = accounts \ {u} /\ Finish(p, {})
          /\ UNCHANGED <<orgs, projects, events, invitations, hist>>
      BY <1>1, <1>10 DEF DeleteAccount
    <2>2. Becomes(p, Idle) /\ stale \cup Overtaken(p, {}) \subseteq stale' \cup {p}
      BY <2>1, Finished
    <2>3. Stored'
      BY <2>1 DEF IInv, TypeOK, Stored, Organization, Members, Roles, Invitation, hist
    <2>4. Collections' /\ OrphansForAReason'
      BY <2>1 DEF IInv, Collections, FirstOnly, Organization, Members, Roles, Invitation,
                  OrphansForAReason, hist
    <2>5. DeletedAccountLeft'
      <3>1. \A v \in Users \ accounts', a \in Orgs : EntriesIn(orgs, a, v) # <<>> => <<v, a>> \in late
        <4> SUFFICES ASSUME NEW v \in Users \ accounts', NEW a \in Orgs, EntriesIn(orgs, a, v) # <<>>
                     PROVE  <<v, a>> \in late
          OBVIOUS
        <4>1. CASE v = u
          BY <1>1, <1>2, <1>10, <4>1 DEF Listed, DeletesListed
        <4>2. CASE v # u
          BY <2>1, <4>2, AsIn DEF IInv, DeletedAccountLeft
        <4> QED
          BY <4>1, <4>2
      <3> QED
        BY <2>1, <3>1 DEF DeletedAccountLeft, Entries, EntriesIn, hist
    <2>6. Minds({})
      BY <2>1 DEF Minds, Same, hist
    <2> QED
      BY <2>2, <2>3, <2>4, <2>5, <2>6, Stepped
  <1> QED
    BY <1>1, <1>4, <1>5, <1>8, <1>9, <1>10 DEF DeleteAccount
-----------------------------------------------------------------------------
(* Invitations.                                                            *)

LEMMA InvitationsWritten ==
  ASSUME IInv, NEW p \in Procs, NEW o, Finish(p, {o}),
         UNCHANGED <<accounts, orgs, projects, events, loose, late>>,
         invitations' \in [DOMAIN invitations' -> Invitation], IsFiniteSet(DOMAIN invitations'),
         DOMAIN invitations' \subseteq Invs \cap given',
         given \subseteq given', given' \subseteq Orgs \cup Invs,
         \A i \in given \cap DOMAIN invitations' :
            /\ i \in DOMAIN invitations
            /\ invitations'[i].org = invitations[i].org
            /\ invitations'[i].email = invitations[i].email,
         \A i \in DOMAIN invitations : invitations[i].org # o =>
            i \in DOMAIN invitations' /\ invitations'[i] = invitations[i],
         \A i \in DOMAIN invitations' : invitations'[i].org # o =>
            i \in DOMAIN invitations /\ invitations[i] = invitations'[i]
  PROVE  IInv'
  <1>1. Becomes(p, Idle) /\ stale \cup Overtaken(p, {o}) \subseteq stale' \cup {p}
    BY Finished
  <1>2. Stored'
    BY DEF IInv, TypeOK, Stored, Organization, Members, Roles, Invitation
  <1>3. Collections'
    BY DEF IInv, Collections, FirstOnly, Organization, Members, Roles, Invitation
  <1>4. OrphansForAReason' /\ DeletedAccountLeft'
    BY DEF IInv, OrphansForAReason, DeletedAccountLeft, Entries
  <1>5. Minds({o})
    <2>1. \A a \in (Orgs \cup {NoOrg}) \ {o} : Same(a, orgs, invitations, orgs', invitations')
      BY DEF Same
    <2> QED
      BY <2>1 DEF Minds
  <1> QED
    BY <1>1, <1>2, <1>3, <1>4, <1>5, Stepped

LEMMA CreateInvitationStep ==
  ASSUME IInv, NEW p \in Procs, Busy(p), CreateInvitation(p)
  PROVE  IInv'
  <1> DEFINE r == req[p]
             call == r.call
             o == call.org
             t == call.target
  <1>1. /\ IsRequest(r) /\ call.op = "CreateInvitation" /\ Op(p) = "CreateInvitation"
        /\ o \in Orgs /\ t \in Users /\ call.by \in Users
    BY RequestType, CallTypes DEF CreateInvitation, Op, IInv, CreateInvitationReq
  <1>2. r.org = o
    BY <1>1, RequestType DEF IInv, Requests, RequestOK, Shaped, AtOrganization
  <1>3. Op(p) \in Plain /\ {"members", "inviter", "pending", "create"} \subseteq CallsOf[Op(p)]
    BY <1>1 DEF Plain, CallsOf
  <1>4. ASSUME NEW err, Refuse(p, err), UNCHANGED <<docs, hist>> PROVE IInv'
    BY <1>4, Refused
  <1>5. ASSUME NEW step \in {"members", "inviter", "pending", "create"}, Read(p, step),
               UNCHANGED <<docs, hist>>, step = "create" => Pending(t, o) = {}
        PROVE  IInv'
    <2>1. Knows(At(r, step), orgs, invitations)
      BY <1>1, <1>2, <1>5, AsIn DEF Knows, At
    <2> QED
      BY <1>3, <1>5, <2>1, ReadPlain
  <1>6. CASE r.pc = "requester"
    BY <1>1, <1>4, <1>5, <1>6 DEF CreateInvitation
  <1>7. CASE r.pc = "members"
    BY <1>1, <1>4, <1>5, <1>7 DEF CreateInvitation
  <1>8. CASE r.pc = "inviter"
    BY <1>1, <1>4, <1>5, <1>8 DEF CreateInvitation
  <1>9. CASE r.pc = "pending"
    BY <1>1, <1>4, <1>5, <1>9 DEF CreateInvitation
  <1>10. CASE r.pc = "create"
    <2> DEFINE doc == [org |-> o, email |-> t, status |-> "pending"]
    <2>1. PICK i \in Invs \ given : /\ invitations' = Insert(invitations, i, doc)
                                    /\ given' = given \cup {i}
      BY <1>1, <1>10 DEF CreateInvitation
    <2>2. Finish(p, {o}) /\ UNCHANGED <<accounts, orgs, projects, events, loose, late>>
      BY <1>1, <1>10 DEF CreateInvitation
    <2>3. doc \in Invitation /\ doc.org = o
      BY <1>1 DEF Invitation
    <2> HIDE DEF doc
    <2>4. /\ invitations \in [DOMAIN invitations -> Invitation] /\ IsFiniteSet(DOMAIN invitations)
          /\ DOMAIN invitations \subseteq Invs \cap given /\ given \subseteq Orgs \cup Invs
      BY DEF IInv, Collections, TypeOK
    <2>5. /\ DOMAIN invitations' = DOMAIN invitations \cup {i}
          /\ \A j \in DOMAIN invitations' :
               invitations'[j] = IF j = i THEN doc ELSE invitations[j]
          /\ invitations' = [j \in DOMAIN invitations' |-> invitations'[j]]
      BY <2>1 DEF Insert
    <2>6. invitations' \in [DOMAIN invitations' -> Invitation]
      BY <2>3, <2>4, <2>5
    <2>7. IsFiniteSet(DOMAIN invitations')
      BY <2>4, <2>5, FS_AddElement
    <2>8. /\ DOMAIN invitations' \subseteq Invs \cap given' /\ given \subseteq given'
          /\ given' \subseteq Orgs \cup Invs
      BY <2>1, <2>4, <2>5
    <2>9. /\ \A j \in DOMAIN invitations : j # i /\ j \in DOMAIN invitations' /\ invitations'[j] = invitations[j]
          /\ \A j \in DOMAIN invitations' : j # i => j \in DOMAIN invitations
          /\ invitations'[i].org = o /\ i \notin given
      BY <2>1, <2>3, <2>4, <2>5
    <2> QED
      BY <2>2, <2>6, <2>7, <2>8, <2>9, InvitationsWritten
  <1> QED
    BY <1>1, <1>6, <1>7, <1>8, <1>9, <1>10 DEF CreateInvitation

(* The handlers that begin with an invitation: what they find there goes   *)
(* along to their later calls.                                             *)
LEMMA Found ==
  ASSUME IInv, NEW p \in Procs, Busy(p), Op(p) \in {"RevokeInvitation", "AcceptInvitation"},
         NEW step, NEW i, i = req[p].call.inv, i \in DOMAIN invitations,
         req' = [req EXCEPT ![p].org = invitations[i].org, ![p].pc = step],
         step \in CallsOf[Op(p)],
         Op(p) = "AcceptInvitation" => /\ step = "requester"
                                       /\ invitations[i].status = "pending"
                                       /\ invitations[i].email = req[p].call.by,
         UNCHANGED <<answer, served, stale>>, UNCHANGED <<docs, hist>>
  PROVE  IInv'
  <1> DEFINE r == req[p]
             x == [call |-> r.call, pc |-> step, org |-> invitations[i].org, left |-> r.left]
  <1>1. IsRequest(r) /\ r.call.op = Op(p)
    BY RequestType DEF IInv, Op
  <1>2. step \in Steps \ {"idle"}
    BY CallsAreSteps DEF CallsOf
  <1>3. /\ invitations[i] \in Invitation /\ i \in given
        /\ invitations[i].org \in Orgs
    BY DEF IInv, TypeOK, Invitation
  <1>4. IsRequest(x) /\ x.call = r.call /\ x.pc = step /\ x.org = invitations[i].org
    BY <1>1, <1>2, <1>3 DEF IsRequest
  <1>5. req' = [req EXCEPT ![p] = x]
    <2>1. \A o : [r EXCEPT !.org = o, !.pc = step] =
                   [call |-> r.call, pc |-> step, org |-> o, left |-> r.left]
      BY <1>1, WithOrg
    <2>2. [r EXCEPT !.org = invitations[i].org, !.pc = step] = x
      BY <2>1, Zenon
    <2> QED
      BY <2>2
  <1> HIDE DEF x
  <1>6. Becomes(p, x)
    BY <1>4, <1>5 DEF Becomes, IInv, TypeOK
  <1>7. Shaped(x, invitations, given)
    BY <1>1, <1>3, <1>4 DEF Shaped, FoundInvitation, AtOrganization
  <1>8. Knows(x, orgs, invitations)
    <2>1. invitations[i] =
            [org |-> invitations[i].org, email |-> invitations[i].email, status |-> invitations[i].status]
      BY <1>3 DEF Invitation
    <2> QED
      BY <1>1, <1>4, <2>1 DEF Knows, KnowsInvitation
  <1>9. step \notin {"delete_projects", "delete_org"}
    BY DEF CallsOf
  <1>10. Listed(x, orgs, late) /\ Emptied(x, projects, events, loose)
    BY <1>1, <1>4, <1>9 DEF Listed, Emptied
  <1> QED
    BY <1>6, <1>7, <1>8, <1>10, Quiet DEF RequestOK

(* And later calls of them that read.                                      *)
LEMMA ReadInvited ==
  ASSUME IInv, NEW p \in Procs, Busy(p), Op(p) \in {"RevokeInvitation", "AcceptInvitation"},
         NEW step \in CallsOf[Op(p)], Read(p, step), UNCHANGED <<docs, hist>>,
         req[p].pc = "account" => step = "invitation",
         Op(p) = "RevokeInvitation" => req[p].pc # "invitation",
         Op(p) = "AcceptInvitation" => req[p].pc # "invitation",
         p \notin stale => Knows(At(req[p], step), orgs, invitations)
  PROVE  IInv'
  <1> DEFINE r == req[p]
             s == At(r, step)
  <1>1. IsRequest(r) /\ r.call.op = Op(p) /\ Shaped(r, invitations, given)
    BY RequestType DEF IInv, Op, Requests, RequestOK
  <1>2. step \in Steps \ {"idle"} /\ step \notin {"delete_projects", "delete_org"}
    BY CallsAreSteps DEF CallsOf
  <1>3. s.call = r.call /\ s.pc = step /\ s.org = r.org
    BY DEF At
  <1> HIDE DEF s
  <1>4. Shaped(s, invitations, given)
    BY <1>1, <1>3 DEF Shaped, FoundInvitation, AtOrganization
  <1>5. Listed(s, orgs, late) /\ Emptied(s, projects, events, loose)
    BY <1>1, <1>2, <1>3 DEF Listed, Emptied
  <1> QED
    BY <1>2, <1>4, <1>5, ReadOn DEF RequestOK, s

LEMMA RevokeInvitationStep ==
  ASSUME IInv, NEW p \in Procs, Busy(p), RevokeInvitation(p)
  PROVE  IInv'
  <1> DEFINE r == req[p]
             i == r.call.inv
  <1>1. IsRequest(r) /\ r.call.op = "RevokeInvitation" /\ Op(p) = "RevokeInvitation" /\ i \in Invs
    BY RequestType, CallTypes DEF RevokeInvitation, Op, IInv, RevokeInvitationReq
  <1>2. Shaped(r, invitations, given)
    BY <1>1 DEF IInv, Requests, RequestOK
  <1>3. ASSUME NEW err, Refuse(p, err), UNCHANGED <<docs, hist>> PROVE IInv'
    BY <1>3, Refused
  <1>4. CASE r.pc = "invitation"
    <2>1. CASE i \notin DOMAIN invitations
      BY <1>1, <1>3, <1>4, <2>1 DEF RevokeInvitation
    <2>2. CASE i \in DOMAIN invitations
      <3> DEFINE step == IF invitations[i].status = "pending" THEN "requester" ELSE "requester_late"
      <3>1. /\ req' = [req EXCEPT ![p].org = invitations[i].org, ![p].pc = step]
            /\ UNCHANGED <<answer, served, stale>> /\ UNCHANGED <<docs, hist>>
        BY <1>1, <1>4, <2>2 DEF RevokeInvitation
      <3>2. step \in CallsOf[Op(p)]
        BY <1>1 DEF CallsOf
      <3> HIDE DEF step
      <3> QED
        BY <1>1, <2>2, <3>1, <3>2, Found
    <2> QED
      BY <2>1, <2>2
  <1>5. CASE r.pc \in {"requester", "requester_late"}
    <2>1. ASSUME Read(p, "write"), UNCHANGED <<docs, hist>> PROVE IInv'
      <3>1. "write" \in CallsOf[Op(p)]
        BY <1>1 DEF CallsOf
      <3>2. Knows(At(r, "write"), orgs, invitations)
        BY <1>1 DEF Knows, At
      <3> QED
        BY <1>1, <1>5, <2>1, <3>1, <3>2, ReadInvited
    <2>2. CASE GetMemberRole(r.org, r.call.by) # "admin"
      BY <1>1, <1>3, <1>5, <2>2 DEF RevokeInvitation
    <2>3. CASE GetMemberRole(r.org, r.call.by) = "admin" /\ r.pc = "requester_late"
      BY <1>1, <1>3, <1>5, <2>3 DEF RevokeInvitation
    <2>4. CASE GetMemberRole(r.org, r.call.by) = "admin" /\ r.pc # "requester_late"
      BY <1>1, <1>5, <2>1, <2>4 DEF RevokeInvitation
    <2> QED
      BY <2>2, <2>3, <2>4
  <1>6. CASE r.pc = "write"
    <2>1. /\ invitations' = Restrict(invitations, DOMAIN invitations \ {i}) /\ Finish(p, {r.org})
          /\ UNCHANGED <<accounts, orgs, projects, events, hist>>
      BY <1>1, <1>6 DEF RevokeInvitation
    <2>2. /\ invitations \in [DOMAIN invitations -> Invitation] /\ IsFiniteSet(DOMAIN invitations)
          /\ DOMAIN invitations \subseteq Invs \cap given /\ given \subseteq Orgs \cup Invs
      BY DEF IInv, Collections, TypeOK
    <2>3. i \in DOMAIN invitations => invitations[i].org = r.org
      BY <1>1, <1>2, <1>6 DEF Shaped, FoundInvitation
    <2>4. /\ DOMAIN invitations' = DOMAIN invitations \ {i}
          /\ invitations' = [j \in DOMAIN invitations' |-> invitations[j]]
      BY <2>1 DEF Restrict
    <2>5. /\ invitations' \in [DOMAIN invitations' -> Invitation]
          /\ \A j \in DOMAIN invitations' : invitations'[j] = invitations[j]
      BY <2>2, <2>4
    <2>6. IsFiniteSet(DOMAIN invitations')
      BY <2>2, <2>4, FS_Subset
    <2>7. given' = given /\ UNCHANGED <<accounts, orgs, projects, events, loose, late>>
      BY <2>1 DEF hist
    <2>8. \A j \in DOMAIN invitations : invitations[j].org # r.org =>
            j \in DOMAIN invitations' /\ invitations'[j] = invitations[j]
      BY <2>3, <2>4, <2>5
    <2>9. DOMAIN invitations' \subseteq Invs \cap given' /\ given' \subseteq Orgs \cup Invs
      BY <2>2, <2>4, <2>7
    <2>10. \A j \in DOMAIN invitations' : j \in DOMAIN invitations /\ invitations'[j] = invitations[j]
      BY <2>4, <2>5, SMTT(30)
    <2> QED
      BY <2>1, <2>5, <2>6, <2>7, <2>8, <2>9, <2>10, InvitationsWritten, ZenonT(60)
  <1> QED
    BY <1>1, <1>4, <1>5, <1>6 DEF RevokeInvitation

LEMMA AcceptInvitationStep ==
  ASSUME IInv, NEW p \in Procs, Busy(p), AcceptInvitation(p)
  PROVE  IInv'
  <1> DEFINE r == req[p]
             i == r.call.inv
             u == r.call.by
             o == r.org
  <1>1. /\ IsRequest(r) /\ r.call.op = "AcceptInvitation" /\ Op(p) = "AcceptInvitation"
        /\ i \in Invs /\ u \in Users
    BY RequestType, CallTypes DEF AcceptInvitation, Op, IInv, AcceptInvitationReq
  <1>2. /\ Shaped(r, invitations, given)
        /\ p \notin stale => KnowsInvitation(r, orgs, invitations)
    BY <1>1 DEF IInv, Requests, RequestOK, Knows
  <1>3. ASSUME NEW err, Refuse(p, err), UNCHANGED <<docs, hist>> PROVE IInv'
    BY <1>3, Refused
  <1>4. {"invitation", "requester", "push", "status"} \subseteq CallsOf[Op(p)]
    BY <1>1 DEF CallsOf
  <1>5. \A step : At(r, step).call = r.call /\ At(r, step).pc = step /\ At(r, step).org = o
    BY DEF At
  <1>6. CASE r.pc = "account"
    <2>1. CASE u \notin accounts
      BY <1>1, <1>3, <1>6, <2>1 DEF AcceptInvitation
    <2>2. CASE u \in accounts
      <3>1. Read(p, "invitation") /\ UNCHANGED <<docs, hist>>
        BY <1>1, <1>6, <2>2 DEF AcceptInvitation
      <3>2. Knows(At(r, "invitation"), orgs, invitations)
        BY <1>1, <1>5 DEF Knows, KnowsInvitation
      <3> QED
        BY <1>1, <1>4, <1>6, <3>1, <3>2, ReadInvited
    <2> QED
      BY <2>1, <2>2
  <1>7. CASE r.pc = "invitation"
    <2>1. CASE i \notin DOMAIN invitations
      BY <1>1, <1>3, <1>7, <2>1 DEF AcceptInvitation
    <2>2. CASE i \in DOMAIN invitations /\ invitations[i].status # "pending"
      BY <1>1, <1>3, <1>7, <2>2 DEF AcceptInvitation
    <2>3. CASE i \in DOMAIN invitations /\ invitations[i].status = "pending" /\ invitations[i].email # u
      BY <1>1, <1>3, <1>7, <2>3 DEF AcceptInvitation
    <2>4. CASE i \in DOMAIN invitations /\ invitations[i].status = "pending" /\ invitations[i].email = u
      <3>1. /\ req' = [req EXCEPT ![p].org = invitations[i].org, ![p].pc = "requester"]
            /\ UNCHANGED <<answer, served, stale>> /\ UNCHANGED <<docs, hist>>
        BY <1>1, <1>7, <2>4 DEF AcceptInvitation
      <3> QED
        BY <1>1, <1>4, <2>4, <3>1, Found
    <2> QED
      BY <2>1, <2>2, <2>3, <2>4
  <1>8. CASE r.pc = "requester"
    <2> DEFINE step == IF IsMember(o, u) THEN "status" ELSE "push"
    <2>1. Read(p, step) /\ UNCHANGED <<docs, hist>>
      BY <1>1, <1>8 DEF AcceptInvitation
    <2>2. step \in CallsOf[Op(p)]
      BY <1>4
    <2>3. ASSUME p \notin stale PROVE Knows(At(r, step), orgs, invitations)
      <3>1. IsMember(o, u) <=> EntriesIn(orgs, o, u) # <<>>
        BY AsIn
      <3>2. step \in {"status", "push"}
            /\ (step = "status" => EntriesIn(orgs, o, u) # <<>>)
            /\ (step = "push" => EntriesIn(orgs, o, u) = <<>>)
        BY <3>1
      <3> HIDE DEF step
      <3>3. KnowsInvitation(At(r, step), orgs, invitations)
        BY <1>2, <1>5, <1>8, <2>3, <3>2, SMTT(30) DEF KnowsInvitation
      <3> QED
        BY <1>1, <1>5, <3>3 DEF Knows
    <2> HIDE DEF step
    <2> QED
      BY <1>1, <1>8, <2>1, <2>2, <2>3, ReadInvited
  <1>9. CASE r.pc = "push"
    <2> DEFINE x == At(r, "status")
    <2>1. /\ orgs' = PushMember(o, u) /\ Write(p, "status", {o})
          /\ late' = IF Leaving(u) THEN late \cup {<<u, o>>} ELSE late
          /\ UNCHANGED <<accounts, projects, events, invitations, loose, given>>
      BY <1>1, <1>9 DEF AcceptInvitation
    <2>2. stale' = stale \cup Overtaken(p, {o}) /\ stale' \subseteq Procs /\ Goto(p, "status")
      BY <2>1 DEF Write, Overtaken, IInv, TypeOK
    <2>3. "status" \in Steps \ {"idle"}
      BY DEF Steps
    <2>4. Becomes(p, x)
      BY <2>2, <2>3, Going
    <2>5. /\ Entered(o, u, orgs')
          /\ o \in DOMAIN orgs => EntriesIn(orgs', o, u) = Append(EntriesIn(orgs, o, u), "member")
      BY <1>1, <2>1, PushMemberIs DEF IInv
    <2>6. FoundInvitation(r, invitations, given)
      BY <1>1, <1>2, <1>9 DEF Shaped
    <2>7. late \subseteq late' /\ late' \subseteq Users \X Orgs
      BY <1>1, <2>1, <2>6 DEF IInv, TypeOK, FoundInvitation
    <2>8. EntriesIn(orgs', o, u) # <<>> =>
            EntriesIn(orgs, o, u) # <<>> \/ <<u, o>> \in late' \/ ~Leaving(u)
      BY <2>1
    <2>9. After(x, p \notin stale')
      <3>1. Shaped(x, invitations', given')
        BY <1>1, <1>2, <1>4, <1>5, <2>1, <2>6 DEF Shaped, FoundInvitation, AtOrganization
      <3>2. ASSUME p \notin stale' PROVE Knows(x, orgs', invitations')
        <4>1. KnowsInvitation(r, orgs, invitations)
          BY <1>2, <2>2, <3>2
        <4>2. o \in DOMAIN orgs' => EntriesIn(orgs', o, u) # <<>>
          <5>1. EntriesIn(orgs, o, u) \in Seq(Roles)
            BY <1>1, EntriesType DEF IInv, Collections
          <5> QED
            BY <2>5, <5>1 DEF Entered
        <4>3. KnowsInvitation(x, orgs', invitations')
          BY <1>5, <1>9, <2>1, <4>1, <4>2 DEF KnowsInvitation
        <4> QED
          BY <1>1, <1>5, <4>3 DEF Knows
      <3>3. Listed(x, orgs', late') /\ Emptied(x, projects', events', loose')
        BY <1>1, <1>5, SMTT(30) DEF Listed, Emptied
      <3> QED
        BY <3>1, <3>2, <3>3, SMTT(30) DEF After
    <2> HIDE DEF x
    <2> QED
      BY <1>1, <2>1, <2>2, <2>4, <2>5, <2>7, <2>8, <2>9, EntryWritten
  <1>10. CASE r.pc = "status"
    <2>1. /\ invitations' = UpdateStatus(i) /\ Finish(p, {o})
          /\ UNCHANGED <<accounts, orgs, projects, events, hist>>
      BY <1>1, <1>10 DEF AcceptInvitation
    <2>2. /\ invitations \in [DOMAIN invitations -> Invitation] /\ IsFiniteSet(DOMAIN invitations)
          /\ DOMAIN invitations \subseteq Invs \cap given /\ given \subseteq Orgs \cup Invs
      BY DEF IInv, Collections, TypeOK
    <2>3. i \in DOMAIN invitations => invitations[i].org = o
      BY <1>1, <1>2, <1>10 DEF Shaped, FoundInvitation
    <2>4. /\ DOMAIN invitations' = DOMAIN invitations
          /\ \A j \in DOMAIN invitations : j # i => invitations'[j] = invitations[j]
          /\ i \in DOMAIN invitations =>
               /\ invitations'[i] \in Invitation
               /\ invitations'[i].org = invitations[i].org
               /\ invitations'[i].email = invitations[i].email
          /\ invitations' \in [DOMAIN invitations' -> Invitation]
      <3>1. CASE i \notin DOMAIN invitations
        BY <2>1, <2>2, <3>1 DEF UpdateStatus
      <3>2. CASE i \in DOMAIN invitations
        <4>1. invitations' = [invitations EXCEPT ![i] = [invitations[i] EXCEPT !.status = "accepted"]]
          BY <2>1, <3>2 DEF UpdateStatus
        <4>2. /\ [invitations[i] EXCEPT !.status = "accepted"] \in Invitation
              /\ [invitations[i] EXCEPT !.status = "accepted"].org = invitations[i].org
              /\ [invitations[i] EXCEPT !.status = "accepted"].email = invitations[i].email
          BY <2>2, <3>2 DEF Invitation
        <4> QED
          BY <2>2, <3>2, <4>1, <4>2
      <3> QED
        BY <3>1, <3>2
    <2>5. given' = given /\ UNCHANGED <<accounts, orgs, projects, events, loose, late>>
      BY <2>1 DEF hist
    <2> QED
      BY <2>1, <2>2, <2>3, <2>4, <2>5, InvitationsWritten, ZenonT(60)
  <1> QED
    BY <1>1, <1>6, <1>7, <1>8, <1>9, <1>10, SMTT(60) DEF AcceptInvitation
-----------------------------------------------------------------------------
(* What hangs on an organization.                                          *)

LEMMA RegisterProjectStep ==
  ASSUME IInv, NEW p \in Procs, Busy(p), RegisterProject(p)
  PROVE  IInv'
  <1> DEFINE r == req[p]
             o == r.call.org
  <1>1. IsRequest(r) /\ r.call.op = "RegisterProject" /\ Op(p) = "RegisterProject" /\ o \in Orgs
    BY RequestType, CallTypes DEF RegisterProject, Op, IInv, RegisterProjectReq
  <1>2. CASE r.pc = "project" /\ o \in projects
    <2>1. Answer(p, "ok") /\ stale' = stale \ {p} /\ UNCHANGED <<docs, hist>>
      BY <1>1, <1>2 DEF RegisterProject
    <2>2. Becomes(p, Idle)
      BY <2>1, Answered DEF Codes, IInv, TypeOK
    <2> QED
      BY <2>1, <2>2, Quiet
  <1>3. CASE r.pc = "project" /\ o \notin projects
    <2>1. Read(p, "insert") /\ UNCHANGED <<docs, hist>>
      BY <1>1, <1>3 DEF RegisterProject
    <2>2. Op(p) \in Plain /\ "insert" \in CallsOf[Op(p)] /\ Knows(At(r, "insert"), orgs, invitations)
      BY <1>1 DEF Plain, CallsOf, Knows, At
    <2> QED
      BY <2>1, <2>2, ReadPlain
  <1>4. CASE r.pc = "insert"
    <2>1. /\ projects' = projects \cup {o} /\ Finish(p, {})
          /\ loose' = IF o \notin DOMAIN orgs \/ Deleting(o) THEN loose \cup {o} ELSE loose
          /\ UNCHANGED <<accounts, orgs, events, invitations, late, given>>
      BY <1>1, <1>4 DEF RegisterProject
    <2>2. Becomes(p, Idle) /\ stale \subseteq stale' \cup {p}
      BY <2>1, Finished
    <2>3. /\ projects' \subseteq Orgs /\ events' \subseteq Orgs /\ loose' \subseteq Orgs
          /\ loose \subseteq loose'
      BY <1>1, <2>1 DEF IInv, TypeOK
    <2>4. OrphansForAReason'
      BY <2>1 DEF IInv, OrphansForAReason
    <2>5. \A a \in (projects' \ projects) \cup (events' \ events) : a \in loose' \/ ~Deleting(a)
      BY <2>1
    <2> QED
      BY <2>1, <2>2, <2>3, <2>4, <2>5, DataWritten
  <1> QED
    BY <1>1, <1>2, <1>3, <1>4 DEF RegisterProject

LEMMA CollectStep ==
  ASSUME IInv, NEW p \in Procs, Busy(p), Collect(p)
  PROVE  IInv'
  <1> DEFINE r == req[p]
             o == r.call.org
  <1>1. IsRequest(r) /\ r.call.op = "Collect" /\ Op(p) = "Collect" /\ o \in Orgs
    BY RequestType, CallTypes DEF Collect, Op, IInv, SendLogsReq
  <1>2. ASSUME NEW err, Refuse(p, err), UNCHANGED <<docs, hist>> PROVE IInv'
    BY <1>2, Refused
  <1>3. ASSUME NEW step \in {"project", "insert"}, Read(p, step), UNCHANGED <<docs, hist>> PROVE IInv'
    <2>1. Op(p) \in Plain /\ step \in CallsOf[Op(p)] /\ Knows(At(r, step), orgs, invitations)
      BY <1>1 DEF Plain, CallsOf, Knows, At
    <2> QED
      BY <1>3, <2>1, ReadPlain
  <1>4. CASE r.pc = "access"
    BY <1>1, <1>2, <1>3, <1>4 DEF Collect
  <1>5. CASE r.pc = "project"
    BY <1>1, <1>2, <1>3, <1>5 DEF Collect
  <1>6. CASE r.pc = "insert"
    <2>1. /\ events' = events \cup {o} /\ Finish(p, {})
          /\ loose' = IF o \notin projects \/ Deleting(o) THEN loose \cup {o} ELSE loose
          /\ UNCHANGED <<accounts, orgs, projects, invitations, late, given>>
      BY <1>1, <1>6 DEF Collect
    <2>2. Becomes(p, Idle) /\ stale \subseteq stale' \cup {p}
      BY <2>1, Finished
    <2>3. /\ projects' \subseteq Orgs /\ events' \subseteq Orgs /\ loose' \subseteq Orgs
          /\ loose \subseteq loose'
      BY <1>1, <2>1 DEF IInv, TypeOK
    <2>4. OrphansForAReason'
      BY <2>1 DEF IInv, OrphansForAReason
    <2>5. \A a \in (projects' \ projects) \cup (events' \ events) : a \in loose' \/ ~Deleting(a)
      BY <2>1
    <2> QED
      BY <2>1, <2>2, <2>3, <2>4, <2>5, DataWritten
  <1> QED
    BY <1>1, <1>4, <1>5, <1>6 DEF Collect
-----------------------------------------------------------------------------
(* The invariant.                                                          *)

LEMMA Initially == Init => IInv
  <1> SUFFICES ASSUME Init PROVE IInv
    OBVIOUS
  <1>1. PICK w \in Worlds : orgs = w.orgs /\ invitations = w.invitations
    BY DEF Init
  <1>2. /\ orgs \in [DOMAIN orgs -> Organization] /\ DOMAIN orgs \subseteq Orgs
        /\ invitations \in [DOMAIN invitations -> Invitation]
        /\ DOMAIN invitations \subseteq Invs /\ IsFiniteSet(DOMAIN invitations)
        /\ FirstOnly(orgs)
    BY <1>1, MembershipAssumption DEF FirstOnly
  <1>3. TypeOK
    BY <1>2, MembershipAssumption DEF Init, TypeOK, Codes
  <1>4. Requests
    BY DEF Init, Requests, Busy, Idle
  <1>5. OrphansForAReason /\ DeletedAccountLeft
    BY DEF Init, OrphansForAReason, DeletedAccountLeft
  <1> QED
    BY <1>2, <1>3, <1>4, <1>5 DEF IInv, Collections

(* An action of a handler is one of a request being served.                *)
LEMMA ServesBusy ==
  ASSUME IInv, NEW p \in Procs, Serve(p)
  PROVE  Busy(p)
  <1> SUFFICES ASSUME req[p].pc = "idle" PROVE FALSE
    BY DEF Busy
  <1>1. req[p] = Idle
    BY DEF IInv, TypeOK, IsRequest
  <1>2. Op(p) = "none" /\ req[p].pc = "idle"
    BY <1>1 DEF Op, Idle
  <1> QED
    BY <1>2 DEF Serve, CreateOrganization, UpdateOrganization, UpdateMemberRole, RemoveMember,
                LeaveOrganization, DeleteEventsByOrganization, DeleteProjectsByOrganization,
                DeleteAccount, CreateInvitation, RevokeInvitation, AcceptInvitation,
                RegisterProject, Collect

LEMMA Consecution == IInv /\ [Next]_vars => IInv'
  <1> SUFFICES ASSUME IInv, [Next]_vars PROVE IInv'
    OBVIOUS
  <1>1. CASE UNCHANGED vars
    <2>1. UNCHANGED <<accounts, orgs, projects, events, invitations, req, answer, served, stale,
                      loose, late, given>>
      BY <1>1 DEF vars, docs, hist
    <2>2. TypeOK'
      BY <2>1 DEF IInv, TypeOK, Organization, Members, Roles, Invitation, IsRequest, Idle
    <2>3. Collections' /\ OrphansForAReason' /\ DeletedAccountLeft'
      BY <2>1 DEF IInv, Collections, FirstOnly, Organization, Members, Roles, Invitation,
                  OrphansForAReason, DeletedAccountLeft, Entries
    <2>4. Requests'
      BY <2>1 DEF IInv, Requests, Busy, RequestOK, Shaped, FoundInvitation, Knows
    <2> QED
      BY <2>2, <2>3, <2>4 DEF IInv
  <1>2. ASSUME NEW p \in Procs, NEW call \in Calls, Receive(p, call) PROVE IInv'
    BY <1>2, ReceiveStep
  <1>3. ASSUME NEW p \in Procs, CallFails(p) PROVE IInv'
    BY <1>3, CallFailsStep
  <1>4. ASSUME NEW p \in Procs, Serve(p) PROVE IInv'
    BY <1>4, ServesBusy, CreateOrganizationStep, UpdateOrganizationStep, UpdateMemberRoleStep,
       RemoveMemberStep, LeaveOrganizationStep, DeleteEventsStep, DeleteProjectsStep,
       DeleteAccountStep, CreateInvitationStep, RevokeInvitationStep, AcceptInvitationStep,
       RegisterProjectStep, CollectStep DEF Serve
  <1> QED
    BY <1>1, <1>2, <1>3, <1>4 DEF Next

(* The inductive invariant: what every request has read, and that it is    *)
(* still so unless the request was overtaken.                              *)
THEOREM Invariant == Spec => []IInv
  BY Initially, Consecution, PTL DEF Spec

(* Every variable of the API's state has its type.                         *)
THEOREM TypeCorrect == Spec => []TypeOK
  <1>1. IInv => TypeOK
    BY DEF IInv
  <1> QED
    BY <1>1, Invariant, PTL

(* No project and no events without their organization, unless they came   *)
(* while it was deleted: however many deletions fail halfway.              *)
THEOREM OrphansExplained == Spec => []OrphansForAReason
  <1>1. IInv => OrphansForAReason
    BY DEF IInv
  <1> QED
    BY <1>1, Invariant, PTL

(* Who has deleted the account is a member only where DeleteAccount could  *)
(* not see it: joined after the listing.                                   *)
THEOREM DeletedAccountIsOut == Spec => []DeletedAccountLeft
  <1>1. IInv => DeletedAccountLeft
    BY DEF IInv
  <1> QED
    BY <1>1, Invariant, PTL
-----------------------------------------------------------------------------
(* Who writes what: every change of a collection is of a request that goes *)
(* on, at the organization it works at.                                    *)

Moves(p) == req'[p] # req[p]

(* The members of every organization stay, one may be made.                *)
MembersKept ==
  /\ \A a \in DOMAIN orgs : a \in DOMAIN orgs' /\ orgs'[a].members = orgs[a].members
  /\ \A a \in DOMAIN orgs' \ DOMAIN orgs : \A u \in Users : Len(orgs'[a].members[u]) <= 1

PullsMember(p) ==
  \E u \in Users :
    /\ req[p].pc = "write" /\ orgs' = PullMember(req[p].org, u)
    /\ \/ req[p].call.op = "RemoveMember" /\ u = req[p].call.target
       \/ req[p].call.op = "LeaveOrganization" /\ u = req[p].call.by
       \/ req[p].call.op = "DeleteAccount"

WritesRole(p) ==
  /\ req[p].call.op = "UpdateMemberRole" /\ req[p].pc = "write"
  /\ req[p].call.target \in Users /\ req[p].call.role \in Roles
  /\ orgs' = WriteRole(req[p].org, req[p].call.target, req[p].call.role)

PushesMember(p) ==
  /\ req[p].call.op = "AcceptInvitation" /\ req[p].pc = "push" /\ req[p].call.by \in Users
  /\ orgs' = PushMember(req[p].org, req[p].call.by)

DeletesOrganization(p) == req[p].pc = "delete_org" /\ orgs' = DeleteOrganization(req[p].org)

OrgsBy(p) ==
  \/ MembersKept
  \/ /\ Moves(p)
     /\ PullsMember(p) \/ WritesRole(p) \/ PushesMember(p) \/ DeletesOrganization(p)

DataBy(p) ==
  \/ events \subseteq events' /\ projects \subseteq projects'
  \/ /\ Moves(p) /\ req[p].pc \in {"delete_events", "delete_projects"}
     /\ events \ {req[p].org} \subseteq events' /\ projects \ {req[p].org} \subseteq projects'

(* The invitations that wait become fewer, but for CreateInvitation.       *)
Asks(p) ==
  /\ Moves(p) /\ req[p].call.op = "CreateInvitation" /\ req[p].pc = "create"
  /\ \E i \in Invs :
       invitations' = Insert(invitations, i,
         [org |-> req[p].org, email |-> req[p].call.target, status |-> "pending"])

InvitationsBy(p) ==
  \/ Asks(p)
  \/ /\ DOMAIN invitations' \subseteq DOMAIN invitations
     /\ \A i \in DOMAIN invitations' :
          invitations'[i] = invitations[i] \/ invitations'[i].status = "accepted"

(* Who accepts is told so with the last call, and nobody else is.          *)
AnswersBy(p) ==
  /\ \A q \in Procs \ {p} : answer'[q] = answer[q]
  /\ answer'[p] = "ok" /\ answer[p] # "ok" /\ req[p].call.op = "AcceptInvitation" =>
       /\ req[p].pc = "status"
       /\ orgs' = orgs /\ invitations' = UpdateStatus(req[p].call.inv)

WrittenBy(p) == OrgsBy(p) /\ DataBy(p) /\ InvitationsBy(p) /\ AnswersBy(p)

LEMMA Untouched ==
  ASSUME UNCHANGED docs, NEW p
  PROVE  OrgsBy(p) /\ DataBy(p) /\ InvitationsBy(p)
  BY DEF docs, OrgsBy, MembersKept, DataBy, InvitationsBy

LEMMA Answering ==
  ASSUME TypeOK, NEW p \in Procs, NEW code, Answer(p, code)
  PROVE  /\ \A q \in Procs \ {p} : answer'[q] = answer[q]
         /\ answer'[p] = code
  BY DEF TypeOK, Answer

LEMMA Ends ==
  ASSUME TypeOK, NEW p \in Procs, Busy(p), NEW changed, Finish(p, changed)
  PROVE  Moves(p) /\ (req[p].call.op # "AcceptInvitation" => AnswersBy(p))
  <1>1. req'[p] = Idle
    BY DEF TypeOK, Finish, Answer
  <1>2. Moves(p)
    BY <1>1 DEF Moves, Busy, Idle
  <1> QED
    BY <1>2, Answering DEF Finish, AnswersBy

LEMMA RefusedBy ==
  ASSUME TypeOK, NEW p \in Procs, NEW err, Refuse(p, err), UNCHANGED docs
  PROVE  WrittenBy(p)
  <1>1. PICK code \in ErrorCodes : Answer(p, code)
    BY ErrorCodeType DEF Refuse
  <1>2. AnswersBy(p)
    BY <1>1, Answering DEF AnswersBy, ErrorCodes
  <1> QED
    BY <1>2, Untouched DEF WrittenBy

LEMMA StayedBy ==
  ASSUME answer' = answer, NEW p
  PROVE  AnswersBy(p)
  BY DEF AnswersBy

LEMMA ReadBy ==
  ASSUME NEW p, NEW step, Read(p, step), UNCHANGED docs
  PROVE  WrittenBy(p)
  <1>1. AnswersBy(p)
    BY StayedBy DEF Read, Goto
  <1> QED
    BY <1>1, Untouched DEF WrittenBy

LEMMA CreateOrganizationBy ==
  ASSUME IInv, NEW p \in Procs, Busy(p), CreateOrganization(p)
  PROVE  WrittenBy(p)
  <1> DEFINE call == req[p].call
  <1>1. /\ call.op = "CreateOrganization" /\ call.by \in Users /\ TypeOK
    BY RequestType, CallTypes DEF CreateOrganization, Op, IInv, CreateOrganizationReq
  <1>2. ASSUME NEW err, Refuse(p, err), UNCHANGED <<docs, hist>> PROVE WrittenBy(p)
    BY <1>1, <1>2, RefusedBy
  <1>3. ASSUME NEW step, Read(p, step), UNCHANGED <<docs, hist>> PROVE WrittenBy(p)
    BY <1>3, ReadBy
  <1>4. ASSUME NEW o \in Orgs \ given,
               orgs' = Insert(orgs, o, [slug |-> call.slug, members |-> Single(call.by, "admin")]),
               Finish(p, {o}), UNCHANGED <<accounts, projects, events, invitations, loose>>
        PROVE  WrittenBy(p)
    <2> DEFINE doc == [slug |-> call.slug, members |-> Single(call.by, "admin")]
    <2>1. o \notin DOMAIN orgs
      BY <1>1, <1>4 DEF TypeOK
    <2>2. /\ DOMAIN orgs' = DOMAIN orgs \cup {o} /\ orgs'[o] = doc
          /\ \A a \in DOMAIN orgs : orgs'[a] = orgs[a]
      BY <1>4, <2>1 DEF Insert
    <2>3. doc.members = Single(call.by, "admin")
      OBVIOUS
    <2>4. \A u \in Users : Single(call.by, "admin")[u] \in {<<>>, <<"admin">>}
      BY <1>1 DEF Single, None
    <2>5. \A s \in {<<>>, <<"admin">>} : Len(s) <= 1
      OBVIOUS
    <2> HIDE DEF doc
    <2>6. MembersKept
      BY <2>2, <2>3, <2>4, <2>5 DEF MembersKept
    <2>7. AnswersBy(p)
      BY <1>1, <1>4, Ends
    <2> QED
      BY <1>4, <2>6, <2>7 DEF WrittenBy, OrgsBy, DataBy, InvitationsBy
  <1> QED
    BY <1>2, <1>3, <1>4 DEF CreateOrganization

LEMMA UpdateOrganizationBy ==
  ASSUME IInv, NEW p \in Procs, Busy(p), UpdateOrganization(p)
  PROVE  WrittenBy(p)
  <1> DEFINE call == req[p].call
             o == call.org
  <1>1. call.op = "UpdateOrganization" /\ TypeOK /\ o \in Orgs /\ call.by \in Users
    BY RequestType, CallTypes DEF UpdateOrganization, Op, IInv, UpdateOrganizationReq
  <1>2. ASSUME NEW err, Refuse(p, err), UNCHANGED docs PROVE WrittenBy(p)
    BY <1>1, <1>2, RefusedBy
  <1>3. ASSUME NEW step, Read(p, step), UNCHANGED docs PROVE WrittenBy(p)
    BY <1>3, ReadBy
  <1>4. CASE req[p].pc = "requester"
    <2>1. GetMemberRole(o, call.by) \in {"", "admin", "member"}
      BY <1>1, EntriesType, AsIn DEF IInv, Collections
    <2> QED
      BY <1>2, <1>3, <1>4, <2>1 DEF UpdateOrganization
  <1>5. CASE req[p].pc = "slug"
    BY <1>2, <1>3, <1>5 DEF UpdateOrganization
  <1>6. CASE req[p].pc = "update"
    <2>1. CASE o \notin DOMAIN orgs \/ ~SlugIndexed(o, call.slug)
      BY <1>2, <1>6, <2>1 DEF UpdateOrganization, docs
    <2>2. CASE o \in DOMAIN orgs /\ SlugIndexed(o, call.slug)
      <3>1. /\ orgs' = [orgs EXCEPT ![o].slug = call.slug] /\ Finish(p, {})
            /\ UNCHANGED <<accounts, projects, events, invitations, hist>>
        BY <1>6, <2>2 DEF UpdateOrganization
      <3>2. orgs[o] \in Organization
        BY <2>2 DEF IInv, Collections
      <3>3. [orgs[o] EXCEPT !.slug = call.slug].members = orgs[o].members
        BY <3>2 DEF Organization
      <3>4. MembersKept
        BY <2>2, <3>1, <3>3 DEF MembersKept
      <3>5. AnswersBy(p)
        BY <1>1, <3>1, Ends
      <3> QED
        BY <3>1, <3>4, <3>5 DEF WrittenBy, OrgsBy, DataBy, InvitationsBy
    <2> QED
      BY <2>1, <2>2
  <1> QED
    BY <1>4, <1>5, <1>6 DEF UpdateOrganization

LEMMA UpdateMemberRoleBy ==
  ASSUME IInv, NEW p \in Procs, Busy(p), UpdateMemberRole(p)
  PROVE  WrittenBy(p)
  <1> DEFINE r == req[p]
             call == r.call
             o == call.org
  <1>1. /\ call.op = "UpdateMemberRole" /\ TypeOK /\ o \in Orgs /\ call.target \in Users
        /\ call.role \in Roles
    BY RequestType, CallTypes DEF UpdateMemberRole, Op, IInv, UpdateMemberRoleReq
  <1>2. r.org = o
    BY <1>1 DEF IInv, Requests, RequestOK, Shaped, AtOrganization
  <1>3. ASSUME NEW err, Refuse(p, err), UNCHANGED <<docs, hist>> PROVE WrittenBy(p)
    BY <1>1, <1>3, RefusedBy
  <1>4. ASSUME NEW step, Read(p, step), UNCHANGED <<docs, hist>> PROVE WrittenBy(p)
    BY <1>4, ReadBy
  <1>5. CASE r.pc # "write"
    BY <1>3, <1>4, <1>5 DEF UpdateMemberRole
  <1>6. CASE r.pc = "write"
    <2>1. /\ orgs' = WriteRole(o, call.target, call.role) /\ Finish(p, {o})
          /\ UNCHANGED <<accounts, projects, events, invitations, hist>>
      BY <1>6 DEF UpdateMemberRole
    <2>2. Moves(p) /\ AnswersBy(p)
      BY <1>1, <2>1, Ends
    <2> QED
      BY <1>1, <1>2, <1>6, <2>1, <2>2 DEF WrittenBy, OrgsBy, WritesRole, DataBy, InvitationsBy
  <1> QED
    BY <1>5, <1>6

LEMMA RemoveMemberBy ==
  ASSUME IInv, NEW p \in Procs, Busy(p), RemoveMember(p)
  PROVE  WrittenBy(p)
  <1> DEFINE r == req[p]
             call == r.call
             o == call.org
             t == call.target
  <1>1. call.op = "RemoveMember" /\ TypeOK /\ o \in Orgs /\ t \in Users
    BY RequestType, CallTypes DEF RemoveMember, Op, IInv, RemoveMemberReq
  <1>2. r.org = o
    BY <1>1 DEF IInv, Requests, RequestOK, Shaped, AtOrganization
  <1>3. ASSUME NEW err, Refuse(p, err), UNCHANGED <<docs, hist>> PROVE WrittenBy(p)
    BY <1>1, <1>3, RefusedBy
  <1>4. ASSUME NEW step, Read(p, step), UNCHANGED <<docs, hist>> PROVE WrittenBy(p)
    BY <1>4, ReadBy
  <1>5. CASE r.pc # "write"
    <2>1. GetMemberRole(o, t) \in {"", "admin", "member"}
      BY <1>1, EntriesType, AsIn DEF IInv, Collections
    <2> QED
      BY <1>3, <1>4, <1>5, <2>1 DEF RemoveMember
  <1>6. CASE r.pc = "write"
    <2>1. /\ orgs' = PullMember(o, t) /\ Finish(p, {o})
          /\ UNCHANGED <<accounts, projects, events, invitations, hist>>
      BY <1>6 DEF RemoveMember
    <2>2. Moves(p) /\ AnswersBy(p)
      BY <1>1, <2>1, Ends
    <2>3. PullsMember(p)
      BY <1>1, <1>2, <1>6, <2>1 DEF PullsMember
    <2> QED
      BY <2>1, <2>2, <2>3 DEF WrittenBy, OrgsBy, DataBy, InvitationsBy
  <1> QED
    BY <1>5, <1>6

LEMMA LeaveOrganizationBy ==
  ASSUME IInv, NEW p \in Procs, Busy(p), LeaveOrganization(p)
  PROVE  WrittenBy(p)
  <1> DEFINE r == req[p]
             call == r.call
             o == call.org
             u == call.by
  <1>1. call.op = "LeaveOrganization" /\ TypeOK /\ o \in Orgs /\ u \in Users
    BY RequestType, CallTypes DEF LeaveOrganization, Op, IInv, LeaveOrganizationReq
  <1>2. r.org = o
    BY <1>1 DEF IInv, Requests, RequestOK, Shaped, AtOrganization
  <1>3. ASSUME NEW err, Refuse(p, err), UNCHANGED <<docs, hist>> PROVE WrittenBy(p)
    BY <1>1, <1>3, RefusedBy
  <1>4. ASSUME NEW step, Read(p, step), UNCHANGED <<docs, hist>> PROVE WrittenBy(p)
    BY <1>4, ReadBy
  <1>5. CASE r.pc = "requester"
    <2>1. GetMemberRole(o, u) \in {"", "admin", "member"}
      BY <1>1, EntriesType, AsIn DEF IInv, Collections
    <2> QED
      BY <1>3, <1>4, <1>5, <2>1 DEF LeaveOrganization
  <1>6. CASE r.pc \in {"org", "org_as_admin"}
    <2>1. CASE o \notin DOMAIN orgs
      BY <1>3, <1>6, <2>1 DEF LeaveOrganization
    <2>2. CASE o \in DOMAIN orgs
      <3>1. answer' = answer /\ UNCHANGED docs
        BY <1>6, <2>2 DEF LeaveOrganization
      <3> QED
        BY <3>1, StayedBy, Untouched DEF WrittenBy
    <2> QED
      BY <2>1, <2>2
  <1>7. CASE r.pc \in {"admins", "count"}
    BY <1>3, <1>4, <1>7 DEF LeaveOrganization
  <1>8. CASE r.pc = "delete_org"
    <2>1. /\ orgs' = DeleteOrganization(o) /\ Finish(p, {o})
          /\ UNCHANGED <<accounts, projects, events, invitations, hist>>
      BY <1>8 DEF LeaveOrganization
    <2>2. Moves(p) /\ AnswersBy(p)
      BY <1>1, <2>1, Ends
    <2>3. DeletesOrganization(p)
      BY <1>2, <1>8, <2>1 DEF DeletesOrganization
    <2> QED
      BY <2>1, <2>2, <2>3 DEF WrittenBy, OrgsBy, DataBy, InvitationsBy
  <1>9. CASE r.pc = "write"
    <2>1. /\ orgs' = PullMember(o, u) /\ Finish(p, {o})
          /\ UNCHANGED <<accounts, projects, events, invitations, hist>>
      BY <1>9 DEF LeaveOrganization
    <2>2. Moves(p) /\ AnswersBy(p)
      BY <1>1, <2>1, Ends
    <2>3. PullsMember(p)
      BY <1>1, <1>2, <1>9, <2>1 DEF PullsMember
    <2> QED
      BY <2>1, <2>2, <2>3 DEF WrittenBy, OrgsBy, DataBy, InvitationsBy
  <1> QED
    BY <1>5, <1>6, <1>7, <1>8, <1>9 DEF LeaveOrganization

LEMMA MovesOn ==
  ASSUME TypeOK, NEW p \in Procs, Busy(p), NEW step \in Steps \ {"idle"}, Goto(p, step), step # req[p].pc
  PROVE  Moves(p)
  <1>1. req' = [req EXCEPT ![p] = At(req[p], step)]
    BY Goes
  <1>2. req'[p] = At(req[p], step)
    BY <1>1 DEF TypeOK
  <1> QED
    BY <1>2 DEF Moves, At

LEMMA DeleteEventsBy ==
  ASSUME IInv, NEW p \in Procs, Busy(p), DeleteEventsByOrganization(p)
  PROVE  WrittenBy(p)
  <1>1. CASE req[p].pc = "projects"
    BY <1>1, ReadBy DEF DeleteEventsByOrganization
  <1>2. CASE req[p].pc = "delete_events"
    <2>1. /\ events' = events \ {req[p].org} /\ Goto(p, "delete_projects") /\ answer' = answer
          /\ UNCHANGED <<accounts, orgs, projects, invitations, hist>>
      BY <1>2 DEF DeleteEventsByOrganization, Read, Goto
    <2>2. Moves(p)
      BY <1>2, <2>1, MovesOn DEF IInv, Steps
    <2> QED
      BY <1>2, <2>1, <2>2, StayedBy DEF WrittenBy, OrgsBy, MembersKept, DataBy, InvitationsBy
  <1> QED
    BY <1>1, <1>2 DEF DeleteEventsByOrganization

LEMMA DeleteProjectsBy ==
  ASSUME IInv, NEW p \in Procs, Busy(p), DeleteProjectsByOrganization(p)
  PROVE  WrittenBy(p)
  <1>1. /\ projects' = projects \ {req[p].org} /\ Goto(p, "delete_org") /\ answer' = answer
        /\ UNCHANGED <<accounts, orgs, events, invitations, hist>>
        /\ req[p].pc = "delete_projects"
    BY DEF DeleteProjectsByOrganization, Read, Goto
  <1>2. Moves(p)
    BY <1>1, MovesOn DEF IInv, Steps
  <1> QED
    BY <1>1, <1>2, StayedBy DEF WrittenBy, OrgsBy, MembersKept, DataBy, InvitationsBy

LEMMA DeleteAccountBy ==
  ASSUME IInv, NEW p \in Procs, Busy(p), DeleteAccount(p)
  PROVE  WrittenBy(p)
  <1> DEFINE r == req[p]
             u == r.call.by
             o == r.org
             rest == Restrict(r.left, DOMAIN r.left \ {o})
  <1>1. r.call.op = "DeleteAccount" /\ TypeOK /\ u \in Users /\ IsRequest(r)
    BY RequestType, CallTypes DEF DeleteAccount, Op, IInv, DeleteAccountReq
  <1>2. DeletesListed(r)
    BY <1>1 DEF IInv, Requests, RequestOK, Shaped
  <1>3. CASE r.pc = "account"
    BY <1>1, <1>3, RefusedBy, ReadBy, SMTT(60) DEF DeleteAccount
  <1>4. CASE r.pc = "list"
    <2>1. answer' = answer /\ UNCHANGED docs
      BY <1>4 DEF DeleteAccount, NextOrganization
    <2> QED
      BY <2>1, StayedBy, Untouched DEF WrittenBy
  <1>5. ASSUME r.pc \in {"delete_org", "write"}, NextOrganization(p, rest, {o})
        PROVE  Moves(p) /\ AnswersBy(p)
    <2>1. /\ DOMAIN rest = DOMAIN r.left \ {o} /\ o \in DOMAIN r.left
          /\ DOMAIN rest \subseteq Orgs /\ \A a \in DOMAIN rest : rest[a] \in Nat
      BY <1>1, <1>2, <1>5 DEF Restrict, IsRequest, DeletesListed, Cascade
    <2>2. answer' = answer
      BY <1>5 DEF NextOrganization
    <2> HIDE DEF rest
    <2>3. PICK x : Becomes(p, x) /\ Turned(r, x, rest)
      BY <1>5, <2>1, NextOrganizationIs
    <2>4. req'[p].left = rest
      BY <1>1, <2>3 DEF Becomes, Turned, TypeOK
    <2> QED
      BY <2>1, <2>2, <2>4, StayedBy DEF Moves
  <1>6. CASE r.pc = "delete_org"
    <2>1. /\ orgs' = DeleteOrganization(o) /\ NextOrganization(p, rest, {o})
          /\ UNCHANGED <<accounts, projects, events, invitations, hist>>
      BY <1>6 DEF DeleteAccount
    <2>2. DeletesOrganization(p)
      BY <1>6, <2>1 DEF DeletesOrganization
    <2> QED
      BY <1>5, <1>6, <2>1, <2>2 DEF WrittenBy, OrgsBy, DataBy, InvitationsBy
  <1>7. CASE r.pc = "write"
    <2>1. /\ orgs' = PullMember(o, u) /\ NextOrganization(p, rest, {o})
          /\ UNCHANGED <<accounts, projects, events, invitations, hist>>
      BY <1>7 DEF DeleteAccount
    <2>2. PullsMember(p)
      BY <1>1, <1>7, <2>1 DEF PullsMember
    <2> QED
      BY <1>5, <1>7, <2>1, <2>2 DEF WrittenBy, OrgsBy, DataBy, InvitationsBy
  <1>8. CASE r.pc = "user"
    <2>1. Finish(p, {}) /\ UNCHANGED <<orgs, projects, events, invitations, hist>>
      BY <1>8 DEF DeleteAccount
    <2>2. AnswersBy(p)
      BY <1>1, <2>1, Ends
    <2> QED
      BY <2>1, <2>2 DEF WrittenBy, OrgsBy, MembersKept, DataBy, InvitationsBy
  <1> QED
    BY <1>3, <1>4, <1>6, <1>7, <1>8 DEF DeleteAccount

LEMMA CreateInvitationBy ==
  ASSUME IInv, NEW p \in Procs, Busy(p), CreateInvitation(p)
  PROVE  WrittenBy(p)
  <1> DEFINE r == req[p]
             call == r.call
  <1>1. call.op = "CreateInvitation" /\ TypeOK
    BY DEF CreateInvitation, Op, IInv
  <1>2. r.org = call.org
    BY <1>1 DEF IInv, Requests, RequestOK, Shaped, AtOrganization
  <1>3. CASE r.pc # "create"
    BY <1>1, <1>3, RefusedBy, ReadBy DEF CreateInvitation
  <1>4. CASE r.pc = "create"
    <2>1. /\ \E i \in Invs : invitations' =
               Insert(invitations, i, [org |-> call.org, email |-> call.target, status |-> "pending"])
          /\ Finish(p, {call.org}) /\ UNCHANGED <<accounts, orgs, projects, events, loose, late>>
      BY <1>4 DEF CreateInvitation
    <2>2. Moves(p) /\ AnswersBy(p)
      BY <1>1, <2>1, Ends
    <2>3. Asks(p)
      BY <1>1, <1>2, <1>4, <2>1, <2>2 DEF Asks
    <2> QED
      BY <2>1, <2>2, <2>3 DEF WrittenBy, OrgsBy, MembersKept, DataBy, InvitationsBy
  <1> QED
    BY <1>3, <1>4

LEMMA RevokeInvitationBy ==
  ASSUME IInv, NEW p \in Procs, Busy(p), RevokeInvitation(p)
  PROVE  WrittenBy(p)
  <1> DEFINE r == req[p]
             i == r.call.inv
  <1>1. r.call.op = "RevokeInvitation" /\ TypeOK
    BY DEF RevokeInvitation, Op, IInv
  <1>2. CASE r.pc = "invitation"
    <2>1. CASE i \notin DOMAIN invitations
      BY <1>1, <1>2, <2>1, RefusedBy DEF RevokeInvitation
    <2>2. CASE i \in DOMAIN invitations
      <3>1. answer' = answer /\ UNCHANGED docs
        BY <1>2, <2>2 DEF RevokeInvitation
      <3> QED
        BY <3>1, StayedBy, Untouched DEF WrittenBy
    <2> QED
      BY <2>1, <2>2
  <1>3. CASE r.pc \in {"requester", "requester_late"}
    <2> DEFINE role == GetMemberRole(r.org, r.call.by)
    <2>1. CASE role # "admin"
      BY <1>1, <1>3, <2>1, RefusedBy DEF RevokeInvitation
    <2>2. CASE role = "admin" /\ r.pc = "requester_late"
      BY <1>1, <1>3, <2>2, RefusedBy DEF RevokeInvitation
    <2>3. CASE role = "admin" /\ r.pc # "requester_late"
      BY <1>1, <1>3, <2>3, ReadBy DEF RevokeInvitation
    <2> QED
      BY <2>1, <2>2, <2>3
  <1>4. CASE r.pc = "write"
    <2>1. /\ invitations' = Restrict(invitations, DOMAIN invitations \ {i}) /\ Finish(p, {r.org})
          /\ UNCHANGED <<accounts, orgs, projects, events, hist>>
      BY <1>4 DEF RevokeInvitation
    <2>2. AnswersBy(p)
      BY <1>1, <2>1, Ends
    <2>3. /\ DOMAIN invitations' \subseteq DOMAIN invitations
          /\ \A j \in DOMAIN invitations' : invitations'[j] = invitations[j]
      BY <2>1, SMTT(30) DEF Restrict
    <2> QED
      BY <2>1, <2>2, <2>3 DEF WrittenBy, OrgsBy, MembersKept, DataBy, InvitationsBy
  <1> QED
    BY <1>2, <1>3, <1>4 DEF RevokeInvitation

LEMMA AcceptInvitationBy ==
  ASSUME IInv, NEW p \in Procs, Busy(p), AcceptInvitation(p)
  PROVE  WrittenBy(p)
  <1> DEFINE r == req[p]
             i == r.call.inv
             u == r.call.by
             o == r.org
  <1>1. r.call.op = "AcceptInvitation" /\ TypeOK /\ u \in Users
    BY RequestType, CallTypes DEF AcceptInvitation, Op, IInv, AcceptInvitationReq
  <1>2. ASSUME NEW err, Refuse(p, err), UNCHANGED <<docs, hist>> PROVE WrittenBy(p)
    BY <1>1, <1>2, RefusedBy, SMTT(30)
  <1>3. CASE r.pc \in {"account", "requester"}
    BY <1>2, <1>3, ReadBy DEF AcceptInvitation
  <1>4. CASE r.pc = "invitation"
    <2>1. CASE i \notin DOMAIN invitations
      BY <1>2, <1>4, <2>1 DEF AcceptInvitation
    <2>2. CASE i \in DOMAIN invitations /\ invitations[i].status # "pending"
      BY <1>2, <1>4, <2>2 DEF AcceptInvitation
    <2>3. CASE i \in DOMAIN invitations /\ invitations[i].status = "pending" /\ invitations[i].email # u
      BY <1>2, <1>4, <2>3 DEF AcceptInvitation
    <2>4. CASE i \in DOMAIN invitations /\ invitations[i].status = "pending" /\ invitations[i].email = u
      <3>1. answer' = answer /\ UNCHANGED docs
        BY <1>4, <2>4 DEF AcceptInvitation
      <3> QED
        BY <3>1, StayedBy, Untouched DEF WrittenBy
    <2> QED
      BY <2>1, <2>2, <2>3, <2>4
  <1>5. CASE r.pc = "push"
    <2>1. /\ orgs' = PushMember(o, u) /\ Goto(p, "status") /\ answer' = answer
          /\ UNCHANGED <<accounts, projects, events, invitations, loose, given>>
      BY <1>5 DEF AcceptInvitation, Write, Goto
    <2>2. Moves(p)
      BY <1>1, <1>5, <2>1, MovesOn DEF Steps
    <2>3. PushesMember(p)
      BY <1>1, <1>5, <2>1 DEF PushesMember
    <2> QED
      BY <2>1, <2>2, <2>3, StayedBy DEF WrittenBy, OrgsBy, DataBy, InvitationsBy
  <1>6. CASE r.pc = "status"
    <2>1. /\ invitations' = UpdateStatus(i) /\ Finish(p, {o})
          /\ UNCHANGED <<accounts, orgs, projects, events, hist>>
      BY <1>6 DEF AcceptInvitation
    <2>2. AnswersBy(p)
      BY <1>1, <1>6, <2>1, Answering DEF AnswersBy, Finish
    <2>3. InvitationsBy(p)
      <3>1. CASE i \notin DOMAIN invitations
        BY <2>1, <3>1 DEF UpdateStatus, InvitationsBy
      <3>2. CASE i \in DOMAIN invitations
        <4>1. invitations' = [invitations EXCEPT ![i] = [invitations[i] EXCEPT !.status = "accepted"]]
          BY <2>1, <3>2 DEF UpdateStatus
        <4>2. invitations[i] \in Invitation
          BY <1>1, <3>2 DEF TypeOK
        <4>3. [invitations[i] EXCEPT !.status = "accepted"].status = "accepted"
          BY <4>2 DEF Invitation
        <4> QED
          BY <3>2, <4>1, <4>3 DEF InvitationsBy
      <3> QED
        BY <3>1, <3>2
    <2> QED
      BY <2>1, <2>2, <2>3 DEF WrittenBy, OrgsBy, MembersKept, DataBy
  <1> QED
    BY <1>3, <1>4, <1>5, <1>6, SMTT(60) DEF AcceptInvitation

LEMMA RegisterProjectBy ==
  ASSUME IInv, NEW p \in Procs, Busy(p), RegisterProject(p)
  PROVE  WrittenBy(p)
  <1>1. req[p].call.op = "RegisterProject" /\ TypeOK
    BY DEF RegisterProject, Op, IInv
  <1>2. CASE Answer(p, "ok") /\ UNCHANGED docs
    <2>1. AnswersBy(p)
      BY <1>1, <1>2, Answering DEF AnswersBy
    <2> QED
      BY <1>2, <2>1, Untouched DEF WrittenBy
  <1>3. CASE Read(p, "insert") /\ UNCHANGED docs
    BY <1>3, ReadBy
  <1>4. CASE /\ projects' = projects \cup {req[p].call.org} /\ Finish(p, {})
             /\ UNCHANGED <<accounts, orgs, events, invitations, late, given>>
    BY <1>1, <1>4, Ends DEF WrittenBy, OrgsBy, MembersKept, DataBy, InvitationsBy
  <1> QED
    BY <1>2, <1>3, <1>4 DEF RegisterProject

LEMMA CollectBy ==
  ASSUME IInv, NEW p \in Procs, Busy(p), Collect(p)
  PROVE  WrittenBy(p)
  <1>1. req[p].call.op = "Collect" /\ TypeOK
    BY DEF Collect, Op, IInv
  <1>2. CASE req[p].pc # "insert"
    BY <1>1, <1>2, RefusedBy, ReadBy DEF Collect
  <1>3. CASE req[p].pc = "insert"
    <2>1. /\ events' = events \cup {req[p].call.org} /\ Finish(p, {})
          /\ UNCHANGED <<accounts, orgs, projects, invitations, late, given>>
      BY <1>3 DEF Collect
    <2> QED
      BY <1>1, <2>1, Ends DEF WrittenBy, OrgsBy, MembersKept, DataBy, InvitationsBy
  <1> QED
    BY <1>2, <1>3

LEMMA Written ==
  ASSUME IInv, NEW p \in Procs, Serve(p) \/ CallFails(p) \/ \E call \in Calls : Receive(p, call)
  PROVE  WrittenBy(p)
  <1>1. CASE CallFails(p)
    BY <1>1, RefusedBy DEF CallFails, IInv
  <1>2. ASSUME NEW call \in Calls, Receive(p, call) PROVE WrittenBy(p)
    <2>1. AnswersBy(p)
      BY <1>2 DEF Receive, AnswersBy, IInv, TypeOK
    <2> QED
      BY <1>2, <2>1, Untouched DEF WrittenBy, Receive
  <1>3. CASE Serve(p)
    BY <1>3, ServesBusy, CreateOrganizationBy, UpdateOrganizationBy, UpdateMemberRoleBy,
       RemoveMemberBy, LeaveOrganizationBy, DeleteEventsBy, DeleteProjectsBy, DeleteAccountBy,
       CreateInvitationBy, RevokeInvitationBy, AcceptInvitationBy, RegisterProjectBy, CollectBy
       DEF Serve
  <1> QED
    BY <1>1, <1>2, <1>3
-----------------------------------------------------------------------------
(* The promises to the members.                                            *)

(* Whom nobody overtook deletes an organization of one entry.              *)
LEMMA CascadeAlone ==
  ASSUME IInv, NEW p \in Procs, req[p].pc \in Cascade, p \notin stale
  PROVE  req[p].org \in DOMAIN orgs /\ Count(orgs, req[p].org) = 1
  <1> DEFINE r == req[p]
  <1>1. /\ Busy(p) /\ r.call.op \in {"LeaveOrganization", "DeleteAccount"}
    BY CascadeCall DEF Op
  <1>2. Shaped(r, invitations, given) /\ Knows(r, orgs, invitations)
    BY <1>1 DEF IInv, Requests, RequestOK
  <1>3. CASE r.call.op = "LeaveOrganization"
    BY <1>2, <1>3 DEF Shaped, LeavesOne, Knows, KnowsLeaver
  <1>4. CASE r.call.op = "DeleteAccount"
    BY <1>2, <1>4 DEF Shaped, DeletesListed, Knows, KnowsListed, Cascade
  <1> QED
    BY <1>1, <1>3, <1>4

LEMMA EnteredBy ==
  ASSUME IInv, NEW p, PullsMember(p) \/ WritesRole(p) \/ PushesMember(p)
  PROVE  \E u \in Users : Entered(req[p].org, u, orgs')
  <1>1. Collections
    BY DEF IInv
  <1>2. CASE PullsMember(p)
    BY <1>1, <1>2, PullMemberIs DEF PullsMember
  <1>3. CASE WritesRole(p)
    BY <1>1, <1>3, WriteRoleIs DEF WritesRole
  <1>4. CASE PushesMember(p)
    BY <1>1, <1>4, PushMemberIs DEF PushesMember
  <1> QED
    BY <1>2, <1>3, <1>4

(* Only the deletion takes an organization away, and the others' members   *)
(* stay as they are.                                                       *)
LEMMA OtherMembersKept ==
  ASSUME IInv, NEW p, OrgsBy(p), NEW o \in DOMAIN orgs,
         o # req[p].org \/ ~(PullsMember(p) \/ WritesRole(p) \/ PushesMember(p) \/ DeletesOrganization(p))
  PROVE  o \in DOMAIN orgs' /\ \A u \in Users : EntriesIn(orgs', o, u) = EntriesIn(orgs, o, u)
  <1> SUFFICES o \in DOMAIN orgs' /\ orgs'[o].members = orgs[o].members
    BY DEF EntriesIn
  <1>1. CASE MembersKept
    BY <1>1 DEF MembersKept
  <1>2. CASE o # req[p].org /\ (PullsMember(p) \/ WritesRole(p) \/ PushesMember(p))
    BY <1>2, EnteredBy DEF Entered
  <1>3. CASE o # req[p].org /\ DeletesOrganization(p)
    BY <1>3 DEF DeletesOrganization, DeleteOrganization, Restrict
  <1> QED
    BY <1>1, <1>2, <1>3 DEF OrgsBy

LEMMA DomainKept ==
  ASSUME IInv, NEW p, OrgsBy(p), NEW o \in DOMAIN orgs \ DOMAIN orgs'
  PROVE  o = req[p].org /\ Moves(p) /\ DeletesOrganization(p)
  <1>1. ~MembersKept
    BY DEF MembersKept
  <1>2. ~(PullsMember(p) \/ WritesRole(p) \/ PushesMember(p))
    BY EnteredBy DEF Entered
  <1> QED
    BY <1>1, <1>2, OtherMembersKept DEF OrgsBy

LEMMA SharedOrgKeptStep ==
  ASSUME IInv, NEW p \in Procs, WrittenBy(p), NEW o \in DOMAIN orgs,
         o \notin DOMAIN orgs' \/ o \in (events \ events') \cup (projects \ projects')
  PROVE  Cardinality({u \in Users : Entries(o, u) # <<>>}) <= 1 \/ Outdated(o)
  <1>1. o = req[p].org /\ Moves(p) /\ req[p].pc \in Cascade
    BY DomainKept DEF WrittenBy, DataBy, DeletesOrganization, Cascade
  <1>2. CASE p \in stale
    BY <1>1, <1>2 DEF Outdated, Moves
  <1>3. CASE p \notin stale
    <2>1. Count(orgs, o) = 1
      BY <1>1, <1>3, CascadeAlone
    <2>2. Cardinality({u \in Users : EntriesIn(orgs, o, u) # <<>>}) <= 1
      BY <2>1, OneElement DEF IInv, Collections
    <2> QED
      BY <2>2 DEF Entries, EntriesIn
  <1> QED
    BY <1>2, <1>3

HasAdminIn(os, o) == \E u \in Users : RoleIn(os, o, u) = "admin"

LEMMA HasAdminIs ==
  ASSUME NEW os, os \in [DOMAIN os -> Organization], FirstOnly(os), NEW o
  PROVE  HasAdminIn(os, o) <=> \E u \in Users : "admin" \in Range(EntriesIn(os, o, u))
  <1>1. ASSUME NEW u \in Users, RoleIn(os, o, u) = "admin"
        PROVE  "admin" \in Range(EntriesIn(os, o, u))
    <2>1. EntriesIn(os, o, u) \in Seq(Roles) /\ EntriesIn(os, o, u) # <<>>
      BY <1>1, EntriesType
    <2>2. 1 \in DOMAIN EntriesIn(os, o, u) /\ EntriesIn(os, o, u)[1] = "admin"
      BY <1>1, <2>1 DEF RoleIn
    <2> QED
      BY <2>2 DEF Range
  <1>2. ASSUME NEW u \in Users, "admin" \in Range(EntriesIn(os, o, u))
        PROVE  RoleIn(os, o, u) = "admin"
    <2>1. EntriesIn(os, o, u) \in Seq(Roles)
      BY EntriesType
    <2>2. PICK i \in DOMAIN EntriesIn(os, o, u) : EntriesIn(os, o, u)[i] = "admin"
      BY <1>2 DEF Range
    <2>3. o \in DOMAIN os /\ EntriesIn(os, o, u) = os[o].members[u]
      BY <2>2 DEF EntriesIn
    <2>4. i \in 1 .. Len(EntriesIn(os, o, u)) /\ EntriesIn(os, o, u) # <<>>
      BY <2>1, <2>2
    <2>5. i = 1
      BY <2>2, <2>3, <2>4 DEF FirstOnly
    <2> QED
      BY <2>1, <2>2, <2>4, <2>5 DEF RoleIn
  <1> QED
    BY <1>1, <1>2 DEF HasAdminIn

(* An admin that this step does not touch stays one.                       *)
LEMMA StaysAdmin ==
  ASSUME NEW o, NEW u, Entered(o, u, orgs'), OtherAdmin(orgs, o, u)
  PROVE  HasAdminIn(orgs', o)
  <1>1. PICK v \in Users \ {u} : RoleIn(orgs, o, v) = "admin"
    BY DEF OtherAdmin
  <1>2. EntriesIn(orgs', o, v) = EntriesIn(orgs, o, v)
    BY DEF Entered
  <1>3. RoleIn(orgs', o, v) = "admin"
    BY <1>1, <1>2 DEF RoleIn
  <1> QED
    BY <1>3 DEF HasAdminIn

LEMMA LastAdminKeptStep ==
  ASSUME IInv, IInv', NEW p \in Procs, WrittenBy(p), NEW o \in DOMAIN orgs,
         HasAdmin(o), o \in DOMAIN orgs', ~HasAdmin(o)'
  PROVE  \/ Outdated(o)
         \/ \E q \in Procs : Op(q) = "DeleteAccount" /\ req[q].org = o /\ req'[q] # req[q]
  <1> DEFINE r == req[p]
  <1>1. orgs \in [DOMAIN orgs -> Organization] /\ FirstOnly(orgs) /\ Collections
    BY DEF IInv, Collections
  <1>2. orgs' \in [DOMAIN orgs' -> Organization] /\ FirstOnly(orgs')
    BY DEF IInv, Collections, FirstOnly, Organization, Members, Roles
  <1>3. PICK a \in Users : RoleIn(orgs, o, a) = "admin"
    <2>1. \E u \in Users : "admin" \in Range(EntriesIn(orgs, o, u))
      BY DEF HasAdmin, Entries, EntriesIn
    <2> QED
      BY <1>1, <2>1, HasAdminIs DEF HasAdminIn
  <1>4. ~HasAdminIn(orgs', o)
    <2>1. ~\E u \in Users : "admin" \in Range(EntriesIn(orgs', o, u))
      BY DEF HasAdmin, Entries, EntriesIn, Range
    <2> QED
      BY <1>2, <2>1, HasAdminIs
  <1>5. /\ o = r.org /\ Moves(p)
        /\ PullsMember(p) \/ WritesRole(p) \/ PushesMember(p) \/ DeletesOrganization(p)
    <2>1. ~\A u \in Users : EntriesIn(orgs', o, u) = EntriesIn(orgs, o, u)
      BY <1>3, <1>4 DEF HasAdminIn, RoleIn
    <2>2. OrgsBy(p)
      BY DEF WrittenBy
    <2>3. ~MembersKept
      BY <2>1 DEF MembersKept, EntriesIn
    <2> QED
      BY <2>1, <2>2, <2>3, OtherMembersKept DEF OrgsBy
  <1>6. ~DeletesOrganization(p)
    BY <1>5 DEF DeletesOrganization, DeleteOrganization, Restrict
  <1>7. ~PushesMember(p)
    <2> SUFFICES ASSUME PushesMember(p) PROVE FALSE
      OBVIOUS
    <2>1. /\ Entered(o, r.call.by, orgs') /\ r.call.by \in Users
          /\ EntriesIn(orgs', o, r.call.by) = Append(EntriesIn(orgs, o, r.call.by), "member")
      BY <1>1, <1>5, PushMemberIs DEF PushesMember
    <2>2. CASE a = r.call.by
      <3>1. EntriesIn(orgs, o, a) \in Seq(Roles) /\ EntriesIn(orgs, o, a) # <<>>
        BY <1>1, <1>3, EntriesType
      <3>2. Head(Append(EntriesIn(orgs, o, a), "member")) = Head(EntriesIn(orgs, o, a))
            /\ Append(EntriesIn(orgs, o, a), "member") # <<>>
        BY <3>1
      <3>3. RoleIn(orgs', o, a) = "admin"
        BY <1>3, <2>1, <2>2, <3>1, <3>2 DEF RoleIn
      <3> QED
        BY <1>4, <3>3 DEF HasAdminIn
    <2>3. CASE a # r.call.by
      BY <1>3, <1>4, <2>1, <2>3, StaysAdmin DEF OtherAdmin
    <2> QED
      BY <2>2, <2>3
  <1>8. CASE p \in stale
    BY <1>5, <1>8 DEF Outdated, Moves
  <1>9. CASE r.call.op = "DeleteAccount"
    BY <1>5, <1>9 DEF Op, Moves
  <1>10. CASE p \notin stale /\ r.call.op # "DeleteAccount"
    <2>1. Busy(p) /\ r.pc = "write"
      BY <1>5, <1>6, <1>7 DEF PullsMember, WritesRole, Busy
    <2>2. Knows(r, orgs, invitations) /\ Shaped(r, invitations, given)
      BY <1>10, <2>1 DEF IInv, Requests, RequestOK
    <2>3. CASE PullsMember(p)
      <3>1. PICK u \in Users :
              /\ orgs' = PullMember(o, u)
              /\ \/ r.call.op = "RemoveMember" /\ u = r.call.target
                 \/ r.call.op = "LeaveOrganization" /\ u = r.call.by
        BY <1>5, <1>10, <2>3 DEF PullsMember
      <3>2. Entered(o, u, orgs')
        BY <1>1, <3>1, PullMemberIs
      <3>3. RoleIn(orgs, o, u) = "admin" /\ ~OtherAdmin(orgs, o, u)
        BY <1>3, <1>4, <3>2, StaysAdmin DEF OtherAdmin
      <3>4. r.call.op # "RemoveMember"
        BY <1>5, <2>1, <2>2, <3>1, <3>3 DEF Knows, KnowsTarget
      <3>5. Count(orgs, o) <= 1 /\ Count(orgs, o) # 1
        BY <1>5, <2>1, <2>2, <3>1, <3>3, <3>4 DEF Knows, KnowsLeaver
      <3>6. Count(orgs, o) >= 1
        BY <1>1, <3>3, OneElement, EntriesType
      <3> QED
        BY <1>1, <3>5, <3>6, CountType
    <2>4. CASE WritesRole(p)
      <3> DEFINE u == r.call.target
      <3>1. /\ Entered(o, u, orgs') /\ u \in Users
            /\ EntriesIn(orgs, o, u) # <<>> => RoleIn(orgs', o, u) = r.call.role
        BY <1>1, <1>5, <2>4, WriteRoleIs DEF WritesRole
      <3>2. RoleIn(orgs, o, u) = "admin" /\ ~OtherAdmin(orgs, o, u)
        BY <1>3, <1>4, <3>1, StaysAdmin DEF OtherAdmin
      <3>3. r.call.role = "admin"
        BY <1>5, <2>1, <2>2, <2>4, <3>2 DEF Knows, KnowsTarget, WritesRole
      <3>4. RoleIn(orgs', o, u) = "admin"
        BY <1>1, <3>1, <3>2, <3>3, EntriesType
      <3> QED
        BY <1>4, <3>1, <3>4 DEF HasAdminIn
    <2> QED
      BY <1>5, <1>6, <1>7, <2>3, <2>4
  <1> QED
    BY <1>8, <1>9, <1>10
LEMMA EntryOnlyWhenRaced ==
  ASSUME IInv, NEW p \in Procs, WrittenBy(p), NEW o \in Orgs, NEW u \in Users,
         Len(EntriesIn(orgs', o, u)) > 1, Len(EntriesIn(orgs', o, u)) > Len(EntriesIn(orgs, o, u))
  PROVE  Outdated(o)
  <1> DEFINE r == req[p]
  <1>1. Collections /\ orgs \in [DOMAIN orgs -> Organization]
    BY DEF IInv, Collections
  <1>2. o \in DOMAIN orgs' /\ Len(<<>>) = 0
    <2>1. o \notin DOMAIN orgs' => EntriesIn(orgs', o, u) = <<>>
      BY DEF EntriesIn
    <2> QED
      BY <2>1
  <1>3. o \in DOMAIN orgs
    <2> SUFFICES ASSUME o \notin DOMAIN orgs PROVE FALSE
      OBVIOUS
    <2>1. CASE MembersKept
      BY <1>2, <2>1 DEF MembersKept, EntriesIn
    <2>2. CASE PullsMember(p) \/ WritesRole(p) \/ PushesMember(p)
      BY <1>2, <2>2, EnteredBy DEF Entered
    <2>3. CASE DeletesOrganization(p)
      BY <1>2, <2>3 DEF DeletesOrganization, DeleteOrganization, Restrict
    <2> QED
      BY <2>1, <2>2, <2>3 DEF WrittenBy, OrgsBy
  <1>4. EntriesIn(orgs, o, u) \in Seq(Roles)
    BY <1>1, EntriesType
  <1>5. EntriesIn(orgs', o, u) # EntriesIn(orgs, o, u)
    BY <1>4
  <1>6. /\ o = r.org /\ OrgsBy(p)
        /\ PullsMember(p) \/ WritesRole(p) \/ PushesMember(p) \/ DeletesOrganization(p)
    BY <1>3, <1>5, OtherMembersKept DEF WrittenBy
  <1>7. ~MembersKept
    BY <1>3, <1>5 DEF MembersKept, EntriesIn
  <1>8. Moves(p)
    BY <1>6, <1>7 DEF OrgsBy
  <1>9. ~DeletesOrganization(p)
    BY <1>2, <1>6 DEF DeletesOrganization, DeleteOrganization, Restrict
  <1>10. ~PullsMember(p)
    <2> SUFFICES ASSUME NEW v \in Users, orgs' = PullMember(o, v) PROVE FALSE
      BY <1>6 DEF PullsMember
    <2>1. Entered(o, v, orgs') /\ EntriesIn(orgs', o, v) = <<>>
      BY <1>1, PullMemberIs
    <2> QED
      BY <1>2, <1>5, <2>1 DEF Entered
  <1>11. ~WritesRole(p)
    <2> SUFFICES ASSUME WritesRole(p) PROVE FALSE
      OBVIOUS
    <2>1. /\ Entered(o, r.call.target, orgs')
          /\ Len(EntriesIn(orgs', o, r.call.target)) = Len(EntriesIn(orgs, o, r.call.target))
      BY <1>1, <1>6, WriteRoleIs DEF WritesRole
    <2> QED
      BY <1>4, <1>5, <2>1 DEF Entered
  <1>12. PushesMember(p)
    BY <1>6, <1>9, <1>10, <1>11
  <1>13. /\ Entered(o, r.call.by, orgs')
         /\ EntriesIn(orgs', o, r.call.by) = Append(EntriesIn(orgs, o, r.call.by), "member")
    BY <1>1, <1>3, <1>6, <1>12, PushMemberIs DEF PushesMember
  <1>14. u = r.call.by
    BY <1>5, <1>13 DEF Entered
  <1>15. EntriesIn(orgs, o, u) # <<>>
    <2>1. Len(Append(<<>>, "member")) = 1
      OBVIOUS
    <2> QED
      BY <1>13, <1>14, <2>1
  <1>16. p \in stale
    <2> SUFFICES ASSUME p \notin stale PROVE FALSE
      OBVIOUS
    <2>1. Knows(r, orgs, invitations)
      BY <1>12 DEF PushesMember, Busy, IInv, Requests, RequestOK
    <2> QED
      BY <1>6, <1>12, <1>14, <1>15, <2>1 DEF PushesMember, Knows, KnowsInvitation
  <1> QED
    BY <1>6, <1>8, <1>16 DEF Outdated, Moves

LEMMA InvitationOnlyWhenRaced ==
  ASSUME IInv, NEW p \in Procs, WrittenBy(p), NEW o \in Orgs, NEW u \in Users,
         Cardinality(PendingIn(invitations', u, o)) > 1,
         Cardinality(PendingIn(invitations', u, o)) > Cardinality(PendingIn(invitations, u, o))
  PROVE  Outdated(o)
  <1> DEFINE r == req[p]
             old == PendingIn(invitations, u, o)
             new == PendingIn(invitations', u, o)
             asked == [org |-> o, email |-> u, status |-> "pending"]
  <1>1. IsFiniteSet(old)
    <2>1. old \subseteq DOMAIN invitations
      BY DEF PendingIn
    <2> QED
      BY <2>1, FS_Subset DEF IInv, Collections
  <1>2. ~(new \subseteq old)
    <2> HIDE DEF new, old
    <2> SUFFICES ASSUME new \subseteq old PROVE FALSE
      OBVIOUS
    <2>1. IsFiniteSet(new) /\ Cardinality(new) <= Cardinality(old)
      BY <1>1, FS_Subset
    <2>2. Cardinality(new) \in Nat /\ Cardinality(old) \in Nat
      BY <1>1, <2>1, FS_CardinalityType
    <2>3. Cardinality(new) > Cardinality(old)
      BY DEF new, old
    <2> QED
      BY <2>1, <2>2, <2>3
  <1>3. Asks(p)
    <2> SUFFICES ASSUME DOMAIN invitations' \subseteq DOMAIN invitations,
                        \A i \in DOMAIN invitations' :
                          invitations'[i] = invitations[i] \/ invitations'[i].status = "accepted"
                 PROVE  FALSE
      BY DEF WrittenBy, InvitationsBy
    <2>1. asked.status = "pending"
      OBVIOUS
    <2> HIDE DEF asked
    <2>2. {i \in DOMAIN invitations' : invitations'[i] = asked}
            \subseteq {i \in DOMAIN invitations : invitations[i] = asked}
      BY <2>1
    <2> QED
      BY <1>2, <2>2 DEF PendingIn, asked
  <1>4. PICK i \in Invs : invitations' = Insert(invitations, i,
               [org |-> r.org, email |-> r.call.target, status |-> "pending"])
    BY <1>3 DEF Asks
  <1>5. /\ DOMAIN invitations' = DOMAIN invitations \cup {i}
        /\ invitations'[i] = [org |-> r.org, email |-> r.call.target, status |-> "pending"]
        /\ \A j \in DOMAIN invitations : j # i => invitations'[j] = invitations[j]
    BY <1>4 DEF Insert
  <1>6. new \subseteq old \cup {i}
    <2> HIDE DEF asked
    <2>1. {j \in DOMAIN invitations' : invitations'[j] = asked}
            \subseteq {j \in DOMAIN invitations : invitations[j] = asked} \cup {i}
      BY <1>5
    <2> QED
      BY <2>1 DEF PendingIn, asked
  <1>7. i \in new
    <2> HIDE DEF old, new
    <2> QED
      BY <1>2, <1>6
  <1>8. invitations'[i] = asked
    BY <1>7 DEF PendingIn
  <1>9. r.org = o /\ r.call.target = u
    BY <1>5, <1>8
  <1>10. p \in stale
    <2> SUFFICES ASSUME p \notin stale PROVE FALSE
      OBVIOUS
    <2>1. Knows(r, orgs, invitations)
      BY <1>3 DEF Asks, Busy, IInv, Requests, RequestOK
    <2>2. old = {}
      BY <1>3, <1>9, <2>1 DEF Asks, Knows
    <2> HIDE DEF old, new
    <2>3. new = {i}
      BY <1>6, <1>7, <2>2
    <2>4. Cardinality(new) = 1
      BY <2>3, FS_Singleton
    <2> QED
      BY <2>4 DEF new
  <1> QED
    BY <1>3, <1>9, <1>10 DEF Asks, Outdated, Moves

LEMMA DuplicateOnlyWhenRacedStep ==
  ASSUME IInv, NEW p \in Procs, WrittenBy(p), NEW o \in Orgs, NEW u \in Users,
         \/ Len(Entries(o, u))' > 1 /\ Len(Entries(o, u))' > Len(Entries(o, u))
         \/ Cardinality(Pending(u, o)') > 1 /\ Cardinality(Pending(u, o)') > Cardinality(Pending(u, o))
  PROVE  Outdated(o)
  <1>1. /\ Len(Entries(o, u))' = Len(EntriesIn(orgs', o, u))
        /\ Len(Entries(o, u)) = Len(EntriesIn(orgs, o, u))
    BY DEF Entries, EntriesIn
  <1>2. /\ Pending(u, o)' = PendingIn(invitations', u, o)
        /\ Pending(u, o) = PendingIn(invitations, u, o)
    BY DEF Pending, PendingIn
  <1> QED
    BY <1>1, <1>2, EntryOnlyWhenRaced, InvitationOnlyWhenRaced

LEMMA AcceptedMeansMemberStep ==
  ASSUME IInv, NEW q \in Procs, WrittenBy(q), NEW p \in Procs, NEW o \in Orgs, NEW u \in Users,
         NEW i \in Invs, req[p].call = [op |-> "AcceptInvitation", by |-> u, inv |-> i],
         req[p].org = o, answer'[p] = "ok", answer[p] # "ok"
  PROVE  \/ p \in stale
         \/ o \notin DOMAIN orgs
         \/ /\ (Entries(o, u) # <<>>)'
            /\ invitations'[i] = [org |-> o, email |-> u, status |-> "accepted"]
  <1> SUFFICES ASSUME p \notin stale, o \in DOMAIN orgs
               PROVE  /\ (Entries(o, u) # <<>>)'
                      /\ invitations'[i] = [org |-> o, email |-> u, status |-> "accepted"]
    OBVIOUS
  <1>1. req[p].call.op = "AcceptInvitation" /\ req[p].call.by = u /\ req[p].call.inv = i
    OBVIOUS
  <1>2. p = q
    BY DEF WrittenBy, AnswersBy
  <1>3. req[p].pc = "status" /\ orgs' = orgs /\ invitations' = UpdateStatus(i)
    BY <1>1, <1>2 DEF WrittenBy, AnswersBy
  <1>4. Knows(req[p], orgs, invitations)
    BY <1>3 DEF Busy, IInv, Requests, RequestOK
  <1>5. /\ i \in DOMAIN invitations
        /\ invitations[i] = [org |-> o, email |-> u, status |-> "pending"]
        /\ EntriesIn(orgs, o, u) # <<>>
    BY <1>1, <1>3, <1>4 DEF Knows, KnowsInvitation
  <1>6. (Entries(o, u) # <<>>)'
    BY <1>3, <1>5 DEF Entries, EntriesIn
  <1>7. invitations'[i] = [invitations[i] EXCEPT !.status = "accepted"]
    BY <1>3, <1>5 DEF UpdateStatus
  <1> QED
    BY <1>5, <1>6, <1>7

LEMMA SomeStep ==
  ASSUME IInv, Next
  PROVE  \E p \in Procs : WrittenBy(p)
  BY Written DEF Next

(* Without a step nothing is written, answered or deleted.                 *)
LEMMA NoStep ==
  ASSUME UNCHANGED vars
  PROVE  /\ orgs' = orgs /\ events' = events /\ projects' = projects
         /\ invitations' = invitations /\ answer' = answer
         /\ \A o, u : Len(Entries(o, u))' = Len(Entries(o, u)) /\ Pending(u, o)' = Pending(u, o)
         /\ \A o : HasAdmin(o)' <=> HasAdmin(o)
  BY DEF vars, docs, Entries, Pending, HasAdmin, Range

(* An organization shared by two is never deleted, nor its data, but by a  *)
(* request that somebody overtook.                                         *)
THEOREM SharedOrgIsKept == Spec => SharedOrgKept
  <1> DEFINE A == \A o \in DOMAIN orgs :
                    (o \notin DOMAIN orgs' \/ o \in (events \ events') \cup (projects \ projects'))
                      => Cardinality({u \in Users : Entries(o, u) # <<>>}) <= 1 \/ Outdated(o)
  <1>1. IInv /\ [Next]_vars => [A]_vars
    <2> SUFFICES ASSUME IInv, Next PROVE A
      OBVIOUS
    <2>1. PICK p \in Procs : WrittenBy(p)
      BY SomeStep
    <2> QED
      BY <2>1, SharedOrgKeptStep
  <1> QED
    BY <1>1, Invariant, PTL DEF Spec, SharedOrgKept

(* The last admin of an organization stays, but for a request that was     *)
(* overtaken and for an account deleted.                                   *)
THEOREM LastAdminIsKept == Spec => LastAdminKept
  <1> DEFINE A == \A o \in DOMAIN orgs :
                    (HasAdmin(o) /\ o \in DOMAIN orgs' /\ ~HasAdmin(o)')
                      => \/ Outdated(o)
                         \/ \E p \in Procs :
                              Op(p) = "DeleteAccount" /\ req[p].org = o /\ req'[p] # req[p]
  <1>1. IInv /\ IInv' /\ [Next]_vars => [A]_vars
    <2> SUFFICES ASSUME IInv, IInv', Next PROVE A
      OBVIOUS
    <2>1. PICK p \in Procs : WrittenBy(p)
      BY SomeStep
    <2> QED
      BY <2>1, LastAdminKeptStep
  <1> QED
    BY <1>1, Invariant, PTL DEF Spec, LastAdminKept

(* Nobody is entered twice, and nobody asked twice, but by a request that  *)
(* was overtaken after it looked.                                          *)
THEOREM DuplicatesAreRaces == Spec => DuplicateOnlyWhenRaced
  <1> DEFINE A == \A o \in Orgs, u \in Users :
                    \/ Len(Entries(o, u))' > 1 /\ Len(Entries(o, u))' > Len(Entries(o, u))
                    \/ Cardinality(Pending(u, o)') > 1 /\ Cardinality(Pending(u, o)') > Cardinality(Pending(u, o))
                    => Outdated(o)
  <1>1. IInv /\ [Next]_vars => [A]_vars
    <2> SUFFICES ASSUME IInv, Next PROVE A
      OBVIOUS
    <2>1. PICK p \in Procs : WrittenBy(p)
      BY SomeStep
    <2> QED
      BY <2>1, DuplicateOnlyWhenRacedStep
  <1> QED
    BY <1>1, Invariant, PTL DEF Spec, DuplicateOnlyWhenRaced

(* The answer to AcceptInvitation means what it says, unless the request   *)
(* was overtaken or the organization is gone.                              *)
THEOREM AcceptedIsMember == Spec => AcceptedMeansMember
  <1> DEFINE A == \A p \in Procs, o \in Orgs, u \in Users, i \in Invs :
                    /\ req[p].call = [op |-> "AcceptInvitation", by |-> u, inv |-> i]
                    /\ req[p].org = o
                    /\ answer'[p] = "ok" /\ answer[p] # "ok"
                    => \/ p \in stale
                       \/ o \notin DOMAIN orgs
                       \/ /\ (Entries(o, u) # <<>>)'
                          /\ invitations'[i] = [org |-> o, email |-> u, status |-> "accepted"]
  <1>1. IInv /\ [Next]_vars => [A]_vars
    <2> SUFFICES ASSUME IInv, Next PROVE A
      OBVIOUS
    <2>1. PICK q \in Procs : WrittenBy(q)
      BY SomeStep
    <2> QED
      BY <2>1, AcceptedMeansMemberStep
  <1> QED
    BY <1>1, Invariant, PTL DEF Spec, AcceptedMeansMember
=============================================================================
