----------------------------- MODULE MCMembership --------------------------
(* Instances of Membership for TLC.                                        *)
EXTENDS Membership, TLC

CONSTANTS u1, u2, o1, o2, s1, s2, i1, p1, p2

Entry(a, b) == [None EXCEPT ![u1] = a, ![u2] = b]
Org(slug, members) == [slug |-> slug, members |-> members]
Asked == i1 :> [org |-> o1, email |-> u2, status |-> "pending"]

(* What earlier requests have made: two admins; an admin alone, who has    *)
(* asked u2 to join; a member who also has an organization alone.          *)
ThreeWorlds ==
  {[orgs |-> o1 :> Org(s1, Entry(<<"admin">>, <<"admin">>)), invitations |-> <<>>],
   [orgs |-> o1 :> Org(s1, Entry(<<"admin">>, <<>>)), invitations |-> Asked],
   [orgs |-> o1 :> Org(s1, Entry(<<"admin">>, <<"member">>)) @@ o2 :> Org(s2, Entry(<<>>, <<"admin">>)),
    invitations |-> <<>>]}

ProcSymmetry == Permutations({p1, p2})
=============================================================================
