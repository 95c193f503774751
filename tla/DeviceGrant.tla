----------------------------- MODULE DeviceGrant ----------------------------
(***************************************************************************)
(* What a login by device code promises, of whatever calls it consists and *)
(* whoever else logs in or approves meanwhile: a code that is shown is     *)
(* approved at most once, while it lives, and for the one device that      *)
(* shows it; the device is told of it while the code lives and there is an *)
(* account; it gets at most one key, which is the approver's for good;     *)
(* what is revoked stays revoked; and only a key that was issued is kept   *)
(* on disk. Access implements it.                                          *)
(***************************************************************************)
EXTENDS Naturals, Functions

CONSTANTS Users, Nobody, Devices, Codes, Life

VARIABLES
  time,
  accounts,    \* users who have an account
  shown,       \* the codes that are shown, by device, and until when each lives
  approvedBy,  \* by whom each device is
  told,        \* devices that may ask for their key
  owner,       \* of the keys issued, by device
  revoked,     \* keys
  kept         \* the key on disk

vars == <<time, accounts, shown, approvedBy, told, owner, revoked, kept>>
grants == <<approvedBy, told, owner, revoked>>

Extend(f, d, value) == [x \in DOMAIN f \cup {d} |-> IF x = d THEN value ELSE f[x]]

Init ==
  /\ time = 0 /\ accounts \subseteq Users
  /\ shown = <<>> /\ approvedBy = [d \in Devices |-> Nobody]
  /\ told = {} /\ owner = <<>> /\ revoked = {} /\ kept = {}

Tick == time' = time + 1 /\ UNCHANGED <<accounts, shown, grants, kept>>

ChangeAccounts == accounts' \subseteq Users /\ UNCHANGED <<time, shown, grants, kept>>

Show(d, code) ==
  /\ d \notin DOMAIN shown \cup DOMAIN owner \cup told /\ approvedBy[d] = Nobody
  /\ \A e \in DOMAIN shown : shown[e].code # code
  /\ shown' = Extend(shown, d, [code |-> code, until |-> time + Life])
  /\ UNCHANGED <<time, accounts, grants, kept>>

Forget(d) ==
  /\ shown[d].until < time
  /\ shown' = Restrict(shown, DOMAIN shown \ {d})
  /\ UNCHANGED <<time, accounts, grants, kept>>

Approve(d, u) ==
  /\ time < shown[d].until /\ approvedBy[d] = Nobody
  /\ \A e \in DOMAIN shown : shown[e].code = shown[d].code => e = d
  /\ approvedBy' = [approvedBy EXCEPT ![d] = u]
  /\ UNCHANGED <<time, accounts, shown, told, owner, revoked, kept>>

Tell(d) ==
  /\ time <= shown[d].until /\ approvedBy[d] \in accounts /\ d \notin DOMAIN owner
  /\ told' = told \cup {d}
  /\ UNCHANGED <<time, accounts, shown, approvedBy, owner, revoked, kept>>

Leave(d) == told' = told \ {d} /\ UNCHANGED <<time, accounts, shown, approvedBy, owner, revoked, kept>>

Issue(d) ==
  /\ d \notin DOMAIN owner
  /\ told' = told \ {d}
  /\ owner' = Extend(owner, d, approvedBy[d])
  /\ UNCHANGED <<time, accounts, shown, approvedBy, revoked, kept>>

Revoke(d) == revoked' = revoked \cup {d} /\ UNCHANGED <<time, accounts, shown, approvedBy, told, owner, kept>>

Keep(ds) == kept' = ds /\ UNCHANGED <<time, accounts, shown, grants>>

Next ==
  \/ Tick \/ ChangeAccounts
  \/ \E d \in Devices, code \in Codes : Show(d, code)
  \/ \E d \in DOMAIN shown : Forget(d) \/ Tell(d) \/ \E u \in Users : Approve(d, u)
  \/ \E d \in told : Leave(d) \/ Issue(d)
  \/ \E d \in DOMAIN owner : Revoke(d) \/ Keep({d})
  \/ Keep({})

Spec == Init /\ [][Next]_vars
=============================================================================
