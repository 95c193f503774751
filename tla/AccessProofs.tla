---------------------------- MODULE AccessProofs ----------------------------
(***************************************************************************)
(* What holds of Access whoever logs in, approves, revokes or is killed,   *)
(* for all users, logins, web keys and lengths of life: the types, that    *)
(* the key in auth.json is the approver's and works until it is revoked,   *)
(* that no CLI key is lost track of, that a revoked key stays revoked, and *)
(* that all of it keeps the promise of DeviceGrant.                        *)
(***************************************************************************)
EXTENDS Access, TLAPS

(* A login has a code, then a key, and has nothing before it asks.         *)
NothingYet ==
  \A l \in Logins :
    /\ cli[l].pc \in {"idle", "code"} => l \notin DOMAIN codes
    /\ cli[l].pc \in {"idle", "code", "poll", "issue"} => l \notin DOMAIN keys

(* It saves a key that the collection has.                                 *)
SavesIssued ==
  \A l \in Logins : cli[l].pc \in {"save", "write"} => l \in DOMAIN keys

ApprovedByApprover ==
  \A l \in DOMAIN codes : codes[l].approved => codes[l].user = approver[l]

(* Nobody can approve the device of this login any more.                   *)
Settled(l) == l \in DOMAIN codes => codes[l].approved

(* From the poll that was answered with tokens on, the user is settled.    *)
KeptUser ==
  /\ \A l \in Logins :
       cli[l].pc = "issue" => Settled(l) /\ cli[l].user = approver[l] /\ cli[l].user \in Users
  /\ \A l \in Logins \cap DOMAIN keys :
       Settled(l) /\ keys[l].user = approver[l] /\ keys[l].expiresAt = {}

IInv ==
  TypeOK /\ NothingYet /\ SavesIssued /\ ApprovedByApprover /\ KeptUser /\ KeyAccountedFor
-----------------------------------------------------------------------------
(* What the operators of the steps do.                                     *)

LEMMA Inserted ==
  ASSUME NEW docs, NEW k, NEW doc
  PROVE  /\ DOMAIN Insert(docs, k, doc) = DOMAIN docs \cup {k}
         /\ Insert(docs, k, doc)[k] = doc
         /\ \A j \in DOMAIN docs : j # k => Insert(docs, k, doc)[j] = docs[j]
  BY DEF Insert

LEMMA InsertedType ==
  ASSUME NEW S, NEW docs, docs \in [DOMAIN docs -> S], NEW k, NEW doc \in S
  PROVE  Insert(docs, k, doc) \in [DOMAIN Insert(docs, k, doc) -> S]
  BY DEF Insert

LEMMA GotoMoves ==
  ASSUME TypeOK, NEW l \in Logins, NEW pc \in Pcs, Goto(l, pc)
  PROVE  /\ cli' \in [Logins -> [pc : Pcs, deadline : Nat, tick : Nat, user : Users \cup {Nobody}]]
         /\ cli'[l].pc = pc
         /\ pc \notin Ended => cli'[l].user = cli[l].user
         /\ \A m \in Logins : m # l => cli'[m] = cli[m]
  <1>1. cli \in [Logins -> [pc : Pcs, deadline : Nat, tick : Nat, user : Users \cup {Nobody}]]
    BY DEF TypeOK
  <1>2. Fresh \in [pc : Pcs, deadline : Nat, tick : Nat, user : Users \cup {Nobody}]
    BY DEF Fresh, Pcs
  <1> QED
    BY <1>1, <1>2 DEF Goto, Fresh

LEMMA PollAnswers ==
  ASSUME TypeOK, ApprovedByApprover, NEW l \in Logins, DevicePoll(l) \notin {"error", "pending"}
  PROVE  /\ DevicePoll(l) \in Users /\ DevicePoll(l) = approver[l]
         /\ l \in DOMAIN codes /\ codes[l].approved
  <1>1. l \in DOMAIN codes
    BY DEF DevicePoll
  <1>2. DevicePoll(l) = Poll(codes[l]) /\ codes[l] \in DeviceCodeDoc
    BY <1>1 DEF DevicePoll, TypeOK
  <1>3. codes[l].approved /\ codes[l].user \in accounts /\ Poll(codes[l]) = codes[l].user
    BY <1>2 DEF Poll, DeviceCodeDoc
  <1> QED
    BY <1>1, <1>2, <1>3 DEF ApprovedByApprover, TypeOK

LEMMA NextTickType ==
  ASSUME TypeOK, NEW l \in Logins, now >= cli[l].tick
  PROVE  NextTick(l) \in Nat
  <1>1. now \in Nat /\ cli[l].tick \in Nat /\ Interval \in Nat \ {0}
    BY AccessAssumption DEF TypeOK
  <1>2. (now - cli[l].tick) \div Interval \in Nat
    BY <1>1
  <1> DEFINE d == (now - cli[l].tick) \div Interval
  <1> HIDE DEF d
  <1>3. Interval * (d + 1) \in Nat
    BY <1>1, <1>2 DEF d
  <1> QED
    BY <1>1, <1>3 DEF NextTick, d

(* The requests stay well-formed.                                          *)
LEMMA StepType ==
  ASSUME TypeOK, NEW b \in Browsers, NEW pc \in Phases, web[b] # Idle, Step(b, pc)
  PROVE  web' \in [Browsers -> {Idle} \cup [call : Calls, pc : Phases]]
  <1>1. web \in [Browsers -> {Idle} \cup [call : Calls, pc : Phases]]
    BY DEF TypeOK
  <1>2. web[b] \in [call : Calls, pc : Phases]
    BY <1>1
  <1>3. [web[b] EXCEPT !.pc = pc] \in [call : Calls, pc : Phases]
    BY <1>2
  <1> QED
    BY <1>1, <1>3 DEF Step

LEMMA EndType ==
  ASSUME TypeOK, NEW b \in Browsers, End(b)
  PROVE  web' \in [Browsers -> {Idle} \cup [call : Calls, pc : Phases]]
  BY DEF TypeOK, End

LEMMA Caller ==
  ASSUME TypeOK, NEW b \in Browsers, web[b].call.op # "none"
  PROVE  /\ web[b] # Idle /\ web[b].call \in Calls /\ web[b].call.by \in Users
         /\ web[b].call.op = "IssueAPIKey" => web[b].call.days \in {0, 1}
         /\ web[b].call.op = "RevokeAPIKey" => web[b].call.key \in Keys
  <1>1. web[b] # Idle
    BY DEF Idle
  <1>2. web[b].call \in Calls
    BY <1>1 DEF TypeOK
  <1> QED
    BY <1>1, <1>2 DEF Calls, GoogleAuthReq, DeviceCodeApproveReq, IssueAPIKeyReq, RevokeAPIKeyReq

(* A step that leaves documents, file and logins alone.                    *)
LEMMA Frame ==
  ASSUME IInv, TypeOK', codes' = codes, keys' = keys, file' = file, cli' = cli,
         approver' = approver, loose' = loose
  PROVE  IInv'
  BY DEF IInv, NothingYet, SavesIssued, ApprovedByApprover, KeptUser, Settled, KeyAccountedFor
-----------------------------------------------------------------------------
(* The steps of a login.                                                   *)

LEMMA IsLoggedInStep ==
  ASSUME IInv, NEW l \in Logins, IsLoggedIn(l)
  PROVE  IInv'
  <1>1. PICK pc \in {"code", "failed"} : cli[l].pc = "idle" /\ Goto(l, pc)
    BY DEF IsLoggedIn
  <1>2. /\ codes' = codes /\ keys' = keys /\ file' = file /\ approver' = approver /\ loose' = loose
        /\ now' = now /\ accounts' = accounts /\ homes' = homes /\ web' = web
    BY DEF IsLoggedIn, api, hist
  <1>3. /\ cli' \in [Logins -> [pc : Pcs, deadline : Nat, tick : Nat, user : Users \cup {Nobody}]]
        /\ cli'[l].pc = pc
        /\ \A m \in Logins : m # l => cli'[m] = cli[m]
    BY <1>1, GotoMoves DEF IInv, Pcs
  <1>4. TypeOK'
    BY <1>2, <1>3 DEF IInv, TypeOK
  <1>5. \A m \in Logins : cli'[m].pc = cli[m].pc \/ (m = l /\ cli'[m].pc \in {"code", "failed"})
    BY <1>1, <1>3
  <1>6. NothingYet'
    BY <1>1, <1>2, <1>5 DEF IInv, NothingYet
  <1>7. SavesIssued' /\ ApprovedByApprover'
    BY <1>2, <1>5 DEF IInv, SavesIssued, ApprovedByApprover
  <1>8. KeptUser'
    BY <1>1, <1>2, <1>3 DEF IInv, KeptUser, Settled
  <1>9. KeyAccountedFor'
    BY <1>1, <1>2, <1>3 DEF IInv, KeyAccountedFor
  <1> QED
    BY <1>4, <1>6, <1>7, <1>8, <1>9 DEF IInv

LEMMA DeviceCodeStep ==
  ASSUME IInv, NEW l \in Logins, DeviceCode(l)
  PROVE  IInv'
  <1>1. /\ cli[l].pc = "code" /\ now + Expiration + Interval < MaxTime
        /\ keys' = keys /\ file' = file /\ approver' = approver /\ loose' = loose
        /\ now' = now /\ accounts' = accounts /\ homes' = homes /\ web' = web
    BY DEF DeviceCode, hist
  <1>2. cli \in [Logins -> [pc : Pcs, deadline : Nat, tick : Nat, user : Users \cup {Nobody}]]
    BY DEF IInv, TypeOK
  <1>3. now \in Nat /\ now + Expiration \in Nat /\ now + Interval \in Nat
    BY AccessAssumption DEF IInv, TypeOK
  <1>4. /\ cli' \in [Logins -> [pc : Pcs, deadline : Nat, tick : Nat, user : Users \cup {Nobody}]]
        /\ cli'[l].pc \in {"poll", "failed"}
        /\ \A m \in Logins : m # l => cli'[m] = cli[m]
    <2>1. CASE Goto(l, "failed")
      BY <2>1, GotoMoves DEF IInv, Pcs
    <2>2. CASE cli' = [cli EXCEPT ![l] = [pc |-> "poll", deadline |-> now + Expiration,
                                          tick |-> now + Interval, user |-> Nobody]]
      BY <1>2, <1>3, <2>2 DEF Pcs
    <2> QED
      BY <2>1, <2>2 DEF DeviceCode
  <1>5. \/ codes' = codes
        \/ \E c \in UserCodes : codes' = Insert(codes, l, NewDeviceCode(c))
    BY DEF DeviceCode
  <1>6. l \notin DOMAIN codes /\ l \notin DOMAIN keys
    BY <1>1 DEF IInv, NothingYet
  <1>7. /\ DOMAIN codes' \subseteq Logins /\ codes' \in [DOMAIN codes' -> DeviceCodeDoc]
        /\ DOMAIN codes' \subseteq DOMAIN codes \cup {l}
        /\ \A m \in DOMAIN codes : m \in DOMAIN codes' /\ codes'[m] = codes[m]
        /\ l \in DOMAIN codes' => ~codes'[l].approved
    <2>1. CASE codes' = codes
      BY <1>6, <2>1 DEF IInv, TypeOK
    <2>2. ASSUME NEW c \in UserCodes, codes' = Insert(codes, l, NewDeviceCode(c))
          PROVE  <1>7!:
      <3>1. NewDeviceCode(c) \in DeviceCodeDoc
        <4>1. now + Expiration \in Times
          BY <1>3, AccessAssumption DEF IInv, TypeOK, Times
        <4> QED
          BY <4>1 DEF NewDeviceCode, DeviceCodeDoc
      <3>2. codes' \in [DOMAIN codes' -> DeviceCodeDoc]
        BY <2>2, <3>1, InsertedType DEF IInv, TypeOK
      <3>3. /\ DOMAIN codes' = DOMAIN codes \cup {l}
            /\ codes'[l] = NewDeviceCode(c)
            /\ \A m \in DOMAIN codes : m # l => codes'[m] = codes[m]
        BY <1>6, <2>2 DEF Insert
      <3> QED
        BY <1>6, <3>2, <3>3 DEF IInv, TypeOK, NewDeviceCode
    <2> QED
      BY <1>5, <2>1, <2>2
  <1>8. TypeOK'
    BY <1>1, <1>4, <1>7 DEF IInv, TypeOK
  <1>9. NothingYet'
    BY <1>1, <1>4, <1>6, <1>7 DEF IInv, NothingYet
  <1>10. SavesIssued'
    BY <1>1, <1>4 DEF IInv, SavesIssued
  <1>11. ApprovedByApprover'
    BY <1>1, <1>7 DEF IInv, ApprovedByApprover
  <1>12. KeptUser'
    BY <1>1, <1>4, <1>6, <1>7 DEF IInv, KeptUser, Settled
  <1>13. KeyAccountedFor'
    BY <1>1, <1>4, <1>6 DEF IInv, KeyAccountedFor
  <1> QED
    BY <1>8, <1>9, <1>10, <1>11, <1>12, <1>13 DEF IInv

LEMMA PollOnceStep ==
  ASSUME IInv, NEW l \in Logins, PollOnce(l)
  PROVE  IInv'
  <1>1. /\ cli[l].pc = "poll" /\ now >= cli[l].tick
        /\ codes' = codes /\ keys' = keys /\ file' = file /\ approver' = approver /\ loose' = loose
        /\ now' = now /\ accounts' = accounts /\ homes' = homes /\ web' = web
    BY DEF PollOnce, api, hist
  <1>2. cli \in [Logins -> [pc : Pcs, deadline : Nat, tick : Nat, user : Users \cup {Nobody}]]
    BY DEF IInv, TypeOK
  <1>3. /\ cli' \in [Logins -> [pc : Pcs, deadline : Nat, tick : Nat, user : Users \cup {Nobody}]]
        /\ cli'[l].pc \in {"poll", "issue", "failed", "expired"}
        /\ cli'[l].pc = "issue" =>
             Settled(l) /\ cli'[l].user = approver[l] /\ cli'[l].user \in Users
        /\ \A m \in Logins : m # l => cli'[m] = cli[m]
    <2>1. CASE Goto(l, "failed")
      BY <2>1, GotoMoves DEF IInv, Pcs
    <2>2. CASE Goto(l, "expired")
      BY <2>2, GotoMoves DEF IInv, Pcs
    <2>3. CASE cli' = [cli EXCEPT ![l].tick = NextTick(l)]
      BY <1>1, <1>2, <2>3, NextTickType DEF IInv
    <2>4. CASE /\ DevicePoll(l) \notin {"error", "pending"}
               /\ cli' = [cli EXCEPT ![l].pc = "issue", ![l].user = DevicePoll(l)]
      <3>1. DevicePoll(l) \in Users /\ DevicePoll(l) = approver[l] /\ Settled(l)
        BY <2>4, PollAnswers DEF IInv, Settled
      <3> HIDE DEF DevicePoll
      <3> QED
        BY <1>2, <2>4, <3>1 DEF Pcs
    <2> QED
      BY <2>1, <2>2, <2>3, <2>4 DEF PollOnce
  <1>4. TypeOK'
    BY <1>1, <1>3 DEF IInv, TypeOK
  <1>5. NothingYet'
    BY <1>1, <1>3 DEF IInv, NothingYet
  <1>6. SavesIssued' /\ ApprovedByApprover'
    BY <1>1, <1>3 DEF IInv, SavesIssued, ApprovedByApprover
  <1>7. KeptUser'
    BY <1>1, <1>3 DEF IInv, KeptUser, Settled
  <1>8. KeyAccountedFor'
    <2>1. l \notin DOMAIN keys
      BY <1>1 DEF IInv, NothingYet
    <2> QED
      BY <1>1, <1>3, <2>1 DEF IInv, KeyAccountedFor
  <1> QED
    BY <1>4, <1>5, <1>6, <1>7, <1>8 DEF IInv

LEMMA IssueCLIKeyStep ==
  ASSUME IInv, NEW l \in Logins, IssueCLIKey(l)
  PROVE  IInv'
  <1>1. /\ cli[l].pc = "issue" /\ keys' = Insert(keys, l, NewAPIKey(cli[l].user, 0))
        /\ \/ Goto(l, "save") /\ loose' = loose
           \/ Goto(l, "failed") /\ loose' = loose \cup {l}
        /\ codes' = codes /\ file' = file /\ approver' = approver
        /\ now' = now /\ accounts' = accounts /\ homes' = homes /\ web' = web
    BY DEF IssueCLIKey, GiveUp
  <1>2. /\ cli' \in [Logins -> [pc : Pcs, deadline : Nat, tick : Nat, user : Users \cup {Nobody}]]
        /\ \A m \in Logins : m # l => cli'[m] = cli[m]
        /\ \/ cli'[l].pc = "save" /\ loose' = loose
           \/ cli'[l].pc = "failed" /\ loose' = loose \cup {l}
    <2>1. CASE Goto(l, "save") /\ loose' = loose
      BY <2>1, GotoMoves DEF IInv, Pcs
    <2>2. CASE Goto(l, "failed") /\ loose' = loose \cup {l}
      BY <2>2, GotoMoves DEF IInv, Pcs
    <2> QED
      BY <1>1, <2>1, <2>2
  <1>3. /\ l \notin DOMAIN keys /\ Settled(l)
        /\ cli[l].user = approver[l] /\ cli[l].user \in Users
    BY <1>1 DEF IInv, NothingYet, KeptUser
  <1>4. /\ NewAPIKey(cli[l].user, 0) \in APIKeyDoc
        /\ NewAPIKey(cli[l].user, 0).user = approver[l]
        /\ NewAPIKey(cli[l].user, 0).expiresAt = {}
    BY <1>3 DEF NewAPIKey, ExpiresAt, APIKeyDoc
  <1>5. keys' \in [DOMAIN keys' -> APIKeyDoc]
    BY <1>1, <1>4, InsertedType DEF IInv, TypeOK
  <1>6. /\ DOMAIN keys' = DOMAIN keys \cup {l}
        /\ keys'[l] = NewAPIKey(cli[l].user, 0)
        /\ \A m \in DOMAIN keys : keys'[m] = keys[m]
    BY <1>1, <1>3 DEF Insert
  <1>7. TypeOK'
    BY <1>1, <1>2, <1>5, <1>6 DEF IInv, TypeOK, Keys
  <1>8. NothingYet' /\ SavesIssued' /\ ApprovedByApprover'
    BY <1>1, <1>2, <1>6 DEF IInv, NothingYet, SavesIssued, ApprovedByApprover
  <1>9. KeptUser'
    BY <1>1, <1>2, <1>3, <1>4, <1>6 DEF IInv, KeptUser, Settled
  <1>10. KeyAccountedFor'
    BY <1>1, <1>2, <1>6 DEF IInv, KeyAccountedFor
  <1> QED
    BY <1>7, <1>8, <1>9, <1>10 DEF IInv

LEMMA SaveAPIKeyStep ==
  ASSUME IInv, NEW l \in Logins, SaveAPIKey(l)
  PROVE  IInv'
  <1>1. /\ codes' = codes /\ keys' = keys /\ approver' = approver
        /\ now' = now /\ accounts' = accounts /\ homes' = homes /\ web' = web
        /\ cli[l].pc \in {"save", "write"}
    BY DEF SaveAPIKey, api
  <1>2. PICK pc \in {"write", "done"} :
          /\ Goto(l, pc)
          /\ \/ pc = "write" /\ file' = "empty" /\ loose' = loose \cup ({file} \cap Keys)
             \/ pc = "done" /\ file' = l /\ loose' = loose \cup (({file} \cap Keys) \ {l})
    BY DEF SaveAPIKey, Truncate, GiveUp
  <1>3. /\ cli' \in [Logins -> [pc : Pcs, deadline : Nat, tick : Nat, user : Users \cup {Nobody}]]
        /\ cli'[l].pc = pc
        /\ \A m \in Logins : m # l => cli'[m] = cli[m]
    BY <1>2, GotoMoves DEF IInv, Pcs
  <1>4. l \in DOMAIN keys
    BY <1>1 DEF IInv, SavesIssued
  <1>5. TypeOK'
    BY <1>1, <1>2, <1>3, <1>4 DEF IInv, TypeOK
  <1>6. NothingYet' /\ SavesIssued' /\ ApprovedByApprover'
    BY <1>1, <1>3 DEF IInv, NothingYet, SavesIssued, ApprovedByApprover
  <1>7. KeptUser'
    BY <1>1, <1>2, <1>3 DEF IInv, KeptUser, Settled
  <1>8. KeyAccountedFor'
    BY <1>1, <1>2, <1>3 DEF IInv, KeyAccountedFor, Keys
  <1> QED
    BY <1>5, <1>6, <1>7, <1>8 DEF IInv

LEMMA LoginStopsStep ==
  ASSUME IInv, NEW l \in Logins, LoginStops(l)
  PROVE  IInv'
  <1>1. /\ codes' = codes /\ keys' = keys /\ approver' = approver /\ file' = file
        /\ now' = now /\ accounts' = accounts /\ homes' = homes /\ web' = web
        /\ cli[l].pc # "idle" /\ Goto(l, "failed")
        /\ IF cli[l].pc \in {"save", "write"} THEN loose' = loose \cup {l} ELSE loose' = loose
    BY DEF LoginStops, api, GiveUp
  <1>2. /\ cli' \in [Logins -> [pc : Pcs, deadline : Nat, tick : Nat, user : Users \cup {Nobody}]]
        /\ cli'[l].pc = "failed"
        /\ \A m \in Logins : m # l => cli'[m] = cli[m]
    BY <1>1, GotoMoves DEF IInv, Pcs
  <1>3. TypeOK'
    BY <1>1, <1>2 DEF IInv, TypeOK
  <1>4. NothingYet' /\ SavesIssued' /\ ApprovedByApprover'
    BY <1>1, <1>2 DEF IInv, NothingYet, SavesIssued, ApprovedByApprover
  <1>5. KeptUser'
    BY <1>1, <1>2 DEF IInv, KeptUser, Settled
  <1>6. KeyAccountedFor'
    BY <1>1, <1>2 DEF IInv, KeyAccountedFor
  <1> QED
    BY <1>3, <1>4, <1>5, <1>6 DEF IInv
-----------------------------------------------------------------------------
(* The steps of the browser, and the rest.                                 *)

(* Only a device that nobody has approved yet can be approved.             *)
LEMMA ApproveStep ==
  ASSUME IInv, NEW b \in Browsers, DeviceCodeApprove(b)
  PROVE  IInv'
  <1> DEFINE u == web[b].call.by
             matched == ApproveMatch(web[b].call.userCode)
  <1>1. /\ keys' = keys /\ file' = file /\ cli' = cli /\ loose' = loose
        /\ now' = now /\ accounts' = accounts /\ homes' = homes
        /\ web[b].call.op = "DeviceCodeApprove"
    BY DEF DeviceCodeApprove
  <1>2. TypeOK /\ web[b] # Idle /\ u \in Users
    BY <1>1, Caller DEF IInv
  <1>3. web' \in [Browsers -> {Idle} \cup [call : Calls, pc : Phases]]
    BY <1>2, StepType, EndType DEF DeviceCodeApprove, Phases
  <1>4. CASE codes' = codes /\ approver' = approver
    <2>1. TypeOK'
      BY <1>1, <1>3, <1>4 DEF IInv, TypeOK
    <2> QED
      BY <1>1, <1>4, <2>1, Frame
  <1>5. ASSUME NEW l \in matched,
               codes' = [codes EXCEPT ![l].approved = TRUE, ![l].user = u],
               approver' = [approver EXCEPT ![l] = u]
        PROVE  IInv'
    <2>1. l \in DOMAIN codes /\ ~codes[l].approved /\ l \in Logins
      BY <1>2 DEF ApproveMatch, TypeOK
    <2>2. codes \in [DOMAIN codes -> DeviceCodeDoc] /\ approver \in [Logins -> Users \cup {Nobody}]
      BY <1>2 DEF TypeOK
    <2> HIDE DEF u, matched
    <2>3. /\ codes' \in [DOMAIN codes -> DeviceCodeDoc]
          /\ codes'[l].approved /\ codes'[l].user = u
          /\ \A m \in DOMAIN codes : m # l => codes'[m] = codes[m]
      BY <1>2, <1>5, <2>1, <2>2 DEF DeviceCodeDoc
    <2>4. /\ approver' \in [Logins -> Users \cup {Nobody}]
          /\ approver'[l] = u
          /\ \A m \in Logins : m # l => approver'[m] = approver[m]
      BY <1>2, <1>5, <2>1, <2>2
    <2>5. TypeOK'
      BY <1>1, <1>3, <2>3, <2>4 DEF IInv, TypeOK
    <2>6. DOMAIN codes' = DOMAIN codes
      BY <2>3
    <2>7. NothingYet' /\ SavesIssued'
      BY <1>1, <2>6 DEF IInv, NothingYet, SavesIssued
    <2>8. ApprovedByApprover'
      BY <1>2, <2>3, <2>4, <2>6 DEF IInv, ApprovedByApprover, TypeOK
    <2>9. ~Settled(l)
      BY <2>1 DEF Settled
    <2>10. \A m \in Logins : Settled(m) => Settled(m)'
      BY <2>3, <2>6 DEF Settled
    <2>11. KeptUser'
      BY <1>1, <2>4, <2>9, <2>10 DEF IInv, KeptUser
    <2>12. KeyAccountedFor'
      BY <1>1 DEF IInv, KeyAccountedFor
    <2> QED
      BY <2>5, <2>7, <2>8, <2>11, <2>12 DEF IInv
  <1> QED
    BY <1>4, <1>5 DEF DeviceCodeApprove

LEMMA IssueAPIKeyStep ==
  ASSUME IInv, NEW b \in Browsers, IssueAPIKey(b)
  PROVE  IInv'
  <1>1. /\ codes' = codes /\ file' = file /\ cli' = cli /\ loose' = loose /\ approver' = approver
        /\ now' = now /\ accounts' = accounts /\ homes' = homes
        /\ web[b].call.op = "IssueAPIKey" /\ End(b)
    BY DEF IssueAPIKey, hist
  <1> PICK k \in WebKeys \ DOMAIN keys :
        keys' = Insert(keys, k, NewAPIKey(web[b].call.by, web[b].call.days))
    BY DEF IssueAPIKey
  <1>2. TypeOK /\ web[b].call.by \in Users /\ web[b].call.days \in {0, 1}
    BY <1>1, Caller DEF IInv
  <1>3. NewAPIKey(web[b].call.by, web[b].call.days) \in APIKeyDoc
    <2>1. now + 1 \in Times
      BY <1>2, AccessAssumption DEF TypeOK, Times
    <2>2. ExpiresAt(web[b].call.days) \in {{}} \cup {{t} : t \in Times}
      BY <1>2, <2>1 DEF ExpiresAt
    <2> QED
      BY <1>2, <2>2 DEF NewAPIKey, APIKeyDoc
  <1>4. keys' \in [DOMAIN keys' -> APIKeyDoc]
    BY <1>2, <1>3, InsertedType DEF TypeOK
  <1>5. /\ DOMAIN keys' = DOMAIN keys \cup {k}
        /\ \A m \in DOMAIN keys : keys'[m] = keys[m]
        /\ k \notin Logins
    BY AccessAssumption DEF Insert
  <1>6. TypeOK'
    BY <1>1, <1>2, <1>4, <1>5, EndType DEF TypeOK, Keys
  <1>7. NothingYet' /\ SavesIssued' /\ ApprovedByApprover'
    BY <1>1, <1>5 DEF IInv, NothingYet, SavesIssued, ApprovedByApprover
  <1>8. KeptUser'
    BY <1>1, <1>5 DEF IInv, KeptUser, Settled
  <1>9. KeyAccountedFor'
    BY <1>1, <1>5 DEF IInv, KeyAccountedFor
  <1> QED
    BY <1>6, <1>7, <1>8, <1>9 DEF IInv

LEMMA RevokeAPIKeyStep ==
  ASSUME IInv, NEW b \in Browsers, RevokeAPIKey(b)
  PROVE  IInv'
  <1>1. /\ codes' = codes /\ file' = file /\ cli' = cli /\ loose' = loose /\ approver' = approver
        /\ now' = now /\ accounts' = accounts /\ homes' = homes
        /\ web[b].call.op = "RevokeAPIKey"
    BY DEF RevokeAPIKey, hist
  <1>2. TypeOK /\ web[b] # Idle
    BY <1>1, Caller DEF IInv
  <1>3. web' \in [Browsers -> {Idle} \cup [call : Calls, pc : Phases]]
    BY <1>2, StepType, EndType DEF RevokeAPIKey, Phases
  <1>4. CASE keys' = keys
    <2>1. TypeOK'
      BY <1>1, <1>2, <1>3, <1>4 DEF TypeOK
    <2> QED
      BY <1>1, <1>4, <2>1, Frame
  <1>5. ASSUME NEW k, keys' = Revoke(k)
        PROVE  IInv'
    <2>1. keys \in [DOMAIN keys -> APIKeyDoc]
      BY <1>2 DEF TypeOK
    <2>2. /\ DOMAIN keys' = DOMAIN keys
          /\ keys' \in [DOMAIN keys -> APIKeyDoc]
          /\ \A m \in DOMAIN keys :
               keys'[m].user = keys[m].user /\ keys'[m].expiresAt = keys[m].expiresAt
      BY <1>5, <2>1 DEF Revoke, APIKeyDoc
    <2>3. TypeOK'
      BY <1>1, <1>2, <1>3, <2>2 DEF TypeOK
    <2>4. NothingYet' /\ SavesIssued' /\ ApprovedByApprover' /\ KeyAccountedFor'
      BY <1>1, <2>2 DEF IInv, NothingYet, SavesIssued, ApprovedByApprover, KeyAccountedFor
    <2>5. KeptUser'
      BY <1>1, <2>2 DEF IInv, KeptUser, Settled
    <2> QED
      BY <2>3, <2>4, <2>5 DEF IInv
  <1> QED
    BY <1>4, <1>5 DEF RevokeAPIKey

LEMMA GoogleAuthStep ==
  ASSUME IInv, NEW b \in Browsers, GoogleAuth(b)
  PROVE  IInv'
  <1>1. /\ codes' = codes /\ keys' = keys /\ file' = file /\ cli' = cli
        /\ loose' = loose /\ approver' = approver /\ now' = now
        /\ web[b].call.op = "GoogleAuth"
    BY DEF GoogleAuth, hist
  <1>2. TypeOK /\ web[b] # Idle /\ web[b].call.by \in Users
    BY <1>1, Caller DEF IInv
  <1>3. web' \in [Browsers -> {Idle} \cup [call : Calls, pc : Phases]]
    BY <1>2, StepType, EndType DEF GoogleAuth, SignUp, Phases
  <1>4. accounts' \subseteq Users /\ homes' \subseteq Users
    BY <1>2 DEF GoogleAuth, SignUp, TypeOK
  <1>5. TypeOK'
    BY <1>1, <1>2, <1>3, <1>4 DEF TypeOK
  <1> QED
    BY <1>1, <1>5, Frame

LEMMA RemoveExpiredStep ==
  ASSUME IInv, NEW l \in Logins, RemoveExpired(l)
  PROVE  IInv'
  <1>1. /\ keys' = keys /\ file' = file /\ cli' = cli /\ loose' = loose /\ approver' = approver
        /\ now' = now /\ accounts' = accounts /\ homes' = homes /\ web' = web
        /\ codes' = [m \in DOMAIN codes \ {l} |-> codes[m]]
    BY DEF RemoveExpired, hist, Restrict
  <1>2. /\ DOMAIN codes' \subseteq DOMAIN codes
        /\ \A m \in DOMAIN codes' : codes'[m] = codes[m]
    BY <1>1
  <1>3. codes' \in [DOMAIN codes' -> DeviceCodeDoc]
    BY <1>1 DEF IInv, TypeOK
  <1>4. TypeOK'
    BY <1>1, <1>2, <1>3 DEF IInv, TypeOK
  <1>5. NothingYet' /\ SavesIssued' /\ ApprovedByApprover' /\ KeyAccountedFor'
    BY <1>1, <1>2 DEF IInv, NothingYet, SavesIssued, ApprovedByApprover, KeyAccountedFor
  <1>6. KeptUser'
    BY <1>1, <1>2 DEF IInv, KeptUser, Settled
  <1> QED
    BY <1>4, <1>5, <1>6 DEF IInv

LEMMA TouchKeeps ==
  ASSUME Touch
  PROVE  keys' = keys
  BY DEF Touch, UpdateLastUsedAt

(* The other steps leave documents, file and logins alone.                 *)
LEMMA OtherSteps ==
  ASSUME IInv,
         \/ \E b \in Browsers : RequestFails(b) \/ \E call \in Calls : Ask(b, call)
         \/ GetAccessToken \/ Authenticate \/ Touch \/ Clock
         \/ \E u \in Users : AccountDeleted(u)
         \/ UNCHANGED vars
  PROVE  IInv'
  <1>1. /\ codes' = codes /\ keys' = keys /\ file' = file /\ cli' = cli
        /\ loose' = loose /\ approver' = approver
    BY TouchKeeps DEF RequestFails, Ask, GetAccessToken, Authenticate, Touch, Clock, AccountDeleted,
                      vars, api, hist
  <1>2. TypeOK
    BY DEF IInv
  <1>3. now' \in 0 .. MaxTime
    BY <1>2, AccessAssumption
       DEF TypeOK, RequestFails, Ask, GetAccessToken, Authenticate, Touch, Clock, AccountDeleted, vars
  <1>4. accounts' \subseteq Users /\ homes' \subseteq Users
    BY <1>2 DEF TypeOK, RequestFails, Ask, GetAccessToken, Authenticate, Touch, Clock, AccountDeleted,
                vars, api
  <1>5. web' \in [Browsers -> {Idle} \cup [call : Calls, pc : Phases]]
    <2>1. ASSUME NEW b \in Browsers, RequestFails(b) PROVE <1>5!:
      BY <1>2, <2>1, EndType DEF RequestFails
    <2>2. ASSUME NEW b \in Browsers, NEW call \in Calls, Ask(b, call) PROVE <1>5!:
      <3>1. FirstStep[call.op] \in Phases
        BY DEF FirstStep, Phases, Calls, GoogleAuthReq, DeviceCodeApproveReq, IssueAPIKeyReq,
               RevokeAPIKeyReq
      <3>2. web' = [web EXCEPT ![b] = [call |-> call, pc |-> FirstStep[call.op]]]
        BY <2>2 DEF Ask
      <3> QED
        BY <1>2, <3>1, <3>2 DEF TypeOK
    <2>3. CASE web' = web
      BY <1>2, <2>3 DEF TypeOK
    <2> QED
      BY <2>1, <2>2, <2>3 DEF GetAccessToken, Authenticate, Touch, Clock, AccountDeleted, vars
  <1>6. TypeOK'
    BY <1>1, <1>2, <1>3, <1>4, <1>5 DEF TypeOK
  <1> QED
    BY <1>1, <1>6, Frame

LEMMA InitIInv == Init => IInv
  <1> SUFFICES ASSUME Init PROVE IInv
    OBVIOUS
  <1>1. DOMAIN codes = {} /\ DOMAIN keys = {}
    BY DEF Init
  <1>2. TypeOK
    <2>1. Fresh \in [pc : Pcs, deadline : Nat, tick : Nat, user : Users \cup {Nobody}]
      BY DEF Fresh, Pcs
    <2> QED
      BY <1>1, <2>1, AccessAssumption DEF Init, TypeOK
  <1> QED
    BY <1>1, <1>2
       DEF Init, IInv, NothingYet, SavesIssued, ApprovedByApprover, KeptUser, KeyAccountedFor, Fresh

LEMMA StepIInv == IInv /\ [Next]_vars => IInv'
  <1> SUFFICES ASSUME IInv, [Next]_vars PROVE IInv'
    OBVIOUS
  <1>1. ASSUME NEW l \in Logins, Login(l) \/ LoginStops(l) \/ RemoveExpired(l) PROVE IInv'
    BY <1>1, IsLoggedInStep, DeviceCodeStep, PollOnceStep, IssueCLIKeyStep, SaveAPIKeyStep,
       LoginStopsStep, RemoveExpiredStep DEF Login
  <1>2. ASSUME NEW b \in Browsers, Serve(b) PROVE IInv'
    BY <1>2, GoogleAuthStep, ApproveStep, IssueAPIKeyStep, RevokeAPIKeyStep DEF Serve
  <1> QED
    BY <1>1, <1>2, OtherSteps DEF Next

LEMMA Invariant == Spec => []IInv
  BY InitIInv, StepIInv, PTL DEF Spec
-----------------------------------------------------------------------------
(* The theorems.                                                           *)

(* The documents, the file, the logins and the requests have their types.  *)
THEOREM TypeCorrect == Spec => []TypeOK
  <1>1. IInv => TypeOK
    BY DEF IInv
  <1> QED
    BY <1>1, Invariant, PTL

(* Of any number of people who approve one device code, at once or in      *)
(* turn, the one who succeeds owns the key that ends up in auth.json.      *)
THEOREM SavedKeyOwner == Spec => []SavedKeyIsApprovers
  <1>1. IInv => SavedKeyIsApprovers
    <2> SUFFICES ASSUME IInv, file \in Logins PROVE keys[file].user = approver[file]
      BY DEF SavedKeyIsApprovers
    <2>1. file \in DOMAIN keys
      BY AccessAssumption DEF IInv, TypeOK
    <2> QED
      BY <2>1 DEF IInv, KeptUser
  <1> QED
    BY <1>1, Invariant, PTL

(* However logins overlap, fail or are killed, the key in auth.json is in  *)
(* the collection, does not expire, and works unless it was revoked.       *)
THEOREM SavedKeyWorks == Spec => []KeyOnDiskWorks
  <1>1. IInv => KeyOnDiskWorks
    <2> SUFFICES ASSUME IInv, file \in Logins PROVE ValidateAPIKey(file) \/ keys[file].revoked
      BY DEF KeyOnDiskWorks
    <2>1. file \in DOMAIN keys
      BY AccessAssumption DEF IInv, TypeOK
    <2>2. keys[file].expiresAt = {}
      BY <2>1 DEF IInv, KeptUser
    <2> QED
      BY <2>1, <2>2 DEF ValidateAPIKey, IsExpired
  <1> QED
    BY <1>1, Invariant, PTL

(* No key of a CLI login is lost track of: it is being saved, it is in     *)
(* auth.json, or its login failed or was overwritten.                      *)
THEOREM NoKeyForgotten == Spec => []KeyAccountedFor
  <1>1. IInv => KeyAccountedFor
    BY DEF IInv
  <1> QED
    BY <1>1, Invariant, PTL

(* No goroutine that a validation left behind, nor any other step, brings  *)
(* a revoked key back.                                                     *)
THEOREM NeverUnrevoked == Spec => RevokedForGood
  <1> DEFINE A == \A k \in Keys : (k \in DOMAIN keys /\ keys[k].revoked) => keys'[k].revoked
  <1>1. IInv /\ [Next]_vars => [A]_keys
    <2> SUFFICES ASSUME IInv, Next, NEW k \in Keys, k \in DOMAIN keys, keys[k].revoked,
                        keys' # keys
                 PROVE  keys'[k].revoked
      BY DEF vars, api
    <2>1. ASSUME NEW j, NEW doc, j \notin DOMAIN keys, keys' = Insert(keys, j, doc)
          PROVE  keys'[k].revoked
      BY <2>1 DEF Insert
    <2>2. ASSUME NEW j, keys' = Revoke(j)
          PROVE  keys'[k].revoked
      <3>1. keys \in [DOMAIN keys -> APIKeyDoc]
        BY DEF IInv, TypeOK
      <3> QED
        BY <2>2, <3>1 DEF Revoke, APIKeyDoc
    <2>3. ASSUME NEW l \in Logins, Login(l) \/ LoginStops(l) \/ RemoveExpired(l)
          PROVE  keys'[k].revoked
      <3>1. IssueCLIKey(l)
        BY <2>3 DEF Login, IsLoggedIn, DeviceCode, PollOnce, SaveAPIKey, LoginStops, RemoveExpired, api
      <3>2. l \notin DOMAIN keys
        BY <3>1 DEF IInv, NothingYet, IssueCLIKey
      <3> QED
        BY <2>1, <3>1, <3>2 DEF IssueCLIKey
    <2>4. ASSUME NEW b \in Browsers, Serve(b)
          PROVE  keys'[k].revoked
      <3>1. IssueAPIKey(b) \/ RevokeAPIKey(b)
        BY <2>4 DEF Serve, GoogleAuth, DeviceCodeApprove
      <3> QED
        BY <2>1, <2>2, <3>1 DEF IssueAPIKey, RevokeAPIKey
    <2>5. ~Touch
      BY TouchKeeps
    <2> QED
      BY <2>3, <2>4, <2>5
         DEF Next, RequestFails, Ask, GetAccessToken, Authenticate, Clock, AccountDeleted, api
  <1> QED
    BY <1>1, Invariant, PTL DEF Spec, RevokedForGood
-----------------------------------------------------------------------------
(* The promise of DeviceGrant.                                             *)

(* A device is approved once at most, and a code that is shown is one      *)
(* device's.                                                               *)
OneApprover ==
  /\ \A l \in Logins : cli[l].pc \in {"idle", "code"} => approver[l] = Nobody
  /\ \A l \in DOMAIN codes : ~codes[l].approved => approver[l] = Nobody
  /\ \A l, m \in DOMAIN codes : codes[l].userCode = codes[m].userCode => l = m

(* The mapping of Grants.                                                  *)
Shown == [l \in DOMAIN codes |-> [code |-> codes[l].userCode, until |-> codes[l].expiresAt]]
Told == {l \in Logins : cli[l].pc = "issue"}
Owner == [l \in Logins \cap DOMAIN keys |-> keys[l].user]
Revoked == {l \in Logins \cap DOMAIN keys : keys[l].revoked}
Kept == {file} \cap Logins

Granted == [Grants!Next]_(Grants!vars)

(* Logins that move, without one getting its tokens or using them.         *)
LEMMA ToldKept ==
  ASSUME \A m \in Logins : cli'[m].pc = "issue" <=> cli[m].pc = "issue"
  PROVE  Told' = Told
  BY DEF Told

LEMMA Unseen ==
  ASSUME UNCHANGED <<now, accounts, codes, keys, file, approver>>, Told' = Told
  PROVE  Granted
  <1>1. Shown' = Shown /\ Owner' = Owner /\ Revoked' = Revoked /\ Kept' = Kept
    BY DEF Shown, Owner, Revoked, Kept
  <1> QED
    BY <1>1 DEF Granted, Grants!vars, Shown, Told, Owner, Revoked, Kept

LEMMA IsLoggedInGranted ==
  ASSUME IInv, OneApprover, NEW l \in Logins, IsLoggedIn(l)
  PROVE  Granted /\ OneApprover'
  <1>1. PICK pc \in {"code", "failed"} : cli[l].pc = "idle" /\ Goto(l, pc)
    BY DEF IsLoggedIn
  <1>2. cli'[l].pc = pc /\ \A m \in Logins : m # l => cli'[m] = cli[m]
    BY <1>1, GotoMoves DEF IInv, Pcs
  <1>3. UNCHANGED <<now, accounts, codes, keys, file, approver>>
    BY DEF IsLoggedIn, api, hist
  <1>4. Told' = Told
    BY <1>1, <1>2, ToldKept
  <1> QED
    BY <1>1, <1>2, <1>3, <1>4, Unseen DEF OneApprover

LEMMA DeviceCodeGranted ==
  ASSUME IInv, OneApprover, NEW l \in Logins, DeviceCode(l)
  PROVE  Granted /\ OneApprover'
  <1>1. cli[l].pc = "code" /\ UNCHANGED <<now, accounts, keys, file, approver>>
    BY DEF DeviceCode, hist
  <1>2. cli'[l].pc \in {"poll", "failed"} /\ \A m \in Logins : m # l => cli'[m] = cli[m]
    <2>1. CASE Goto(l, "failed")
      BY <2>1, GotoMoves DEF IInv, Pcs
    <2>2. CASE cli' = [cli EXCEPT ![l] = [pc |-> "poll", deadline |-> now + Expiration,
                                          tick |-> now + Interval, user |-> Nobody]]
      BY <2>2 DEF IInv, TypeOK
    <2> QED
      BY <2>1, <2>2 DEF DeviceCode
  <1>3. Told' = Told
    BY <1>1, <1>2, ToldKept
  <1>4. l \notin DOMAIN codes /\ l \notin DOMAIN keys /\ approver[l] = Nobody /\ l \notin Told
    BY <1>1 DEF IInv, NothingYet, OneApprover, Told
  <1>5. CASE codes' = codes
    BY <1>1, <1>2, <1>3, <1>5, Unseen DEF OneApprover
  <1>6. ASSUME NEW c \in UserCodes, ~UserCodeTaken(c), codes' = Insert(codes, l, NewDeviceCode(c))
        PROVE  Granted /\ OneApprover'
    <2>1. /\ DOMAIN codes' = DOMAIN codes \cup {l} /\ codes'[l] = NewDeviceCode(c)
          /\ \A m \in DOMAIN codes : codes'[m] = codes[m]
      BY <1>4, <1>6 DEF Insert
    <2>2. codes'[l].userCode = c /\ ~codes'[l].approved /\ codes'[l].expiresAt = now + Expiration
      BY <2>1 DEF NewDeviceCode
    <2>3. \A m \in DOMAIN codes : codes[m].userCode # c
      BY <1>6 DEF UserCodeTaken
    <2>4. OneApprover'
      BY <1>1, <1>2, <1>4, <2>1, <2>2, <2>3 DEF OneApprover
    <2>5. Shown' = Grants!Extend(Shown, l, [code |-> c, until |-> now + Expiration])
      BY <2>1, <2>2 DEF Shown, Grants!Extend
    <2>6. Owner' = Owner /\ Revoked' = Revoked /\ Kept' = Kept /\ DOMAIN Shown = DOMAIN codes /\ l \notin DOMAIN Owner
      BY <1>1, <1>4 DEF Owner, Revoked, Kept, Shown
    <2>7. \A m \in DOMAIN Shown : Shown[m].code # c
      BY <2>3 DEF Shown
    <2>8. Grants!Show(l, c)
      BY <1>1, <1>3, <1>4, <2>5, <2>6, <2>7 DEF Grants!Show, Grants!grants, Shown, Told, Owner, Revoked, Kept
    <2> QED
      BY <2>4, <2>8 DEF Granted, Grants!Next
  <1> QED
    BY <1>5, <1>6 DEF DeviceCode

LEMMA PollOnceGranted ==
  ASSUME IInv, OneApprover, NEW l \in Logins, PollOnce(l)
  PROVE  Granted /\ OneApprover'
  <1>1. cli[l].pc = "poll" /\ UNCHANGED <<now, accounts, codes, keys, file, approver>>
    BY DEF PollOnce, api, hist
  <1>2. l \notin DOMAIN keys /\ cli \in [Logins -> [pc : Pcs, deadline : Nat, tick : Nat, user : Users \cup {Nobody}]]
    BY <1>1 DEF IInv, NothingYet, TypeOK
  <1>3. CASE /\ DevicePoll(l) \notin {"error", "pending"}
             /\ cli' = [cli EXCEPT ![l].pc = "issue", ![l].user = DevicePoll(l)]
    <2>1. DevicePoll(l) = approver[l] /\ l \in DOMAIN codes
      BY <1>3, PollAnswers DEF IInv
    <2>2. now <= codes[l].expiresAt /\ approver[l] \in accounts
      <3>1. codes[l] \in DeviceCodeDoc /\ now \in Nat
        BY <2>1 DEF IInv, TypeOK
      <3>2. Poll(codes[l]) = DevicePoll(l)
        BY <2>1 DEF DevicePoll
      <3>3. codes[l].expiresAt \in Nat
        BY <3>1, AccessAssumption DEF DeviceCodeDoc, Times
      <3> QED
        BY <1>3, <2>1, <3>1, <3>2, <3>3 DEF Poll, DeviceCodeDoc
    <2>3. cli'[l].pc = "issue" /\ \A m \in Logins : m # l => cli'[m] = cli[m]
      BY <1>2, <1>3
    <2>4. Told' = Told \cup {l}
      BY <2>3 DEF Told
    <2>5. Shown' = Shown /\ Owner' = Owner /\ Revoked' = Revoked /\ Kept' = Kept
      BY <1>1 DEF Shown, Owner, Revoked, Kept
    <2>6. l \in DOMAIN Shown /\ l \notin DOMAIN Owner /\ Shown[l].until = codes[l].expiresAt
      BY <1>2, <2>1 DEF Shown, Owner
    <2>7. Grants!Tell(l)
      BY <1>1, <2>2, <2>4, <2>5, <2>6 DEF Grants!Tell, Shown, Told, Owner, Revoked, Kept
    <2>8. Granted
      BY <2>6, <2>7 DEF Granted, Grants!Next, Shown
    <2> QED
      BY <1>1, <2>3, <2>8 DEF OneApprover
  <1>4. CASE Goto(l, "failed") \/ Goto(l, "expired") \/ cli' = [cli EXCEPT ![l].tick = NextTick(l)]
    <2>1. cli'[l].pc \in {"poll", "failed", "expired"} /\ \A m \in Logins : m # l => cli'[m] = cli[m]
      BY <1>1, <1>2, <1>4, GotoMoves DEF IInv, Pcs
    <2>2. Told' = Told
      BY <1>1, <2>1, ToldKept
    <2> QED
      BY <1>1, <2>1, <2>2, Unseen DEF OneApprover
  <1> QED
    BY <1>3, <1>4 DEF PollOnce

LEMMA IssueCLIKeyGranted ==
  ASSUME IInv, OneApprover, NEW l \in Logins, IssueCLIKey(l)
  PROVE  Granted /\ OneApprover'
  <1>1. /\ cli[l].pc = "issue" /\ keys' = Insert(keys, l, NewAPIKey(cli[l].user, 0))
        /\ UNCHANGED <<now, accounts, codes, file, approver>> /\ (Goto(l, "save") \/ Goto(l, "failed"))
    BY DEF IssueCLIKey
  <1>2. cli'[l].pc \in {"save", "failed"} /\ \A m \in Logins : m # l => cli'[m] = cli[m]
    BY <1>1, GotoMoves DEF IInv, Pcs
  <1>3. l \notin DOMAIN keys /\ cli[l].user = approver[l]
    BY <1>1 DEF IInv, NothingYet, KeptUser
  <1>4. /\ DOMAIN keys' = DOMAIN keys \cup {l} /\ keys'[l].user = approver[l] /\ ~keys'[l].revoked
        /\ \A m \in DOMAIN keys : keys'[m] = keys[m]
    BY <1>1, <1>3 DEF Insert, NewAPIKey
  <1>5. l \in Told /\ Told' = Told \ {l}
    BY <1>1, <1>2 DEF Told
  <1>6. Owner' = Grants!Extend(Owner, l, approver[l]) /\ l \notin DOMAIN Owner
    BY <1>3, <1>4 DEF Owner, Grants!Extend
  <1>7. Revoked' = Revoked
    BY <1>3, <1>4 DEF Revoked
  <1>8. Shown' = Shown /\ Kept' = Kept
    BY <1>1 DEF Shown, Kept
  <1>9. Grants!Issue(l)
    BY <1>1, <1>5, <1>6, <1>7, <1>8 DEF Grants!Issue, Shown, Told, Owner, Revoked, Kept
  <1>10. Granted
    BY <1>5, <1>9 DEF Granted, Grants!Next, Told
  <1> QED
    BY <1>1, <1>2, <1>10 DEF OneApprover

LEMMA SaveAPIKeyGranted ==
  ASSUME IInv, OneApprover, NEW l \in Logins, SaveAPIKey(l)
  PROVE  Granted /\ OneApprover'
  <1>1. cli[l].pc \in {"save", "write"} /\ UNCHANGED <<now, accounts, codes, keys, approver>>
    BY DEF SaveAPIKey, api
  <1>2. PICK pc \in {"write", "done"} :
          Goto(l, pc) /\ file' = (IF pc = "write" THEN "empty" ELSE l)
    BY DEF SaveAPIKey, Truncate
  <1>3. cli'[l].pc = pc /\ \A m \in Logins : m # l => cli'[m] = cli[m]
    BY <1>2, GotoMoves DEF IInv, Pcs
  <1>4. Told' = Told
    BY <1>1, <1>3, ToldKept
  <1>5. Kept' \in {{}, {l}}
    BY <1>2, AccessAssumption DEF Kept
  <1>6. l \in DOMAIN Owner
    BY <1>1 DEF IInv, SavesIssued, Owner
  <1>7. Shown' = Shown /\ Owner' = Owner /\ Revoked' = Revoked
    BY <1>1 DEF Shown, Owner, Revoked
  <1>8. Grants!Keep(Kept')
    BY <1>1, <1>4, <1>7 DEF Grants!Keep, Grants!grants, Shown, Told, Owner, Revoked, Kept
  <1>9. Grants!Keep({}) \/ Grants!Keep({l})
    BY <1>5, <1>8
  <1>10. Granted
    BY <1>6, <1>9 DEF Granted, Grants!Next, Owner
  <1> QED
    BY <1>1, <1>3, <1>10 DEF OneApprover

LEMMA LoginStopsGranted ==
  ASSUME IInv, OneApprover, NEW l \in Logins, LoginStops(l)
  PROVE  Granted /\ OneApprover'
  <1>1. cli[l].pc # "idle" /\ Goto(l, "failed") /\ UNCHANGED <<now, accounts, codes, keys, file, approver>>
    BY DEF LoginStops, api
  <1>2. cli'[l].pc = "failed" /\ \A m \in Logins : m # l => cli'[m] = cli[m]
    BY <1>1, GotoMoves DEF IInv, Pcs
  <1>3. OneApprover'
    BY <1>1, <1>2 DEF OneApprover
  <1>4. CASE cli[l].pc # "issue"
    BY <1>1, <1>2, <1>3, <1>4, ToldKept, Unseen
  <1>5. CASE cli[l].pc = "issue"
    <2>1. l \in Told /\ Told' = Told \ {l}
      BY <1>2, <1>5 DEF Told
    <2>2. Shown' = Shown /\ Owner' = Owner /\ Revoked' = Revoked /\ Kept' = Kept
      BY <1>1 DEF Shown, Owner, Revoked, Kept
    <2>3. Grants!Leave(l)
      BY <1>1, <2>1, <2>2 DEF Grants!Leave, Shown, Told, Owner, Revoked, Kept
    <2> QED
      BY <1>3, <2>1, <2>3 DEF Granted, Grants!Next, Told
  <1> QED
    BY <1>4, <1>5

LEMMA RemoveExpiredGranted ==
  ASSUME IInv, OneApprover, NEW l \in Logins, RemoveExpired(l)
  PROVE  Granted /\ OneApprover'
  <1>1. /\ UNCHANGED <<now, accounts, keys, file, cli, approver>>
        /\ l \in DOMAIN codes /\ codes[l].expiresAt < now
        /\ codes' = [m \in DOMAIN codes \ {l} |-> codes[m]]
    BY DEF RemoveExpired, hist, Restrict
  <1>2. DOMAIN codes' = DOMAIN codes \ {l} /\ \A m \in DOMAIN codes' : codes'[m] = codes[m]
    BY <1>1
  <1>3. OneApprover'
    BY <1>1, <1>2 DEF OneApprover
  <1>4. Shown' = [m \in DOMAIN Shown \ {l} |-> Shown[m]] /\ l \in DOMAIN Shown /\ Shown[l].until = codes[l].expiresAt
    BY <1>1, <1>2 DEF Shown
  <1>5. Told' = Told /\ Owner' = Owner /\ Revoked' = Revoked /\ Kept' = Kept
    BY <1>1 DEF Told, Owner, Revoked, Kept
  <1>6. Grants!Forget(l)
    BY <1>1, <1>4, <1>5 DEF Grants!Forget, Grants!Restrict, Grants!grants, Shown, Told, Owner, Revoked, Kept
  <1> QED
    BY <1>3, <1>4, <1>6 DEF Granted, Grants!Next, Shown

LEMMA ApproveGranted ==
  ASSUME IInv, OneApprover, NEW b \in Browsers, DeviceCodeApprove(b)
  PROVE  Granted /\ OneApprover'
  <1> DEFINE u == web[b].call.by
             matched == ApproveMatch(web[b].call.userCode)
  <1>1. UNCHANGED <<now, accounts, keys, file, cli>> /\ web[b].call.op = "DeviceCodeApprove"
    BY DEF DeviceCodeApprove
  <1>2. u \in Users /\ Told' = Told
    BY <1>1, Caller DEF IInv, Told
  <1>3. CASE codes' = codes /\ approver' = approver
    BY <1>1, <1>2, <1>3, Unseen DEF OneApprover
  <1>4. ASSUME NEW l \in matched,
               codes' = [codes EXCEPT ![l].approved = TRUE, ![l].user = u],
               approver' = [approver EXCEPT ![l] = u]
        PROVE  Granted /\ OneApprover'
    <2>1. l \in DOMAIN codes /\ ~codes[l].approved /\ l \in Logins /\ codes[l].expiresAt > now
      BY DEF ApproveMatch, IInv, TypeOK
    <2>2. codes \in [DOMAIN codes -> DeviceCodeDoc] /\ approver \in [Logins -> Users \cup {Nobody}]
      BY DEF IInv, TypeOK
    <2> HIDE DEF u, matched
    <2>3. /\ DOMAIN codes' = DOMAIN codes /\ codes'[l].approved
          /\ \A m \in DOMAIN codes : /\ codes'[m].userCode = codes[m].userCode
                                     /\ codes'[m].expiresAt = codes[m].expiresAt
                                     /\ m # l => codes'[m].approved = codes[m].approved
      BY <1>4, <2>1, <2>2 DEF DeviceCodeDoc
    <2>4. approver[l] = Nobody /\ cli[l].pc \notin {"idle", "code"}
      BY <2>1 DEF OneApprover, IInv, NothingYet
    <2>5. \A m \in Logins : m # l => approver'[m] = approver[m]
      BY <1>4, <2>1, <2>2
    <2>6. OneApprover'
      BY <1>1, <2>3, <2>4, <2>5 DEF OneApprover, IInv, TypeOK
    <2>7. Shown' = Shown
      BY <2>3 DEF Shown
    <2>8. /\ DOMAIN Shown = DOMAIN codes
          /\ \A m \in DOMAIN codes : Shown[m].code = codes[m].userCode /\ Shown[m].until = codes[m].expiresAt
      BY DEF Shown
    <2>9. Owner' = Owner /\ Revoked' = Revoked /\ Kept' = Kept
      BY <1>1 DEF Owner, Revoked, Kept
    <2>10. now < Shown[l].until
      <3>1. now \in Nat /\ codes[l].expiresAt \in Nat
        BY <2>1, <2>2, AccessAssumption DEF IInv, TypeOK, DeviceCodeDoc, Times
      <3> QED
        BY <2>1, <2>8, <3>1
    <2>11. \A m \in DOMAIN Shown : Shown[m].code = Shown[l].code => m = l
      BY <2>1, <2>8 DEF OneApprover
    <2>12. Grants!Approve(l, u)
      BY <1>1, <1>2, <1>4, <2>4, <2>7, <2>9, <2>10, <2>11 DEF Grants!Approve, Shown, Told, Owner, Revoked, Kept
    <2>13. Granted
      BY <1>2, <2>1, <2>8, <2>12 DEF Granted, Grants!Next, Shown
    <2> QED
      BY <2>6, <2>13
  <1> QED
    BY <1>3, <1>4 DEF DeviceCodeApprove

LEMMA IssueAPIKeyGranted ==
  ASSUME IInv, OneApprover, NEW b \in Browsers, IssueAPIKey(b)
  PROVE  Granted /\ OneApprover'
  <1>1. UNCHANGED <<now, accounts, codes, file, cli, approver>>
    BY DEF IssueAPIKey, hist
  <1>2. PICK k \in WebKeys \ DOMAIN keys : keys' = Insert(keys, k, NewAPIKey(web[b].call.by, web[b].call.days))
    BY DEF IssueAPIKey
  <1>3. Logins \cap DOMAIN keys' = Logins \cap DOMAIN keys /\ \A m \in Logins \cap DOMAIN keys : keys'[m] = keys[m]
    BY <1>2, AccessAssumption DEF Insert
  <1>4. Shown' = Shown /\ Told' = Told /\ Owner' = Owner /\ Revoked' = Revoked /\ Kept' = Kept
    BY <1>1, <1>3 DEF Shown, Told, Owner, Revoked, Kept
  <1>5. Granted
    BY <1>1, <1>4 DEF Granted, Grants!vars, Shown, Told, Owner, Revoked, Kept
  <1> QED
    BY <1>1, <1>5 DEF OneApprover

LEMMA RevokeAPIKeyGranted ==
  ASSUME IInv, OneApprover, NEW b \in Browsers, RevokeAPIKey(b)
  PROVE  Granted /\ OneApprover'
  <1>1. UNCHANGED <<now, accounts, codes, file, cli, approver>>
    BY DEF RevokeAPIKey, hist
  <1>2. OneApprover'
    BY <1>1 DEF OneApprover
  <1>3. Shown' = Shown /\ Told' = Told /\ Kept' = Kept
    BY <1>1 DEF Shown, Told, Kept
  <1>4. CASE keys' = keys
    BY <1>1, <1>2, <1>3, <1>4, Unseen
  <1>5. ASSUME NEW k, keys' = Revoke(k) PROVE Granted
    <2>1. keys \in [DOMAIN keys -> APIKeyDoc]
      BY DEF IInv, TypeOK
    <2>2. /\ DOMAIN keys' = DOMAIN keys
          /\ \A m \in DOMAIN keys : /\ keys'[m].user = keys[m].user
                                    /\ IF m = k THEN keys'[m].revoked ELSE keys'[m].revoked = keys[m].revoked
      BY <1>5, <2>1 DEF Revoke, APIKeyDoc
    <2>3. Owner' = Owner /\ DOMAIN Owner = Logins \cap DOMAIN keys
      BY <2>2 DEF Owner
    <2>4. CASE k \in Logins \cap DOMAIN keys
      <3>1. Revoked' = Revoked \cup {k}
        BY <2>2, <2>4 DEF Revoked
      <3>2. Grants!Revoke(k)
        BY <1>1, <1>3, <2>3, <3>1 DEF Grants!Revoke, Shown, Told, Owner, Revoked, Kept
      <3> QED
        BY <2>3, <2>4, <3>2 DEF Granted, Grants!Next, Owner
    <2>5. CASE k \notin Logins \cap DOMAIN keys
      <3>1. Revoked' = Revoked
        BY <2>2, <2>5 DEF Revoked
      <3> QED
        BY <1>1, <1>3, <2>3, <3>1 DEF Granted, Grants!vars, Shown, Told, Owner, Revoked, Kept
    <2> QED
      BY <2>4, <2>5
  <1> QED
    BY <1>2, <1>4, <1>5 DEF RevokeAPIKey

(* The steps that only change who has an account, or what time it is, or   *)
(* nothing that was promised.                                              *)
LEMMA OthersGranted ==
  ASSUME IInv, OneApprover,
         \/ \E b \in Browsers : GoogleAuth(b) \/ RequestFails(b) \/ \E call \in Calls : Ask(b, call)
         \/ GetAccessToken \/ Authenticate \/ Touch \/ Clock
         \/ \E u \in Users : AccountDeleted(u)
         \/ UNCHANGED vars
  PROVE  Granted /\ OneApprover'
  <1>1. UNCHANGED <<codes, keys, file, cli, approver>>
    BY TouchKeeps DEF GoogleAuth, RequestFails, Ask, GetAccessToken, Authenticate, Touch, Clock, AccountDeleted,
                      vars, api, hist
  <1>2. OneApprover'
    BY <1>1 DEF OneApprover
  <1>3. Shown' = Shown /\ Told' = Told /\ Owner' = Owner /\ Revoked' = Revoked /\ Kept' = Kept
    BY <1>1 DEF Shown, Told, Owner, Revoked, Kept
  <1>4. CASE Clock
    <2>1. now' = now + 1 /\ accounts' = accounts
      BY <1>4 DEF Clock, api
    <2>2. Grants!Tick
      BY <1>1, <1>3, <2>1 DEF Grants!Tick, Grants!grants, Shown, Told, Owner, Revoked, Kept
    <2> QED
      BY <1>2, <2>2 DEF Granted, Grants!Next
  <1>5. CASE ~Clock
    <2>1. now' = now
      BY <1>5 DEF GoogleAuth, RequestFails, Ask, GetAccessToken, Authenticate, Touch, AccountDeleted, vars
    <2>2. accounts' \subseteq Users
      <3>1. accounts \subseteq Users /\ TypeOK
        BY DEF IInv, TypeOK
      <3>2. ASSUME NEW b \in Browsers, GoogleAuth(b) PROVE accounts' \subseteq Users
        <4>1. web[b].call.by \in Users
          BY <3>1, <3>2, Caller DEF GoogleAuth
        <4> QED
          BY <3>1, <3>2, <4>1 DEF GoogleAuth, SignUp
      <3> QED
        BY <1>5, <3>1, <3>2 DEF RequestFails, Ask, GetAccessToken, Authenticate, Touch, AccountDeleted, vars, api
    <2>3. Grants!ChangeAccounts
      BY <1>1, <1>3, <2>1, <2>2 DEF Grants!ChangeAccounts, Grants!grants, Shown, Told, Owner, Revoked, Kept
    <2> QED
      BY <1>2, <2>3 DEF Granted, Grants!Next
  <1> QED
    BY <1>4, <1>5

LEMMA StepGranted == IInv /\ OneApprover /\ [Next]_vars => Granted /\ OneApprover'
  <1> SUFFICES ASSUME IInv, OneApprover, [Next]_vars PROVE Granted /\ OneApprover'
    OBVIOUS
  <1>1. ASSUME NEW l \in Logins, Login(l) \/ LoginStops(l) \/ RemoveExpired(l) PROVE Granted /\ OneApprover'
    BY <1>1, IsLoggedInGranted, DeviceCodeGranted, PollOnceGranted, IssueCLIKeyGranted, SaveAPIKeyGranted,
       LoginStopsGranted, RemoveExpiredGranted DEF Login
  <1>2. ASSUME NEW b \in Browsers, Serve(b) PROVE Granted /\ OneApprover'
    <2>1. CASE GoogleAuth(b)
      BY <2>1, OthersGranted
    <2> QED
      BY <1>2, <2>1, ApproveGranted, IssueAPIKeyGranted, RevokeAPIKeyGranted DEF Serve
  <1> QED
    BY <1>1, <1>2, OthersGranted DEF Next

(* Signing up, logging in, approving, polling, revoking and the TTL index, *)
(* in any order and failing anywhere, implement DeviceGrant.               *)
THEOREM GrantsKept == Spec => ImplementsGrants
  <1>1. Init => Grants!Init /\ OneApprover
    <2> SUFFICES ASSUME Init PROVE Grants!Init /\ OneApprover
      OBVIOUS
    <2>1. codes = <<>> /\ keys = <<>> /\ DOMAIN codes = {} /\ DOMAIN keys = {}
      BY DEF Init
    <2>2. Shown = <<>> /\ Owner = <<>> /\ Revoked = {}
      BY <2>1 DEF Shown, Owner, Revoked
    <2>3. Told = {} /\ Kept = {}
      BY AccessAssumption DEF Init, Fresh, Told, Kept
    <2>4. OneApprover
      BY <2>1 DEF Init, OneApprover
    <2>5. now = 0 /\ accounts \subseteq Users /\ approver = [l \in Logins |-> Nobody]
      BY AccessAssumption DEF Init
    <2> QED
      BY <2>2, <2>3, <2>4, <2>5 DEF Grants!Init, Shown, Told, Owner, Revoked, Kept
  <1>2. IInv /\ OneApprover /\ [Next]_vars => [Grants!Next]_(Grants!vars)
    BY StepGranted DEF Granted
  <1> QED
    BY <1>1, <1>2, InitIInv, StepIInv, StepGranted, PTL DEF Spec, ImplementsGrants, Grants!Spec
=============================================================================
