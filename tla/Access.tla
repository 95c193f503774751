------------------------------- MODULE Access ------------------------------
(***************************************************************************)
(* Getting access: signing up in the browser, logging the CLI in by a      *)
(* device code that somebody signed in approves, the API keys that come of *)
(* it, the file auth.json they are kept in and the daemon that reads it.   *)
(*                                                                         *)
(* The processes are the `cops auth login` commands running on one         *)
(* machine, the requests of browsers, and the daemon. A database call or   *)
(* a system call is a step. A call may fail before it does anything, its   *)
(* answer may be lost after it did, and a login may be killed anywhere.    *)
(*                                                                         *)
(* A login asks for one device code and one key, so both are named after   *)
(* it. Time is a counter; a user is also the Google account behind it.     *)
(***************************************************************************)
EXTENDS Naturals, FiniteSets, Functions

CONSTANTS
  Users,
  Registered,   \* those who have an account at first
  UserCodes,    \* what generateUserCode can yield
  Logins,       \* `cops auth login` commands
  WebKeys,      \* keys asked for on the web page
  Browsers,     \* browser requests served at once
  Expiration,   \* life of a device code
  Interval,     \* between two polls
  MaxTime,      \* bound: the clock stops here
  MaxRequests   \* bound: browser requests in all

ASSUME AccessAssumption ==
  /\ Registered \subseteq Users
  /\ Expiration \in Nat \ {0} /\ Interval \in Nat \ {0}
  /\ MaxTime \in Nat /\ MaxRequests \in Nat
  /\ Logins \cap WebKeys = {}
  /\ {"absent", "empty"} \cap (Logins \cup WebKeys) = {}
  /\ {"error", "pending"} \cap Users = {}

VARIABLES
  now,
  accounts,     \* the users collection
  homes,        \* the users whose first organization exists
  codes,        \* the deviceCodes collection, by login
  keys,         \* the apiKeys collection
  touches,      \* UpdateLastUsedAt goroutines: the key document each was started for
  file,         \* auth.json: absent, emptied by O_TRUNC, or a key
  cli,          \* the logins
  web,          \* the browser requests
  asked,        \* counts the browser requests, for the bound
  daemon,       \* the call the daemon is making
  approver,     \* history: who was told that the device is approved
  loose         \* history: keys given up, lost on the way or overwritten

api == <<accounts, homes, codes, keys, touches>>
hist == <<approver, loose>>
vars == <<now, api, file, cli, web, asked, daemon, hist>>
-----------------------------------------------------------------------------
Nobody == "nobody"
Keys == Logins \cup WebKeys
Times == 0 .. MaxTime + Expiration + Interval + 1

DeviceCodeDoc ==
  [userCode : UserCodes, approved : BOOLEAN, user : Users \cup {Nobody}, expiresAt : Times]

(* expiresAt is a pointer: no time, or one.                                *)
APIKeyDoc == [user : Users, expiresAt : {{}} \cup {{t} : t \in Times}, revoked : BOOLEAN]

Pcs == {"idle", "code", "poll", "issue", "save", "write", "done", "failed", "expired"}

GoogleAuthReq == [op : {"GoogleAuth"}, by : Users]
DeviceCodeApproveReq == [op : {"DeviceCodeApprove"}, by : Users, userCode : UserCodes]
IssueAPIKeyReq == [op : {"IssueAPIKey"}, by : Users, days : {0, 1}]
RevokeAPIKeyReq == [op : {"RevokeAPIKey"}, by : Users, key : Keys]
Calls == GoogleAuthReq \cup DeviceCodeApproveReq \cup IssueAPIKeyReq \cup RevokeAPIKeyReq

(* A collection with one more document.                                    *)
Insert(docs, k, doc) == [x \in DOMAIN docs \cup {k} |-> IF x = k THEN doc ELSE docs[x]]

Idle == [call |-> [op |-> "none"], pc |-> "idle"]
Fresh == [pc |-> "idle", deadline |-> 0, tick |-> 0, user |-> Nobody]

Phases == {"find", "create", "org", "commit", "user", "approve", "why", "issue", "key", "revoke"}

(* What the daemon's call has come to.                                     *)
Quiet == [pc |-> "idle", key |-> "none"]
-----------------------------------------------------------------------------
(* auth_service.go and device_code_repo.go                                 *)

(* The userCode index is unique, over expired codes too until the TTL      *)
(* index has removed them.                                                 *)
UserCodeTaken(c) == \E l \in DOMAIN codes : codes[l].userCode = c

NewDeviceCode(c) ==
  [userCode |-> c, approved |-> FALSE, user |-> Nobody, expiresAt |-> now + Expiration]

(* Answers of DevicePoll: an error, pending, or the user the tokens are    *)
(* for. An approved code can be polled again.                              *)
Poll(code) ==
  CASE code.expiresAt < now -> "error"
    [] code.expiresAt >= now /\ ~code.approved -> "pending"
    [] code.expiresAt >= now /\ code.approved /\ code.user \in accounts -> code.user
    [] OTHER -> "error"

(* Mutant: the filter on the id is left out.                               *)
DevicePollAny(l) ==
  LET approved == {m \in DOMAIN codes : codes[m].approved} IN
  CASE approved # {} -> Poll(codes[CHOOSE m \in approved : TRUE])
    [] approved = {} /\ l \in DOMAIN codes -> Poll(codes[l])
    [] OTHER -> "error"

DevicePoll(l) == IF l \in DOMAIN codes THEN Poll(codes[l]) ELSE "error"

(* Mutant: that the code has expired does not matter.                      *)
ApproveMatchExpired(c) == {l \in DOMAIN codes : codes[l].userCode = c /\ ~codes[l].approved}

(* The filter of the one update that approves.                             *)
ApproveMatch(c) ==
  {l \in DOMAIN codes : codes[l].userCode = c /\ ~codes[l].approved /\ codes[l].expiresAt > now}
-----------------------------------------------------------------------------
(* apikey_service.go and apikey_repo.go                                    *)

(* Mutant: a key for no number of days expires at once.                    *)
ExpiresAtOnce(days) == {now + days}

(* No number of days means that the key is permanent.                      *)
ExpiresAt(days) == IF days > 0 THEN {now + days} ELSE {}

NewAPIKey(u, days) == [user |-> u, expiresAt |-> ExpiresAt(days), revoked |-> FALSE]

IsExpired(key) == \E t \in key.expiresAt : now > t

ValidateAPIKey(k) == k \in DOMAIN keys /\ ~keys[k].revoked /\ ~IsExpired(keys[k])

Revoke(k) == [keys EXCEPT ![k].revoked = TRUE]

(* Mutant: the document that was read is written back.                     *)
UpdateWholeDocument(k, doc) == [keys EXCEPT ![k] = doc]

(* Sets lastUsedAt, which nothing here reads, and no other field.          *)
UpdateLastUsedAt(k, doc) == keys
-----------------------------------------------------------------------------
(* The CLI: auth_service.go, auth_client.go, apikey_storage.go.            *)

Ended == {"done", "failed", "expired"}

Goto(l, pc) ==
  cli' = [cli EXCEPT ![l] = IF pc \in Ended THEN [Fresh EXCEPT !.pc = pc] ELSE [@ EXCEPT !.pc = pc]]

(* A key nobody has on disk any more.                                      *)
GiveUp(ks) == loose' = loose \cup ks

(* HasAPIKey: nothing there, or an error, and the login goes on; a key     *)
(* there, and the user is asked.                                           *)
IsLoggedIn(l) ==
  /\ cli[l].pc = "idle"
  /\ \/ Goto(l, "code")
     \/ file \in Keys /\ Goto(l, "failed")
  /\ UNCHANGED <<now, api, file, web, asked, daemon, hist>>

(* The code is inserted, unless the user code is taken. The deadline is    *)
(* counted from the answer, which may be lost. The bound lets every login  *)
(* that starts see its end before the clock stops.                         *)
DeviceCode(l) ==
  /\ cli[l].pc = "code"
  /\ now + Expiration + Interval < MaxTime
  /\ \E c \in UserCodes :
       IF UserCodeTaken(c)
       THEN Goto(l, "failed") /\ UNCHANGED codes
       ELSE /\ codes' = Insert(codes, l, NewDeviceCode(c))
            /\ \/ cli' = [cli EXCEPT ![l] = [pc |-> "poll", deadline |-> now + Expiration,
                                             tick |-> now + Interval, user |-> Nobody]]
               \/ Goto(l, "failed")
  /\ UNCHANGED <<now, accounts, homes, keys, touches, file, web, asked, daemon, hist>>

(* Mutant: a timer, which fires once, in place of the ticker.              *)
NextTickOfTimer(l) == MaxTime + 1

(* The next multiple of the interval; ticks that nobody took are dropped.  *)
NextTick(l) == cli[l].tick + Interval * ((now - cli[l].tick) \div Interval + 1)

PollOnce(l) ==
  /\ cli[l].pc = "poll" /\ now >= cli[l].tick
  /\ IF now > cli[l].deadline
     THEN Goto(l, "expired")
     ELSE LET answer == DevicePoll(l) IN
          CASE answer = "error" -> Goto(l, "failed")
            [] answer = "pending" -> cli' = [cli EXCEPT ![l].tick = NextTick(l)]
            [] OTHER -> cli' = [cli EXCEPT ![l].pc = "issue", ![l].user = answer]
  /\ UNCHANGED <<now, api, file, web, asked, daemon, hist>>

(* With the access token, for as long as the key is not revoked.           *)
IssueCLIKey(l) ==
  /\ cli[l].pc = "issue"
  /\ keys' = Insert(keys, l, NewAPIKey(cli[l].user, 0))
  /\ \/ Goto(l, "save") /\ UNCHANGED loose
     \/ Goto(l, "failed") /\ GiveUp({l})
  /\ UNCHANGED <<now, accounts, homes, codes, touches, file, web, asked, daemon, approver>>

(* Mutant: a file that has a key is left as it is.                         *)
TruncateIfEmpty(l) ==
  IF file \in Keys THEN Goto(l, "done") /\ UNCHANGED <<file, loose>>
  ELSE file' = "empty" /\ Goto(l, "write") /\ UNCHANGED loose

Truncate(l) == file' = "empty" /\ Goto(l, "write") /\ GiveUp({file} \cap Keys)

(* os.WriteFile: open with O_TRUNC, then write.                            *)
SaveAPIKey(l) ==
  /\ \/ cli[l].pc = "save" /\ Truncate(l)
     \/ /\ cli[l].pc = "write"
        /\ file' = l /\ Goto(l, "done")
        /\ GiveUp(({file} \cap Keys) \ {l})
  /\ UNCHANGED <<now, api, web, asked, daemon, approver>>

(* A call of the login fails, or the command is killed.                    *)
LoginStops(l) ==
  /\ cli[l].pc \notin Ended \cup {"idle"} /\ Goto(l, "failed")
  /\ IF cli[l].pc \in {"save", "write"} THEN GiveUp({l}) ELSE UNCHANGED loose
  /\ UNCHANGED <<now, api, file, web, asked, daemon, approver>>

Login(l) ==
  IsLoggedIn(l) \/ DeviceCode(l) \/ PollOnce(l) \/ IssueCLIKey(l) \/ SaveAPIKey(l)
-----------------------------------------------------------------------------
(* The browser. Whoever asks is signed in, except to sign in.              *)

Step(b, pc) == web' = [web EXCEPT ![b].pc = pc] /\ UNCHANGED asked
End(b) == web' = [web EXCEPT ![b] = Idle] /\ UNCHANGED asked

FirstStep == [GoogleAuth |-> "find", DeviceCodeApprove |-> "user",
              IssueAPIKey |-> "issue", RevokeAPIKey |-> "key"]

Ask(b, call) ==
  /\ web[b] = Idle /\ asked < MaxRequests
  /\ asked' = asked + 1
  /\ web' = [web EXCEPT ![b] = [call |-> call, pc |-> FirstStep[call.op]]]
  /\ UNCHANGED <<now, api, file, cli, daemon, hist>>

(* What the open transactions have inserted is seen by nobody, but stands  *)
(* in the way of a second insert of the same account.                      *)
Inserting(u) == \E b \in Browsers : web[b].pc \in {"org", "commit"} /\ web[b].call.by = u

(* The account and the organization, in one transaction.                   *)
SignUp(b, u) ==
  \/ web[b].pc = "create" /\ u \notin accounts /\ ~Inserting(u)
     /\ Step(b, "org") /\ UNCHANGED <<accounts, homes>>
  \/ web[b].pc = "create" /\ u \in accounts
     /\ End(b) /\ UNCHANGED <<accounts, homes>>
  \/ web[b].pc = "org"
     /\ Step(b, "commit") /\ UNCHANGED <<accounts, homes>>
  \/ web[b].pc = "commit"
     /\ accounts' = accounts \cup {u} /\ homes' = homes \cup {u} /\ End(b)

GoogleAuth(b) ==
  LET u == web[b].call.by IN
  /\ web[b].call.op = "GoogleAuth"
  /\ \/ /\ web[b].pc = "find"
        /\ IF u \in accounts THEN End(b) ELSE Step(b, "create")
        /\ UNCHANGED <<accounts, homes>>
     \/ SignUp(b, u)
  /\ UNCHANGED <<now, codes, keys, touches, file, cli, daemon, hist>>

(* The update, and only when it matched nothing a second look to say why.  *)
DeviceCodeApprove(b) ==
  LET u == web[b].call.by
      matched == ApproveMatch(web[b].call.userCode) IN
  /\ web[b].call.op = "DeviceCodeApprove"
  /\ \/ /\ web[b].pc = "user"
        /\ IF u \in accounts THEN Step(b, "approve") ELSE End(b)
        /\ UNCHANGED <<codes, approver>>
     \/ /\ web[b].pc = "approve"
        /\ IF matched = {} THEN Step(b, "why") /\ UNCHANGED <<codes, approver>>
           ELSE \E l \in matched :
                  /\ codes' = [codes EXCEPT ![l].approved = TRUE, ![l].user = u]
                  /\ approver' = [approver EXCEPT ![l] = u]
                  /\ End(b)
     \/ web[b].pc = "why" /\ End(b) /\ UNCHANGED <<codes, approver>>
  /\ UNCHANGED <<now, accounts, homes, keys, touches, file, cli, daemon, loose>>

IssueAPIKey(b) ==
  /\ web[b].call.op = "IssueAPIKey"
  /\ \E k \in WebKeys \ DOMAIN keys :
       keys' = Insert(keys, k, NewAPIKey(web[b].call.by, web[b].call.days))
  /\ End(b)
  /\ UNCHANGED <<now, accounts, homes, codes, touches, file, cli, daemon, hist>>

RevokeAPIKey(b) ==
  LET k == web[b].call.key IN
  /\ web[b].call.op = "RevokeAPIKey"
  /\ \/ /\ web[b].pc = "key"
        /\ IF k \in DOMAIN keys /\ keys[k].user = web[b].call.by THEN Step(b, "revoke") ELSE End(b)
        /\ UNCHANGED keys
     \/ web[b].pc = "revoke" /\ keys' = Revoke(k) /\ End(b)
  /\ UNCHANGED <<now, accounts, homes, codes, touches, file, cli, daemon, hist>>

(* A call fails: what a transaction has inserted goes with it.             *)
RequestFails(b) ==
  /\ web[b] # Idle /\ End(b)
  /\ UNCHANGED <<now, api, file, cli, daemon, hist>>

Serve(b) == GoogleAuth(b) \/ DeviceCodeApprove(b) \/ IssueAPIKey(b) \/ RevokeAPIKey(b)
-----------------------------------------------------------------------------
(* The daemon. Before each call it reads the file; without a key it does   *)
(* not call. The API validates the key and leaves a goroutine behind.      *)

GetAccessToken ==
  /\ daemon = Quiet
  /\ file \in Keys /\ daemon' = [pc |-> "sent", key |-> file]
  /\ UNCHANGED <<now, api, file, cli, web, asked, hist>>

Authenticate ==
  /\ daemon.pc = "sent" /\ daemon' = Quiet
  /\ IF ValidateAPIKey(daemon.key)
     THEN touches' = touches \cup {<<daemon.key, keys[daemon.key]>>}
     ELSE UNCHANGED touches
  /\ UNCHANGED <<now, accounts, homes, codes, keys, file, cli, web, asked, hist>>

Touch ==
  /\ \E t \in touches :
       keys' = UpdateLastUsedAt(t[1], t[2]) /\ touches' = touches \ {t}
  /\ UNCHANGED <<now, accounts, homes, codes, file, cli, web, asked, daemon, hist>>
-----------------------------------------------------------------------------
(* Time passes; Mongo removes expired codes when it gets to it; an account *)
(* is deleted with its organization (Membership).                          *)
Clock == now < MaxTime /\ now' = now + 1 /\ UNCHANGED <<api, file, cli, web, asked, daemon, hist>>

RemoveExpired(l) ==
  /\ l \in DOMAIN codes /\ codes[l].expiresAt < now
  /\ codes' = Restrict(codes, DOMAIN codes \ {l})
  /\ UNCHANGED <<now, accounts, homes, keys, touches, file, cli, web, asked, daemon, hist>>

AccountDeleted(u) ==
  /\ u \in accounts
  /\ accounts' = accounts \ {u} /\ homes' = homes \ {u}
  /\ UNCHANGED <<now, codes, keys, touches, file, cli, web, asked, daemon, hist>>

Init ==
  /\ now = 0
  /\ accounts = Registered /\ homes = Registered
  /\ codes = <<>> /\ keys = <<>> /\ touches = {}
  /\ file = "absent"
  /\ cli = [l \in Logins |-> Fresh]
  /\ web = [b \in Browsers |-> Idle] /\ asked = 0
  /\ daemon = Quiet
  /\ approver = [l \in Logins |-> Nobody] /\ loose = {}

Next ==
  \/ \E l \in Logins : Login(l) \/ LoginStops(l) \/ RemoveExpired(l)
  \/ \E b \in Browsers : Serve(b) \/ RequestFails(b) \/ \E call \in Calls : Ask(b, call)
  \/ GetAccessToken \/ Authenticate \/ Touch
  \/ Clock
  \/ \E u \in Users : AccountDeleted(u)

(* The clock goes on, and a command that runs takes its steps.             *)
Fairness == WF_vars(Clock) /\ \A l \in Logins : WF_vars(Login(l))
Spec == Init /\ [][Next]_vars /\ Fairness
-----------------------------------------------------------------------------
(* Properties                                                              *)

(* The documents in the collections, the file and the logins have the      *)
(* fields the code gives them.                                             *)
TypeOK ==
  /\ now \in 0 .. MaxTime
  /\ accounts \subseteq Users /\ homes \subseteq Users
  /\ DOMAIN codes \subseteq Logins /\ codes \in [DOMAIN codes -> DeviceCodeDoc]
  /\ DOMAIN keys \subseteq Keys /\ keys \in [DOMAIN keys -> APIKeyDoc]
  /\ file \in {"absent", "empty"} \cup (Logins \cap DOMAIN keys)
  /\ cli \in [Logins -> [pc : Pcs, deadline : Nat, tick : Nat, user : Users \cup {Nobody}]]
  /\ web \in [Browsers -> {Idle} \cup [call : Calls, pc : Phases]]
  /\ approver \in [Logins -> Users \cup {Nobody}]

(* The key a login leaves in auth.json is the key of the person who was    *)
(* told, last, that this login's device is approved: of two people who     *)
(* approve one device code, one at a time or at once, one succeeds.        *)
SavedKeyIsApprovers == file \in Logins => keys[file].user = approver[file]

(* A CLI key in auth.json works until its owner revokes it: it does not    *)
(* expire, and the collection has it before the file does.                 *)
KeyOnDiskWorks == file \in Logins => (ValidateAPIKey(file) \/ keys[file].revoked)

(* Every CLI key that works is on its way to the file, in the file, or was *)
(* given up: its login failed with it, or another login overwrote it.      *)
KeyAccountedFor ==
  \A k \in Logins \cap DOMAIN keys :
    file = k \/ k \in loose \/ cli[k].pc \in {"save", "write"}

(* A revoked key stays revoked, whatever goroutines that had validated it  *)
(* before write after.                                                     *)
RevokedForGood ==
  [][\A k \in Keys : (k \in DOMAIN keys /\ keys[k].revoked) => keys'[k].revoked]_keys

(* However logins, approvals, polls and the removal of codes interleave    *)
(* and fail, they grant access as DeviceGrant promises: one approver to a  *)
(* code and one key to a device, which is the approver's, is never handed  *)
(* on, and stays revoked once it is.                                       *)
Grants == INSTANCE DeviceGrant WITH
  Devices    <- Logins,
  Codes      <- UserCodes,
  Life       <- Expiration,
  time       <- now,
  shown      <- [l \in DOMAIN codes |-> [code |-> codes[l].userCode, until |-> codes[l].expiresAt]],
  approvedBy <- approver,
  told       <- {l \in Logins : cli[l].pc = "issue"},
  owner      <- [l \in Logins \cap DOMAIN keys |-> keys[l].user],
  revoked    <- {l \in Logins \cap DOMAIN keys : keys[l].revoked},
  kept       <- {file} \cap Logins

ImplementsGrants == Grants!Spec

(* A login that has shown its code ends.                                   *)
LoginEnds ==
  \A l \in Logins :
    (cli[l].pc = "poll") ~> (cli[l].pc \in Ended)
=============================================================================
