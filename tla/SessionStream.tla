---------------------------- MODULE SessionStream ---------------------------
(***************************************************************************)
(* How the API turns stored events into sessions:                          *)
(* api/internal/service/session/session_service.go, a goroutine that reads *)
(* a MongoDB change stream, with the documents SaveEventBatch inserts, the *)
(* calls of processBatch each of which may fail, the saved resume token,   *)
(* and restarts of the API.                                                *)
(*                                                                         *)
(* An event is its place in the order of insertion, which is the order in  *)
(* which the stream delivers the inserts. The position of the stream and   *)
(* the token saved are such places too.                                    *)
(***************************************************************************)
EXTENDS Naturals, Sequences

CONSTANTS
  Batches,      \* batch ids: one for each call of ParseAndCollectLogs
  Kinds,        \* what the adapters may make of an event
  MaxRetries,   \* cfg.Retry.MaxRetries
  MaxEvents,    \* bound: documents inserted in the events collection
  MaxStarts     \* bound: times the API is started

(* With a limit of zero FindByBatchID would return nothing, ever.          *)
ASSUME RetryAssumption == MaxRetries \in Nat \ {0}
ASSUME KindAssumption == Kinds \subseteq {"sessions", "empty", "bad"}
ASSUME StreamBoundAssumption == MaxEvents \in Nat /\ MaxStarts \in Nat

VARIABLES
  events,    \* the events collection, in order of insertion
  sessions,  \* sessions[e]: times the sessions of e were inserted
  token,     \* the resume token saved
  pos,       \* what the change stream delivered last
  pc,        \* where processChangeStream is
  found,     \* the events FindByBatchID returned
  starts,    \* counts the starts of the API, for the bound
  missed,    \* history: events whose change event led to no query
  unmarked   \* history: events found, and then a call for them failed

vars == <<events, sessions, token, pos, pc, found, starts, missed, unmarked>>

-----------------------------------------------------------------------------
Statuses == {"pending", "completed", "failed"}
Event == [batch : Batches, kind : Kinds, status : Statuses, retries : 0 .. MaxRetries]
Steps == {"down", "next", "find", "increment", "save", "complete", "fail", "token", "ended"}

NoToken == 0

Bad == {e \in found : events[e].kind = "bad"}
Good == found \ Bad
Converted == {e \in found : events[e].kind = "sessions"}

Init ==
  /\ events = <<>> /\ sessions = <<>>
  /\ token = NoToken
  /\ pos = 0 /\ pc = "down" /\ found = {}
  /\ starts = 0
  /\ missed = {} /\ unmarked = {}

(* SaveEventBatch inserts the documents of a batch one after the other;    *)
(* MongoDB may go on with a batch when the API is gone.                    *)
InsertEvent(b, kind) ==
  /\ Len(events) < MaxEvents
  /\ pc # "down" \/ \E e \in DOMAIN events : events[e].batch = b
  /\ events' = Append(events, [batch |-> b, kind |-> kind, status |-> "pending", retries |-> 0])
  /\ sessions' = Append(sessions, 0)
  /\ UNCHANGED <<token, pos, pc, found, starts, missed, unmarked>>

-----------------------------------------------------------------------------
(* The token is stored as an embedded document and decoded into a bson.M,  *)
(* so the assertion to bson.Raw fails and the answer is nil.               *)
GetResumeToken == NoToken

(* Without a token the stream begins with the inserts still to come.       *)
WatchInserts(t) == IF t = NoToken THEN Len(events) ELSE t

Start ==
  /\ pc = "down"
  /\ starts < MaxStarts
  /\ starts' = starts + 1
  /\ pos' = WatchInserts(GetResumeToken)
  /\ missed' = missed \cup (pos + 1 .. pos')
  /\ pc' = "next"
  /\ UNCHANGED <<events, sessions, token, found, unmarked>>

(* Mutant: the token is saved before the batch is processed.               *)
NextSavesToken ==
  /\ pc = "next"
  /\ pos < Len(events)
  /\ pos' = pos + 1
  /\ token' = pos'
  /\ pc' = "find"
  /\ UNCHANGED <<events, sessions, found, starts, missed, unmarked>>

(* Mutant: of the changes that wait, only the last is handled.             *)
NextCoalesces ==
  /\ pc = "next"
  /\ pos < Len(events)
  /\ pos' = Len(events)
  /\ pc' = "find"
  /\ UNCHANGED <<events, sessions, token, found, starts, missed, unmarked>>

NextChange ==
  /\ pc = "next"
  /\ pos < Len(events)
  /\ pos' = pos + 1
  /\ pc' = "find"
  /\ UNCHANGED <<events, sessions, token, found, starts, missed, unmarked>>

(* A change event that does not decode is skipped, its token not saved.    *)
SkipChange ==
  /\ pc = "next"
  /\ pos < Len(events)
  /\ pos' = pos + 1
  /\ missed' = missed \cup {pos'}
  /\ UNCHANGED <<events, sessions, token, pc, found, starts, unmarked>>

(* An error of the stream ends the goroutine; the API goes on without it.  *)
StreamError ==
  /\ pc = "next"
  /\ pc' = "ended"
  /\ UNCHANGED <<events, sessions, token, pos, found, starts, missed, unmarked>>
-----------------------------------------------------------------------------
(* Mutant: the status is not asked for.                                    *)
FindAnyStatus(b) ==
  {e \in DOMAIN events : events[e].batch = b /\ events[e].retries < MaxRetries}

FindByBatchID(b) ==
  {e \in DOMAIN events : /\ events[e].batch = b
                         /\ events[e].retries < MaxRetries
                         /\ events[e].status = "pending"}

(* processBatch finds the pending events of the whole batch of the change  *)
(* event; without one it returns.                                          *)
Find ==
  /\ pc = "find"
  /\ found' = FindByBatchID(events[pos].batch)
  /\ pc' = IF found' = {} THEN "token" ELSE "increment"
  /\ UNCHANGED <<events, sessions, token, pos, starts, missed, unmarked>>

FindError ==
  /\ pc = "find"
  /\ missed' = missed \cup {pos}
  /\ pc' = "token"
  /\ UNCHANGED <<events, sessions, token, pos, found, starts, unmarked>>

(* One call per event that does not convert; some of them may fail.        *)
IncrementRetryCounts ==
  /\ pc = "increment"
  /\ \E done \in SUBSET Bad :
       events' = [e \in DOMAIN events |->
         IF e \in done THEN [events[e] EXCEPT !.retries = @ + 1] ELSE events[e]]
  /\ pc' = "save"
  /\ UNCHANGED <<sessions, token, pos, found, starts, missed, unmarked>>

Insert(S) == sessions' = [e \in DOMAIN sessions |-> sessions[e] + IF e \in S THEN 1 ELSE 0]

SaveBatch ==
  /\ pc = "save"
  /\ Insert(Converted)
  /\ pc' = "complete"
  /\ UNCHANGED <<events, token, pos, found, starts, missed, unmarked>>

(* Mutant: a failed insert does not keep the events from being marked.     *)
SaveBatchErrorGoesOn ==
  /\ pc = "save"
  /\ Converted # {}
  /\ \E done \in SUBSET Converted : Insert(done)
  /\ unmarked' = unmarked \cup found
  /\ pc' = "complete"
  /\ UNCHANGED <<events, token, pos, found, starts, missed>>

(* InsertMany fails after any of its documents. No event of the batch is   *)
(* marked, the ones that did not convert included.                         *)
SaveBatchError ==
  /\ pc = "save"
  /\ Converted # {}
  /\ \E done \in SUBSET Converted : Insert(done)
  /\ unmarked' = unmarked \cup found
  /\ pc' = "token"
  /\ found' = {}
  /\ UNCHANGED <<events, token, pos, starts, missed>>

(* UpdateStatusByIDs: an UpdateMany that fails may have reached some.      *)
UpdateStatus(S, status, next) ==
  /\ \E done \in SUBSET S :
       /\ events' = [e \in DOMAIN events |->
            IF e \in done THEN [events[e] EXCEPT !.status = status] ELSE events[e]]
       /\ unmarked' = unmarked \cup (S \ done)
  /\ pc' = next
  /\ UNCHANGED <<sessions, token, pos, starts, missed>>

(* Mutant: events that did not convert are marked completed as well.       *)
MarkAllCompleted ==
  /\ pc = "complete"
  /\ UpdateStatus(found, "completed", "fail")
  /\ UNCHANGED found

MarkCompleted ==
  /\ pc = "complete"
  /\ UpdateStatus(Good, "completed", "fail")
  /\ UNCHANGED found

MarkFailed ==
  /\ pc = "fail"
  /\ UpdateStatus(Bad, "failed", "token")
  /\ found' = {}

(* The token is saved whatever became of the batch; a failure is logged.   *)
SaveResumeToken ==
  /\ pc = "token"
  /\ token' \in {token, pos}
  /\ pc' = "next"
  /\ UNCHANGED <<events, sessions, pos, found, starts, missed, unmarked>>

(* The API stops or is killed: Stop cancels the context of every call that *)
(* is left, so nothing more is written.                                    *)
Exit ==
  /\ pc # "down"
  /\ missed' = IF pc = "find" THEN missed \cup {pos} ELSE missed
  /\ unmarked' = unmarked \cup found
  /\ found' = {}
  /\ pc' = "down"
  /\ UNCHANGED <<events, sessions, token, pos, starts>>
-----------------------------------------------------------------------------
Processing ==
  \/ Find \/ FindError \/ IncrementRetryCounts \/ SaveBatch \/ SaveBatchError
  \/ MarkCompleted \/ MarkFailed \/ SaveResumeToken

Next ==
  \/ \E b \in Batches, kind \in Kinds : InsertEvent(b, kind)
  \/ Start \/ NextChange \/ SkipChange \/ StreamError \/ Exit
  \/ Processing

Spec == Init /\ [][Next]_vars

(* The goroutine is scheduled, and every call to MongoDB returns.          *)
Fairness == WF_vars(NextChange \/ SkipChange \/ Processing)

FairSpec == Spec /\ Fairness
-----------------------------------------------------------------------------
TypeOK ==
  /\ events \in Seq(Event)
  /\ sessions \in [DOMAIN events -> Nat]
  /\ token \in 0 .. Len(events)
  /\ pos \in 0 .. Len(events)
  /\ pc \in Steps
  /\ found \in SUBSET (DOMAIN events)
  /\ starts \in Nat
  /\ missed \in SUBSET (DOMAIN events)
  /\ unmarked \in SUBSET (DOMAIN events)

(* An event that is marked completed has its sessions in the collection:   *)
(* no failed or half-done insert, crash or repeated change event of the    *)
(* same batch marks what was not saved.                                    *)
CompletedMeansSaved ==
  \A e \in DOMAIN events :
    events[e].status = "completed" /\ events[e].kind = "sessions" => sessions[e] > 0

(* Every insert of a batch raises a change event and each of them has the  *)
(* whole batch processed; still the sessions of an event are inserted more *)
(* than once only when a call between the query and the marks failed.      *)
DuplicateForAReason == \A e \in DOMAIN events : sessions[e] > 1 => e \in unmarked

(* Between two changes, and below the token that is saved, no event is     *)
(* left pending unless its own change event led to no query or a call for  *)
(* it failed, whatever other events of its batch were inserted meanwhile.  *)
PendingForAReason ==
  \A e \in DOMAIN events :
    events[e].status = "pending" /\ (e <= token \/ (pc = "next" /\ e <= pos))
      => e \in missed \cup unmarked

(* An event that is inserted while the stream runs does not stay pending   *)
(* for ever, unless there was such a reason or the stream ended.           *)
Processed ==
  \A e \in 1 .. MaxEvents :
    (e \in DOMAIN events /\ e > pos /\ pc \notin {"down", "ended"}) ~>
      (\/ e \in DOMAIN events /\ events[e].status # "pending"
       \/ e \in missed \cup unmarked
       \/ pc \in {"down", "ended"})

(* Whatever batches, repeated changes, failed calls and restarts there     *)
(* are, events are converted as Conversion promises: sessions only while   *)
(* pending and twice only after a break, completed or failed for good and  *)
(* rightly so, none behind the stream or the token without a reason. The   *)
(* turn of an event lasts until the stream is done with its change.        *)
Working == {"find", "increment", "save", "complete", "fail"}

Promise == INSTANCE Conversion WITH
  kinds   <- [e \in DOMAIN events |-> events[e].kind],
  status  <- [e \in DOMAIN events |-> events[e].status],
  reached <- IF pc \in Working THEN pos - 1 ELSE pos,
  resume  <- token

ImplementsConversion == Promise!Spec

(* ChangeEventIterator.ResumeToken: "Can be used to resume the stream from *)
(* this position after restart": a start that finds a token goes on there. *)
ResumesAfterRestart == [][Start /\ token # NoToken => pos' = token]_vars
=============================================================================
