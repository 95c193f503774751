------------------------ MODULE SessionStreamProofs -------------------------
(***************************************************************************)
(* Proofs about SessionStream, for every retry limit, set of batches and   *)
(* number of events and restarts: what is marked completed was saved,      *)
(* duplicates and forgotten events have a reason, and the stream keeps the *)
(* promise of Conversion.                                                  *)
(***************************************************************************)
EXTENDS SessionStream, TLAPS

-----------------------------------------------------------------------------
(* The inductive invariant.                                                *)

(* What FindByBatchID returned is only there while it is worked on; what   *)
(* it asked of the events holds until they are marked, and after the good  *)
(* ones are, only bad ones are pending, or those whose mark failed.        *)
FoundKept ==
  /\ pc \in {"down", "next", "find", "token", "ended"} => found = {}
  /\ pc \in {"increment", "save", "complete"} => \A e \in found : events[e].status = "pending"
  /\ pc = "increment" => \A e \in found : events[e].retries < MaxRetries
  /\ pc = "fail" => \A e \in found \ unmarked :
       events[e].status = "pending" => events[e].kind = "bad"

(* Sessions come from events that convert; an event that has them and is   *)
(* still pending is about to be marked, or was once left behind.           *)
SavedKept ==
  \A e \in DOMAIN events :
    /\ sessions[e] > 0 => events[e].kind = "sessions"
    /\ sessions[e] > 0 /\ events[e].status = "pending" /\ e \notin unmarked
         => pc = "complete" /\ e \in found
    /\ pc = "complete" /\ e \in found /\ events[e].kind = "sessions" => sessions[e] > 0

Waiting(e) == events[e].status = "pending" /\ e \notin missed \cup unmarked

(* A pending event without an excuse lies ahead of the stream or is being  *)
(* worked on; its retries are untouched until then.                        *)
WaitingAhead ==
  /\ token <= pos
  /\ pc = "find" => pos \in DOMAIN events
  /\ \A e \in DOMAIN events : Waiting(e) =>
       /\ token < e
       /\ e > pos \/ (e = pos /\ pc = "find") \/ e \in found
       /\ events[e].retries = 0 \/ e \in found

IInv ==
  /\ TypeOK
  /\ FoundKept
  /\ SavedKept
  /\ CompletedMeansSaved
  /\ DuplicateForAReason
  /\ WaitingAhead

-----------------------------------------------------------------------------
(* Sequences.                                                              *)

(* A sequence with other values in the same places is a sequence.          *)
LEMMA SamePlaces ==
  ASSUME NEW S, NEW T, NEW s \in Seq(S), NEW t \in [DOMAIN s -> T]
  PROVE  /\ t \in Seq(T) /\ Len(t) = Len(s) /\ DOMAIN t = DOMAIN s
  <1>1. DOMAIN s = 1 .. Len(s) /\ Len(s) \in Nat
    OBVIOUS
  <1>. QED BY <1>1

LEMMA AppendFacts ==
  ASSUME NEW S, NEW s \in Seq(S), NEW x \in S
  PROVE  /\ Append(s, x) \in Seq(S)
         /\ Len(Append(s, x)) = Len(s) + 1
         /\ DOMAIN Append(s, x) = DOMAIN s \cup {Len(s) + 1}
         /\ \A i \in DOMAIN s : Append(s, x)[i] = s[i]
         /\ Append(s, x)[Len(s) + 1] = x
         /\ Len(s) + 1 \notin DOMAIN s
  OBVIOUS

(* TypeOK with the sequences spelt out.                                    *)
LEMMA TypeFacts ==
  ASSUME TypeOK
  PROVE  /\ events \in Seq(Event) /\ sessions \in Seq(Nat)
         /\ Len(events) \in Nat /\ DOMAIN events = 1 .. Len(events)
         /\ DOMAIN sessions = DOMAIN events /\ Len(sessions) = Len(events)
         /\ \A e \in DOMAIN events :
              /\ events[e] \in Event /\ sessions[e] \in Nat
              /\ events[e].retries \in 0 .. MaxRetries
              /\ events[e].status \in Statuses
  <1>1. events \in Seq(Event) /\ sessions \in [DOMAIN events -> Nat]
    BY DEF TypeOK
  <1>2. sessions \in Seq(Nat) /\ Len(sessions) = Len(events) /\ DOMAIN sessions = DOMAIN events
    BY <1>1, SamePlaces
  <1>3. \A e \in DOMAIN events : events[e] \in Event /\ sessions[e] \in Nat
    BY <1>1
  <1>. QED BY <1>1, <1>2, <1>3 DEF Event

LEMMA Updated ==
  ASSUME TypeOK, NEW E, E \in [DOMAIN events -> Event], events' = E
  PROVE  /\ events' \in Seq(Event) /\ Len(events') = Len(events)
         /\ DOMAIN events' = DOMAIN events
  BY SamePlaces DEF TypeOK

-----------------------------------------------------------------------------
LEMMA IInvInit == Init => IInv
  <1> SUFFICES ASSUME Init PROVE IInv
    OBVIOUS
  <1>1. DOMAIN events = {} /\ Len(events) = 0 /\ events \in Seq(Event)
    BY DEF Init
  <1>2. sessions \in [DOMAIN events -> Nat]
    BY <1>1 DEF Init
  <1>3. TypeOK
    BY <1>1, <1>2 DEF Init, TypeOK, NoToken, Steps
  <1>. QED BY <1>1, <1>3 DEF Init, IInv, FoundKept, SavedKept, CompletedMeansSaved,
                         DuplicateForAReason, WaitingAhead, NoToken

(* Steps that leave the collections alone: what remains to be seen is the  *)
(* position, the token and the two histories.                              *)
LEMMA SameCollections ==
  ASSUME IInv, UNCHANGED <<events, sessions>>,
         found' \in SUBSET (DOMAIN events),
         unmarked' = unmarked \/ (unmarked' = unmarked \cup found /\ found' = {}),
         pc = "complete" => unmarked' = unmarked \cup found,
         missed \subseteq missed', missed' \in SUBSET (DOMAIN events),
         token' \in 0 .. Len(events), pos' \in 0 .. Len(events), starts' \in Nat,
         pc' \in Steps \ {"complete"},
         FoundKept', WaitingAhead'
  PROVE  IInv'
  <1>1. TypeOK'
    BY DEF IInv, TypeOK
  <1>2. unmarked \subseteq unmarked'
    OBVIOUS
  <1>4. SavedKept'
    BY <1>2 DEF IInv, SavedKept
  <1>5. CompletedMeansSaved' /\ DuplicateForAReason'
    BY <1>2 DEF IInv, CompletedMeansSaved, DuplicateForAReason
  <1>. QED BY <1>1, <1>4, <1>5 DEF IInv

LEMMA StartStep == IInv /\ Start => IInv'
  <1> SUFFICES ASSUME IInv, Start PROVE IInv'
    OBVIOUS
  <1>1. pos' = Len(events) /\ found = {} /\ found' = {} /\ pc' = "next"
    BY DEF Start, WatchInserts, GetResumeToken, NoToken, IInv, FoundKept
  <1>2. Len(events) \in Nat /\ DOMAIN events = 1 .. Len(events) /\ pos \in 0 .. Len(events)
    BY TypeFacts DEF IInv, TypeOK
  <1>3. missed' = missed \cup (pos + 1 .. Len(events))
    BY <1>1 DEF Start
  <1>4. FoundKept'
    BY <1>1 DEF FoundKept
  <1>5. WaitingAhead'
    <2>1. token' <= pos'
      BY <1>1, <1>2 DEF Start, IInv, TypeOK
    <2>2. \A e \in DOMAIN events : ~ Waiting(e)'
      <3> SUFFICES ASSUME NEW e \in DOMAIN events, Waiting(e)' PROVE FALSE
        OBVIOUS
      <3>1. Waiting(e) /\ e \notin pos + 1 .. Len(events)
        BY <1>3 DEF Waiting, Start
      <3>2. e > pos
        BY <3>1, <1>1 DEF IInv, WaitingAhead, Start
      <3>. QED BY <3>1, <3>2, <1>2
    <2>. QED BY <1>1, <2>1, <2>2 DEF WaitingAhead, Start
  <1>. QED BY <1>1, <1>2, <1>3, <1>4, <1>5, SameCollections DEF Start, IInv, TypeOK, Steps

LEMMA NextChangeStep == IInv /\ NextChange => IInv'
  <1> SUFFICES ASSUME IInv, NextChange PROVE IInv'
    OBVIOUS
  <1>1. found = {} /\ found' = {} /\ pc' = "find"
    BY DEF NextChange, IInv, FoundKept
  <1>2. /\ Len(events) \in Nat /\ DOMAIN events = 1 .. Len(events)
        /\ pos \in 0 .. Len(events) /\ pos' = pos + 1 /\ pos' \in DOMAIN events
        /\ token \in 0 .. Len(events)
    BY TypeFacts DEF NextChange, IInv, TypeOK
  <1>3. FoundKept'
    BY <1>1 DEF FoundKept
  <1>4. WaitingAhead'
    BY <1>1, <1>2 DEF NextChange, IInv, WaitingAhead, Waiting
  <1>. QED BY <1>1, <1>2, <1>3, <1>4, SameCollections DEF NextChange, IInv, TypeOK, Steps

LEMMA SkipChangeStep == IInv /\ SkipChange => IInv'
  <1> SUFFICES ASSUME IInv, SkipChange PROVE IInv'
    OBVIOUS
  <1>1. found = {} /\ found' = {} /\ pc = "next" /\ pc' = "next"
    BY DEF SkipChange, IInv, FoundKept
  <1>2. /\ Len(events) \in Nat /\ DOMAIN events = 1 .. Len(events)
        /\ pos \in 0 .. Len(events) /\ pos' = pos + 1 /\ pos' \in DOMAIN events
        /\ token \in 0 .. Len(events)
    BY TypeFacts DEF SkipChange, IInv, TypeOK
  <1>3. FoundKept'
    BY <1>1 DEF FoundKept
  <1>4. WaitingAhead'
    BY <1>1, <1>2 DEF SkipChange, IInv, WaitingAhead, Waiting
  <1>. QED BY <1>1, <1>2, <1>3, <1>4, SameCollections DEF SkipChange, IInv, TypeOK, Steps

LEMMA StreamErrorStep == IInv /\ StreamError => IInv'
  <1> SUFFICES ASSUME IInv, StreamError PROVE IInv'
    OBVIOUS
  <1>1. found = {} /\ found' = {} /\ pc = "next" /\ pc' = "ended"
    BY DEF StreamError, IInv, FoundKept
  <1>2. FoundKept'
    BY <1>1 DEF FoundKept
  <1>3. WaitingAhead'
    BY <1>1 DEF StreamError, IInv, WaitingAhead, Waiting
  <1>. QED BY <1>1, <1>2, <1>3, SameCollections DEF StreamError, IInv, TypeOK, Steps

(* The change event's own event is among those found, unless it is not     *)
(* pending: its retries are untouched, and the limit is at least one.      *)
LEMMA FindStep == IInv /\ Find => IInv'
  <1> SUFFICES ASSUME IInv, Find PROVE IInv'
    OBVIOUS
  <1>1. found = {} /\ pc = "find" /\ pos \in DOMAIN events
    BY DEF Find, IInv, FoundKept, WaitingAhead
  <1>2. pc' = (IF found' = {} THEN "token" ELSE "increment")
    BY DEF Find
  <1>3. /\ found' \in SUBSET (DOMAIN events)
        /\ \A e \in found' : events[e].status = "pending" /\ events[e].retries < MaxRetries
    BY DEF Find, FindByBatchID
  <1>4. FoundKept'
    BY <1>2, <1>3 DEF FoundKept, Find
  <1>5. WaitingAhead'
    <2>1. ASSUME Waiting(pos) PROVE pos \in found'
      <3>1. events[pos].retries = 0 /\ events[pos].status = "pending"
        BY <1>1, <2>1 DEF IInv, WaitingAhead, Waiting
      <3>2. 0 < MaxRetries
        BY RetryAssumption
      <3>. QED BY <1>1, <3>1, <3>2 DEF Find, FindByBatchID
    <2>2. ASSUME NEW e \in DOMAIN events, Waiting(e)
          PROVE  token < e /\ (e > pos \/ e \in found') /\ events[e].retries = 0
      BY <1>1, <2>1, <2>2 DEF IInv, WaitingAhead
    <2>. QED BY <1>2, <2>2 DEF Find, IInv, WaitingAhead, Waiting
  <1>6. pc' \in Steps \ {"complete"} /\ pc # "complete"
    BY <1>1, <1>2 DEF Steps
  <1>. QED BY <1>1, <1>3, <1>4, <1>5, <1>6, SameCollections DEF Find, IInv, TypeOK

LEMMA FindErrorStep == IInv /\ FindError => IInv'
  <1> SUFFICES ASSUME IInv, FindError PROVE IInv'
    OBVIOUS
  <1>1. found = {} /\ found' = {} /\ pc = "find" /\ pc' = "token" /\ pos \in DOMAIN events
    BY DEF FindError, IInv, FoundKept, WaitingAhead
  <1>2. FoundKept'
    BY <1>1 DEF FoundKept
  <1>3. WaitingAhead'
    BY <1>1 DEF FindError, IInv, WaitingAhead, Waiting
  <1>. QED BY <1>1, <1>2, <1>3, SameCollections DEF FindError, IInv, TypeOK, Steps

LEMMA SaveResumeTokenStep == IInv /\ SaveResumeToken => IInv'
  <1> SUFFICES ASSUME IInv, SaveResumeToken PROVE IInv'
    OBVIOUS
  <1>1. found = {} /\ found' = {} /\ pc = "token" /\ pc' = "next"
    BY DEF SaveResumeToken, IInv, FoundKept
  <1>2. FoundKept'
    BY <1>1 DEF FoundKept
  <1>3. WaitingAhead'
    BY <1>1 DEF SaveResumeToken, IInv, TypeOK, WaitingAhead, Waiting
  <1>. QED BY <1>1, <1>2, <1>3, SameCollections DEF SaveResumeToken, IInv, TypeOK, Steps

LEMMA ExitStep == IInv /\ Exit => IInv'
  <1> SUFFICES ASSUME IInv, Exit PROVE IInv'
    OBVIOUS
  <1>1. found' = {} /\ pc' = "down" /\ unmarked' = unmarked \cup found
    BY DEF Exit
  <1>2. FoundKept'
    BY <1>1 DEF FoundKept
  <1>3. WaitingAhead'
    BY <1>1 DEF Exit, IInv, TypeOK, WaitingAhead, Waiting
  <1>4. missed' \in SUBSET (DOMAIN events) /\ missed \subseteq missed'
    BY DEF Exit, IInv, TypeOK, WaitingAhead
  <1>. QED BY <1>1, <1>2, <1>3, <1>4, SameCollections DEF Exit, IInv, TypeOK, Steps

-----------------------------------------------------------------------------
(* Steps that change the collections.                                      *)

(* A new event lies behind every position there is.                        *)
LEMMA InsertEventStep ==
  ASSUME IInv, NEW b \in Batches, NEW kind \in Kinds, InsertEvent(b, kind)
  PROVE  IInv'
  <1> DEFINE n == Len(events) + 1
             x == [batch |-> b, kind |-> kind, status |-> "pending", retries |-> 0]
  <1>1. /\ events \in Seq(Event) /\ sessions \in Seq(Nat) /\ Len(events) \in Nat
        /\ Len(sessions) = Len(events) /\ DOMAIN sessions = DOMAIN events
        /\ DOMAIN events = 1 .. Len(events)
    BY TypeFacts DEF IInv
  <1>2. x \in Event
    BY RetryAssumption DEF Event, Statuses
  <1>3. /\ events' = Append(events, x) /\ sessions' = Append(sessions, 0)
        /\ UNCHANGED <<token, pos, pc, found, starts, missed, unmarked>>
    BY DEF InsertEvent
  <1> HIDE DEF x
  <1>4. /\ events' \in Seq(Event) /\ Len(events') = n /\ DOMAIN events' = DOMAIN events \cup {n}
        /\ \A e \in DOMAIN events : events'[e] = events[e]
        /\ events'[n] = x /\ n \notin DOMAIN events
    BY <1>1, <1>2, <1>3, AppendFacts
  <1>5. /\ sessions' \in Seq(Nat) /\ DOMAIN sessions' = DOMAIN events'
        /\ \A e \in DOMAIN events : sessions'[e] = sessions[e]
        /\ sessions'[n] = 0
    BY <1>1, <1>3, <1>4, AppendFacts
  <1>6. found \in SUBSET (DOMAIN events) /\ pos \in 0 .. Len(events) /\ token \in 0 .. Len(events)
    BY DEF IInv, TypeOK
  <1>7. TypeOK'
    <2>1. sessions' \in [DOMAIN events' -> Nat]
      BY <1>1, <1>4, <1>5
    <2>. QED BY <1>1, <1>3, <1>4, <2>1 DEF IInv, TypeOK
  <1>8. FoundKept'
    BY <1>3, <1>4, <1>6 DEF IInv, FoundKept
  <1>9. x.status = "pending" /\ x.retries = 0
    BY DEF x
  <1>10. SavedKept'
    <2> SUFFICES ASSUME NEW e \in DOMAIN events' PROVE SavedKept!(e)'
      BY DEF SavedKept
    <2>1. CASE e \in DOMAIN events
      BY <1>3, <1>4, <1>5, <2>1 DEF IInv, SavedKept
    <2>2. CASE e = n
      BY <1>3, <1>4, <1>5, <1>6, <2>2
    <2>. QED BY <1>4, <2>1, <2>2
  <1>11. CompletedMeansSaved' /\ DuplicateForAReason'
    BY <1>3, <1>4, <1>5, <1>9 DEF IInv, CompletedMeansSaved, DuplicateForAReason
  <1>12. WaitingAhead'
    <2>1. token < n /\ n > pos
      BY <1>1, <1>6
    <2>. QED BY <1>3, <1>4, <1>9, <2>1 DEF IInv, WaitingAhead, Waiting
  <1>. QED BY <1>7, <1>8, <1>10, <1>11, <1>12 DEF IInv

LEMMA IncrementStep == IInv /\ IncrementRetryCounts => IInv'
  <1> SUFFICES ASSUME IInv, IncrementRetryCounts PROVE IInv'
    OBVIOUS
  <1>1. PICK done \in SUBSET Bad : events' = [e \in DOMAIN events |->
          IF e \in done THEN [events[e] EXCEPT !.retries = @ + 1] ELSE events[e]]
    BY DEF IncrementRetryCounts
  <1>2. /\ done \subseteq found /\ found \subseteq DOMAIN events
        /\ \A e \in done : events[e].retries < MaxRetries
        /\ pc = "increment" /\ pc' = "save"
        /\ UNCHANGED <<sessions, token, pos, found, starts, missed, unmarked>>
    BY DEF IncrementRetryCounts, Bad, IInv, TypeOK, FoundKept
  <1>3. \A e \in DOMAIN events : /\ events'[e] \in Event
                                 /\ events'[e].kind = events[e].kind
                                 /\ events'[e].status = events[e].status
                                 /\ e \notin done => events'[e] = events[e]
    <2> SUFFICES ASSUME NEW e \in DOMAIN events
                 PROVE  /\ events'[e] \in Event
                        /\ events'[e].kind = events[e].kind
                        /\ events'[e].status = events[e].status
                        /\ e \notin done => events'[e] = events[e]
      OBVIOUS
    <2>1. events[e] \in Event
      BY TypeFacts DEF IInv
    <2>2. CASE e \in done
      <3>1. events'[e] = [events[e] EXCEPT !.retries = @ + 1]
        BY <1>1, <2>2
      <3>2. events[e].retries + 1 \in 0 .. MaxRetries
        BY <1>2, <2>1, <2>2, RetryAssumption DEF Event
      <3>. QED BY <2>1, <2>2, <3>1, <3>2 DEF Event
    <2>3. CASE e \notin done
      BY <1>1, <2>1, <2>3
    <2>. QED BY <2>2, <2>3
  <1>4. events' \in [DOMAIN events -> Event]
    BY <1>1, <1>3
  <1>5. events' \in Seq(Event) /\ Len(events') = Len(events) /\ DOMAIN events' = DOMAIN events
    BY <1>4, Updated DEF IInv
  <1>6. TypeOK'
    BY <1>2, <1>5 DEF IInv, TypeOK, Steps
  <1>7. FoundKept'
    BY <1>2, <1>3 DEF IInv, FoundKept
  <1>8. SavedKept'
    BY <1>2, <1>3, <1>5 DEF IInv, SavedKept
  <1>9. CompletedMeansSaved' /\ DuplicateForAReason'
    BY <1>2, <1>3, <1>5 DEF IInv, CompletedMeansSaved, DuplicateForAReason
  <1>10. WaitingAhead'
    BY <1>2, <1>3, <1>5 DEF IInv, WaitingAhead, Waiting
  <1>. QED BY <1>6, <1>7, <1>8, <1>9, <1>10 DEF IInv

(* Inserting the sessions of some events: each of them has one more.       *)
LEMMA InsertFacts ==
  ASSUME TypeOK, NEW S \in SUBSET (DOMAIN events), Insert(S), events' = events
  PROVE  /\ sessions' \in [DOMAIN events' -> Nat]
         /\ \A e \in DOMAIN events :
              sessions'[e] = IF e \in S THEN sessions[e] + 1 ELSE sessions[e]
  BY TypeFacts DEF Insert

(* What is inserted was pending until now: if it had sessions already, it  *)
(* was left behind before.                                                 *)
LEMMA SavingDuplicates ==
  ASSUME IInv, pc = "save", NEW S \in SUBSET Converted, Insert(S), events' = events,
         unmarked \subseteq unmarked'
  PROVE  DuplicateForAReason'
  <1>1. S \subseteq found /\ found \subseteq DOMAIN events
    BY DEF Converted, IInv, TypeOK
  <1>2. \A e \in DOMAIN events : sessions[e] \in Nat
    BY TypeFacts DEF IInv
  <1>3. \A e \in S : sessions[e] > 0 => e \in unmarked
    BY <1>1 DEF IInv, FoundKept, SavedKept
  <1>4. \A e \in DOMAIN events :
          sessions'[e] = IF e \in S THEN sessions[e] + 1 ELSE sessions[e]
    BY <1>1, InsertFacts DEF IInv
  <1>. QED BY <1>1, <1>2, <1>3, <1>4 DEF IInv, DuplicateForAReason

LEMMA SaveBatchStep == IInv /\ SaveBatch => IInv'
  <1> SUFFICES ASSUME IInv, SaveBatch PROVE IInv'
    OBVIOUS
  <1>1. /\ pc = "save" /\ pc' = "complete" /\ Insert(Converted)
        /\ UNCHANGED <<events, token, pos, found, starts, missed, unmarked>>
    BY DEF SaveBatch
  <1>2. Converted \in SUBSET (DOMAIN events)
    BY DEF Converted, IInv, TypeOK
  <1>3. /\ sessions' \in [DOMAIN events' -> Nat]
        /\ \A e \in DOMAIN events :
             sessions'[e] = IF e \in Converted THEN sessions[e] + 1 ELSE sessions[e]
    BY <1>1, <1>2, InsertFacts DEF IInv
  <1>4. \A e \in DOMAIN events : sessions[e] \in Nat
    BY TypeFacts DEF IInv
  <1>5. TypeOK'
    BY <1>1, <1>3 DEF IInv, TypeOK, Steps
  <1>6. FoundKept'
    BY <1>1 DEF IInv, FoundKept
  <1>7. SavedKept'
    BY <1>1, <1>3, <1>4 DEF IInv, SavedKept, Converted
  <1>8. CompletedMeansSaved'
    BY <1>1, <1>3, <1>4 DEF IInv, CompletedMeansSaved
  <1>9. DuplicateForAReason'
    BY <1>1, SavingDuplicates
  <1>10. WaitingAhead'
    BY <1>1 DEF IInv, WaitingAhead, Waiting
  <1>. QED BY <1>5, <1>6, <1>7, <1>8, <1>9, <1>10 DEF IInv

LEMMA SaveBatchErrorStep == IInv /\ SaveBatchError => IInv'
  <1> SUFFICES ASSUME IInv, SaveBatchError PROVE IInv'
    OBVIOUS
  <1>1. PICK done \in SUBSET Converted : Insert(done)
    BY DEF SaveBatchError
  <1>2. /\ pc = "save" /\ pc' = "token" /\ found' = {} /\ unmarked' = unmarked \cup found
        /\ UNCHANGED <<events, token, pos, starts, missed>>
    BY DEF SaveBatchError
  <1>3. done \in SUBSET (DOMAIN events) /\ found \subseteq DOMAIN events
    BY DEF Converted, IInv, TypeOK
  <1>4. /\ sessions' \in [DOMAIN events' -> Nat]
        /\ \A e \in DOMAIN events :
             sessions'[e] = IF e \in done THEN sessions[e] + 1 ELSE sessions[e]
    BY <1>1, <1>2, <1>3, InsertFacts DEF IInv
  <1>5. \A e \in DOMAIN events : sessions[e] \in Nat
    BY TypeFacts DEF IInv
  <1>6. TypeOK'
    BY <1>2, <1>3, <1>4 DEF IInv, TypeOK, Steps
  <1>7. FoundKept'
    BY <1>2 DEF FoundKept
  <1>8. SavedKept'
    BY <1>2, <1>4, <1>5 DEF IInv, SavedKept, Converted
  <1>9. CompletedMeansSaved'
    BY <1>2, <1>4, <1>5 DEF IInv, CompletedMeansSaved
  <1>10. DuplicateForAReason'
    BY <1>1, <1>2, SavingDuplicates
  <1>11. WaitingAhead'
    BY <1>2 DEF IInv, WaitingAhead, Waiting
  <1>. QED BY <1>6, <1>7, <1>8, <1>9, <1>10, <1>11 DEF IInv

(* What UpdateStatusByIDs leaves of the events.                            *)
LEMMA UpdateStatusFacts ==
  ASSUME TypeOK, NEW S \in SUBSET found, NEW status \in Statuses, NEW next,
         UpdateStatus(S, status, next)
  PROVE  /\ events' \in Seq(Event) /\ Len(events') = Len(events) /\ DOMAIN events' = DOMAIN events
         /\ \A e \in DOMAIN events :
              /\ events'[e].kind = events[e].kind
              /\ events'[e].retries = events[e].retries
              /\ \/ events'[e].status = events[e].status /\ (e \in S => e \in unmarked')
                 \/ e \in S /\ events'[e].status = status
         /\ unmarked \subseteq unmarked' /\ unmarked' \in SUBSET (DOMAIN events)
         /\ pc' = next /\ UNCHANGED <<sessions, token, pos, starts, missed>>
  <1>1. PICK done \in SUBSET S :
          /\ events' = [e \in DOMAIN events |->
               IF e \in done THEN [events[e] EXCEPT !.status = status] ELSE events[e]]
          /\ unmarked' = unmarked \cup (S \ done)
    BY DEF UpdateStatus
  <1>2. \A e \in DOMAIN events : /\ events'[e] \in Event
                                 /\ events'[e].kind = events[e].kind
                                 /\ events'[e].retries = events[e].retries
                                 /\ e \in done => events'[e].status = status
                                 /\ e \notin done => events'[e] = events[e]
    BY <1>1, TypeFacts DEF Event
  <1>3. events' \in [DOMAIN events -> Event]
    BY <1>1, <1>2
  <1>4. events' \in Seq(Event) /\ Len(events') = Len(events) /\ DOMAIN events' = DOMAIN events
    BY <1>3, Updated
  <1>5. S \subseteq DOMAIN events /\ unmarked \subseteq DOMAIN events
    BY DEF TypeOK
  <1>. QED BY <1>1, <1>2, <1>4, <1>5 DEF UpdateStatus

(* The events marked completed are the good ones among those found, and    *)
(* their sessions were inserted just before.                               *)
LEMMA MarkCompletedStep == IInv /\ MarkCompleted => IInv'
  <1> SUFFICES ASSUME IInv, MarkCompleted PROVE IInv'
    OBVIOUS
  <1>1. pc = "complete" /\ UpdateStatus(Good, "completed", "fail") /\ found' = found
    BY DEF MarkCompleted
  <1>2. Good \in SUBSET found /\ "completed" \in Statuses /\ found \subseteq DOMAIN events
    BY DEF Good, Statuses, IInv, TypeOK
  <1>3. /\ events' \in Seq(Event) /\ Len(events') = Len(events) /\ DOMAIN events' = DOMAIN events
        /\ \A e \in DOMAIN events :
             /\ events'[e].kind = events[e].kind
             /\ events'[e].retries = events[e].retries
             /\ \/ events'[e].status = events[e].status /\ (e \in Good => e \in unmarked')
                \/ e \in Good /\ events'[e].status = "completed"
        /\ unmarked \subseteq unmarked' /\ unmarked' \in SUBSET (DOMAIN events)
        /\ pc' = "fail" /\ UNCHANGED <<sessions, token, pos, starts, missed>>
    BY <1>1, <1>2, UpdateStatusFacts DEF IInv
  <1>4. \A e \in found : events[e].kind = "sessions" => e \in Good
    BY DEF Good, Bad
  <1>5. TypeOK'
    BY <1>1, <1>3 DEF IInv, TypeOK, Steps
  <1>6. FoundKept'
    BY <1>1, <1>2, <1>3 DEF FoundKept, Good, Bad
  <1>7. SavedKept'
    BY <1>1, <1>3, <1>4 DEF IInv, SavedKept
  <1>8. CompletedMeansSaved'
    BY <1>1, <1>2, <1>3 DEF IInv, CompletedMeansSaved, SavedKept
  <1>9. DuplicateForAReason'
    BY <1>3 DEF IInv, DuplicateForAReason
  <1>10. WaitingAhead'
    <2>1. \A e \in DOMAIN events : Waiting(e)' => Waiting(e)
      BY <1>3 DEF Waiting
    <2>. QED BY <1>1, <1>3, <2>1 DEF IInv, WaitingAhead
  <1>. QED BY <1>5, <1>6, <1>7, <1>8, <1>9, <1>10 DEF IInv

(* After MarkFailed nothing is worked on any more; a good event that is    *)
(* still pending had its excuse from the step before.                      *)
LEMMA MarkFailedStep == IInv /\ MarkFailed => IInv'
  <1> SUFFICES ASSUME IInv, MarkFailed PROVE IInv'
    OBVIOUS
  <1>1. pc = "fail" /\ UpdateStatus(Bad, "failed", "token") /\ found' = {}
    BY DEF MarkFailed
  <1>2. Bad \in SUBSET found /\ "failed" \in Statuses
    BY DEF Bad, Statuses
  <1>3. /\ events' \in Seq(Event) /\ Len(events') = Len(events) /\ DOMAIN events' = DOMAIN events
        /\ \A e \in DOMAIN events :
             /\ events'[e].kind = events[e].kind
             /\ events'[e].retries = events[e].retries
             /\ \/ events'[e].status = events[e].status /\ (e \in Bad => e \in unmarked')
                \/ e \in Bad /\ events'[e].status = "failed"
        /\ unmarked \subseteq unmarked' /\ unmarked' \in SUBSET (DOMAIN events)
        /\ pc' = "token" /\ UNCHANGED <<sessions, token, pos, starts, missed>>
    BY <1>1, <1>2, UpdateStatusFacts DEF IInv
  <1>5. TypeOK'
    BY <1>1, <1>3 DEF IInv, TypeOK, Steps
  <1>6. FoundKept'
    BY <1>1, <1>3 DEF FoundKept
  <1>7. SavedKept'
    BY <1>1, <1>3 DEF IInv, SavedKept
  <1>8. CompletedMeansSaved'
    BY <1>3 DEF IInv, CompletedMeansSaved
  <1>9. DuplicateForAReason'
    BY <1>3 DEF IInv, DuplicateForAReason
  <1>10. WaitingAhead'
    <2>1. \A e \in DOMAIN events : Waiting(e)' => Waiting(e) /\ e \notin found
      BY <1>1, <1>3 DEF Waiting, IInv, TypeOK, FoundKept, Bad
    <2>. QED BY <1>1, <1>3, <2>1 DEF IInv, WaitingAhead
  <1>. QED BY <1>5, <1>6, <1>7, <1>8, <1>9, <1>10 DEF IInv

-----------------------------------------------------------------------------
LEMMA IInvNext == IInv /\ [Next]_vars => IInv'
  <1> SUFFICES ASSUME IInv, [Next]_vars PROVE IInv'
    OBVIOUS
  <1>1. ASSUME NEW b \in Batches, NEW kind \in Kinds, InsertEvent(b, kind) PROVE IInv'
    BY <1>1, InsertEventStep
  <1>2. CASE Start
    BY <1>2, StartStep
  <1>3. CASE NextChange
    BY <1>3, NextChangeStep
  <1>4. CASE SkipChange
    BY <1>4, SkipChangeStep
  <1>5. CASE StreamError
    BY <1>5, StreamErrorStep
  <1>6. CASE Exit
    BY <1>6, ExitStep
  <1>7. CASE Processing
    BY <1>7, FindStep, FindErrorStep, IncrementStep, SaveBatchStep, SaveBatchErrorStep,
       MarkCompletedStep, MarkFailedStep, SaveResumeTokenStep DEF Processing
  <1>8. CASE UNCHANGED vars
    BY <1>8 DEF vars, IInv, TypeOK, FoundKept, SavedKept, CompletedMeansSaved,
                DuplicateForAReason, WaitingAhead, Waiting
  <1>. QED BY <1>1, <1>2, <1>3, <1>4, <1>5, <1>6, <1>7, <1>8 DEF Next

LEMMA IInvImplies ==
  IInv => TypeOK /\ CompletedMeansSaved /\ DuplicateForAReason /\ PendingForAReason
  <1> SUFFICES ASSUME IInv PROVE PendingForAReason
    BY DEF IInv
  <1>1. pc = "next" => found = {}
    BY DEF IInv, FoundKept
  <1>2. \A e \in found : e \in DOMAIN events
    BY DEF IInv, TypeOK
  <1>3. token \in Nat /\ pos \in Nat /\ DOMAIN events \subseteq Nat
    BY TypeFacts DEF IInv, TypeOK
  <1>. QED BY <1>1, <1>3 DEF IInv, WaitingAhead, Waiting, PendingForAReason

LEMMA Invariant == Spec => []IInv
  BY IInvInit, IInvNext, PTL DEF Spec

(* The state of the API and of its collections keeps its types; the retry  *)
(* count of an event never exceeds the limit.                              *)
THEOREM TypeCorrect == Spec => []TypeOK
  BY Invariant, IInvImplies, PTL

(* Whatever calls of processBatch fail, wherever the API stops and however *)
(* change events of a batch repeat: an event marked completed was saved.   *)
THEOREM CompletedWasSaved == Spec => []CompletedMeansSaved
  BY Invariant, IInvImplies, PTL

(* Sessions of an event are inserted twice only after a call between the   *)
(* query that found it and its mark failed.                                *)
THEOREM DuplicatesExplained == Spec => []DuplicateForAReason
  BY Invariant, IInvImplies, PTL

(* The stream leaves an event pending behind itself, or behind the saved   *)
(* token, only when its own change led to no query or a call for it failed.*)
THEOREM PendingExplained == Spec => []PendingForAReason
  BY Invariant, IInvImplies, PTL
-----------------------------------------------------------------------------
(* The promise of Conversion.                                              *)

(* During an event's turn nothing before it waits, and what did not        *)
(* convert is pending until it is marked failed.                           *)
AtWork ==
  pc \in Working =>
    /\ pos \in DOMAIN events
    /\ \A e \in DOMAIN events : Waiting(e) => pos <= e
    /\ pc = "fail" => \A e \in Bad : events[e].status = "pending"

LEMMA AtWorkKept == IInv /\ AtWork /\ [Next]_vars => AtWork'
  <1> SUFFICES ASSUME IInv, AtWork, [Next]_vars PROVE AtWork'
    OBVIOUS
  <1>1. /\ Len(events) \in Nat /\ DOMAIN events = 1 .. Len(events) /\ pos \in 0 .. Len(events) /\ found \in SUBSET (DOMAIN events)
    BY TypeFacts DEF IInv, TypeOK
  <1>2. ASSUME NEW b \in Batches, NEW kind \in Kinds, InsertEvent(b, kind) PROVE AtWork'
    <2> DEFINE n == Len(events) + 1
               x == [batch |-> b, kind |-> kind, status |-> "pending", retries |-> 0]
    <2>1. events' = Append(events, x) /\ UNCHANGED <<pos, pc, found, missed, unmarked>>
      BY <1>2 DEF InsertEvent
    <2>2. x \in Event /\ events \in Seq(Event)
      BY RetryAssumption, TypeFacts DEF Event, Statuses, IInv
    <2> HIDE DEF x
    <2>3. DOMAIN events' = DOMAIN events \cup {n} /\ \A e \in DOMAIN events : events'[e] = events[e]
      BY <2>1, <2>2, AppendFacts
    <2>4. pos <= n
      BY <1>1
    <2>5. pc = "fail" => Bad' = Bad
      BY <1>1, <2>1, <2>3 DEF Bad
    <2> QED
      BY <1>1, <2>1, <2>3, <2>4, <2>5 DEF AtWork, Waiting, Bad
  <1>3. CASE Start \/ SkipChange \/ StreamError \/ Exit \/ FindError \/ SaveBatchError \/ MarkFailed \/ SaveResumeToken
    <2>1. pc' \notin Working
      BY <1>3 DEF Start, SkipChange, StreamError, Exit, FindError, SaveBatchError, MarkFailed, UpdateStatus, SaveResumeToken, Working
    <2> QED
      BY <2>1 DEF AtWork
  <1>4. CASE NextChange
    <2>1. /\ pc' = "find" /\ found = {} /\ pos' = pos + 1 /\ pos' \in DOMAIN events
          /\ UNCHANGED <<events, missed, unmarked>> /\ pc = "next"
      BY <1>1, <1>4 DEF NextChange, IInv, FoundKept
    <2>2. \A e \in DOMAIN events : Waiting(e) => pos + 1 <= e
      BY <1>1, <2>1 DEF IInv, WaitingAhead
    <2> QED
      BY <2>1, <2>2 DEF AtWork, Waiting
  <1>5. CASE Find \/ SaveBatch
    <2>1. pc \in Working /\ pc' # "fail" /\ UNCHANGED <<events, pos, missed, unmarked>>
      BY <1>5 DEF Find, SaveBatch, Working
    <2> QED
      BY <2>1 DEF AtWork, Waiting
  <1>6. CASE IncrementRetryCounts
    <2>1. PICK done \in SUBSET Bad : events' = [e \in DOMAIN events |->
            IF e \in done THEN [events[e] EXCEPT !.retries = @ + 1] ELSE events[e]]
      BY <1>6 DEF IncrementRetryCounts
    <2>2. DOMAIN events' = DOMAIN events /\ \A e \in DOMAIN events : events'[e].status = events[e].status
      BY <2>1, TypeFacts DEF IInv, Event
    <2>3. pc \in Working /\ pc' # "fail" /\ UNCHANGED <<pos, missed, unmarked>>
      BY <1>6 DEF IncrementRetryCounts, Working
    <2> QED
      BY <2>2, <2>3 DEF AtWork, Waiting
  <1>7. CASE MarkCompleted
    <2>1. pc = "complete" /\ UpdateStatus(Good, "completed", "fail") /\ found' = found
      BY <1>7 DEF MarkCompleted
    <2>2. Good \in SUBSET found /\ "completed" \in Statuses
      BY DEF Good, Statuses
    <2>3. /\ DOMAIN events' = DOMAIN events
          /\ \A e \in DOMAIN events :
               /\ events'[e].kind = events[e].kind
               /\ \/ events'[e].status = events[e].status
                  \/ e \in Good /\ events'[e].status = "completed"
          /\ unmarked \subseteq unmarked' /\ UNCHANGED <<pos, missed>>
      BY <2>1, <2>2, UpdateStatusFacts DEF IInv
    <2>4. \A e \in Bad' : e \in Bad /\ events'[e].status = events[e].status
      BY <1>1, <2>1, <2>3 DEF Bad, Good
    <2>5. \A e \in Bad : events[e].status = "pending"
      BY <2>1 DEF Bad, IInv, FoundKept
    <2>6. pc \in Working
      BY <2>1 DEF Working
    <2>7. \A e \in DOMAIN events : Waiting(e)' => Waiting(e)
      BY <2>3 DEF Waiting
    <2> QED
      BY <2>3, <2>4, <2>5, <2>6, <2>7 DEF AtWork
  <1>8. CASE UNCHANGED vars
    BY <1>8 DEF vars, AtWork, Waiting, Bad
  <1> QED
    BY <1>2, <1>3, <1>4, <1>5, <1>6, <1>7, <1>8 DEF Next, Processing

(* The mapping of Promise.                                                 *)
KindOf == [e \in DOMAIN events |-> events[e].kind]
StatusOf == [e \in DOMAIN events |-> events[e].status]
Reached == IF pc \in Working THEN pos - 1 ELSE pos

LEMMA Mapped ==
  ASSUME IInv
  PROVE  /\ DOMAIN KindOf = DOMAIN events /\ DOMAIN StatusOf = DOMAIN events /\ Len(KindOf) = Len(events)
         /\ \A e \in DOMAIN events : KindOf[e] = events[e].kind /\ StatusOf[e] = events[e].status
  <1>1. events \in Seq(Event) /\ KindOf \in [DOMAIN events -> {events[e].kind : e \in DOMAIN events}]
    BY TypeFacts DEF IInv, KindOf
  <1>2. Len(KindOf) = Len(events)
    BY <1>1, SamePlaces
  <1> QED
    BY <1>2 DEF KindOf, StatusOf

(* Nothing waits that was reached.                                         *)
Turns ==
  /\ Reached \in 0 .. Len(events)
  /\ \A e \in 1 .. Reached : StatusOf[e] = "pending" => e \in missed \cup unmarked

LEMMA TurnsHold == IInv /\ AtWork => Turns
  <1> SUFFICES ASSUME IInv, AtWork PROVE Turns
    OBVIOUS
  <1>1. Len(events) \in Nat /\ DOMAIN events = 1 .. Len(events) /\ pos \in 0 .. Len(events)
    BY TypeFacts DEF IInv, TypeOK
  <1>2. Reached \in 0 .. Len(events)
    BY <1>1 DEF Reached, AtWork
  <1>3. ASSUME NEW e \in 1 .. Reached, StatusOf[e] = "pending", e \notin missed \cup unmarked PROVE FALSE
    <2>1. e \in DOMAIN events /\ e <= Reached
      BY <1>1, <1>2
    <2>2. Waiting(e)
      BY <1>3, <2>1, Mapped DEF Waiting
    <2>3. CASE pc \in Working
      BY <1>1, <2>1, <2>2, <2>3 DEF AtWork, Reached
    <2>4. CASE pc \notin Working
      <3>1. found = {} /\ pc # "find" /\ Reached = pos
        BY <2>4 DEF Reached, IInv, TypeOK, FoundKept, Working, Steps
      <3> QED
        BY <1>1, <2>1, <2>2, <3>1 DEF IInv, WaitingAhead
    <2> QED
      BY <2>3, <2>4
  <1> QED
    BY <1>2, <1>3 DEF Turns

LEMMA TurnsEnd ==
  ASSUME IInv, IInv', Turns, Turns', DOMAIN events' = DOMAIN events, missed \subseteq missed', unmarked \subseteq unmarked',
         Reached <= Reached'
  PROVE  Promise!EndTurns
  <1>1. Len(events) \in Nat /\ DOMAIN events = 1 .. Len(events) /\ Len(KindOf) = Len(events) /\ DOMAIN KindOf = DOMAIN events
    BY TypeFacts, Mapped DEF IInv
  <1>2. Len(events') = Len(events)
    <2>1. events' \in Seq(Event)
      BY DEF IInv, TypeOK
    <2>2. Len(events') \in Nat /\ DOMAIN events' = 1 .. Len(events')
      BY <2>1
    <2> QED
      BY <1>1, <2>2
  <1>3. missed' \cup unmarked' \subseteq DOMAIN events
    BY DEF IInv, TypeOK
  <1>4. Reached \in 0 .. Len(events) /\ Reached' \in 0 .. Len(events')
    BY DEF Turns
  <1>5. Reached' \in Reached .. Len(KindOf)
    BY <1>1, <1>2, <1>4
  <1>6. \A e \in 1 .. Reached' : StatusOf'[e] = "pending" => e \in missed' \cup unmarked'
    BY DEF Turns
  <1> QED
    BY <1>1, <1>3, <1>5, <1>6 DEF Promise!EndTurns, KindOf, StatusOf, Reached

LEMMA AppendField ==
  ASSUME NEW b \in Batches, NEW kind \in Kinds, IInv, InsertEvent(b, kind)
  PROVE  KindOf' = Append(KindOf, kind) /\ StatusOf' = Append(StatusOf, "pending")
  <1> DEFINE n == Len(events) + 1
             x == [batch |-> b, kind |-> kind, status |-> "pending", retries |-> 0]
             K == {events[e].kind : e \in DOMAIN events} \cup {kind}
             S == {events[e].status : e \in DOMAIN events} \cup {"pending"}
  <1>1. events' = Append(events, x) /\ events \in Seq(Event) /\ x \in Event /\ x.kind = kind /\ x.status = "pending"
    BY RetryAssumption, TypeFacts DEF InsertEvent, Event, Statuses, IInv
  <1>2. Len(events) \in Nat /\ DOMAIN events = 1 .. Len(events)
    BY TypeFacts DEF IInv
  <1> HIDE DEF x
  <1>3. DOMAIN events' = 1 .. n /\ (\A e \in DOMAIN events : events'[e] = events[e]) /\ events'[n] = x
    BY <1>1, <1>2, AppendFacts
  <1>4. KindOf \in [DOMAIN events -> K] /\ StatusOf \in [DOMAIN events -> S] /\ kind \in K /\ "pending" \in S
    BY DEF KindOf, StatusOf
  <1> HIDE DEF K, S
  <1>5. KindOf \in Seq(K) /\ Len(KindOf) = Len(events) /\ StatusOf \in Seq(S) /\ Len(StatusOf) = Len(events)
    BY <1>1, <1>4, SamePlaces
  <1>6. KindOf' = [e \in 1 .. n |-> events'[e].kind] /\ StatusOf' = [e \in 1 .. n |-> events'[e].status]
    BY <1>3 DEF KindOf, StatusOf
  <1>7. KindOf' = Append(KindOf, kind)
    <2> DEFINE t == Append(KindOf, kind)
    <2>1. t \in Seq(K) /\ Len(t) = n /\ DOMAIN t = 1 .. n /\ (\A e \in DOMAIN events : t[e] = KindOf[e]) /\ t[n] = kind
      BY <1>2, <1>4, <1>5, AppendFacts
    <2> HIDE DEF t
    <2>2. t = [e \in 1 .. n |-> t[e]]
      BY <2>1
    <2>3. \A e \in 1 .. n : t[e] = events'[e].kind
      BY <1>1, <1>2, <1>3, <2>1 DEF KindOf
    <2> QED
      BY <1>6, <2>2, <2>3 DEF t
  <1>8. StatusOf' = Append(StatusOf, "pending")
    <2> DEFINE t == Append(StatusOf, "pending")
    <2>1. t \in Seq(S) /\ Len(t) = n /\ DOMAIN t = 1 .. n /\ (\A e \in DOMAIN events : t[e] = StatusOf[e]) /\ t[n] = "pending"
      BY <1>2, <1>4, <1>5, AppendFacts
    <2> HIDE DEF t
    <2>2. t = [e \in 1 .. n |-> t[e]]
      BY <2>1
    <2>3. \A e \in 1 .. n : t[e] = events'[e].status
      BY <1>1, <1>2, <1>3, <2>1 DEF StatusOf
    <2> QED
      BY <1>6, <2>2, <2>3 DEF t
  <1> QED
    BY <1>7, <1>8

LEMMA ArrivalImplements ==
  ASSUME IInv, NEW b \in Batches, NEW kind \in Kinds, InsertEvent(b, kind)
  PROVE  Promise!Next
  <1>1. KindOf' = Append(KindOf, kind) /\ StatusOf' = Append(StatusOf, "pending")
    BY AppendField
  <1>2. sessions' = Append(sessions, 0) /\ UNCHANGED <<missed, unmarked, token, pos, pc>>
    BY DEF InsertEvent
  <1>3. Promise!Arrive(kind)
    BY <1>1, <1>2 DEF Promise!Arrive, KindOf, StatusOf
  <1> QED
    BY <1>3 DEF Promise!Next

(* Steps of which the promise sees only that turns end.                    *)
LEMMA PassImplements ==
  ASSUME IInv, AtWork, Turns, IInv', Turns',
         Start \/ NextChange \/ SkipChange \/ StreamError \/ Exit \/ Find \/ FindError \/ IncrementRetryCounts
  PROVE  Promise!Next
  <1>1. pos \in 0 .. Len(events) /\ Len(events) \in Nat /\ DOMAIN events = 1 .. Len(events)
    BY TypeFacts DEF IInv, TypeOK
  <1>2. KindOf' = KindOf /\ StatusOf' = StatusOf /\ DOMAIN events' = DOMAIN events
    <2>1. CASE IncrementRetryCounts
      <3>1. PICK done \in SUBSET Bad : events' = [e \in DOMAIN events |->
              IF e \in done THEN [events[e] EXCEPT !.retries = @ + 1] ELSE events[e]]
        BY <2>1 DEF IncrementRetryCounts
      <3>2. DOMAIN events' = DOMAIN events
            /\ \A e \in DOMAIN events : events'[e].status = events[e].status /\ events'[e].kind = events[e].kind
        BY <3>1, TypeFacts DEF IInv, Event
      <3> QED
        BY <3>2 DEF KindOf, StatusOf
    <2>2. CASE events' = events
      BY <2>2 DEF KindOf, StatusOf
    <2> QED
      BY <2>1, <2>2 DEF Start, NextChange, SkipChange, StreamError, Exit, Find, FindError
  <1>3. missed \subseteq missed' /\ unmarked \subseteq unmarked' /\ UNCHANGED <<sessions, token>>
    BY DEF Start, NextChange, SkipChange, StreamError, Exit, Find, FindError, IncrementRetryCounts
  <1>4. Reached <= Reached'
    <2>1. CASE Start
      BY <1>1, <2>1 DEF Start, WatchInserts, GetResumeToken, NoToken, Reached, Working
    <2>2. CASE NextChange \/ SkipChange
      BY <1>1, <2>2 DEF NextChange, SkipChange, Reached, Working
    <2>3. CASE StreamError \/ Exit \/ Find \/ FindError \/ IncrementRetryCounts
      BY <1>1, <2>3 DEF StreamError, Exit, Find, FindError, IncrementRetryCounts, Reached, Working
    <2> QED
      BY <2>1, <2>2, <2>3
  <1>5. Promise!EndTurns
    BY <1>2, <1>3, <1>4, TurnsEnd
  <1>6. Promise!Pass
    BY <1>2, <1>3, <1>5 DEF Promise!Pass, KindOf, StatusOf
  <1> QED
    BY <1>6 DEF Promise!Next

LEMMA SaveImplements ==
  ASSUME SaveResumeToken
  PROVE  Promise!Next \/ UNCHANGED Promise!vars
  <1>1. pc = "token" /\ pc' = "next" /\ token' \in {token, pos} /\ UNCHANGED <<events, sessions, pos, missed, unmarked>>
    BY DEF SaveResumeToken
  <1>2. Reached = pos /\ Reached' = pos /\ KindOf' = KindOf /\ StatusOf' = StatusOf
    BY <1>1 DEF Reached, Working, KindOf, StatusOf
  <1>3. CASE token' = pos
    <2>1. Promise!Save
      BY <1>1, <1>2, <1>3 DEF Promise!Save, Reached, KindOf, StatusOf
    <2> QED
      BY <2>1 DEF Promise!Next
  <1>4. CASE token' = token
    BY <1>1, <1>2, <1>4 DEF Promise!vars, Reached, KindOf, StatusOf
  <1> QED
    BY <1>1, <1>3, <1>4

(* What is inserted is pending, and a second time only after a break.      *)
LEMMA ConvertImplements ==
  ASSUME IInv, AtWork, Turns, IInv', Turns', SaveBatch \/ SaveBatchError
  PROVE  Promise!Next
  <1>1. PICK S \in SUBSET Converted : Insert(S)
    BY DEF SaveBatch, SaveBatchError
  <1>2. /\ pc = "save" /\ pc' \in {"complete", "token"} /\ UNCHANGED <<events, token, pos, missed>>
        /\ unmarked \subseteq unmarked'
    BY DEF SaveBatch, SaveBatchError
  <1>3. S \in SUBSET (DOMAIN events) /\ \A e \in S : e \in found /\ events[e].kind = "sessions"
    BY DEF Converted, IInv, TypeOK
  <1>4. \A e \in S : events[e].status = "pending" /\ (sessions[e] > 0 => e \in unmarked)
    BY <1>2, <1>3 DEF IInv, FoundKept, SavedKept
  <1>5. /\ DOMAIN KindOf = DOMAIN events /\ DOMAIN sessions = DOMAIN events
        /\ \A e \in DOMAIN events : KindOf[e] = events[e].kind /\ StatusOf[e] = events[e].status /\ sessions[e] \in Nat
    BY Mapped, TypeFacts DEF IInv
  <1>6. S \in SUBSET {e \in DOMAIN KindOf : StatusOf[e] = "pending"}
    BY <1>3, <1>4, <1>5
  <1>7. sessions' = [e \in DOMAIN KindOf |-> IF e \in S THEN sessions[e] + 1 ELSE sessions[e]]
    BY <1>1, <1>5 DEF Insert
  <1>8. KindOf' = KindOf /\ StatusOf' = StatusOf
    BY <1>2 DEF KindOf, StatusOf
  <1>9. Reached <= Reached'
    <2>1. pos \in Nat
      BY DEF IInv, TypeOK
    <2> QED
      BY <1>2, <2>1 DEF Reached, Working
  <1>10. Promise!EndTurns
    BY <1>2, <1>9, TurnsEnd
  <1>11. \A e \in S : KindOf[e] = "sessions" /\ (sessions[e] > 0 => e \in unmarked)
    BY <1>3, <1>4, <1>5
  <1>12. Promise!Convert(S)
    BY <1>2, <1>7, <1>8, <1>10, <1>11 DEF Promise!Convert, KindOf, StatusOf
  <1> QED
    BY <1>6, <1>12 DEF Promise!Next, Promise!Pending, KindOf, StatusOf

(* A mark that reaches some of the events of a set.                        *)
LEMMA MarkImplements ==
  ASSUME IInv, AtWork, Turns, IInv', Turns',
         NEW S \in SUBSET found, NEW result \in Statuses, NEW next, UpdateStatus(S, result, next),
         \A e \in S : events[e].status = "pending", Reached <= Reached'
  PROVE  \E done \in SUBSET S :
           done \in SUBSET Promise!Pending /\ Promise!Settle(done, result)
  <1>1. PICK done \in SUBSET S :
          /\ events' = [e \in DOMAIN events |->
               IF e \in done THEN [events[e] EXCEPT !.status = result] ELSE events[e]]
          /\ unmarked' = unmarked \cup (S \ done)
    BY DEF UpdateStatus
  <1>2. UNCHANGED <<sessions, token, missed>> /\ S \in SUBSET (DOMAIN events)
    BY DEF UpdateStatus, IInv, TypeOK
  <1>3. /\ DOMAIN events' = DOMAIN events
        /\ \A e \in DOMAIN events : /\ events'[e].kind = events[e].kind
                                    /\ events'[e].status = IF e \in done THEN result ELSE events[e].status
    BY <1>1, TypeFacts DEF IInv, Event
  <1>4. /\ DOMAIN KindOf = DOMAIN events
        /\ \A e \in DOMAIN events : StatusOf[e] = events[e].status
    BY Mapped
  <1>5. KindOf' = KindOf /\ StatusOf' = [e \in DOMAIN KindOf |-> IF e \in done THEN result ELSE StatusOf[e]]
    BY <1>3, <1>4 DEF KindOf, StatusOf
  <1>6. Promise!EndTurns
    BY <1>1, <1>2, <1>3, TurnsEnd
  <1>7. Promise!Settle(done, result)
    BY <1>2, <1>5, <1>6 DEF Promise!Settle, KindOf, StatusOf
  <1>8. done \in SUBSET {e \in DOMAIN KindOf : StatusOf[e] = "pending"}
    BY <1>2, <1>4
  <1> QED
    BY <1>7, <1>8 DEF Promise!Pending, KindOf, StatusOf

LEMMA CompleteImplements ==
  ASSUME IInv, AtWork, Turns, IInv', Turns', MarkCompleted
  PROVE  Promise!Next
  <1>1. pc = "complete" /\ pc' = "fail" /\ pos' = pos /\ UpdateStatus(Good, "completed", "fail")
    BY DEF MarkCompleted, UpdateStatus
  <1>2. Good \in SUBSET found /\ found \in SUBSET (DOMAIN events) /\ "completed" \in Statuses
    BY DEF Good, Statuses, IInv, TypeOK
  <1>3. \A e \in Good : /\ events[e].status = "pending" /\ events[e].kind # "bad"
                        /\ events[e].kind = "sessions" => sessions[e] > 0
    BY <1>1, <1>2 DEF Good, Bad, IInv, FoundKept, SavedKept
  <1>4. Reached <= Reached'
    <2>1. pos \in Nat
      BY DEF IInv, TypeOK
    <2> QED
      BY <1>1, <2>1 DEF Reached, Working
  <1>5. PICK done \in SUBSET Good : done \in SUBSET Promise!Pending /\ Promise!Settle(done, "completed")
    BY <1>1, <1>2, <1>3, <1>4, MarkImplements
  <1>6. \A e \in done : KindOf[e] # "bad" /\ (KindOf[e] = "sessions" => sessions[e] > 0)
    BY <1>2, <1>3, Mapped
  <1>7. Promise!Complete(done)
    BY <1>5, <1>6 DEF Promise!Complete, KindOf
  <1> QED
    BY <1>5, <1>7 DEF Promise!Next

LEMMA FailImplements ==
  ASSUME IInv, AtWork, Turns, IInv', Turns', MarkFailed
  PROVE  Promise!Next
  <1>1. pc = "fail" /\ pc' = "token" /\ pos' = pos /\ UpdateStatus(Bad, "failed", "token")
    BY DEF MarkFailed, UpdateStatus
  <1>2. Bad \in SUBSET found /\ found \in SUBSET (DOMAIN events) /\ "failed" \in Statuses
    BY DEF Bad, Statuses, IInv, TypeOK
  <1>3. \A e \in Bad : events[e].status = "pending" /\ events[e].kind = "bad"
    BY <1>1 DEF Bad, AtWork, Working
  <1>4. Reached <= Reached'
    <2>1. pos \in Nat
      BY DEF IInv, TypeOK
    <2> QED
      BY <1>1, <2>1 DEF Reached, Working
  <1>5. PICK done \in SUBSET Bad : done \in SUBSET Promise!Pending /\ Promise!Settle(done, "failed")
    BY <1>1, <1>2, <1>3, <1>4, MarkImplements
  <1>6. \A e \in done : KindOf[e] = "bad"
    BY <1>2, <1>3, Mapped
  <1>7. Promise!Fail(done)
    BY <1>5, <1>6 DEF Promise!Fail, KindOf
  <1> QED
    BY <1>5, <1>7 DEF Promise!Next

LEMMA StepConverts ==
  IInv /\ AtWork /\ Turns /\ IInv' /\ Turns' /\ [Next]_vars => [Promise!Next]_(Promise!vars)
  <1> SUFFICES ASSUME IInv, AtWork, Turns, IInv', Turns', [Next]_vars
               PROVE  Promise!Next \/ UNCHANGED Promise!vars
    OBVIOUS
  <1>1. ASSUME NEW b \in Batches, NEW kind \in Kinds, InsertEvent(b, kind) PROVE Promise!Next
    BY <1>1, ArrivalImplements
  <1>2. ASSUME Start \/ NextChange \/ SkipChange \/ StreamError \/ Exit \/ Find \/ FindError \/ IncrementRetryCounts
        PROVE  Promise!Next
    BY <1>2, PassImplements
  <1>3. ASSUME SaveResumeToken PROVE Promise!Next \/ UNCHANGED Promise!vars
    BY <1>3, SaveImplements
  <1>4. ASSUME SaveBatch \/ SaveBatchError PROVE Promise!Next
    BY <1>4, ConvertImplements
  <1>5. ASSUME MarkCompleted PROVE Promise!Next
    BY <1>5, CompleteImplements
  <1>6. ASSUME MarkFailed PROVE Promise!Next
    BY <1>6, FailImplements
  <1>7. ASSUME UNCHANGED vars PROVE UNCHANGED Promise!vars
    BY <1>7 DEF vars, Promise!vars
  <1> QED
    BY <1>1, <1>2, <1>3, <1>4, <1>5, <1>6, <1>7 DEF Next, Processing

(* The stream implements Conversion: of processChangeStream, processBatch, *)
(* SaveBatch, UpdateStatusByIDs and the resume token, whatever fails.      *)
THEOREM StreamConverts == Spec => ImplementsConversion
  <1>1. Init => Promise!Init
    <2> SUFFICES ASSUME Init PROVE Promise!Init
      OBVIOUS
    <2>1. events = <<>> /\ sessions = <<>> /\ missed = {} /\ unmarked = {} /\ token = 0 /\ pos = 0 /\ pc = "down"
      BY DEF Init, NoToken
    <2>2. [e \in DOMAIN events |-> events[e].kind] = <<>> /\ [e \in DOMAIN events |-> events[e].status] = <<>>
      BY <2>1
    <2> QED
      BY <2>1, <2>2 DEF Promise!Init, Working
  <1>2. Init => AtWork
    BY DEF Init, AtWork, Working
  <1> QED
    BY <1>1, <1>2, IInvInit, IInvNext, AtWorkKept, TurnsHold, StepConverts, PTL DEF Spec, ImplementsConversion, Promise!Spec
=============================================================================
