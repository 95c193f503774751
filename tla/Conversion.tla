------------------------------ MODULE Conversion -----------------------------
(***************************************************************************)
(* What the API promises of the events it has stored, whatever batches     *)
(* they came in and however often a batch is looked at: the sessions of an *)
(* event are inserted while it is pending, and again only if its           *)
(* processing broke off; an event leaves pending for good, completed after *)
(* its sessions or failed because it has none; and nothing that was        *)
(* reached, nor what a restart might begin behind, stays pending unless it *)
(* was missed or its processing broke off. SessionStream implements it.    *)
(***************************************************************************)
EXTENDS Naturals, Sequences

CONSTANT Kinds  \* what the adapters may make of an event

VARIABLES
  kinds,     \* the events, in order of insertion
  status,    \* of each of them
  sessions,  \* times its sessions were inserted
  missed,    \* events that nobody looked at in their turn
  unmarked,  \* events whose processing broke off
  reached,   \* how many events had their turn
  resume     \* where a restart might begin

vars == <<kinds, status, sessions, missed, unmarked, reached, resume>>

Pending == {e \in DOMAIN kinds : status[e] = "pending"}

Init ==
  /\ kinds = <<>> /\ status = <<>> /\ sessions = <<>>
  /\ missed = {} /\ unmarked = {} /\ reached = 0 /\ resume = 0

Arrive(kind) ==
  /\ kinds' = Append(kinds, kind) /\ status' = Append(status, "pending") /\ sessions' = Append(sessions, 0)
  /\ UNCHANGED <<missed, unmarked, reached, resume>>

(* Turns end in order; one that ends leaves an event pending for a reason. *)
EndTurns ==
  /\ reached' \in reached .. Len(kinds)
  /\ missed \subseteq missed' /\ unmarked \subseteq unmarked' /\ missed' \cup unmarked' \subseteq DOMAIN kinds
  /\ \A e \in 1 .. reached' : status'[e] = "pending" => e \in missed' \cup unmarked'

Pass == EndTurns /\ UNCHANGED <<kinds, status, sessions, resume>>

Convert(S) ==
  /\ \A e \in S : kinds[e] = "sessions" /\ (sessions[e] > 0 => e \in unmarked)
  /\ sessions' = [e \in DOMAIN kinds |-> IF e \in S THEN sessions[e] + 1 ELSE sessions[e]]
  /\ UNCHANGED <<kinds, status, resume>>
  /\ EndTurns

Settle(S, result) ==
  /\ status' = [e \in DOMAIN kinds |-> IF e \in S THEN result ELSE status[e]]
  /\ UNCHANGED <<kinds, sessions, resume>>
  /\ EndTurns

Complete(S) == (\A e \in S : kinds[e] # "bad" /\ (kinds[e] = "sessions" => sessions[e] > 0)) /\ Settle(S, "completed")
Fail(S) == (\A e \in S : kinds[e] = "bad") /\ Settle(S, "failed")

Save == resume' = reached /\ UNCHANGED <<kinds, status, sessions, missed, unmarked, reached>>

Next ==
  \/ \E kind \in Kinds : Arrive(kind)
  \/ \E S \in SUBSET Pending : Convert(S) \/ Complete(S) \/ Fail(S)
  \/ Pass \/ Save

Spec == Init /\ [][Next]_vars
=============================================================================
