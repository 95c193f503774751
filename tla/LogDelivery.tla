---------------------------- MODULE LogDelivery ----------------------------
(***************************************************************************)
(* What the daemon promises of the lines it has read, whichever goroutines *)
(* send them and in whichever batches: a line waits until it is stored     *)
(* under the project it was read for, or until the server has turned down  *)
(* a batch that held it, and it is stored once, unless the daemon could    *)
(* not hear that it was. LogFlush implements it.                           *)
(***************************************************************************)
EXTENDS Naturals, Sequences

CONSTANTS
  Projects,
  MaxRead    \* bound: lines of one read

VARIABLES
  origin,      \* the project each line was read for
  waiting,     \* lines that are still to be sent
  stored,      \* lines the server has of each project
  turnedDown,  \* lines of batches it would not take
  unheard      \* lines it took without the daemon being told

vars == <<origin, waiting, stored, turnedDown, unheard>>

Init ==
  /\ origin = <<>> /\ waiting = {} /\ turnedDown = {} /\ unheard = {}
  /\ stored = [p \in Projects |-> {}]

Read(p, n) ==
  /\ origin' = origin \o [i \in 1 .. n |-> p]
  /\ waiting' = waiting \cup (Len(origin) + 1 .. Len(origin) + n)
  /\ UNCHANGED <<stored, turnedDown, unheard>>

(* A batch is of one project, and holds nothing the server is known to have.*)
Batch(p, sent) ==
  /\ sent \subseteq waiting
  /\ \A n \in sent : origin[n] = p
  /\ sent \cap stored[p] \subseteq unheard

(* Along with a batch go lines that were turned down in a larger one.      *)
Deliver(p, sent, gone) ==
  /\ sent \subseteq gone /\ gone \subseteq sent \cup turnedDown
  /\ Batch(p, sent)
  /\ stored' = [stored EXCEPT ![p] = @ \cup sent]
  /\ waiting' = waiting \ gone
  /\ UNCHANGED <<origin, turnedDown, unheard>>

TurnDown(p, sent, gone) ==
  /\ Batch(p, sent)
  /\ turnedDown' = turnedDown \cup sent
  /\ gone \subseteq turnedDown'
  /\ waiting' = waiting \ gone
  /\ UNCHANGED <<origin, stored, unheard>>

LoseReply(p, sent) ==
  /\ stored' = [stored EXCEPT ![p] = @ \cup sent]
  /\ unheard' = unheard \cup sent
  /\ Batch(p, sent)
  /\ UNCHANGED <<origin, waiting, turnedDown>>

Next ==
  \E p \in Projects :
    \/ \E n \in 1 .. MaxRead : Read(p, n)
    \/ \E sent \in SUBSET waiting : LoseReply(p, sent)
    \/ \E sent \in SUBSET waiting, gone \in SUBSET waiting :
         Deliver(p, sent, gone) \/ TurnDown(p, sent, gone)

Spec == Init /\ [][Next]_vars
=============================================================================
