------------------------------ MODULE LogFlush ------------------------------
(***************************************************************************)
(* The daemon's log buffer and the adaptive batching that empties it:      *)
(* daemon/internal/service/logwatcher/log_service.go, Service.Flush and    *)
(* what it calls, run by several goroutines at once (the five-second       *)
(* ticker of the fsnotify loop, the flush of Stop, one goroutine per IPC   *)
(* scan request), with the API client behind SendLogs as an unreliable     *)
(* call.                                                                   *)
(*                                                                         *)
(* A line is one reading of one JSONL line, numbered in reading order;     *)
(* origin remembers the project and the provider it was read for.          *)
(***************************************************************************)
EXTENDS Naturals, Sequences

CONSTANTS
  Projects,       \* project ids
  Providers,      \* domain.Provider: the tools that write the logs
  Claude,         \* the provider whose transient lines are filtered out
  Tickers,        \* goroutines that just flush: the loop's ticker, Stop
  Requests,       \* goroutines of IPC scan requests: scan files, then flush
  NoProvider,     \* the entry of bufferByProject is absent
  NoProject,      \* a goroutine that works on no project
  MaxBatchSize,   \* cfg.Cops.MaxBatchSize
  MaxLines,       \* bound: lines read in a behaviour
  MaxRead,        \* bound: lines one read of a file returns
  MaxLostReplies  \* bound: batches stored whose reply never arrives

Flushers == Tickers \cup Requests

Shared == "shared"  \* stands for the buffer among the holders of lines

(* config.go refuses a batch size below one at start-up.                   *)
ASSUME BatchSizeAssumption == MaxBatchSize \in Nat \ {0}
ASSUME SentinelAssumption == NoProject \notin Projects /\ NoProvider \notin Providers
ASSUME SharedAssumption == Shared \notin Flushers
ASSUME ClaudeAssumption == Claude \in Providers
ASSUME BoundAssumption == MaxRead \in Nat /\ MaxLines \in Nat /\ MaxLostReplies \in Nat

VARIABLES
  origin,     \* history: origin[n] is what line n was read for
  buffer,     \* bufferByProject
  owned,      \* owned[f]: the map Flush swapped out and still has to send
  work,       \* program counter and locals of each goroutine
  targets,    \* projects of the watch targets last applied
  orgKnown,   \* DOMAIN of projectIDToOrgID
  received,   \* per project, what the API stored, in order
  rejected,   \* history: lines of a batch answered with 413
  refused,    \* history: lines of a batch answered with Success = false
  doubtful,   \* history: lines stored although SendLogs returned an error
  lostReplies \* counts replies lost, for the bound

vars == <<origin, buffer, owned, work, targets, orgKnown,
          received, rejected, refused, doubtful, lostReplies>>

-----------------------------------------------------------------------------
(* Data.                                                                   *)

Line == 1 .. Len(origin)
Origin == [project : Projects, provider : Providers]
Entry == [provider : Providers \cup {NoProvider}, lines : Seq(Nat)]
Absent == [provider |-> NoProvider, lines |-> <<>>]
Phases == {"idle", "scan", "pick", "sending"}

Work == [phase : Phases, project : Projects \cup {NoProject}, size : 1 .. MaxBatchSize,
         want : Nat, batch : Seq(Nat), org : BOOLEAN]

(* A goroutine between two flushes, and one between two projects.          *)
Resting(phase) == [phase |-> phase, project |-> NoProject, size |-> MaxBatchSize,
                   want |-> 0, batch |-> <<>>, org |-> FALSE]

Elems(s) == {s[i] : i \in DOMAIN s}
Smaller(a, b) == IF a < b THEN a ELSE b
Prefix(s, n) == SubSeq(s, 1, n)
Drop(s, n) == SubSeq(s, n + 1, Len(s))

(* The batch built from the remaining lines: min(currentBatchSize, len).   *)
NextBatch(rest, size) == Prefix(rest, Smaller(size, Len(rest)))

Fresh(n) == [i \in 1 .. n |-> Len(origin) + i]

-----------------------------------------------------------------------------
Init ==
  /\ origin = <<>>
  /\ buffer = [p \in Projects |-> Absent]
  /\ owned = [f \in Flushers |-> [p \in Projects |-> Absent]]
  /\ work = [f \in Flushers |-> Resting("idle")]
  /\ targets = {}
  /\ orgKnown = {}
  /\ received = [p \in Projects |-> <<>>]
  /\ rejected = {}
  /\ refused = {}
  /\ doubtful = {}
  /\ lostReplies = 0

(* Mutant: whatever entry is there takes the lines, as if there were one.  *)
BufferedTogether(p, provider, n) ==
  /\ Len(origin) + n <= MaxLines
  /\ origin' = origin \o [i \in 1 .. n |-> [project |-> p, provider |-> provider]]
  /\ \E q \in Projects :
       /\ q = p \/ buffer[q].provider # NoProvider
       /\ buffer' = [buffer EXCEPT ![q] =
            [provider |-> provider, lines |-> @.lines \o Fresh(n)]]

(* Appends n newly read lines to p's entry, creating the entry with the    *)
(* reader's provider when there is none; an existing entry keeps its own.  *)
Buffered(p, provider, n) ==
  /\ Len(origin) + n <= MaxLines
  /\ origin' = origin \o [i \in 1 .. n |-> [project |-> p, provider |-> provider]]
  /\ buffer' = [buffer EXCEPT ![p] =
       [provider |-> IF @.provider = NoProvider THEN provider ELSE @.provider,
        lines    |-> @.lines \o Fresh(n)]]

(* Lines read from a log file or from the OpenCode database reach the      *)
(* buffer when a target resolves them to a project. A Claude read whose    *)
(* lines are all transient leaves an entry with a provider and no line.    *)
AddLinesForDir(p, provider, n) ==
  /\ p \in targets
  /\ n > 0 \/ provider = Claude
  /\ Buffered(p, provider, n)
  /\ UNCHANGED <<owned, work, targets, orgKnown, received, rejected, refused,
                 doubtful, lostReplies>>

(* New configuration: every map is rebuilt, the organizations learnt from  *)
(* a scan included.                                                        *)
UpdateTargets(S) ==
  /\ targets' = S
  /\ orgKnown' = S
  /\ UNCHANGED <<origin, buffer, owned, work, received, rejected, refused,
                 doubtful, lostReplies>>

(* One file of ScanProjectLogs: its lines go to the project of the request *)
(* whatever the targets say, and the request's organization is recorded.   *)
ScanFile(f, p, n) ==
  /\ \/ work[f].phase = "idle"
     \/ work[f].phase = "scan" /\ work[f].project = p
  /\ n > 0
  /\ Buffered(p, Claude, n)
  /\ work' = [work EXCEPT ![f] = [Resting("scan") EXCEPT !.project = p]]
  /\ orgKnown' = orgKnown \cup {p}
  /\ UNCHANGED <<owned, targets, received, rejected, refused, doubtful, lostReplies>>
-----------------------------------------------------------------------------
(* Mutant: Flush copies the map and does not put a new one in its place.   *)
FlushCopy(f) ==
  /\ work[f].phase = IF f \in Requests THEN "scan" ELSE "idle"
  /\ owned' = [owned EXCEPT ![f] = buffer]
  /\ work' = [work EXCEPT ![f] = Resting("pick")]
  /\ UNCHANGED <<origin, buffer, targets, orgKnown, received, rejected, refused,
                 doubtful, lostReplies>>

(* Flush: under the mutex the whole map changes owner; nothing is locked   *)
(* while it is sent. An empty map returns at once.                         *)
Flush(f) ==
  /\ work[f].phase = IF f \in Requests THEN "scan" ELSE "idle"
  /\ IF \A p \in Projects : buffer[p] = Absent
       THEN /\ f \in Requests
            /\ work' = [work EXCEPT ![f] = Resting("idle")]
            /\ UNCHANGED <<buffer, owned>>
       ELSE /\ owned' = [owned EXCEPT ![f] = buffer]
            /\ buffer' = [p \in Projects |-> Absent]
            /\ work' = [work EXCEPT ![f] = Resting("pick")]
  /\ UNCHANGED <<origin, targets, orgKnown, received, rejected, refused,
                 doubtful, lostReplies>>

(* The locals of flushProjectLines about to send the next batch of p; the  *)
(* organization is read here, without the mutex.                           *)
Sending(p, rest, size) ==
  LET batch == NextBatch(rest, size) IN
    [phase |-> "sending", project |-> p, size |-> size, want |-> Len(batch),
     batch |-> batch, org |-> p \in orgKnown]

(* flushProjectLines starts on a project of the map, in any order.         *)
FlushProject(f, p) ==
  /\ work[f].phase = "pick"
  /\ owned[f][p].lines # <<>>
  /\ work' = [work EXCEPT ![f] = Sending(p, owned[f][p].lines, MaxBatchSize)]
  /\ UNCHANGED <<origin, buffer, owned, targets, orgKnown, received, rejected,
                 refused, doubtful, lostReplies>>

(* Every entry was visited (those without lines are skipped).              *)
FlushDone(f) ==
  /\ work[f].phase = "pick"
  /\ \A p \in Projects : owned[f][p].lines = <<>>
  /\ owned' = [owned EXCEPT ![f] = [p \in Projects |-> Absent]]
  /\ work' = [work EXCEPT ![f] = Resting("idle")]
  /\ UNCHANGED <<origin, buffer, targets, orgKnown, received, rejected, refused,
                 doubtful, lostReplies>>

(* The loop of flushProjectLines goes on with what is left of the project, *)
(* or ends.                                                                *)
Continue(f, rest, size) ==
  LET p == work[f].project IN
    IF rest = <<>>
      THEN /\ owned' = [owned EXCEPT ![f][p] = Absent]
           /\ work' = [work EXCEPT ![f] = Resting("pick")]
      ELSE /\ owned' = [owned EXCEPT ![f][p].lines = rest]
           /\ work' = [work EXCEPT ![f] = Sending(p, rest, size)]

(* Mutant: the size doubles without the cap.                               *)
AfterSuccessUncapped(f) ==
  LET w == work[f] IN Continue(f, Drop(owned[f][w.project].lines, w.want), 2 * w.size)

(* SendLogs returned nil. The loop drops the length of ITS batch, not of   *)
(* the copy sendBatchWithRetry may have trimmed, and doubles the size.     *)
AfterSuccess(f) ==
  LET w == work[f] IN
    Continue(f, Drop(owned[f][w.project].lines, w.want),
             Smaller(2 * w.size, MaxBatchSize))

(* The API stores the lines of a batch with the provider of its entry.     *)
Store(f) ==
  LET w == work[f]
      p == w.project
      provider == owned[f][p].provider
  IN received' = [received EXCEPT ![p] = @ \o
       [i \in 1 .. Len(w.batch) |-> [line |-> w.batch[i], provider |-> provider]]]

SendOK(f) ==
  /\ work[f].phase = "sending"
  /\ work[f].org
  /\ Store(f)
  /\ AfterSuccess(f)
  /\ UNCHANGED <<origin, buffer, targets, orgKnown, rejected, refused, doubtful,
                 lostReplies>>

(* Success = false (project unknown to the organization, insert failed):   *)
(* the client logs a warning and returns nil all the same.                 *)
SendRefused(f) ==
  /\ work[f].phase = "sending"
  /\ work[f].org
  /\ refused' = refused \cup Elems(work[f].batch)
  /\ AfterSuccess(f)
  /\ UNCHANGED <<origin, buffer, targets, orgKnown, received, rejected, doubtful,
                 lostReplies>>

(* Mutant: at size one the line that is too large stays in front.          *)
SendTooLargeForEver(f) ==
  LET w == work[f]
      half == IF w.size \div 2 < 1 THEN 1 ELSE w.size \div 2
  IN /\ w.phase = "sending"
     /\ rejected' = rejected \cup Elems(w.batch)
     /\ IF half = w.size
          THEN Continue(f, owned[f][w.project].lines, MaxBatchSize)
          ELSE /\ work' = [work EXCEPT ![f].size = half,
                             ![f].batch = Prefix(@, Smaller(half, Len(@)))]
               /\ UNCHANGED owned
     /\ UNCHANGED <<origin, buffer, targets, orgKnown, received, refused, doubtful,
                    lostReplies>>

(* 413: halve the size and retry the shortened copy; at size one give up   *)
(* on the first remaining line and start again at the full size.           *)
SendTooLarge(f) ==
  LET w == work[f]
      half == IF w.size \div 2 < 1 THEN 1 ELSE w.size \div 2
  IN /\ w.phase = "sending"
     /\ rejected' = rejected \cup Elems(w.batch)
     /\ IF half = w.size
          THEN Continue(f, Drop(owned[f][w.project].lines, 1), MaxBatchSize)
          ELSE /\ work' = [work EXCEPT ![f].size = half,
                             ![f].batch = Prefix(@, Smaller(half, Len(@)))]
               /\ UNCHANGED owned
     /\ UNCHANGED <<origin, buffer, targets, orgKnown, received, refused, doubtful,
                    lostReplies>>

(* Mutants: the loop goes on after the return; the lines replace what was  *)
(* buffered since; the lines go behind it.                                 *)
ReturnAndGoOn(f) ==
  LET p == work[f].project IN
    /\ buffer' = [buffer EXCEPT ![p] =
         [provider |-> owned[f][p].provider, lines |-> owned[f][p].lines \o @.lines]]
    /\ UNCHANGED <<owned, work>>

ReturnOverwrites(f) ==
  LET p == work[f].project IN
    /\ buffer' = [buffer EXCEPT ![p] = owned[f][p]]
    /\ owned' = [owned EXCEPT ![f][p] = Absent]
    /\ work' = [work EXCEPT ![f] = Resting("pick")]

ReturnAppends(f) ==
  LET p == work[f].project IN
    /\ buffer' = [buffer EXCEPT ![p] =
         [provider |-> owned[f][p].provider, lines |-> @.lines \o owned[f][p].lines]]
    /\ owned' = [owned EXCEPT ![f][p] = Absent]
    /\ work' = [work EXCEPT ![f] = Resting("pick")]

(* returnLinesToBuffer: all that remains of the project goes back in front *)
(* of what was buffered since; an entry created since keeps its provider.  *)
ReturnLinesToBuffer(f) ==
  LET p == work[f].project
      mine == owned[f][p]
  IN /\ buffer' = [buffer EXCEPT ![p] =
          [provider |-> IF @.provider = NoProvider THEN mine.provider ELSE @.provider,
           lines    |-> mine.lines \o @.lines]]
     /\ owned' = [owned EXCEPT ![f][p] = Absent]
     /\ work' = [work EXCEPT ![f] = Resting("pick")]

(* Any other error: no connection, no organization in the batch, no right. *)
SendError(f) ==
  /\ work[f].phase = "sending"
  /\ ReturnLinesToBuffer(f)
  /\ UNCHANGED <<origin, targets, orgKnown, received, rejected, refused, doubtful,
                 lostReplies>>

(* The API stored the batch but the reply was lost or came too late.       *)
SendReplyLost(f) ==
  /\ work[f].phase = "sending"
  /\ work[f].org
  /\ lostReplies < MaxLostReplies
  /\ lostReplies' = lostReplies + 1
  /\ doubtful' = doubtful \cup Elems(work[f].batch)
  /\ Store(f)
  /\ ReturnLinesToBuffer(f)
  /\ UNCHANGED <<origin, targets, orgKnown, rejected, refused>>
-----------------------------------------------------------------------------
FlusherStep(f) ==
  \/ Flush(f)
  \/ FlushDone(f)
  \/ \E p \in Projects : FlushProject(f, p)
  \/ SendOK(f)
  \/ SendRefused(f)
  \/ SendTooLarge(f)
  \/ SendError(f)
  \/ SendReplyLost(f)

Next ==
  \/ \E p \in Projects, v \in Providers, n \in 0 .. MaxRead : AddLinesForDir(p, v, n)
  \/ \E f \in Requests, p \in Projects, n \in 1 .. MaxRead : ScanFile(f, p, n)
  \/ \E S \in SUBSET Projects : UpdateTargets(S)
  \/ \E f \in Flushers : FlusherStep(f)

Spec == Init /\ [][Next]_vars

(* The ticker keeps firing and every call of SendLogs returns. The network *)
(* is an assumption: a goroutine that keeps sending is not interrupted by  *)
(* an error for ever, so that a batch is taken, refused, or shrunk down to *)
(* one line and given up.                                                  *)
Answered(f) ==
  \/ SendOK(f)
  \/ SendRefused(f)
  \/ work[f].size = 1 /\ SendTooLarge(f)

Fairness ==
  \A f \in Flushers : /\ WF_vars(FlusherStep(f))
                      /\ SF_vars(Answered(f))

FairSpec == Spec /\ Fairness
-----------------------------------------------------------------------------
(* Places that hold unsent lines: the shared buffer and each goroutine.    *)
Holders == Flushers \cup {Shared}
Held(h, p) == IF h = Shared THEN buffer[p].lines ELSE owned[h][p].lines
Pending == UNION {Elems(Held(h, p)) : h \in Holders, p \in Projects}
ReceivedLines(p) == {received[p][i].line : i \in DOMAIN received[p]}
Stored == UNION {ReceivedLines(p) : p \in Projects}

TypeOK ==
  /\ origin \in Seq(Origin)
  /\ buffer \in [Projects -> Entry]
  /\ owned \in [Flushers -> [Projects -> Entry]]
  /\ work \in [Flushers -> Work]
  /\ targets \in SUBSET Projects
  /\ orgKnown \in SUBSET Projects
  /\ received \in [Projects -> Seq([line : Nat, provider : Providers \cup {NoProvider}])]
  /\ rejected \in SUBSET Nat
  /\ refused \in SUBSET Nat
  /\ doubtful \in SUBSET Nat
  /\ lostReplies \in Nat

(* A goroutine that is not flushing owns nothing, so the swap of Flush     *)
(* overwrites no unsent line; one that is sending holds, whatever number   *)
(* of 413s trimmed its batch, a non-empty front of what remains of its     *)
(* project, and will never drop more than remains.                         *)
BatchIsFront ==
  \A f \in Flushers :
    /\ work[f].phase \in {"idle", "scan"} => \A p \in Projects : owned[f][p].lines = <<>>
    /\ work[f].phase = "sending" =>
         LET w == work[f]
             rest == owned[f][w.project].lines
         IN /\ w.project \in Projects
            /\ w.size \in 1 .. MaxBatchSize
            /\ w.batch # <<>>
            /\ w.want \in Len(w.batch) .. Len(rest)
            /\ \A i \in DOMAIN w.batch : w.batch[i] = rest[i]

(* Every unsent line has exactly one owner and one place in its queue: the *)
(* swap of Flush and the return after an error never leave the same line   *)
(* with two goroutines, or twice in a queue, whatever they interleave.     *)
OwnedOnce ==
  \A h, g \in Holders : \A p, q \in Projects :
    \A i \in DOMAIN Held(h, p), j \in DOMAIN Held(g, q) :
      Held(h, p)[i] = Held(g, q)[j] => h = g /\ p = q /\ i = j

(* A line the API stored is sent again only if the daemon was told the     *)
(* call failed: concurrent flushers, retries after 413 and lines returned  *)
(* to the buffer never repeat an acknowledged line.                        *)
NoResend ==
  /\ Pending \cap Stored \subseteq doubtful
  /\ \A p \in Projects : \A i, j \in DOMAIN received[p] :
       i # j /\ received[p][i].line = received[p][j].line
         => received[p][i].line \in doubtful

(* No line vanishes unless the server turned a batch holding it down: each *)
(* line read is still held, or stored, or was answered with 413 or         *)
(* Success = false. Network errors alone lose nothing.                     *)
LostOnlyWhenTurnedDown == Line \subseteq Pending \cup Stored \cup rejected \cup refused

(* Lines never reach the API under another project than the one they were  *)
(* read for.                                                               *)
RightProject ==
  \A p \in Projects : \A n \in ReceivedLines(p) : n \in Line /\ origin[n].project = p

(* One flusher alone keeps the reading order of a project: nothing held is *)
(* older than a line already stored, except after a lost reply, and every  *)
(* queue is in reading order, a goroutine's lines before the buffer's.     *)
InOrder ==
  \A p \in Projects :
    /\ \A h \in Holders : \A i, j \in DOMAIN Held(h, p) : i < j => Held(h, p)[i] < Held(h, p)[j]
    /\ \A f \in Flushers : \A m \in Elems(owned[f][p].lines), n \in Elems(buffer[p].lines) : m < n
    /\ \A h \in Holders : \A m \in Elems(Held(h, p)), n \in ReceivedLines(p) :
         m > n \/ n \in doubtful \/ m \in doubtful

(* The goroutines, their batches and the shrinking of them implement the   *)
(* promise of LogDelivery: a line leaves the daemon stored under its own   *)
(* project or turned down, and is stored once where the reply was heard.   *)
Delivery == INSTANCE LogDelivery WITH
  origin     <- [n \in Line |-> origin[n].project],
  waiting    <- Pending,
  stored     <- [p \in Projects |-> ReceivedLines(p)],
  turnedDown <- rejected \cup refused,
  unheard    <- doubtful

ImplementsDelivery == Delivery!Spec

(* Once no more is read, the lines of a project leave the daemon: they are *)
(* not passed for ever between the buffer and the goroutines, if the       *)
(* project stays configured.                                               *)
Drains ==
  \A p \in Projects :
    (\E h \in Holders : Held(h, p) # <<>>)
      ~> (p \notin orgKnown \/ \A h \in Holders : Held(h, p) = <<>>)
=============================================================================
