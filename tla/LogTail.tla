------------------------------- MODULE LogTail ------------------------------
(***************************************************************************)
(* How the daemon follows one log file: inbound/worker/fsnotify/handler.go *)
(* (the event loop, the initial scan, Stop) and HandleFileChange of        *)
(* log_service.go, with the offset kept in memory and in SQLite, over      *)
(* crashes and restarts. The file belongs to the tool that writes it.      *)
(*                                                                         *)
(* A byte is its position; Newlines says which bytes end a line. A token   *)
(* is what one reading takes for a line: a set of bytes of one generation  *)
(* of the file. Sending is reduced to its outcome; LogFlush has it whole.  *)
(***************************************************************************)
EXTENDS Naturals, FiniteSets

CONSTANTS
  Newlines,     \* the bytes of the file that are newlines
  Cuts,         \* sizes at which a write of the tool may leave the file
  MaxToken,     \* the scanner's limit on the length of a line
  MaxGen,       \* bound: times the file is replaced
  MaxStarts     \* bound: times the daemon is started

ASSUME FileAssumption ==
  /\ Newlines \subseteq Nat \ {0}
  /\ Cuts \subseteq Nat \ {0} /\ IsFiniteSet(Cuts) /\ Cuts # {}
ASSUME TailBoundAssumption == MaxToken \in Nat /\ MaxGen \in Nat /\ MaxStarts \in Nat

VARIABLES
  size,         \* bytes in the file
  gen,          \* generation of the file, one more after a replacement
  up,           \* the daemon runs
  cancelled,    \* Stop has cancelled the loop's context
  baseWatched,  \* the parent of the file's directory is watched
  dirExists,    \* the file's directory exists
  watched,      \* the file's directory is watched
  resolved,     \* a watch target gives the directory a project
  walked,       \* UpdateTargets under way: directories it found and project
  events,       \* fsnotify events not yet handled: "mkdir", "write"
  filePosition, \* filePositions[path]
  savedOffset,  \* file_positions in SQLite
  proc,         \* program counter and locals of the goroutines
  buffer,       \* tokens in bufferByProject
  inflight,     \* tokens a flush has taken and not yet sent
  stored,       \* tokens the API has
  starts,       \* counts the starts of the daemon, for the bound
  handed,       \* history: tokens added to the buffer, in any life
  dropped,      \* history: tokens read while no project was known
  repeated,     \* history: tokens added to the buffer with bytes read before
  excused,      \* history: something happened that explains a repetition
  unsent        \* history: tokens whose flush failed after Stop began

file == <<size, gen, dirExists>>
watch == <<baseWatched, watched, resolved, walked>>
offsets == <<filePosition, savedOffset>>
queues == <<buffer, inflight, stored, unsent>>
books == <<handed, dropped, repeated>>
vars == <<size, gen, up, cancelled, baseWatched, dirExists, watched, resolved, walked,
          events, filePosition, savedOffset, proc, buffer, inflight, stored, starts,
          handed, dropped, repeated, excused, unsent>>

-----------------------------------------------------------------------------
(* One goroutine runs the loop, Start itself scans, Stop flushes.          *)
Readers == {"loop", "scan"}
Flushing == {"loop", "stop"}
Procs == Readers \cup Flushing

(* What each of them may be at.                                            *)
Phases(p) ==
  IF p = "stop" THEN {"idle", "due", "sending", "close"}
  ELSE {"idle", "read", "add", "set", "save"} \cup (IF p = "scan" THEN {"due"} ELSE {"watch", "sending"})

Token == [gen : Nat, bytes : SUBSET Nat]
Locals ==
  [phase : UNION {Phases(p) : p \in Procs}, from : Nat, to : Nat, tokens : SUBSET Token]
At(phase) == [phase |-> phase, from |-> 0, to |-> 0, tokens |-> {}]
Reading(offset) == [At("read") EXCEPT !.from = offset]

(* What bufio.Scanner yields from an offset to the end of the file, blank  *)
(* lines left out; what follows the last newline counts as a line too.     *)
Tokens(from) ==
  {[gen |-> gen, bytes |-> {c \in b .. size : (b .. c) \cap Newlines = {}}] :
     b \in {x \in (from + 1 .. size) \ Newlines : x = from + 1 \/ x - 1 \in Newlines}}

TooLong(from) == \E t \in Tokens(from) : Cardinality(t.bytes) > MaxToken

Overlap(t, u) == t.gen = u.gen /\ t.bytes \cap u.bytes # {}

(* One byte is added for the newline of every line, even of a last one     *)
(* that has none yet.                                                      *)
NextOffset(from) ==
  IF size <= from THEN from ELSE IF size \in Newlines THEN size ELSE size + 1

-----------------------------------------------------------------------------
Init ==
  /\ size = 0 /\ gen = 0 /\ dirExists \in BOOLEAN
  /\ up = FALSE /\ cancelled = FALSE
  /\ baseWatched = FALSE /\ watched = FALSE /\ resolved = FALSE /\ walked = {}
  /\ events = {}
  /\ filePosition = 0 /\ savedOffset = 0
  /\ proc = [p \in Procs |-> At("idle")]
  /\ buffer = {} /\ inflight = [p \in Flushing |-> {}] /\ stored = {}
  /\ starts = 0
  /\ handed = {} /\ dropped = {} /\ repeated = {} /\ excused = FALSE /\ unsent = {}

(* The tool creates its directory, appends to the file, or replaces it.    *)
MakeDir ==
  /\ ~dirExists
  /\ dirExists' = TRUE
  /\ events' = IF baseWatched THEN events \cup {"mkdir"} ELSE events
  /\ UNCHANGED <<size, gen, up, cancelled, watch, offsets, proc, queues, starts, books, excused>>

Written == events' = IF watched THEN events \cup {"write"} ELSE events

Write(n) ==
  /\ dirExists
  /\ n > size
  /\ size' = n
  /\ Written
  /\ UNCHANGED <<gen, dirExists, up, cancelled, watch, offsets, proc, queues, starts, books, excused>>

Replace ==
  /\ gen < MaxGen
  /\ size > 0
  /\ gen' = gen + 1 /\ size' = 0
  /\ Written
  /\ UNCHANGED <<dirExists, up, cancelled, watch, offsets, proc, queues, starts, books, excused>>

-----------------------------------------------------------------------------
(* Start loads the offset, or begins at zero when SQLite cannot be read;   *)
(* the loop runs from then on, beside the scan Start performs itself.      *)
Start ==
  /\ ~up
  /\ starts < MaxStarts
  /\ starts' = starts + 1
  /\ up' = TRUE /\ cancelled' = FALSE
  /\ \E loaded \in BOOLEAN :
       /\ filePosition' = IF loaded THEN savedOffset ELSE 0
       /\ excused' = (excused \/ ~loaded)
  /\ proc' = [p \in Procs |-> At(IF p = "scan" THEN "due" ELSE "idle")]
  /\ UNCHANGED <<file, watch, events, savedOffset, queues, books>>

(* UpdateTargets holds the mutex from here to ApplyTargets; it walks the   *)
(* directories first and watches them afterwards.                          *)
WalkTargets(on) ==
  /\ up
  /\ walked = {}
  /\ walked' = {[dir |-> dirExists, project |-> on]}
  /\ UNCHANGED <<file, up, cancelled, baseWatched, watched, resolved, events, offsets,
                 proc, queues, starts, books, excused>>

ApplyTargets ==
  /\ \E w \in walked :
       /\ baseWatched' = TRUE
       /\ watched' = w.dir
       /\ resolved' = w.project
  /\ walked' = {}
  /\ UNCHANGED <<file, up, cancelled, events, offsets, proc, queues, starts, books, excused>>

Unlocked == walked = {}

-----------------------------------------------------------------------------
Busy(r) == proc[r].phase \in {"read", "add", "set", "save"}

(* filePositions is read where the work on a file begins.                  *)
Begin(r) ==
  /\ proc' = [proc EXCEPT ![r] = Reading(filePosition)]
  /\ excused' = (excused \/ \E q \in Readers \ {r} : Busy(q))

(* handleFileEvent for a write or a new file.                              *)
HandleWrite ==
  /\ up
  /\ proc["loop"].phase = "idle"
  /\ "write" \in events
  /\ events' = events \ {"write"}
  /\ Begin("loop")
  /\ UNCHANGED <<file, up, cancelled, watch, offsets, queues, starts, books>>

(* handleDirectoryCreate under ~/.claude/projects: wait for the mutex to   *)
(* watch the directory, then read what is already there.                   *)
HandleDirectoryCreate ==
  /\ up
  /\ proc["loop"].phase = "idle"
  /\ "mkdir" \in events
  /\ events' = events \ {"mkdir"}
  /\ proc' = [proc EXCEPT !["loop"] = At("watch")]
  /\ UNCHANGED <<file, up, cancelled, watch, offsets, queues, starts, books, excused>>

(* Mutant: the new directory is watched and not read.                      *)
AddWatchOnly ==
  /\ proc["loop"].phase = "watch" /\ Unlocked
  /\ watched' = TRUE
  /\ proc' = [proc EXCEPT !["loop"] = At("idle")]
  /\ UNCHANGED <<file, up, cancelled, baseWatched, resolved, walked, events, offsets, queues,
                 starts, books, excused>>

AddWatchForClaudeSubdir ==
  /\ proc["loop"].phase = "watch" /\ Unlocked
  /\ watched' = TRUE
  /\ Begin("loop")
  /\ UNCHANGED <<file, up, cancelled, baseWatched, resolved, walked, events, offsets, queues,
                 starts, books>>

(* scanExistingFiles: nothing when no directory is watched yet, nothing    *)
(* when the file is no longer than the offset.                             *)
ScanSkips ==
  /\ proc["scan"].phase = "due"
  /\ ~watched \/ size <= filePosition
  /\ proc' = [proc EXCEPT !["scan"] = At("idle")]
  /\ UNCHANGED <<file, up, cancelled, watch, events, offsets, queues, starts, books, excused>>

ScanReads ==
  /\ proc["scan"].phase = "due"
  /\ watched /\ size > filePosition
  /\ Begin("scan")
  /\ UNCHANGED <<file, up, cancelled, watch, events, offsets, queues, starts, books>>

(* Mutant: the new offset is saved when the lines are read.                *)
HandleFileChangeSaves(r) ==
  LET from == proc[r].from IN
    /\ proc[r].phase = "read"
    /\ Tokens(from) # {}
    /\ savedOffset' = NextOffset(from)
    /\ proc' = [proc EXCEPT ![r] =
         [phase |-> "add", from |-> from, to |-> NextOffset(from), tokens |-> Tokens(from)]]
    /\ UNCHANGED <<file, up, cancelled, watch, events, filePosition, queues, starts, books,
                   excused>>

(* Without lines, and after an error of the scanner, nothing is kept.      *)
HandleFileChange(r) ==
  LET from == proc[r].from IN
    /\ proc[r].phase = "read"
    /\ proc' = [proc EXCEPT ![r] =
         IF Tokens(from) = {} \/ TooLong(from)
           THEN At("idle")
           ELSE [phase |-> "add", from |-> from, to |-> NextOffset(from),
                 tokens |-> Tokens(from)]]
    /\ UNCHANGED <<file, up, cancelled, watch, events, offsets, queues, starts, books, excused>>

(* Lines of a directory without a project are skipped.                     *)
AddLines(r) ==
  LET new == proc[r].tokens IN
    /\ proc[r].phase = "add" /\ Unlocked
    /\ IF resolved
         THEN /\ buffer' = buffer \cup new
              /\ repeated' = repeated \cup {t \in new : \E u \in handed : Overlap(t, u)}
              /\ handed' = handed \cup new
              /\ UNCHANGED dropped
         ELSE /\ dropped' = dropped \cup new
              /\ UNCHANGED <<buffer, handed, repeated>>
    /\ proc' = [proc EXCEPT ![r].phase = "set"]
    /\ UNCHANGED <<file, up, cancelled, watch, events, offsets, inflight, stored, starts,
                   excused, unsent>>

(* Mutant: only SQLite gets the new offset.                                *)
SetPositionForgets(r) ==
  /\ proc[r].phase = "set"
  /\ proc' = [proc EXCEPT ![r].phase = "save"]
  /\ UNCHANGED <<file, up, cancelled, watch, events, offsets, queues, starts, books, excused>>

SetPosition(r) ==
  /\ proc[r].phase = "set"
  /\ filePosition' = proc[r].to
  /\ proc' = [proc EXCEPT ![r].phase = "save"]
  /\ UNCHANGED <<file, up, cancelled, watch, events, savedOffset, queues, starts, books, excused>>

(* A failed save is logged and forgotten; with a cancelled context every   *)
(* save fails.                                                             *)
SaveFilePosition(r) ==
  /\ proc[r].phase = "save"
  /\ \/ /\ ~cancelled
        /\ savedOffset' = proc[r].to
        /\ UNCHANGED excused
     \/ /\ excused' = TRUE
        /\ UNCHANGED savedOffset
  /\ proc' = [proc EXCEPT ![r] = At("idle")]
  /\ UNCHANGED <<file, up, cancelled, watch, events, filePosition, queues, starts, books>>
-----------------------------------------------------------------------------
Take(p) ==
  /\ inflight' = [inflight EXCEPT ![p] = buffer]
  /\ buffer' = {}

(* The ticker's flush, by the goroutine that handles the events.           *)
Tick ==
  /\ up
  /\ proc["loop"].phase = "idle"
  /\ buffer # {}
  /\ Take("loop")
  /\ proc' = [proc EXCEPT !["loop"] = At("sending")]
  /\ UNCHANGED <<file, up, cancelled, watch, events, offsets, stored, unsent, starts, books,
                 excused>>

(* Some of what a flush took is stored, the rest is back in the buffer.    *)
FlushEnds(p) ==
  /\ proc[p].phase = "sending"
  /\ \E sent \in SUBSET inflight[p] :
       LET failed == inflight[p] \ sent IN
         /\ stored' = stored \cup sent
         /\ buffer' = buffer \cup failed
         /\ unsent' = IF cancelled THEN unsent \cup failed ELSE unsent
  /\ inflight' = [inflight EXCEPT ![p] = {}]
  /\ proc' = [proc EXCEPT ![p] = At(IF p = "stop" THEN "close" ELSE "idle")]
  /\ UNCHANGED <<file, up, cancelled, watch, events, offsets, starts, books, excused>>

(* Mutant: Stop does not cancel the loop.                                  *)
StopUncancelled ==
  /\ up /\ proc["stop"].phase = "idle"
  /\ proc["scan"].phase = "idle"
  /\ proc' = [proc EXCEPT !["stop"] = At("due")]
  /\ UNCHANGED <<file, up, cancelled, watch, events, offsets, queues, starts, books, excused>>

(* Stop, once Start has returned: cancel, then flush, then exit. The loop  *)
(* is not waited for: it may still be at work, and pick one more event.    *)
Stop ==
  /\ up /\ ~cancelled
  /\ proc["scan"].phase = "idle"
  /\ cancelled' = TRUE
  /\ proc' = [proc EXCEPT !["stop"] = At("due")]
  /\ UNCHANGED <<file, up, watch, events, offsets, queues, starts, books, excused>>

FinalFlush ==
  /\ proc["stop"].phase = "due"
  /\ Take("stop")
  /\ proc' = [proc EXCEPT !["stop"] = At("sending")]
  /\ UNCHANGED <<file, up, cancelled, watch, events, offsets, stored, unsent, starts, books,
                 excused>>

(* The process ends: only SQLite, the file and the API remain.             *)
Gone ==
  /\ up' = FALSE /\ cancelled' = FALSE
  /\ baseWatched' = FALSE /\ watched' = FALSE /\ resolved' = FALSE /\ walked' = {}
  /\ events' = {}
  /\ filePosition' = 0
  /\ proc' = [p \in Procs |-> At("idle")]
  /\ buffer' = {} /\ inflight' = [p \in Flushing |-> {}] /\ unsent' = {}
  /\ excused' = (excused \/ \E r \in Readers : proc[r].phase \in {"set", "save"})
  /\ UNCHANGED <<file, savedOffset, stored, starts, books>>

Exit == proc["stop"].phase = "close" /\ Gone

Crash == up /\ Gone
-----------------------------------------------------------------------------
LoopStep == HandleWrite \/ HandleDirectoryCreate \/ AddWatchForClaudeSubdir \/ Tick

ReaderStep(r) == HandleFileChange(r) \/ AddLines(r) \/ SetPosition(r) \/ SaveFilePosition(r)

Next ==
  \/ MakeDir \/ Replace
  \/ \E n \in Cuts : Write(n)
  \/ Start \/ Stop \/ FinalFlush \/ Exit \/ Crash
  \/ \E on \in BOOLEAN : WalkTargets(on)
  \/ ApplyTargets
  \/ LoopStep \/ ScanSkips \/ ScanReads
  \/ \E r \in Readers : ReaderStep(r)
  \/ \E p \in Flushing : FlushEnds(p)

Spec == Init /\ [][Next]_vars

(* Goroutines are scheduled and calls return; select picks among what is   *)
(* ready at random, so the ticker does not keep an event out for ever.     *)
Fairness ==
  /\ SF_vars(HandleWrite) /\ SF_vars(HandleDirectoryCreate)
  /\ SF_vars(AddWatchForClaudeSubdir) /\ SF_vars(AddLines("loop"))
  /\ WF_vars(ApplyTargets)
  /\ WF_vars(HandleFileChange("loop") \/ SetPosition("loop") \/ SaveFilePosition("loop")
             \/ FlushEnds("loop"))
  /\ WF_vars(ScanSkips \/ ScanReads \/ ReaderStep("scan"))

FairSpec == Spec /\ Fairness
-----------------------------------------------------------------------------
(* A goroutine is at one of its own phases, and at none while the daemon is *)
(* down; no token is of a generation that is yet to come.                  *)
TypeOK ==
  /\ size \in Nat /\ gen \in Nat /\ dirExists \in BOOLEAN
  /\ up \in BOOLEAN /\ cancelled \in BOOLEAN
  /\ baseWatched \in BOOLEAN /\ watched \in BOOLEAN /\ resolved \in BOOLEAN
  /\ walked \subseteq [dir : BOOLEAN, project : BOOLEAN]
  /\ events \subseteq {"mkdir", "write"}
  /\ filePosition \in Nat /\ savedOffset \in Nat
  /\ proc \in [Procs -> Locals]
  /\ \A p \in Procs : proc[p].phase \in IF up THEN Phases(p) ELSE {"idle"}
  /\ inflight \in [Flushing -> SUBSET Token]
  /\ UNION {buffer, stored, unsent, handed, dropped, repeated} \subseteq Token
  /\ \A t \in handed \cup UNION {proc[p].tokens : p \in Procs} : t.gen <= gen

Last(t) == CHOOSE b \in t.bytes : \A c \in t.bytes : c <= b
First(t) == CHOOSE b \in t.bytes : \A c \in t.bytes : b <= c
Covers(tokens, b) == \E t \in tokens : t.gen = gen /\ b \in t.bytes
Accounts(tokens, b) ==
  b \in Newlines \/ Covers(tokens, b) \/ \E t \in tokens : b = Last(t) + 1

(* No crash, restart, lost save or race of the scan with the loop moves an *)
(* offset past a byte nobody read, but for the byte behind a line that was *)
(* read before it was complete; this is about a file that was not replaced.*)
NoByteSkipped ==
  gen = 0 => \A b \in 1 .. size : b <= filePosition \/ b <= savedOffset =>
    Accounts(handed \cup dropped, b)

(* A line is read twice only for a reason: the scan and the loop met, an   *)
(* offset was not saved or not loaded, or the process ended in between.    *)
ReadTwiceForAReason == repeated # {} => excused

(* A daemon that is stopped in order leaves behind, below the offset it    *)
(* will start from, no line it read for the first time, but those whose    *)
(* sending failed, those once skipped for want of a project, and the byte  *)
(* behind a line that the scan and the loop both read before it was        *)
(* complete; this is about a file that was not replaced.                   *)
OrderlyStop ==
  [][Exit /\ gen = 0 => \A t \in buffer \ repeated : Last(t) <= savedOffset =>
       \/ t \in stored \cup unsent
       \/ \E d \in dropped : Overlap(t, d)
       \/ \E u \in handed \cup dropped : t.bytes = {Last(u) + 1}]_vars

(* While events are under way, all that is in the file is read in the end, *)
(* as long as the daemon runs: no write and no new directory falls between *)
(* the watch and the reading.                                              *)
ReadInTheEnd ==
  (events # {}) ~>
    \/ \A b \in 1 .. size : b \in Newlines \/ Covers(handed \cup dropped, b)
    \/ ~up \/ cancelled

=============================================================================
