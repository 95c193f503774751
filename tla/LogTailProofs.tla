---------------------------- MODULE LogTailProofs ---------------------------
(***************************************************************************)
(* What holds of LogTail for any file, any writes of it and any number of  *)
(* replacements and starts: the types, that no offset passes a byte nobody *)
(* read, that nothing is read twice without a reason, and what a daemon    *)
(* that is stopped leaves unsent.                                          *)
(***************************************************************************)
EXTENDS LogTail, TLAPS, WellFoundedInduction

(* Every byte up to n ends a line, is in a token, or is behind the last.    *)
SeenTo(tokens, n) ==
  \A b \in 1 .. n :
    \/ b \in Newlines
    \/ \E t \in tokens : t.gen = 0 /\ b \in t.bytes
    \/ \E t \in tokens : b = Last(t) + 1
Added == handed \cup dropped

(* The offsets, and where the readers come from and get to, are behind     *)
(* what was read, as long as the file was not replaced.                    *)
ReaderSaw(r) ==
  /\ proc[r].phase = "read" => SeenTo(Added, proc[r].from)
  /\ proc[r].phase = "add" => SeenTo(Added \cup proc[r].tokens, proc[r].to)
  /\ proc[r].phase \in {"set", "save"} => SeenTo(Added, proc[r].to)

OffsetsSeen ==
  gen = 0 => /\ SeenTo(Added, filePosition) /\ SeenTo(Added, savedOffset)
             /\ \A r \in Readers : ReaderSaw(r)

(* What tokens have of a generation of the file ends at n.                 *)
UpTo(tokens, g, n) == \A u \in tokens : u.gen = g => \A b \in u.bytes : b <= n

(* A reader holds what lies between its ends and was not handed over.      *)
Fresh(r) ==
  LET p == proc[r] IN
  /\ p.phase \in {"read", "add"} => UpTo(handed, gen, p.from)
  /\ p.phase = "add" =>
       /\ p.from <= p.to
       /\ \A t \in p.tokens :
            /\ t.gen = gen => \A b \in t.bytes : p.from < b /\ b <= p.to
            /\ \A u \in handed : ~Overlap(t, u)
  /\ p.phase \in {"set", "save"} => UpTo(handed, gen, p.to)

(* Without an excuse one reader is at work, and both offsets are as far as *)
(* what was handed over, until it has set the one and saved the other.     *)
OneReader ==
  /\ repeated = {}
  /\ \A q, r \in Readers : Busy(q) /\ Busy(r) => q = r
  /\ \A r \in Readers : Fresh(r)
  /\ (\A r \in Readers : proc[r].phase \notin {"set", "save"}) => UpTo(handed, gen, savedOffset)
  /\ up /\ (\A r \in Readers : proc[r].phase # "set") => UpTo(handed, gen, filePosition)

ReadInOrder == ~excused => OneReader

IInv == TypeOK /\ OffsetsSeen /\ ReadInOrder
-----------------------------------------------------------------------------
(* Smallest and largest numbers.                                           *)

LEMMA Smallest ==
  ASSUME NEW S, S \subseteq Nat, S # {}
  PROVE  \E m \in S : \A n \in S : m <= n
  <1>1. IsWellFoundedOn(OpToRel(<, Nat), Nat)
    BY NatLessThanWellFounded
  <1>2. PICK m \in S : \A n \in S : <<n, m>> \notin OpToRel(<, Nat)
    BY <1>1, WFMin
  <1>3. \A n \in S : ~(n < m)
    BY <1>2 DEF OpToRel
  <1> QED
    BY <1>3

LEMMA Largest ==
  ASSUME NEW k \in Nat, NEW S, S \subseteq 0 .. k, S # {}
  PROVE  \E m \in S : \A n \in S : n <= m
  <1> DEFINE D == {d \in Nat : \E n \in S : d = k - n}
  <1>1. D \subseteq Nat
    OBVIOUS
  <1>2. \A n \in S : n \in Nat /\ n <= k /\ k - n \in D
    OBVIOUS
  <1>3. D # {}
    BY <1>2
  <1>4. PICK d \in D : \A e \in D : d <= e
    BY <1>1, <1>3, Smallest
  <1>5. PICK m \in S : d = k - m
    BY <1>4
  <1>6. ASSUME NEW n \in S PROVE n <= m
    <2>1. k - m <= k - n
      BY <1>2, <1>4, <1>5
    <2> QED
      BY <1>2, <2>1
  <1> QED
    BY <1>6

-----------------------------------------------------------------------------
(* What a reading yields.                                                  *)

(* Every byte behind the offset that ends no line is in a token.           *)
LEMMA ByteInToken ==
  ASSUME TypeOK, NEW from \in Nat, NEW b \in from + 1 .. size, b \notin Newlines
  PROVE  \E t \in Tokens(from) : b \in t.bytes
  <1>1. size \in Nat /\ b \in Nat /\ from < b /\ b <= size
    BY DEF TypeOK
  <1> DEFINE S == {x \in 0 .. b - 1 : x >= from /\ (x = from \/ x \in Newlines)}
  <1>2. from \in S
    BY <1>1
  <1>3. PICK m \in S : \A n \in S : n <= m
    <2>1. S \subseteq 0 .. b - 1 /\ b - 1 \in Nat
      BY <1>1
    <2> QED
      BY <1>2, <2>1, Largest
  <1>4. m \in Nat /\ from <= m /\ m < b /\ (m = from \/ m \in Newlines)
    BY <1>1
  <1>5. \A x \in m + 1 .. b : x \notin Newlines
    <2>1. SUFFICES ASSUME NEW x \in m + 1 .. b, x \in Newlines PROVE FALSE
      OBVIOUS
    <2>2. x \in Nat /\ x # b /\ m < x /\ x <= b
      BY <1>1, <1>4, <2>1
    <2>3. x \in S
      BY <1>1, <1>4, <2>1, <2>2
    <2> QED
      BY <1>3, <1>4, <2>2, <2>3
  <1> DEFINE s == m + 1
             t == [gen |-> gen, bytes |-> {c \in s .. size : (s .. c) \cap Newlines = {}}]
  <1>6. s \in (from + 1 .. size) \ Newlines /\ (s = from + 1 \/ s - 1 \in Newlines)
    BY <1>1, <1>4, <1>5
  <1>7. t \in Tokens(from)
    BY <1>6 DEF Tokens
  <1>8. b \in t.bytes
    BY <1>1, <1>4, <1>5
  <1> QED
    BY <1>7, <1>8

LEMMA TokenTypes ==
  ASSUME TypeOK, NEW from \in Nat
  PROVE  \A t \in Tokens(from) : /\ t \in Token /\ t.gen = gen
                                 /\ \A b \in t.bytes : b \in Nat /\ from < b /\ b <= size
  <1> SUFFICES ASSUME NEW t \in Tokens(from)
               PROVE  /\ t \in Token /\ t.gen = gen
                      /\ \A b \in t.bytes : b \in Nat /\ from < b /\ b <= size
    OBVIOUS
  <1>1. size \in Nat /\ gen \in Nat
    BY DEF TypeOK
  <1>2. PICK s \in from + 1 .. size :
          t = [gen |-> gen, bytes |-> {c \in s .. size : (s .. c) \cap Newlines = {}}]
    BY DEF Tokens
  <1>3. t.gen = gen /\ \A b \in t.bytes : b \in s .. size
    BY <1>2
  <1>4. t.bytes \subseteq Nat
    BY <1>1, <1>2
  <1>5. t \in Token
    BY <1>1, <1>2, <1>4 DEF Token
  <1> QED
    BY <1>1, <1>3, <1>5

LEMMA LastIs ==
  ASSUME NEW t, t.bytes \subseteq Nat, NEW n \in t.bytes, \A c \in t.bytes : c <= n
  PROVE  Last(t) = n
  <1>1. Last(t) \in t.bytes /\ \A c \in t.bytes : c <= Last(t)
    BY DEF Last
  <1> QED
    BY <1>1

LEMMA NextOffsetType ==
  ASSUME TypeOK, NEW from \in Nat
  PROVE  /\ NextOffset(from) \in Nat /\ from <= NextOffset(from)
         /\ Tokens(from) # {} => size <= NextOffset(from)
  <1>1. size \in Nat
    BY DEF TypeOK
  <1>2. Tokens(from) # {} => from < size
    BY <1>1 DEF Tokens
  <1> QED
    BY <1>1, <1>2 DEF NextOffset

(* A reading accounts for all that lies before its end.                    *)
LEMMA ReadingAccounts ==
  ASSUME TypeOK, gen = 0, NEW from \in Nat, NEW T, SeenTo(T, from)
  PROVE  SeenTo(T \cup Tokens(from), NextOffset(from))
  <1>1. size \in Nat
    BY DEF TypeOK
  <1>2. SUFFICES ASSUME NEW b \in 1 .. NextOffset(from)
                 PROVE  \/ b \in Newlines
                        \/ \E t \in T \cup Tokens(from) : t.gen = 0 /\ b \in t.bytes
                        \/ \E t \in T \cup Tokens(from) : b = Last(t) + 1
    BY DEF SeenTo
  <1>3. b \in Nat /\ b >= 1 /\ b <= NextOffset(from)
    BY NextOffsetType
  <1>4. CASE b <= from
    BY <1>3, <1>4 DEF SeenTo
  <1>5. CASE from < b /\ b <= size
    <2>1. CASE b \in Newlines
      BY <2>1
    <2>2. CASE b \notin Newlines
      <3>1. PICK t \in Tokens(from) : b \in t.bytes
        BY <1>1, <1>3, <1>5, <2>2, ByteInToken
      <3> QED
        BY <3>1, TokenTypes
    <2> QED
      BY <2>1, <2>2
  <1>6. CASE from < b /\ size < b
    <2>1. b = size + 1 /\ from < size /\ size \notin Newlines
      BY <1>1, <1>3, <1>6 DEF NextOffset
    <2>2. PICK t \in Tokens(from) : size \in t.bytes
      BY <1>1, <2>1, ByteInToken
    <2>3. Last(t) = size
      BY <2>2, TokenTypes, LastIs DEF Token
    <2> QED
      BY <2>1, <2>2, <2>3
  <1> QED
    BY <1>1, <1>3, <1>4, <1>5, <1>6
-----------------------------------------------------------------------------
(* What a move of one goroutine keeps.                                     *)

LEMMA Names ==
  /\ Readers \subseteq Procs /\ Flushing \subseteq Procs
  /\ Procs = {"loop", "scan", "stop"} /\ Readers = {"loop", "scan"} /\ Flushing = {"loop", "stop"}
  BY DEF Readers, Flushing, Procs

LEMMA LocalsOf ==
  ASSUME NEW p \in Procs, NEW phase \in Phases(p), NEW from \in Nat, NEW to \in Nat,
         NEW tokens \in SUBSET Token
  PROVE  [phase |-> phase, from |-> from, to |-> to, tokens |-> tokens] \in Locals
  <1>1. phase \in UNION {Phases(q) : q \in Procs}
    OBVIOUS
  <1> QED
    BY <1>1 DEF Locals

LEMMA AtType ==
  ASSUME NEW p \in Procs, NEW phase \in Phases(p)
  PROVE  /\ At(phase) \in Locals /\ At(phase).phase = phase /\ At(phase).tokens = {}
         /\ At(phase).from = 0 /\ At(phase).to = 0
  BY LocalsOf DEF At

LEMMA PhaseChange ==
  ASSUME TypeOK, NEW p \in Procs, NEW phase \in Phases(p)
  PROVE  /\ [proc[p] EXCEPT !.phase = phase] \in Locals
         /\ [proc[p] EXCEPT !.phase = phase].phase = phase
         /\ [proc[p] EXCEPT !.phase = phase].from = proc[p].from
         /\ [proc[p] EXCEPT !.phase = phase].to = proc[p].to
         /\ [proc[p] EXCEPT !.phase = phase].tokens = proc[p].tokens
  <1>1. proc[p] \in Locals
    BY DEF TypeOK
  <1>2. phase \in UNION {Phases(q) : q \in Procs}
    OBVIOUS
  <1> QED
    BY <1>1, <1>2 DEF Locals

LEMMA Moved ==
  ASSUME TypeOK, NEW p \in Procs, NEW x, proc' = [proc EXCEPT ![p] = x]
  PROVE  proc'[p] = x /\ \A q \in Procs : q # p => proc'[q] = proc[q]
  BY DEF TypeOK

(* The types of goroutines after a move of one.                            *)
ProcTypes ==
  /\ proc \in [Procs -> Locals]
  /\ \A p \in Procs : proc[p].phase \in IF up THEN Phases(p) ELSE {"idle"}
  /\ \A p \in Procs : \A t \in proc[p].tokens : t.gen <= gen

LEMMA MoveTypes ==
  ASSUME TypeOK, up, up' = up, gen' = gen, NEW p \in Procs, NEW x \in Locals,
         x.phase \in Phases(p), \A t \in x.tokens : t.gen <= gen,
         proc' = [proc EXCEPT ![p] = x]
  PROVE  ProcTypes'
  <1>1. proc'[p] = x /\ \A q \in Procs : q # p => proc'[q] = proc[q]
    BY Moved
  <1>2. proc \in [Procs -> Locals] /\ \A q \in Procs : proc[q].phase \in Phases(q)
    BY DEF TypeOK
  <1>3. \A q \in Procs : \A t \in proc[q].tokens : t.gen <= gen
    BY DEF TypeOK
  <1> QED
    BY <1>1, <1>2, <1>3 DEF ProcTypes

(* A step that neither reads nor hands over, and moves no offset.          *)
LEMMA Quiet ==
  ASSUME IInv, TypeOK', gen' = gen, up' = up, filePosition' = filePosition,
         savedOffset' = savedOffset, handed' = handed, dropped' = dropped, repeated' = repeated,
         excused' = excused,
         \A r \in Readers : proc'[r] = proc[r] \/ (~Busy(r) /\ ~Busy(r)')
  PROVE  IInv'
  <1>1. \A r \in Readers : Busy(r)' => proc'[r] = proc[r] /\ Busy(r)
    BY DEF Busy
  <1>2. \A r \in Readers : Busy(r) => proc'[r] = proc[r]
    BY DEF Busy
  <1>3. Added' = Added
    BY DEF Added
  <1>4. OffsetsSeen'
    BY <1>1, <1>3 DEF IInv, OffsetsSeen, ReaderSaw, Busy
  <1>5. ASSUME ~excused' PROVE OneReader'
    <2>1. OneReader
      BY <1>5 DEF IInv, ReadInOrder
    <2>2. \A r \in Readers : Fresh(r)'
      BY <1>1, <2>1 DEF OneReader, Fresh, Busy, Overlap
    <2> QED
      BY <1>1, <1>2, <2>1, <2>2 DEF OneReader, Busy
  <1> QED
    BY <1>4, <1>5 DEF IInv, ReadInOrder

(* The other half of TypeOK.                                               *)
DataTypes ==
  /\ size \in Nat /\ gen \in Nat /\ dirExists \in BOOLEAN
  /\ up \in BOOLEAN /\ cancelled \in BOOLEAN
  /\ baseWatched \in BOOLEAN /\ watched \in BOOLEAN /\ resolved \in BOOLEAN
  /\ walked \subseteq [dir : BOOLEAN, project : BOOLEAN]
  /\ events \subseteq {"mkdir", "write"}
  /\ filePosition \in Nat /\ savedOffset \in Nat
  /\ inflight \in [Flushing -> SUBSET Token]
  /\ buffer \subseteq Token /\ stored \subseteq Token /\ unsent \subseteq Token
  /\ handed \subseteq Token /\ dropped \subseteq Token /\ repeated \subseteq Token
  /\ \A t \in handed : t.gen <= gen

LEMMA Halves == TypeOK <=> DataTypes /\ ProcTypes
  <1>1. (\A t \in handed \cup UNION {proc[p].tokens : p \in Procs} : t.gen <= gen)
          <=> (\A t \in handed : t.gen <= gen) /\ \A p \in Procs : \A t \in proc[p].tokens : t.gen <= gen
    OBVIOUS
  <1>2. UNION {buffer, stored, unsent, handed, dropped, repeated} \subseteq Token
          <=> /\ buffer \subseteq Token /\ stored \subseteq Token /\ unsent \subseteq Token
              /\ handed \subseteq Token /\ dropped \subseteq Token /\ repeated \subseteq Token
    OBVIOUS
  <1> QED
    BY <1>1, <1>2 DEF TypeOK, DataTypes, ProcTypes

LEMMA HalvesNext == DataTypes' /\ ProcTypes' => TypeOK'
  <1>1. (\A t \in handed' \cup UNION {proc'[p].tokens : p \in Procs} : t.gen <= gen')
          <=> (\A t \in handed' : t.gen <= gen') /\ \A p \in Procs : \A t \in proc'[p].tokens : t.gen <= gen'
    OBVIOUS
  <1>2. UNION {buffer', stored', unsent', handed', dropped', repeated'} \subseteq Token
          <=> /\ buffer' \subseteq Token /\ stored' \subseteq Token /\ unsent' \subseteq Token
              /\ handed' \subseteq Token /\ dropped' \subseteq Token /\ repeated' \subseteq Token
    OBVIOUS
  <1> QED
    BY <1>1, <1>2 DEF TypeOK, DataTypes, ProcTypes

LEMMA SameProcs ==
  ASSUME TypeOK, proc' = proc, up' = up, gen' = gen
  PROVE  ProcTypes'
  BY Halves DEF ProcTypes

(* A goroutine that works on no file moves on to where it works on none.   *)
LEMMA QuietMove ==
  ASSUME IInv, DataTypes', up, NEW p \in Procs, NEW phase \in Phases(p),
         phase \notin {"read", "add", "set", "save"},
         proc[p].phase \notin {"read", "add", "set", "save"}, proc' = [proc EXCEPT ![p] = At(phase)],
         gen' = gen, up' = up, filePosition' = filePosition, savedOffset' = savedOffset,
         handed' = handed, dropped' = dropped, repeated' = repeated, excused' = excused
  PROVE  IInv'
  <1>1. At(phase) \in Locals /\ At(phase).phase = phase /\ At(phase).tokens = {}
    BY AtType
  <1>2. ProcTypes'
    BY <1>1, MoveTypes DEF IInv
  <1>3. TypeOK'
    BY <1>2, HalvesNext
  <1>4. proc'[p] = At(phase) /\ \A q \in Procs : q # p => proc'[q] = proc[q]
    BY Moved DEF IInv
  <1>5. \A r \in Readers : proc'[r] = proc[r] \/ (~Busy(r) /\ ~Busy(r)')
    BY <1>1, <1>4, Names DEF Busy
  <1> QED
    BY <1>3, <1>5, Quiet
-----------------------------------------------------------------------------
(* The steps that move no offset.                                          *)

LEMMA ToolStep ==
  ASSUME IInv, MakeDir \/ \E n \in Cuts : Write(n)
  PROVE  IInv'
  <1>1. /\ gen' = gen /\ up' = up /\ proc' = proc /\ filePosition' = filePosition
        /\ savedOffset' = savedOffset /\ handed' = handed /\ dropped' = dropped
        /\ repeated' = repeated /\ excused' = excused
    BY DEF MakeDir, Write, offsets, books
  <1>2. DataTypes
    BY Halves DEF IInv
  <1>3. DataTypes'
    <2>1. CASE MakeDir
      BY <1>2, <2>1 DEF MakeDir, DataTypes, watch, offsets, queues, books
    <2>2. ASSUME NEW n \in Cuts, Write(n) PROVE DataTypes'
      <3>1. n \in Nat
        BY FileAssumption
      <3> QED
        BY <1>2, <2>2, <3>1 DEF Write, Written, DataTypes, watch, offsets, queues, books
    <2> QED
      BY <2>1, <2>2
  <1>4. TypeOK'
    BY <1>1, <1>3, SameProcs, HalvesNext DEF IInv
  <1> QED
    BY <1>1, <1>4, Quiet

LEMMA TargetsStep ==
  ASSUME IInv, ApplyTargets \/ \E on \in BOOLEAN : WalkTargets(on)
  PROVE  IInv'
  <1>1. /\ gen' = gen /\ up' = up /\ proc' = proc /\ filePosition' = filePosition
        /\ savedOffset' = savedOffset /\ handed' = handed /\ dropped' = dropped
        /\ repeated' = repeated /\ excused' = excused
    BY DEF ApplyTargets, WalkTargets, file, offsets, books
  <1>2. DataTypes
    BY Halves DEF IInv
  <1>3. DataTypes'
    <2>1. CASE ApplyTargets
      <3>1. PICK w \in walked : baseWatched' = TRUE /\ watched' = w.dir /\ resolved' = w.project
        BY <2>1 DEF ApplyTargets
      <3>2. w.dir \in BOOLEAN /\ w.project \in BOOLEAN
        BY <1>2 DEF DataTypes
      <3> QED
        BY <1>2, <2>1, <3>1, <3>2 DEF ApplyTargets, DataTypes, file, offsets, queues, books
    <2>2. ASSUME NEW on \in BOOLEAN, WalkTargets(on) PROVE DataTypes'
      BY <1>2, <2>2 DEF WalkTargets, DataTypes, file, offsets, queues, books
    <2> QED
      BY <2>1, <2>2
  <1>4. TypeOK'
    BY <1>1, <1>3, SameProcs, HalvesNext DEF IInv
  <1> QED
    BY <1>1, <1>4, Quiet

LEMMA HandleDirectoryCreateStep ==
  ASSUME IInv, HandleDirectoryCreate
  PROVE  IInv'
  <1>1. DataTypes
    BY Halves DEF IInv
  <1>2. DataTypes'
    BY <1>1 DEF HandleDirectoryCreate, DataTypes, file, watch, offsets, queues, books
  <1>3. "watch" \in Phases("loop")
    BY DEF Phases
  <1> QED
    BY <1>2, <1>3, Names, QuietMove DEF HandleDirectoryCreate, file, offsets, books

LEMMA ScanSkipsStep ==
  ASSUME IInv, ScanSkips
  PROVE  IInv'
  <1>1. DataTypes /\ ProcTypes
    BY Halves DEF IInv
  <1>2. DataTypes'
    BY <1>1 DEF ScanSkips, DataTypes, file, watch, offsets, queues, books
  <1>3. "idle" \in Phases("scan") /\ up
    BY <1>1, Names DEF Phases, ProcTypes, DataTypes, ScanSkips
  <1> QED
    BY <1>2, <1>3, Names, QuietMove DEF ScanSkips, file, offsets, books

LEMMA TakeTypes ==
  ASSUME DataTypes, NEW p \in Flushing, Take(p)
  PROVE  inflight' \in [Flushing -> SUBSET Token] /\ buffer' \subseteq Token
  BY DEF DataTypes, Take

LEMMA TickStep ==
  ASSUME IInv, Tick
  PROVE  IInv'
  <1>1. DataTypes
    BY Halves DEF IInv
  <1>2. DataTypes'
    BY <1>1, TakeTypes, Names DEF Tick, DataTypes, file, watch, offsets, books
  <1>3. "sending" \in Phases("loop")
    BY DEF Phases
  <1> QED
    BY <1>2, <1>3, Names, QuietMove DEF Tick, file, offsets, books

LEMMA FlushEndsStep ==
  ASSUME IInv, NEW p \in Flushing, FlushEnds(p)
  PROVE  IInv'
  <1>1. DataTypes /\ ProcTypes
    BY Halves DEF IInv
  <1>2. DataTypes'
    <2>1. inflight[p] \subseteq Token
      BY <1>1 DEF DataTypes
    <2>2. stored' \subseteq Token /\ buffer' \subseteq Token /\ unsent' \subseteq Token
      BY <1>1, <2>1 DEF FlushEnds, DataTypes
    <2> QED
      BY <1>1, <2>2 DEF FlushEnds, DataTypes, file, watch, offsets, books
  <1>3. up
    BY <1>1, Names DEF ProcTypes, FlushEnds, DataTypes
  <1>4. PICK phase \in {"close", "idle"} :
          phase \in Phases(p) /\ proc' = [proc EXCEPT ![p] = At(phase)]
    BY Names DEF FlushEnds, Phases
  <1> QED
    BY <1>2, <1>3, <1>4, Names, QuietMove DEF FlushEnds, file, offsets, books

LEMMA StopStep ==
  ASSUME IInv, Stop
  PROVE  IInv'
  <1>1. DataTypes /\ ProcTypes
    BY Halves DEF IInv
  <1>2. DataTypes'
    BY <1>1 DEF Stop, DataTypes, file, watch, offsets, queues, books
  <1>3. "due" \in Phases("stop") /\ proc["stop"].phase \notin {"read", "add", "set", "save"} /\ up
    BY <1>1, Names DEF Phases, ProcTypes, Stop
  <1> QED
    BY <1>2, <1>3, Names, QuietMove DEF Stop, file, offsets, books

LEMMA FinalFlushStep ==
  ASSUME IInv, FinalFlush
  PROVE  IInv'
  <1>1. DataTypes /\ ProcTypes
    BY Halves DEF IInv
  <1>2. DataTypes'
    BY <1>1, TakeTypes, Names DEF FinalFlush, DataTypes, file, watch, offsets, books
  <1>3. "sending" \in Phases("stop") /\ up
    BY <1>1, Names DEF Phases, ProcTypes, FinalFlush, DataTypes
  <1> QED
    BY <1>2, <1>3, Names, QuietMove DEF FinalFlush, file, offsets, books
-----------------------------------------------------------------------------
(* A replacement, a start and an end.                                      *)

LEMMA ReplaceStep ==
  ASSUME IInv, Replace
  PROVE  IInv'
  <1>1. DataTypes /\ ProcTypes
    BY Halves DEF IInv
  <1>2. /\ gen \in Nat /\ gen' = gen + 1 /\ size' = 0 /\ up' = up /\ proc' = proc /\ handed' = handed
        /\ filePosition' = filePosition /\ savedOffset' = savedOffset
        /\ repeated' = repeated /\ excused' = excused
    BY <1>1 DEF Replace, DataTypes, offsets, books
  <1>3. /\ \A t \in handed : t.gen \in Nat /\ t.gen <= gen
        /\ \A p \in Procs : \A t \in proc[p].tokens : t.gen \in Nat /\ t.gen <= gen
    BY <1>1 DEF DataTypes, ProcTypes, Locals, Token
  <1>4. TypeOK'
    <2>1. DataTypes'
      BY <1>1, <1>2, <1>3 DEF Replace, Written, DataTypes, watch, offsets, queues, books
    <2>2. ProcTypes'
      BY <1>1, <1>2, <1>3 DEF ProcTypes
    <2> QED
      BY <2>1, <2>2, HalvesNext
  <1>5. OffsetsSeen'
    BY <1>2 DEF OffsetsSeen
  <1>6. ASSUME ~excused' PROVE OneReader'
    <2>1. OneReader
      BY <1>2, <1>6 DEF IInv, ReadInOrder
    <2>2. \A n : UpTo(handed, gen + 1, n)
      BY <1>2, <1>3 DEF UpTo
    <2>3. \A r \in Readers : Fresh(r)'
      BY <1>2, <1>3, <2>1, <2>2, Names DEF OneReader, Fresh, Overlap
    <2> QED
      BY <1>2, <2>1, <2>2, <2>3 DEF OneReader, Busy
  <1> QED
    BY <1>4, <1>5, <1>6 DEF IInv, ReadInOrder

LEMMA StartStep ==
  ASSUME IInv, Start
  PROVE  IInv'
  <1>1. DataTypes /\ ProcTypes
    BY Halves DEF IInv
  <1>2. PICK loaded \in BOOLEAN :
          /\ filePosition' = IF loaded THEN savedOffset ELSE 0
          /\ excused' = (excused \/ ~loaded)
    BY DEF Start
  <1>3. /\ ~up /\ up' = TRUE /\ gen' = gen /\ savedOffset' = savedOffset /\ handed' = handed
        /\ dropped' = dropped /\ repeated' = repeated
        /\ proc' = [p \in Procs |-> At(IF p = "scan" THEN "due" ELSE "idle")]
    BY DEF Start, file, books
  <1>4. \A p \in Procs : /\ proc'[p] \in Locals /\ proc'[p].phase \in {"due", "idle"}
                         /\ proc'[p].phase \in Phases(p) /\ proc'[p].tokens = {}
    <2>1. ASSUME NEW p \in Procs PROVE (IF p = "scan" THEN "due" ELSE "idle") \in Phases(p)
      BY DEF Phases
    <2> QED
      BY <1>3, <2>1, AtType
  <1>5. TypeOK'
    <2>1. DataTypes'
      BY <1>1, <1>2 DEF Start, DataTypes, file, watch, queues, books
    <2>2. ProcTypes'
      BY <1>3, <1>4 DEF ProcTypes
    <2> QED
      BY <2>1, <2>2, HalvesNext
  <1>6. \A r \in Readers : proc'[r].phase \notin {"read", "add", "set", "save"}
    BY <1>4, Names
  <1>7. OffsetsSeen'
    <2>1. gen = 0 => SeenTo(Added, savedOffset) /\ SeenTo(Added, 0)
      BY DEF IInv, OffsetsSeen, SeenTo
    <2>2. Added' = Added
      BY <1>3 DEF Added
    <2> QED
      BY <1>2, <1>3, <1>6, <2>1, <2>2 DEF OffsetsSeen, ReaderSaw
  <1>8. ASSUME ~excused' PROVE OneReader'
    <2>1. OneReader /\ filePosition' = savedOffset
      BY <1>2, <1>8 DEF IInv, ReadInOrder
    <2>2. UpTo(handed, gen, savedOffset)
      BY <1>1, <1>3, <2>1, Names DEF OneReader, ProcTypes
    <2> QED
      BY <1>3, <1>6, <2>1, <2>2 DEF OneReader, Fresh, Busy
  <1> QED
    BY <1>5, <1>7, <1>8 DEF IInv, ReadInOrder

LEMMA GoneStep ==
  ASSUME IInv, Gone
  PROVE  IInv'
  <1>1. DataTypes /\ ProcTypes
    BY Halves DEF IInv
  <1>2. /\ up' = FALSE /\ gen' = gen /\ savedOffset' = savedOffset /\ handed' = handed
        /\ dropped' = dropped /\ repeated' = repeated /\ filePosition' = 0
        /\ proc' = [p \in Procs |-> At("idle")]
        /\ excused' = (excused \/ \E r \in Readers : proc[r].phase \in {"set", "save"})
    BY DEF Gone, file, books
  <1>3. \A p \in Procs : proc'[p] \in Locals /\ proc'[p].phase = "idle" /\ proc'[p].tokens = {}
    <2>1. ASSUME NEW p \in Procs PROVE "idle" \in Phases(p)
      BY DEF Phases
    <2> QED
      BY <1>2, <2>1, AtType
  <1>4. TypeOK'
    <2>1. DataTypes'
      BY <1>1 DEF Gone, DataTypes, file, books
    <2>2. ProcTypes'
      BY <1>2, <1>3 DEF ProcTypes
    <2> QED
      BY <2>1, <2>2, HalvesNext
  <1>5. \A r \in Readers : proc'[r].phase = "idle"
    BY <1>3, Names
  <1>6. OffsetsSeen'
    <2>1. SeenTo(Added, 0)
      BY DEF SeenTo
    <2>2. Added' = Added
      BY <1>2 DEF Added
    <2> QED
      BY <1>2, <1>5, <2>1, <2>2 DEF IInv, OffsetsSeen, ReaderSaw
  <1>7. ASSUME ~excused' PROVE OneReader'
    BY <1>2, <1>5, <1>7 DEF IInv, ReadInOrder, OneReader, Fresh, Busy
  <1> QED
    BY <1>4, <1>6, <1>7 DEF IInv, ReadInOrder
-----------------------------------------------------------------------------
(* The steps of a reader.                                                  *)

LEMMA BeginStep ==
  ASSUME IInv, NEW r \in Readers, up, ~Busy(r), Begin(r), DataTypes',
         gen' = gen, up' = up, filePosition' = filePosition, savedOffset' = savedOffset,
         handed' = handed, dropped' = dropped, repeated' = repeated
  PROVE  IInv'
  <1>1. DataTypes /\ ProcTypes
    BY Halves DEF IInv
  <1> DEFINE x == Reading(filePosition)
  <1>2. /\ x \in Locals /\ x.phase = "read" /\ x.from = filePosition /\ x.tokens = {}
        /\ "read" \in Phases(r)
    <2>1. "read" \in Phases(r)
      BY Names DEF Phases
    <2>2. At("read") \in Locals /\ At("read").tokens = {} /\ At("read").phase = "read"
      BY <2>1, Names, AtType
    <2>3. filePosition \in Nat
      BY <1>1 DEF DataTypes
    <2> QED
      BY <2>1, <2>2, <2>3 DEF Reading, Locals
  <1>3. proc' = [proc EXCEPT ![r] = x]
    BY DEF Begin
  <1> HIDE DEF x
  <1>4. proc'[r] = x /\ \A q \in Procs : q # r => proc'[q] = proc[q]
    BY <1>3, Names, Moved DEF IInv
  <1>5. TypeOK'
    BY <1>2, <1>3, Names, MoveTypes, HalvesNext DEF IInv
  <1>6. OffsetsSeen'
    <2>1. Added' = Added
      BY DEF Added
    <2> QED
      BY <1>2, <1>4, <2>1, Names DEF IInv, OffsetsSeen, ReaderSaw
  <1>7. ASSUME ~excused' PROVE OneReader'
    <2>1. OneReader /\ \A q \in Readers : ~Busy(q)
      BY <1>7 DEF IInv, ReadInOrder, Begin
    <2>2. UpTo(handed, gen, filePosition) /\ UpTo(handed, gen, savedOffset)
      BY <2>1 DEF OneReader, Busy
    <2>3. \A q \in Readers : Busy(q)' => q = r
      BY <1>4, <2>1, Names DEF Busy
    <2>4. \A q \in Readers : Fresh(q)'
      BY <1>2, <1>4, <2>1, <2>2, <2>3, Names DEF Fresh, Busy
    <2> QED
      BY <2>1, <2>2, <2>3, <2>4 DEF OneReader
  <1> QED
    BY <1>5, <1>6, <1>7 DEF IInv, ReadInOrder

LEMMA BeginsStep ==
  ASSUME IInv, HandleWrite \/ AddWatchForClaudeSubdir \/ ScanReads
  PROVE  IInv'
  <1>1. DataTypes /\ ProcTypes
    BY Halves DEF IInv
  <1>2. /\ gen' = gen /\ up' = up /\ filePosition' = filePosition /\ savedOffset' = savedOffset
        /\ handed' = handed /\ dropped' = dropped /\ repeated' = repeated
    BY DEF HandleWrite, AddWatchForClaudeSubdir, ScanReads, file, offsets, books
  <1>3. PICK r \in Readers : Begin(r) /\ proc[r].phase \in {"idle", "watch", "due"} /\ (up \/ proc[r].phase # "idle")
    BY Names DEF HandleWrite, AddWatchForClaudeSubdir, ScanReads
  <1>4. up /\ ~Busy(r)
    BY <1>1, <1>3, Names DEF ProcTypes, Busy, DataTypes
  <1>5. DataTypes'
    BY <1>1 DEF HandleWrite, AddWatchForClaudeSubdir, ScanReads, DataTypes, file, watch, offsets,
                queues, books
  <1> QED
    BY <1>2, <1>3, <1>4, <1>5, BeginStep

LEMMA HandleFileChangeStep ==
  ASSUME IInv, NEW r \in Readers, HandleFileChange(r)
  PROVE  IInv'
  <1>1. DataTypes /\ ProcTypes /\ TypeOK
    BY Halves DEF IInv
  <1> DEFINE from == proc[r].from
             x == [phase |-> "add", from |-> from, to |-> NextOffset(from), tokens |-> Tokens(from)]
  <1>2. /\ gen' = gen /\ size' = size /\ up' = up /\ filePosition' = filePosition
        /\ savedOffset' = savedOffset /\ handed' = handed /\ dropped' = dropped
        /\ repeated' = repeated /\ excused' = excused /\ proc[r].phase = "read"
    BY DEF HandleFileChange, file, offsets, books
  <1>3. up /\ from \in Nat
    BY <1>1, <1>2, Names DEF ProcTypes, DataTypes, Locals
  <1>4. DataTypes'
    BY <1>1 DEF HandleFileChange, DataTypes, file, watch, offsets, queues, books
  <1>5. PICK y \in Locals :
          /\ proc' = [proc EXCEPT ![r] = y]
          /\ y.phase \in Phases(r) /\ (\A t \in y.tokens : t.gen <= gen)
          /\ \/ y.phase = "idle"
             \/ y.phase = "add" /\ y.from = from /\ y.to = NextOffset(from)
                  /\ y.tokens = Tokens(from) /\ Tokens(from) # {}
    <2>1. CASE Tokens(from) = {} \/ TooLong(from)
      <3>1. "idle" \in Phases(r)
        BY Names DEF Phases
      <3>2. proc' = [proc EXCEPT ![r] = At("idle")]
        BY <2>1 DEF HandleFileChange
      <3>3. At("idle") \in Locals /\ At("idle").phase = "idle" /\ At("idle").tokens = {}
        BY <3>1, AtType, Names
      <3> QED
        BY <3>1, <3>2, <3>3
    <2>2. CASE ~(Tokens(from) = {} \/ TooLong(from))
      <3>1. "add" \in Phases(r)
        BY Names DEF Phases
      <3>2. NextOffset(from) \in Nat /\ Tokens(from) \in SUBSET Token
        BY <1>1, <1>3, NextOffsetType, TokenTypes
      <3>3. x \in Locals
        BY <1>3, <3>1, <3>2, Names, LocalsOf
      <3>4. proc' = [proc EXCEPT ![r] = x]
        BY <2>2 DEF HandleFileChange
      <3>5. \A t \in Tokens(from) : t.gen <= gen
        BY <1>1, <1>3, TokenTypes DEF DataTypes
      <3> QED
        BY <2>2, <3>1, <3>3, <3>4, <3>5
    <2> QED
      BY <2>1, <2>2
  <1> HIDE DEF x, from
  <1>6. proc'[r] = y /\ \A q \in Procs : q # r => proc'[q] = proc[q]
    BY <1>1, <1>5, Names, Moved
  <1>7. TypeOK'
    BY <1>1, <1>2, <1>3, <1>4, <1>5, Names, MoveTypes, HalvesNext
  <1>8. OffsetsSeen'
    <2>1. SUFFICES ASSUME gen = 0 PROVE OffsetsSeen'
      BY <1>2 DEF OffsetsSeen
    <2>2. Added' = Added
      BY <1>2 DEF Added
    <2>3. y.phase = "add" => SeenTo(Added \cup y.tokens, y.to)
      <3>1. SeenTo(Added, from)
        BY <1>2, <2>1 DEF IInv, OffsetsSeen, ReaderSaw, from
      <3> QED
        BY <1>1, <1>3, <1>5, <2>1, <3>1, ReadingAccounts
    <2> QED
      BY <1>2, <1>5, <1>6, <2>1, <2>2, <2>3, Names DEF IInv, OffsetsSeen, ReaderSaw
  <1>9. ASSUME ~excused' PROVE OneReader'
    <2>1. OneReader /\ UpTo(handed, gen, from)
      BY <1>2, <1>9 DEF IInv, ReadInOrder, OneReader, Fresh, from
    <2>2. \A q \in Readers : q # r => ~Busy(q) /\ ~Busy(q)'
      BY <1>2, <1>6, <2>1, Names DEF OneReader, Busy
    <2>3. UpTo(handed, gen, filePosition) /\ UpTo(handed, gen, savedOffset)
      <3>1. \A q \in Readers : proc[q].phase \notin {"set", "save"}
        BY <1>2, <2>2 DEF Busy
      <3> QED
        BY <1>3, <2>1, <3>1 DEF OneReader
    <2>4. Fresh(r)'
      <3>1. SUFFICES ASSUME y.phase = "add" PROVE Fresh(r)'
        BY <1>5, <1>6 DEF Fresh
      <3>2. y.from = from /\ y.to = NextOffset(from) /\ y.tokens = Tokens(from) /\ Tokens(from) # {}
        BY <1>5, <3>1
      <3>3. from <= y.to /\ size <= y.to /\ size \in Nat /\ y.to \in Nat
        BY <1>1, <1>3, <3>2, NextOffsetType DEF DataTypes
      <3>4. ASSUME NEW t \in y.tokens
            PROVE  /\ \A b \in t.bytes : from < b /\ b <= y.to
                   /\ \A u \in handed : ~Overlap(t, u)
        <4>1. t.gen = gen /\ \A b \in t.bytes : b \in Nat /\ from < b /\ b <= size
          BY <1>1, <1>3, <3>2, <3>4, TokenTypes
        <4>2. \A b \in t.bytes : from < b /\ b <= y.to
          BY <3>3, <4>1
        <4>3. ASSUME NEW u \in handed, Overlap(t, u) PROVE FALSE
          <5>1. PICK b \in t.bytes : b \in u.bytes /\ u.gen = gen
            BY <4>1, <4>3 DEF Overlap
          <5>2. b <= from /\ from < b /\ b \in Nat
            BY <2>1, <4>1, <5>1 DEF UpTo
          <5> QED
            BY <1>3, <5>2
        <4> QED
          BY <4>2, <4>3
      <3> QED
        BY <1>2, <1>6, <2>1, <3>1, <3>2, <3>3, <3>4 DEF Fresh, Overlap
    <2>5. \A q \in Readers : Fresh(q)'
      BY <2>2, <2>4 DEF Fresh, Busy
    <2> QED
      BY <1>2, <2>1, <2>2, <2>3, <2>5 DEF OneReader
  <1> QED
    BY <1>7, <1>8, <1>9 DEF IInv, ReadInOrder
-----------------------------------------------------------------------------
(* The steps that hand lines over and move the offsets.                    *)

LEMMA SeenMore ==
  ASSUME NEW S, NEW T, S \subseteq T, NEW n, SeenTo(S, n)
  PROVE  SeenTo(T, n)
  BY DEF SeenTo

LEMMA ReaderUp ==
  ASSUME TypeOK, NEW r \in Readers, Busy(r)
  PROVE  up
  BY Names DEF TypeOK, Busy

LEMMA ReaderPhases ==
  ASSUME NEW r \in Readers
  PROVE  {"idle", "set", "save"} \subseteq Phases(r)
  BY Names DEF Phases

LEMMA AddLinesStep ==
  ASSUME IInv, NEW r \in Readers, AddLines(r)
  PROVE  IInv'
  <1>1. DataTypes /\ ProcTypes /\ TypeOK
    BY Halves DEF IInv
  <1> DEFINE new == proc[r].tokens
             to == proc[r].to
             x == [proc[r] EXCEPT !.phase = "set"]
  <1>2. /\ gen' = gen /\ size' = size /\ up' = up /\ filePosition' = filePosition
        /\ savedOffset' = savedOffset /\ excused' = excused /\ proc[r].phase = "add"
        /\ proc' = [proc EXCEPT ![r] = x]
    BY DEF AddLines, file, offsets
  <1>3. up
    BY <1>1, <1>2, ReaderUp DEF Busy
  <1>4. /\ x \in Locals /\ x.phase = "set" /\ x.to = to /\ x.tokens = new
        /\ "set" \in Phases(r) /\ new \subseteq Token /\ (\A t \in new : t.gen <= gen)
    <2>1. "set" \in Phases(r) /\ r \in Procs
      BY Names, ReaderPhases
    <2>2. proc[r] \in Locals
      BY <1>1, <2>1 DEF ProcTypes
    <2> QED
      BY <1>1, <2>1, <2>2, PhaseChange DEF ProcTypes, Locals
  <1>5. \/ /\ handed' = handed \cup new /\ dropped' = dropped /\ buffer' = buffer \cup new
           /\ repeated' = repeated \cup {t \in new : \E u \in handed : Overlap(t, u)}
        \/ /\ handed' = handed /\ dropped' = dropped \cup new /\ buffer' = buffer
           /\ repeated' = repeated
    BY DEF AddLines
  <1> HIDE DEF x, new, to
  <1>6. proc'[r] = x /\ \A q \in Procs : q # r => proc'[q] = proc[q]
    BY <1>1, <1>2, Names, Moved
  <1>7. TypeOK'
    <2>1. /\ buffer' \subseteq Token /\ handed' \subseteq Token /\ dropped' \subseteq Token
          /\ repeated' \subseteq Token /\ \A t \in handed' : t.gen <= gen
      BY <1>1, <1>4, <1>5 DEF DataTypes
    <2>2. DataTypes'
      BY <1>1, <2>1 DEF AddLines, DataTypes, file, watch, offsets
    <2>3. ProcTypes'
      BY <1>1, <1>2, <1>3, <1>4, Names, MoveTypes
    <2> QED
      BY <2>2, <2>3, HalvesNext
  <1>8. OffsetsSeen'
    <2>1. SUFFICES ASSUME gen = 0 PROVE OffsetsSeen'
      BY <1>2 DEF OffsetsSeen
    <2>2. Added' = Added \cup new
      BY <1>5 DEF Added
    <2>3. SeenTo(Added', filePosition') /\ SeenTo(Added', savedOffset')
      BY <1>2, <2>1, <2>2, SeenMore DEF IInv, OffsetsSeen
    <2>4. SeenTo(Added', to)
      BY <1>2, <2>1, <2>2 DEF IInv, OffsetsSeen, ReaderSaw, new, to
    <2>5. ASSUME NEW q \in Readers, q # r PROVE ReaderSaw(q)'
      <3>1. ReaderSaw(q) /\ proc'[q] = proc[q]
        BY <1>6, <2>1, <2>5, Names DEF IInv, OffsetsSeen
      <3>2. Added \subseteq Added' /\ Added \cup proc[q].tokens \subseteq Added' \cup proc[q].tokens
        BY <2>2
      <3> QED
        BY <3>1, <3>2, SeenMore DEF ReaderSaw
    <2>6. ReaderSaw(r)'
      BY <1>4, <1>6, <2>4 DEF ReaderSaw
    <2> QED
      BY <2>3, <2>5, <2>6 DEF OffsetsSeen
  <1>9. ASSUME ~excused' PROVE OneReader'
    <2>1. OneReader
      BY <1>2, <1>9 DEF IInv, ReadInOrder
    <2>2. \A q \in Readers : q # r => ~Busy(q) /\ ~Busy(q)'
      BY <1>2, <1>6, <2>1, Names DEF OneReader, Busy
    <2>3. Fresh(r)
      BY <2>1 DEF OneReader
    <2>4. repeated' = {}
      BY <1>2, <1>5, <2>1, <2>3 DEF OneReader, Fresh, new
    <2>5. UpTo(handed, gen, to) /\ UpTo(new, gen, to)
      <3>1. proc[r].from \in Nat /\ to \in Nat
        BY <1>1, Names DEF ProcTypes, Locals, to
      <3>2. proc[r].from <= to /\ UpTo(handed, gen, proc[r].from)
        BY <1>2, <2>3 DEF Fresh, to
      <3>3. \A u \in handed : u.bytes \subseteq Nat
        BY <1>1 DEF DataTypes, Token
      <3>4. UpTo(handed, gen, to)
        BY <3>1, <3>2, <3>3 DEF UpTo
      <3>5. UpTo(new, gen, to)
        BY <1>2, <2>3 DEF Fresh, UpTo, new, to
      <3> QED
        BY <3>4, <3>5
    <2>6. UpTo(handed', gen, to)
      BY <1>5, <2>5 DEF UpTo
    <2>7. Fresh(r)'
      BY <1>2, <1>4, <1>6, <2>6 DEF Fresh
    <2>8. \A q \in Readers : Fresh(q)'
      BY <2>2, <2>7 DEF Fresh, Busy
    <2> QED
      BY <1>4, <1>6, <2>2, <2>4, <2>8 DEF OneReader
  <1> QED
    BY <1>7, <1>8, <1>9 DEF IInv, ReadInOrder

LEMMA SetPositionStep ==
  ASSUME IInv, NEW r \in Readers, SetPosition(r)
  PROVE  IInv'
  <1>1. DataTypes /\ ProcTypes /\ TypeOK
    BY Halves DEF IInv
  <1> DEFINE to == proc[r].to
             x == [proc[r] EXCEPT !.phase = "save"]
  <1>2. /\ gen' = gen /\ up' = up /\ filePosition' = to /\ savedOffset' = savedOffset
        /\ handed' = handed /\ dropped' = dropped /\ repeated' = repeated
        /\ excused' = excused /\ proc[r].phase = "set" /\ proc' = [proc EXCEPT ![r] = x]
    BY DEF SetPosition, file, books
  <1>3. up
    BY <1>1, <1>2, ReaderUp DEF Busy
  <1>4. /\ x \in Locals /\ x.phase = "save" /\ x.to = to /\ to \in Nat
        /\ "save" \in Phases(r) /\ (\A t \in x.tokens : t.gen <= gen)
    <2>1. "save" \in Phases(r) /\ r \in Procs
      BY Names, ReaderPhases
    <2>2. proc[r] \in Locals
      BY <1>1, <2>1 DEF ProcTypes
    <2> QED
      BY <1>1, <2>1, <2>2, PhaseChange DEF ProcTypes, Locals
  <1> HIDE DEF x, to
  <1>6. proc'[r] = x /\ \A q \in Procs : q # r => proc'[q] = proc[q]
    BY <1>1, <1>2, Names, Moved
  <1>7. TypeOK'
    <2>1. DataTypes'
      BY <1>1, <1>2, <1>4 DEF SetPosition, DataTypes, file, watch, queues, books
    <2>2. ProcTypes'
      BY <1>1, <1>2, <1>3, <1>4, Names, MoveTypes
    <2> QED
      BY <2>1, <2>2, HalvesNext
  <1>8. OffsetsSeen'
    <2>1. SUFFICES ASSUME gen = 0 PROVE OffsetsSeen'
      BY <1>2 DEF OffsetsSeen
    <2>2. Added' = Added
      BY <1>2 DEF Added
    <2>3. SeenTo(Added, to)
      BY <1>2, <2>1 DEF IInv, OffsetsSeen, ReaderSaw, to
    <2>4. \A q \in Readers : ReaderSaw(q)'
      BY <1>4, <1>6, <2>1, <2>2, <2>3, Names DEF IInv, OffsetsSeen, ReaderSaw
    <2> QED
      BY <1>2, <2>1, <2>2, <2>3, <2>4 DEF IInv, OffsetsSeen
  <1>9. ASSUME ~excused' PROVE OneReader'
    <2>1. OneReader
      BY <1>2, <1>9 DEF IInv, ReadInOrder
    <2>2. \A q \in Readers : q # r => ~Busy(q) /\ ~Busy(q)'
      BY <1>2, <1>6, <2>1, Names DEF OneReader, Busy
    <2>3. UpTo(handed, gen, to)
      BY <1>2, <2>1 DEF OneReader, Fresh, to
    <2>4. \A q \in Readers : Fresh(q)'
      <3>1. Fresh(r)'
        BY <1>2, <1>4, <1>6, <2>3 DEF Fresh
      <3> QED
        BY <2>2, <3>1 DEF Fresh, Busy
    <2>5. \A p, q \in Readers : Busy(p)' /\ Busy(q)' => p = q
      BY <2>2
    <2> QED
      BY <1>2, <1>4, <1>6, <2>1, <2>3, <2>4, <2>5 DEF OneReader
  <1> QED
    BY <1>7, <1>8, <1>9 DEF IInv, ReadInOrder

LEMMA SaveFilePositionStep ==
  ASSUME IInv, NEW r \in Readers, SaveFilePosition(r)
  PROVE  IInv'
  <1>1. DataTypes /\ ProcTypes /\ TypeOK
    BY Halves DEF IInv
  <1> DEFINE to == proc[r].to
             x == At("idle")
  <1>2. /\ gen' = gen /\ up' = up /\ filePosition' = filePosition
        /\ handed' = handed /\ dropped' = dropped /\ repeated' = repeated
        /\ proc[r].phase = "save" /\ proc' = [proc EXCEPT ![r] = x]
        /\ \/ savedOffset' = to /\ excused' = excused
           \/ savedOffset' = savedOffset /\ excused' = TRUE
    BY DEF SaveFilePosition, file, books
  <1>3. up
    BY <1>1, <1>2, ReaderUp DEF Busy
  <1>4. x \in Locals /\ x.phase = "idle" /\ x.tokens = {} /\ to \in Nat /\ "idle" \in Phases(r)
    <2>1. "idle" \in Phases(r) /\ r \in Procs
      BY Names, ReaderPhases
    <2>2. proc[r] \in Locals
      BY <1>1, <2>1 DEF ProcTypes
    <2> QED
      BY <2>1, <2>2, AtType DEF Locals
  <1> HIDE DEF x, to
  <1>6. proc'[r] = x /\ \A q \in Procs : q # r => proc'[q] = proc[q]
    BY <1>1, <1>2, Names, Moved
  <1>7. TypeOK'
    <2>1. DataTypes'
      BY <1>1, <1>2, <1>4 DEF SaveFilePosition, DataTypes, file, watch, queues, books
    <2>2. ProcTypes'
      BY <1>1, <1>2, <1>3, <1>4, Names, MoveTypes
    <2> QED
      BY <2>1, <2>2, HalvesNext
  <1>8. OffsetsSeen'
    <2>1. SUFFICES ASSUME gen = 0 PROVE OffsetsSeen'
      BY <1>2 DEF OffsetsSeen
    <2>2. Added' = Added
      BY <1>2 DEF Added
    <2>3. SeenTo(Added, to)
      BY <1>2, <2>1 DEF IInv, OffsetsSeen, ReaderSaw, to
    <2>4. \A q \in Readers : ReaderSaw(q)'
      BY <1>4, <1>6, <2>1, <2>2, Names DEF IInv, OffsetsSeen, ReaderSaw
    <2> QED
      BY <1>2, <2>1, <2>2, <2>3, <2>4 DEF IInv, OffsetsSeen
  <1>9. ASSUME ~excused' PROVE OneReader'
    <2>1. OneReader /\ savedOffset' = to
      BY <1>2, <1>9 DEF IInv, ReadInOrder
    <2>2. \A q \in Readers : ~Busy(q)'
      BY <1>2, <1>4, <1>6, <2>1, Names DEF OneReader, Busy
    <2>3. UpTo(handed, gen, to)
      BY <1>2, <2>1 DEF OneReader, Fresh, to
    <2>4. UpTo(handed, gen, filePosition)
      <3>1. \A q \in Readers : proc[q].phase # "set"
        BY <1>2, <2>1 DEF OneReader, Busy
      <3> QED
        BY <1>3, <2>1, <3>1 DEF OneReader
    <2>5. \A q \in Readers : Fresh(q)'
      BY <2>2 DEF Fresh, Busy
    <2> QED
      BY <1>2, <2>1, <2>2, <2>3, <2>4, <2>5 DEF OneReader
  <1> QED
    BY <1>7, <1>8, <1>9 DEF IInv, ReadInOrder
-----------------------------------------------------------------------------
(* The invariant, and what it says of the offsets and of what was read.    *)

LEMMA Initially == Init => IInv
  <1> SUFFICES ASSUME Init PROVE IInv
    OBVIOUS
  <1>1. \A p \in Procs : proc[p] \in Locals /\ proc[p].phase = "idle" /\ proc[p].tokens = {}
    <2>1. ASSUME NEW p \in Procs PROVE "idle" \in Phases(p)
      BY DEF Phases
    <2> QED
      BY <2>1, AtType DEF Init
  <1>2. TypeOK
    <2>1. DataTypes
      BY DEF Init, DataTypes
    <2>2. ProcTypes
      BY <1>1 DEF Init, ProcTypes
    <2> QED
      BY <2>1, <2>2, Halves
  <1>3. OffsetsSeen
    <2>1. SeenTo(Added, 0)
      BY DEF SeenTo
    <2> QED
      BY <1>1, <2>1, Names DEF Init, OffsetsSeen, ReaderSaw
  <1>4. OneReader
    BY <1>1, Names DEF Init, OneReader, Busy, Fresh, UpTo
  <1> QED
    BY <1>2, <1>3, <1>4 DEF IInv, ReadInOrder

LEMMA Consecution == IInv /\ [Next]_vars => IInv'
  <1> SUFFICES ASSUME IInv, [Next]_vars PROVE IInv'
    OBVIOUS
  <1>1. CASE MakeDir \/ \E n \in Cuts : Write(n)
    BY <1>1, ToolStep
  <1>2. CASE Replace
    BY <1>2, ReplaceStep
  <1>3. CASE Start
    BY <1>3, StartStep
  <1>4. CASE Stop
    BY <1>4, StopStep
  <1>5. CASE FinalFlush
    BY <1>5, FinalFlushStep
  <1>6. CASE Exit \/ Crash
    BY <1>6, GoneStep DEF Exit, Crash
  <1>7. CASE ApplyTargets \/ \E on \in BOOLEAN : WalkTargets(on)
    BY <1>7, TargetsStep
  <1>8. CASE LoopStep
    BY <1>8, BeginsStep, HandleDirectoryCreateStep, TickStep DEF LoopStep
  <1>9. CASE ScanSkips
    BY <1>9, ScanSkipsStep
  <1>10. CASE ScanReads
    BY <1>10, BeginsStep
  <1>11. ASSUME NEW r \in Readers, ReaderStep(r) PROVE IInv'
    BY <1>11, HandleFileChangeStep, AddLinesStep, SetPositionStep, SaveFilePositionStep
       DEF ReaderStep
  <1>12. ASSUME NEW p \in Flushing, FlushEnds(p) PROVE IInv'
    BY <1>12, FlushEndsStep
  <1>13. CASE UNCHANGED vars
    <2>1. DataTypes
      BY Halves DEF IInv
    <2>2. DataTypes'
      BY <1>13, <2>1 DEF vars, DataTypes
    <2>3. TypeOK'
      BY <1>13, <2>2, SameProcs, HalvesNext DEF IInv, vars
    <2> QED
      BY <1>13, <2>3, Quiet DEF vars
  <1> QED
    BY <1>1, <1>2, <1>3, <1>4, <1>5, <1>6, <1>7, <1>8, <1>9, <1>10, <1>11, <1>12, <1>13 DEF Next

LEMMA Invariant == Spec => []IInv
  BY Initially, Consecution, PTL DEF Spec

(* Every goroutine is at a place of its own, at none while the daemon is   *)
(* down, and no token is of a generation of the file yet to come: the      *)
(* program counters of handler.go and log_service.go.                      *)
THEOREM TypeCorrect == Spec => []TypeOK
  BY Invariant, PTL DEF IInv

(* For any file, any writes and any starts, crashes and lost saves: as     *)
(* long as the file was not replaced, neither filePositions nor            *)
(* file_positions is past a byte that ends no line, was never read, and    *)
(* is not the one behind a line read before it was complete.               *)
THEOREM OffsetsPassNothing == Spec => []NoByteSkipped
  <1>1. IInv => NoByteSkipped
    <2> SUFFICES ASSUME IInv, gen = 0, NEW b \in 1 .. size, b <= filePosition \/ b <= savedOffset
                 PROVE  Accounts(Added, b)
      BY DEF NoByteSkipped, Added
    <2>1. size \in Nat /\ filePosition \in Nat /\ savedOffset \in Nat
      BY DEF IInv, TypeOK
    <2>2. b \in 1 .. filePosition \/ b \in 1 .. savedOffset
      BY <2>1
    <2> QED
      BY <2>2 DEF IInv, OffsetsSeen, SeenTo, Accounts, Covers
  <1> QED
    BY <1>1, Invariant, PTL

(* For any number of replacements, starts and crashes: a byte of the same  *)
(* generation of the file is handed to the buffer twice only if the scan   *)
(* and the loop met, an offset was not saved or not loaded, or the process *)
(* ended before the offset of lines already handed over was saved.         *)
THEOREM RereadExplained == Spec => []ReadTwiceForAReason
  <1>1. IInv => ReadTwiceForAReason
    BY DEF IInv, ReadInOrder, OneReader, ReadTwiceForAReason
  <1> QED
    BY <1>1, Invariant, PTL
-----------------------------------------------------------------------------
(* What Stop leaves in the buffer.                                         *)

(* A token has some bytes in a row, none of which ends a line.             *)
IsLine(t, g) ==
  /\ t.gen <= g /\ 0 \notin t.bytes /\ t.bytes \cap Newlines = {}
  /\ \E n \in t.bytes : \A c \in t.bytes : c <= n
  /\ \A b \in t.bytes : b - 1 \in t.bytes \/ \A c \in t.bytes : b <= c

LinesOnly ==
  /\ \A t \in handed \cup dropped : IsLine(t, gen)
  /\ \A r \in Readers : \A t \in proc[r].tokens : IsLine(t, gen)

(* Once Stop has begun, nothing scans and no offset is saved.              *)
Stopping ==
  /\ cancelled <=> proc["stop"].phase # "idle"
  /\ cancelled => proc["scan"].phase = "idle"

LeftBehind(t) ==
  \/ t \in stored \cup unsent
  \/ \E d \in dropped : Overlap(t, d)
  \/ \E u \in handed \cup dropped : t.bytes = {Last(u) + 1}

(* What is in the buffer since the final flush took it.                    *)
LeftForAReason ==
  gen = 0 /\ proc["stop"].phase \in {"sending", "close"} =>
    \A t \in buffer \ repeated : Last(t) <= savedOffset => LeftBehind(t)

StopInv == LinesOnly /\ Stopping /\ LeftForAReason

LEMMA TokensAreLines ==
  ASSUME TypeOK, NEW from \in Nat, NEW t \in Tokens(from)
  PROVE  IsLine(t, gen)
  <1>1. size \in Nat /\ gen \in Nat
    BY DEF TypeOK
  <1>2. PICK s \in (from + 1 .. size) \ Newlines :
          t = [gen |-> gen, bytes |-> {c \in s .. size : (s .. c) \cap Newlines = {}}]
    BY DEF Tokens
  <1>3. /\ s \in Nat /\ s <= size /\ s \notin Newlines /\ t.gen = gen
        /\ \A c : c \in t.bytes <=> c \in s .. size /\ (s .. c) \cap Newlines = {}
    BY <1>1, <1>2
  <1>4. s \in t.bytes
    BY <1>1, <1>3
  <1>5. 0 \notin t.bytes /\ t.bytes \cap Newlines = {}
    BY <1>1, <1>3
  <1>6. \E n \in t.bytes : \A c \in t.bytes : c <= n
    <2>1. t.bytes \subseteq 0 .. size
      BY <1>1, <1>3
    <2> QED
      BY <1>1, <1>4, <2>1, Largest
  <1>7. ASSUME NEW b \in t.bytes
        PROVE  b - 1 \in t.bytes \/ \A c \in t.bytes : b <= c
    <2>1. CASE b = s
      BY <1>1, <1>3, <2>1
    <2>2. CASE b # s
      <3>1. b - 1 \in s .. size /\ s .. b - 1 \subseteq s .. b
        BY <1>1, <1>3, <2>2
      <3> QED
        BY <1>3, <3>1
    <2> QED
      BY <2>1, <2>2
  <1> QED
    BY <1>1, <1>3, <1>5, <1>6, <1>7 DEF IsLine

(* A line that ends below an offset is known, or is one byte behind one.   *)
LEMMA LineBelowOffset ==
  ASSUME NEW T, NEW n \in Nat, SeenTo(T, n), \A u \in T : IsLine(u, 0) /\ u \in Token,
         NEW t \in Token, IsLine(t, 0), Last(t) <= n
  PROVE  \/ \E u \in T : Overlap(t, u)
         \/ \E u \in T : t.bytes = {Last(u) + 1}
  <1> DEFINE b == Last(t)
  <1>1. \A u \in Token : IsLine(u, 0) =>
          Last(u) \in u.bytes /\ (\A c \in u.bytes : c <= Last(u)) /\ u.gen = 0 /\ u.bytes \subseteq Nat
    BY DEF IsLine, Last, Token
  <1>2. b \in t.bytes /\ (\A c \in t.bytes : c <= b) /\ t.gen = 0 /\ t.bytes \subseteq Nat
    BY <1>1
  <1> HIDE DEF b
  <1>3. b \in 1 .. n /\ b \notin Newlines
    BY <1>2 DEF b, IsLine
  <1>4. CASE \E u \in T : u.gen = 0 /\ b \in u.bytes
    BY <1>2, <1>4 DEF Overlap
  <1>5. CASE \E u \in T : b = Last(u) + 1
    <2>1. PICK u \in T : b = Last(u) + 1
      BY <1>5
    <2>2. Last(u) \in u.bytes /\ u.gen = 0 /\ Last(u) \in Nat
      BY <1>1
    <2>3. CASE b - 1 \in t.bytes
      <3>1. b - 1 = Last(u)
        BY <2>1, <2>2
      <3> QED
        BY <1>2, <2>2, <2>3, <3>1 DEF Overlap
    <2>4. CASE b - 1 \notin t.bytes
      <3>1. \A c \in t.bytes : b <= c
        BY <1>2, <2>4 DEF IsLine
      <3>2. t.bytes = {b}
        BY <1>2, <3>1
      <3> QED
        BY <2>1, <3>2
    <2> QED
      BY <2>3, <2>4
  <1> QED
    BY <1>3, <1>4, <1>5 DEF SeenTo

LEMMA StopQuiet ==
  ASSUME StopInv, gen' = gen, cancelled' = cancelled, proc'["stop"] = proc["stop"],
         cancelled => proc'["scan"].phase = "idle",
         \A r \in Readers : \A t \in proc'[r].tokens : IsLine(t, gen),
         buffer' = buffer, stored' = stored, unsent' = unsent,
         handed' = handed, dropped' = dropped, repeated' = repeated,
         cancelled => savedOffset' = savedOffset
  PROVE  StopInv'
  <1>1. LinesOnly'
    BY DEF StopInv, LinesOnly
  <1>2. Stopping'
    BY DEF StopInv, Stopping
  <1>3. LeftForAReason'
    <2> SUFFICES ASSUME gen = 0, proc["stop"].phase \in {"sending", "close"},
                        NEW t \in buffer \ repeated, Last(t) <= savedOffset'
                 PROVE  LeftBehind(t)'
      BY DEF LeftForAReason
    <2>1. savedOffset' = savedOffset
      BY DEF StopInv, Stopping
    <2>2. LeftBehind(t)
      BY <2>1 DEF StopInv, LeftForAReason
    <2> QED
      BY <2>2 DEF LeftBehind
  <1> QED
    BY <1>1, <1>2, <1>3 DEF StopInv

LEMMA StillStop ==
  ASSUME StopInv, proc' = proc, gen' = gen, cancelled' = cancelled, savedOffset' = savedOffset,
         buffer' = buffer, stored' = stored, unsent' = unsent,
         handed' = handed, dropped' = dropped, repeated' = repeated
  PROVE  StopInv'
  BY StopQuiet DEF StopInv, LinesOnly, Stopping

(* One reader moves on, to tokens that are lines.                          *)
LEMMA ReaderMoves ==
  ASSUME TypeOK, StopInv, NEW r \in Readers, NEW x, proc' = [proc EXCEPT ![r] = x],
         \A t \in x.tokens : IsLine(t, gen),
         r = "scan" => proc["scan"].phase # "idle",
         gen' = gen, cancelled' = cancelled, buffer' = buffer, stored' = stored, unsent' = unsent,
         handed' = handed, dropped' = dropped, repeated' = repeated,
         cancelled => savedOffset' = savedOffset
  PROVE  StopInv'
  <1>1. proc'[r] = x /\ \A q \in Procs : q # r => proc'[q] = proc[q]
    BY Moved, Names
  <1>2. proc'["stop"] = proc["stop"]
    BY <1>1, Names
  <1>3. cancelled => proc'["scan"].phase = "idle"
    BY <1>1, Names DEF StopInv, Stopping
  <1>4. \A q \in Readers : \A t \in proc'[q].tokens : IsLine(t, gen)
    BY <1>1, Names DEF StopInv, LinesOnly
  <1> QED
    BY <1>2, <1>3, <1>4, StopQuiet

LEMMA ReaderStops ==
  ASSUME IInv, StopInv, NEW r \in Readers,
         HandleFileChange(r) \/ SetPosition(r) \/ SaveFilePosition(r)
  PROVE  StopInv'
  <1>1. TypeOK /\ proc[r].from \in Nat /\ proc[r] \in Locals
    BY Names DEF IInv, TypeOK, Locals
  <1>2. /\ gen' = gen /\ cancelled' = cancelled /\ buffer' = buffer /\ stored' = stored
        /\ unsent' = unsent /\ handed' = handed /\ dropped' = dropped /\ repeated' = repeated
        /\ proc[r].phase # "idle" /\ (cancelled => savedOffset' = savedOffset)
    BY DEF HandleFileChange, SetPosition, SaveFilePosition, file, offsets, queues, books
  <1>3. \A t \in proc[r].tokens : IsLine(t, gen)
    BY DEF StopInv, LinesOnly
  <1>4. CASE HandleFileChange(r)
    <2> DEFINE x == IF Tokens(proc[r].from) = {} \/ TooLong(proc[r].from)
                      THEN At("idle")
                      ELSE [phase |-> "add", from |-> proc[r].from, to |-> NextOffset(proc[r].from),
                            tokens |-> Tokens(proc[r].from)]
    <2>1. proc' = [proc EXCEPT ![r] = x]
      BY <1>4 DEF HandleFileChange
    <2>2. \A t \in x.tokens : IsLine(t, gen)
      BY <1>1, TokensAreLines DEF At
    <2> HIDE DEF x
    <2> QED
      BY <1>1, <1>2, <2>1, <2>2, ReaderMoves
  <1>5. CASE SetPosition(r)
    <2> DEFINE x == [proc[r] EXCEPT !.phase = "save"]
    <2>1. proc' = [proc EXCEPT ![r] = x]
      BY <1>5 DEF SetPosition
    <2>2. x.tokens = proc[r].tokens
      BY <1>1 DEF Locals
    <2> HIDE DEF x
    <2> QED
      BY <1>1, <1>2, <1>3, <2>1, <2>2, ReaderMoves
  <1>6. CASE SaveFilePosition(r)
    <2> DEFINE x == At("idle")
    <2>1. proc' = [proc EXCEPT ![r] = x]
      BY <1>6 DEF SaveFilePosition
    <2>2. x.tokens = {}
      BY DEF At
    <2> HIDE DEF x
    <2> QED
      BY <1>1, <1>2, <2>1, <2>2, ReaderMoves
  <1> QED
    BY <1>4, <1>5, <1>6

(* A reader begins, or ends without a reading.                             *)
LEMMA BeginStops ==
  ASSUME IInv, StopInv,
         HandleWrite \/ HandleDirectoryCreate \/ AddWatchForClaudeSubdir \/ ScanSkips \/ ScanReads
  PROVE  StopInv'
  <1>1. /\ gen' = gen /\ cancelled' = cancelled /\ buffer' = buffer /\ stored' = stored
        /\ unsent' = unsent /\ handed' = handed /\ dropped' = dropped /\ repeated' = repeated
        /\ savedOffset' = savedOffset
    BY DEF HandleWrite, HandleDirectoryCreate, AddWatchForClaudeSubdir, ScanSkips, ScanReads,
           file, offsets, queues, books
  <1>2. \E r \in Readers, x \in {At("idle"), At("watch"), Reading(filePosition)} :
          proc' = [proc EXCEPT ![r] = x] /\ (r = "scan" => proc["scan"].phase # "idle")
    BY Names DEF HandleWrite, HandleDirectoryCreate, AddWatchForClaudeSubdir, ScanSkips, ScanReads, Begin
  <1>3. At("idle").tokens = {} /\ At("watch").tokens = {} /\ Reading(filePosition).tokens = {}
    BY DEF At, Reading
  <1>4. PICK r \in Readers, x \in {At("idle"), At("watch"), Reading(filePosition)} :
          proc' = [proc EXCEPT ![r] = x] /\ (r = "scan" => proc["scan"].phase # "idle")
    BY <1>2
  <1>5. x.tokens = {}
    BY <1>3
  <1> QED
    BY <1>1, <1>4, <1>5, ReaderMoves DEF IInv

(* What a reader adds once Stop has begun was never read before, and ends  *)
(* behind the saved offset but for the reasons given.                      *)
LEMMA AddLinesStops ==
  ASSUME IInv, StopInv, NEW r \in Readers, AddLines(r)
  PROVE  StopInv'
  <1> DEFINE new == proc[r].tokens
             x == [proc[r] EXCEPT !.phase = "set"]
  <1>1. /\ gen' = gen /\ cancelled' = cancelled /\ stored' = stored /\ unsent' = unsent
        /\ savedOffset' = savedOffset /\ proc' = [proc EXCEPT ![r] = x] /\ proc[r].phase = "add"
    BY DEF AddLines, file, offsets
  <1>2. \/ /\ buffer' = buffer \cup new /\ handed' = handed \cup new /\ dropped' = dropped
           /\ repeated' = repeated \cup {t \in new : \E u \in handed : Overlap(t, u)}
        \/ /\ dropped' = dropped \cup new
           /\ buffer' = buffer /\ handed' = handed /\ repeated' = repeated
    BY DEF AddLines
  <1>3. TypeOK /\ proc[r] \in Locals /\ new \subseteq Token /\ gen \in Nat /\ savedOffset \in Nat
        /\ handed \subseteq Token /\ dropped \subseteq Token
    <2>1. TypeOK /\ DataTypes /\ ProcTypes
      BY Halves DEF IInv
    <2>2. proc[r] \in Locals
      BY <2>1, Names DEF ProcTypes
    <2> QED
      BY <2>1, <2>2 DEF DataTypes, Locals
  <1>4. x.tokens = new
    BY <1>3 DEF Locals
  <1>5. \A t \in new : IsLine(t, gen)
    BY DEF StopInv, LinesOnly
  <1> HIDE DEF x, new
  <1>6. proc'[r] = x /\ \A q \in Procs : q # r => proc'[q] = proc[q]
    BY <1>1, <1>3, Moved, Names
  <1>7. LinesOnly'
    <2>1. \A t \in handed' \cup dropped' : IsLine(t, gen)
      BY <1>2, <1>5 DEF StopInv, LinesOnly
    <2>2. \A q \in Readers : \A t \in proc'[q].tokens : IsLine(t, gen)
      BY <1>4, <1>5, <1>6, Names DEF StopInv, LinesOnly
    <2> QED
      BY <1>1, <2>1, <2>2 DEF LinesOnly
  <1>8. Stopping'
    BY <1>1, <1>6, Names DEF StopInv, Stopping
  <1>9. LeftForAReason'
    <2> SUFFICES ASSUME gen = 0, proc["stop"].phase \in {"sending", "close"},
                        NEW t \in buffer' \ repeated', Last(t) <= savedOffset
                 PROVE  LeftBehind(t)'
      BY <1>1, <1>6, Names DEF LeftForAReason
    <2>1. CASE t \in buffer
      <3>1. LeftBehind(t)
        BY <1>2, <2>1 DEF StopInv, LeftForAReason
      <3> QED
        BY <1>1, <1>2, <3>1 DEF LeftBehind
    <2>2. CASE t \notin buffer
      <3>1. t \in new /\ (\A u \in handed : ~Overlap(t, u)) /\ t \in Token /\ IsLine(t, 0)
        BY <1>2, <1>3, <1>5, <2>2
      <3>2. SeenTo(Added, savedOffset)
        BY DEF IInv, OffsetsSeen
      <3>3. \A u \in Added : IsLine(u, 0) /\ u \in Token
        BY <1>3 DEF Added, StopInv, LinesOnly
      <3>4. \/ \E u \in Added : Overlap(t, u)
            \/ \E u \in Added : t.bytes = {Last(u) + 1}
        BY <1>3, <3>1, <3>2, <3>3, LineBelowOffset
      <3> QED
        BY <1>2, <3>1, <3>4 DEF LeftBehind, Added
    <2> QED
      BY <2>1, <2>2
  <1> QED
    BY <1>7, <1>8, <1>9 DEF StopInv

(* A flush ends: what it could not send is known not to be sent.           *)
LEMMA FlushEndsStops ==
  ASSUME IInv, StopInv, NEW p \in Flushing, FlushEnds(p)
  PROVE  StopInv'
  <1> DEFINE x == At(IF p = "stop" THEN "close" ELSE "idle")
  <1>1. PICK sent \in SUBSET inflight[p] :
          /\ stored' = stored \cup sent
          /\ buffer' = buffer \cup (inflight[p] \ sent)
          /\ unsent' = IF cancelled THEN unsent \cup (inflight[p] \ sent) ELSE unsent
    BY DEF FlushEnds
  <1>2. /\ gen' = gen /\ cancelled' = cancelled /\ savedOffset' = savedOffset
        /\ handed' = handed /\ dropped' = dropped /\ repeated' = repeated
        /\ proc' = [proc EXCEPT ![p] = x] /\ proc[p].phase = "sending"
    BY DEF FlushEnds, file, offsets, books
  <1>3. x.tokens = {} /\ x.phase = IF p = "stop" THEN "close" ELSE "idle"
    BY DEF At
  <1> HIDE DEF x
  <1>4. proc'[p] = x /\ \A q \in Procs : q # p => proc'[q] = proc[q]
    BY <1>2, Moved, Names DEF IInv
  <1>5. LinesOnly'
    BY <1>2, <1>3, <1>4, Names DEF StopInv, LinesOnly
  <1>6. Stopping'
    BY <1>2, <1>3, <1>4, Names DEF StopInv, Stopping
  <1>7. LeftForAReason'
    <2> SUFFICES ASSUME gen = 0, proc'["stop"].phase \in {"sending", "close"},
                        NEW t \in buffer' \ repeated, Last(t) <= savedOffset
                 PROVE  LeftBehind(t)'
      BY <1>2 DEF LeftForAReason
    <2>1. proc["stop"].phase \in {"sending", "close"} /\ cancelled
      BY <1>2, <1>4, Names DEF StopInv, Stopping
    <2>2. CASE t \in buffer
      <3>1. LeftBehind(t)
        BY <2>1, <2>2 DEF StopInv, LeftForAReason
      <3> QED
        BY <1>1, <1>2, <3>1 DEF LeftBehind
    <2>3. CASE t \notin buffer
      BY <1>1, <2>1, <2>3 DEF LeftBehind
    <2> QED
      BY <2>2, <2>3
  <1> QED
    BY <1>5, <1>6, <1>7 DEF StopInv

(* A flush begins: the buffer is empty.                                    *)
LEMMA TakeStops ==
  ASSUME IInv, StopInv, Tick \/ FinalFlush
  PROVE  StopInv'
  <1>1. PICK p \in Flushing : proc' = [proc EXCEPT ![p] = At("sending")]
                              /\ (p = "stop" => proc["stop"].phase = "due")
    BY Names DEF Tick, FinalFlush
  <1>2. /\ gen' = gen /\ cancelled' = cancelled /\ savedOffset' = savedOffset
        /\ handed' = handed /\ dropped' = dropped /\ buffer' = {}
    BY DEF Tick, FinalFlush, Take, file, offsets, books
  <1>3. At("sending").tokens = {} /\ At("sending").phase = "sending"
    BY DEF At
  <1>4. proc'[p] = At("sending") /\ \A q \in Procs : q # p => proc'[q] = proc[q]
    BY <1>1, Moved, Names DEF IInv
  <1>5. LinesOnly'
    BY <1>2, <1>3, <1>4, Names DEF StopInv, LinesOnly
  <1>6. Stopping'
    BY <1>1, <1>2, <1>3, <1>4, Names DEF StopInv, Stopping
  <1>7. LeftForAReason'
    BY <1>2 DEF LeftForAReason
  <1> QED
    BY <1>5, <1>6, <1>7 DEF StopInv

(* Start, Stop, the end of the process and a new file leave nothing to say *)
(* of the buffer.                                                          *)
LEMMA LifeStops ==
  ASSUME IInv, StopInv, Start \/ Stop \/ Gone
  PROVE  StopInv'
  <1>1. gen' = gen /\ handed' = handed /\ dropped' = dropped
    BY DEF Start, Stop, Gone, file, books
  <1>2. \A phase : At(phase).tokens = {} /\ At(phase).phase = phase
    BY DEF At
  <1>3. CASE Start
    <2>1. /\ cancelled' = FALSE
          /\ proc' = [p \in Procs |-> At(IF p = "scan" THEN "due" ELSE "idle")]
      BY <1>3 DEF Start
    <2>2. proc'["stop"].phase = "idle" /\ \A r \in Readers : proc'[r].tokens = {}
      BY <1>2, <2>1, Names
    <2> QED
      BY <1>1, <2>1, <2>2 DEF StopInv, LinesOnly, Stopping, LeftForAReason
  <1>4. CASE Stop
    <2>1. /\ cancelled' = TRUE /\ proc["scan"].phase = "idle"
          /\ proc' = [proc EXCEPT !["stop"] = At("due")]
      BY <1>4 DEF Stop
    <2>2. proc'["stop"].phase = "due" /\ \A r \in Readers : proc'[r] = proc[r]
      <3> DEFINE x == At("due")
      <3>1. TypeOK /\ x.phase = "due" /\ proc' = [proc EXCEPT !["stop"] = x]
        BY <1>2, <2>1 DEF IInv
      <3> HIDE DEF x
      <3>2. proc'["stop"] = x /\ \A q \in Procs : q # "stop" => proc'[q] = proc[q]
        BY <3>1, Moved, Names
      <3> QED
        BY <3>1, <3>2, Names
    <2> QED
      BY <1>1, <2>1, <2>2, Names DEF StopInv, LinesOnly, Stopping, LeftForAReason
  <1>5. CASE Gone
    <2>1. cancelled' = FALSE /\ proc' = [p \in Procs |-> At("idle")]
      BY <1>5 DEF Gone
    <2>2. proc'["stop"].phase = "idle" /\ \A r \in Readers : proc'[r].tokens = {}
      BY <1>2, <2>1, Names
    <2> QED
      BY <1>1, <2>1, <2>2 DEF StopInv, LinesOnly, Stopping, LeftForAReason
  <1> QED
    BY <1>3, <1>4, <1>5

LEMMA ReplaceStops ==
  ASSUME IInv, StopInv, Replace
  PROVE  StopInv'
  <1>1. /\ gen' = gen + 1 /\ gen \in Nat /\ proc' = proc /\ cancelled' = cancelled
        /\ handed' = handed /\ dropped' = dropped
    BY DEF Replace, IInv, TypeOK, books
  <1>2. LinesOnly'
    <2>1. \A t \in handed \cup dropped : t \in Token
      BY DEF IInv, TypeOK
    <2>2. \A r \in Readers : \A t \in proc[r].tokens : t \in Token
      BY Names DEF IInv, TypeOK, Locals
    <2>3. \A t \in Token : IsLine(t, gen) => IsLine(t, gen + 1)
      BY <1>1 DEF IsLine, Token
    <2> QED
      BY <1>1, <2>1, <2>2, <2>3 DEF StopInv, LinesOnly
  <1>3. Stopping'
    BY <1>1 DEF StopInv, Stopping
  <1>4. LeftForAReason'
    BY <1>1 DEF LeftForAReason
  <1> QED
    BY <1>2, <1>3, <1>4 DEF StopInv

LEMMA StopInitially == Init => StopInv
  <1> SUFFICES ASSUME Init PROVE StopInv
    OBVIOUS
  <1>1. \A p \in Procs : proc[p].tokens = {} /\ proc[p].phase = "idle"
    BY DEF Init, At
  <1> QED
    BY <1>1, Names DEF Init, StopInv, LinesOnly, Stopping, LeftForAReason

LEMMA StopConsecution == IInv /\ StopInv /\ [Next]_vars => StopInv'
  <1> SUFFICES ASSUME IInv, StopInv, [Next]_vars PROVE StopInv'
    OBVIOUS
  <1>1. CASE MakeDir \/ (\E n \in Cuts : Write(n)) \/ ApplyTargets \/ (\E on \in BOOLEAN : WalkTargets(on))
             \/ UNCHANGED vars
    <2>1. /\ proc' = proc /\ gen' = gen /\ cancelled' = cancelled /\ savedOffset' = savedOffset
          /\ buffer' = buffer /\ stored' = stored /\ unsent' = unsent
          /\ handed' = handed /\ dropped' = dropped /\ repeated' = repeated
      BY <1>1 DEF MakeDir, Write, ApplyTargets, WalkTargets, vars, file, offsets, queues, books
    <2> QED
      BY <2>1, StillStop
  <1>2. CASE Replace
    BY <1>2, ReplaceStops
  <1>3. CASE Start \/ Stop \/ Exit \/ Crash
    BY <1>3, LifeStops DEF Exit, Crash
  <1>4. CASE FinalFlush \/ Tick
    BY <1>4, TakeStops
  <1>5. CASE HandleWrite \/ HandleDirectoryCreate \/ AddWatchForClaudeSubdir \/ ScanSkips \/ ScanReads
    BY <1>5, BeginStops
  <1>6. ASSUME NEW r \in Readers, ReaderStep(r) PROVE StopInv'
    BY <1>6, ReaderStops, AddLinesStops DEF ReaderStep
  <1>7. ASSUME NEW p \in Flushing, FlushEnds(p) PROVE StopInv'
    BY <1>7, FlushEndsStops
  <1> QED
    BY <1>1, <1>2, <1>3, <1>4, <1>5, <1>6, <1>7 DEF Next, LoopStep

(* A daemon that stops in order: whatever it leaves in the buffer below    *)
(* the offset that the next start loads could not be sent, was read        *)
(* before, or is the byte behind a line that was read half written.        *)
THEOREM StopsInOrder == Spec => OrderlyStop
  <1> DEFINE Orderly == Exit /\ gen = 0 => \A t \in buffer \ repeated : Last(t) <= savedOffset =>
               \/ t \in stored \cup unsent
               \/ \E d \in dropped : Overlap(t, d)
               \/ \E u \in handed \cup dropped : t.bytes = {Last(u) + 1}
  <1>1. Spec => []StopInv
    BY StopInitially, StopConsecution, Invariant, PTL DEF Spec
  <1>2. StopInv => Orderly
    BY DEF StopInv, LeftForAReason, LeftBehind, Exit
  <1> HIDE DEF Orderly
  <1>3. Spec => [][Orderly]_vars
    BY <1>1, <1>2, PTL
  <1> QED
    BY <1>3 DEF OrderlyStop, Orderly
=============================================================================
