--------------------------- MODULE LogFlushProofs ---------------------------
(***************************************************************************)
(* What holds of LogFlush for all projects, goroutines, providers and      *)
(* batch sizes, and any number of lines: types, one owner per line, no     *)
(* resend of an acknowledged line, nothing lost but what the server turned *)
(* down, no line under a wrong project; where Flush has one caller, the    *)
(* reading order; and that LogFlush implements LogDelivery.                *)
(***************************************************************************)
EXTENDS LogFlush, SequenceTheorems, TLAPS

-----------------------------------------------------------------------------
(* Queues of lines.                                                        *)

(* Prefix and Drop split a queue at n.                                     *)
LEMMA Split ==
  ASSUME NEW s \in Seq(Nat), NEW n \in 0 .. Len(s)
  PROVE  /\ Prefix(s, n) \in Seq(Nat)
         /\ Len(Prefix(s, n)) = n
         /\ \A i \in 1 .. n : Prefix(s, n)[i] = s[i]
         /\ Drop(s, n) \in Seq(Nat)
         /\ Len(Drop(s, n)) = Len(s) - n
         /\ \A i \in 1 .. Len(s) - n : Drop(s, n)[i] = s[n + i]
  <1>1. \A i \in 1 .. n : s[i] \in Nat
    BY ElementOfSeq
  <1>2. \A i \in n + 1 .. Len(s) : s[i] \in Nat
    BY ElementOfSeq
  <1>3. /\ Prefix(s, n) \in Seq(Nat)
        /\ Len(Prefix(s, n)) = n
        /\ \A i \in 1 .. n : Prefix(s, n)[i] = s[i]
    BY <1>1, SubSeqProperties DEF Prefix
  <1>4. /\ Drop(s, n) \in Seq(Nat)
        /\ Len(Drop(s, n)) = Len(s) - n
        /\ \A i \in 1 .. Len(s) - n : Drop(s, n)[i] = s[n + i]
    <2>1. Len(s) \in Nat
      OBVIOUS
    <2>2. /\ Drop(s, n) \in Seq(Nat)
          /\ Len(Drop(s, n)) = IF n + 1 <= Len(s) THEN Len(s) - (n + 1) + 1 ELSE 0
          /\ \A i \in 1 .. Len(s) - (n + 1) + 1 : Drop(s, n)[i] = s[(n + 1) + i - 1]
      BY <1>2, <2>1, SubSeqProperties DEF Drop
    <2>3. Len(s) - (n + 1) + 1 = Len(s) - n
      BY <2>1
    <2>4. Len(Drop(s, n)) = Len(s) - n
      BY <2>1, <2>2
    <2>5. ASSUME NEW i \in 1 .. Len(s) - n
          PROVE  Drop(s, n)[i] = s[n + i]
      <3>1. (n + 1) + i - 1 = n + i
        BY <2>1
      <3>2. Drop(s, n)[i] = s[(n + 1) + i - 1]
        BY <2>2, <2>3
      <3> QED
        BY <3>1, <3>2
    <2> QED
      BY <2>2, <2>4, <2>5
  <1> QED
    BY <1>3, <1>4

(* The elements of the two parts are those of the queue.                   *)
LEMMA SplitElems ==
  ASSUME NEW s \in Seq(Nat), NEW n \in 0 .. Len(s)
  PROVE  Elems(s) = Elems(Prefix(s, n)) \cup Elems(Drop(s, n))
  <1> DEFINE a == Prefix(s, n)
             b == Drop(s, n)
  <1>1. /\ DOMAIN s = 1 .. Len(s) /\ DOMAIN a = 1 .. n /\ DOMAIN b = 1 .. Len(s) - n
        /\ \A i \in 1 .. n : a[i] = s[i]
        /\ \A i \in 1 .. Len(s) - n : b[i] = s[n + i]
        /\ Len(s) \in Nat
    BY Split
  <1>2. \A i \in DOMAIN s : s[i] \in Elems(a) \cup Elems(b)
    <2> TAKE i \in DOMAIN s
    <2>1. CASE i <= n
      BY <1>1, <2>1 DEF Elems
    <2>2. CASE ~(i <= n)
      <3>1. i - n \in 1 .. Len(s) - n /\ n + (i - n) = i
        BY <1>1, <2>2
      <3>2. b[i - n] = s[n + (i - n)]
        BY <1>1, <3>1
      <3>3. i - n \in DOMAIN b /\ b[i - n] = s[i]
        BY <1>1, <3>1, <3>2
      <3> QED
        BY <3>3 DEF Elems
    <2> QED
      BY <2>1, <2>2
  <1>3. \A i \in DOMAIN a : a[i] \in Elems(s)
    BY <1>1 DEF Elems
  <1>4. \A i \in DOMAIN b : b[i] \in Elems(s)
    <2> TAKE i \in DOMAIN b
    <2>1. n + i \in DOMAIN s /\ s[n + i] = b[i]
      BY <1>1
    <2> QED
      BY <2>1 DEF Elems
  <1> QED
    BY <1>2, <1>3, <1>4 DEF Elems

(* A concatenation holds the elements of both queues.                      *)
LEMMA ConcatElems ==
  ASSUME NEW s \in Seq(Nat), NEW t \in Seq(Nat)
  PROVE  Elems(s \o t) = Elems(s) \cup Elems(t)
  <1> DEFINE u == s \o t
  <1>1. /\ DOMAIN s = 1 .. Len(s) /\ DOMAIN t = 1 .. Len(t)
        /\ DOMAIN u = 1 .. Len(s) + Len(t)
        /\ \A i \in 1 .. Len(s) + Len(t) : u[i] = IF i <= Len(s) THEN s[i] ELSE t[i - Len(s)]
        /\ Len(s) \in Nat /\ Len(t) \in Nat
    BY ConcatProperties
  <1> HIDE DEF u
  <1>2. \A i \in DOMAIN u : u[i] \in Elems(s) \cup Elems(t)
    <2> TAKE i \in DOMAIN u
    <2>1. CASE i <= Len(s)
      BY <1>1, <2>1 DEF Elems
    <2>2. CASE ~(i <= Len(s))
      <3>1. i - Len(s) \in DOMAIN t /\ u[i] = t[i - Len(s)]
        BY <1>1, <2>2
      <3> QED
        BY <3>1 DEF Elems
    <2> QED
      BY <2>1, <2>2
  <1>3. \A i \in DOMAIN s : s[i] \in Elems(u)
    <2> TAKE i \in DOMAIN s
    <2>1. i \in DOMAIN u /\ u[i] = s[i]
      BY <1>1
    <2> QED
      BY <2>1 DEF Elems
  <1>4. \A i \in DOMAIN t : t[i] \in Elems(u)
    <2> TAKE i \in DOMAIN t
    <2>1. Len(s) + i \in 1 .. Len(s) + Len(t) /\ ~(Len(s) + i <= Len(s)) /\ (Len(s) + i) - Len(s) = i
      BY <1>1
    <2>2. u[Len(s) + i] = t[(Len(s) + i) - Len(s)]
      BY <1>1, <2>1
    <2>3. Len(s) + i \in DOMAIN u /\ u[Len(s) + i] = t[i]
      BY <1>1, <2>1, <2>2
    <2> QED
      BY <2>3 DEF Elems
  <1>5. Elems(u) = Elems(s) \cup Elems(t)
    BY <1>2, <1>3, <1>4 DEF Elems
  <1> QED
    BY <1>5 DEF u
-----------------------------------------------------------------------------
(* Types, and the shape of a goroutine's work.                             *)

Shape == TypeOK /\ BatchIsFront

(* A goroutine between two projects has well-typed locals.                 *)
LEMMA RestingType ==
  ASSUME NEW phase \in Phases
  PROVE  Resting(phase) \in Work /\ Resting(phase).phase = phase
  BY BatchSizeAssumption DEF Resting, Work

(* The batch built for the remaining lines is a non-empty front of them.   *)
LEMMA SendingShape ==
  ASSUME NEW p \in Projects, NEW rest \in Seq(Nat), rest # <<>>,
         NEW size \in 1 .. MaxBatchSize
  PROVE  LET w == Sending(p, rest, size) IN
           /\ w \in Work
           /\ w.phase = "sending" /\ w.project = p /\ w.size = size
           /\ w.batch # <<>>
           /\ w.want \in Len(w.batch) .. Len(rest)
           /\ \A i \in DOMAIN w.batch : w.batch[i] = rest[i]
  <1> DEFINE n == Smaller(size, Len(rest))
             b == Prefix(rest, n)
  <1>1. Len(rest) \in Nat \ {0} /\ size \in Nat
    BY EmptySeq, BatchSizeAssumption
  <1>2. n \in 1 .. Len(rest) /\ n \in 0 .. Len(rest)
    BY <1>1 DEF Smaller
  <1>5. Sending(p, rest, size) =
          [phase |-> "sending", project |-> p, size |-> size, want |-> Len(b),
           batch |-> b, org |-> p \in orgKnown]
    BY DEF Sending, NextBatch
  <1> HIDE DEF n
  <1>3. b \in Seq(Nat) /\ Len(b) = n /\ \A i \in 1 .. n : b[i] = rest[i]
    BY <1>2, Split
  <1> HIDE DEF b
  <1>4. b # <<>> /\ DOMAIN b = 1 .. n
    BY <1>2, <1>3
  <1>6. Sending(p, rest, size) \in Work
    BY <1>1, <1>2, <1>3, <1>5 DEF Work, Phases
  <1> QED
    BY <1>2, <1>3, <1>4, <1>5, <1>6

OwnedType == owned \in [Flushers -> [Projects -> Entry]]
WorkType == work \in [Flushers -> Work]

(* What BatchIsFront says of one goroutine, for given locals and entries.  *)
Front(w, mine) ==
  /\ w.phase \in {"idle", "scan"} => \A p \in Projects : mine[p].lines = <<>>
  /\ w.phase = "sending" =>
       /\ w.project \in Projects
       /\ w.size \in 1 .. MaxBatchSize
       /\ w.batch # <<>>
       /\ w.want \in Len(w.batch) .. Len(mine[w.project].lines)
       /\ \A i \in DOMAIN w.batch : w.batch[i] = mine[w.project].lines[i]

LEMMA FrontOfAll == BatchIsFront <=> \A f \in Flushers : Front(work[f], owned[f])
  BY DEF BatchIsFront, Front

(* A step that changes one goroutine only keeps the shape of the others.   *)
LEMMA OneGoroutine ==
  ASSUME OwnedType, WorkType, BatchIsFront, NEW f \in Flushers,
         NEW w \in Work, NEW mine \in [Projects -> Entry], Front(w, mine),
         work' = [work EXCEPT ![f] = w], owned' = [owned EXCEPT ![f] = mine]
  PROVE  OwnedType' /\ WorkType' /\ BatchIsFront'
  <1>1. OwnedType' /\ WorkType'
    BY DEF OwnedType, WorkType
  <1>2. ASSUME NEW g \in Flushers PROVE Front(work'[g], owned'[g])
    <2>1. CASE g = f
      BY <2>1 DEF OwnedType, WorkType
    <2>2. CASE g # f
      <3>1. work'[g] = work[g] /\ owned'[g] = owned[g]
        BY <2>2 DEF OwnedType, WorkType
      <3> QED
        BY <3>1, FrontOfAll
    <2> QED
      BY <2>1, <2>2
  <1>3. BatchIsFront'
    BY <1>2 DEF BatchIsFront, Front
  <1> QED
    BY <1>1, <1>3

(* The loop of flushProjectLines keeps the shape.                          *)
LEMMA ContinueShape ==
  ASSUME OwnedType, WorkType, BatchIsFront, NEW f \in Flushers,
         work[f].phase = "sending",
         NEW rest \in Seq(Nat), NEW size \in 1 .. MaxBatchSize,
         Continue(f, rest, size)
  PROVE  OwnedType' /\ WorkType' /\ BatchIsFront'
  <1> DEFINE p == work[f].project
  <1>0. p \in Projects
    BY DEF BatchIsFront
  <1> HIDE DEF p
  <1>1. CASE rest = <<>>
    <2> DEFINE mine == [owned[f] EXCEPT ![p] = Absent]
    <2>1. work' = [work EXCEPT ![f] = Resting("pick")] /\ owned' = [owned EXCEPT ![f] = mine]
      BY <1>1 DEF Continue, p
    <2>2. mine \in [Projects -> Entry]
      BY <1>0, EmptySeq DEF OwnedType, Entry, Absent
    <2>3. Resting("pick") \in Work /\ Resting("pick").phase = "pick"
      BY RestingType DEF Phases
    <2>4. Front(Resting("pick"), mine)
      BY <2>3 DEF Front
    <2> HIDE DEF mine
    <2> QED
      BY <2>1, <2>2, <2>3, <2>4, OneGoroutine
  <1>2. CASE rest # <<>>
    <2> DEFINE mine == [owned[f] EXCEPT ![p].lines = rest]
               w == Sending(p, rest, size)
    <2>1. work' = [work EXCEPT ![f] = w] /\ owned' = [owned EXCEPT ![f] = mine]
      BY <1>2 DEF Continue, p
    <2>2. mine \in [Projects -> Entry] /\ mine[p].lines = rest
      <3> DEFINE e == [owned[f][p] EXCEPT !.lines = rest]
      <3>1. owned[f] \in [Projects -> Entry] /\ owned[f][p] \in Entry
        BY <1>0 DEF OwnedType
      <3>2. e \in Entry /\ e.lines = rest
        BY <3>1 DEF Entry
      <3>3. mine = [owned[f] EXCEPT ![p] = e]
        OBVIOUS
      <3> HIDE DEF e, mine
      <3> QED
        BY <1>0, <3>1, <3>2, <3>3
    <2> HIDE DEF mine
    <2>3. /\ w \in Work
          /\ w.phase = "sending" /\ w.project = p /\ w.size = size
          /\ w.batch # <<>>
          /\ w.want \in Len(w.batch) .. Len(rest)
          /\ \A i \in DOMAIN w.batch : w.batch[i] = rest[i]
      BY <1>0, <1>2, SendingShape
    <2> HIDE DEF w
    <2>4. Front(w, mine)
      BY <1>0, <2>2, <2>3 DEF Front
    <2> QED
      BY <2>1, <2>2, <2>3, <2>4, OneGoroutine
  <1> QED
    BY <1>1, <1>2

(* AfterSuccess drops no more lines than remain and keeps a legal size.    *)
LEMMA SuccessShape ==
  ASSUME OwnedType, WorkType, BatchIsFront, NEW f \in Flushers,
         work[f].phase = "sending", AfterSuccess(f)
  PROVE  OwnedType' /\ WorkType' /\ BatchIsFront'
  <1> DEFINE lines == owned[f][work[f].project].lines
             want == work[f].want
             size == Smaller(2 * work[f].size, MaxBatchSize)
  <1>1. /\ work[f].project \in Projects
        /\ work[f].size \in 1 .. MaxBatchSize
        /\ want \in Len(work[f].batch) .. Len(lines)
    BY DEF BatchIsFront
  <1>2. lines \in Seq(Nat) /\ work[f].batch \in Seq(Nat) /\ want \in Nat
    BY <1>1 DEF OwnedType, WorkType, Entry, Work
  <1>3. want \in 0 .. Len(lines)
    BY <1>1, <1>2
  <1>4. size \in 1 .. MaxBatchSize
    BY <1>1, BatchSizeAssumption DEF Smaller
  <1>5. Continue(f, Drop(lines, want), size)
    BY DEF AfterSuccess
  <1> HIDE DEF lines, want, size
  <1>6. Drop(lines, want) \in Seq(Nat)
    BY <1>2, <1>3, Split
  <1> QED
    BY <1>4, <1>5, <1>6, ContinueShape

(* A 413 keeps the batch a non-empty front.                                *)
LEMMA TooLargeShape ==
  ASSUME OwnedType, WorkType, BatchIsFront, NEW f \in Flushers, SendTooLarge(f)
  PROVE  OwnedType' /\ WorkType' /\ BatchIsFront'
  <1> DEFINE lines == owned[f][work[f].project].lines
             w == work[f]
             half == IF w.size \div 2 < 1 THEN 1 ELSE w.size \div 2
  <1>1. /\ w.phase = "sending"
        /\ w.project \in Projects
        /\ w.size \in 1 .. MaxBatchSize
        /\ w.want \in Len(w.batch) .. Len(lines)
        /\ w.batch # <<>>
        /\ \A i \in DOMAIN w.batch : w.batch[i] = lines[i]
    BY DEF BatchIsFront, SendTooLarge
  <1>2. lines \in Seq(Nat) /\ w \in Work /\ w.batch \in Seq(Nat) /\ w.want \in Nat
    BY <1>1 DEF OwnedType, WorkType, Entry, Work
  <1>3. /\ half = w.size => Continue(f, Drop(lines, 1), MaxBatchSize)
        /\ half # w.size =>
             /\ work' = [work EXCEPT ![f].size = half,
                           ![f].batch = Prefix(@, Smaller(half, Len(@)))]
             /\ owned' = owned
    BY DEF SendTooLarge
  <1>4. half \in 1 .. w.size /\ half \in 1 .. MaxBatchSize /\ half \in Nat
    BY <1>1, BatchSizeAssumption
  <1> DEFINE v(n) == [w EXCEPT !.size = half, !.batch = Prefix(w.batch, n)]
  <1>5. half # w.size =>
             /\ work' = [work EXCEPT ![f] = v(Smaller(half, Len(w.batch)))]
             /\ owned' = [owned EXCEPT ![f] = owned[f]]
    BY <1>3 DEF OwnedType
  <1> HIDE DEF lines, w, half
  <1>8. Len(w.batch) \in Nat \ {0} /\ DOMAIN w.batch = 1 .. Len(w.batch) /\ Len(lines) \in Nat
    BY <1>1, <1>2, EmptySeq
  <1>6. CASE half = w.size
    <2>1. 1 \in 0 .. Len(lines) /\ MaxBatchSize \in 1 .. MaxBatchSize
      BY <1>1, <1>2, <1>8, BatchSizeAssumption
    <2>2. Drop(lines, 1) \in Seq(Nat)
      BY <1>2, <2>1, Split
    <2> QED
      BY <1>1, <1>3, <1>6, <2>1, <2>2, ContinueShape DEF w
  <1>7. CASE half # w.size
    <2> DEFINE n == Smaller(half, Len(w.batch))
               b == Prefix(w.batch, n)
               u == v(n)
    <2>1. work' = [work EXCEPT ![f] = u] /\ owned' = [owned EXCEPT ![f] = owned[f]]
      BY <1>5, <1>7
    <2>2. n \in 1 .. Len(w.batch) /\ n \in 0 .. Len(w.batch)
      BY <1>8, <1>4 DEF Smaller
    <2> HIDE DEF n
    <2>3. b \in Seq(Nat) /\ Len(b) = n /\ \A i \in 1 .. n : b[i] = w.batch[i]
      BY <1>2, <2>2, Split
    <2>4. u = [w EXCEPT !.size = half, !.batch = b]
      OBVIOUS
    <2> HIDE DEF b, u, v
    <2>5. b # <<>> /\ DOMAIN b = 1 .. n /\ n \in Nat
      BY <2>2, <2>3
    <2>6. /\ u \in Work /\ u.phase = "sending" /\ u.project = w.project /\ u.size = half
          /\ u.batch = b /\ u.want = w.want
      BY <1>1, <1>2, <1>4, <2>3, <2>4 DEF Work
    <2>7. \A i \in DOMAIN b : b[i] = lines[i]
      BY <1>1, <1>8, <2>2, <2>3, <2>5
    <2>8. u.want \in Len(b) .. Len(lines)
      BY <1>1, <1>2, <1>8, <2>2, <2>3, <2>6
    <2>9. Front(u, owned[f])
      BY <1>1, <1>4, <2>5, <2>6, <2>7, <2>8 DEF Front, lines, w
    <2>10. owned[f] \in [Projects -> Entry]
      BY DEF OwnedType
    <2> QED
      BY <2>1, <2>6, <2>9, <2>10, OneGoroutine
  <1> QED
    BY <1>6, <1>7

(* After an error the goroutine owns nothing of the project, and the       *)
(* buffer's entry is well-typed.                                           *)
LEMMA ReturnShape ==
  ASSUME OwnedType, WorkType, BatchIsFront, buffer \in [Projects -> Entry],
         NEW f \in Flushers, work[f].phase = "sending", ReturnLinesToBuffer(f)
  PROVE  OwnedType' /\ WorkType' /\ BatchIsFront' /\ buffer' \in [Projects -> Entry]
  <1> DEFINE p == work[f].project
             mine == [owned[f] EXCEPT ![p] = Absent]
             e == [provider |-> IF buffer[p].provider = NoProvider
                                  THEN owned[f][p].provider ELSE buffer[p].provider,
                   lines    |-> owned[f][p].lines \o buffer[p].lines]
  <1>1. p \in Projects
    BY DEF BatchIsFront
  <1>2. /\ buffer' = [buffer EXCEPT ![p] = e]
        /\ owned' = [owned EXCEPT ![f] = mine]
        /\ work' = [work EXCEPT ![f] = Resting("pick")]
    BY DEF ReturnLinesToBuffer
  <1> HIDE DEF p
  <1>3. buffer[p] \in Entry /\ owned[f][p] \in Entry
    BY <1>1 DEF OwnedType
  <1>4. owned[f][p].lines \in Seq(Nat) /\ buffer[p].lines \in Seq(Nat)
    BY <1>3 DEF Entry
  <1>5. owned[f][p].lines \o buffer[p].lines \in Seq(Nat)
    BY <1>4, ConcatProperties
  <1>6. e \in Entry
    BY <1>3, <1>5 DEF Entry
  <1>7. mine \in [Projects -> Entry]
    BY <1>1, EmptySeq DEF OwnedType, Entry, Absent
  <1>8. Resting("pick") \in Work /\ Resting("pick").phase = "pick"
    BY RestingType DEF Phases
  <1>9. Front(Resting("pick"), mine)
    BY <1>8 DEF Front
  <1> HIDE DEF mine, e
  <1>10. buffer' \in [Projects -> Entry]
    BY <1>1, <1>2, <1>6
  <1> QED
    BY <1>2, <1>7, <1>8, <1>9, <1>10, OneGoroutine

(* The lines of one read are new, distinct and numbered in order.          *)
LEMMA FreshLines ==
  ASSUME origin \in Seq(Origin), NEW n \in Nat
  PROVE  /\ Fresh(n) \in Seq(Nat)
         /\ Len(Fresh(n)) = n
         /\ DOMAIN Fresh(n) = 1 .. n
         /\ \A i \in 1 .. n : Fresh(n)[i] = Len(origin) + i
         /\ Elems(Fresh(n)) = Len(origin) + 1 .. Len(origin) + n
  <1>1. Len(origin) \in Nat
    OBVIOUS
  <1>2. Fresh(n) \in [1 .. n -> Nat]
    BY <1>1 DEF Fresh
  <1>3. Fresh(n) \in Seq(Nat) /\ Len(Fresh(n)) = n /\ DOMAIN Fresh(n) = 1 .. n
    BY <1>2
  <1>4. \A i \in 1 .. n : Fresh(n)[i] = Len(origin) + i
    BY DEF Fresh
  <1>5. \A m \in Len(origin) + 1 .. Len(origin) + n :
          m - Len(origin) \in 1 .. n /\ Len(origin) + (m - Len(origin)) = m
    BY <1>1
  <1>6. Elems(Fresh(n)) = Len(origin) + 1 .. Len(origin) + n
    <2>1. ASSUME NEW m \in Len(origin) + 1 .. Len(origin) + n PROVE m \in Elems(Fresh(n))
      <3>1. m - Len(origin) \in DOMAIN Fresh(n) /\ Fresh(n)[m - Len(origin)] = m
        BY <1>3, <1>4, <1>5
      <3> QED
        BY <3>1 DEF Elems
    <2>2. ASSUME NEW i \in DOMAIN Fresh(n)
          PROVE  Fresh(n)[i] \in Len(origin) + 1 .. Len(origin) + n
      BY <1>1, <1>3, <1>4
    <2> QED
      BY <2>1, <2>2 DEF Elems
  <1> QED
    BY <1>3, <1>4, <1>6

(* Reading n lines for p extends origin and one queue of the buffer.       *)
LEMMA BufferedType ==
  ASSUME origin \in Seq(Origin), buffer \in [Projects -> Entry],
         NEW p \in Projects, NEW v \in Providers, NEW n \in Nat, Buffered(p, v, n)
  PROVE  /\ origin' \in Seq(Origin)
         /\ Len(origin') = Len(origin) + n
         /\ \A i \in 1 .. Len(origin) : origin'[i] = origin[i]
         /\ \A i \in 1 .. n : origin'[Len(origin) + i].project = p
         /\ buffer' \in [Projects -> Entry]
         /\ buffer'[p].lines = buffer[p].lines \o Fresh(n)
         /\ \A q \in Projects : q # p => buffer'[q] = buffer[q]
  <1> DEFINE new == [i \in 1 .. n |-> [project |-> p, provider |-> v]]
             e == [provider |-> IF buffer[p].provider = NoProvider THEN v ELSE buffer[p].provider,
                   lines    |-> buffer[p].lines \o Fresh(n)]
  <1>1. origin' = origin \o new /\ buffer' = [buffer EXCEPT ![p] = e]
    BY DEF Buffered
  <1>2. new \in [1 .. n -> Origin]
    BY DEF Origin
  <1>3. new \in Seq(Origin) /\ Len(new) = n /\ \A i \in 1 .. n : new[i].project = p
    BY <1>2
  <1> HIDE DEF new
  <1>4. /\ origin \o new \in Seq(Origin)
        /\ Len(origin \o new) = Len(origin) + n
        /\ \A i \in 1 .. Len(origin) + n :
             (origin \o new)[i] = IF i <= Len(origin) THEN origin[i] ELSE new[i - Len(origin)]
    BY <1>3, ConcatProperties
  <1>5. Len(origin) \in Nat
    OBVIOUS
  <1>6. \A i \in 1 .. Len(origin) : origin'[i] = origin[i]
    BY <1>1, <1>4, <1>5
  <1>7. ASSUME NEW i \in 1 .. n PROVE origin'[Len(origin) + i].project = p
    <2>1. /\ Len(origin) + i \in 1 .. Len(origin) + n /\ ~(Len(origin) + i <= Len(origin))
          /\ (Len(origin) + i) - Len(origin) = i
      BY <1>5
    <2>2. origin'[Len(origin) + i] = new[i]
      BY <1>1, <1>4, <2>1
    <2> QED
      BY <1>3, <2>2
  <1>8. buffer[p] \in Entry /\ buffer[p].lines \in Seq(Nat) /\ Fresh(n) \in Seq(Nat)
    BY FreshLines DEF Entry
  <1>9. buffer[p].lines \o Fresh(n) \in Seq(Nat)
    BY <1>8, ConcatProperties
  <1>10. e \in Entry /\ e.lines = buffer[p].lines \o Fresh(n)
    BY <1>8, <1>9 DEF Entry
  <1> HIDE DEF e
  <1>11. /\ buffer' \in [Projects -> Entry]
         /\ buffer'[p].lines = buffer[p].lines \o Fresh(n)
         /\ \A q \in Projects : q # p => buffer'[q] = buffer[q]
    BY <1>1, <1>10
  <1> QED
    BY <1>1, <1>4, <1>6, <1>7, <1>11

StoredLine == [line : Nat, provider : Providers \cup {NoProvider}]

(* Storing a batch appends its lines, in order, to its project's log.      *)
LEMMA StoreType ==
  ASSUME OwnedType, WorkType, BatchIsFront, received \in [Projects -> Seq(StoredLine)],
         NEW f \in Flushers, work[f].phase = "sending", Store(f)
  PROVE  LET p == work[f].project
             old == received[p]
             new == received'[p]
             batch == work[f].batch
         IN /\ received' \in [Projects -> Seq(StoredLine)]
            /\ \A q \in Projects : q # p => received'[q] = received[q]
            /\ DOMAIN old = 1 .. Len(old) /\ Len(old) \in Nat
            /\ DOMAIN batch = 1 .. Len(batch) /\ Len(batch) \in Nat
            /\ DOMAIN new = 1 .. Len(old) + Len(batch)
            /\ \A i \in 1 .. Len(old) : new[i].line = old[i].line
            /\ \A i \in 1 .. Len(batch) : new[Len(old) + i].line = batch[i]
  <1> DEFINE p == work[f].project
             old == received[p]
             batch == work[f].batch
             added == [i \in 1 .. Len(batch) |-> [line |-> batch[i], provider |-> owned[f][p].provider]]
  <1>1. p \in Projects
    BY DEF BatchIsFront
  <1>2. batch \in Seq(Nat) /\ Len(batch) \in Nat /\ DOMAIN batch = 1 .. Len(batch)
    <2>1. work[f].batch \in Seq(Nat)
      BY DEF WorkType, Work
    <2> QED
      BY <2>1
  <1>3. received' = [received EXCEPT ![p] = old \o added]
    BY DEF Store
  <1>4. owned[f][p].provider \in Providers \cup {NoProvider}
    <2> HIDE DEF p
    <2> QED
      BY <1>1 DEF OwnedType, Entry
  <1> HIDE DEF p, batch
  <1>5. \A i \in 1 .. Len(batch) : batch[i] \in Nat
    BY <1>2, ElementOfSeq
  <1>6. added \in [1 .. Len(batch) -> StoredLine]
    BY <1>4, <1>5 DEF StoredLine
  <1>7. /\ added \in Seq(StoredLine) /\ Len(added) = Len(batch)
        /\ \A i \in 1 .. Len(batch) : added[i].line = batch[i]
    BY <1>2, <1>6
  <1>8. old \in Seq(StoredLine) /\ DOMAIN old = 1 .. Len(old) /\ Len(old) \in Nat
    BY <1>1
  <1> HIDE DEF added, old
  <1>9. /\ old \o added \in Seq(StoredLine)
        /\ Len(old \o added) = Len(old) + Len(batch)
        /\ \A i \in 1 .. Len(old) + Len(batch) :
             (old \o added)[i] = IF i <= Len(old) THEN old[i] ELSE added[i - Len(old)]
    <2>1. ASSUME NEW s \in Seq(StoredLine), NEW t \in Seq(StoredLine)
          PROVE  /\ s \o t \in Seq(StoredLine)
                 /\ Len(s \o t) = Len(s) + Len(t)
                 /\ \A i \in 1 .. Len(s) + Len(t) :
                      (s \o t)[i] = IF i <= Len(s) THEN s[i] ELSE t[i - Len(s)]
      BY ConcatProperties
    <2>2. old \in Seq(StoredLine) /\ added \in Seq(StoredLine)
      BY <1>7, <1>8
    <2>3. /\ old \o added \in Seq(StoredLine)
          /\ Len(old \o added) = Len(old) + Len(added)
          /\ \A i \in 1 .. Len(old) + Len(added) :
               (old \o added)[i] = IF i <= Len(old) THEN old[i] ELSE added[i - Len(old)]
      BY <2>1, <2>2
    <2>4. Len(added) = Len(batch)
      BY <1>7
    <2> QED
      BY <2>3, <2>4
  <1>10. \A i \in 1 .. Len(old) : (old \o added)[i].line = old[i].line
    BY <1>2, <1>8, <1>9
  <1>11. ASSUME NEW i \in 1 .. Len(batch) PROVE (old \o added)[Len(old) + i].line = batch[i]
    <2>1. /\ Len(old) + i \in 1 .. Len(old) + Len(batch) /\ ~(Len(old) + i <= Len(old))
          /\ (Len(old) + i) - Len(old) = i
      BY <1>2, <1>8
    <2>2. (old \o added)[Len(old) + i] = added[i]
      BY <1>9, <2>1
    <2> QED
      BY <1>7, <2>2
  <1>12. DOMAIN (old \o added) = 1 .. Len(old) + Len(batch)
    BY <1>9
  <1>13. received' \in [Projects -> Seq(StoredLine)] /\ received'[p] = old \o added
         /\ \A q \in Projects : q # p => received'[q] = received[q]
    BY <1>1, <1>3, <1>9
  <1> QED
    BY <1>2, <1>8, <1>10, <1>11, <1>12, <1>13 DEF p, old, batch

(* A goroutine that leaves its entries alone and does not send keeps them. *)
LEMMA WorkOnly ==
  ASSUME OwnedType, WorkType, BatchIsFront, NEW f \in Flushers,
         NEW w \in Work, Front(w, owned[f]),
         work' = [work EXCEPT ![f] = w], owned' = owned
  PROVE  OwnedType' /\ WorkType' /\ BatchIsFront'
  <1>1. owned' = [owned EXCEPT ![f] = owned[f]] /\ owned[f] \in [Projects -> Entry]
    BY DEF OwnedType
  <1> QED
    BY <1>1, OneGoroutine

RestType ==
  /\ origin \in Seq(Origin)
  /\ buffer \in [Projects -> Entry]
  /\ targets \in SUBSET Projects
  /\ orgKnown \in SUBSET Projects
  /\ received \in [Projects -> Seq(StoredLine)]
  /\ rejected \in SUBSET Nat
  /\ refused \in SUBSET Nat
  /\ doubtful \in SUBSET Nat
  /\ lostReplies \in Nat

LEMMA TypeParts == TypeOK <=> OwnedType /\ WorkType /\ RestType
  BY DEF TypeOK, OwnedType, WorkType, RestType, StoredLine

(* The elements of a batch are numbers.                                    *)
LEMMA BatchElems ==
  ASSUME WorkType, NEW f \in Flushers
  PROVE  Elems(work[f].batch) \subseteq Nat
  <1>1. work[f].batch \in Seq(Nat)
    BY DEF WorkType, Work
  <1> QED
    BY <1>1, ElementOfSeq DEF Elems

LEMMA ShapeInit == Init => Shape
  <1> SUFFICES ASSUME Init PROVE Shape
    OBVIOUS
  <1>1. Absent \in Entry
    BY EmptySeq DEF Absent, Entry
  <1>2. Resting("idle") \in Work /\ Resting("idle").phase = "idle"
    BY RestingType DEF Phases
  <1>3. OwnedType /\ WorkType
    BY <1>1, <1>2 DEF Init, OwnedType, WorkType
  <1>4. RestType
    BY <1>1, EmptySeq DEF Init, RestType
  <1>5. BatchIsFront
    BY <1>2 DEF Init, BatchIsFront, Absent
  <1> QED
    BY <1>3, <1>4, <1>5, TypeParts DEF Shape

LEMMA ShapeNext == Shape /\ [Next]_vars => Shape'
  <1> SUFFICES ASSUME Shape, [Next]_vars PROVE Shape'
    OBVIOUS
  <1> USE DEF Shape
  <1>0. OwnedType /\ WorkType /\ RestType /\ BatchIsFront
    BY TypeParts
  <1> DEFINE Good == OwnedType' /\ WorkType' /\ BatchIsFront' /\ RestType'
  <1>1. ASSUME NEW p \in Projects, NEW v \in Providers, NEW n \in 0 .. MaxRead,
               AddLinesForDir(p, v, n)
        PROVE  Good
    <2>1. origin' \in Seq(Origin) /\ buffer' \in [Projects -> Entry]
      BY <1>0, <1>1, BufferedType, BoundAssumption DEF AddLinesForDir, RestType
    <2> QED
      BY <1>0, <1>1, <2>1 DEF AddLinesForDir, RestType, OwnedType, WorkType, BatchIsFront
  <1>2. ASSUME NEW f \in Requests, NEW p \in Projects, NEW n \in 1 .. MaxRead,
               ScanFile(f, p, n)
        PROVE  Good
    <2> DEFINE w == [Resting("scan") EXCEPT !.project = p]
    <2>1. f \in Flushers /\ n \in Nat /\ Claude \in Providers
      BY ClaudeAssumption, BoundAssumption DEF Flushers
    <2>2. origin' \in Seq(Origin) /\ buffer' \in [Projects -> Entry]
      BY <1>0, <1>2, <2>1, BufferedType DEF ScanFile, RestType
    <2>3. w \in Work /\ w.phase = "scan"
      BY RestingType DEF Work, Phases
    <2>4. \A q \in Projects : owned[f][q].lines = <<>>
      BY <1>0, <1>2, <2>1 DEF ScanFile, BatchIsFront
    <2> HIDE DEF w
    <2>5. Front(w, owned[f])
      BY <2>3, <2>4 DEF Front
    <2>6. work' = [work EXCEPT ![f] = w] /\ owned' = owned
      BY <1>2 DEF ScanFile, w
    <2>7. OwnedType' /\ WorkType' /\ BatchIsFront'
      BY <1>0, <2>1, <2>3, <2>5, <2>6, WorkOnly
    <2> QED
      BY <1>0, <1>2, <2>2, <2>7 DEF ScanFile, RestType
  <1>3. ASSUME NEW S \in SUBSET Projects, UpdateTargets(S)
        PROVE  Good
    BY <1>0, <1>3 DEF UpdateTargets, RestType, OwnedType, WorkType, BatchIsFront
  <1>4. ASSUME NEW f \in Flushers, Flush(f)
        PROVE  Good
    <2>1. work[f].phase \in {"idle", "scan"} /\ \A p \in Projects : owned[f][p].lines = <<>>
      BY <1>0, <1>4 DEF Flush, BatchIsFront
    <2>2. CASE \A p \in Projects : buffer[p] = Absent
      <3>1. Resting("idle") \in Work /\ Resting("idle").phase = "idle"
        BY RestingType DEF Phases
      <3>2. Front(Resting("idle"), owned[f])
        BY <2>1, <3>1 DEF Front
      <3>3. work' = [work EXCEPT ![f] = Resting("idle")] /\ owned' = owned /\ buffer' = buffer
        BY <1>4, <2>2 DEF Flush
      <3>4. OwnedType' /\ WorkType' /\ BatchIsFront'
        BY <1>0, <3>1, <3>2, <3>3, WorkOnly
      <3> QED
        BY <1>0, <1>4, <3>3, <3>4 DEF Flush, RestType
    <2>3. CASE ~(\A p \in Projects : buffer[p] = Absent)
      <3>1. Resting("pick") \in Work /\ Resting("pick").phase = "pick"
        BY RestingType DEF Phases
      <3>2. Front(Resting("pick"), buffer)
        BY <3>1 DEF Front
      <3>3. /\ work' = [work EXCEPT ![f] = Resting("pick")]
            /\ owned' = [owned EXCEPT ![f] = buffer]
            /\ buffer' = [p \in Projects |-> Absent]
        BY <1>4, <2>3 DEF Flush
      <3>4. buffer \in [Projects -> Entry]
        BY <1>0 DEF RestType
      <3>5. OwnedType' /\ WorkType' /\ BatchIsFront'
        BY <1>0, <3>1, <3>2, <3>3, <3>4, OneGoroutine
      <3>6. buffer' \in [Projects -> Entry]
        BY <3>3, EmptySeq DEF Absent, Entry
      <3> QED
        BY <1>0, <1>4, <3>5, <3>6 DEF Flush, RestType
    <2> QED
      BY <2>2, <2>3
  <1>5. ASSUME NEW f \in Flushers, NEW p \in Projects, FlushProject(f, p)
        PROVE  Good
    <2> DEFINE rest == owned[f][p].lines
               w == Sending(p, rest, MaxBatchSize)
    <2>1. rest \in Seq(Nat) /\ rest # <<>> /\ MaxBatchSize \in 1 .. MaxBatchSize
      BY <1>0, <1>5, BatchSizeAssumption DEF FlushProject, OwnedType, Entry
    <2>2. work' = [work EXCEPT ![f] = w] /\ owned' = owned
      BY <1>5 DEF FlushProject
    <2> HIDE DEF rest
    <2>3. /\ w \in Work
          /\ w.phase = "sending" /\ w.project = p /\ w.size = MaxBatchSize
          /\ w.batch # <<>>
          /\ w.want \in Len(w.batch) .. Len(rest)
          /\ \A i \in DOMAIN w.batch : w.batch[i] = rest[i]
      BY <2>1, SendingShape
    <2> HIDE DEF w
    <2>4. Front(w, owned[f])
      BY <2>1, <2>3 DEF Front, rest
    <2>5. OwnedType' /\ WorkType' /\ BatchIsFront'
      BY <1>0, <2>2, <2>3, <2>4, WorkOnly
    <2> QED
      BY <1>0, <1>5, <2>5 DEF FlushProject, RestType
  <1>6. ASSUME NEW f \in Flushers, FlushDone(f)
        PROVE  Good
    <2> DEFINE none == [p \in Projects |-> Absent]
    <2>1. Resting("idle") \in Work /\ Resting("idle").phase = "idle"
      BY RestingType DEF Phases
    <2>2. none \in [Projects -> Entry] /\ \A p \in Projects : none[p].lines = <<>>
      BY EmptySeq DEF Absent, Entry
    <2>3. work' = [work EXCEPT ![f] = Resting("idle")] /\ owned' = [owned EXCEPT ![f] = none]
      BY <1>6 DEF FlushDone
    <2> HIDE DEF none
    <2>4. Front(Resting("idle"), none)
      BY <2>1, <2>2 DEF Front
    <2>5. OwnedType' /\ WorkType' /\ BatchIsFront'
      BY <1>0, <2>1, <2>2, <2>3, <2>4, OneGoroutine
    <2> QED
      BY <1>0, <1>6, <2>5 DEF FlushDone, RestType
  <1>7. ASSUME NEW f \in Flushers, SendOK(f)
        PROVE  Good
    <2>1. work[f].phase = "sending" /\ Store(f) /\ AfterSuccess(f)
      BY <1>7 DEF SendOK
    <2>2. OwnedType' /\ WorkType' /\ BatchIsFront'
      BY <1>0, <2>1, SuccessShape
    <2>3. received' \in [Projects -> Seq(StoredLine)]
      BY <1>0, <2>1, StoreType DEF RestType
    <2> QED
      BY <1>0, <1>7, <2>2, <2>3 DEF SendOK, RestType
  <1>8. ASSUME NEW f \in Flushers, SendRefused(f)
        PROVE  Good
    <2>1. OwnedType' /\ WorkType' /\ BatchIsFront'
      BY <1>0, <1>8, SuccessShape DEF SendRefused
    <2>2. Elems(work[f].batch) \subseteq Nat
      BY <1>0, BatchElems
    <2> QED
      BY <1>0, <1>8, <2>1, <2>2 DEF SendRefused, RestType
  <1>9. ASSUME NEW f \in Flushers, SendTooLarge(f)
        PROVE  Good
    <2>1. OwnedType' /\ WorkType' /\ BatchIsFront'
      BY <1>0, <1>9, TooLargeShape
    <2>2. Elems(work[f].batch) \subseteq Nat
      BY <1>0, BatchElems
    <2> QED
      BY <1>0, <1>9, <2>1, <2>2 DEF SendTooLarge, RestType
  <1>10. ASSUME NEW f \in Flushers, SendError(f)
         PROVE  Good
    <2>1. OwnedType' /\ WorkType' /\ BatchIsFront' /\ buffer' \in [Projects -> Entry]
      BY <1>0, <1>10, ReturnShape DEF SendError, RestType
    <2> QED
      BY <1>0, <1>10, <2>1 DEF SendError, RestType
  <1>11. ASSUME NEW f \in Flushers, SendReplyLost(f)
         PROVE  Good
    <2>1. work[f].phase = "sending" /\ Store(f) /\ ReturnLinesToBuffer(f)
      BY <1>11 DEF SendReplyLost
    <2>2. OwnedType' /\ WorkType' /\ BatchIsFront' /\ buffer' \in [Projects -> Entry]
      BY <1>0, <2>1, ReturnShape DEF RestType
    <2>3. received' \in [Projects -> Seq(StoredLine)]
      BY <1>0, <2>1, StoreType DEF RestType
    <2>4. lostReplies' \in Nat /\ doubtful' \in SUBSET Nat
      <3>1. Elems(work[f].batch) \subseteq Nat
        BY <1>0, BatchElems
      <3>2. lostReplies' = lostReplies + 1 /\ doubtful' = doubtful \cup Elems(work[f].batch)
        BY <1>11 DEF SendReplyLost
      <3>3. lostReplies \in Nat /\ doubtful \in SUBSET Nat
        BY <1>0 DEF RestType
      <3>4. lostReplies' \in Nat
        BY <3>2, <3>3
      <3>5. doubtful' \in SUBSET Nat
        BY <3>1, <3>2, <3>3
      <3> QED
        BY <3>4, <3>5
    <2>5. UNCHANGED <<origin, targets, orgKnown, rejected, refused>>
      BY <1>11 DEF SendReplyLost
    <2>6. RestType'
      BY <1>0, <2>2, <2>3, <2>4, <2>5 DEF RestType
    <2> QED
      BY <2>2, <2>6
  <1>12. ASSUME UNCHANGED vars
         PROVE  Good
    BY <1>0, <1>12 DEF vars, RestType, OwnedType, WorkType, BatchIsFront
  <1>13. Good
    BY <1>1, <1>2, <1>3, <1>4, <1>5, <1>6, <1>7, <1>8, <1>9, <1>10, <1>11, <1>12
       DEF Next, FlusherStep
  <1>14. TypeOK'
    BY <1>13 DEF TypeOK, OwnedType, WorkType, RestType, StoredLine
  <1> QED
    BY <1>13, <1>14

(* Every variable keeps its type and every goroutine its shape, whatever   *)
(* the interleaving of readers, flushers, replies and configurations.      *)
THEOREM TypeCorrect == Spec => [](TypeOK /\ BatchIsFront)
  <1>1. Init => Shape
    BY ShapeInit
  <1>2. Shape /\ [Next]_vars => Shape'
    BY ShapeNext
  <1>3. Spec => []Shape
    BY <1>1, <1>2, PTL DEF Spec
  <1> QED
    BY <1>3 DEF Shape
-----------------------------------------------------------------------------
(* How a step moves lines between the queues.                              *)

(* The queues of the goroutines and of the buffer, by their variables.     *)
LEMMA HeldDef ==
  /\ \A f \in Flushers, p \in Projects : Held(f, p) = owned[f][p].lines
  /\ \A p \in Projects : Held(Shared, p) = buffer[p].lines
  /\ Shared \in Holders
  /\ \A f \in Flushers : f \in Holders /\ f # Shared
  /\ \A h \in Holders : h \in Flushers \/ h = Shared
  BY SharedAssumption DEF Held, Holders

LEMMA HeldDefNext ==
  /\ \A f \in Flushers, p \in Projects : Held(f, p)' = owned'[f][p].lines
  /\ \A p \in Projects : Held(Shared, p)' = buffer'[p].lines
  BY SharedAssumption DEF Held, Holders

LEMMA HeldType ==
  ASSUME Shape, NEW h \in Holders, NEW p \in Projects
  PROVE  Held(h, p) \in Seq(Nat)
  <1>1. OwnedType /\ RestType
    BY TypeParts DEF Shape
  <1>2. CASE h = Shared
    BY <1>1, <1>2, HeldDef DEF RestType, Entry
  <1>3. CASE h \in Flushers
    BY <1>1, <1>3, HeldDef DEF OwnedType, Entry
  <1> QED
    BY <1>2, <1>3, HeldDef

(* All queues but those of h keep their lines.                             *)
OthersKeep(h, p) ==
  \A g \in Holders, q \in Projects : g # h \/ q # p => Held(g, q)' = Held(g, q)

Keep == \A g \in Holders, q \in Projects : Held(g, q)' = Held(g, q)

(* n new lines at the end of the buffer's queue of p.                      *)
Added(p, n) ==
  /\ Held(Shared, p)' = Held(Shared, p) \o Fresh(n)
  /\ OthersKeep(Shared, p)
  /\ Len(origin') = Len(origin) + n
  /\ \A i \in 1 .. Len(origin) : origin'[i] = origin[i]
  /\ \A i \in 1 .. n : origin'[Len(origin) + i].project = p

(* The whole buffer goes to a goroutine that owned nothing.                *)
Swapped(f) ==
  /\ \A q \in Projects : Held(f, q) = <<>> /\ Held(Shared, q)' = <<>>
  /\ \A q \in Projects : Held(f, q)' = Held(Shared, q)
  /\ \A g \in Holders \ {f, Shared}, q \in Projects : Held(g, q)' = Held(g, q)

(* The first k lines of a goroutine's queue leave it.                      *)
Removed(f, p, k) ==
  /\ k \in 0 .. Len(Held(f, p))
  /\ Held(f, p)' = Drop(Held(f, p), k)
  /\ OthersKeep(f, p)

(* A goroutine's queue goes back in front of the buffer's.                 *)
Returned(f, p) ==
  /\ Held(Shared, p)' = Held(f, p) \o Held(Shared, p)
  /\ Held(f, p)' = <<>>
  /\ \A g \in Holders, q \in Projects :
       q # p \/ g \notin {f, Shared} => Held(g, q)' = Held(g, q)

LEMMA BufferedMoves ==
  ASSUME Shape, NEW p \in Projects, NEW v \in Providers, NEW n \in Nat,
         Buffered(p, v, n), owned' = owned
  PROVE  Added(p, n)
  <1>1. origin \in Seq(Origin) /\ buffer \in [Projects -> Entry]
    BY TypeParts DEF Shape, RestType
  <1>2. /\ Len(origin') = Len(origin) + n
        /\ \A i \in 1 .. Len(origin) : origin'[i] = origin[i]
        /\ \A i \in 1 .. n : origin'[Len(origin) + i].project = p
        /\ buffer'[p].lines = buffer[p].lines \o Fresh(n)
        /\ \A q \in Projects : q # p => buffer'[q] = buffer[q]
    BY <1>1, BufferedType
  <1>3. Held(Shared, p)' = Held(Shared, p) \o Fresh(n)
    BY <1>2, HeldDef, HeldDefNext
  <1>4. OthersKeep(Shared, p)
    BY <1>2, HeldDef, HeldDefNext DEF OthersKeep
  <1> QED
    BY <1>2, <1>3, <1>4 DEF Added

LEMMA ContinueMoves ==
  ASSUME Shape, NEW f \in Flushers, NEW p \in Projects, work[f].project = p,
         NEW k \in 0 .. Len(Held(f, p)), NEW size,
         Continue(f, Drop(owned[f][p].lines, k), size),
         buffer' = buffer
  PROVE  Removed(f, p, k)
  <1> DEFINE rest == Drop(owned[f][p].lines, k)
  <1>1. p \in Projects /\ owned \in [Flushers -> [Projects -> Entry]]
    BY TypeParts DEF Shape, BatchIsFront, OwnedType
  <1>2. IF rest = <<>> THEN owned' = [owned EXCEPT ![f][p] = Absent]
                       ELSE owned' = [owned EXCEPT ![f][p].lines = rest]
    BY DEF Continue
  <1> HIDE DEF rest
  <1>3. /\ owned'[f][p].lines = rest
        /\ \A q \in Projects : q # p => owned'[f][q] = owned[f][q]
        /\ \A g \in Flushers : g # f => owned'[g] = owned[g]
    <2>1. CASE rest = <<>>
      BY <1>1, <1>2, <2>1 DEF Absent
    <2>2. CASE rest # <<>>
      <3> DEFINE e == [owned[f][p] EXCEPT !.lines = rest]
                 mine == [owned[f] EXCEPT ![p] = e]
      <3>1. owned' = [owned EXCEPT ![f] = mine]
        BY <1>2, <2>2
      <3>2. owned[f] \in [Projects -> Entry] /\ owned[f][p] \in Entry
        BY <1>1
      <3>3. e.lines = rest
        BY <3>2 DEF Entry
      <3> HIDE DEF e
      <3>4. mine[p] = e /\ \A q \in Projects : q # p => mine[q] = owned[f][q]
        BY <1>1, <3>2
      <3> HIDE DEF mine
      <3> QED
        BY <1>1, <3>1, <3>3, <3>4
    <2> QED
      BY <2>1, <2>2
  <1>4. Held(f, p)' = Drop(Held(f, p), k)
    BY <1>1, <1>3, HeldDef, HeldDefNext DEF rest
  <1>5. OthersKeep(f, p)
    BY <1>1, <1>3, HeldDef, HeldDefNext DEF OthersKeep
  <1> QED
    BY <1>4, <1>5 DEF Removed

LEMMA ReturnMoves ==
  ASSUME Shape, NEW f \in Flushers, NEW p \in Projects, work[f].project = p,
         ReturnLinesToBuffer(f)
  PROVE  Returned(f, p)
  <1>1. p \in Projects /\ OwnedType /\ buffer \in [Projects -> Entry]
    BY TypeParts DEF Shape, BatchIsFront, RestType
  <1>2. /\ buffer'[p].lines = owned[f][p].lines \o buffer[p].lines
        /\ \A q \in Projects : q # p => buffer'[q] = buffer[q]
    BY <1>1 DEF ReturnLinesToBuffer
  <1>3. /\ owned'[f][p].lines = <<>>
        /\ \A q \in Projects : q # p => owned'[f][q] = owned[f][q]
        /\ \A g \in Flushers : g # f => owned'[g] = owned[g]
    BY <1>1 DEF ReturnLinesToBuffer, OwnedType, Absent
  <1>4. Held(Shared, p)' = Held(f, p) \o Held(Shared, p)
    BY <1>1, <1>2, HeldDef, HeldDefNext
  <1>5. Held(f, p)' = <<>>
    BY <1>1, <1>3, HeldDef, HeldDefNext
  <1>6. \A g \in Holders, q \in Projects :
          q # p \/ g \notin {f, Shared} => Held(g, q)' = Held(g, q)
    BY <1>1, <1>2, <1>3, HeldDef, HeldDefNext
  <1> QED
    BY <1>4, <1>5, <1>6 DEF Returned

LEMMA FlushMoves ==
  ASSUME Shape, NEW f \in Flushers, Flush(f)
  PROVE  Keep \/ Swapped(f)
  <1>0. OwnedType /\ buffer \in [Projects -> Entry]
    BY TypeParts DEF Shape, RestType
  <1>1. CASE \A p \in Projects : buffer[p] = Absent
    <2>1. buffer' = buffer /\ owned' = owned
      BY <1>1 DEF Flush
    <2> QED
      BY <2>1 DEF Keep, Held
  <1>2. CASE ~(\A p \in Projects : buffer[p] = Absent)
    <2>1. owned' = [owned EXCEPT ![f] = buffer] /\ buffer' = [p \in Projects |-> Absent]
      BY <1>2 DEF Flush
    <2>2. \A q \in Projects : owned[f][q].lines = <<>>
      BY DEF Flush, BatchIsFront, Shape
    <2>3. \A q \in Projects : Held(f, q) = <<>> /\ Held(Shared, q)' = <<>>
      BY <2>1, <2>2, HeldDef, HeldDefNext DEF Absent
    <2>4. \A q \in Projects : Held(f, q)' = Held(Shared, q)
      BY <1>0, <2>1, HeldDef, HeldDefNext DEF OwnedType
    <2>5. \A g \in Holders \ {f, Shared}, q \in Projects : Held(g, q)' = Held(g, q)
      BY <1>0, <2>1, HeldDef, HeldDefNext DEF OwnedType
    <2> QED
      BY <2>3, <2>4, <2>5 DEF Swapped
  <1> QED
    BY <1>1, <1>2

LEMMA DoneMoves ==
  ASSUME Shape, NEW f \in Flushers, FlushDone(f)
  PROVE  Keep
  <1>0. OwnedType
    BY TypeParts DEF Shape
  <1>1. /\ \A p \in Projects : owned[f][p].lines = <<>>
        /\ owned' = [owned EXCEPT ![f] = [p \in Projects |-> Absent]] /\ buffer' = buffer
    BY DEF FlushDone
  <1>2. \A g \in Flushers, q \in Projects : owned'[g][q].lines = owned[g][q].lines
    BY <1>0, <1>1 DEF OwnedType, Absent
  <1> QED
    BY <1>1, <1>2, HeldDef, HeldDefNext DEF Keep
-----------------------------------------------------------------------------
(* One owner per line.                                                     *)

Inj(s) == \A i, j \in DOMAIN s : s[i] = s[j] => i = j

Distinct ==
  /\ \A h \in Holders, p \in Projects : Inj(Held(h, p))
  /\ \A h, g \in Holders, p, q \in Projects :
       h # g \/ p # q => Elems(Held(h, p)) \cap Elems(Held(g, q)) = {}

(* Held lines were read, for the project whose queue holds them.           *)
Known ==
  \A h \in Holders, p \in Projects : \A n \in Elems(Held(h, p)) :
    n \in Line /\ origin[n].project = p

LEMMA DistinctIsOwnedOnce == Distinct => OwnedOnce
  <1> SUFFICES ASSUME Distinct, NEW h \in Holders, NEW g \in Holders,
                      NEW p \in Projects, NEW q \in Projects,
                      NEW i \in DOMAIN Held(h, p), NEW j \in DOMAIN Held(g, q),
                      Held(h, p)[i] = Held(g, q)[j]
               PROVE  h = g /\ p = q /\ i = j
    BY DEF OwnedOnce
  <1>1. Held(h, p)[i] \in Elems(Held(h, p)) /\ Held(g, q)[j] \in Elems(Held(g, q))
    BY DEF Elems
  <1>2. h = g /\ p = q
    BY <1>1 DEF Distinct
  <1>3. Inj(Held(h, p))
    BY DEF Distinct
  <1> QED
    BY <1>2, <1>3 DEF Inj

LEMMA DropInj ==
  ASSUME NEW s \in Seq(Nat), Inj(s), NEW k \in 0 .. Len(s)
  PROVE  /\ Inj(Drop(s, k))
         /\ \A i \in 1 .. k : s[i] \notin Elems(Drop(s, k))
  <1> DEFINE d == Drop(s, k)
  <1>1. /\ Len(s) \in Nat /\ DOMAIN s = 1 .. Len(s) /\ DOMAIN d = 1 .. Len(s) - k
        /\ \A i \in 1 .. Len(s) - k : d[i] = s[k + i]
    <2>1. /\ d \in Seq(Nat)
          /\ Len(d) = Len(s) - k
          /\ \A i \in 1 .. Len(s) - k : d[i] = s[k + i]
      BY Split
    <2> HIDE DEF d
    <2>2. Len(s) \in Nat /\ DOMAIN s = 1 .. Len(s) /\ DOMAIN d = 1 .. Len(d)
      BY <2>1
    <2> QED
      BY <2>1, <2>2
  <1> HIDE DEF d
  <1>2. \A i \in DOMAIN d : k + i \in DOMAIN s
    BY <1>1
  <1>3. ASSUME NEW i \in DOMAIN d, NEW j \in DOMAIN d, d[i] = d[j] PROVE i = j
    <2>1. k + i = k + j
      BY <1>1, <1>2, <1>3 DEF Inj
    <2> QED
      BY <1>1, <2>1
  <1>4. ASSUME NEW i \in 1 .. k, NEW j \in DOMAIN d PROVE s[i] # d[j]
    <2>1. i \in DOMAIN s /\ k + j \in DOMAIN s /\ i # k + j
      BY <1>1
    <2> QED
      BY <1>1, <2>1 DEF Inj
  <1> QED
    BY <1>3, <1>4 DEF Inj, Elems, d

LEMMA ConcatInj ==
  ASSUME NEW s \in Seq(Nat), NEW t \in Seq(Nat), Inj(s), Inj(t),
         Elems(s) \cap Elems(t) = {}
  PROVE  Inj(s \o t)
  <1> DEFINE u == s \o t
  <1>1. /\ DOMAIN s = 1 .. Len(s) /\ DOMAIN t = 1 .. Len(t)
        /\ DOMAIN u = 1 .. Len(s) + Len(t)
        /\ \A i \in 1 .. Len(s) + Len(t) : u[i] = IF i <= Len(s) THEN s[i] ELSE t[i - Len(s)]
        /\ Len(s) \in Nat /\ Len(t) \in Nat
    BY ConcatProperties
  <1> HIDE DEF u
  <1>2. ASSUME NEW i \in DOMAIN u
        PROVE  \/ i \in DOMAIN s /\ u[i] = s[i]
               \/ i - Len(s) \in DOMAIN t /\ u[i] = t[i - Len(s)]
    <2>1. CASE i <= Len(s)
      BY <1>1, <2>1
    <2>2. CASE ~(i <= Len(s))
      BY <1>1, <2>2
    <2> QED
      BY <2>1, <2>2
  <1>3. ASSUME NEW i \in DOMAIN u, NEW j \in DOMAIN u, u[i] = u[j] PROVE i = j
    <2>1. CASE i \in DOMAIN s /\ u[i] = s[i] /\ j \in DOMAIN s /\ u[j] = s[j]
      BY <1>3, <2>1 DEF Inj
    <2>2. CASE i \in DOMAIN s /\ u[i] = s[i] /\ j - Len(s) \in DOMAIN t /\ u[j] = t[j - Len(s)]
      BY <1>3, <2>2 DEF Elems
    <2>3. CASE i - Len(s) \in DOMAIN t /\ u[i] = t[i - Len(s)] /\ j \in DOMAIN s /\ u[j] = s[j]
      BY <1>3, <2>3 DEF Elems
    <2>4. CASE i - Len(s) \in DOMAIN t /\ u[i] = t[i - Len(s)] /\ j - Len(s) \in DOMAIN t /\ u[j] = t[j - Len(s)]
      <3>1. i - Len(s) = j - Len(s)
        BY <1>3, <2>4 DEF Inj
      <3> QED
        BY <1>1, <3>1
    <2> QED
      BY <1>2, <2>1, <2>2, <2>3, <2>4
  <1> QED
    BY <1>3 DEF Inj, u

(* Removing lines.                                                         *)
LEMMA RemovedKeeps ==
  ASSUME Shape, Distinct, NEW f \in Flushers, NEW p \in Projects, NEW k, Removed(f, p, k)
  PROVE  /\ Distinct'
         /\ \A h \in Holders, q \in Projects : Elems(Held(h, q))' \subseteq Elems(Held(h, q))
         /\ \A i \in 1 .. k : \A h \in Holders, q \in Projects :
              Held(f, p)[i] \notin Elems(Held(h, q))'
         /\ \A i \in DOMAIN Held(f, p) : i > k => Held(f, p)[i] \in Elems(Held(f, p))'
  <1> DEFINE s == Held(f, p)
             d == Drop(s, k)
  <1>1. s \in Seq(Nat) /\ f \in Holders /\ Inj(s) /\ k \in 0 .. Len(s)
    BY HeldType, HeldDef DEF Distinct, Removed
  <1>2. Held(f, p)' = d
    BY DEF Removed
  <1>3. \A g \in Holders, q \in Projects : g # f \/ q # p => Held(g, q)' = Held(g, q)
    BY DEF Removed, OthersKeep
  <1> HIDE DEF s
  <1>4. /\ Inj(d) /\ Elems(d) \subseteq Elems(s)
        /\ \A i \in 1 .. k : s[i] \notin Elems(d)
        /\ \A i \in 1 .. k : s[i] \in Elems(s)
    <2>1. Inj(d) /\ \A i \in 1 .. k : s[i] \notin Elems(d)
      BY <1>1, DropInj
    <2>2. Elems(d) \subseteq Elems(s)
      BY <1>1, SplitElems
    <2>3. \A i \in 1 .. k : i \in DOMAIN s
      BY <1>1
    <2> QED
      BY <2>1, <2>2, <2>3 DEF Elems
  <1>5. \A i \in DOMAIN s : i > k => s[i] \in Elems(d)
    <2> TAKE i \in DOMAIN s
    <2> HAVE i > k
    <2>1. /\ Len(s) \in Nat /\ DOMAIN s = 1 .. Len(s) /\ DOMAIN d = 1 .. Len(s) - k
          /\ \A j \in 1 .. Len(s) - k : d[j] = s[k + j]
      BY <1>1, Split
    <2>2. i - k \in 1 .. Len(s) - k /\ k + (i - k) = i
      BY <1>1, <2>1
    <2>3. d[i - k] = s[k + (i - k)]
      BY <2>1, <2>2
    <2> HIDE DEF d
    <2>4. d[i - k] = s[i] /\ i - k \in DOMAIN d
      BY <2>1, <2>2, <2>3
    <2> QED
      BY <2>4 DEF Elems
  <1> HIDE DEF d
  <1>6. \A h \in Holders, q \in Projects : Elems(Held(h, q))' \subseteq Elems(Held(h, q))
    BY <1>2, <1>3, <1>4 DEF Elems, s
  <1>7. \A h \in Holders, q \in Projects : Inj(Held(h, q))'
    BY <1>2, <1>3, <1>4 DEF Distinct, Inj
  <1>8. Distinct'
    BY <1>6, <1>7 DEF Distinct
  <1>9. \A i \in 1 .. k : \A h \in Holders, q \in Projects :
          s[i] \notin Elems(Held(h, q))'
    <2> TAKE i \in 1 .. k
    <2> TAKE h \in Holders, q \in Projects
    <2>1. CASE h = f /\ q = p
      BY <1>2, <1>4, <2>1 DEF Elems
    <2>2. CASE h # f \/ q # p
      BY <1>1, <1>3, <1>4, <2>2 DEF Distinct, s, Elems
    <2> QED
      BY <2>1, <2>2
  <1>10. \A i \in DOMAIN s : i > k => s[i] \in Elems(Held(f, p))'
    BY <1>2, <1>5 DEF Elems
  <1> QED
    BY <1>6, <1>8, <1>9, <1>10 DEF s

(* A line is pending iff some queue holds it.                              *)
LEMMA PendingDef ==
  /\ \A n : n \in Pending <=> \E h \in Holders, p \in Projects : n \in Elems(Held(h, p))
  /\ \A n : n \in Pending' <=> \E h \in Holders, p \in Projects : n \in Elems(Held(h, p))'
  BY DEF Pending

LEMMA ElemsNext ==
  \A h \in Holders, p \in Projects : Elems(Held(h, p))' = Elems(Held(h, p)')
  BY DEF Elems

LEMMA ElemsEmpty == Elems(<<>>) = {} /\ Inj(<<>>)
  BY DEF Elems, Inj

LEMMA KeepKeeps ==
  ASSUME Distinct, Keep
  PROVE  /\ Distinct'
         /\ \A h \in Holders, q \in Projects : Elems(Held(h, q))' = Elems(Held(h, q))
  <1>1. \A h \in Holders, q \in Projects : Elems(Held(h, q))' = Elems(Held(h, q))
    BY DEF Keep, Elems
  <1>2. \A h \in Holders, q \in Projects : Inj(Held(h, q))'
    BY DEF Keep, Distinct, Inj
  <1> QED
    BY <1>1, <1>2 DEF Distinct

(* The swap of Flush renames the owner and nothing else.                   *)
LEMMA SwappedKeeps ==
  ASSUME Shape, Distinct, NEW f \in Flushers, Swapped(f)
  PROVE  /\ Distinct'
         /\ \A h \in Holders, q \in Projects :
              Elems(Held(h, q))' = IF h = f THEN Elems(Held(Shared, q))
                                   ELSE IF h = Shared THEN {} ELSE Elems(Held(h, q))
  <1>1. f \in Holders /\ Shared \in Holders /\ f # Shared
    BY HeldDef
  <1>2. \A h \in Holders, q \in Projects :
          Held(h, q)' = IF h = f THEN Held(Shared, q)
                        ELSE IF h = Shared THEN <<>> ELSE Held(h, q)
    BY <1>1 DEF Swapped
  <1>3. \A h \in Holders, q \in Projects :
              Elems(Held(h, q))' = IF h = f THEN Elems(Held(Shared, q))
                                   ELSE IF h = Shared THEN {} ELSE Elems(Held(h, q))
    BY <1>2, ElemsNext, ElemsEmpty
  <1>4. \A h \in Holders, q \in Projects : Inj(Held(h, q)')
    BY <1>1, <1>2, ElemsEmpty DEF Distinct
  <1>5. \A h \in Holders, q \in Projects : Inj(Held(h, q))'
    BY <1>4 DEF Inj
  <1>6. ASSUME NEW h \in Holders, NEW g \in Holders, NEW q \in Projects, NEW r \in Projects,
               h # g \/ q # r
        PROVE  Elems(Held(h, q))' \cap Elems(Held(g, r))' = {}
    <2> DEFINE old(x) == IF x = f THEN Shared ELSE x
    <2>1. CASE h = Shared \/ g = Shared
      BY <1>1, <1>3, <2>1
    <2>2. CASE h # Shared /\ g # Shared
      <3>1. old(h) \in Holders /\ old(g) \in Holders /\ (old(h) # old(g) \/ q # r)
        BY <1>1, <1>6, <2>2
      <3>2. Elems(Held(h, q))' = Elems(Held(old(h), q)) /\ Elems(Held(g, r))' = Elems(Held(old(g), r))
        BY <1>3, <2>2
      <3> HIDE DEF old
      <3> QED
        BY <3>1, <3>2 DEF Distinct
    <2> QED
      BY <2>1, <2>2
  <1> QED
    BY <1>3, <1>5, <1>6 DEF Distinct

(* The return moves one queue in front of another.                         *)
LEMMA ReturnedKeeps ==
  ASSUME Shape, Distinct, NEW f \in Flushers, NEW p \in Projects, Returned(f, p)
  PROVE  /\ Distinct'
         /\ \A h \in Holders, q \in Projects :
              Elems(Held(h, q))' =
                IF q = p /\ h = Shared THEN Elems(Held(f, p)) \cup Elems(Held(Shared, p))
                ELSE IF q = p /\ h = f THEN {} ELSE Elems(Held(h, q))
  <1>1. f \in Holders /\ Shared \in Holders /\ f # Shared
    BY HeldDef
  <1> DEFINE s == Held(f, p)
             t == Held(Shared, p)
  <1>2. s \in Seq(Nat) /\ t \in Seq(Nat) /\ Inj(s) /\ Inj(t) /\ Elems(s) \cap Elems(t) = {}
    BY <1>1, HeldType DEF Distinct
  <1>3. Held(Shared, p)' = s \o t /\ Held(f, p)' = <<>>
    BY DEF Returned
  <1>4. \A h \in Holders, q \in Projects : q # p \/ h \notin {f, Shared} => Held(h, q)' = Held(h, q)
    BY DEF Returned
  <1> HIDE DEF s, t
  <1>5. Elems(s \o t) = Elems(s) \cup Elems(t) /\ Inj(s \o t)
    BY <1>2, ConcatElems, ConcatInj
  <1>6. \A h \in Holders, q \in Projects :
          Elems(Held(h, q))' = IF q = p /\ h = Shared THEN Elems(s) \cup Elems(t)
                               ELSE IF q = p /\ h = f THEN {} ELSE Elems(Held(h, q))
    BY <1>1, <1>3, <1>4, <1>5, ElemsNext, ElemsEmpty
  <1>7. \A h \in Holders, q \in Projects : Inj(Held(h, q)')
    <2> TAKE h \in Holders, q \in Projects
    <2>1. CASE q = p /\ h = Shared
      BY <1>3, <1>5, <2>1
    <2>2. CASE q = p /\ h = f
      BY <1>3, ElemsEmpty, <2>2
    <2>3. CASE q # p \/ h \notin {f, Shared}
      BY <1>4, <2>3 DEF Distinct
    <2> QED
      BY <2>1, <2>2, <2>3
  <1>8. \A h \in Holders, q \in Projects : Inj(Held(h, q))'
    BY <1>7 DEF Inj
  <1>9. ASSUME NEW h \in Holders, NEW g \in Holders, NEW q \in Projects, NEW r \in Projects,
               h # g \/ q # r
        PROVE  Elems(Held(h, q))' \cap Elems(Held(g, r))' = {}
    <2>1. CASE h = Shared /\ q = p
      <3>1. Elems(Held(h, q))' = Elems(Held(f, p)) \cup Elems(Held(Shared, p))
        BY <1>1, <1>6, <2>1 DEF s, t
      <3>2. CASE g = f /\ r = p
        BY <1>1, <1>6, <3>2
      <3>3. CASE ~(g = f /\ r = p)
        BY <1>1, <1>6, <1>9, <2>1, <3>1, <3>3 DEF Distinct
      <3> QED
        BY <3>2, <3>3
    <2>2. CASE g = Shared /\ r = p
      <3>1. Elems(Held(g, r))' = Elems(Held(f, p)) \cup Elems(Held(Shared, p))
        BY <1>1, <1>6, <2>2 DEF s, t
      <3>2. CASE h = f /\ q = p
        BY <1>1, <1>6, <3>2
      <3>3. CASE ~(h = f /\ q = p)
        BY <1>1, <1>6, <1>9, <2>2, <3>1, <3>3 DEF Distinct
      <3> QED
        BY <3>2, <3>3
    <2>3. CASE ~(h = Shared /\ q = p) /\ ~(g = Shared /\ r = p)
      <3>1. /\ Elems(Held(h, q))' \subseteq Elems(Held(h, q))
            /\ Elems(Held(g, r))' \subseteq Elems(Held(g, r))
        BY <1>6, <2>3
      <3> QED
        BY <1>9, <3>1 DEF Distinct
    <2> QED
      BY <2>1, <2>2, <2>3
  <1> QED
    BY <1>6, <1>8, <1>9 DEF Distinct, s, t

(* New lines are in no queue yet.                                          *)
LEMMA AddedKeeps ==
  ASSUME Shape, Distinct, Known, NEW p \in Projects, NEW n \in Nat, Added(p, n)
  PROVE  /\ Distinct'
         /\ \A h \in Holders, q \in Projects :
              Elems(Held(h, q))' =
                IF q = p /\ h = Shared
                  THEN Elems(Held(Shared, p)) \cup (Len(origin) + 1 .. Len(origin) + n)
                  ELSE Elems(Held(h, q))
         /\ Known'
  <1> DEFINE s == Held(Shared, p)
             t == Fresh(n)
             new == Len(origin) + 1 .. Len(origin) + n
  <1>0. Len(origin) \in Nat /\ origin \in Seq(Origin)
    <2>1. origin \in Seq(Origin)
      BY TypeParts DEF Shape, RestType
    <2> QED
      BY <2>1
  <1>1. Shared \in Holders /\ s \in Seq(Nat) /\ Inj(s)
    BY HeldDef, HeldType DEF Distinct
  <1>2. t \in Seq(Nat) /\ Elems(t) = new /\ DOMAIN t = 1 .. n /\ \A i \in 1 .. n : t[i] = Len(origin) + i
    BY <1>0, FreshLines
  <1>3. Inj(t)
    <2> HIDE DEF t
    <2> QED
      BY <1>0, <1>2 DEF Inj
  <1>4. \A h \in Holders, q \in Projects : Elems(Held(h, q)) \cap new = {}
    BY <1>0 DEF Known, Line
  <1>5. Held(Shared, p)' = s \o t
    BY DEF Added
  <1>6. \A h \in Holders, q \in Projects : h # Shared \/ q # p => Held(h, q)' = Held(h, q)
    BY DEF Added, OthersKeep
  <1>7. Elems(s) \cap Elems(t) = {}
    BY <1>1, <1>2, <1>4
  <1> HIDE DEF s, t
  <1>8. Elems(s \o t) = Elems(s) \cup Elems(t) /\ Inj(s \o t)
    BY <1>1, <1>2, <1>3, <1>7, ConcatElems, ConcatInj
  <1>9. \A h \in Holders, q \in Projects :
          Elems(Held(h, q))' = IF q = p /\ h = Shared THEN Elems(s) \cup new
                               ELSE Elems(Held(h, q))
    BY <1>1, <1>2, <1>5, <1>6, <1>8, ElemsNext
  <1>10. \A h \in Holders, q \in Projects : Inj(Held(h, q)')
    <2> TAKE h \in Holders, q \in Projects
    <2>1. CASE h = Shared /\ q = p
      BY <1>5, <1>8, <2>1
    <2>2. CASE h # Shared \/ q # p
      BY <1>6, <2>2 DEF Distinct
    <2> QED
      BY <2>1, <2>2
  <1>11. \A h \in Holders, q \in Projects : Inj(Held(h, q))'
    BY <1>10 DEF Inj
  <1>12. ASSUME NEW h \in Holders, NEW g \in Holders, NEW q \in Projects, NEW r \in Projects,
                h # g \/ q # r
         PROVE  Elems(Held(h, q))' \cap Elems(Held(g, r))' = {}
    <2> HIDE DEF new
    <2>1. Elems(Held(h, q)) \cap Elems(Held(g, r)) = {}
      BY <1>12 DEF Distinct
    <2>2. CASE h = Shared /\ q = p
      BY <1>4, <1>9, <1>12, <2>1, <2>2 DEF s
    <2>3. CASE ~(h = Shared /\ q = p)
      BY <1>4, <1>9, <1>12, <2>1, <2>3 DEF s
    <2> QED
      BY <2>2, <2>3
  <1>13. ASSUME NEW h \in Holders, NEW q \in Projects, NEW m \in Elems(Held(h, q))'
         PROVE  m \in Line' /\ origin'[m].project = q
    <2>1. /\ Len(origin') = Len(origin) + n
          /\ \A i \in 1 .. Len(origin) : origin'[i] = origin[i]
          /\ \A i \in 1 .. n : origin'[Len(origin) + i].project = p
      BY DEF Added
    <2>2. CASE m \in Elems(Held(h, q))
      BY <1>0, <2>1, <2>2 DEF Known, Line
    <2>3. CASE q = p /\ m \in new
      <3>1. m - Len(origin) \in 1 .. n /\ Len(origin) + (m - Len(origin)) = m
        BY <1>0, <2>3
      <3>2. origin'[Len(origin) + (m - Len(origin))].project = p
        BY <2>1, <3>1
      <3>3. m \in Line'
        BY <1>0, <2>1, <2>3 DEF Line
      <3> QED
        BY <2>3, <3>1, <3>2, <3>3
    <2> QED
      BY <1>9, <1>13, <2>2, <2>3 DEF s
  <1>14. Known'
    BY <1>13 DEF Known
  <1> QED
    BY <1>9, <1>11, <1>12, <1>14 DEF Distinct, s
-----------------------------------------------------------------------------
(* The books: what is held, stored, rejected and refused, step by step.    *)

(* The lines a batch was trimmed of were in a batch answered with 413.     *)
Trimmed ==
  \A f \in Flushers : work[f].phase = "sending" =>
    \A i \in 1 .. work[f].want :
      owned[f][work[f].project].lines[i] \in Elems(work[f].batch) \cup rejected

(* Stored lines were read, for the project they are stored under.          *)
StoredKnown ==
  \A p \in Projects : \A i \in DOMAIN received[p] :
    received[p][i].line \in Line /\ origin[received[p][i].line].project = p

(* The inductive invariant.                                                *)
IInv ==
  /\ Shape
  /\ Distinct
  /\ Known
  /\ StoredKnown
  /\ Trimmed
  /\ NoResend
  /\ LostOnlyWhenTurnedDown

LEMMA StoredDef ==
  /\ \A n : n \in Stored <=> \E p \in Projects : \E i \in DOMAIN received[p] : n = received[p][i].line
  /\ \A n : n \in Stored' <=> \E p \in Projects : \E i \in DOMAIN received'[p] : n = received'[p][i].line
  BY DEF Stored, ReceivedLines

LEMMA IInvInit == Init => IInv
  <1> SUFFICES ASSUME Init PROVE IInv
    OBVIOUS
  <1>1. Shape
    BY ShapeInit
  <1>2. \A h \in Holders, p \in Projects : Held(h, p) = <<>>
    BY HeldDef DEF Init, Absent
  <1>3. Distinct /\ Known
    BY <1>2, ElemsEmpty DEF Distinct, Known
  <1>4. \A p \in Projects : received[p] = <<>> /\ DOMAIN received[p] = {}
    <2>1. DOMAIN <<>> = {}
      OBVIOUS
    <2> QED
      BY <2>1 DEF Init
  <1>5. StoredKnown
    BY <1>4 DEF StoredKnown
  <1>6. Trimmed
    BY DEF Init, Trimmed, Resting
  <1>7. NoResend
    <2>1. Stored = {}
      BY <1>4 DEF Stored, ReceivedLines
    <2> QED
      BY <1>4, <2>1 DEF NoResend
  <1>8. LostOnlyWhenTurnedDown
    <2>1. Line = {}
      BY DEF Init, Line
    <2> QED
      BY <2>1 DEF LostOnlyWhenTurnedDown
  <1> QED
    BY <1>1, <1>3, <1>5, <1>6, <1>7, <1>8 DEF IInv

(* Steps that leave queues, stored lines and the read lines as they are.   *)
LEMMA QuietStep ==
  ASSUME IInv, Shape', Distinct', Trimmed',
         \A h \in Holders, q \in Projects : Elems(Held(h, q))' = Elems(Held(h, q)),
         origin' = origin, received' = received, doubtful' = doubtful,
         rejected \subseteq rejected', refused \subseteq refused'
  PROVE  IInv'
  <1>1. Pending' = Pending
    BY PendingDef
  <1>2. Stored' = Stored
    BY DEF Stored, ReceivedLines
  <1>3. Known'
    BY DEF IInv, Known, Line
  <1>4. StoredKnown'
    BY DEF IInv, StoredKnown, Line
  <1>5. NoResend'
    BY <1>1, <1>2 DEF IInv, NoResend
  <1>6. LostOnlyWhenTurnedDown'
    BY <1>1, <1>2 DEF IInv, LostOnlyWhenTurnedDown, Line
  <1> QED
    BY <1>3, <1>4, <1>5, <1>6 DEF IInv

(* Reading new lines.                                                      *)
LEMMA AddedStep ==
  ASSUME IInv, Shape', Trimmed', NEW p \in Projects, NEW n \in Nat, Added(p, n),
         received' = received, doubtful' = doubtful,
         rejected' = rejected, refused' = refused
  PROVE  IInv'
  <1> DEFINE new == Len(origin) + 1 .. Len(origin) + n
  <1>0. Len(origin) \in Nat
    <2>1. origin \in Seq(Origin)
      BY TypeParts DEF IInv, Shape, RestType
    <2> QED
      BY <2>1
  <1>1. /\ Distinct' /\ Known'
        /\ \A h \in Holders, q \in Projects :
              Elems(Held(h, q))' =
                IF q = p /\ h = Shared THEN Elems(Held(Shared, p)) \cup new ELSE Elems(Held(h, q))
    BY AddedKeeps DEF IInv
  <1>2. Line' = Line \cup new /\ Line \cap new = {}
    BY <1>0 DEF Added, Line
  <1> HIDE DEF new
  <1>3. Pending' = Pending \cup new
    BY <1>1, PendingDef, HeldDef
  <1>4. Stored' = Stored /\ Stored \subseteq Line
    BY StoredDef DEF IInv, StoredKnown, Stored, ReceivedLines
  <1>5. StoredKnown'
    <2>1. \A i \in Line : origin'[i] = origin[i]
      BY DEF Added, Line
    <2> QED
      BY <1>2, <2>1 DEF IInv, StoredKnown
  <1>6. NoResend'
    BY <1>2, <1>3, <1>4 DEF IInv, NoResend
  <1>7. LostOnlyWhenTurnedDown'
    BY <1>2, <1>3, <1>4 DEF IInv, LostOnlyWhenTurnedDown
  <1> QED
    BY <1>1, <1>5, <1>6, <1>7 DEF IInv

(* Only f's work changed, and what f trimmed was rejected.                 *)
LEMMA TrimmedStep ==
  ASSUME Trimmed, rejected \subseteq rejected', NEW f \in Flushers,
         \A g \in Flushers : g # f => work'[g] = work[g] /\ owned'[g] = owned[g],
         work'[f].phase = "sending" =>
           \A i \in 1 .. work'[f].want :
             owned'[f][work'[f].project].lines[i] \in Elems(work'[f].batch) \cup rejected'
  PROVE  Trimmed'
  <1> SUFFICES ASSUME NEW g \in Flushers, work'[g].phase = "sending",
                      NEW i \in 1 .. work'[g].want
               PROVE  owned'[g][work'[g].project].lines[i] \in Elems(work'[g].batch) \cup rejected'
    BY DEF Trimmed, Elems
  <1>1. CASE g = f
    BY <1>1
  <1>2. CASE g # f
    BY <1>2 DEF Trimmed
  <1> QED
    BY <1>1, <1>2

(* A freshly built batch is trimmed of nothing.                            *)
LEMMA SendingTrimmed ==
  ASSUME NEW p \in Projects, NEW rest \in Seq(Nat), rest # <<>>,
         NEW size \in 1 .. MaxBatchSize
  PROVE  LET w == Sending(p, rest, size) IN
           /\ w.phase = "sending" /\ w.project = p
           /\ \A i \in 1 .. w.want : rest[i] \in Elems(w.batch)
  <1> DEFINE w == Sending(p, rest, size)
  <1>1. /\ w \in Work /\ w.phase = "sending" /\ w.project = p
        /\ \A i \in DOMAIN w.batch : w.batch[i] = rest[i]
    BY SendingShape
  <1>2. w.want = Len(w.batch)
    BY DEF Sending
  <1> HIDE DEF w
  <1>3. w.batch \in Seq(Nat)
    BY <1>1 DEF Work
  <1>4. DOMAIN w.batch = 1 .. w.want
    BY <1>2, <1>3
  <1> QED
    BY <1>1, <1>4 DEF Elems, w

LEMMA ContinueTrimmed ==
  ASSUME Shape, Trimmed, rejected \subseteq rejected', NEW f \in Flushers,
         work[f].phase = "sending",
         NEW rest \in Seq(Nat), NEW size \in 1 .. MaxBatchSize, Continue(f, rest, size)
  PROVE  Trimmed'
  <1> DEFINE p == work[f].project
  <1>1. p \in Projects /\ OwnedType /\ WorkType
    BY TypeParts DEF Shape, BatchIsFront
  <1> HIDE DEF p
  <1>2. CASE rest = <<>>
    <2>1. /\ work' = [work EXCEPT ![f] = Resting("pick")]
          /\ owned' = [owned EXCEPT ![f][p] = Absent]
      BY <1>2 DEF Continue, p
    <2>2. work'[f].phase = "pick"
      BY <1>1, <2>1 DEF WorkType, Resting
    <2>3. \A g \in Flushers : g # f => work'[g] = work[g] /\ owned'[g] = owned[g]
      BY <1>1, <2>1 DEF WorkType, OwnedType
    <2> QED
      BY <2>2, <2>3, TrimmedStep
  <1>3. CASE rest # <<>>
    <2> DEFINE w == Sending(p, rest, size)
    <2>1. /\ work' = [work EXCEPT ![f] = w]
          /\ owned' = [owned EXCEPT ![f][p].lines = rest]
      BY <1>3 DEF Continue, p
    <2>2. /\ w.phase = "sending" /\ w.project = p
          /\ \A i \in 1 .. w.want : rest[i] \in Elems(w.batch)
      BY <1>1, <1>3, SendingTrimmed
    <2> HIDE DEF w
    <2>3. work'[f] = w /\ owned'[f][p].lines = rest
      <3>1. owned[f] \in [Projects -> Entry] /\ owned[f][p] \in Entry
        BY <1>1 DEF OwnedType
      <3>2. [owned[f][p] EXCEPT !.lines = rest].lines = rest
        BY <3>1 DEF Entry
      <3>3. owned'[f][p] = [owned[f][p] EXCEPT !.lines = rest]
        BY <1>1, <2>1, <3>1 DEF OwnedType
      <3> QED
        BY <1>1, <2>1, <3>2, <3>3 DEF WorkType
    <2>4. \A g \in Flushers : g # f => work'[g] = work[g] /\ owned'[g] = owned[g]
      BY <1>1, <2>1 DEF WorkType, OwnedType
    <2>5. \A i \in 1 .. work'[f].want :
             owned'[f][work'[f].project].lines[i] \in Elems(work'[f].batch) \cup rejected'
      BY <2>2, <2>3
    <2> QED
      BY <2>4, <2>5, TrimmedStep
  <1> QED
    BY <1>2, <1>3

(* The batch of a sending goroutine is distinct lines of its own queue.    *)
LEMMA BatchOfQueue ==
  ASSUME IInv, NEW f \in Flushers, work[f].phase = "sending",
         NEW p \in Projects, work[f].project = p
  PROVE  /\ work[f].batch \in Seq(Nat)
         /\ Inj(work[f].batch)
         /\ work[f].want \in Len(work[f].batch) .. Len(Held(f, p))
         /\ DOMAIN work[f].batch = 1 .. Len(work[f].batch)
         /\ DOMAIN Held(f, p) = 1 .. Len(Held(f, p))
         /\ Len(Held(f, p)) \in Nat /\ Len(work[f].batch) \in Nat
         /\ \A i \in DOMAIN work[f].batch : work[f].batch[i] = Held(f, p)[i]
         /\ Elems(work[f].batch) \subseteq Elems(Held(f, p))
  <1> DEFINE b == work[f].batch
             s == Held(f, p)
  <1>1. /\ work[f].want \in Len(b) .. Len(s)
        /\ \A i \in DOMAIN b : b[i] = s[i]
    BY HeldDef DEF IInv, Shape, BatchIsFront
  <1>2. b \in Seq(Nat) /\ s \in Seq(Nat) /\ work[f].want \in Nat /\ Inj(s)
    <2>1. b \in Seq(Nat) /\ work[f].want \in Nat
      BY TypeParts DEF IInv, Shape, WorkType, Work
    <2>2. s \in Seq(Nat) /\ Inj(s)
      BY HeldType, HeldDef DEF IInv, Distinct
    <2> QED
      BY <2>1, <2>2
  <1> HIDE DEF b, s
  <1>3. /\ DOMAIN b = 1 .. Len(b) /\ DOMAIN s = 1 .. Len(s)
        /\ Len(b) \in Nat /\ Len(s) \in Nat
    BY <1>2
  <1>4. DOMAIN b \subseteq DOMAIN s
    BY <1>1, <1>2, <1>3
  <1>5. Inj(b)
    BY <1>1, <1>2, <1>4 DEF Inj
  <1>6. Elems(b) \subseteq Elems(s)
    BY <1>1, <1>4 DEF Elems
  <1> QED
    BY <1>1, <1>2, <1>3, <1>5, <1>6 DEF b, s

(* Storing a batch adds its lines, and repeats only doubtful ones.         *)
LEMMA StoreBooks ==
  ASSUME IInv, NEW f \in Flushers, work[f].phase = "sending", Store(f), origin' = origin
  PROVE  /\ Stored' = Stored \cup Elems(work[f].batch)
         /\ Elems(work[f].batch) \subseteq Pending
         /\ StoredKnown'
         /\ \A p \in Projects : \A i, j \in DOMAIN received'[p] :
              i # j /\ received'[p][i].line = received'[p][j].line
                => received'[p][i].line \in doubtful
  <1> PICK p \in Projects : work[f].project = p
    BY DEF IInv, Shape, BatchIsFront
  <1> DEFINE b == work[f].batch
             old == received[p]
             new == received'[p]
  <1>1. /\ \A q \in Projects : q # p => received'[q] = received[q]
        /\ DOMAIN old = 1 .. Len(old) /\ Len(old) \in Nat
        /\ DOMAIN b = 1 .. Len(b) /\ Len(b) \in Nat
        /\ DOMAIN new = 1 .. Len(old) + Len(b)
        /\ \A i \in 1 .. Len(old) : new[i].line = old[i].line
        /\ \A i \in 1 .. Len(b) : new[Len(old) + i].line = b[i]
    BY StoreType, TypeParts DEF IInv, Shape, RestType
  <1>2. /\ Inj(b) /\ Elems(b) \subseteq Elems(Held(f, p))
    BY BatchOfQueue
  <1>3. \A n \in Elems(b) : n \in Pending /\ n \in Line /\ origin[n].project = p
    BY <1>2, HeldDef, PendingDef DEF IInv, Known
  <1> HIDE DEF b, old, new
  <1>4. ASSUME NEW i \in DOMAIN new
        PROVE  \/ i \in DOMAIN old /\ new[i].line = old[i].line
               \/ i - Len(old) \in DOMAIN b /\ new[i].line = b[i - Len(old)]
    <2>1. CASE i <= Len(old)
      BY <1>1, <2>1
    <2>2. CASE ~(i <= Len(old))
      <3>1. i - Len(old) \in 1 .. Len(b) /\ Len(old) + (i - Len(old)) = i
        BY <1>1, <2>2
      <3>2. new[Len(old) + (i - Len(old))].line = b[i - Len(old)]
        BY <1>1, <3>1
      <3> QED
        BY <1>1, <3>1, <3>2
    <2> QED
      BY <2>1, <2>2
  <1>5. \A i \in DOMAIN old : old[i].line \in Stored /\ i \in DOMAIN new /\ new[i].line = old[i].line
    BY <1>1, StoredDef DEF old
  <1>6. \A i \in DOMAIN b : b[i] \in Elems(b) /\ Len(old) + i \in DOMAIN new /\ new[Len(old) + i].line = b[i]
    BY <1>1 DEF Elems
  <1>7. Stored' = Stored \cup Elems(b)
    <2>1. ASSUME NEW n \in Stored' PROVE n \in Stored \cup Elems(b)
      <3> PICK q \in Projects : \E i \in DOMAIN received'[q] : n = received'[q][i].line
        BY <2>1, StoredDef
      <3> PICK i \in DOMAIN received'[q] : n = received'[q][i].line
        OBVIOUS
      <3>1. CASE q = p
        BY <1>4, <1>5, <1>6, <3>1 DEF new
      <3>2. CASE q # p
        BY <1>1, <3>2, StoredDef
      <3> QED
        BY <3>1, <3>2
    <2>2. ASSUME NEW n \in Stored PROVE n \in Stored'
      <3> PICK q \in Projects : \E i \in DOMAIN received[q] : n = received[q][i].line
        BY <2>2, StoredDef
      <3> PICK i \in DOMAIN received[q] : n = received[q][i].line
        OBVIOUS
      <3>1. CASE q = p
        BY <1>5, <3>1, StoredDef DEF new, old
      <3>2. CASE q # p
        BY <1>1, <3>2, StoredDef
      <3> QED
        BY <3>1, <3>2
    <2>3. ASSUME NEW n \in Elems(b) PROVE n \in Stored'
      BY <1>6, StoredDef DEF Elems, new
    <2> QED
      BY <2>1, <2>2, <2>3
  <1>8. StoredKnown'
    <2> SUFFICES ASSUME NEW q \in Projects, NEW i \in DOMAIN received'[q]
                 PROVE  received'[q][i].line \in Line /\ origin[received'[q][i].line].project = q
      BY DEF StoredKnown, Line
    <2>1. CASE q # p
      BY <1>1, <2>1 DEF IInv, StoredKnown
    <2>2. CASE q = p
      <3>1. CASE i \in DOMAIN old /\ new[i].line = old[i].line
        BY <2>2, <3>1 DEF IInv, StoredKnown, old, new
      <3>2. CASE i - Len(old) \in DOMAIN b /\ new[i].line = b[i - Len(old)]
        BY <1>3, <1>6, <2>2, <3>2 DEF new
      <3> QED
        BY <1>4, <2>2, <3>1, <3>2 DEF new
    <2> QED
      BY <2>1, <2>2
  <1>9. ASSUME NEW q \in Projects, NEW i \in DOMAIN received'[q], NEW j \in DOMAIN received'[q],
               i # j, received'[q][i].line = received'[q][j].line
        PROVE  received'[q][i].line \in doubtful
    <2>1. CASE q # p
      BY <1>1, <1>9, <2>1 DEF IInv, NoResend
    <2>2. CASE q = p
      <3>0. i \in DOMAIN new /\ j \in DOMAIN new /\ new[i].line = new[j].line
        BY <1>9, <2>2 DEF new
      <3>1. CASE i \in DOMAIN old /\ new[i].line = old[i].line /\ j \in DOMAIN old /\ new[j].line = old[j].line
        <4>1. old[i].line \in doubtful
          BY <1>9, <3>0, <3>1 DEF IInv, NoResend, old
        <4> QED
          BY <2>2, <3>1, <4>1 DEF new
      <3>2. CASE i \in DOMAIN old /\ new[i].line = old[i].line /\ j - Len(old) \in DOMAIN b /\ new[j].line = b[j - Len(old)]
        <4>1. old[i].line \in Stored /\ old[i].line \in Pending
          BY <1>3, <1>5, <1>6, <3>0, <3>2
        <4> QED
          BY <2>2, <3>2, <4>1 DEF new, IInv, NoResend
      <3>3. CASE i - Len(old) \in DOMAIN b /\ new[i].line = b[i - Len(old)] /\ j \in DOMAIN old /\ new[j].line = old[j].line
        <4>1. old[j].line \in Stored /\ old[j].line \in Pending
          BY <1>3, <1>5, <1>6, <3>0, <3>3
        <4> QED
          BY <2>2, <3>0, <3>3, <4>1 DEF new, IInv, NoResend
      <3>4. CASE i - Len(old) \in DOMAIN b /\ new[i].line = b[i - Len(old)] /\ j - Len(old) \in DOMAIN b /\ new[j].line = b[j - Len(old)]
        <4>1. i - Len(old) = j - Len(old)
          BY <1>2, <3>0, <3>4 DEF Inj
        <4> QED
          BY <1>1, <1>9, <3>0, <4>1
      <3> QED
        BY <1>4, <3>0, <3>1, <3>2, <3>3, <3>4
    <2> QED
      BY <2>1, <2>2
  <1> QED
    BY <1>3, <1>7, <1>8, <1>9 DEF b

(* Two lines stored in one project are different lines, or doubtful ones.  *)
Once ==
  \A p \in Projects : \A i, j \in DOMAIN received[p] :
    i # j /\ received[p][i].line = received[p][j].line => received[p][i].line \in doubtful

(* Lines change hands: the swap of Flush, the return after an error.       *)
LEMMA MovedStep ==
  ASSUME IInv, Shape', Distinct', Trimmed', Known', StoredKnown', Once',
         Pending' = Pending, origin' = origin, Stored \subseteq Stored',
         doubtful \subseteq doubtful', Stored' \subseteq Stored \cup doubtful',
         rejected \subseteq rejected', refused \subseteq refused'
  PROVE  IInv'
  <1>1. NoResend'
    BY DEF IInv, NoResend, Once
  <1>2. LostOnlyWhenTurnedDown'
    BY DEF IInv, LostOnlyWhenTurnedDown, Line
  <1> QED
    BY <1>1, <1>2 DEF IInv

(* The first k lines of a queue leave the daemon, each one stored, or      *)
(* turned down; nothing but them is stored.                                *)
LEMMA RemovedStep ==
  ASSUME IInv, Shape', Trimmed', NEW f \in Flushers, NEW p \in Projects, NEW k,
         Removed(f, p, k), origin' = origin,
         \A i \in 1 .. k : Held(f, p)[i] \in Stored' \cup rejected' \cup refused',
         Stored \subseteq Stored', StoredKnown', Once',
         \A n \in Stored' : n \in Stored \/ \E i \in 1 .. k : n = Held(f, p)[i],
         doubtful' = doubtful, rejected \subseteq rejected', refused \subseteq refused'
  PROVE  IInv'
  <1> DEFINE s == Held(f, p)
  <1>1. /\ Distinct'
        /\ \A h \in Holders, q \in Projects : Elems(Held(h, q))' \subseteq Elems(Held(h, q))
        /\ \A i \in 1 .. k : \A h \in Holders, q \in Projects : s[i] \notin Elems(Held(h, q))'
        /\ \A i \in DOMAIN s : i > k => s[i] \in Elems(Held(f, p))'
    BY RemovedKeeps DEF IInv
  <1>2. Known'
    BY <1>1 DEF IInv, Known, Line
  <1>3. Pending' \subseteq Pending /\ \A i \in 1 .. k : s[i] \notin Pending'
    BY <1>1, PendingDef
  <1>4. ASSUME NEW n \in Pending, n \notin Pending' PROVE n \in Stored' \cup rejected' \cup refused'
    <2> PICK h \in Holders, q \in Projects : n \in Elems(Held(h, q))
      BY PendingDef
    <2>1. h = f /\ q = p
      <3>1. Held(h, q)' = Held(h, q) => Elems(Held(h, q))' = Elems(Held(h, q))
        BY DEF Elems
      <3> QED
        BY <1>4, <3>1, PendingDef DEF Removed, OthersKeep
    <2>2. PICK i \in DOMAIN s : n = s[i]
      BY <2>1 DEF Elems
    <2>3. i \in Nat \ {0} /\ k \in Nat
      <3>1. s \in Seq(Nat)
        BY HeldType, HeldDef DEF IInv
      <3>2. k \in 0 .. Len(s)
        BY DEF Removed
      <3> HIDE DEF s
      <3> QED
        BY <3>1, <3>2
    <2>4. f \in Holders
      BY HeldDef
    <2>5. ~(i > k)
      BY <1>1, <1>4, <2>2, <2>4, PendingDef
    <2>6. i \in 1 .. k
      BY <2>3, <2>5
    <2> QED
      BY <2>2, <2>6
  <1>5. NoResend'
    BY <1>3 DEF IInv, NoResend, Once
  <1>6. LostOnlyWhenTurnedDown'
    BY <1>4 DEF IInv, LostOnlyWhenTurnedDown, Line
  <1> QED
    BY <1>1, <1>2, <1>5, <1>6 DEF IInv

(* The answer to a batch is nil: its want lines leave the queue.           *)
LEMMA SuccessStep ==
  ASSUME IInv, Shape', NEW f \in Flushers, work[f].phase = "sending", AfterSuccess(f),
         origin' = origin, buffer' = buffer,
         doubtful' = doubtful, rejected' = rejected, refused \subseteq refused',
         Elems(work[f].batch) \subseteq Stored' \cup refused',
         Stored \subseteq Stored', StoredKnown', Once',
         Stored' \subseteq Stored \cup Elems(work[f].batch)
  PROVE  IInv'
  <1> PICK p \in Projects : work[f].project = p
    BY DEF IInv, Shape, BatchIsFront
  <1> DEFINE s == Held(f, p)
             b == work[f].batch
             k == work[f].want
             size == Smaller(2 * work[f].size, MaxBatchSize)
  <1>1. /\ s = owned[f][p].lines /\ s \in Seq(Nat)
        /\ b \in Seq(Nat) /\ DOMAIN b = 1 .. Len(b) /\ Len(b) \in Nat
        /\ Len(s) \in Nat /\ k \in Len(b) .. Len(s)
        /\ \A i \in DOMAIN b : b[i] = s[i]
    BY HeldDef, HeldType, BatchOfQueue DEF IInv
  <1>2. size \in 1 .. MaxBatchSize
    <2>1. work[f].size \in 1 .. MaxBatchSize
      BY DEF IInv, Shape, BatchIsFront
    <2> QED
      BY <2>1, BatchSizeAssumption DEF Smaller
  <1>3. Continue(f, Drop(owned[f][p].lines, k), size)
    BY DEF AfterSuccess
  <1>4. \A i \in 1 .. k : s[i] \in Elems(b) \cup rejected
    BY <1>1 DEF IInv, Trimmed
  <1> HIDE DEF s, b, k, size
  <1>5. k \in 0 .. Len(s)
    BY <1>1
  <1>6. Drop(owned[f][p].lines, k) \in Seq(Nat)
    BY <1>1, <1>5, Split
  <1>7. Removed(f, p, k)
    BY <1>1, <1>3, <1>5, ContinueMoves DEF IInv, s
  <1>8. Trimmed'
    BY <1>2, <1>3, <1>6, ContinueTrimmed DEF IInv
  <1>9. \A i \in 1 .. k : s[i] \in Stored' \cup rejected' \cup refused'
    BY <1>4 DEF b
  <1>10. \A n \in Stored' : n \in Stored \/ \E i \in 1 .. k : n = s[i]
    <2>1. \A i \in DOMAIN b : i \in 1 .. k
      BY <1>1, <1>5
    <2> QED
      BY <1>1, <2>1 DEF Elems, b
  <1> QED
    BY <1>7, <1>8, <1>9, <1>10, RemovedStep DEF s

(* A 413 trims the batch of lines the answer has just turned down, or      *)
(* gives up on the single line the batch was down to.                      *)
LEMMA TooLargeStep ==
  ASSUME IInv, Shape', NEW f \in Flushers, SendTooLarge(f)
  PROVE  IInv'
  <1> PICK p \in Projects : work[f].project = p
    BY DEF IInv, Shape, BatchIsFront, SendTooLarge
  <1> DEFINE s == Held(f, p)
             b == work[f].batch
             half == IF work[f].size \div 2 < 1 THEN 1 ELSE work[f].size \div 2
             size == work[f].size
  <1>1. /\ work[f].phase = "sending"
        /\ rejected' = rejected \cup Elems(b)
        /\ half = size => Continue(f, Drop(owned[f][p].lines, 1), MaxBatchSize)
        /\ half # size => /\ work' = [work EXCEPT ![f].size = half,
                               ![f].batch = Prefix(@, Smaller(half, Len(@)))]
                          /\ owned' = owned
        /\ origin' = origin /\ buffer' = buffer /\ received' = received
        /\ refused' = refused /\ doubtful' = doubtful
    BY DEF SendTooLarge
  <1>2. /\ s = owned[f][p].lines /\ s \in Seq(Nat)
        /\ b \in Seq(Nat) /\ b # <<>> /\ DOMAIN b = 1 .. Len(b) /\ Len(b) \in Nat
        /\ Len(s) \in Nat /\ work[f].want \in Len(b) .. Len(s)
        /\ \A i \in DOMAIN b : b[i] = s[i]
    <2>1. b # <<>>
      BY <1>1 DEF IInv, Shape, BatchIsFront
    <2> QED
      BY <1>1, <2>1, HeldDef, HeldType, BatchOfQueue DEF IInv
  <1>3. Stored' = Stored
    BY <1>1 DEF Stored, ReceivedLines
  <1>4. StoredKnown'
    BY <1>1 DEF IInv, StoredKnown, Line
  <1>5. Once'
    BY <1>1 DEF IInv, NoResend, Once
  <1>6. WorkType /\ OwnedType
    BY TypeParts DEF IInv, Shape
  <1> HIDE DEF s, b, half, size
  <1>7. CASE half = size
    <2>1. 1 \in 0 .. Len(s) /\ Len(b) >= 1
      BY <1>2, EmptySeq
    <2>2. Drop(owned[f][p].lines, 1) \in Seq(Nat)
      BY <1>2, <2>1, Split
    <2>3. Removed(f, p, 1)
      BY <1>1, <1>7, <2>1, ContinueMoves DEF IInv, s
    <2>7. Shape /\ Trimmed /\ MaxBatchSize \in 1 .. MaxBatchSize
      BY BatchSizeAssumption DEF IInv
    <2>8. Continue(f, Drop(owned[f][p].lines, 1), MaxBatchSize) /\ rejected \subseteq rejected'
          /\ work[f].phase = "sending"
      BY <1>1, <1>7
    <2>4. Trimmed'
      BY <2>2, <2>7, <2>8, ContinueTrimmed
    <2>5. s[1] \in rejected'
      BY <1>1, <1>2, <2>1 DEF Elems
    <2>6. \A i \in 1 .. 1 : s[i] \in Stored' \cup rejected' \cup refused'
      BY <2>5
    <2> QED
      BY <1>1, <1>3, <1>4, <1>5, <2>3, <2>4, <2>6, RemovedStep DEF s
  <1>8. CASE half # size
    <2>1. \A g \in Holders, q \in Projects : Held(g, q)' = Held(g, q)
      BY <1>1, <1>8, HeldDef, HeldDefNext
    <2>2. Distinct' /\ \A h \in Holders, q \in Projects : Elems(Held(h, q))' = Elems(Held(h, q))
      BY <2>1, KeepKeeps DEF IInv, Keep
    <2>3. /\ \A g \in Flushers : g # f => work'[g] = work[g] /\ owned'[g] = owned[g]
          /\ work'[f].want = work[f].want /\ work'[f].project = work[f].project
      <3> DEFINE b2 == Prefix(work[f].batch, Smaller(half, Len(work[f].batch)))
                 w2 == [work[f] EXCEPT !.size = half, !.batch = b2]
      <3>1. work' = [work EXCEPT ![f] = w2] /\ owned' = owned
        BY <1>1, <1>8
      <3>2. work[f] \in Work
        BY <1>6 DEF WorkType
      <3> HIDE DEF b2
      <3>3. w2.want = work[f].want /\ w2.project = work[f].project
        BY <3>2 DEF Work
      <3> HIDE DEF w2
      <3> QED
        BY <1>6, <3>1, <3>3 DEF WorkType
    <2>4. \A i \in 1 .. work[f].want : owned[f][p].lines[i] \in rejected'
      BY <1>1 DEF IInv, Trimmed, b
    <2>5. Trimmed'
      BY <1>1, <1>8, <2>3, <2>4, TrimmedStep DEF IInv
    <2> QED
      BY <1>1, <2>2, <2>5, QuietStep
  <1> QED
    BY <1>7, <1>8

(* An error brings the whole queue back to the buffer, whether or not the  *)
(* API stored the batch.                                                   *)
LEMMA ReturnStep ==
  ASSUME IInv, Shape', NEW f \in Flushers, work[f].phase = "sending",
         ReturnLinesToBuffer(f), origin' = origin,
         Stored \subseteq Stored', StoredKnown', Once',
         Stored' \subseteq Stored \cup doubtful', doubtful \subseteq doubtful',
         rejected' = rejected, refused' = refused
  PROVE  IInv'
  <1> PICK p \in Projects : work[f].project = p
    BY DEF IInv, Shape, BatchIsFront
  <1>1. Returned(f, p)
    BY ReturnMoves DEF IInv
  <1>2. /\ Distinct'
        /\ \A h \in Holders, q \in Projects :
              Elems(Held(h, q))' =
                IF q = p /\ h = Shared THEN Elems(Held(f, p)) \cup Elems(Held(Shared, p))
                ELSE IF q = p /\ h = f THEN {} ELSE Elems(Held(h, q))
    BY <1>1, ReturnedKeeps DEF IInv
  <1>3. f \in Holders /\ Shared \in Holders
    BY HeldDef
  <1>4. Pending' = Pending
    <2>1. \A n \in Pending' : n \in Pending
      BY <1>2, <1>3, PendingDef
    <2>2. \A n \in Pending : n \in Pending'
      <3> TAKE n \in Pending
      <3> PICK h \in Holders, q \in Projects : n \in Elems(Held(h, q))
        BY PendingDef
      <3>1. CASE q = p /\ h \in {f, Shared}
        <4>1. n \in Elems(Held(Shared, p))'
          BY <1>2, <1>3, <3>1
        <4> QED
          BY <1>3, <4>1, PendingDef
      <3>2. CASE ~(q = p /\ h \in {f, Shared})
        <4>1. n \in Elems(Held(h, q))'
          BY <1>2, <3>2
        <4> QED
          BY <4>1, PendingDef
      <3> QED
        BY <3>1, <3>2
    <2> QED
      BY <2>1, <2>2
  <1>5. Known'
    BY <1>2, <1>3 DEF IInv, Known, Line
  <1>6. Trimmed'
    <2>1. OwnedType /\ WorkType
      BY TypeParts DEF IInv, Shape
    <2>2. /\ work'[f].phase = "pick"
          /\ \A g \in Flushers : g # f => work'[g] = work[g] /\ owned'[g] = owned[g]
      BY <2>1 DEF ReturnLinesToBuffer, Resting, OwnedType, WorkType
    <2> QED
      BY <2>2, TrimmedStep DEF IInv
  <1> QED
    BY <1>2, <1>4, <1>5, <1>6, MovedStep

(* Every action keeps the invariant.                                       *)
LEMMA IInvNext == IInv /\ [Next]_vars => IInv'
  <1> SUFFICES ASSUME IInv, [Next]_vars PROVE IInv'
    OBVIOUS
  <1>0. Shape /\ Shape' /\ Distinct
    BY ShapeNext DEF IInv
  <1>1. ASSUME origin' = origin, received' = received
        PROVE  Stored' = Stored /\ StoredKnown' /\ (doubtful' = doubtful => Once')
    <2>1. StoredKnown'
      BY <1>1 DEF IInv, StoredKnown, Line
    <2>2. Stored' = Stored
      BY <1>1 DEF Stored, ReceivedLines
    <2>3. doubtful' = doubtful => Once'
      BY <1>1 DEF IInv, NoResend, Once
    <2> QED
      BY <2>1, <2>2, <2>3
  <1>2. ASSUME NEW p \in Projects, NEW v \in Providers, NEW n \in 0 .. MaxRead,
               AddLinesForDir(p, v, n)
        PROVE  IInv'
    <2>1. n \in Nat /\ Buffered(p, v, n) /\ owned' = owned
      BY <1>2, BoundAssumption DEF AddLinesForDir
    <2>2. Added(p, n)
      BY <1>0, <2>1, BufferedMoves
    <2>3. Trimmed'
      BY <1>2 DEF AddLinesForDir, IInv, Trimmed, Elems
    <2> QED
      BY <1>0, <1>2, <2>1, <2>2, <2>3, AddedStep DEF AddLinesForDir
  <1>3. ASSUME NEW f \in Requests, NEW p \in Projects, NEW n \in 1 .. MaxRead,
               ScanFile(f, p, n)
        PROVE  IInv'
    <2>1. n \in Nat /\ Buffered(p, Claude, n) /\ owned' = owned /\ f \in Flushers
      BY <1>3, BoundAssumption DEF ScanFile, Flushers
    <2>2. Added(p, n)
      BY <1>0, <2>1, BufferedMoves, ClaudeAssumption
    <2>3. Trimmed'
      <3>1. work' = [work EXCEPT ![f] = [Resting("scan") EXCEPT !.project = p]] /\ WorkType
        BY <1>0, <1>3, TypeParts DEF ScanFile, Shape
      <3>2. work'[f].phase = "scan" /\ \A g \in Flushers : g # f => work'[g] = work[g]
        BY <2>1, <3>1 DEF Resting, WorkType
      <3>3. rejected' = rejected
        BY <1>3 DEF ScanFile
      <3> QED
        BY <2>1, <3>2, <3>3, TrimmedStep DEF IInv
    <2> QED
      BY <1>0, <1>3, <2>1, <2>2, <2>3, AddedStep DEF ScanFile
  <1>4. ASSUME Keep, Trimmed', origin' = origin, received' = received,
               doubtful' = doubtful, rejected' = rejected, refused' = refused
        PROVE  IInv'
    BY <1>0, <1>4, KeepKeeps, QuietStep
  <1>5. ASSUME NEW S \in SUBSET Projects, UpdateTargets(S) PROVE IInv'
    <2>1. Keep
      BY <1>5, HeldDef, HeldDefNext DEF UpdateTargets, Keep
    <2>2. Trimmed'
      BY <1>5 DEF UpdateTargets, IInv, Trimmed, Elems
    <2> QED
      BY <1>4, <1>5, <2>1, <2>2 DEF UpdateTargets
  <1>6. ASSUME NEW f \in Flushers, Flush(f) PROVE IInv'
    <2>1. /\ origin' = origin /\ received' = received /\ doubtful' = doubtful
          /\ rejected' = rejected /\ refused' = refused
      BY <1>6 DEF Flush
    <2>2. Trimmed'
      <3>1. OwnedType /\ WorkType
        BY <1>0, TypeParts DEF Shape
      <3>2. /\ work'[f].phase # "sending"
            /\ \A g \in Flushers : g # f => work'[g] = work[g] /\ owned'[g] = owned[g]
        BY <1>6, <3>1 DEF Flush, Resting, OwnedType, WorkType
      <3> QED
        BY <2>1, <3>2, TrimmedStep DEF IInv
    <2>3. CASE Keep
      BY <1>4, <2>1, <2>2, <2>3
    <2>4. CASE Swapped(f)
      <3>1. /\ Distinct'
            /\ \A h \in Holders, q \in Projects :
                 Elems(Held(h, q))' = IF h = f THEN Elems(Held(Shared, q))
                                      ELSE IF h = Shared THEN {} ELSE Elems(Held(h, q))
        BY <1>0, <2>4, SwappedKeeps
      <3>2. f \in Holders /\ Shared \in Holders /\ f # Shared
        BY HeldDef
      <3>3. \A q \in Projects : Elems(Held(f, q)) = {}
        BY <2>4, ElemsEmpty DEF Swapped
      <3>4. \A n \in Pending' : n \in Pending
        BY <3>1, <3>2, PendingDef
      <3>5. \A n \in Pending : n \in Pending'
        <4> TAKE n \in Pending
        <4> PICK h \in Holders, q \in Projects : n \in Elems(Held(h, q))
          BY PendingDef
        <4>1. h # f
          BY <3>3
        <4>2. CASE h = Shared
          <5>1. n \in Elems(Held(f, q))'
            BY <3>1, <3>2, <4>2
          <5> QED
            BY <3>2, <5>1, PendingDef
        <4>3. CASE h # Shared
          <5>1. n \in Elems(Held(h, q))'
            BY <3>1, <4>1, <4>3
          <5> QED
            BY <5>1, PendingDef
        <4> QED
          BY <4>2, <4>3
      <3>6. Known'
        BY <2>1, <3>1, <3>2 DEF IInv, Known, Line
      <3> QED
        BY <1>0, <1>1, <2>1, <2>2, <3>1, <3>4, <3>5, <3>6, MovedStep
    <2> QED
      BY <1>0, <1>6, <2>3, <2>4, FlushMoves
  <1>7. ASSUME NEW f \in Flushers, FlushDone(f) PROVE IInv'
    <2>1. Keep
      BY <1>0, <1>7, DoneMoves
    <2>2. Trimmed'
      <3>1. OwnedType /\ WorkType
        BY <1>0, TypeParts DEF Shape
      <3>2. /\ work'[f].phase # "sending"
            /\ \A g \in Flushers : g # f => work'[g] = work[g] /\ owned'[g] = owned[g]
        BY <1>7, <3>1 DEF FlushDone, Resting, OwnedType, WorkType
      <3> QED
        BY <1>7, <3>2, TrimmedStep DEF IInv, FlushDone
    <2> QED
      BY <1>4, <1>7, <2>1, <2>2 DEF FlushDone
  <1>8. ASSUME NEW f \in Flushers, NEW p \in Projects, FlushProject(f, p) PROVE IInv'
    <2>1. Keep
      BY <1>8, HeldDef, HeldDefNext DEF FlushProject, Keep
    <2>2. Trimmed'
      <3>1. OwnedType /\ WorkType
        BY <1>0, TypeParts DEF Shape
      <3> DEFINE rest == owned[f][p].lines
                 w == Sending(p, rest, MaxBatchSize)
      <3>2. rest \in Seq(Nat) /\ rest # <<>> /\ MaxBatchSize \in 1 .. MaxBatchSize
        BY <1>8, <3>1, BatchSizeAssumption DEF OwnedType, Entry, FlushProject
      <3>3. w.project = p /\ \A i \in 1 .. w.want : rest[i] \in Elems(w.batch)
        BY <3>2, SendingTrimmed
      <3>4. work' = [work EXCEPT ![f] = w] /\ owned' = owned /\ rejected' = rejected
        BY <1>8 DEF FlushProject
      <3> HIDE DEF w
      <3>5. work'[f] = w /\ \A g \in Flushers : g # f => work'[g] = work[g] /\ owned'[g] = owned[g]
        BY <3>1, <3>4 DEF WorkType
      <3> QED
        BY <3>3, <3>4, <3>5, TrimmedStep DEF IInv
    <2> QED
      BY <1>4, <1>8, <2>1, <2>2 DEF FlushProject
  <1>9. ASSUME NEW f \in Flushers, SendOK(f) PROVE IInv'
    <2>1. /\ work[f].phase = "sending" /\ Store(f) /\ AfterSuccess(f)
          /\ origin' = origin /\ buffer' = buffer /\ doubtful' = doubtful
          /\ rejected' = rejected /\ refused' = refused
      BY <1>9 DEF SendOK
    <2>2. Stored' = Stored \cup Elems(work[f].batch) /\ StoredKnown' /\ Once'
      BY <2>1, StoreBooks DEF Once
    <2> QED
      BY <1>0, <2>1, <2>2, SuccessStep
  <1>10. ASSUME NEW f \in Flushers, SendRefused(f) PROVE IInv'
    <2>1. /\ work[f].phase = "sending" /\ AfterSuccess(f)
          /\ origin' = origin /\ buffer' = buffer /\ doubtful' = doubtful
          /\ rejected' = rejected /\ refused' = refused \cup Elems(work[f].batch)
          /\ received' = received
      BY <1>10 DEF SendRefused
    <2> QED
      BY <1>0, <1>1, <2>1, SuccessStep
  <1>11. ASSUME NEW f \in Flushers, SendTooLarge(f) PROVE IInv'
    BY <1>0, <1>11, TooLargeStep
  <1>12. ASSUME NEW f \in Flushers, SendError(f) PROVE IInv'
    <2>1. /\ work[f].phase = "sending" /\ ReturnLinesToBuffer(f)
          /\ origin' = origin /\ doubtful' = doubtful
          /\ rejected' = rejected /\ refused' = refused /\ received' = received
      BY <1>12 DEF SendError
    <2> QED
      BY <1>0, <1>1, <2>1, ReturnStep
  <1>13. ASSUME NEW f \in Flushers, SendReplyLost(f) PROVE IInv'
    <2>1. /\ work[f].phase = "sending" /\ Store(f) /\ ReturnLinesToBuffer(f)
          /\ origin' = origin /\ doubtful' = doubtful \cup Elems(work[f].batch)
          /\ rejected' = rejected /\ refused' = refused
      BY <1>13 DEF SendReplyLost
    <2>2. /\ Stored' = Stored \cup Elems(work[f].batch) /\ StoredKnown'
          /\ \A p \in Projects : \A i, j \in DOMAIN received'[p] :
               i # j /\ received'[p][i].line = received'[p][j].line
                 => received'[p][i].line \in doubtful
      BY <2>1, StoreBooks
    <2>3. Once'
      BY <2>1, <2>2 DEF Once
    <2> QED
      BY <1>0, <2>1, <2>2, <2>3, ReturnStep
  <1>14. CASE UNCHANGED vars
    <2>1. Keep
      BY <1>14, HeldDef, HeldDefNext DEF vars, Keep
    <2>2. Trimmed'
      BY <1>14 DEF vars, IInv, Trimmed, Elems
    <2> QED
      BY <1>4, <1>14, <2>1, <2>2 DEF vars
  <1> QED
    BY <1>2, <1>3, <1>5, <1>6, <1>7, <1>8, <1>9, <1>10, <1>11, <1>12, <1>13, <1>14
       DEF Next, FlusherStep
-----------------------------------------------------------------------------
LEMMA Invariant == Spec => []IInv
  <1>1. Init => IInv
    BY IInvInit
  <1>2. IInv /\ [Next]_vars => IInv'
    BY IInvNext
  <1> QED
    BY <1>1, <1>2, PTL DEF Spec

(* Flush hands the buffer over and an error hands lines back; no unsent    *)
(* line is ever with two owners or twice in a queue, for any number of     *)
(* goroutines, projects, lines and any batch size.                         *)
THEOREM OneOwner == Spec => []OwnedOnce
  <1>1. IInv => OwnedOnce
    BY DistinctIsOwnedOnce DEF IInv
  <1> QED
    BY <1>1, Invariant, PTL

(* The daemon repeats a stored line only when SendLogs returned an error.  *)
THEOREM NoAcknowledgedLineResent == Spec => []NoResend
  <1>1. IInv => NoResend
    BY DEF IInv
  <1> QED
    BY <1>1, Invariant, PTL

(* A line that is neither held nor stored was in a batch the server turned *)
(* down, with 413 or with Success = false.                                 *)
THEOREM NothingLostByTheDaemonAlone == Spec => []LostOnlyWhenTurnedDown
  <1>1. IInv => LostOnlyWhenTurnedDown
    BY DEF IInv
  <1> QED
    BY <1>1, Invariant, PTL

(* The API stores a line under the project it was read for, whatever the   *)
(* interleaving of flushers and whatever the configuration became since.   *)
THEOREM StoredUnderItsProject == Spec => []RightProject
  <1>1. IInv => RightProject
    BY DEF IInv, StoredKnown, RightProject, ReceivedLines
  <1> QED
    BY <1>1, Invariant, PTL
-----------------------------------------------------------------------------
(* Reading order, when Flush has one caller.                               *)

OneFlusher == \A f, g \in Flushers : f = g

Rising(s) == \A i, j \in DOMAIN s : i < j => s[i] < s[j]
Before(S, T) == \A m \in S, n \in T : m < n

(* Every queue is in reading order, a goroutine's before the buffer's.     *)
Ordered ==
  /\ \A h \in Holders, p \in Projects : Rising(Held(h, p))
  /\ \A f \in Flushers, p \in Projects : Before(Elems(Held(f, p)), Elems(Held(Shared, p)))

(* The lines of a project that wait anywhere in the daemon.                *)
Waits(p) == UNION {Elems(Held(h, p)) : h \in Holders}

(* What waits is newer than what is stored, a lost reply aside.            *)
StoredFirst ==
  \A p \in Projects : \A m \in Waits(p), n \in ReceivedLines(p) :
    m > n \/ n \in doubtful \/ m \in doubtful

LEMMA OrderedIsInOrder == Ordered /\ StoredFirst => InOrder
  <1> SUFFICES ASSUME Ordered, StoredFirst, NEW p \in Projects
               PROVE  /\ \A h \in Holders : \A i, j \in DOMAIN Held(h, p) :
                           i < j => Held(h, p)[i] < Held(h, p)[j]
                      /\ \A f \in Flushers :
                           \A m \in Elems(owned[f][p].lines), n \in Elems(buffer[p].lines) : m < n
                      /\ \A h \in Holders : \A m \in Elems(Held(h, p)), n \in ReceivedLines(p) :
                           m > n \/ n \in doubtful \/ m \in doubtful
    BY Zenon DEF InOrder
  <1>1. \A h \in Holders : \A i, j \in DOMAIN Held(h, p) :
          i < j => Held(h, p)[i] < Held(h, p)[j]
    BY DEF Ordered, Rising
  <1>2. \A f \in Flushers :
          \A m \in Elems(owned[f][p].lines), n \in Elems(buffer[p].lines) : m < n
    BY HeldDef DEF Ordered, Before
  <1>3. \A h \in Holders : \A m \in Elems(Held(h, p)) : m \in Waits(p)
    BY DEF Waits
  <1>4. \A h \in Holders : \A m \in Elems(Held(h, p)), n \in ReceivedLines(p) :
          m > n \/ n \in doubtful \/ m \in doubtful
    BY <1>3 DEF StoredFirst
  <1> QED
    BY <1>1, <1>2, <1>4

(* What is dropped from the front of a rising queue is older than the rest. *)
LEMMA DropRising ==
  ASSUME NEW s \in Seq(Nat), Rising(s), NEW k \in 0 .. Len(s)
  PROVE  /\ Rising(Drop(s, k))
         /\ \A i \in 1 .. k : \A n \in Elems(Drop(s, k)) : s[i] < n
  <1> DEFINE d == Drop(s, k)
  <1>1. /\ Len(s) \in Nat /\ DOMAIN s = 1 .. Len(s) /\ DOMAIN d = 1 .. Len(s) - k
        /\ \A i \in 1 .. Len(s) - k : d[i] = s[k + i]
    <2>1. /\ d \in Seq(Nat)
          /\ Len(d) = Len(s) - k
          /\ \A i \in 1 .. Len(s) - k : d[i] = s[k + i]
      BY Split
    <2> HIDE DEF d
    <2>2. Len(s) \in Nat /\ DOMAIN s = 1 .. Len(s) /\ DOMAIN d = 1 .. Len(d)
      BY <2>1
    <2> QED
      BY <2>1, <2>2
  <1> HIDE DEF d
  <1>2. \A i \in DOMAIN d : i \in Nat \ {0} /\ k + i \in DOMAIN s
    <2>1. \A i \in DOMAIN d : i \in Nat \ {0}
      BY <1>1
    <2>2. \A i \in DOMAIN d : k + i \in DOMAIN s
      BY <1>1
    <2> QED
      BY <2>1, <2>2
  <1>3. k \in Nat /\ \A i \in 1 .. k : i \in Nat /\ i <= k /\ i \in DOMAIN s
    BY <1>1
  <1>4. ASSUME NEW i \in DOMAIN d, NEW j \in DOMAIN d, i < j PROVE d[i] < d[j]
    <2>1. k + i < k + j
      BY <1>2, <1>3, <1>4
    <2> QED
      BY <1>1, <1>2, <2>1 DEF Rising
  <1>5. ASSUME NEW i \in 1 .. k, NEW j \in DOMAIN d PROVE s[i] < d[j]
    <2>1. i < k + j
      BY <1>2, <1>3
    <2> QED
      BY <1>1, <1>2, <1>3, <2>1 DEF Rising
  <1> QED
    BY <1>4, <1>5 DEF Rising, Elems, d

(* A rising queue in front of a rising queue of newer lines.               *)
LEMMA ConcatRising ==
  ASSUME NEW s \in Seq(Nat), NEW t \in Seq(Nat), Rising(s), Rising(t),
         Before(Elems(s), Elems(t))
  PROVE  Rising(s \o t)
  <1> DEFINE u == s \o t
  <1>1. /\ DOMAIN s = 1 .. Len(s) /\ DOMAIN t = 1 .. Len(t)
        /\ DOMAIN u = 1 .. Len(s) + Len(t)
        /\ \A i \in 1 .. Len(s) + Len(t) : u[i] = IF i <= Len(s) THEN s[i] ELSE t[i - Len(s)]
        /\ Len(s) \in Nat /\ Len(t) \in Nat
    BY ConcatProperties
  <1> HIDE DEF u
  <1>2. ASSUME NEW i \in DOMAIN u, i <= Len(s)
        PROVE  i \in DOMAIN s /\ u[i] = s[i]
    BY <1>1, <1>2
  <1>3. ASSUME NEW i \in DOMAIN u, ~(i <= Len(s))
        PROVE  i - Len(s) \in DOMAIN t /\ u[i] = t[i - Len(s)]
    BY <1>1, <1>3
  <1>4. \A i \in DOMAIN u : i \in Nat
    BY <1>1
  <1>5. ASSUME NEW i \in DOMAIN u, NEW j \in DOMAIN u, i < j PROVE u[i] < u[j]
    <2>1. CASE j <= Len(s)
      <3>1. i <= Len(s)
        BY <1>1, <1>4, <1>5, <2>1
      <3> QED
        BY <1>2, <1>5, <2>1, <3>1 DEF Rising
    <2>2. CASE i <= Len(s) /\ ~(j <= Len(s))
      <3>1. u[i] \in Elems(s) /\ u[j] \in Elems(t)
        BY <1>2, <1>3, <2>2 DEF Elems
      <3> QED
        BY <3>1 DEF Before
    <2>3. CASE ~(i <= Len(s))
      <3>1. ~(j <= Len(s)) /\ i - Len(s) < j - Len(s)
        BY <1>1, <1>4, <1>5, <2>3
      <3> QED
        BY <1>3, <2>3, <3>1 DEF Rising
    <2> QED
      BY <2>1, <2>2, <2>3
  <1> QED
    BY <1>5 DEF Rising, u

LEMMA RisingEmpty ==
  /\ Rising(<<>>)
  /\ \A S : Before({}, S) /\ Before(S, {})
  BY DEF Rising, Before

LEMMA WaitsDef ==
  /\ \A p, n : n \in Waits(p) <=> \E h \in Holders : n \in Elems(Held(h, p))
  /\ \A p, n : n \in Waits(p)' <=> \E h \in Holders : n \in Elems(Held(h, p)')
  BY DEF Waits, Elems

(* The order of the queues after a step, said of what is held then.        *)
LEMMA OrderedNext ==
  ASSUME \A h \in Holders, p \in Projects : Rising(Held(h, p)'),
         \A f \in Flushers, p \in Projects : Before(Elems(Held(f, p)'), Elems(Held(Shared, p)'))
  PROVE  Ordered'
  BY DEF Ordered, Rising, Before, Elems

LEMMA KeepOrdered ==
  ASSUME Ordered, Keep
  PROVE  Ordered' /\ \A q \in Projects : \A m \in Waits(q)' : m \in Waits(q)
  <1>1. \A h \in Holders, q \in Projects : Held(h, q)' = Held(h, q)
    BY DEF Keep
  <1>2. Ordered'
    BY <1>1, HeldDef, OrderedNext DEF Ordered
  <1>3. \A q \in Projects : \A m \in Waits(q)' : m \in Waits(q)
    BY <1>1, WaitsDef
  <1> QED
    BY <1>2, <1>3

(* The buffer keeps its order when a goroutine takes it whole.             *)
LEMMA SwappedOrdered ==
  ASSUME Ordered, NEW f \in Flushers, Swapped(f)
  PROVE  Ordered' /\ \A q \in Projects : \A m \in Waits(q)' : m \in Waits(q)
  <1>1. f \in Holders /\ Shared \in Holders /\ f # Shared
    BY HeldDef
  <1>2. \A h \in Holders, q \in Projects :
          Held(h, q)' = IF h = f THEN Held(Shared, q)
                        ELSE IF h = Shared THEN <<>> ELSE Held(h, q)
    BY <1>1 DEF Swapped
  <1>3. \A h \in Holders, q \in Projects : Rising(Held(h, q)')
    BY <1>1, <1>2, RisingEmpty DEF Ordered
  <1>4. \A g \in Flushers, q \in Projects : Before(Elems(Held(g, q)'), Elems(Held(Shared, q)'))
    BY <1>1, <1>2, RisingEmpty, ElemsEmpty
  <1>5. \A q \in Projects : \A m \in Waits(q)' : m \in Waits(q)
    BY <1>1, <1>2, WaitsDef, ElemsEmpty
  <1> QED
    BY <1>3, <1>4, <1>5, OrderedNext

(* New lines are newer than everything held.                               *)
LEMMA AddedOrdered ==
  ASSUME IInv, Ordered, NEW p \in Projects, NEW n \in Nat, Added(p, n)
  PROVE  /\ Ordered'
         /\ \A q \in Projects : \A m \in Waits(q)' : m \in Waits(q) \/ m > Len(origin)
  <1> DEFINE s == Held(Shared, p)
             t == Fresh(n)
  <1>0. Len(origin) \in Nat /\ origin \in Seq(Origin)
    <2>1. origin \in Seq(Origin)
      BY TypeParts DEF IInv, Shape, RestType
    <2> QED
      BY <2>1
  <1>1. Shared \in Holders /\ s \in Seq(Nat) /\ Rising(s)
    BY HeldDef, HeldType DEF IInv, Ordered
  <1>2. t \in Seq(Nat) /\ DOMAIN t = 1 .. n /\ \A i \in 1 .. n : t[i] = Len(origin) + i
    BY <1>0, FreshLines
  <1>3. \A h \in Holders, q \in Projects : \A m \in Elems(Held(h, q)) : m \in Nat /\ m <= Len(origin)
    BY <1>0 DEF IInv, Known, Line
  <1>4. Held(Shared, p)' = s \o t
    BY DEF Added
  <1>5. \A h \in Holders, q \in Projects : h # Shared \/ q # p => Held(h, q)' = Held(h, q)
    BY DEF Added, OthersKeep
  <1> HIDE DEF t
  <1>6. Rising(t) /\ \A m \in Elems(t) : m \in Nat /\ m > Len(origin)
    <2>1. \A i \in 1 .. n : i \in Nat \ {0}
      OBVIOUS
    <2>2. ASSUME NEW i \in 1 .. n, NEW j \in 1 .. n, i < j PROVE t[i] < t[j]
      BY <1>0, <1>2, <2>1, <2>2
    <2>3. \A i \in 1 .. n : t[i] \in Nat /\ t[i] > Len(origin)
      BY <1>0, <1>2, <2>1
    <2> QED
      BY <1>2, <2>2, <2>3 DEF Rising, Elems
  <1>7. \A f \in Flushers : Before(Elems(Held(f, p)), Elems(t))
    BY <1>0, <1>3, <1>6, HeldDef DEF Before
  <1>8. Before(Elems(s), Elems(t))
    BY <1>0, <1>1, <1>3, <1>6 DEF Before
  <1>9. \A f \in Flushers : Before(Elems(Held(f, p)), Elems(s))
    BY DEF Ordered
  <1> HIDE DEF s
  <1>10. Rising(s \o t) /\ Elems(s \o t) = Elems(s) \cup Elems(t)
    BY <1>1, <1>2, <1>6, <1>8, ConcatRising, ConcatElems
  <1>11. \A h \in Holders, q \in Projects : Rising(Held(h, q)')
    <2> TAKE h \in Holders, q \in Projects
    <2>1. CASE h = Shared /\ q = p
      BY <1>4, <1>10, <2>1
    <2>2. CASE h # Shared \/ q # p
      BY <1>5, <2>2 DEF Ordered
    <2> QED
      BY <2>1, <2>2
  <1>12. \A f \in Flushers, q \in Projects : Before(Elems(Held(f, q)'), Elems(Held(Shared, q)'))
    <2> TAKE f \in Flushers, q \in Projects
    <2>1. f \in Holders /\ f # Shared /\ Held(f, q)' = Held(f, q)
      BY <1>5, HeldDef
    <2>2. CASE q = p
      BY <1>4, <1>7, <1>9, <1>10, <2>1, <2>2 DEF Before
    <2>3. CASE q # p
      <3>1. Held(Shared, q)' = Held(Shared, q)
        BY <1>1, <1>5, <2>3
      <3> QED
        BY <2>1, <3>1 DEF Ordered
    <2> QED
      BY <2>2, <2>3
  <1>13. ASSUME NEW q \in Projects, NEW m \in Waits(q)'
         PROVE  m \in Waits(q) \/ m > Len(origin)
    <2> PICK h \in Holders : m \in Elems(Held(h, q)')
      BY WaitsDef
    <2>1. CASE h = Shared /\ q = p
      <3>1. m \in Elems(Held(Shared, q)) \/ m \in Elems(t)
        BY <1>4, <1>10, <2>1 DEF s
      <3> QED
        BY <1>1, <1>6, <3>1, WaitsDef
    <2>2. CASE h # Shared \/ q # p
      BY <1>5, <2>2, WaitsDef
    <2> QED
      BY <2>1, <2>2
  <1> QED
    BY <1>11, <1>12, <1>13, OrderedNext

(* What leaves the front of the only goroutine's queue is older than all   *)
(* that goes on waiting.                                                   *)
LEMMA RemovedOrdered ==
  ASSUME OneFlusher, IInv, Ordered, NEW f \in Flushers, NEW p \in Projects, NEW k,
         Removed(f, p, k)
  PROVE  /\ Ordered'
         /\ \A q \in Projects : \A m \in Waits(q)' : m \in Waits(q)
         /\ \A i \in 1 .. k : \A m \in Waits(p)' : Held(f, p)[i] < m
  <1> DEFINE s == Held(f, p)
             d == Drop(s, k)
  <1>0. f \in Holders /\ Shared \in Holders /\ f # Shared
        /\ \A h \in Holders : h = f \/ h = Shared
    BY HeldDef DEF OneFlusher
  <1>1. s \in Seq(Nat) /\ Rising(s) /\ k \in 0 .. Len(s)
    BY <1>0, HeldType DEF IInv, Ordered, Removed
  <1>2. Held(f, p)' = d
    BY DEF Removed
  <1>3. \A g \in Holders, q \in Projects : g # f \/ q # p => Held(g, q)' = Held(g, q)
    BY DEF Removed, OthersKeep
  <1>4. Before(Elems(s), Elems(Held(Shared, p)))
    BY DEF Ordered
  <1> HIDE DEF s
  <1>5. Rising(d) /\ \A i \in 1 .. k : \A n \in Elems(d) : s[i] < n
    BY <1>1, DropRising
  <1>6. Elems(d) \subseteq Elems(s)
    BY <1>1, SplitElems
  <1>7. \A i \in 1 .. k : s[i] \in Elems(s)
    <2>1. \A i \in 1 .. k : i \in DOMAIN s
      BY <1>1
    <2> QED
      BY <2>1 DEF Elems
  <1> HIDE DEF d
  <1>8. \A h \in Holders, q \in Projects : Rising(Held(h, q)')
    <2> TAKE h \in Holders, q \in Projects
    <2>1. CASE h = f /\ q = p
      BY <1>2, <1>5, <2>1
    <2>2. CASE h # f \/ q # p
      BY <1>3, <2>2 DEF Ordered
    <2> QED
      BY <2>1, <2>2
  <1>9. ASSUME NEW h \in Holders, NEW q \in Projects PROVE Elems(Held(h, q)') \subseteq Elems(Held(h, q))
    <2>1. CASE h = f /\ q = p
      BY <1>2, <1>6, <2>1 DEF s
    <2>2. CASE h # f \/ q # p
      BY <1>3, <2>2
    <2> QED
      BY <2>1, <2>2
  <1>10. \A g \in Flushers, q \in Projects : Before(Elems(Held(g, q)'), Elems(Held(Shared, q)'))
    BY <1>9, HeldDef DEF Ordered, Before
  <1>11. \A q \in Projects : \A m \in Waits(q)' : m \in Waits(q)
    BY <1>9, WaitsDef
  <1>12. ASSUME NEW i \in 1 .. k, NEW m \in Waits(p)' PROVE s[i] < m
    <2> PICK h \in Holders : m \in Elems(Held(h, p)')
      BY WaitsDef
    <2>1. CASE h = f
      BY <1>2, <1>5, <2>1
    <2>2. CASE h = Shared
      <3>1. m \in Elems(Held(Shared, p))
        BY <1>9, <2>2
      <3> QED
        BY <1>4, <1>7, <3>1 DEF Before
    <2> QED
      BY <1>0, <2>1, <2>2
  <1> QED
    BY <1>8, <1>10, <1>11, <1>12, OrderedNext DEF s

(* The only goroutine's lines go back in front of newer ones.              *)
LEMMA ReturnedOrdered ==
  ASSUME OneFlusher, IInv, Ordered, NEW f \in Flushers, NEW p \in Projects, Returned(f, p)
  PROVE  Ordered' /\ \A q \in Projects : \A m \in Waits(q)' : m \in Waits(q)
  <1> DEFINE s == Held(f, p)
             t == Held(Shared, p)
  <1>0. f \in Holders /\ Shared \in Holders /\ f # Shared
        /\ \A g \in Flushers : g = f
    BY HeldDef DEF OneFlusher
  <1>1. s \in Seq(Nat) /\ t \in Seq(Nat) /\ Rising(s) /\ Rising(t) /\ Before(Elems(s), Elems(t))
    BY <1>0, HeldType DEF IInv, Ordered
  <1>2. Held(Shared, p)' = s \o t /\ Held(f, p)' = <<>>
    BY DEF Returned
  <1>3. \A h \in Holders, q \in Projects : q # p \/ h \notin {f, Shared} => Held(h, q)' = Held(h, q)
    BY DEF Returned
  <1> HIDE DEF s, t
  <1>4. Rising(s \o t) /\ Elems(s \o t) = Elems(s) \cup Elems(t)
    BY <1>1, ConcatRising, ConcatElems
  <1>5. \A h \in Holders, q \in Projects : Rising(Held(h, q)')
    <2> TAKE h \in Holders, q \in Projects
    <2>1. CASE q = p /\ h = Shared
      BY <1>2, <1>4, <2>1
    <2>2. CASE q = p /\ h = f
      BY <1>2, RisingEmpty, <2>2
    <2>3. CASE q # p \/ h \notin {f, Shared}
      BY <1>3, <2>3 DEF Ordered
    <2> QED
      BY <2>1, <2>2, <2>3
  <1>6. \A g \in Flushers, q \in Projects : Before(Elems(Held(g, q)'), Elems(Held(Shared, q)'))
    <2> TAKE g \in Flushers, q \in Projects
    <2>1. g = f
      BY <1>0
    <2>2. CASE q = p
      BY <1>2, <2>1, <2>2, RisingEmpty, ElemsEmpty
    <2>3. CASE q # p
      <3>1. Held(g, q)' = Held(g, q) /\ Held(Shared, q)' = Held(Shared, q)
        BY <1>0, <1>3, <2>1, <2>3
      <3> QED
        BY <3>1 DEF Ordered
    <2> QED
      BY <2>2, <2>3
  <1>7. ASSUME NEW q \in Projects, NEW m \in Waits(q)' PROVE m \in Waits(q)
    <2> PICK h \in Holders : m \in Elems(Held(h, q)')
      BY WaitsDef
    <2>1. CASE q = p /\ h = Shared
      <3>1. m \in Elems(Held(f, q)) \/ m \in Elems(Held(Shared, q))
        BY <1>2, <1>4, <2>1 DEF s, t
      <3> QED
        BY <1>0, <3>1, WaitsDef
    <2>2. CASE q = p /\ h = f
      BY <1>2, <2>2, ElemsEmpty
    <2>3. CASE q # p \/ h \notin {f, Shared}
      BY <1>3, <2>3, WaitsDef
    <2> QED
      BY <2>1, <2>2, <2>3
  <1> QED
    BY <1>5, <1>6, <1>7, OrderedNext

(* Nothing stored, nothing newly held: what waits is still newer.          *)
LEMMA StoredFirstKept ==
  ASSUME StoredFirst, received' = received, doubtful \subseteq doubtful',
         \A q \in Projects : \A m \in Waits(q)' : m \in Waits(q)
  PROVE  StoredFirst'
  <1>1. \A q \in Projects : ReceivedLines(q)' = ReceivedLines(q)
    BY DEF ReceivedLines
  <1> SUFFICES ASSUME NEW q \in Projects, NEW m \in Waits(q)', NEW n \in ReceivedLines(q)'
               PROVE  m > n \/ n \in doubtful' \/ m \in doubtful'
    BY DEF StoredFirst
  <1>2. m \in Waits(q) /\ n \in ReceivedLines(q)
    BY <1>1
  <1> QED
    BY <1>2 DEF StoredFirst

(* What a project's log gains when a batch is stored.                      *)
LEMMA StoredLines ==
  ASSUME IInv, NEW f \in Flushers, work[f].phase = "sending", Store(f),
         NEW p \in Projects, work[f].project = p
  PROVE  \A q \in Projects : \A n \in ReceivedLines(q)' :
           n \in ReceivedLines(q) \/ (q = p /\ n \in Elems(work[f].batch))
  <1> DEFINE b == work[f].batch
             old == received[p]
             new == received'[p]
  <1>1. /\ \A q \in Projects : q # p => received'[q] = received[q]
        /\ DOMAIN old = 1 .. Len(old) /\ Len(old) \in Nat
        /\ DOMAIN b = 1 .. Len(b) /\ Len(b) \in Nat
        /\ DOMAIN new = 1 .. Len(old) + Len(b)
        /\ \A i \in 1 .. Len(old) : new[i].line = old[i].line
        /\ \A i \in 1 .. Len(b) : new[Len(old) + i].line = b[i]
    BY StoreType, TypeParts DEF IInv, Shape, RestType
  <1> SUFFICES ASSUME NEW q \in Projects, NEW i \in DOMAIN received'[q]
               PROVE  \/ received'[q][i].line \in ReceivedLines(q)
                      \/ q = p /\ received'[q][i].line \in Elems(b)
    BY DEF ReceivedLines
  <1>2. CASE q # p
    BY <1>1, <1>2 DEF ReceivedLines
  <1>3. CASE q = p
    <2> HIDE DEF b, old, new
    <2>0. i \in DOMAIN new /\ received'[q] = new
      BY <1>3 DEF new
    <2>1. CASE i <= Len(old)
      <3>1. i \in DOMAIN old /\ new[i].line = old[i].line
        BY <1>1, <2>0, <2>1
      <3> QED
        BY <1>3, <2>0, <3>1 DEF ReceivedLines, old
    <2>2. CASE ~(i <= Len(old))
      <3>1. i - Len(old) \in 1 .. Len(b) /\ Len(old) + (i - Len(old)) = i
        BY <1>1, <2>0, <2>2
      <3>2. new[Len(old) + (i - Len(old))].line = b[i - Len(old)]
        BY <1>1, <3>1
      <3>3. i - Len(old) \in DOMAIN b /\ new[i].line = b[i - Len(old)]
        BY <1>1, <3>1, <3>2
      <3> QED
        BY <1>3, <2>0, <3>3 DEF Elems
    <2> QED
      BY <2>1, <2>2
  <1> QED
    BY <1>2, <1>3

(* The answer to a batch is nil: its want lines leave the queue's front.   *)
LEMMA SuccessOrdered ==
  ASSUME OneFlusher, IInv, Ordered, NEW f \in Flushers, work[f].phase = "sending",
         AfterSuccess(f), buffer' = buffer, NEW p \in Projects, work[f].project = p
  PROVE  /\ Ordered'
         /\ \A q \in Projects : \A m \in Waits(q)' : m \in Waits(q)
         /\ \A n \in Elems(work[f].batch) : \A m \in Waits(p)' : n < m
  <1> DEFINE b == work[f].batch
             k == work[f].want
             size == Smaller(2 * work[f].size, MaxBatchSize)
  <1>1. /\ DOMAIN b = 1 .. Len(b) /\ Len(b) \in Nat
        /\ Len(Held(f, p)) \in Nat /\ k \in Len(b) .. Len(Held(f, p))
        /\ \A i \in DOMAIN b : b[i] = Held(f, p)[i]
    BY BatchOfQueue
  <1>2. Continue(f, Drop(owned[f][p].lines, k), size)
    BY DEF AfterSuccess
  <1> HIDE DEF b, k, size
  <1>3. k \in 0 .. Len(Held(f, p)) /\ \A i \in DOMAIN b : i \in 1 .. k
    BY <1>1
  <1>4. Removed(f, p, k)
    BY <1>2, <1>3, ContinueMoves DEF IInv
  <1>5. /\ Ordered'
        /\ \A q \in Projects : \A m \in Waits(q)' : m \in Waits(q)
        /\ \A i \in 1 .. k : \A m \in Waits(p)' : Held(f, p)[i] < m
    BY <1>4, RemovedOrdered
  <1>6. \A i \in DOMAIN b : \A m \in Waits(p)' : b[i] < m
    BY <1>1, <1>3, <1>5
  <1> QED
    BY <1>5, <1>6 DEF Elems, b

(* Every action of a single flusher keeps the reading order.               *)
LEMMA OrderNext ==
  ASSUME OneFlusher
  PROVE  IInv /\ Ordered /\ StoredFirst /\ [Next]_vars => Ordered' /\ StoredFirst'
  <1> SUFFICES ASSUME IInv, Ordered, StoredFirst, [Next]_vars
               PROVE  Ordered' /\ StoredFirst'
    OBVIOUS
  <1>0. Shape
    BY DEF IInv
  <1>1. ASSUME Keep, received' = received, doubtful' = doubtful
        PROVE  Ordered' /\ StoredFirst'
    BY <1>1, KeepOrdered, StoredFirstKept
  <1>2. ASSUME NEW p \in Projects, NEW n \in Nat, Added(p, n),
               received' = received, doubtful' = doubtful
        PROVE  Ordered' /\ StoredFirst'
    <2>1. /\ Ordered'
          /\ \A q \in Projects : \A m \in Waits(q)' : m \in Waits(q) \/ m > Len(origin)
      BY <1>2, AddedOrdered
    <2>2. Len(origin) \in Nat
      <3>1. origin \in Seq(Origin)
        BY <1>0, TypeParts DEF Shape, RestType
      <3> QED
        BY <3>1
    <2>3. \A q \in Projects : \A m \in ReceivedLines(q) : m \in 1 .. Len(origin)
      BY DEF IInv, StoredKnown, ReceivedLines, Line
    <2>4. \A q \in Projects : ReceivedLines(q)' = ReceivedLines(q)
      BY <1>2 DEF ReceivedLines
    <2>5. \A q \in Projects, m \in Int : \A n2 \in ReceivedLines(q) : m > Len(origin) => m > n2
      BY <2>2, <2>3
    <2> SUFFICES ASSUME NEW q \in Projects, NEW m \in Waits(q)', NEW n2 \in ReceivedLines(q)'
                 PROVE  m > n2 \/ n2 \in doubtful' \/ m \in doubtful'
      BY <2>1 DEF StoredFirst
    <2>6. n2 \in ReceivedLines(q)
      BY <2>4
    <2>7. CASE m \in Waits(q)
      BY <1>2, <2>6, <2>7 DEF StoredFirst
    <2>8. CASE m > Len(origin)
      <3>1. m \in Nat
        <4>1. \A h \in Holders : \A m2 \in Elems(Held(h, q)') : m2 \in Line'
          <5>1. Known'
            BY IInvNext DEF IInv
          <5> QED
            BY <5>1, ElemsNext DEF Known
        <4> QED
          BY <4>1, WaitsDef DEF Line
      <3> QED
        BY <2>5, <2>6, <2>8, <3>1
    <2> QED
      BY <2>1, <2>7, <2>8
  <1>3. ASSUME NEW p \in Projects, NEW v \in Providers, NEW n \in 0 .. MaxRead,
               AddLinesForDir(p, v, n)
        PROVE  Ordered' /\ StoredFirst'
    <2>1. n \in Nat /\ Buffered(p, v, n) /\ owned' = owned
      BY <1>3, BoundAssumption DEF AddLinesForDir
    <2>2. Added(p, n)
      BY <1>0, <2>1, BufferedMoves
    <2> QED
      BY <1>2, <1>3, <2>1, <2>2 DEF AddLinesForDir
  <1>4. ASSUME NEW f \in Requests, NEW p \in Projects, NEW n \in 1 .. MaxRead,
               ScanFile(f, p, n)
        PROVE  Ordered' /\ StoredFirst'
    <2>1. n \in Nat /\ Buffered(p, Claude, n) /\ owned' = owned
      BY <1>4, BoundAssumption DEF ScanFile
    <2>2. Added(p, n)
      BY <1>0, <2>1, BufferedMoves, ClaudeAssumption
    <2> QED
      BY <1>2, <1>4, <2>1, <2>2 DEF ScanFile
  <1>5. ASSUME NEW S \in SUBSET Projects, UpdateTargets(S) PROVE Ordered' /\ StoredFirst'
    <2>1. Keep
      BY <1>5, HeldDef, HeldDefNext DEF UpdateTargets, Keep
    <2> QED
      BY <1>1, <1>5, <2>1 DEF UpdateTargets
  <1>6. ASSUME NEW f \in Flushers, Flush(f) PROVE Ordered' /\ StoredFirst'
    <2>1. received' = received /\ doubtful' = doubtful
      BY <1>6 DEF Flush
    <2>2. CASE Keep
      BY <1>1, <2>1, <2>2
    <2>3. CASE Swapped(f)
      BY <2>1, <2>3, SwappedOrdered, StoredFirstKept
    <2> QED
      BY <1>0, <1>6, <2>2, <2>3, FlushMoves
  <1>7. ASSUME NEW f \in Flushers, FlushDone(f) PROVE Ordered' /\ StoredFirst'
    <2>1. Keep
      BY <1>0, <1>7, DoneMoves
    <2> QED
      BY <1>1, <1>7, <2>1 DEF FlushDone
  <1>8. ASSUME NEW f \in Flushers, NEW p \in Projects, FlushProject(f, p)
        PROVE  Ordered' /\ StoredFirst'
    <2>1. Keep
      BY <1>8, HeldDef, HeldDefNext DEF FlushProject, Keep
    <2> QED
      BY <1>1, <1>8, <2>1 DEF FlushProject
  <1>9. ASSUME NEW f \in Flushers, SendOK(f) PROVE Ordered' /\ StoredFirst'
    <2>1. /\ work[f].phase = "sending" /\ Store(f) /\ AfterSuccess(f)
          /\ buffer' = buffer /\ doubtful' = doubtful
      BY <1>9 DEF SendOK
    <2> PICK p \in Projects : work[f].project = p
      BY <1>0, <2>1 DEF Shape, BatchIsFront
    <2>2. /\ Ordered'
          /\ \A q \in Projects : \A m \in Waits(q)' : m \in Waits(q)
          /\ \A n \in Elems(work[f].batch) : \A m \in Waits(p)' : n < m
      BY <2>1, SuccessOrdered
    <2>3. \A q \in Projects : \A n \in ReceivedLines(q)' :
            n \in ReceivedLines(q) \/ (q = p /\ n \in Elems(work[f].batch))
      BY <2>1, StoredLines
    <2> SUFFICES ASSUME NEW q \in Projects, NEW m \in Waits(q)', NEW n \in ReceivedLines(q)'
                 PROVE  m > n \/ n \in doubtful' \/ m \in doubtful'
      BY <2>2 DEF StoredFirst
    <2>4. CASE n \in ReceivedLines(q)
      <3>1. m \in Waits(q)
        BY <2>2
      <3> QED
        BY <2>1, <2>4, <3>1 DEF StoredFirst
    <2>5. CASE q = p /\ n \in Elems(work[f].batch)
      BY <2>2, <2>5
    <2> QED
      BY <2>3, <2>4, <2>5
  <1>10. ASSUME NEW f \in Flushers, SendRefused(f) PROVE Ordered' /\ StoredFirst'
    <2>1. /\ work[f].phase = "sending" /\ AfterSuccess(f) /\ buffer' = buffer
          /\ doubtful' = doubtful /\ received' = received
      BY <1>10 DEF SendRefused
    <2> PICK p \in Projects : work[f].project = p
      BY <1>0, <2>1 DEF Shape, BatchIsFront
    <2> QED
      BY <2>1, SuccessOrdered, StoredFirstKept
  <1>11. ASSUME NEW f \in Flushers, SendTooLarge(f) PROVE Ordered' /\ StoredFirst'
    <2> DEFINE half == IF work[f].size \div 2 < 1 THEN 1 ELSE work[f].size \div 2
    <2>1. /\ work[f].phase = "sending"
          /\ buffer' = buffer /\ doubtful' = doubtful /\ received' = received
          /\ half = work[f].size =>
               Continue(f, Drop(owned[f][work[f].project].lines, 1), MaxBatchSize)
          /\ half # work[f].size => owned' = owned
      BY <1>11 DEF SendTooLarge
    <2> HIDE DEF half
    <2> PICK p \in Projects : work[f].project = p
      BY <1>0, <2>1 DEF Shape, BatchIsFront
    <2>2. CASE half # work[f].size
      <3>1. Keep
        BY <2>1, <2>2, HeldDef, HeldDefNext DEF Keep
      <3> QED
        BY <1>1, <2>1, <3>1
    <2>3. CASE half = work[f].size
      <3>1. /\ work[f].batch # <<>> /\ work[f].batch \in Seq(Nat)
            /\ work[f].want \in Len(work[f].batch) .. Len(Held(f, p))
            /\ Len(Held(f, p)) \in Nat
        BY <1>0, <2>1, BatchOfQueue DEF Shape, BatchIsFront
      <3>2. 1 \in 0 .. Len(Held(f, p))
        BY <3>1, EmptySeq
      <3>3. Removed(f, p, 1)
        BY <1>0, <2>1, <2>3, <3>2, ContinueMoves
      <3> QED
        BY <2>1, <3>3, RemovedOrdered, StoredFirstKept
    <2> QED
      BY <2>2, <2>3
  <1>12. ASSUME NEW f \in Flushers, SendError(f) PROVE Ordered' /\ StoredFirst'
    <2>1. /\ work[f].phase = "sending" /\ ReturnLinesToBuffer(f)
          /\ doubtful' = doubtful /\ received' = received
      BY <1>12 DEF SendError
    <2> PICK p \in Projects : work[f].project = p
      BY <1>0, <2>1 DEF Shape, BatchIsFront
    <2>2. Returned(f, p)
      BY <1>0, <2>1, ReturnMoves
    <2> QED
      BY <2>1, <2>2, ReturnedOrdered, StoredFirstKept
  <1>13. ASSUME NEW f \in Flushers, SendReplyLost(f) PROVE Ordered' /\ StoredFirst'
    <2>1. /\ work[f].phase = "sending" /\ Store(f) /\ ReturnLinesToBuffer(f)
          /\ doubtful' = doubtful \cup Elems(work[f].batch)
      BY <1>13 DEF SendReplyLost
    <2> PICK p \in Projects : work[f].project = p
      BY <1>0, <2>1 DEF Shape, BatchIsFront
    <2>2. Returned(f, p)
      BY <1>0, <2>1, ReturnMoves
    <2>3. Ordered' /\ \A q \in Projects : \A m \in Waits(q)' : m \in Waits(q)
      BY <2>2, ReturnedOrdered
    <2>4. \A q \in Projects : \A n \in ReceivedLines(q)' :
            n \in ReceivedLines(q) \/ (q = p /\ n \in Elems(work[f].batch))
      BY <2>1, StoredLines
    <2> SUFFICES ASSUME NEW q \in Projects, NEW m \in Waits(q)', NEW n \in ReceivedLines(q)'
                 PROVE  m > n \/ n \in doubtful' \/ m \in doubtful'
      BY <2>3 DEF StoredFirst
    <2>5. CASE n \in ReceivedLines(q)
      <3>1. m \in Waits(q)
        BY <2>3
      <3> QED
        BY <2>1, <2>5, <3>1 DEF StoredFirst
    <2>6. CASE n \in Elems(work[f].batch)
      BY <2>1, <2>6
    <2> QED
      BY <2>4, <2>5, <2>6
  <1>14. CASE UNCHANGED vars
    <2>1. Keep
      BY <1>14, HeldDef, HeldDefNext DEF vars, Keep
    <2> QED
      BY <1>1, <1>14, <2>1 DEF vars
  <1> QED
    BY <1>3, <1>4, <1>5, <1>6, <1>7, <1>8, <1>9, <1>10, <1>11, <1>12, <1>13, <1>14
       DEF Next, FlusherStep

LEMMA OrderInit == Init => Ordered /\ StoredFirst
  <1> SUFFICES ASSUME Init PROVE Ordered /\ StoredFirst
    OBVIOUS
  <1>1. \A h \in Holders, p \in Projects : Held(h, p) = <<>>
    BY HeldDef DEF Init, Absent
  <1>2. Ordered
    BY <1>1, HeldDef, RisingEmpty, ElemsEmpty DEF Ordered
  <1>3. StoredFirst
    BY <1>1, WaitsDef, ElemsEmpty DEF StoredFirst
  <1> QED
    BY <1>2, <1>3

(* Where Flush has a single caller, a project's lines reach the API in     *)
(* reading order whatever is refused, trimmed by a 413 or returned after   *)
(* an error; only a line whose reply was lost may be behind a newer one.   *)
THEOREM KeepsOrder ==
  ASSUME OneFlusher
  PROVE  Spec => []InOrder
  <1>1. Init => Ordered /\ StoredFirst
    BY OrderInit
  <1>2. IInv /\ (Ordered /\ StoredFirst) /\ [Next]_vars => (Ordered /\ StoredFirst)'
    BY OrderNext
  <1>3. (Ordered /\ StoredFirst) => InOrder
    BY OrderedIsInOrder
  <1> QED
    BY <1>1, <1>2, <1>3, Invariant, PTL DEF Spec
-----------------------------------------------------------------------------
(* The promise of LogDelivery: every step of a goroutine is one of its     *)
(* steps, or changes nothing it speaks of. The mapping is that of Delivery *)
(* in LogFlush; the invariant is IInv.                                     *)

(* What the mapping hides is free to change.                               *)
LEMMA Unseen ==
  ASSUME origin' = origin, Pending' = Pending, received' = received,
         rejected' = rejected, refused' = refused, doubtful' = doubtful
  PROVE  UNCHANGED Delivery!vars
  BY DEF Delivery!vars, Line, ReceivedLines

LEMMA SamePending ==
  ASSUME \A h \in Holders, q \in Projects : Elems(Held(h, q))' = Elems(Held(h, q))
  PROVE  Pending' = Pending
  BY PendingDef

LEMMA KeptPending ==
  ASSUME IInv, Keep
  PROVE  Pending' = Pending
  BY KeepKeeps, SamePending DEF IInv

(* Flush hands lines over, and keeps them all.                             *)
LEMMA FlushPending ==
  ASSUME IInv, NEW f \in Flushers, Flush(f)
  PROVE  Pending' = Pending
  <1>0. Shape /\ Distinct
    BY DEF IInv
  <1>1. CASE Keep
    BY <1>1, KeptPending
  <1>2. CASE Swapped(f)
    <2>1. \A h \in Holders, q \in Projects :
            Elems(Held(h, q))' = IF h = f THEN Elems(Held(Shared, q))
                                 ELSE IF h = Shared THEN {} ELSE Elems(Held(h, q))
      BY <1>0, <1>2, SwappedKeeps
    <2>2. f \in Holders /\ Shared \in Holders /\ f # Shared
      BY HeldDef
    <2>3. \A q \in Projects : Elems(Held(f, q)) = {}
      BY <1>2, ElemsEmpty DEF Swapped
    <2>4. \A n \in Pending' : n \in Pending
      BY <2>1, <2>2, PendingDef
    <2>5. \A n \in Pending : n \in Pending'
      <3> TAKE n \in Pending
      <3> PICK h \in Holders, q \in Projects : n \in Elems(Held(h, q))
        BY PendingDef
      <3>1. h # f
        BY <2>3
      <3>2. n \in Elems(Held(IF h = Shared THEN f ELSE h, q))'
        BY <2>1, <2>2, <3>1
      <3> QED
        BY <2>2, <3>2, PendingDef
    <2> QED
      BY <2>4, <2>5
  <1> QED
    BY <1>0, <1>1, <1>2, FlushMoves

(* An error hands lines back, and keeps them all.                          *)
LEMMA ReturnPending ==
  ASSUME IInv, NEW f \in Flushers, work[f].phase = "sending", ReturnLinesToBuffer(f)
  PROVE  Pending' = Pending
  <1>0. Shape /\ Distinct
    BY DEF IInv
  <1> PICK p \in Projects : p = work[f].project
    BY DEF IInv, Shape, BatchIsFront
  <1>1. Returned(f, p)
    BY <1>0, ReturnMoves
  <1>2. \A h \in Holders, q \in Projects :
          Elems(Held(h, q))' =
            IF q = p /\ h = Shared THEN Elems(Held(f, p)) \cup Elems(Held(Shared, p))
            ELSE IF q = p /\ h = f THEN {} ELSE Elems(Held(h, q))
    BY <1>0, <1>1, ReturnedKeeps
  <1>3. f \in Holders /\ Shared \in Holders /\ f # Shared
    BY HeldDef
  <1>4. \A n \in Pending' : n \in Pending
    BY <1>0, <1>2, <1>3, PendingDef
  <1>5. \A n \in Pending : n \in Pending'
    <2> TAKE n \in Pending
    <2> PICK h \in Holders, q \in Projects : n \in Elems(Held(h, q))
      BY PendingDef
    <2>1. n \in Elems(Held(IF q = p /\ h = f THEN Shared ELSE h, q))'
      BY <1>2, <1>3
    <2> QED
      BY <1>3, <2>1, PendingDef
  <1> QED
    BY <1>4, <1>5

(* The front of a queue is all that leaves with it.                        *)
LEMMA RemovedPending ==
  ASSUME IInv, NEW f \in Flushers, NEW p \in Projects, NEW k, Removed(f, p, k)
  PROVE  LET gone == {Held(f, p)[i] : i \in 1 .. k}
         IN gone \subseteq Pending /\ Pending' = Pending \ gone
  <1> DEFINE gone == {Held(f, p)[i] : i \in 1 .. k}
             s == Held(f, p)
  <1>0. Shape /\ Distinct /\ f \in Holders
    BY HeldDef DEF IInv
  <1>1. s \in Seq(Nat) /\ k \in 0 .. Len(s)
    BY <1>0, HeldType DEF Removed
  <1>2. /\ \A h \in Holders, q \in Projects : Elems(Held(h, q))' \subseteq Elems(Held(h, q))
        /\ \A i \in 1 .. k : \A h \in Holders, q \in Projects : s[i] \notin Elems(Held(h, q))'
        /\ \A i \in DOMAIN s : i > k => s[i] \in Elems(s)'
    BY <1>0, RemovedKeeps
  <1>3. \A n \in gone : n \in Elems(s)
    BY <1>1 DEF Elems
  <1>4. gone \subseteq Pending
    BY <1>0, <1>3, PendingDef
  <1>5. \A n \in Pending' : n \in Pending /\ n \notin gone
    BY <1>2, PendingDef
  <1>6. \A n \in Pending : n \notin gone => n \in Pending'
    <2> TAKE n \in Pending
    <2> HAVE n \notin gone
    <2> PICK h \in Holders, q \in Projects : n \in Elems(Held(h, q))
      BY PendingDef
    <2>1. CASE h = f /\ q = p
      <3>1. PICK i \in DOMAIN s : n = s[i]
        BY <2>1 DEF Elems
      <3>2. i > k
        BY <1>1, <3>1
      <3> QED
        BY <1>0, <1>2, <3>1, <3>2, PendingDef
    <2>2. CASE h # f \/ q # p
      <3>1. Held(h, q)' = Held(h, q)
        BY <2>2 DEF Removed, OthersKeep
      <3>2. n \in Elems(Held(h, q))'
        BY <3>1, ElemsNext
      <3> QED
        BY <3>2, PendingDef
    <2> QED
      BY <2>1, <2>2
  <1> QED
    BY <1>4, <1>5, <1>6

(* A goroutine only ever sends a batch the promise allows.                 *)
LEMMA SendsBatch ==
  ASSUME IInv, NEW f \in Flushers, work[f].phase = "sending",
         NEW p \in Projects, work[f].project = p
  PROVE  /\ Elems(work[f].batch) \in SUBSET Pending
         /\ Delivery!Batch(p, Elems(work[f].batch))
  <1> DEFINE sent == Elems(work[f].batch)
  <1>1. f \in Holders
    BY HeldDef
  <1>2. sent \subseteq Elems(Held(f, p))
    BY BatchOfQueue
  <1> HIDE DEF sent
  <1>3. sent \subseteq Pending
    BY <1>1, <1>2, PendingDef
  <1>4. \A n \in sent : n \in Line /\ origin[n].project = p
    BY <1>1, <1>2 DEF IInv, Known
  <1>5. \A n \in ReceivedLines(p) : n \in Stored
    BY <1>1 DEF Stored
  <1>6. sent \cap ReceivedLines(p) \subseteq doubtful
    BY <1>3, <1>5 DEF IInv, NoResend
  <1>7. Delivery!Batch(p, sent)
    BY <1>1, <1>3, <1>4, <1>6 DEF Delivery!Batch
  <1> QED
    BY <1>3, <1>7 DEF sent

(* What Store does is what the promise says of it.                         *)
LEMMA StoreStores ==
  ASSUME IInv, NEW f \in Flushers, work[f].phase = "sending", Store(f),
         NEW p \in Projects, work[f].project = p
  PROVE  [q \in Projects |-> ReceivedLines(q)]' =
           [[q \in Projects |-> ReceivedLines(q)] EXCEPT ![p] = @ \cup Elems(work[f].batch)]
  <1> DEFINE b == work[f].batch
             old == received[p]
             new == received'[p]
  <1>1. OwnedType /\ WorkType /\ BatchIsFront /\ received \in [Projects -> Seq(StoredLine)]
    BY TypeParts DEF IInv, Shape, TypeOK, StoredLine
  <1>3. /\ \A q \in Projects : q # p => received'[q] = received[q]
        /\ DOMAIN old = 1 .. Len(old) /\ Len(old) \in Nat
        /\ DOMAIN b = 1 .. Len(b) /\ Len(b) \in Nat
        /\ DOMAIN new = 1 .. Len(old) + Len(b)
        /\ \A i \in 1 .. Len(old) : new[i].line = old[i].line
        /\ \A i \in 1 .. Len(b) : new[Len(old) + i].line = b[i]
    BY <1>1, StoreType
  <1> HIDE DEF b, old, new
  <1>4. {new[i].line : i \in DOMAIN new} = {old[i].line : i \in DOMAIN old} \cup {b[i] : i \in DOMAIN b}
    <2>1. \A i \in DOMAIN new : new[i].line \in {old[j].line : j \in DOMAIN old} \cup {b[j] : j \in DOMAIN b}
      <3> TAKE i \in DOMAIN new
      <3>1. CASE i <= Len(old)
        BY <1>3, <3>1
      <3>2. CASE ~(i <= Len(old))
        <4>1. i - Len(old) \in DOMAIN b /\ Len(old) + (i - Len(old)) = i
          BY <1>3, <3>2
        <4> QED
          BY <1>3, <4>1
      <3> QED
        BY <3>1, <3>2
    <2>2. \A i \in DOMAIN old : i \in DOMAIN new /\ new[i].line = old[i].line
      BY <1>3
    <2>3. \A i \in DOMAIN b : Len(old) + i \in DOMAIN new /\ new[Len(old) + i].line = b[i]
      BY <1>3
    <2> QED
      BY <2>1, <2>2, <2>3
  <1>5. ReceivedLines(p)' = ReceivedLines(p) \cup Elems(b)
    BY <1>4 DEF ReceivedLines, Elems, old, new
  <1>6. \A q \in Projects : q # p => ReceivedLines(q)' = ReceivedLines(q)
    BY <1>3 DEF ReceivedLines
  <1> QED
    BY <1>5, <1>6 DEF b
-----------------------------------------------------------------------------
(* The steps.                                                              *)

(* A function on the first numbers is a sequence.                          *)
LEMMA FunSeq ==
  ASSUME NEW S, NEW n \in Nat, NEW s \in [1 .. n -> S]
  PROVE  s \in Seq(S) /\ Len(s) = n
  <1>1. s \in Seq(S)
    BY SeqDef
  <1> QED
    BY <1>1, LenProperties

(* Adding n equal elements to a sequence.                                  *)
LEMMA ExtendSeq ==
  ASSUME NEW S, NEW s \in Seq(S), NEW n \in Nat, NEW x \in S
  PROVE  s \o [i \in 1 .. n |-> x] =
           [m \in 1 .. Len(s) + n |-> IF m <= Len(s) THEN s[m] ELSE x]
  <1> DEFINE same == [i \in 1 .. n |-> x]
             both == [m \in 1 .. Len(s) + n |-> IF m <= Len(s) THEN s[m] ELSE x]
  <1>1. same \in Seq(S) /\ Len(same) = n
    <2>1. same \in [1 .. n -> S]
      OBVIOUS
    <2> QED
      BY <2>1, FunSeq
  <1>2. Len(s) \in Nat /\ Len(s) + n \in Nat /\ s \in [1 .. Len(s) -> S]
    BY LenProperties
  <1>3. both \in Seq(S) /\ Len(both) = Len(s) + n
    <2>1. both \in [1 .. Len(s) + n -> S]
      BY <1>2
    <2> QED
      BY <1>2, <2>1, FunSeq
  <1>4. \A m \in 1 .. Len(s) + n : m - Len(s) \in 1 .. n \/ m <= Len(s)
    BY <1>2
  <1>5. \A m \in 1 .. n : same[m] = x
    OBVIOUS
  <1>6. \A m \in 1 .. Len(s) + n : both[m] = IF m <= Len(s) THEN s[m] ELSE x
    OBVIOUS
  <1> HIDE DEF same, both
  <1>7. /\ s \o same \in Seq(S)
        /\ Len(s \o same) = Len(s) + n
        /\ \A m \in 1 .. Len(s) + n :
             (s \o same)[m] = IF m <= Len(s) THEN s[m] ELSE same[m - Len(s)]
    BY <1>1, ConcatProperties
  <1>8. \A m \in 1 .. Len(s) + n : (s \o same)[m] = both[m]
    BY <1>4, <1>5, <1>6, <1>7
  <1>9. s \o same = both
    BY <1>3, <1>7, <1>8, SeqEqual
  <1> QED
    BY <1>9 DEF same, both

(* Reading is the promise's Read, of the lines that are not transient.     *)
LEMMA ReadStep ==
  ASSUME IInv, NEW p \in Projects, NEW v \in Providers, NEW n \in 0 .. MaxRead,
         Buffered(p, v, n), owned' = owned, received' = received,
         rejected' = rejected, refused' = refused, doubtful' = doubtful
  PROVE  Delivery!Next \/ UNCHANGED Delivery!vars
  <1>0. Shape /\ Distinct /\ Known /\ n \in Nat
    BY BoundAssumption DEF IInv
  <1>1. Added(p, n)
    BY <1>0, BufferedMoves
  <1>2. /\ origin \in Seq(Origin) /\ Len(origin) \in Nat
        /\ origin' = origin \o [i \in 1 .. n |-> [project |-> p, provider |-> v]]
    BY <1>0 DEF Shape, TypeOK, Buffered
  <1>3. \A h \in Holders, q \in Projects :
          Elems(Held(h, q))' =
            IF q = p /\ h = Shared THEN Elems(Held(Shared, p)) \cup (Len(origin) + 1 .. Len(origin) + n)
            ELSE Elems(Held(h, q))
    BY <1>0, <1>1, AddedKeeps
  <1>4. Pending' = Pending \cup (Len(origin) + 1 .. Len(origin) + n)
    <2>1. \A m \in Pending' : m \in Pending \cup (Len(origin) + 1 .. Len(origin) + n)
      BY <1>3, HeldDef, PendingDef
    <2>2. \A m \in Len(origin) + 1 .. Len(origin) + n : m \in Pending'
      BY <1>3, HeldDef, PendingDef
    <2>3. \A m \in Pending : m \in Pending'
      <3> TAKE m \in Pending
      <3> PICK h \in Holders, q \in Projects : m \in Elems(Held(h, q))
        BY PendingDef
      <3>1. m \in Elems(Held(h, q))'
        BY <1>3
      <3> QED
        BY <3>1, PendingDef
    <2> QED
      BY <2>1, <2>2, <2>3
  <1> DEFINE projects == [m \in Line |-> origin[m].project]
  <1>5. projects \in Seq(Projects) /\ Len(projects) = Len(origin)
    <2>1. \A m \in 1 .. Len(origin) : origin[m] \in Origin
      BY <1>2, ElementOfSeq
    <2>2. projects \in [1 .. Len(origin) -> Projects]
      BY <2>1 DEF Line, Origin
    <2> HIDE DEF projects
    <2> QED
      BY <1>2, <2>2, FunSeq
  <1>6. projects' = projects \o [i \in 1 .. n |-> p]
    <2> DEFINE o == [project |-> p, provider |-> v]
    <2>1. origin' = [m \in 1 .. Len(origin) + n |-> IF m <= Len(origin) THEN origin[m] ELSE o]
      <3>1. o \in Origin
        BY DEF Origin
      <3> HIDE DEF o
      <3> QED
        BY <1>0, <1>2, <3>1, ExtendSeq DEF o
    <2>2. Len(origin') = Len(origin) + n
      <3>1. \A m \in 1 .. Len(origin) : origin[m] \in Origin
        BY <1>2, ElementOfSeq
      <3>2. o \in Origin
        BY DEF Origin
      <3> HIDE DEF o
      <3>3. origin' \in [1 .. Len(origin) + n -> Origin]
        BY <2>1, <3>1, <3>2
      <3>4. Len(origin) + n \in Nat
        BY <1>0, <1>2
      <3> QED
        BY <3>3, <3>4, FunSeq
    <2>3. projects' = [m \in 1 .. Len(origin) + n |-> IF m <= Len(origin) THEN origin[m].project ELSE p]
      BY <2>1, <2>2 DEF Line
    <2>4. \A m \in 1 .. Len(origin) : projects[m] = origin[m].project
      BY DEF Line
    <2>5. projects \o [i \in 1 .. n |-> p] =
            [m \in 1 .. Len(origin) + n |-> IF m <= Len(origin) THEN projects[m] ELSE p]
      <3> HIDE DEF projects
      <3> QED
        BY <1>0, <1>5, ExtendSeq
    <2> QED
      BY <1>0, <1>2, <2>3, <2>4, <2>5
  <1>7. [q \in Projects |-> ReceivedLines(q)]' = [q \in Projects |-> ReceivedLines(q)]
    BY DEF ReceivedLines
  <1>8. CASE n = 0
    <2>1. Pending' = Pending
      BY <1>2, <1>4, <1>8
    <2>2. origin' = origin
      BY <1>2, <1>8
    <2> QED
      BY <2>1, <2>2, Unseen
  <1>9. CASE n # 0
    <2>1. n \in 1 .. MaxRead
      BY <1>9, BoundAssumption
    <2>2. Delivery!Read(p, n)
      BY <1>4, <1>5, <1>6, <1>7 DEF Delivery!Read
    <2> QED
      BY <2>1, <2>2 DEF Delivery!Next
  <1> QED
    BY <1>8, <1>9

(* The lines that leave with a batch were in it, or turned down before.    *)
LEMMA Leaves ==
  ASSUME IInv, NEW f \in Flushers, work[f].phase = "sending", AfterSuccess(f), buffer' = buffer,
         NEW p \in Projects, work[f].project = p
  PROVE  \E gone \in SUBSET Pending :
           /\ Pending' = Pending \ gone
           /\ Elems(work[f].batch) \subseteq gone
           /\ gone \subseteq Elems(work[f].batch) \cup rejected
  <1> DEFINE k == work[f].want
             gone == {Held(f, p)[i] : i \in 1 .. k}
  <1>1. /\ k \in Len(work[f].batch) .. Len(Held(f, p))
        /\ DOMAIN work[f].batch = 1 .. Len(work[f].batch)
        /\ Len(Held(f, p)) \in Nat /\ Len(work[f].batch) \in Nat
        /\ \A i \in DOMAIN work[f].batch : work[f].batch[i] = Held(f, p)[i]
    BY BatchOfQueue
  <1>2. Removed(f, p, k)
    <2>1. k \in 0 .. Len(Held(f, p))
      BY <1>1
    <2>2. Continue(f, Drop(owned[f][p].lines, k), Smaller(2 * work[f].size, MaxBatchSize))
      BY DEF AfterSuccess
    <2>3. Shape
      BY DEF IInv
    <2> QED
      BY <2>1, <2>2, <2>3, ContinueMoves
  <1>3. gone \subseteq Pending /\ Pending' = Pending \ gone
    BY <1>2, RemovedPending
  <1>4. Elems(work[f].batch) \subseteq gone
    BY <1>1 DEF Elems
  <1>5. gone \subseteq Elems(work[f].batch) \cup rejected
    <2>1. \A i \in 1 .. k : owned[f][p].lines[i] \in Elems(work[f].batch) \cup rejected
      BY DEF IInv, Trimmed
    <2>2. Held(f, p) = owned[f][p].lines
      BY HeldDef
    <2> QED
      BY <2>1, <2>2
  <1> QED
    BY <1>3, <1>4, <1>5

LEMMA OKStep ==
  ASSUME IInv, NEW f \in Flushers, SendOK(f)
  PROVE  Delivery!Next
  <1>0. /\ work[f].phase = "sending" /\ Store(f) /\ AfterSuccess(f) /\ buffer' = buffer
        /\ origin' = origin /\ doubtful' = doubtful /\ rejected' = rejected /\ refused' = refused
    BY DEF SendOK
  <1> PICK p \in Projects : p = work[f].project
    BY <1>0 DEF IInv, Shape, BatchIsFront
  <1> DEFINE sent == Elems(work[f].batch)
  <1>1. sent \in SUBSET Pending /\ Delivery!Batch(p, sent)
    BY <1>0, SendsBatch
  <1>2. PICK gone \in SUBSET Pending :
          Pending' = Pending \ gone /\ sent \subseteq gone /\ gone \subseteq sent \cup rejected
    BY <1>0, Leaves
  <1>3. [q \in Projects |-> ReceivedLines(q)]' =
          [[q \in Projects |-> ReceivedLines(q)] EXCEPT ![p] = @ \cup sent]
    BY <1>0, StoreStores
  <1> HIDE DEF sent
  <1>4. Delivery!Deliver(p, sent, gone)
    BY <1>0, <1>1, <1>2, <1>3 DEF Delivery!Deliver, Line
  <1> QED
    BY <1>1, <1>4 DEF Delivery!Next

LEMMA RefusedStep ==
  ASSUME IInv, NEW f \in Flushers, SendRefused(f)
  PROVE  Delivery!Next
  <1>0. /\ work[f].phase = "sending" /\ AfterSuccess(f) /\ buffer' = buffer /\ received' = received
        /\ origin' = origin /\ doubtful' = doubtful /\ rejected' = rejected
        /\ refused' = refused \cup Elems(work[f].batch)
    BY DEF SendRefused
  <1> PICK p \in Projects : p = work[f].project
    BY <1>0 DEF IInv, Shape, BatchIsFront
  <1> DEFINE sent == Elems(work[f].batch)
  <1>1. sent \in SUBSET Pending /\ Delivery!Batch(p, sent)
    BY <1>0, SendsBatch
  <1>2. PICK gone \in SUBSET Pending :
          Pending' = Pending \ gone /\ sent \subseteq gone /\ gone \subseteq sent \cup rejected
    BY <1>0, Leaves
  <1>3. [q \in Projects |-> ReceivedLines(q)]' = [q \in Projects |-> ReceivedLines(q)]
    BY <1>0 DEF ReceivedLines
  <1>4. refused' = refused \cup sent
    BY <1>0
  <1> HIDE DEF sent
  <1>5. Delivery!TurnDown(p, sent, gone)
    BY <1>0, <1>1, <1>2, <1>3, <1>4 DEF Delivery!TurnDown, Line
  <1> QED
    BY <1>1, <1>5 DEF Delivery!Next

(* With 413 the first line is given up, or nothing leaves.                 *)
LEMMA TooLargeImplements ==
  ASSUME IInv, NEW f \in Flushers, SendTooLarge(f)
  PROVE  Delivery!Next
  <1>0. /\ work[f].phase = "sending" /\ buffer' = buffer /\ received' = received
        /\ origin' = origin /\ doubtful' = doubtful /\ refused' = refused
        /\ rejected' = rejected \cup Elems(work[f].batch)
    BY DEF SendTooLarge
  <1> PICK p \in Projects : p = work[f].project
    BY <1>0 DEF IInv, Shape, BatchIsFront
  <1> DEFINE sent == Elems(work[f].batch)
  <1>1. sent \in SUBSET Pending /\ Delivery!Batch(p, sent)
    BY <1>0, SendsBatch
  <1>2. \E gone \in SUBSET Pending : Pending' = Pending \ gone /\ gone \subseteq sent
    <2>1. /\ work[f].want \in Len(work[f].batch) .. Len(Held(f, p))
          /\ DOMAIN work[f].batch = 1 .. Len(work[f].batch)
          /\ Len(Held(f, p)) \in Nat /\ Len(work[f].batch) \in Nat
          /\ work[f].batch \in Seq(Nat)
          /\ \A i \in DOMAIN work[f].batch : work[f].batch[i] = Held(f, p)[i]
      BY <1>0, BatchOfQueue
    <2>2. CASE Continue(f, Drop(owned[f][p].lines, 1), MaxBatchSize)
      <3>1. work[f].batch # <<>>
        BY <1>0 DEF IInv, Shape, BatchIsFront
      <3>2. 1 \in DOMAIN work[f].batch /\ 1 \in 0 .. Len(Held(f, p))
        BY <2>1, <3>1
      <3>3. Shape
        BY DEF IInv
      <3>4. Removed(f, p, 1)
        BY <1>0, <2>2, <3>2, <3>3, ContinueMoves
      <3> DEFINE gone == {Held(f, p)[i] : i \in 1 .. 1}
      <3>5. gone \subseteq Pending /\ Pending' = Pending \ gone
        BY <3>4, RemovedPending
      <3>6. gone \subseteq sent
        BY <2>1, <3>2 DEF Elems
      <3> QED
        BY <3>5, <3>6
    <2>3. CASE UNCHANGED owned
      <3>1. Keep
        BY <1>0, <2>3, HeldDef, HeldDefNext DEF Keep
      <3>2. Pending' = Pending
        BY <3>1, KeptPending
      <3> WITNESS {} \in SUBSET Pending
      <3> QED
        BY <3>2
    <2> QED
      BY <2>2, <2>3 DEF SendTooLarge
  <1>3. PICK gone \in SUBSET Pending : Pending' = Pending \ gone /\ gone \subseteq sent
    BY <1>2
  <1>4. [q \in Projects |-> ReceivedLines(q)]' = [q \in Projects |-> ReceivedLines(q)]
    BY <1>0 DEF ReceivedLines
  <1>5. rejected' = rejected \cup sent
    BY <1>0
  <1> HIDE DEF sent
  <1>6. Delivery!TurnDown(p, sent, gone)
    BY <1>0, <1>1, <1>3, <1>4, <1>5 DEF Delivery!TurnDown, Line
  <1> QED
    BY <1>1, <1>6 DEF Delivery!Next

LEMMA ReplyLostStep ==
  ASSUME IInv, NEW f \in Flushers, SendReplyLost(f)
  PROVE  Delivery!Next
  <1>0. /\ work[f].phase = "sending" /\ Store(f) /\ ReturnLinesToBuffer(f)
        /\ origin' = origin /\ rejected' = rejected /\ refused' = refused
        /\ doubtful' = doubtful \cup Elems(work[f].batch)
    BY DEF SendReplyLost
  <1> PICK p \in Projects : p = work[f].project
    BY <1>0 DEF IInv, Shape, BatchIsFront
  <1> DEFINE sent == Elems(work[f].batch)
  <1>1. sent \in SUBSET Pending /\ Delivery!Batch(p, sent)
    BY <1>0, SendsBatch
  <1>2. Pending' = Pending
    BY <1>0, ReturnPending
  <1>3. [q \in Projects |-> ReceivedLines(q)]' =
          [[q \in Projects |-> ReceivedLines(q)] EXCEPT ![p] = @ \cup sent]
    BY <1>0, StoreStores
  <1>4. doubtful' = doubtful \cup sent
    BY <1>0
  <1> HIDE DEF sent
  <1>5. Delivery!LoseReply(p, sent)
    BY <1>0, <1>1, <1>2, <1>3, <1>4 DEF Delivery!LoseReply, Line
  <1> QED
    BY <1>1, <1>5 DEF Delivery!Next

LEMMA StepImplements == IInv /\ [Next]_vars => [Delivery!Next]_(Delivery!vars)
  <1> SUFFICES ASSUME IInv, [Next]_vars PROVE Delivery!Next \/ UNCHANGED Delivery!vars
    OBVIOUS
  <1>1. ASSUME NEW p \in Projects, NEW v \in Providers, NEW n \in 0 .. MaxRead,
               AddLinesForDir(p, v, n)
        PROVE  Delivery!Next \/ UNCHANGED Delivery!vars
    BY <1>1, ReadStep DEF AddLinesForDir
  <1>2. ASSUME NEW f \in Requests, NEW p \in Projects, NEW n \in 1 .. MaxRead, ScanFile(f, p, n)
        PROVE  Delivery!Next \/ UNCHANGED Delivery!vars
    <2>1. n \in 0 .. MaxRead
      BY BoundAssumption
    <2> QED
      BY <1>2, <2>1, ReadStep, ClaudeAssumption DEF ScanFile
  <1>3. ASSUME NEW S \in SUBSET Projects, UpdateTargets(S) PROVE UNCHANGED Delivery!vars
    <2>1. Keep
      BY <1>3, HeldDef, HeldDefNext DEF UpdateTargets, Keep
    <2> QED
      BY <1>3, <2>1, KeptPending, Unseen DEF UpdateTargets
  <1>4. ASSUME NEW f \in Flushers, Flush(f) PROVE UNCHANGED Delivery!vars
    BY <1>4, FlushPending, Unseen DEF Flush
  <1>5. ASSUME NEW f \in Flushers, FlushDone(f) PROVE UNCHANGED Delivery!vars
    <2>1. Keep
      BY <1>5, DoneMoves DEF IInv
    <2> QED
      BY <1>5, <2>1, KeptPending, Unseen DEF FlushDone
  <1>6. ASSUME NEW f \in Flushers, NEW p \in Projects, FlushProject(f, p)
        PROVE  UNCHANGED Delivery!vars
    <2>1. Keep
      BY <1>6, HeldDef, HeldDefNext DEF FlushProject, Keep
    <2> QED
      BY <1>6, <2>1, KeptPending, Unseen DEF FlushProject
  <1>7. ASSUME NEW f \in Flushers, SendError(f) PROVE UNCHANGED Delivery!vars
    BY <1>7, ReturnPending, Unseen DEF SendError
  <1>8. CASE UNCHANGED vars
    <2>1. Keep
      BY <1>8, HeldDef, HeldDefNext DEF vars, Keep
    <2> QED
      BY <1>8, <2>1, KeptPending, Unseen DEF vars
  <1> QED
    BY <1>1, <1>2, <1>3, <1>4, <1>5, <1>6, <1>7, <1>8,
       OKStep, RefusedStep, TooLargeImplements, ReplyLostStep DEF Next, FlusherStep

LEMMA InitImplements == Init => Delivery!Init
  <1> SUFFICES ASSUME Init PROVE Delivery!Init
    OBVIOUS
  <1>1. \A h \in Holders, p \in Projects : Elems(Held(h, p)) = {}
    BY HeldDef, ElemsEmpty DEF Init, Absent
  <1>2. Pending = {}
    BY <1>1, PendingDef
  <1>3. [n \in Line |-> origin[n].project] = <<>>
    BY DEF Init, Line
  <1>4. [p \in Projects |-> ReceivedLines(p)] = [p \in Projects |-> {}]
    BY DEF Init, ReceivedLines
  <1> QED
    BY <1>2, <1>3, <1>4 DEF Init, Delivery!Init

(* However many goroutines flush, whatever the server answers and whatever *)
(* the network loses, the buffer of the daemon keeps the promise: a line   *)
(* waits until it is stored under its project or turned down, and is not   *)
(* stored again unless the reply was lost.                                 *)
THEOREM FlushImplementsDelivery == Spec => ImplementsDelivery
  <1>1. IInv /\ [Next]_vars => [Delivery!Next]_(Delivery!vars)
    BY StepImplements
  <1>2. Init => Delivery!Init
    BY InitImplements
  <1> QED
    BY <1>1, <1>2, Invariant, PTL DEF Spec, ImplementsDelivery, Delivery!Spec
=============================================================================
