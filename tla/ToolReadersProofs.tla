-------------------------- MODULE ToolReadersProofs -------------------------
(***************************************************************************)
(* What holds of the readers of Codex, Gemini and OpenCode for any files,  *)
(* directories, configurations and bounds.                                 *)
(*                                                                         *)
(* A read takes the memory, the offsets and the history to others (the     *)
(* records Reader and Done of ToolReaders), so the invariant is a          *)
(* predicate of these and of the disk: each kind of read is shown to keep  *)
(* it, and a step of the daemon is such a read or changes none of it.      *)
(***************************************************************************)
EXTENDS ToolReaders, TLAPS, WellFoundedInduction

Used(tool) == {f \in Files : Tool[f] = tool}
KeysOf(tool) == IF tool = "opencode" THEN Paths ELSE Dirs
Happenings(tool) == [kind : {"dir"}, name : Dirs] \cup [kind : {"write"}, name : Used(tool)]

DiskType ==
  [tool : {"codex", "gemini", "opencode"}, length : [Files -> Nat],
   time : [Files -> 0 .. MaxTime], dirs : SUBSET Dirs]

IsDisk(d) ==
  /\ d \in DiskType /\ Used(d.tool) # {}
  /\ \A f \in Files : d.length[f] > 0 => d.time[f] > 0

(* Nothing happens while the daemon is down.                               *)
IsMemory(m, d) ==
  /\ DOMAIN m = {"up", "pending", "scanned", "toScan", "found", "mappings", "known", "cache",
                 "watched", "events", "mark"}
  /\ m.up \in BOOLEAN /\ m.mark \in [Files -> Nat] /\ DOMAIN m.cache = KeysOf(d.tool)
  /\ m.events \in Seq(Happenings(d.tool))
  /\ m.toScan \subseteq Used(d.tool) /\ m.found \subseteq Used(d.tool)
  /\ d.tool = "opencode" => m.found = {} /\ \E time \in Nat : m.mark = [f \in Files |-> time]
  /\ ~m.up => {m.toScan, m.found, m.watched, m.pending} = {{}} /\ m.events = <<>>

IsLog(l, d) ==
  /\ DOMAIN l = {"delivered", "dropped", "late", "read", "again", "reopened"}
  /\ l.read \subseteq Used(d.tool) \X Nat

(* What was resolved is what the targets in force resolve it to.           *)
Cached(m, tool) ==
  \A k \in KeysOf(tool) : m.cache[k] # NoProject =>
    /\ tool = "codex" =>
         \E f \in Used(tool) : Dir[f] = k /\ Resolve(m.mappings, f) = m.cache[k]
    /\ tool = "gemini" =>
         \A f \in Used(tool) : Dir[f] = k => Resolve(m.mappings, f) = m.cache[k]
    /\ tool = "opencode" => ResolveByProjectPath(m.mappings, k) = m.cache[k]

(* Of a Codex file exactly what lies behind its offset was read, and the   *)
(* offset is saved.                                                        *)
Offsets(m, s, l, d) ==
  d.tool = "codex" =>
    /\ s = m.mark
    /\ \A f \in Used("codex") :
         /\ m.mark[f] <= d.length[f]
         /\ \A i \in Nat : <<f, i>> \in l.read <=> i \in 1 .. m.mark[f]

(* A version that was read is older than the mark, and one older than the  *)
(* mark was read or is late.                                               *)
Versions(m, l, d) ==
  d.tool # "codex" /\ m.up => \A f \in Used(d.tool) :
    /\ \A n \in Nat : <<f, n>> \in l.read =>
         n <= d.length[f] /\ (n = d.length[f] => d.time[f] <= m.mark[f])
    /\ d.length[f] > 0 /\ d.time[f] <= m.mark[f] =>
         <<f, d.length[f]>> \in l.read \/ f \in l.late

Once(l) == \A x \in l.again : x[1] \in l.reopened

Reasoned(l) ==
  \A x \in l.dropped : x.tracked => Tool[x.file] = "codex" /\ (~x.known \/ x.part = "rest")

Sound(m, s, l, d) ==
  /\ IsMemory(m, d) /\ s \in [Files -> Nat] /\ IsLog(l, d)
  /\ Cached(m, d.tool)
  /\ Offsets(m, s, l, d) /\ Versions(m, l, d)
  /\ Once(l) /\ Reasoned(l)

IInv == IsDisk(disk) /\ Sound(daemon, saved, log, disk)
-----------------------------------------------------------------------------
(* The largest number.                                                     *)

LEMMA Largest ==
  ASSUME NEW k \in Nat, NEW S, S \subseteq 0 .. k, S # {}
  PROVE  \E m \in S : \A n \in S : n <= m
  <1> DEFINE D == {d \in Nat : \E n \in S : d = k - n}
  <1>1. \A n \in S : n \in Nat /\ n <= k /\ k - n \in D
    OBVIOUS
  <1>2. PICK d \in D : \A e \in D : <<e, d>> \notin OpToRel(<, Nat)
    <2>1. IsWellFoundedOn(OpToRel(<, Nat), Nat)
      BY NatLessThanWellFounded
    <2>2. D \subseteq Nat /\ D # {}
      BY <1>1
    <2> HIDE DEF D
    <2> QED
      BY <2>1, <2>2, WFMin
  <1>3. \A e \in D : ~(e < d)
    BY <1>2 DEF OpToRel
  <1>4. PICK m \in S : d = k - m
    BY <1>2
  <1>5. ASSUME NEW n \in S PROVE n <= m
    <2>1. k - n \in D /\ ~(k - n < d)
      BY <1>1, <1>3
    <2>2. n \in Nat /\ n <= k /\ m \in Nat /\ m <= k
      BY <1>1
    <2> QED
      BY <1>4, <2>1, <2>2
  <1> QED
    BY <1>5

(* MaxOf finds the latest of the times there are.                          *)
LEMMA MaxOfTimes ==
  ASSUME NEW k \in Nat, NEW S, S \subseteq 0 .. k
  PROVE  MaxOf(S) \in S \cup {0} /\ \A t \in S : t <= MaxOf(S)
  <1>1. \E m \in S \cup {0} : \A n \in S : n <= m
    <2>1. CASE S = {}
      BY <2>1
    <2>2. CASE S # {}
      BY <2>2, Largest
    <2> QED
      BY <2>1, <2>2
  <1> QED
    BY <1>1 DEF MaxOf
-----------------------------------------------------------------------------
(* AddLinesForDir.                                                         *)

FromPath(y) ==
  \E f \in Files : /\ f = y.file \/ (Tool[f] = "codex" /\ Dir[f] = Dir[y.file])
                   /\ Resolve(daemon.mappings, f) = y.project

(* Whose project may be given to lines of f.                               *)
Owns(f, id) ==
  \E g \in Files : /\ g = f \/ (Tool[g] = "codex" /\ Dir[g] = Dir[f])
                   /\ Resolve(daemon.mappings, g) = id

(* When f's lines may have no project.                                     *)
MayDrop(f, part) ==
  Resolve(daemon.mappings, f) # NoProject =>
    Tool[f] = "codex" /\ (Dir[f] \notin daemon.known \/ part = "rest")

LogKept(l) == IsLog(l, disk) /\ Once(l) /\ Reasoned(l)

(* The lines are read, and nothing is given to a project but by its path.  *)
Adds(l, a, lines) ==
  /\ LogKept(a) /\ a.read = l.read \cup lines /\ a.late = l.late
  /\ \A y \in a.delivered : y \in l.delivered \/ FromPath(y)

LEMMA Added ==
  ASSUME NEW l, LogKept(l), NEW lines, lines \subseteq Used(disk.tool) \X Nat,
         NEW project, NEW part,
         \A x \in l.read \cap lines : x[1] \in l.reopened,
         \A x \in lines : project[x[1]] = NoProject => MayDrop(x[1], part),
         \A x \in lines : project[x[1]] # NoProject => Owns(x[1], project[x[1]])
  PROVE  Adds(l, AddLinesForDir(l, lines, project, part), lines)
  <1> DEFINE a == AddLinesForDir(l, lines, project, part)
             kept == {x \in lines : project[x[1]] # NoProject}
  <1>1. DOMAIN l = {"delivered", "dropped", "late", "read", "again", "reopened"}
    BY DEF LogKept, IsLog
  <1>2. /\ DOMAIN a = DOMAIN l
        /\ a.delivered = l.delivered \cup {Delivered(x, project) : x \in kept}
        /\ a.dropped = l.dropped \cup {Dropped(x, part) : x \in lines \ kept}
        /\ a.read = l.read \cup lines
        /\ a.again = l.again \cup (l.read \cap lines)
        /\ a.late = l.late /\ a.reopened = l.reopened
    BY <1>1 DEF AddLinesForDir
  <1> HIDE DEF a
  <1>3. IsLog(a, disk)
    BY <1>2 DEF LogKept, IsLog
  <1>4. Once(a)
    BY <1>2 DEF LogKept, Once
  <1>5. Reasoned(a)
    <2> SUFFICES ASSUME NEW y \in a.dropped, y.tracked
                 PROVE  Tool[y.file] = "codex" /\ (~y.known \/ y.part = "rest")
      BY DEF Reasoned
    <2>1. CASE y \in l.dropped
      BY <2>1 DEF LogKept, Reasoned
    <2>2. CASE y \notin l.dropped
      <3>1. PICK x \in lines \ kept : y = Dropped(x, part)
        BY <1>2, <2>2
      <3>2. MayDrop(x[1], part)
        BY <3>1
      <3> QED
        BY <3>1, <3>2 DEF Dropped, MayDrop
    <2> QED
      BY <2>1, <2>2
  <1>6. ASSUME NEW y \in a.delivered, y \notin l.delivered
        PROVE  FromPath(y)
    <2>1. PICK x \in kept : y = Delivered(x, project)
      BY <1>2, <1>6
    <2>2. Owns(x[1], project[x[1]])
      BY <2>1
    <2> QED
      BY <2>1, <2>2 DEF Owns, FromPath, Delivered
  <1> QED
    BY <1>2, <1>3, <1>4, <1>5, <1>6 DEF a, LogKept, Adds

(* The same for lines of one file.                                         *)
LEMMA AddedItems ==
  ASSUME NEW l, LogKept(l), NEW f \in Used(disk.tool), NEW items, items \subseteq Nat,
         NEW id, NEW part,
         \A i \in items : <<f, i>> \in l.read => f \in l.reopened,
         id = NoProject => MayDrop(f, part), id # NoProject => Owns(f, id)
  PROVE  Adds(l, AddItems(l, f, items, id, part), {f} \X items)
  <1> DEFINE lines == {f} \X items
             project == [g \in {f} |-> id]
  <1>1. lines \subseteq Used(disk.tool) \X Nat
    OBVIOUS
  <1>2. \A x \in lines : x[1] = f /\ project[x[1]] = id /\ x = <<f, x[2]>> /\ x[2] \in items
    OBVIOUS
  <1>3. AddItems(l, f, items, id, part) = AddLinesForDir(l, lines, project, part)
    BY DEF AddItems
  <1> HIDE DEF lines, project
  <1>4. \A x \in l.read \cap lines : x[1] \in l.reopened
    BY <1>2
  <1>5. /\ \A x \in lines : project[x[1]] = NoProject => MayDrop(x[1], part)
        /\ \A x \in lines : project[x[1]] # NoProject => Owns(x[1], project[x[1]])
    BY <1>2
  <1>6. lines = {f} \X items
    BY DEF lines
  <1>7. Adds(l, AddLinesForDir(l, lines, project, part), lines)
    BY <1>1, <1>4, <1>5, Added
  <1> QED
    BY <1>3, <1>6, <1>7
-----------------------------------------------------------------------------
(* One read of one file.                                                   *)

Reads(r) ==
  /\ DOMAIN r = {"mem", "saved", "log"}
  /\ Sound(r.mem, r.saved, r.log, disk)
  /\ r.mem.mappings = daemon.mappings /\ r.mem.known = daemon.known

Yields(r, x) ==
  /\ Sound(x.mem, x.saved, x.log, disk)
  /\ \A y \in x.log.delivered : y \in r.log.delivered \/ FromPath(y)

LEMMA NothingRead ==
  ASSUME NEW r, Reads(r)
  PROVE  Yields(r, r)
  BY DEF Reads, Yields

(* What a read leaves of the memory as it was.                             *)
SameBut(m, n) ==
  /\ DOMAIN n = DOMAIN m /\ n.up = m.up /\ n.mappings = m.mappings /\ n.known = m.known
  /\ n.events = m.events /\ n.toScan = m.toScan /\ n.found = m.found
  /\ n.watched = m.watched /\ n.pending = m.pending

(* The offset of a Codex file moves to its end, and what lies between was  *)
(* read.                                                                   *)
LEMMA OffsetMoved ==
  ASSUME IsDisk(disk), disk.tool = "codex", NEW r, Reads(r), NEW f \in Used("codex"),
         NEW from \in Nat, from <= r.mem.mark[f],
         NEW n, SameBut(r.mem, n), n.mark = [r.mem.mark EXCEPT ![f] = disk.length[f]],
         DOMAIN n.cache = Dirs, Cached(n, "codex"),
         NEW l, LogKept(l), l.read = r.log.read \cup ({f} \X (from + 1 .. disk.length[f])),
         NEW s, s = [r.saved EXCEPT ![f] = disk.length[f]]
  PROVE  Sound(n, s, l, disk)
  <1> DEFINE m == r.mem
             length == disk.length[f]
  <1>1. /\ IsMemory(m, disk) /\ r.saved \in [Files -> Nat] /\ IsLog(r.log, disk)
        /\ Offsets(m, r.saved, r.log, disk)
    BY DEF Reads, Sound
  <1>2. f \in Files /\ length \in Nat
    BY DEF Used, IsDisk, DiskType
  <1>3. SameBut(m, n) /\ n.mark = [m.mark EXCEPT ![f] = length]
    OBVIOUS
  <1>4. n.mark \in [Files -> Nat]
    BY <1>1, <1>2, <1>3 DEF IsMemory
  <1>5. IsMemory(n, disk)
    BY <1>1, <1>3, <1>4 DEF IsMemory, KeysOf, SameBut
  <1>6. s \in [Files -> Nat]
    BY <1>1, <1>2
  <1>8. Offsets(n, s, l, disk)
    <2>1. s = n.mark
      BY <1>1, <1>3 DEF Offsets
    <2> SUFFICES ASSUME NEW g \in Used("codex")
                 PROVE  /\ n.mark[g] <= disk.length[g]
                        /\ \A i \in Nat : <<g, i>> \in l.read <=> i \in 1 .. n.mark[g]
      BY <2>1 DEF Offsets
    <2>2. g \in Files /\ m.mark[g] \in Nat /\ m.mark[g] <= disk.length[g]
          /\ \A i \in Nat : <<g, i>> \in r.log.read <=> i \in 1 .. m.mark[g]
      BY <1>1 DEF Offsets, Used, IsMemory
    <2>3. CASE g # f
      <3>1. n.mark[g] = m.mark[g]
        BY <1>1, <1>3, <2>2, <2>3 DEF IsMemory
      <3>2. \A i \in Nat : <<g, i>> \in l.read <=> <<g, i>> \in r.log.read
        BY <2>3
      <3> QED
        BY <2>2, <3>1, <3>2
    <2>4. CASE g = f
      <3>1. n.mark[f] = length
        BY <1>1, <1>2, <1>3 DEF IsMemory
      <3>2. \A i \in Nat : <<f, i>> \in l.read <=> <<f, i>> \in r.log.read \/ i \in from + 1 .. length
        OBVIOUS
      <3> QED
        BY <1>2, <2>2, <2>4, <3>1, <3>2
    <2> QED
      BY <2>3, <2>4
  <1>9. Versions(n, l, disk)
    BY DEF Versions
  <1> QED
    BY <1>5, <1>6, <1>8, <1>9 DEF Sound, LogKept

LEMMA CodexFile ==
  ASSUME IsDisk(disk), disk.tool = "codex", NEW r, Reads(r), NEW f \in Used("codex"),
         NEW from \in Nat, from <= r.mem.mark[f],
         from < r.mem.mark[f] => f \in r.log.reopened
  PROVE  Yields(r, ProcessCodexFile(r, f, from))
  <1> DEFINE m == r.mem
             items == from + 1 .. disk.length[f]
             cache == IF 1 \in items THEN CacheCodexProject(m, f) ELSE m.cache
             id == cache[Dir[f]]
             n == [m EXCEPT !.cache = cache, !.mark[f] = disk.length[f]]
             s == [r.saved EXCEPT ![f] = disk.length[f]]
             l == AddItems(r.log, f, items, id, Part(items))
  <1>1. CASE items = {}
    BY <1>1, NothingRead DEF ProcessCodexFile
  <1>2. CASE items # {}
    <2>1. ProcessCodexFile(r, f, from) = [mem |-> n, saved |-> s, log |-> l]
      BY <1>2 DEF ProcessCodexFile
    <2>2. /\ f \in Files /\ Tool[f] = "codex" /\ Dir[f] \in Dirs
          /\ IsMemory(m, disk) /\ Cached(m, "codex") /\ Offsets(m, r.saved, r.log, disk)
          /\ LogKept(r.log) /\ m.mark[f] \in Nat /\ disk.length[f] \in Nat
          /\ m.mappings = daemon.mappings
      <3>1. f \in Files /\ Tool[f] = "codex" /\ Dir[f] \in Dirs
        BY ToolReadersAssumption DEF Used
      <3>2. /\ IsMemory(m, disk) /\ Cached(m, "codex") /\ Offsets(m, r.saved, r.log, disk)
            /\ LogKept(r.log) /\ m.mappings = daemon.mappings
        BY DEF Reads, Sound, LogKept
      <3> QED
        BY <3>1, <3>2 DEF IsMemory, IsDisk, DiskType
    <2>3. DOMAIN cache = Dirs /\ DOMAIN m.cache = Dirs
      BY <2>2 DEF CacheCodexProject, IsMemory, KeysOf
    <2>4. /\ \A d \in Dirs \ {Dir[f]} : cache[d] = m.cache[d]
          /\ \/ id = m.cache[Dir[f]] /\ (id # NoProject \/ 1 \notin items)
             \/ id = ResolveByProjectPath(m.mappings, Cwd[f])
      BY <2>2, <2>3 DEF CacheCodexProject
    <2>5. Resolve(m.mappings, f) = ResolveByProjectPath(m.mappings, Cwd[f])
      BY <2>2 DEF Resolve
    <2> HIDE DEF cache
    <2>6. ASSUME NEW x, x.cache = cache, x.mappings = m.mappings
          PROVE  Cached(x, "codex")
      <3> SUFFICES ASSUME NEW k \in Dirs, cache[k] # NoProject
                   PROVE  \E g \in Used("codex") : Dir[g] = k /\ Resolve(m.mappings, g) = cache[k]
        BY <2>6 DEF Cached, KeysOf
      <3>2. m.cache[k] # NoProject =>
              \E g \in Used("codex") : Dir[g] = k /\ Resolve(m.mappings, g) = m.cache[k]
        BY <2>2 DEF Cached, KeysOf
      <3>3. CASE cache[k] = m.cache[k]
        BY <3>2, <3>3
      <3>4. CASE cache[k] # m.cache[k]
        BY <2>4, <2>5, <3>4
      <3> QED
        BY <3>3, <3>4
    <2>7. (id = NoProject => MayDrop(f, Part(items))) /\ (id # NoProject => Owns(f, id))
      <3>1. CASE id = NoProject
        <4>1. 1 \in items => Resolve(daemon.mappings, f) = NoProject
          BY <2>2, <2>4, <2>5, <3>1
        <4> QED
          BY <2>2, <3>1, <4>1 DEF MayDrop, Part
      <3>2. CASE id # NoProject
        <4>1. PICK g \in Used("codex") : Dir[g] = Dir[f] /\ Resolve(m.mappings, g) = id
          <5> DEFINE x == [cache |-> cache, mappings |-> m.mappings]
          <5>1. Cached(x, "codex") /\ x.cache = cache /\ x.mappings = m.mappings
            BY <2>6
          <5> HIDE DEF x
          <5> QED
            BY <2>2, <3>2, <5>1 DEF Cached, KeysOf
        <4> QED
          BY <2>2, <3>2, <4>1 DEF Owns, Used
      <3> QED
        BY <3>1, <3>2
    <2>8. items \subseteq Nat /\ f \in Used(disk.tool)
      BY <2>2
    <2>9. \A i \in items : <<f, i>> \in r.log.read => f \in r.log.reopened
      <3> SUFFICES ASSUME NEW i \in items, <<f, i>> \in r.log.read, f \notin r.log.reopened
                   PROVE  FALSE
        OBVIOUS
      <3>1. i \in Nat /\ i > from /\ i \in 1 .. m.mark[f]
        BY <2>2, <2>8 DEF Offsets
      <3> QED
        BY <2>2, <3>1
    <2>10. /\ LogKept(l) /\ l.read = r.log.read \cup ({f} \X items)
           /\ \A y \in l.delivered : y \in r.log.delivered \/ FromPath(y)
      <3>1. Adds(r.log, l, {f} \X items)
        <4> HIDE DEF id, items
        <4> QED
          BY <2>2, <2>7, <2>8, <2>9, AddedItems
      <3> QED
        BY <3>1 DEF Adds
    <2>11. /\ SameBut(m, n) /\ n.mark = [m.mark EXCEPT ![f] = disk.length[f]]
           /\ n.cache = cache
      BY <2>2 DEF SameBut, IsMemory
    <2>12. Cached(n, "codex")
      BY <2>6, <2>11 DEF SameBut
    <2> HIDE DEF l, n
    <2>13. Sound(n, s, l, disk)
      BY <2>3, <2>10, <2>11, <2>12, OffsetMoved
    <2> HIDE DEF s
    <2> QED
      BY <2>1, <2>10, <2>13 DEF Yields
  <1> QED
    BY <1>1, <1>2
LEMMA AsClaude ==
  ASSUME IsDisk(disk), disk.tool = "codex", NEW r, Reads(r), NEW f \in Used("codex"),
         Dir[f] \notin daemon.known
  PROVE  Yields(r, ProcessAsClaude(r, f))
  <1> DEFINE m == r.mem
             from == m.mark[f]
             items == m.mark[f] + 1 .. disk.length[f]
             n == [m EXCEPT !.mark[f] = disk.length[f]]
             s == [r.saved EXCEPT ![f] = disk.length[f]]
             l == AddItems(r.log, f, items, NoProject, Part(items))
  <1>1. CASE items = {}
    BY <1>1, NothingRead DEF ProcessAsClaude
  <1>2. CASE items # {}
    <2>1. ProcessAsClaude(r, f) = [mem |-> n, saved |-> s, log |-> l]
      BY <1>2 DEF ProcessAsClaude
    <2>2. /\ IsMemory(m, disk) /\ Cached(m, "codex") /\ Offsets(m, r.saved, r.log, disk)
          /\ LogKept(r.log)
      BY DEF Reads, Sound, LogKept
    <2>3. f \in Files /\ Tool[f] = "codex" /\ f \in Used(disk.tool) /\ from \in Nat
          /\ disk.length[f] \in Nat /\ items \subseteq Nat
      BY <2>2 DEF Used, IsMemory, IsDisk, DiskType
    <2>4. MayDrop(f, Part(items))
      BY <2>3 DEF MayDrop
    <2>5. \A i \in items : <<f, i>> \in r.log.read => f \in r.log.reopened
      <3> SUFFICES ASSUME NEW i \in items, <<f, i>> \in r.log.read
                   PROVE  FALSE
        OBVIOUS
      <3>1. i \in Nat /\ i > from /\ i \in 1 .. m.mark[f]
        BY <2>2, <2>3 DEF Offsets
      <3> QED
        BY <2>3, <3>1
    <2>6. Adds(r.log, l, {f} \X items)
      <3> HIDE DEF items
      <3> QED
        BY <2>2, <2>3, <2>4, <2>5, AddedItems
    <2>7. /\ SameBut(m, n) /\ n.mark = [m.mark EXCEPT ![f] = disk.length[f]]
          /\ n.cache = m.cache /\ DOMAIN n.cache = Dirs
      BY <2>2 DEF SameBut, IsMemory, KeysOf
    <2> HIDE DEF l, n
    <2>8. Cached(n, "codex")
      BY <2>2, <2>7 DEF Cached, SameBut
    <2>9. Sound(n, s, l, disk)
      <3>1. from <= r.mem.mark[f] /\ LogKept(l)
            /\ l.read = r.log.read \cup ({f} \X (from + 1 .. disk.length[f]))
        BY <2>3, <2>6 DEF Adds
      <3> HIDE DEF from, m
      <3> QED
        BY <2>3, <2>7, <2>8, <3>1, OffsetMoved DEF m
    <2> HIDE DEF s
    <2> QED
      BY <2>1, <2>6, <2>9 DEF Yields, Adds
  <1> QED
    BY <1>1, <1>2

(* A Gemini file that is newer than its mark is read, and its mark is its  *)
(* time.                                                                   *)
LEMMA GeminiFile ==
  ASSUME IsDisk(disk), disk.tool = "gemini", NEW r, Reads(r), r.mem.up, NEW f \in Used("gemini")
  PROVE  Yields(r, ProcessGeminiFile(r, f))
  <1> DEFINE m == r.mem
             id == IF m.cache[Dir[f]] # NoProject THEN m.cache[Dir[f]]
                   ELSE ResolveGemini(m.mappings, Cwd[f])
             items == {disk.length[f]}
             n == [m EXCEPT !.mark[f] = disk.time[f]]
             l == AddItems(r.log, f, items, id, "whole")
  <1>1. CASE disk.time[f] <= m.mark[f]
    BY <1>1, NothingRead DEF ProcessGeminiFile
  <1>2. CASE ~(disk.time[f] <= m.mark[f])
    <2>1. ProcessGeminiFile(r, f) = [mem |-> n, saved |-> r.saved, log |-> l]
      <3> DEFINE x == [r EXCEPT !.mem.mark[f] = disk.time[f],
                                !.log = AddItems(@, f, {disk.length[f]}, id, "whole")]
      <3>1. ProcessGeminiFile(r, f) = x
        BY <1>2 DEF ProcessGeminiFile
      <3>2. x = [k \in DOMAIN r |-> x[k]] /\ x.mem = n /\ x.saved = r.saved /\ x.log = l
        BY DEF Reads
      <3> HIDE DEF x, n, l
      <3>3. x = [mem |-> n, saved |-> r.saved, log |-> l]
        BY <3>2 DEF Reads
      <3> QED
        BY <3>1, <3>3
    <2>2. /\ IsMemory(m, disk) /\ Cached(m, "gemini") /\ Versions(m, r.log, disk)
          /\ LogKept(r.log) /\ m.mappings = daemon.mappings /\ r.saved \in [Files -> Nat]
      BY DEF Reads, Sound, LogKept
    <2>3. /\ f \in Files /\ Tool[f] = "gemini" /\ f \in Used(disk.tool) /\ m.mark[f] \in Nat
          /\ disk.length[f] \in Nat /\ disk.time[f] \in Nat /\ items \subseteq Nat
          /\ Dir[f] \in Dirs
      <3>1. f \in Files /\ Tool[f] = "gemini" /\ f \in Used(disk.tool) /\ Dir[f] \in Dirs
        BY ToolReadersAssumption DEF Used
      <3> QED
        BY <2>2, <3>1, ToolReadersAssumption DEF IsMemory, IsDisk, DiskType
    <2>4. Resolve(m.mappings, f) = ResolveGemini(m.mappings, Cwd[f])
      BY <2>3 DEF Resolve
    <2>5. Resolve(daemon.mappings, f) = id
      <3>1. m.cache[Dir[f]] # NoProject => Resolve(m.mappings, f) = m.cache[Dir[f]]
        BY <2>2, <2>3 DEF Cached, KeysOf
      <3> QED
        BY <2>2, <2>4, <3>1
    <2>6. (id = NoProject => MayDrop(f, "whole")) /\ (id # NoProject => Owns(f, id))
      <3> HIDE DEF id
      <3> QED
        BY <2>3, <2>5 DEF MayDrop, Owns
    <2>7. \A i \in items : <<f, i>> \notin r.log.read
      BY <1>2, <2>2, <2>3 DEF Versions
    <2>8. Adds(r.log, l, {f} \X items)
      <3> HIDE DEF id, items
      <3> QED
        BY <2>2, <2>3, <2>6, <2>7, AddedItems
    <2>9. /\ SameBut(m, n) /\ n.mark = [m.mark EXCEPT ![f] = disk.time[f]] /\ n.cache = m.cache
      BY <2>2 DEF SameBut, IsMemory
    <2> HIDE DEF l, n, id
    <2>10. IsMemory(n, disk)
      BY <2>2, <2>3, <2>9 DEF IsMemory, SameBut
    <2>11. Cached(n, "gemini")
      BY <2>2, <2>9 DEF Cached, SameBut
    <2>12. Versions(n, l, disk)
      <3> SUFFICES ASSUME NEW g \in Used("gemini")
                   PROVE  /\ \A k \in Nat : <<g, k>> \in l.read =>
                               k <= disk.length[g] /\ (k = disk.length[g] => disk.time[g] <= n.mark[g])
                          /\ disk.length[g] > 0 /\ disk.time[g] <= n.mark[g] =>
                               <<g, disk.length[g]>> \in l.read \/ g \in l.late
        BY DEF Versions
      <3>1. /\ \A k \in Nat : <<g, k>> \in r.log.read =>
                 k <= disk.length[g] /\ (k = disk.length[g] => disk.time[g] <= m.mark[g])
            /\ disk.length[g] > 0 /\ disk.time[g] <= m.mark[g] =>
                 <<g, disk.length[g]>> \in r.log.read \/ g \in r.log.late
        BY <2>2 DEF Versions
      <3>2. l.read = r.log.read \cup ({f} \X items) /\ l.late = r.log.late
        BY <2>8 DEF Adds
      <3>3. CASE g # f
        <4>1. n.mark[g] = m.mark[g]
          BY <2>9, <3>3
        <4>2. \A k \in Nat : <<g, k>> \in l.read <=> <<g, k>> \in r.log.read
          BY <3>2, <3>3
        <4>3. <<g, disk.length[g]>> \in r.log.read => <<g, disk.length[g]>> \in l.read
          BY <3>2
        <4> QED
          BY <3>1, <3>2, <4>1, <4>2, <4>3
      <3>4. CASE g = f
        <4>1. n.mark[f] = disk.time[f]
          BY <2>2, <2>3, <2>9 DEF IsMemory
        <4>2. \A k \in Nat : <<f, k>> \in l.read <=> <<f, k>> \in r.log.read \/ k = disk.length[f]
          BY <3>2
        <4> QED
          BY <2>3, <3>1, <3>4, <4>1, <4>2
      <3> QED
        BY <3>3, <3>4
    <2>13. Offsets(n, r.saved, l, disk)
      BY DEF Offsets
    <2>14. LogKept(l)
      BY <2>8 DEF Adds
    <2>15. Sound(n, r.saved, l, disk)
      BY <2>2, <2>10, <2>11, <2>12, <2>13, <2>14 DEF Sound, LogKept
    <2> QED
      BY <2>1, <2>8, <2>15 DEF Yields, Adds
  <1> QED
    BY <1>1, <1>2

(* handleFileEvent, and the files that a new directory has already.        *)
LEMMA FileRead ==
  ASSUME IsDisk(disk), NEW r, Reads(r), r.mem.up, NEW f \in Used(disk.tool)
  PROVE  Yields(r, ReadFile(r, f))
  <1>1. /\ f \in Files /\ Tool[f] = disk.tool /\ IsMemory(r.mem, disk)
        /\ disk.tool \in {"codex", "gemini", "opencode"} /\ r.mem.known = daemon.known
    BY DEF Used, Reads, Sound, IsDisk, DiskType
  <1>2. CASE disk.tool = "codex" /\ Dir[f] \in r.mem.known
    <2>1. ReadFile(r, f) = ProcessCodexFile(r, f, r.mem.mark[f])
      BY <1>1, <1>2 DEF ReadFile
    <2>2. r.mem.mark[f] \in Nat /\ f \in Used("codex")
      BY <1>1, <1>2 DEF IsMemory
    <2>3. r.mem.mark[f] <= r.mem.mark[f] /\ ~(r.mem.mark[f] < r.mem.mark[f])
      BY <2>2
    <2> QED
      BY <1>2, <2>1, <2>2, <2>3, CodexFile
  <1>3. CASE disk.tool = "gemini" /\ Dir[f] \in r.mem.known
    <2>1. ReadFile(r, f) = ProcessGeminiFile(r, f)
      BY <1>1, <1>3 DEF ReadFile
    <2> QED
      BY <1>3, <2>1, GeminiFile
  <1>4. CASE disk.tool = "codex" /\ Dir[f] \notin r.mem.known
    <2>1. ReadFile(r, f) = ProcessAsClaude(r, f)
      BY <1>1, <1>4 DEF ReadFile
    <2> QED
      BY <1>1, <1>4, <2>1, AsClaude
  <1>5. CASE disk.tool # "codex" /\ ~(disk.tool = "gemini" /\ Dir[f] \in r.mem.known)
    <2>1. ReadFile(r, f) = r
      BY <1>1, <1>5 DEF ReadFile
    <2> QED
      BY <2>1, NothingRead
  <1> QED
    BY <1>1, <1>2, <1>3, <1>4, <1>5

LEMMA FoundRead ==
  ASSUME IsDisk(disk), NEW r, Reads(r), r.mem.up, NEW f \in Used(disk.tool),
         disk.tool # "opencode"
  PROVE  Yields(r, ReadFound(r, f))
  <1>1. /\ f \in Files /\ Tool[f] = disk.tool /\ IsMemory(r.mem, disk) /\ IsLog(r.log, disk)
        /\ disk.tool \in {"codex", "gemini"}
    BY DEF Used, Reads, Sound, IsDisk, DiskType
  <1>2. CASE disk.tool = "gemini"
    <2>1. ReadFound(r, f) = ProcessGeminiFile(r, f)
      BY <1>1, <1>2 DEF ReadFound
    <2> QED
      BY <1>2, <2>1, GeminiFile
  <1>3. CASE disk.tool = "codex"
    <2> DEFINE m == r.mem
               x == [r EXCEPT !.log.reopened = IF r.mem.mark[f] > 0 THEN @ \cup {f} ELSE @]
               l == x.log
    <2>1. ReadFound(r, f) = ProcessCodexFile(x, f, 0)
      BY <1>1, <1>3 DEF ReadFound
    <2>2. /\ DOMAIN x = {"mem", "saved", "log"} /\ x.mem = m /\ x.saved = r.saved
          /\ l = [r.log EXCEPT !.reopened = IF m.mark[f] > 0 THEN @ \cup {f} ELSE @]
      BY DEF Reads
    <2> HIDE DEF x
    <2>3. /\ DOMAIN l = DOMAIN r.log /\ l.delivered = r.log.delivered /\ l.dropped = r.log.dropped
          /\ l.late = r.log.late /\ l.read = r.log.read /\ l.again = r.log.again
          /\ r.log.reopened \subseteq l.reopened
          /\ m.mark[f] > 0 => f \in l.reopened
      BY <1>1, <2>2 DEF IsLog
    <2> HIDE DEF l
    <2>4. /\ Cached(m, disk.tool) /\ Offsets(m, r.saved, r.log, disk) /\ Versions(m, r.log, disk)
          /\ Once(r.log) /\ Reasoned(r.log) /\ r.saved \in [Files -> Nat]
          /\ m.mappings = daemon.mappings /\ m.known = daemon.known
      BY DEF Reads, Sound
    <2>5. IsLog(l, disk) /\ Once(l) /\ Reasoned(l)
      BY <1>1, <2>3, <2>4 DEF IsLog, Once, Reasoned
    <2>6. Offsets(m, r.saved, l, disk) /\ Versions(m, l, disk)
      BY <2>3, <2>4 DEF Offsets, Versions
    <2>7. Reads(x)
      BY <1>1, <2>2, <2>4, <2>5, <2>6 DEF Reads, Sound, l
    <2>8. /\ x.mem.mark[f] \in Nat /\ f \in Used("codex")
          /\ 0 <= x.mem.mark[f] /\ (0 < x.mem.mark[f] => f \in x.log.reopened)
      BY <1>1, <1>3, <2>2, <2>3 DEF IsMemory, l
    <2>9. Yields(x, ProcessCodexFile(x, f, 0))
      BY <1>3, <2>7, <2>8, CodexFile
    <2> QED
      BY <2>1, <2>3, <2>9 DEF Yields, l
  <1> QED
    BY <1>1, <1>2, <1>3
-----------------------------------------------------------------------------
(* The steps. Each keeps the invariant, and what it delivers it delivers   *)
(* by path.                                                                *)

Follows == IInv' /\ \A y \in log'.delivered : y \in log.delivered \/ FromPath(y)

LEMMA QueuesChanged ==
  ASSUME NEW m, NEW s, NEW l, NEW d, Sound(m, s, l, d), NEW n, IsMemory(n, d),
         n.up = m.up, n.mark = m.mark, n.cache = m.cache, n.mappings = m.mappings
  PROVE  Sound(n, s, l, d)
  BY DEF Sound, Cached, Offsets, Versions

LEMMA Quiet ==
  ASSUME IInv, IsDisk(disk'), disk'.tool = disk.tool, disk'.length = disk.length,
         disk'.time = disk.time, IsMemory(daemon', disk'),
         daemon'.up = daemon.up, daemon'.mark = daemon.mark, daemon'.cache = daemon.cache,
         daemon'.mappings = daemon.mappings, saved' = saved, log' = log
  PROVE  Follows
  <1>1. Sound(daemon, saved, log, disk)
    BY DEF IInv
  <1>2. Sound(daemon', saved, log, disk')
    <2>1. /\ Cached(daemon', disk'.tool) /\ Offsets(daemon', saved, log, disk')
          /\ Versions(daemon', log, disk') /\ IsLog(log, disk')
      BY <1>1 DEF Sound, Cached, Offsets, Versions, IsLog
    <2> QED
      BY <1>1, <2>1 DEF Sound
  <1> QED
    BY <1>2 DEF IInv, Follows

LEMMA DoneReading ==
  ASSUME IInv, disk' = disk, NEW r, r.log.delivered = log.delivered, NEW x, Yields(r, x), Done(x)
  PROVE  Follows
  BY DEF IInv, Follows, Yields, Done

LEMMA InvTypes ==
  ASSUME IInv
  PROVE  /\ IsDisk(disk) /\ IsMemory(daemon, disk) /\ IsLog(log, disk) /\ saved \in [Files -> Nat]
         /\ disk.tool \in {"codex", "gemini", "opencode"}
         /\ disk.length \in [Files -> Nat] /\ disk.time \in [Files -> 0 .. MaxTime]
         /\ InUse = Used(disk.tool) /\ Keys = KeysOf(disk.tool)
         /\ MaxTime \in Nat
  BY ToolReadersAssumption DEF IInv, Sound, IsDisk, DiskType, InUse, Used, Keys, KeysOf

LEMMA RaisedType ==
  ASSUME NEW H, NEW events \in Seq(H), NEW where, NEW kind, NEW name,
         [kind |-> kind, name |-> name] \in H
  PROVE  /\ Raised(events, where, kind, name) \in Seq(H)
         /\ daemon.watched = {} => Raised(events, where, kind, name) = events
  BY DEF Raised

LEMMA MakeDirStep ==
  ASSUME IInv, NEW d \in Dirs, MakeDir(d)
  PROVE  Follows
  <1>1. /\ disk' = [disk EXCEPT !.dirs = @ \cup {d}] /\ saved' = saved /\ log' = log
        /\ daemon' = [daemon EXCEPT !.events = Raised(@, Above[d], "dir", d)]
    BY DEF MakeDir
  <1>2. IsMemory(daemon, disk) /\ disk \in DiskType
    BY InvTypes DEF IsDisk
  <1>3. /\ disk' \in DiskType /\ disk'.tool = disk.tool /\ disk'.length = disk.length
        /\ disk'.time = disk.time
    BY <1>1, <1>2 DEF DiskType
  <1>4. IsDisk(disk')
    BY <1>3, InvTypes DEF IsDisk
  <1>5. [kind |-> "dir", name |-> d] \in Happenings(disk.tool)
    BY DEF Happenings
  <1>6. /\ daemon'.events \in Seq(Happenings(disk.tool))
        /\ daemon.watched = {} => daemon'.events = daemon.events
    BY <1>1, <1>2, <1>5, RaisedType DEF IsMemory
  <1>7. /\ DOMAIN daemon' = DOMAIN daemon
        /\ daemon'.up = daemon.up /\ daemon'.mark = daemon.mark /\ daemon'.cache = daemon.cache
        /\ daemon'.mappings = daemon.mappings /\ daemon'.toScan = daemon.toScan
        /\ daemon'.found = daemon.found /\ daemon'.watched = daemon.watched
        /\ daemon'.pending = daemon.pending
    BY <1>1, <1>2 DEF IsMemory
  <1>8. IsMemory(daemon', disk')
    BY <1>2, <1>3, <1>6, <1>7 DEF IsMemory
  <1> QED
    BY <1>1, <1>3, <1>4, <1>7, <1>8, Quiet

LEMMA ChangeConfigStep ==
  ASSUME IInv, NEW c \in Configs, ChangeConfig(c)
  PROVE  Follows
  <1>1. /\ disk' = disk /\ saved' = saved /\ log' = log
        /\ daemon' = [daemon EXCEPT !.pending = IF daemon.up THEN Targets(c) ELSE @]
    BY DEF ChangeConfig
  <1>2. IsMemory(daemon, disk) /\ IsDisk(disk)
    BY InvTypes
  <1>3. IsMemory(daemon', disk')
    BY <1>1, <1>2 DEF IsMemory
  <1>4. /\ daemon'.up = daemon.up /\ daemon'.mark = daemon.mark /\ daemon'.cache = daemon.cache
        /\ daemon'.mappings = daemon.mappings
    BY <1>1, <1>2 DEF IsMemory
  <1> QED
    BY <1>1, <1>2, <1>3, <1>4, Quiet

(* The messages have one mark, the watermark.                              *)
LEMMA WatermarkOf ==
  ASSUME IInv, disk.tool = "opencode", NEW f \in Used("opencode")
  PROVE  Watermark = daemon.mark[f]
  <1>1. PICK time \in Nat : daemon.mark = [h \in Files |-> time]
    BY InvTypes DEF IsMemory
  <1>2. f \in InUse /\ f \in Files /\ InUse \subseteq Files
    BY DEF InUse, Used
  <1>3. {daemon.mark[h] : h \in InUse} = {time}
    BY <1>1, <1>2
  <1>4. MaxOf({time}) = time
    <2>1. {time} \subseteq 0 .. time
      OBVIOUS
    <2>2. MaxOf({time}) \in {time} \cup {0} /\ time <= MaxOf({time})
      BY <2>1, MaxOfTimes
    <2> QED
      BY <2>2
  <1> QED
    BY <1>1, <1>2, <1>3, <1>4 DEF Watermark

(* A version is later than every reading of its file, or late.             *)
LEMMA WriteStep ==
  ASSUME IInv, NEW f \in Files, Write(f)
  PROVE  Follows
  <1>1. PICK t \in 1 .. MaxTime :
          /\ f \in InUse
          /\ disk' = [disk EXCEPT !.length[f] = @ + 1, !.time[f] = t]
          /\ daemon' = [daemon EXCEPT !.events =
               IF Tool[f] = "opencode" THEN @ ELSE Raised(@, Dir[f], "write", f)]
          /\ log' = [log EXCEPT !.late =
               IF daemon.up /\ (\/ Tool[f] = "gemini" /\ t <= daemon.mark[f]
                                \/ Tool[f] = "opencode" /\ t <= Watermark)
               THEN @ \cup {f} ELSE @ \ {f}]
          /\ saved' = saved
    BY DEF Write
  <1>2. /\ IsDisk(disk) /\ IsMemory(daemon, disk) /\ IsLog(log, disk) /\ saved \in [Files -> Nat]
        /\ MaxTime \in Nat /\ f \in Used(disk.tool) /\ Tool[f] = disk.tool
        /\ disk \in DiskType /\ t \in Nat /\ t > 0
    BY <1>1, InvTypes DEF Used, IsDisk
  <1>3. /\ disk'.tool = disk.tool /\ disk'.dirs = disk.dirs
        /\ disk'.length = [disk.length EXCEPT ![f] = @ + 1]
        /\ disk'.time = [disk.time EXCEPT ![f] = t]
        /\ disk' \in DiskType
    <2>1. /\ disk'.tool = disk.tool /\ disk'.dirs = disk.dirs
          /\ disk'.length = [disk.length EXCEPT ![f] = @ + 1]
          /\ disk'.time = [disk.time EXCEPT ![f] = t]
          /\ disk' = [tool |-> disk'.tool, length |-> disk'.length, time |-> disk'.time, dirs |-> disk'.dirs]
      BY <1>1, <1>2 DEF DiskType
    <2>2. disk'.length \in [Files -> Nat] /\ disk'.time \in [Files -> 0 .. MaxTime]
      BY <1>2, <2>1 DEF DiskType
    <2> QED
      BY <1>2, <2>1, <2>2 DEF DiskType
  <1>4. /\ disk'.length[f] = disk.length[f] + 1 /\ disk'.time[f] = t
        /\ \A g \in Files : g # f => disk'.length[g] = disk.length[g] /\ disk'.time[g] = disk.time[g]
        /\ disk.length[f] \in Nat
    BY <1>2, <1>3 DEF DiskType
  <1>5. IsDisk(disk')
    BY <1>2, <1>3, <1>4 DEF IsDisk
  <1>6. /\ DOMAIN daemon' = DOMAIN daemon
        /\ daemon'.up = daemon.up /\ daemon'.mark = daemon.mark /\ daemon'.cache = daemon.cache
        /\ daemon'.mappings = daemon.mappings /\ daemon'.toScan = daemon.toScan
        /\ daemon'.found = daemon.found /\ daemon'.watched = daemon.watched
        /\ daemon'.pending = daemon.pending
        /\ daemon'.events = IF Tool[f] = "opencode" THEN daemon.events
                            ELSE Raised(daemon.events, Dir[f], "write", f)
    BY <1>1, <1>2 DEF IsMemory
  <1>7. /\ daemon'.events \in Seq(Happenings(disk.tool))
        /\ daemon.watched = {} => daemon'.events = daemon.events
    <2>1. [kind |-> "write", name |-> f] \in Happenings(disk.tool)
      BY <1>2 DEF Happenings
    <2> QED
      BY <1>2, <1>6, <2>1, RaisedType DEF IsMemory
  <1>8. IsMemory(daemon', disk')
    BY <1>2, <1>3, <1>6, <1>7 DEF IsMemory
  <1>9. /\ DOMAIN log' = DOMAIN log /\ log'.read = log.read /\ log'.delivered = log.delivered
        /\ log'.dropped = log.dropped /\ log'.again = log.again /\ log'.reopened = log.reopened
        /\ log'.late = IF daemon.up /\ (\/ Tool[f] = "gemini" /\ t <= daemon.mark[f]
                                        \/ Tool[f] = "opencode" /\ t <= Watermark)
                       THEN log.late \cup {f} ELSE log.late \ {f}
    BY <1>1, <1>2 DEF IsLog
  <1>10. /\ Cached(daemon, disk.tool) /\ Offsets(daemon, saved, log, disk)
         /\ Versions(daemon, log, disk) /\ Once(log) /\ Reasoned(log)
    BY DEF IInv, Sound
  <1>11. Cached(daemon', disk'.tool) /\ Once(log') /\ Reasoned(log') /\ IsLog(log', disk')
    BY <1>2, <1>3, <1>6, <1>9, <1>10 DEF Cached, Once, Reasoned, IsLog
  <1>12. Offsets(daemon', saved', log', disk')
    <2> SUFFICES ASSUME disk.tool = "codex", NEW g \in Used("codex")
                 PROVE  /\ saved = daemon.mark /\ daemon.mark[g] <= disk'.length[g]
                        /\ \A i \in Nat : <<g, i>> \in log.read <=> i \in 1 .. daemon.mark[g]
      <3>1. Used("codex") # {} \/ disk.tool # "codex"
        BY <1>2 DEF IsDisk
      <3> QED
        BY <1>1, <1>3, <1>6, <1>9, <3>1 DEF Offsets
    <2>1. /\ saved = daemon.mark /\ daemon.mark[g] <= disk.length[g]
          /\ \A i \in Nat : <<g, i>> \in log.read <=> i \in 1 .. daemon.mark[g]
      BY <1>10 DEF Offsets
    <2>2. g \in Files /\ disk.length[g] \in Nat /\ daemon.mark[g] \in Nat
      BY <1>2 DEF Used, DiskType, IsMemory
    <2>3. disk'.length[g] \in Nat /\ disk.length[g] <= disk'.length[g]
      BY <1>4, <2>2
    <2> QED
      BY <2>1, <2>2, <2>3
  <1>13. Versions(daemon', log', disk')
    <2> SUFFICES ASSUME disk.tool # "codex", daemon.up, NEW g \in Used(disk.tool)
                 PROVE  /\ \A k \in Nat : <<g, k>> \in log.read =>
                             k <= disk'.length[g] /\ (k = disk'.length[g] => disk'.time[g] <= daemon.mark[g])
                        /\ disk'.length[g] > 0 /\ disk'.time[g] <= daemon.mark[g] =>
                             <<g, disk'.length[g]>> \in log.read \/ g \in log'.late
      BY <1>3, <1>6, <1>9 DEF Versions
    <2>1. /\ \A k \in Nat : <<g, k>> \in log.read =>
               k <= disk.length[g] /\ (k = disk.length[g] => disk.time[g] <= daemon.mark[g])
          /\ disk.length[g] > 0 /\ disk.time[g] <= daemon.mark[g] =>
               <<g, disk.length[g]>> \in log.read \/ g \in log.late
      BY <1>10 DEF Versions
    <2>2. g \in Files
      BY DEF Used
    <2>3. CASE g # f
      BY <1>4, <1>9, <2>1, <2>2, <2>3
    <2>4. CASE g = f
      <3>1. \A k \in Nat : <<f, k>> \in log.read => k <= disk'.length[f] /\ k # disk'.length[f]
        BY <1>4, <2>1, <2>4
      <3>2. Tool[f] = "opencode" => Watermark = daemon.mark[f]
        BY <1>2, WatermarkOf
      <3>3. Tool[f] \in {"gemini", "opencode"}
        BY <1>2 DEF DiskType
      <3>4. t <= daemon.mark[f] => f \in log'.late
        BY <1>9, <3>2, <3>3
      <3> QED
        BY <1>4, <2>4, <3>1, <3>4
    <2> QED
      BY <2>3, <2>4
  <1>14. Sound(daemon', saved', log', disk')
    BY <1>1, <1>2, <1>8, <1>11, <1>12, <1>13 DEF Sound
  <1> QED
    BY <1>5, <1>9, <1>14 DEF IInv, Follows

LEMMA StartStep ==
  ASSUME IInv, Start
  PROVE  Follows
  <1>1. /\ daemon' = Fresh(TRUE) /\ disk' = disk /\ saved' = saved
        /\ log' = [log EXCEPT !.late = {}, !.read = IF disk.tool = "codex" THEN @ ELSE {}]
    BY DEF Start
  <1>2. /\ IsDisk(disk) /\ IsMemory(daemon, disk) /\ IsLog(log, disk) /\ saved \in [Files -> Nat]
        /\ Keys = KeysOf(disk.tool)
        /\ Offsets(daemon, saved, log, disk) /\ Once(log) /\ Reasoned(log)
    BY InvTypes DEF IInv, Sound
  <1>3. /\ DOMAIN daemon' = DOMAIN daemon /\ daemon'.up = TRUE /\ daemon'.events = <<>>
        /\ daemon'.toScan = {} /\ daemon'.found = {} /\ daemon'.cache = [k \in KeysOf(disk.tool) |-> NoProject]
        /\ daemon'.mark = IF disk.tool = "codex" THEN saved ELSE [f \in Files |-> 0]
    BY <1>1, <1>2 DEF Fresh, NothingCached, Unread, IsMemory
  <1>4. daemon'.mark \in [Files -> Nat]
    BY <1>2, <1>3
  <1>5. <<>> \in Seq(Happenings(disk.tool))
    OBVIOUS
  <1>6. IsMemory(daemon', disk)
    <2>1. disk.tool = "opencode" => \E time \in Nat : daemon'.mark = [f \in Files |-> time]
      BY <1>3
    <2>2. DOMAIN daemon'.cache = KeysOf(disk.tool)
      BY <1>3
    <2> QED
      BY <1>2, <1>3, <1>4, <1>5, <2>1, <2>2 DEF IsMemory
  <1>7. Cached(daemon', disk.tool)
    BY <1>3 DEF Cached
  <1>8. /\ DOMAIN log' = DOMAIN log /\ log'.delivered = log.delivered /\ log'.dropped = log.dropped
        /\ log'.again = log.again /\ log'.reopened = log.reopened
        /\ log'.read = IF disk.tool = "codex" THEN log.read ELSE {}
    BY <1>1, <1>2 DEF IsLog
  <1>9. IsLog(log', disk) /\ Once(log') /\ Reasoned(log')
    BY <1>2, <1>8 DEF IsLog, Once, Reasoned
  <1>10. Offsets(daemon', saved, log', disk)
    BY <1>2, <1>3, <1>8 DEF Offsets
  <1>11. Versions(daemon', log', disk)
    <2> SUFFICES ASSUME disk.tool # "codex", NEW f \in Used(disk.tool)
                 PROVE  ~(disk.length[f] > 0 /\ disk.time[f] <= daemon'.mark[f])
      BY <1>8 DEF Versions
    <2>1. f \in Files /\ disk.time[f] \in Nat
      BY <1>2 DEF Used, IsDisk, DiskType
    <2>2. daemon'.mark[f] = 0
      BY <1>3, <2>1
    <2>3. disk.length[f] > 0 => disk.time[f] > 0
      BY <1>2, <2>1 DEF IsDisk
    <2> QED
      BY <2>1, <2>2, <2>3
  <1>12. Sound(daemon', saved, log', disk)
    BY <1>2, <1>6, <1>7, <1>9, <1>10, <1>11 DEF Sound
  <1> QED
    BY <1>1, <1>2, <1>8, <1>12 DEF IInv, Follows

LEMMA StopStep ==
  ASSUME IInv, Stop
  PROVE  Follows
  <1>1. daemon' = Fresh(FALSE) /\ disk' = disk /\ saved' = saved /\ log' = log
    BY DEF Stop
  <1>2. /\ IsDisk(disk) /\ IsMemory(daemon, disk) /\ IsLog(log, disk) /\ saved \in [Files -> Nat]
        /\ Keys = KeysOf(disk.tool)
        /\ Offsets(daemon, saved, log, disk) /\ Once(log) /\ Reasoned(log)
    BY InvTypes DEF IInv, Sound
  <1>3. /\ DOMAIN daemon' = DOMAIN daemon /\ daemon'.up = FALSE /\ daemon'.events = <<>>
        /\ daemon'.toScan = {} /\ daemon'.found = {} /\ daemon'.watched = {} /\ daemon'.pending = {}
        /\ daemon'.cache = [k \in KeysOf(disk.tool) |-> NoProject]
        /\ daemon'.mark = IF disk.tool = "codex" THEN saved ELSE [f \in Files |-> 0]
    BY <1>1, <1>2 DEF Fresh, NothingCached, Unread, IsMemory
  <1>4. daemon'.mark \in [Files -> Nat]
    BY <1>2, <1>3
  <1>5. <<>> \in Seq(Happenings(disk.tool))
    OBVIOUS
  <1>6. IsMemory(daemon', disk)
    <2>1. disk.tool = "opencode" => \E time \in Nat : daemon'.mark = [f \in Files |-> time]
      BY <1>3
    <2>2. DOMAIN daemon'.cache = KeysOf(disk.tool)
      BY <1>3
    <2> QED
      BY <1>2, <1>3, <1>4, <1>5, <2>1, <2>2 DEF IsMemory
  <1>7. Cached(daemon', disk.tool)
    BY <1>3 DEF Cached
  <1>8. Offsets(daemon', saved, log, disk)
    BY <1>2, <1>3 DEF Offsets
  <1>9. Versions(daemon', log, disk)
    BY <1>3 DEF Versions
  <1>10. Sound(daemon', saved, log, disk)
    BY <1>2, <1>6, <1>7, <1>8, <1>9 DEF Sound
  <1> QED
    BY <1>1, <1>2, <1>10 DEF IInv, Follows

(* With new targets only the directories of Gemini are resolved, each to   *)
(* what the one path of its sessions resolves to.                          *)
LEMMA UpdateTargetsStep ==
  ASSUME IInv, UpdateTargets
  PROVE  Follows
  <1>1. PICK t \in daemon.pending :
          daemon' = [daemon EXCEPT
            !.pending = {}, !.mappings = Mapped(t.projects), !.known = t.dirs, !.watched = @ \cup t.dirs,
            !.cache = [k \in Keys |->
              IF disk.tool = "gemini" /\ \E f \in InUse : Dir[f] = k /\ k \in t.dirs
              THEN ResolveGemini(Mapped(t.projects), Cwd[CHOOSE f \in InUse : Dir[f] = k])
              ELSE NoProject]]
    BY DEF UpdateTargets
  <1>2. disk' = disk /\ saved' = saved /\ log' = log
    BY DEF UpdateTargets
  <1>3. /\ IsDisk(disk) /\ IsMemory(daemon, disk) /\ IsLog(log, disk) /\ saved \in [Files -> Nat]
        /\ Keys = KeysOf(disk.tool) /\ InUse = Used(disk.tool)
        /\ Offsets(daemon, saved, log, disk) /\ Versions(daemon, log, disk) /\ Once(log) /\ Reasoned(log)
    BY InvTypes DEF IInv, Sound
  <1> DEFINE maps == Mapped(t.projects)
             Found(k) == ResolveGemini(maps, Cwd[CHOOSE f \in InUse : Dir[f] = k])
  <1>4. /\ DOMAIN daemon' = DOMAIN daemon /\ daemon'.up = daemon.up /\ daemon'.events = daemon.events
        /\ daemon'.toScan = daemon.toScan /\ daemon'.found = daemon.found /\ daemon'.mark = daemon.mark
        /\ daemon'.mappings = maps
        /\ daemon'.cache = [k \in Keys |->
             IF disk.tool = "gemini" /\ \E f \in InUse : Dir[f] = k /\ k \in t.dirs
             THEN Found(k) ELSE NoProject]
    BY <1>1, <1>3 DEF IsMemory
  <1>5. daemon.up
    BY <1>3 DEF IsMemory
  <1>6. IsMemory(daemon', disk)
    <2>1. DOMAIN daemon'.cache = KeysOf(disk.tool)
      BY <1>3, <1>4
    <2> QED
      BY <1>3, <1>4, <1>5, <2>1 DEF IsMemory
  <1> HIDE DEF maps
  <1>7. Cached(daemon', disk.tool)
    <2> SUFFICES ASSUME NEW k \in Keys, daemon'.cache[k] # NoProject
                 PROVE  /\ disk.tool = "gemini"
                        /\ \A f \in Used("gemini") : Dir[f] = k => Resolve(maps, f) = daemon'.cache[k]
      BY <1>3, <1>4 DEF Cached
    <2>1. /\ disk.tool = "gemini" /\ \E f \in InUse : Dir[f] = k
          /\ daemon'.cache[k] = Found(k)
      BY <1>4
    <2> DEFINE h == CHOOSE f \in InUse : Dir[f] = k
    <2>2. h \in InUse /\ Dir[h] = k
      BY <2>1
    <2> HIDE DEF h
    <2>3. ASSUME NEW f \in Used("gemini"), Dir[f] = k
          PROVE  Resolve(maps, f) = daemon'.cache[k]
      <3>1. /\ f \in Files /\ h \in Files /\ Tool[f] = "gemini" /\ Tool[h] = "gemini"
        BY <1>3, <2>1, <2>2 DEF Used
      <3>2. Cwd[f] = Cwd[h]
        BY <2>2, <2>3, <3>1, ToolReadersAssumption
      <3> QED
        BY <2>1, <3>1, <3>2 DEF Resolve, h
    <2> QED
      BY <2>1, <2>3
  <1>8. Offsets(daemon', saved, log, disk) /\ Versions(daemon', log, disk)
    BY <1>3, <1>4 DEF Offsets, Versions
  <1>9. Sound(daemon', saved, log, disk)
    BY <1>3, <1>6, <1>7, <1>8 DEF Sound
  <1> QED
    BY <1>2, <1>3, <1>9 DEF IInv, Follows

(* A reader whose memory has one entry of a queue less.                    *)
LEMMA QueueTaken ==
  ASSUME IInv, NEW r, DOMAIN r = {"mem", "saved", "log"}, r.saved = saved, r.log = log,
         IsMemory(r.mem, disk), r.mem.up = daemon.up, r.mem.mark = daemon.mark,
         r.mem.cache = daemon.cache, r.mem.mappings = daemon.mappings, r.mem.known = daemon.known
  PROVE  Reads(r)
  BY QueuesChanged DEF IInv, Reads

LEMMA ScanStep ==
  ASSUME IInv, ScanExistingFiles
  PROVE  Follows
  <1>1. IsDisk(disk) /\ IsMemory(daemon, disk) /\ InUse = Used(disk.tool)
    BY InvTypes
  <1>2. CASE /\ daemon.up /\ ~daemon.scanned
             /\ daemon' = [daemon EXCEPT !.scanned = TRUE,
                  !.toScan = UNION {Written(d) : d \in daemon.watched \cap SessionDirs}]
             /\ UNCHANGED <<config, disk, saved, log, starts, changes>>
    <2> DEFINE scanned == UNION {Written(d) : d \in daemon.watched \cap SessionDirs}
    <2>1. scanned \subseteq InUse
      BY DEF Written
    <2>2. daemon' = [daemon EXCEPT !.scanned = TRUE, !.toScan = scanned] /\ daemon.up
      BY <1>2
    <2> HIDE DEF scanned
    <2>3. /\ DOMAIN daemon' = DOMAIN daemon /\ daemon'.up = daemon.up /\ daemon'.mark = daemon.mark
          /\ daemon'.cache = daemon.cache /\ daemon'.mappings = daemon.mappings
          /\ daemon'.found = daemon.found /\ daemon'.events = daemon.events
          /\ daemon'.toScan = scanned
      BY <1>1, <2>2 DEF IsMemory
    <2>4. IsMemory(daemon', disk)
      BY <1>1, <2>1, <2>2, <2>3 DEF IsMemory
    <2> QED
      BY <1>1, <1>2, <2>3, <2>4, Quiet
  <1>3. CASE \E f \in daemon.toScan :
               /\ Done(ReadFile([Reader EXCEPT !.mem.toScan = @ \ {f}], f))
               /\ UNCHANGED <<config, disk, starts, changes>>
    <2>1. PICK f \in daemon.toScan :
            Done(ReadFile([Reader EXCEPT !.mem.toScan = @ \ {f}], f)) /\ disk' = disk
      BY <1>3
    <2> DEFINE r == [Reader EXCEPT !.mem.toScan = @ \ {f}]
    <2>2. /\ DOMAIN r = {"mem", "saved", "log"} /\ r.saved = saved /\ r.log = log
          /\ r.mem = [daemon EXCEPT !.toScan = @ \ {f}]
      BY DEF Reader
    <2>3. Done(ReadFile(r, f))
      BY <2>1
    <2> HIDE DEF r
    <2>4. /\ r.mem.up = daemon.up /\ r.mem.mark = daemon.mark /\ r.mem.cache = daemon.cache
          /\ r.mem.mappings = daemon.mappings /\ r.mem.known = daemon.known
          /\ IsMemory(r.mem, disk) /\ daemon.up /\ f \in Used(disk.tool)
      BY <1>1, <2>2 DEF IsMemory
    <2>5. Yields(r, ReadFile(r, f))
      BY <1>1, <2>2, <2>4, QueueTaken, FileRead
    <2> QED
      BY <2>1, <2>2, <2>3, <2>5, DoneReading
  <1> QED
    BY <1>2, <1>3 DEF ScanExistingFiles

(* A directory that was made, a file that was written, or one of those     *)
(* found in a directory.                                                   *)
LEMMA HandleFileEventStep ==
  ASSUME IInv, HandleFileEvent
  PROVE  Follows
  <1>1. /\ IsDisk(disk) /\ IsMemory(daemon, disk) /\ InUse = Used(disk.tool) /\ disk' = disk
        /\ disk.tool \in {"codex", "gemini", "opencode"}
    BY InvTypes DEF HandleFileEvent
  <1>2. CASE /\ daemon.events # <<>>
             /\ LET e == Head(daemon.events)
                    r == [Reader EXCEPT !.mem.events = Tail(@)]
                IN Done(IF e.kind = "dir" THEN Created(r, e.name) ELSE ReadFile(r, e.name))
    <2> DEFINE e == Head(daemon.events)
               r == [Reader EXCEPT !.mem.events = Tail(@)]
    <2>1. Done(IF e.kind = "dir" THEN Created(r, e.name) ELSE ReadFile(r, e.name))
      BY <1>2
    <2>2. e \in Happenings(disk.tool) /\ Tail(daemon.events) \in Seq(Happenings(disk.tool))
      BY <1>1, <1>2 DEF IsMemory
    <2>3. /\ DOMAIN r = {"mem", "saved", "log"} /\ r.saved = saved /\ r.log = log
          /\ r.mem = [daemon EXCEPT !.events = Tail(@)]
      BY DEF Reader
    <2> HIDE DEF r, e
    <2>4. /\ DOMAIN r.mem = DOMAIN daemon
          /\ r.mem.up = daemon.up /\ r.mem.mark = daemon.mark /\ r.mem.cache = daemon.cache
          /\ r.mem.mappings = daemon.mappings /\ r.mem.known = daemon.known
          /\ r.mem.toScan = daemon.toScan /\ r.mem.found = daemon.found
          /\ r.mem.events = Tail(daemon.events) /\ daemon.up
      BY <1>1, <1>2, <2>3 DEF IsMemory
    <2>5. IsMemory(r.mem, disk)
      BY <1>1, <2>2, <2>4 DEF IsMemory
    <2>6. CASE e.kind = "dir"
      <3> DEFINE below == IF disk.tool = "gemini"
                          THEN {c \in disk.dirs \cap SessionDirs : Above[c] = e.name} ELSE {}
                 found == IF disk.tool = "codex" THEN Written(e.name) ELSE UNION {Written(c) : c \in below}
                 x == [r EXCEPT !.mem.watched = @ \cup {e.name} \cup below, !.mem.found = found]
      <3>1. Created(r, e.name) = x
        BY DEF Created
      <3>2. found \subseteq Used(disk.tool) /\ (disk.tool = "opencode" => found = {})
        BY <1>1 DEF Written
      <3> HIDE DEF found, below
      <3>3. /\ x.saved = r.saved /\ x.log = r.log
            /\ x.mem = [r.mem EXCEPT !.watched = @ \cup {e.name} \cup below, !.found = found]
        BY <2>3
      <3> HIDE DEF x
      <3>4. daemon' = x.mem /\ saved' = saved /\ log' = log
        BY <2>1, <2>3, <2>6, <3>1, <3>3 DEF Done
      <3>5. /\ DOMAIN daemon' = DOMAIN daemon
            /\ daemon'.up = daemon.up /\ daemon'.mark = daemon.mark /\ daemon'.cache = daemon.cache
            /\ daemon'.mappings = daemon.mappings /\ daemon'.toScan = daemon.toScan
            /\ daemon'.events = r.mem.events /\ daemon'.found = found
        BY <1>1, <2>4, <3>3, <3>4 DEF IsMemory
      <3>6. IsMemory(daemon', disk')
        BY <1>1, <2>4, <2>5, <3>2, <3>5 DEF IsMemory
      <3> QED
        BY <1>1, <3>4, <3>5, <3>6, Quiet
    <2>7. CASE e.kind # "dir"
      <3>1. e.name \in Used(disk.tool)
        BY <2>2, <2>7 DEF Happenings
      <3>2. Done(ReadFile(r, e.name))
        BY <2>1, <2>7
      <3>3. Reads(r)
        BY <2>3, <2>4, <2>5, QueueTaken
      <3>4. Yields(r, ReadFile(r, e.name))
        BY <1>1, <2>4, <3>1, <3>3, FileRead
      <3> QED
        BY <1>1, <2>3, <3>2, <3>4, DoneReading
    <2> QED
      BY <2>6, <2>7
  <1>3. CASE \E f \in daemon.found : Done(ReadFound([Reader EXCEPT !.mem.found = @ \ {f}], f))
    <2>1. PICK f \in daemon.found : Done(ReadFound([Reader EXCEPT !.mem.found = @ \ {f}], f))
      BY <1>3
    <2> DEFINE r == [Reader EXCEPT !.mem.found = @ \ {f}]
    <2>2. /\ DOMAIN r = {"mem", "saved", "log"} /\ r.saved = saved /\ r.log = log
          /\ r.mem = [daemon EXCEPT !.found = @ \ {f}]
      BY DEF Reader
    <2>3. Done(ReadFound(r, f))
      BY <2>1
    <2> HIDE DEF r
    <2>4. /\ r.mem.up = daemon.up /\ r.mem.mark = daemon.mark /\ r.mem.cache = daemon.cache
          /\ r.mem.mappings = daemon.mappings /\ r.mem.known = daemon.known
          /\ IsMemory(r.mem, disk) /\ daemon.up /\ f \in Used(disk.tool) /\ disk.tool # "opencode"
      BY <1>1, <2>2 DEF IsMemory
    <2>5. Yields(r, ReadFound(r, f))
      BY <1>1, <2>2, <2>4, QueueTaken, FoundRead
    <2> QED
      BY <1>1, <2>2, <2>3, <2>5, DoneReading
  <1> QED
    BY <1>2, <1>3 DEF HandleFileEvent

(* A poll reads what is newer than the watermark up to some time, and that *)
(* is the new watermark.                                                   *)
LEMMA PollStep ==
  ASSUME IInv, PollNewMessages
  PROVE  Follows
  <1>1. /\ IsDisk(disk) /\ IsMemory(daemon, disk) /\ IsLog(log, disk) /\ saved \in [Files -> Nat]
        /\ InUse = Used("opencode") /\ Keys = Paths /\ KeysOf("opencode") = Paths
        /\ MaxTime \in Nat /\ disk.tool = "opencode" /\ daemon.up
        /\ disk' = disk /\ saved' = saved
    BY InvTypes DEF PollNewMessages, KeysOf
  <1>2. /\ LogKept(log) /\ Cached(daemon, "opencode") /\ Versions(daemon, log, disk)
    BY <1>1 DEF IInv, Sound, LogKept
  <1>3. PICK rows \in Rows \ {{}} :
          LET last == MaxOf({disk.time[f] : f \in rows})
              cache == [k \in Keys |->
                IF daemon.cache[k] = NoProject /\ \E f \in rows : Cwd[f] = k
                THEN ResolveByProjectPath(daemon.mappings, k) ELSE daemon.cache[k]]
              lines == {<<f, disk.length[f]>> : f \in rows}
          IN /\ daemon' = [daemon EXCEPT !.cache = cache, !.mark = [f \in Files |-> last]]
             /\ log' = [AddLinesForDir(log, lines, [f \in rows |-> cache[Cwd[f]]], "whole") EXCEPT
                          !.late = @ \cup {f \in Newer \ rows : disk.time[f] = last}]
    BY DEF PollNewMessages
  <1> DEFINE times == {disk.time[f] : f \in rows}
             last == MaxOf(times)
             cache == [k \in Keys |->
               IF daemon.cache[k] = NoProject /\ \E f \in rows : Cwd[f] = k
               THEN ResolveByProjectPath(daemon.mappings, k) ELSE daemon.cache[k]]
             lines == {<<f, disk.length[f]>> : f \in rows}
             project == [f \in rows |-> cache[Cwd[f]]]
             l == AddLinesForDir(log, lines, project, "whole")
             behind == {f \in Newer \ rows : disk.time[f] = last}
  <1>4. /\ daemon' = [daemon EXCEPT !.cache = cache, !.mark = [f \in Files |-> last]]
        /\ log' = [l EXCEPT !.late = @ \cup behind]
    BY <1>3
  <1>5. /\ rows \subseteq Newer /\ rows # {}
        /\ \A f \in rows, g \in Newer \ rows : disk.time[f] <= disk.time[g]
    BY <1>3 DEF Rows
  <1>6. \A f \in Used("opencode") :
          /\ f \in Files /\ Tool[f] = "opencode" /\ Cwd[f] \in Paths
          /\ disk.length[f] \in Nat /\ disk.time[f] \in Nat /\ disk.time[f] \in 0 .. MaxTime
          /\ daemon.mark[f] = Watermark /\ Watermark \in Nat
    <2> SUFFICES ASSUME NEW f \in Used("opencode")
                 PROVE  /\ f \in Files /\ Tool[f] = "opencode" /\ Cwd[f] \in Paths
                        /\ disk.length[f] \in Nat /\ disk.time[f] \in Nat /\ disk.time[f] \in 0 .. MaxTime
                        /\ daemon.mark[f] = Watermark /\ Watermark \in Nat
      OBVIOUS
    <2>1. f \in Files /\ Tool[f] = "opencode" /\ Cwd[f] \in Paths
      BY DEF Used, Paths
    <2>2. daemon.mark[f] = Watermark /\ daemon.mark[f] \in Nat
      BY <1>1, <2>1, WatermarkOf DEF IsMemory
    <2> QED
      BY <1>1, <2>1, <2>2 DEF IsDisk, DiskType
  <1>7. \A f \in rows : f \in Used("opencode") /\ disk.length[f] > 0 /\ disk.time[f] > Watermark
    BY <1>1, <1>5 DEF Newer
  <1>8. /\ last \in Nat /\ \A f \in rows : disk.time[f] <= last
        /\ \E f \in rows : disk.time[f] = last
    <2>1. times \subseteq 0 .. MaxTime
      BY <1>6, <1>7
    <2>2. last \in times \cup {0} /\ \A t \in times : t <= last
      BY <1>1, <2>1, MaxOfTimes
    <2>3. \A f \in rows : disk.time[f] \in times
      OBVIOUS
    <2>4. PICK f \in rows : TRUE
      BY <1>5
    <2>5. last # 0
      <3>1. disk.time[f] \in Nat /\ Watermark \in Nat /\ disk.time[f] > Watermark
        BY <1>6, <1>7
      <3>2. disk.time[f] <= last
        BY <2>2, <2>3
      <3> HIDE DEF last
      <3> QED
        BY <3>1, <3>2
    <2>6. last \in times /\ last \in Nat
      BY <2>1, <2>2, <2>5
    <2> QED
      BY <2>2, <2>3, <2>6
  <1>9. \A k \in Paths :
          cache[k] = daemon.cache[k] \/ cache[k] = ResolveByProjectPath(daemon.mappings, k)
    BY <1>1
  <1>10. \A k \in Paths : cache[k] # NoProject => ResolveByProjectPath(daemon.mappings, k) = cache[k]
    BY <1>1, <1>2, <1>9 DEF Cached
  <1>11. \A f \in rows : project[f] = Resolve(daemon.mappings, f)
    <2> SUFFICES ASSUME NEW f \in rows
                 PROVE  project[f] = Resolve(daemon.mappings, f)
      OBVIOUS
    <2>1. Resolve(daemon.mappings, f) = ResolveByProjectPath(daemon.mappings, Cwd[f])
      BY <1>6, <1>7 DEF Resolve
    <2>2. cache[Cwd[f]] = ResolveByProjectPath(daemon.mappings, Cwd[f])
      <3>1. CASE daemon.cache[Cwd[f]] = NoProject
        BY <1>1, <1>6, <1>7, <3>1
      <3>2. CASE daemon.cache[Cwd[f]] # NoProject
        <4>1. cache[Cwd[f]] = daemon.cache[Cwd[f]]
          BY <1>1, <1>6, <1>7, <3>2
        <4> QED
          BY <1>6, <1>7, <1>10, <3>2, <4>1
      <3> QED
        BY <3>1, <3>2
    <2> QED
      BY <2>1, <2>2
  <1>12. DOMAIN cache = Paths
    BY <1>1
  <1> HIDE DEF times, last, cache, project
  <1>13. Adds(log, l, lines)
    <2>1. lines \subseteq Used(disk.tool) \X Nat
      BY <1>1, <1>6, <1>7
    <2>2. \A x \in lines : x[1] \in rows /\ x = <<x[1], disk.length[x[1]]>>
      OBVIOUS
    <2>3. \A x \in lines : x \notin log.read
      <3> SUFFICES ASSUME NEW x \in lines, x \in log.read
                   PROVE  FALSE
        OBVIOUS
      <3>1. x[1] \in rows /\ x = <<x[1], disk.length[x[1]]>>
        BY <2>2
      <3>2. disk.time[x[1]] <= daemon.mark[x[1]]
        <4> DEFINE f == x[1]
        <4>1. <<f, disk.length[f]>> \in log.read /\ f \in Used(disk.tool) /\ disk.length[f] \in Nat
          BY <1>1, <1>6, <1>7, <3>1
        <4> HIDE DEF f
        <4>2. disk.time[f] <= daemon.mark[f]
          BY <1>1, <1>2, <4>1 DEF Versions
        <4> QED
          BY <4>2 DEF f
      <3> QED
        BY <1>6, <1>7, <3>1, <3>2
    <2>4. \A x \in lines : project[x[1]] = NoProject => MayDrop(x[1], "whole")
      BY <1>11, <2>2 DEF MayDrop
    <2>5. \A x \in lines : project[x[1]] # NoProject => Owns(x[1], project[x[1]])
      <3> SUFFICES ASSUME NEW x \in lines
                   PROVE  Owns(x[1], project[x[1]])
        OBVIOUS
      <3>1. x[1] \in rows /\ x[1] \in Files
        BY <1>6, <1>7, <2>2
      <3> QED
        BY <1>11, <3>1 DEF Owns
    <2> HIDE DEF lines
    <2> QED
      BY <1>2, <2>1, <2>3, <2>4, <2>5, Added
  <1> HIDE DEF l, behind
  <1>14. /\ LogKept(l) /\ l.read = log.read \cup lines /\ l.late = log.late
         /\ \A y \in l.delivered : y \in log.delivered \/ FromPath(y)
    BY <1>13 DEF Adds
  <1>15. /\ DOMAIN log' = DOMAIN l /\ log'.delivered = l.delivered /\ log'.dropped = l.dropped
         /\ log'.read = l.read /\ log'.again = l.again /\ log'.reopened = l.reopened
         /\ log'.late = log.late \cup behind
    BY <1>4, <1>14 DEF LogKept, IsLog
  <1>16. LogKept(log')
    BY <1>14, <1>15 DEF LogKept, IsLog, Once, Reasoned
  <1>17. /\ DOMAIN daemon' = DOMAIN daemon /\ daemon'.up = daemon.up
         /\ daemon'.events = daemon.events /\ daemon'.toScan = daemon.toScan
         /\ daemon'.found = daemon.found /\ daemon'.watched = daemon.watched
         /\ daemon'.pending = daemon.pending /\ daemon'.mappings = daemon.mappings
         /\ daemon'.cache = cache /\ daemon'.mark = [f \in Files |-> last]
    BY <1>1, <1>4 DEF IsMemory
  <1>18. IsMemory(daemon', disk)
    <2>1. daemon'.mark \in [Files -> Nat]
      BY <1>8, <1>17
    <2> QED
      BY <1>1, <1>8, <1>12, <1>17, <2>1 DEF IsMemory
  <1>19. Cached(daemon', disk.tool)
    BY <1>1, <1>10, <1>17 DEF Cached
  <1>20. Offsets(daemon', saved, log', disk)
    BY <1>1 DEF Offsets
  <1>21. Versions(daemon', log', disk)
    <2> SUFFICES ASSUME NEW g \in Used("opencode")
                 PROVE  /\ \A k \in Nat : <<g, k>> \in log'.read =>
                             k <= disk.length[g] /\ (k = disk.length[g] => disk.time[g] <= daemon'.mark[g])
                        /\ disk.length[g] > 0 /\ disk.time[g] <= daemon'.mark[g] =>
                             <<g, disk.length[g]>> \in log'.read \/ g \in log'.late
      BY <1>1 DEF Versions
    <2>1. /\ \A k \in Nat : <<g, k>> \in log.read =>
               k <= disk.length[g] /\ (k = disk.length[g] => disk.time[g] <= Watermark)
          /\ disk.length[g] > 0 /\ disk.time[g] <= Watermark =>
               <<g, disk.length[g]>> \in log.read \/ g \in log.late
      BY <1>1, <1>2, <1>6 DEF Versions
    <2>2. daemon'.mark[g] = last
      BY <1>6, <1>17
    <2>3. Watermark \in Nat /\ Watermark <= last
      BY <1>6, <1>7, <1>8
    <2>4. ASSUME NEW k \in Nat, <<g, k>> \in log'.read
          PROVE  k <= disk.length[g] /\ (k = disk.length[g] => disk.time[g] <= last)
      <3>1. CASE <<g, k>> \in log.read
        BY <1>6, <1>8, <2>1, <2>3, <3>1
      <3>2. CASE <<g, k>> \in lines
        <4>1. g \in rows /\ k = disk.length[g]
          BY <3>2
        <4> QED
          BY <1>6, <1>8, <4>1
      <3> QED
        BY <1>14, <1>15, <2>4, <3>1, <3>2
    <2>5. ASSUME disk.length[g] > 0, disk.time[g] <= last
          PROVE  <<g, disk.length[g]>> \in log'.read \/ g \in log'.late
      <3>1. CASE disk.time[g] <= Watermark
        BY <1>14, <1>15, <2>1, <2>5, <3>1
      <3>2. CASE disk.time[g] > Watermark /\ g \in rows
        BY <1>14, <1>15, <3>2
      <3>3. CASE disk.time[g] > Watermark /\ g \notin rows
        <4>1. g \in Newer \ rows
          BY <1>1, <2>5, <3>3 DEF Newer
        <4>2. PICK h \in rows : disk.time[h] = last
          BY <1>8
        <4>3. disk.time[h] <= disk.time[g]
          BY <1>5, <4>1
        <4>4. disk.time[g] = last
          BY <1>6, <1>8, <2>5, <4>2, <4>3
        <4> QED
          BY <1>15, <4>1, <4>4 DEF behind
      <3> QED
        BY <1>6, <2>3, <3>1, <3>2, <3>3
    <2> QED
      BY <2>2, <2>4, <2>5
  <1>22. Sound(daemon', saved, log', disk)
    BY <1>1, <1>16, <1>18, <1>19, <1>20, <1>21 DEF Sound, LogKept
  <1> QED
    BY <1>1, <1>14, <1>15, <1>22 DEF IInv, Follows
-----------------------------------------------------------------------------
LEMMA Step ==
  ASSUME IInv, Next
  PROVE  Follows
  <1>1. ASSUME NEW d \in Dirs, MakeDir(d) PROVE Follows
    BY <1>1, MakeDirStep
  <1>2. ASSUME NEW f \in Files, Write(f) PROVE Follows
    BY <1>2, WriteStep
  <1>3. ASSUME NEW c \in Configs, ChangeConfig(c) PROVE Follows
    BY <1>3, ChangeConfigStep
  <1>4. CASE Start
    BY <1>4, StartStep
  <1>5. CASE Stop
    BY <1>5, StopStep
  <1>6. CASE UpdateTargets
    BY <1>6, UpdateTargetsStep
  <1>7. CASE ScanExistingFiles
    BY <1>7, ScanStep
  <1>8. CASE HandleFileEvent
    BY <1>8, HandleFileEventStep
  <1>9. CASE PollNewMessages
    BY <1>9, PollStep
  <1> QED
    BY <1>1, <1>2, <1>3, <1>4, <1>5, <1>6, <1>7, <1>8, <1>9 DEF Next, ToolStep

LEMMA Initially == Init => IInv
  <1> SUFFICES ASSUME Init PROVE IInv
    OBVIOUS
  <1>1. /\ saved = [f \in Files |-> 0] /\ daemon = Fresh(FALSE)
        /\ log = [delivered |-> {}, dropped |-> {}, late |-> {}, read |-> {}, again |-> {}, reopened |-> {}]
    BY DEF Init, Unread
  <1>2. PICK tool \in {Tool[f] : f \in Files} :
          disk = [tool |-> tool, length |-> Unread, time |-> Unread,
                  dirs |-> {d \in Old : \E f \in Files : Tool[f] = tool /\ (Dir[f] = d \/ (Dir[f] \in Dirs /\ Above[Dir[f]] = d))}]
    BY DEF Init
  <1>3. /\ disk.tool = tool /\ disk.length = [f \in Files |-> 0] /\ disk.time = [f \in Files |-> 0]
        /\ disk.dirs \subseteq Dirs
        /\ disk = [tool |-> disk.tool, length |-> disk.length, time |-> disk.time, dirs |-> disk.dirs]
    BY <1>2, ToolReadersAssumption DEF Unread
  <1>4. disk.tool \in {"codex", "gemini", "opencode"} /\ Used(disk.tool) # {}
    BY <1>2, <1>3, ToolReadersAssumption DEF Used
  <1>5. IsDisk(disk)
    <2>1. disk.length \in [Files -> Nat] /\ disk.time \in [Files -> 0 .. MaxTime]
      BY <1>3, ToolReadersAssumption
    <2>2. \A f \in Files : disk.length[f] = 0
      BY <1>3
    <2> QED
      BY <1>3, <1>4, <2>1, <2>2 DEF IsDisk, DiskType
  <1>6. Keys = KeysOf(disk.tool)
    BY DEF Keys, KeysOf
  <1>7. /\ DOMAIN daemon = {"up", "pending", "scanned", "toScan", "found", "mappings", "known", "cache",
                            "watched", "events", "mark"}
        /\ daemon.up = FALSE /\ daemon.events = <<>>
        /\ daemon.toScan = {} /\ daemon.found = {} /\ daemon.watched = {} /\ daemon.pending = {}
        /\ daemon.cache = [k \in KeysOf(disk.tool) |-> NoProject] /\ daemon.mark = [f \in Files |-> 0]
    BY <1>1, <1>6 DEF Fresh, NothingCached, Unread
  <1>8. IsMemory(daemon, disk)
    <2>1. /\ daemon.mark \in [Files -> Nat] /\ DOMAIN daemon.cache = KeysOf(disk.tool)
          /\ <<>> \in Seq(Happenings(disk.tool))
      BY <1>7
    <2> QED
      BY <1>7, <2>1 DEF IsMemory
  <1>9. IsLog(log, disk) /\ Once(log) /\ Reasoned(log)
    BY <1>1 DEF IsLog, Once, Reasoned
  <1>10. Cached(daemon, disk.tool)
    BY <1>7 DEF Cached
  <1>11. Versions(daemon, log, disk)
    BY <1>7 DEF Versions
  <1>12. Offsets(daemon, saved, log, disk)
    <2> SUFFICES ASSUME NEW f \in Used("codex")
                 PROVE  /\ daemon.mark[f] <= disk.length[f]
                        /\ \A i \in Nat : <<f, i>> \in log.read <=> i \in 1 .. daemon.mark[f]
      BY <1>1, <1>7 DEF Offsets
    <2>1. daemon.mark[f] = 0 /\ disk.length[f] = 0 /\ log.read = {}
      BY <1>1, <1>3, <1>7 DEF Used
    <2> QED
      BY <2>1
  <1>13. saved \in [Files -> Nat]
    BY <1>1
  <1> QED
    BY <1>5, <1>8, <1>9, <1>10, <1>11, <1>12, <1>13 DEF IInv, Sound

LEMMA Consecution == IInv /\ [Next]_vars => IInv'
  <1>1. IInv /\ Next => IInv'
    BY Step DEF Follows
  <1>2. IInv /\ UNCHANGED vars => IInv'
    <2> SUFFICES ASSUME IInv, UNCHANGED vars PROVE IInv'
      OBVIOUS
    <2>1. daemon' = daemon /\ saved' = saved /\ log' = log /\ disk' = disk
      BY DEF vars
    <2> QED
      BY <2>1 DEF IInv
  <1> QED
    BY <1>1, <1>2

(* Of a Codex file exactly what lies behind its offset was read, of the    *)
(* others nothing is marked that was not, and what was resolved is what    *)
(* the targets in force resolve it to.                                     *)
THEOREM Invariant == Spec => []IInv
  BY Initially, Consecution, PTL DEF Spec

(* What is dropped though its project is tracked is of Codex, and of a     *)
(* directory that is no target yet or the rest of a session.               *)
THEOREM DropsExplained == Spec => []DroppedForAReason
  <1>1. IInv => DroppedForAReason
    BY DEF IInv, Sound, Reasoned, DroppedForAReason
  <1> QED
    BY <1>1, Invariant, PTL

(* Whatever lies behind an offset, a modification time or the watermark    *)
(* was read, or was written too late for it.                               *)
THEOREM NothingIsPassedOver == Spec => []NothingPassedOver
  <1>1. IInv => NothingPassedOver
    <2> SUFFICES ASSUME IInv, daemon.up, NEW f \in InUse, disk.length[f] > 0
                 PROVE  CASE disk.tool = "codex" -> \A i \in 1 .. daemon.mark[f] : <<f, i>> \in log.read
                          [] OTHER -> disk.time[f] <= daemon.mark[f] =>
                                        <<f, disk.length[f]>> \in log.read \/ f \in log.late
      BY DEF NothingPassedOver
    <2>1. /\ f \in Used(disk.tool) /\ Offsets(daemon, saved, log, disk) /\ Versions(daemon, log, disk)
          /\ daemon.mark[f] \in Nat
      BY InvTypes DEF IInv, Sound, IsMemory, Used
    <2>2. disk.tool = "codex" => \A i \in 1 .. daemon.mark[f] : <<f, i>> \in log.read
      BY <2>1 DEF Offsets
    <2>3. disk.tool # "codex" => (disk.time[f] <= daemon.mark[f] =>
            <<f, disk.length[f]>> \in log.read \/ f \in log.late)
      BY <2>1 DEF Versions
    <2> QED
      BY <2>2, <2>3
  <1> QED
    BY <1>1, Invariant, PTL

(* Nothing is read twice, but for the files of a Codex directory that is   *)
(* read from its beginning after they were read already.                   *)
THEOREM ReadOnlyOnce == Spec => []ReadOnce
  <1>1. IInv => ReadOnce
    BY DEF IInv, Sound, Once, ReadOnce
  <1> QED
    BY <1>1, Invariant, PTL

(* No step gives a line to a project that the targets in force do not give *)
(* it to, whatever was resolved and kept before.                           *)
THEOREM ResolvesByPath == Spec => ResolvedByPath
  <1> DEFINE ByPath == \A x \in log'.delivered \ log.delivered :
               \E f \in Files : /\ f = x.file \/ (Tool[f] = "codex" /\ Dir[f] = Dir[x.file])
                                /\ Resolve(daemon.mappings, f) = x.project
  <1>1. IInv /\ [Next]_vars => [ByPath]_vars
    <2>1. IInv /\ Next => ByPath
      BY Step DEF Follows, FromPath
    <2> QED
      BY <2>1
  <1> HIDE DEF ByPath
  <1>2. Spec => [][ByPath]_vars
    BY <1>1, Invariant, PTL DEF Spec
  <1> QED
    BY <1>2 DEF ResolvedByPath, ByPath
=============================================================================
