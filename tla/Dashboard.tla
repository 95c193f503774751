------------------------------ MODULE Dashboard -----------------------------
(***************************************************************************)
(* What the web application is shown. Entries are inserted one after the   *)
(* other while it reads; no query is a snapshot of more than one           *)
(* collection, and none has an order among equals. The views of a moment   *)
(* are operators on the collections; what takes several requests, paging   *)
(* through a session or the list of sessions, or several queries that      *)
(* build on each other, the featured board, is taken in steps.             *)
(***************************************************************************)
EXTENDS SessionView, FiniteSets, FiniteSetsExt

CONSTANTS
  Lines,         \* what may be converted: a function to [data, projectId, userId]
  Organization,  \* that a project is registered in
  RegisteredAt,  \* and when
  Org,           \* the organization that is looked at
  Members,       \* of it
  Times,         \* when summaries are converted
  MaxTime,       \* the latest time
  PageSize,
  RecentLimit,   \* how many projects and sessions the overview names
  Since,         \* of the featured board
  MaxSaves       \* bound: lines converted

ASSUME DashboardAssumption ==
  /\ PageSize \in Nat \ {0} /\ RecentLimit \in Nat /\ MaxSaves \in Nat /\ Since \in Nat
  /\ MaxTime \in Nat /\ Times \subseteq 0 .. MaxTime
  /\ IsFiniteSet(DOMAIN Organization) /\ RegisteredAt \in [DOMAIN Organization -> Nat]

(* What the tools write, in projects that are registered. Nothing is later *)
(* than the latest time, and what tells a usage belongs to a session.      *)
IsClaudeCode(data, types) == DetectProvider(data) = "claude_code" /\ data.type \in types
IsGemini(data) == DetectProvider(data) = "gemini_cli"
List(seq) == seq \in Seq(ToSet(seq))

ASSUME LinesAssumption ==
  \A l \in DOMAIN Lines :
    LET data == Lines[l].data
    IN /\ Lines[l].projectId \in DOMAIN Organization
       /\ IsClaudeCode(data, {"user", "assistant", "system"}) => data.timestamp \in 0 .. MaxTime
       /\ IsClaudeCode(data, {"user", "assistant"}) => List(data.content)
       /\ IsClaudeCode(data, {"assistant"}) => data.usage \in Nat /\ data.sessionId # None
       /\ IsGemini(data) =>
            /\ data.sessionId # None /\ List(data.messages)
            /\ \A m \in ToSet(data.messages) :
                 /\ m.timestamp \in 0 .. MaxTime /\ List(m.content)
                 /\ m.type = "gemini" =>
                      m.usage \in Nat /\ List(m.toolCalls) /\ \A c \in ToSet(m.toolCalls) : c.timestamp \in 0 .. MaxTime

(* The calls of tools in a line, the results, and the ids that are not of  *)
(* messages with calls.                                                    *)
CallsOf(data) ==
  IF IsClaudeCode(data, {"assistant"})
  THEN {[message |-> data.uuid, id |-> b.id, name |-> b.name] : b \in {x \in ToSet(data.content) : x.type = "tool_use"}}
  ELSE IF IsGemini(data)
  THEN UNION {{[message |-> m.id, id |-> c.id, name |-> c.name] : c \in ToSet(m.toolCalls)} :
                m \in {x \in ToSet(data.messages) : x.type = "gemini"}}
  ELSE {}

ResultsOf(data) ==
  IF IsClaudeCode(data, {"user"})
  THEN {[message |-> data.sourceToolAssistantUUID, id |-> b.id] : b \in {x \in ToSet(data.content) : x.type = "tool_result"}}
  ELSE {}

OtherIds(data) ==
  IF IsClaudeCode(data, {"user", "system"}) THEN {data.uuid}
  ELSE IF IsGemini(data)
  THEN {m.id : m \in {x \in ToSet(data.messages) : x.type \in {"user", "info"}}} \cup {c.id : c \in CallsOf(data)}
  ELSE {}

(* An id of a call is of one call, whose result names the message that     *)
(* made it, and the id of that message is of nothing else.                 *)
ASSUME CallsAssumption ==
  \A l, k \in DOMAIN Lines : \A c \in CallsOf(Lines[l].data) :
    /\ c.message # None /\ c.message \notin OtherIds(Lines[k].data)
    /\ \A d \in CallsOf(Lines[k].data) : d.id = c.id => d = c
    /\ \A r \in ResultsOf(Lines[k].data) : r.id = c.id => r.message = c.message

VARIABLES
  projects,  \* that are registered
  sessions,  \* the collection of entries
  saving,    \* what InsertMany has not inserted yet
  saves,     \* number of lines converted
  reader,    \* the request that is being served, and what the pages before it showed
  cards      \* the featured board

vars == <<projects, sessions, saving, saves, reader, cards>>
-----------------------------------------------------------------------------
Doc(l, copy, i, entry) ==
  [id |-> <<l, copy, i>>, projectId |-> Lines[l].projectId, userId |-> Lines[l].userId, entry |-> entry]

(* A sum over entries, the least and the greatest of their times.          *)
Usage(D) == MapThenSumSet(LAMBDA d : d.entry.usage, D)
Timestamps(D) == {d.entry.meta.timestamp : d \in D}
SessionIds(D) == {d.entry.meta.sessionId : d \in D}

Of(P) == {d \in sessions : d.projectId \in P}
OfSession(D, s) == {d \in D : d.entry.meta.sessionId = s}
-----------------------------------------------------------------------------
(* The views of a moment.                                                  *)

GetProjectIDsForOrganization == {p \in projects : Organization[p] = Org}

(* Projects: the entries without a session count as one session.           *)
GetProjectStats(p) ==
  [sessionCount |-> Cardinality(SessionIds(Of({p}))), usage |-> Usage(Of({p})),
   lastActivity |-> IF Of({p}) = {} THEN 0 ELSE Max(Timestamps(Of({p})))]

ProjectSummary(p, stats) ==
  [id |-> p, sessionCount |-> stats.sessionCount, usage |-> stats.usage, lastActivity |-> stats.lastActivity]
ProjectDetail(p, stats) ==
  [id |-> p, sessionCount |-> stats.sessionCount, usage |-> stats.usage, lastActivity |-> stats.lastActivity,
   createdAt |-> RegisteredAt[p]]

ListProjects == {ProjectSummary(p, GetProjectStats(p)) : p \in GetProjectIDsForOrganization}

(* The detail is shown with zeros if its figures cannot be had.            *)
GetProject(p) == {ProjectDetail(x, GetProjectStats(x)) : x \in {p} \cap GetProjectIDsForOrganization}

SessionSummary(D, s) ==
  LET E == OfSession(D, s)
  IN [id |-> s, startedAt |-> Min(Timestamps(E)), endedAt |-> Max(Timestamps(E)),
      messageCount |-> Cardinality(E), usage |-> Usage(E)]

(* Mutant: entries that belong to no session are listed as one.            *)
SummariesWithNone(D) == {SessionSummary(D, s) : s \in SessionIds(D)}

Summaries(D) == {SessionSummary(D, s) : s \in SessionIds(D) \ {None}}

(* Of one project, which must be one of the organization, or of all.       *)
ListSessions(P) == Summaries(Of(P \cap GetProjectIDsForOrganization))

(* Those with the latest times; any of them where times are equal.         *)
Latest(S, time) ==
  {T \in kSubset(Min({RecentLimit, Cardinality(S)}), S) : \A x \in T, y \in S \ T : x[time] >= y[time]}

GetRecentProjects == Latest(ListProjects, "lastActivity")
GetRecentSessions == Latest(ListSessions(projects), "startedAt")

GetOverviewStats ==
  LET P == GetProjectIDsForOrganization
  IN [totalUsage |-> Usage(Of(P)), projectCount |-> Cardinality(P), sessionCount |-> Cardinality(SessionIds(Of(P)))]

AgentOf(d) == d.entry.meta.agentId
SessionEntries(s, agents) == {d \in OfSession(sessions, s) : AgentOf(d) \in agents}
Agents(s) == {AgentOf(d) : d \in OfSession(sessions, s)}

(* The figures are those of the whole session, whatever part is asked for. *)
SessionDetail(s, agents) ==
  LET E == OfSession(sessions, s)
  IN [id |-> s, startedAt |-> Min(Timestamps(E)), endedAt |-> Max(Timestamps(E)),
      usage |-> Usage(E), totalCount |-> Cardinality(SessionEntries(s, agents))]

SessionSegment(s, agent) ==
  LET E == SessionEntries(s, {agent})
  IN [id |-> agent, messageCount |-> Cardinality(E), startTime |-> Min(Timestamps(E)), endTime |-> Max(Timestamps(E))]

GetSessionSegments(s) == {SessionSegment(s, a) : a \in Agents(s)}

(* The entries that may be found for a message: those of a line share it.  *)
GetMessage(s, uuid) ==
  {d \in OfSession(Of(GetProjectIDsForOrganization), s) : d.entry.meta.uuid = uuid}

(* The panel of a segment, all its pages read.                             *)
ByTime(D) ==
  LET sorted[E \in SUBSET D] ==
        IF E = {} THEN <<>>
        ELSE LET first == CHOOSE d \in E : \A e \in E : d.entry.meta.timestamp <= e.entry.meta.timestamp
             IN <<first>> \o sorted[E \ {first}]
  IN sorted[D]

SessionDetailPanel(s, agent) ==
  LET sorted == ByTime(SessionEntries(s, {agent}))
  IN [i \in DOMAIN sorted |-> ToProtoSession(sorted[i].entry)]
-----------------------------------------------------------------------------
(* Pages. A page is what an order by key, chosen for this query alone      *)
(* where keys are equal, has at its place.                                 *)

(* Mutant: pages are counted from zero.                                    *)
SkipFromZero(page) == page * PageSize

Skip(page) == (page - 1) * PageSize

TotalPages(count) == (count + PageSize - 1) \div PageSize

PaginationRes(page, count) == [currentPage |-> page, totalPages |-> TotalPages(count), totalCount |-> count]

(* getNextPageParam                                                        *)
LastPage(pagination) == pagination.currentPage >= pagination.totalPages

Pages(keys, page) ==
  LET S == DOMAIN keys
      skipped == Min({Skip(page), Cardinality(S)})
      Before(A, B) == \A a \in A, b \in B : keys[a] <= keys[b]
  IN {P \in kSubset(Min({PageSize, Cardinality(S) - skipped}), S) :
        \E Q \in kSubset(skipped, S \ P) : Before(Q, S \ Q) /\ Before(P, S \ (P \cup Q))}

(* The entries of a session are in the order of their times, the sessions  *)
(* begin with the one that was active last.                                *)
Keys(r, D) ==
  IF r.kind = "sessions"
  THEN LET listed == Summaries({d \in D : d.projectId \in r.projectIds})
       IN [s \in {x.id : x \in listed} |-> MaxTime - (CHOOSE x \in listed : x.id = s).endedAt]
  ELSE LET E == IF r.kind = "session" THEN OfSession(D, r.session) ELSE D
       IN [n \in {d.id : d \in E} |-> (CHOOSE d \in E : d.id = n).entry.meta.timestamp]

Tied(keys) == {x \in DOMAIN keys : \E y \in DOMAIN keys \ {x} : keys[x] = keys[y]}
-----------------------------------------------------------------------------
Idle ==
  [kind |-> "none", step |-> "idle", session |-> None, projectIds |-> {}, earliest |-> {}, page |-> 1, total |-> 0,
   shown |-> {}, twice |-> {}, start |-> {}, moved |-> {}, late |-> {}, tied |-> {}]

Init ==
  /\ projects = DOMAIN Organization
  /\ sessions = {} /\ saving = <<>> /\ saves = 0
  /\ reader = Idle /\ cards = {}

(* A bound: nothing is written after the request has been answered.        *)
Open == reader.step \notin {"read", "not found"}

(* convertEventsToSessions and SaveBatch, for one line; a line may come    *)
(* more than once, as every version of a Gemini file does.                 *)
SaveBatch ==
  /\ Open /\ saving = <<>> /\ saves < MaxSaves
  /\ saves' = saves + 1
  /\ \E l \in DOMAIN Lines, now \in Times :
       LET entries == Convert(Lines[l].data, now)
           copy == 1 + Cardinality({d.id[2] : d \in {e \in sessions : e.id[1] = l}})
       IN /\ entries # <<>>
          /\ saving' = [i \in DOMAIN entries |-> Doc(l, copy, i, entries[i])]
  /\ UNCHANGED <<projects, sessions, reader, cards>>

(* What changes its place while pages are read is remembered, and what does *)
(* so after the last count.                                                *)
Insert ==
  /\ Open /\ saving # <<>>
  /\ sessions' = sessions \cup {Head(saving)}
  /\ saving' = Tail(saving)
  /\ LET before == Keys(reader, sessions)
         after == Keys(reader, sessions')
         placed == {x \in DOMAIN after : x \notin DOMAIN before \/ after[x] # before[x]}
     IN reader' = IF reader.kind = "none" THEN reader
                  ELSE [reader EXCEPT !.moved = @ \cup placed, !.late = @ \cup placed]
  /\ UNCHANGED <<projects, saves, cards>>

InsertError ==
  /\ Open /\ saving # <<>>
  /\ saving' = <<>>
  /\ UNCHANGED <<projects, sessions, saves, reader, cards>>

(* The organization is deleted, its projects with it; entries stay.        *)
DeleteProjects ==
  /\ Open /\ GetProjectIDsForOrganization # {}
  /\ projects' = projects \ GetProjectIDsForOrganization
  /\ UNCHANGED <<sessions, saving, saves, reader, cards>>
-----------------------------------------------------------------------------
GetSessionReq(s) == [Idle EXCEPT !.kind = "session", !.step = "meta", !.session = s]
ListSessionsReq == [Idle EXCEPT !.kind = "sessions", !.step = "projects", !.projectIds = GetProjectIDsForOrganization]
GetFeaturedBoardReq == [Idle EXCEPT !.kind = "board", !.step = "earliest"]

Go(r) == reader' = r /\ UNCHANGED <<projects, sessions, saving, saves, cards>>

(* useGetSession, the route of the sessions, the featured board.           *)
Request ==
  /\ reader.kind = "none"
  /\ \E r \in {GetSessionReq(s) : s \in SessionIds(sessions) \ {None}} \cup {ListSessionsReq, GetFeaturedBoardReq} :
       Go([r EXCEPT !.start = DOMAIN Keys(r, sessions)])

(* GetSession: the first entry found tells the project, which must be one  *)
(* of the organization; then the entries are counted, then found.          *)
GetSessionMeta ==
  /\ reader.step = "meta"
  /\ \E d \in OfSession(sessions, reader.session) :
       Go([reader EXCEPT !.projectIds = {d.projectId}, !.step = "verify"])

VerifyProject ==
  /\ reader.step = "verify"
  /\ Go([reader EXCEPT !.projectIds = {},
                       !.step = IF reader.projectIds \subseteq GetProjectIDsForOrganization THEN "count" ELSE "not found"])

(* ListSessions: the projects, the number of sessions, a page of them.     *)
ListProjectIDs ==
  /\ reader.step = "projects"
  /\ Go([reader EXCEPT !.projectIds = GetProjectIDsForOrganization,
                       !.step = IF GetProjectIDsForOrganization = {} THEN "not found" ELSE "count"])

Count ==
  /\ reader.step = "count"
  /\ Go([reader EXCEPT !.total = Cardinality(DOMAIN Keys(reader, sessions)), !.late = {}, !.step = "find"])

(* A page, after which the next one is asked for.                          *)
Find ==
  /\ reader.step = "find"
  /\ LET keys == Keys(reader, sessions)
         last == LastPage(PaginationRes(reader.page, reader.total))
     IN \E P \in Pages(keys, reader.page) :
          Go([reader EXCEPT !.shown = @ \cup P, !.twice = @ \cup (P \cap reader.shown), !.tied = @ \cup Tied(keys),
                            !.page = IF last THEN @ ELSE @ + 1,
                            !.step = IF last THEN "read" ELSE IF reader.kind = "session" THEN "meta" ELSE "projects"])
-----------------------------------------------------------------------------
(* The featured board. Mutant: projects of other organizations count.      *)
ProjectsOfAny(u) == {d.projectId : d \in {e \in sessions : e.userId = u}} \cap projects

ProjectsOf(u) == {d.projectId : d \in {e \in sessions : e.userId = u}} \cap GetProjectIDsForOrganization

Earliest(u) == {p \in ProjectsOf(u) : \A q \in ProjectsOf(u) : RegisteredAt[p] <= RegisteredAt[q]}

(* One project for each member that has any.                               *)
GetEarliestProjectForMembers ==
  /\ reader.step = "earliest"
  /\ \E f \in [{u \in Members : ProjectsOf(u) # {}} -> projects] :
       /\ \A u \in DOMAIN f : f[u] \in Earliest(u)
       /\ Go([reader EXCEPT !.earliest = {<<u, f[u]>> : u \in DOMAIN f}, !.step = "stats"])

Entries(D, type) == {d \in D : d.entry.type = type}
ToolNames(D) == {d.entry.toolName : d \in Entries(D, "tool_execution")}
ToolCallSummary(name, count) == [toolName |-> name, count |-> count]

(* Of the entries that are matched, each member gets its own, whatever     *)
(* project they are in.                                                    *)
FeaturedMember(u, p, D) ==
  LET E == {d \in D : d.userId = u}
  IN [userId |-> u, projectId |-> p, promptCount |-> Cardinality(Entries(E, "human")), usage |-> Usage(Entries(E, "agent")),
      toolCalls |-> {ToolCallSummary(n, Cardinality({d \in Entries(E, "tool_execution") : d.entry.toolName = n})) : n \in ToolNames(E)},
      active |-> E # {}]

GetFeaturedBoardStats ==
  /\ reader.step = "stats"
  /\ LET matched == {d \in sessions : /\ \E x \in reader.earliest : x[2] = d.projectId
                                      /\ \E x \in reader.earliest : x[1] = d.userId
                                      /\ d.entry.meta.timestamp >= Since}
     IN cards' = {FeaturedMember(x[1], x[2], matched) : x \in reader.earliest}
  /\ reader' = [reader EXCEPT !.step = "read"]
  /\ UNCHANGED <<projects, sessions, saving, saves>>
-----------------------------------------------------------------------------
Next ==
  \/ SaveBatch \/ Insert \/ InsertError \/ DeleteProjects
  \/ Request \/ GetSessionMeta \/ VerifyProject \/ ListProjectIDs \/ Count \/ Find
  \/ GetEarliestProjectForMembers \/ GetFeaturedBoardStats

Spec == Init /\ [][Next]_vars
-----------------------------------------------------------------------------
(* The overview has as many projects and sessions as the lists; a session  *)
(* is counted once, but for the summaries, which belong to none and are    *)
(* counted as one more. No session ended after the last activity of the    *)
(* latest projects.                                                        *)
OverviewCounts ==
  LET P == GetProjectIDsForOrganization
      none == IF None \in SessionIds(Of(P)) THEN 1 ELSE 0
  IN /\ GetOverviewStats.sessionCount = Cardinality(ListSessions(P)) + none
     /\ GetOverviewStats.projectCount = Cardinality(ListProjects)
     /\ \A x \in ListProjects : x.sessionCount - Cardinality(ListSessions({x.id})) \in {0, none}
     /\ \A S \in GetRecentProjects, T \in GetRecentSessions :
          \A t \in T : \E x \in S : x.lastActivity >= t.endedAt

(* Tokens add up: over projects, over sessions, and in a project.          *)
OverviewAddsUp ==
  LET P == GetProjectIDsForOrganization
  IN /\ GetOverviewStats.totalUsage = MapThenSumSet(LAMBDA x : x.usage, ListProjects)
     /\ GetOverviewStats.totalUsage = MapThenSumSet(LAMBDA x : x.usage, ListSessions(P))
     /\ \A x \in ListProjects : \A y \in GetProject(x.id) :
          y.usage = MapThenSumSet(LAMBDA z : z.usage, ListSessions({x.id}))

(* The sessions of the list that have entries of one project only: the list *)
(* keeps organizations apart, and the detail does not.                     *)
OfOneProject == {x \in ListSessions(projects) : Cardinality({d.projectId : d \in OfSession(sessions, x.id)}) = 1}

(* The detail of a session is what the list says of it, from the first of  *)
(* its parts (the main one and its agents) to the last.                    *)
DetailCounts ==
  \A x \in OfOneProject :
    LET detail == SessionDetail(x.id, Agents(x.id))
        segments == GetSessionSegments(x.id)
    IN /\ \A field \in {"id", "usage", "startedAt", "endedAt"} : detail[field] = x[field]
       /\ detail.totalCount = x.messageCount
       /\ x.startedAt = Min({g.startTime : g \in segments}) /\ x.endedAt = Max({g.endTime : g \in segments})
       /\ \A g \in segments : SessionDetail(x.id, {g.id}).totalCount = g.messageCount

(* And its parts come to the whole.                                        *)
DetailAddsUp ==
  \A x \in OfOneProject : x.messageCount = MapThenSumSet(LAMBDA g : g.messageCount, GetSessionSegments(x.id))

(* In the chat every call of a tool leads to the message that made it, or  *)
(* to an entry for a call of that message; it has its name, unless an      *)
(* entry with its result, which names no tool, took its place; and what is *)
(* shown as failed did fail.                                               *)
CallsLinked ==
  \A s \in SessionIds(Of(GetProjectIDsForOrganization)) \ {None} : \A agent \in Agents(s) :
    LET entries == SessionEntries(s, {agent})
        shown == SessionDetailPanel(s, agent)
        calls == ExtractToolCalls(shown)
        Executions(id) == {e \in entries : e.entry.type = "tool_execution" /\ e.entry.id = id}
    IN /\ \A d \in entries : \A b \in ToSet(Blocks(d.entry.content, {"tool_call_ref"})) :
            b.id \in DOMAIN calls =>
              /\ calls[b.id].sourceMessageUuid = d.entry.meta.uuid
              /\ \A e \in GetMessage(s, d.entry.meta.uuid) : e.entry.type = "agent" \/ e.entry.source = d.entry.meta.uuid
              /\ calls[b.id].name = b.name \/ \E e \in Executions(b.id) : e.entry.toolName = None
       /\ \A m \in ToSet(Chat(shown)) :
            m.isError => \E e \in Executions(m.parentToolUseId) : \E r \in e.entry.result : r.status = "error"

(* The views are of the collections alone, which come to all their values  *)
(* while nobody reads.                                                     *)
ViewsAgree ==
  reader.kind = "none" =>
    /\ OverviewCounts /\ OverviewAddsUp
    /\ DetailCounts /\ DetailAddsUp
    /\ CallsLinked

(* Whoever reads all pages is shown everything that was there at first,    *)
(* once. What is as old as something else may be missing or shown twice;   *)
(* else it is missing only if it was itself active meanwhile (sessions) or *)
(* something came before it between a count and its page, and shown twice  *)
(* only if something came before it meanwhile, and may have fallen behind  *)
(* again when it was itself active after that.                             *)
PagesComplete ==
  [][reader.kind \in {"session", "sessions"} /\ reader'.step = "read" =>
       LET keys == Keys(reader, sessions)
           Active(x) == reader.kind = "sessions" /\ x \in reader.moved
           Preceded(x, S) == \E y \in S \ {x} : keys[y] <= keys[x]
       IN /\ \A x \in reader.start \ (reader'.shown \cup reader'.tied) : Active(x) \/ Preceded(x, reader.late)
          /\ \A x \in reader'.twice \ reader'.tied :
               Preceded(x, reader.moved) \/ (Active(x) /\ reader.moved # {x})]_reader

(* The calls of a tool a set of messages makes.                            *)
References(d, n) == {i \in DOMAIN d.entry.content : d.entry.content[i].type = "tool_call_ref" /\ d.entry.content[i].name = n}
CallsIn(D, n) == MapThenSumSet(LAMBDA d : Cardinality(References(d, n)), D)

(* Whether all that a line became is among some entries.                   *)
WholeLine(d, D) ==
  \A i \in DOMAIN Convert(Lines[d.id[1]].data, 0) : \E e \in D : e.id = <<d.id[1], d.id[2], i>>

(* A card names a project of the organization, the first registered of     *)
(* those its member had worked in, and counts what that member did there,  *)
(* every tool call under its name once; unless the project of another      *)
(* member's card is one it worked in too, whose entries are added.         *)
CardsTrue ==
  [][\A c \in cards' \ cards :
       LET own == {d \in sessions : d.userId = c.userId /\ d.projectId = c.projectId /\ d.entry.meta.timestamp >= Since}
           elsewhere == {d \in sessions : /\ d.userId = c.userId /\ d.projectId # c.projectId
                                          /\ \E other \in cards' : other.projectId = d.projectId}
           earlier == {d \in sessions : /\ d.userId = c.userId /\ Organization[d.projectId] = Org
                                        /\ RegisteredAt[d.projectId] < RegisteredAt[c.projectId]}
       IN /\ Organization[c.projectId] = Org
          /\ \A d \in earlier : d.id \in reader.moved
          /\ elsewhere = {} =>
               /\ c.promptCount = Cardinality(Entries(own, "human")) /\ c.usage = Usage(own)
               /\ (\A d \in own : WholeLine(d, own)) =>
                    \A x \in c.toolCalls : x.toolName # None => x.count = CallsIn(own, x.toolName)]_vars
=============================================================================
