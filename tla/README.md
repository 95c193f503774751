# Formal models of cops

cops collects the logs that AI coding tools (Claude Code, Codex, Gemini CLI,
OpenCode) write on a developer's machine and turns them into sessions on a
server. A **daemon** tails the log files and sends their lines in batches to an
**API**, which stores each line as an event and converts events to sessions; a
**CLI** registers projects, logs in and keeps the daemon's configuration; a
**web** application shows the result.

The modules follow a line from the file it is written to up to the page it is
shown on, and beside it what decides where it goes: which directories are
tracked, who is a member of what, and whose key the daemon uses.

## 1. The system

| Component | State | Operations | Talks to | Hard parts | What makes it correct |
|---|---|---|---|---|---|
| Log tailing (`daemon/.../fsnotify/handler.go`, `HandleFileChange`) | `filePositions` in memory, `file_positions` in SQLite, watches | Start, initial scan, event loop, Stop | fsnotify, the buffer | the loop beside the scan; crash between buffering, saving and sending; half-written lines | no byte skipped; read twice only for a reason |
| Log buffer and batching (`log_service.go`) | `bufferByProject`, `projectIDToOrgID` | AddLinesForDir, Flush, 413 halving, return of lines, ScanProjectLogs | API (`SendLogs`) | the map is swapped and sent without the lock by several goroutines | one owner per line, nothing acknowledged is repeated, nothing lost unless refused |
| Codex, Gemini, OpenCode readers, project association | offsets, modification times, a watermark, resolved directories | handle event, scan, poll, resolve | buffer, targets | strict watermarks, whole-file reads, a cache that outlives what it was made of | nothing passed over, nothing read twice, every line to the project of its path |
| CLI tracking, project registry, config watcher | `config.json`, local configs, `projects`, a bounded channel, targets | add, remove, FindOrCreate, HandleConfigChange, UpdateTargets | each other through files | read-modify-write by several processes, truncated files, dropped messages | no project lost or doubled; the last configuration is applied |
| CLI login, device codes, API keys | device codes, keys, `auth.json` | login, code, approve, poll, issue, revoke | browser, API, daemon | answers lost, codes that expire, two approvers, two logins of one file | the key in the file is the approver's and works |
| Organizations, invitations, account deletion | `organizations.members`, `invitations`, `users`, what hangs on them | create, invite, accept, demote, remove, leave, delete | each other | check-then-act over several calls without a transaction | an organization keeps an admin and its data, an invitation is used once |
| Event ingestion (`event_service.go`) | `events` collection | ParseAndCollectLogs | daemon, stream | partial InsertMany | a batch answered with success is stored |
| Session stream (`session_service.go`) | `events.status`, `sessions`, resume token | processChangeStream, processBatch | MongoDB | every call may fail; restart | completed means saved; duplicates and forgotten events only for a reason |
| Transcript adapters, dashboard, featured board, web | none of their own | convert, query, page, link | MongoDB, browser | ties in an order, queries that are no snapshot, calls and results in separate entries | views of one collection agree; pages show everything once |
| IPC service | one connection each | scan request | buffer | concurrent flushes | as the buffer |
| CLI upgrade, daemon service | binaries, a service unit | download, replace, restart | OS | one of two replaced | both binaries of one version |
| Retry worker | — | not built into the program (`application.go:26` comments it out) | — | — | — |

`PROJECT.json` lists the components with their sources, and the hazards with
the line where each of them bites and the properties that would catch it.

## 2. The modules

| Module | Models | Proofs |
|---|---|---|
| `LogTail` | one Claude Code file, its offsets and watches, over crashes | `LogTailProofs` |
| `LogFlush` | the buffer and its flushing goroutines | `LogFlushProofs` |
| `LogDelivery` | what the daemon promises of a line it read | `LogFlushProofs`: LogFlush implements it |
| `ToolReaders` | Codex, Gemini, OpenCode, and the project of a path | `ToolReadersProofs` |
| `Tracking` | CLI commands, configuration files, project registry, config watcher | `TrackingProofs` |
| `Access` | sign-up, device login, API keys, `auth.json` | `AccessProofs` |
| `DeviceGrant` | what a login by device code promises | `AccessProofs`: Access implements it |
| `Membership` | organizations, invitations, accounts | `MembershipProofs` |
| `SessionStream` | events to sessions | `SessionStreamProofs` |
| `Conversion` | what the API promises of the events it stored | `SessionStreamProofs`: SessionStream implements it |
| `Transcripts`, `SessionView` | lines to entries, entries to messages and the chat | |
| `Dashboard` | queries and pages, composed of the two above | `DashboardProofs` |

A module `MC...` gives a module its instances for TLC.

### LogFlush and LogDelivery

`log_service.go` from `AddLinesForDir` to `returnLinesToBuffer`, and
`api_client.go`. A line is one reading of one line, a number in reading order.

| Model | Code |
|---|---|
| `buffer`, `orgKnown`, `targets` | `bufferByProject`, `projectIDToOrgID`, the applied watch targets |
| `owned[f]` | the map a goroutine swapped out in `Flush`, less what it already sent |
| `work[f]` | the locals of `flushProjectLines`: project, `currentBatchSize`, the batch of the loop (`want`, its length) and the copy `sendBatchWithRetry` shrinks (`batch`) |
| `AddLinesForDir`, `ScanFile`, `UpdateTargets` | the functions that change the buffer or the maps under the mutex |
| `Flush`, `FlushProject`, `FlushDone` | the swap under the mutex; the loop over the map in any order |
| `SendOK`, `SendRefused`, `SendTooLarge`, `SendError`, `SendReplyLost` | the outcomes of `SendLogs`: stored; `Success = false`, taken for success; 413; any other error; stored with an error |

`received` is what the API stored. `rejected`, `refused` and `doubtful` are
history: what the server turned down, and what it stored without the daemon
being told. One `SendLogs` call and what its caller does with the answer are one
step: in between the goroutine touches only its own locals, except for
`returnLinesToBuffer`, which holds the mutex.

`LogDelivery` knows neither buffers nor goroutines: a line waits, is stored
under the project it was read for, or was in a batch that the server turned
down, and is stored once unless the daemon could not hear that it was. The
mapping (`Delivery` in LogFlush) takes all goroutines' lines and the buffer's
together for what waits.

### LogTail

One Claude Code file with its directory, over crashes and restarts. A byte is
its position, `Newlines` says which bytes end a line, and a token is what one
reading takes for a line. `proc` holds the program counter and the locals of
the loop, of the scan `Start` performs beside it, and of `Stop`; each of
reading, buffering, setting `filePositions` and saving to SQLite is a step.
Sending is reduced to its outcome (`FlushEnds`: some of what was taken is
stored, the rest is back), which is what LogFlush establishes.

`UpdateTargets` takes two steps (`WalkTargets`, `ApplyTargets`) because the
listing of directories and the watches are apart in the code and a directory
can appear in between; `walked # {}` means that it holds the mutex.

### ToolReaders

`handler.go` for Codex and Gemini files, the polling handler for OpenCode, and
the search for the project of a path. One tool is in use in a behaviour, and
goes on writing between the daemon's steps. `disk` is what it wrote: lines of a
file, or versions with the time of each. `daemon.mark` is the offset, the
modification time or the watermark, whichever the tool has; `daemon.cache` holds
the directories resolved and `daemon.mappings` is what `UpdateTargets` builds. `log` is
history: what was read, read again, delivered and dropped, and what was so when
it was. Reading one file is one step, what happens inside a read is LogTail's;
`found` holds the files of a new directory that the loop has yet to read before
it looks at another event.

### Tracking

`cops add` and `cops remove` with each file operation, each call of the API and
each answer of the user as a step; `FindOrCreate` as query and insertion;
`config.json` with its truncation and its writing apart; the daemon's config
watcher with its first load, its events, and the bounded channel to the log
watcher. `overlaps` is history: the files and the collection where one process
read, another wrote, and the first wrote. `missed` is history: why the daemon may
not have been told. A command may be killed anywhere, a call may fail or lose
its answer.

### Access and DeviceGrant

The commands `cops auth login` of one machine, the requests of browsers, the
daemon's requests with the key in the file, and a clock. `codes` and `keys` are
the collections, `file` is `auth.json` ("absent", "empty" after its truncation,
or a key), `cli` and `web` are program counters and locals, `touches` are
validations whose goroutine still has to write `lastUsedAt`. `approver` and
`loose` are history: who was last told that a login's device is approved, and
the keys that were given up.

GoogleAuth runs in a transaction (`txmanager.go`); its writes are one step at
the commit, which may fail for a conflict.

`DeviceGrant` knows neither requests nor polls, commands nor files that are half
written: a code is shown on one device, approved at most once and while it
lives, the device is told of it while it lives and the approver has an account,
it gets at most one key, which stays the approver's, and one such key is on disk
or none. In the mapping (`Grants` in Access) a device is told from the poll that
answers with tokens until the login has used them.

### Membership

Requests of the services organization, invitation and user. A request is its
call and its next database call (`req`); what it read is in it. `stale` is
history: requests whose organization was written by another since they first
read it. `loose` and `late` are history too: data that came, or a user that
joined, while it was being deleted; and `given`, the ids that were ever in use:
an ObjectID is never given out twice, so that a request that still holds
the id of a deleted invitation cannot meet another one under it.

### SessionStream and Conversion

`session_service.go` and its repositories. Events are numbered in the order of
insertion, which is also the order of the change stream, so the position of the
stream (`pos`) and the saved token (`token`) are numbers too. `pc` is where
`processChangeStream` is. Each database call of `processBatch` is a step that
succeeds, fails, or — InsertMany, UpdateMany, one update per event — fails
after a part of its work. `Kinds` is what the adapters make of an event:
sessions, nothing, or an error. `missed` and `unmarked` are history: an event
whose own change led to no query, and one that was found before a later call
for it failed.

The status "processing" is never written by the code, so it is not in the model.
The events of a batch have one project and one user (`ParseAndCollectLogs` takes
both from its request), so `processBatch` has one group.

`Conversion` knows neither batches, change events nor calls. Each event has its
turn, in order of insertion. Sessions are inserted for events that are pending,
a second time only where the first attempt broke off; an event leaves pending
for good, completed when its sessions are stored or there are none, failed when
it does not convert; and when turns end, everything reached is settled, missed
or broken off. A restart begins at a place that was reached. The mapping
(`Promise` in SessionStream) counts an event as reached when its change event is
done with, or when a start passes it over.

### Transcripts, SessionView, Dashboard

`Transcripts` is what a line becomes: detection of the tool, the adapters of
Claude Code and Gemini, and the documents of an entry. `SessionView` is what an
entry becomes: a message of the API, and in the browser the chat with tool calls
linked to their results. They are operators; texts are left out, ids are not.
`Dashboard` inserts converted lines one document at a time while a reader pages
through a session or the list of sessions, or builds the featured board query by
query. Selecting and sorting (`Kept`, `ByTime`) are recursive functions, which can be
reasoned about; entries of equal times come in one fixed order of the many a sort without a
second key may return, of which the proofs use only what it contains. The overview is several queries too, but is taken at one moment: what it
is about is whether it adds up with the list.

### How they compose

`LogTail.buffer`, `LogFlush.buffer`, `LogFlush.received` (with LogDelivery as its
promise), `SessionStream.events` (with Conversion as its promise) and `Dashboard.sessions` are consecutive places
of a line. LogTail and ToolReaders use of LogFlush only that a flush stores some
lines and returns others; SessionStream's `InsertEvent` is the storing of one
line, and `Dashboard`'s insertions are its `SaveBatch`. Tracking ends where the targets
are applied, and the `UpdateTargets` of the three readers begin there.

## 3. The runs

| Run | Instance | Shows |
|---|---|---|
| `flush` | 1 project, ticker and IPC request, batch size 2, 3 lines, 1 lost reply | `TypeOK`, `OwnedOnce`, `NoResend`, `LostOnlyWhenTurnedDown` under every interleaving of two flushers; the refinement `ImplementsDelivery`; `Drains` under fairness |
| `flush_projects` | 2 projects, ticker alone, batch size 3, 3 lines, 1 lost reply, symmetry in projects | `InOrder`, `RightProject` |
| `tail` | a blank line, then a line caught half written; scanner limit 2, one replacement of the file, 2 starts, crashes, failed saves and loads | `NoByteSkipped`, `ReadTwiceForAReason`, `OrderlyStop` |
| `tail_live` | two short lines, one start | `ReadInTheEnd` |
| `readers` | 6 directories and 6 files or messages of the three tools, 2 events at a time, 2 configurations with a worktree, 2 starts | `NothingPassedOver`, `ReadOnce`, `ResolvedByPath`, `DroppedForAReason` |
| `tracking` | a repository, its worktree and the directory above; 4 machines; two commands, or one beside a daemon started twice; 1 kill, 1 failed call | `SerialUnlessRaced`, `OneProjectPerRepository`, `LocalMatchesServer`; `Converges` under fairness |
| `tracking_worktree` (violation) | one command in a worktree | the directory that is registered is no repository |
| `access` | 2 logins, 2 users, 2 browser requests one after the other, a web key, time up to 3 | `SavedKeyIsApprovers`, `KeyOnDiskWorks`, `KeyAccountedFor`, `RevokedForGood`; the refinement `ImplementsGrants`; `LoginEnds` under fairness |
| `membership` | 2 users, 2 organizations, 3 worlds, 3 requests, 2 at once | six properties of interleaved and failing requests |
| `session` | 3 events, 2 batches, 2 kinds, 2 starts | `CompletedMeansSaved`, `DuplicateForAReason`, `PendingForAReason`; the refinement `ImplementsConversion`; `Processed` under fairness |
| `session_resume` (violation) | 2 starts | the saved token is never used |
| `dashboard` | 8 lines of both tools, 3 of them inserted in any order, page size 1 | `ViewsAgree`, `PagesComplete`, `CardsTrue` |

### Why the bounds are enough

*LogFlush.* Two flushers are what a race needs; three lines are one more than
a batch of two, so that a batch is shrunk, lines remain behind it, and lines
come in front of others. Batch size 3 in `flush_projects` halves to 1 and
doubles to 2 and 3, with the cap. The theorems of section 5 hold for every number.

*LogTail.* Two starts let what was saved be loaded. A blank line and a line
with a cut in the middle are the two cases where the offset and the bytes
handed over disagree, and the limit on a token is what half a line and a whole one differ by.

*ToolReaders.* Two versions at two times are enough for a write in the instant
of a read and for one behind it; two sessions of one Codex day share a
directory, and its month and the day are new or, after a start or with new targets, old; two configurations make a
project given up and one replaced.

*Tracking.* Two commands make every overlap of two sections; the third process
is the daemon, which also writes `config.json` when it is missing. Two starts give
the daemon a first load beside a file that is being written.

*Access.* Two logins share one file; a code lives one unit, so it expires
between approval and poll; two browser requests let two people approve one code,
or one approve and revoke. For more at once the theorems hold.

*Membership.* Three requests are one to interrupt another and one to see the
outcome; the three worlds have two admins, an open invitation, and a user with
an organization of its own.

*SessionStream.* Two events of a batch and one of another are enough for a
change event of a batch that was already processed, for a batch that grows
meanwhile, and for changes behind the one at work.

*Dashboard.* Among the lines are ties of time, an agent's entry, a summary
(which has no session), a call and its result, and one member in two projects; page size 1
makes every entry a page of its own. A session shown twice that was itself active after
something came before it takes four insertions, which are too many for
`ViewsAgree`; the theorem covers it. The board counts from a time (`Since = 2`) that
cuts a line of Gemini in two.

`CHECK_DEADLOCK` is off where the bounds stop everything: the starts, requests,
commands, versions or lines are used up. LogFlush never stops
(`UpdateTargets` is always possible).

## 4. Fairness

*LogFlush.* Each goroutine is scheduled and each `SendLogs` returns (weak
fairness of `FlusherStep`; the HTTP client has a timeout). The network is an
assumption: strong fairness of `Answered`, that is, a goroutine that sends again
and again is not met by a connection error each time. A 413 is not assumed
away: only at batch size one does it count as an answer.

*LogTail.* Goroutines are scheduled and calls return. The loop's `select` picks
among ready cases at random, so that neither the ticker nor one kind of event
can keep the other out for ever (strong fairness). Nothing is assumed about the tool,
`Stop`, crashes, or UpdateTargets being called.

*Tracking.* The config watcher and the log watcher of the daemon are scheduled
(weak fairness of `Daemon` and `UpdateTargets`). Nothing is assumed about commands, users, kills
or failures, nor that the daemon stays up.

*Access.* The clock goes on and a login that is polling is scheduled; whether
calls succeed, and whether anybody approves, is open.

*SessionStream.* The goroutine is scheduled and calls to MongoDB return, with
success or not. No call is assumed to succeed, and nothing is assumed about
inserts, starts or exits.

## 5. What is proved

### LogFlushProofs

For every set of projects, providers and goroutines and every batch size:

| Theorem | Property |
|---|---|
| `TypeCorrect` | `TypeOK` (and `BatchIsFront`) |
| `OneOwner` | `OwnedOnce` |
| `NoAcknowledgedLineResent` | `NoResend` |
| `NothingLostByTheDaemonAlone` | `LostOnlyWhenTurnedDown` |
| `StoredUnderItsProject` | `RightProject` |
| `KeepsOrder` | `InOrder`, where `Flushers` has one member at most |
| `FlushImplementsDelivery` | `ImplementsDelivery` |

The assumptions are the named ones of LogFlush: the batch size is at
least one (`config.go` refuses anything else at start-up), the sentinels for an
absent entry and for no project are no provider and no project, and the name of
the shared buffer is no goroutine.

The properties are not inductive. `OwnedOnce` alone does not survive a new
reading, which must bring numbers no queue has, and `NoResend` does not
survive a successful send, which must drop all that it stored. The
invariant `IInv` is therefore the conjunction of

- `Shape`: the types, `BatchIsFront`, and that an idle goroutine owns nothing;
- `Known` and `StoredKnown`: every line held or stored is one already read, and
  was read for the project it is held or stored under (`RightProject`);
- `Distinct`: every queue is injective and the queues are disjoint, which is `OwnedOnce`;
- `Trimmed`: the lines a goroutine will drop beyond the batch it sends
  (`want` beyond `batch`) were in a batch answered with 413;
- `NoResend` and `LostOnlyWhenTurnedDown` themselves.

Each action preserves it by a lemma of its own; the facts about `Prefix`,
`Drop` and concatenation are stated once.

`KeepsOrder` assumes `OneFlusher`, which is the ticker of the loop as long as no
scan is requested and no stop is under way: with a second caller, one may hold older
lines while the other stores newer ones, and `InOrder` is false. Relative to
`IInv`, the three parts of `InOrder` are inductive together. A new line is numbered
above all that is held or stored (`Known`, `StoredKnown`); what a success or a 413 takes
away is a front of its queue, so what is stored is older than what stays,
in the queue because it rises and in the buffer because a goroutine's lines come
before the buffer's; and that is also why lines that go back in front
leave the buffer rising. Only a lost reply leaves lines held that are stored.

`FlushImplementsDelivery`: every behaviour of LogFlush is one of `LogDelivery`
under the mapping. `IInv` is what makes each step map: a batch that is sent
waits (it is a front of what its goroutine owns), is of one project
(`Known`) and holds nothing known to be stored (`NoResend`); the lines that go
with it beyond its end were turned down (`Trimmed`); and what it takes away is
held nowhere else (`Distinct`), so that it does not go on waiting. Swapping,
returning and choosing a batch are stutters.

### LogTailProofs

For every file (any lengths of lines, any sizes a write may leave it at), any
limit of the scanner, and any number of replacements, starts and crashes:

| Theorem | Property |
|---|---|
| `TypeCorrect` | `TypeOK` |
| `OffsetsPassNothing` | `NoByteSkipped` |
| `RereadExplained` | `ReadTwiceForAReason` |
| `StopsInOrder` | `OrderlyStop` |

`FileAssumption` says that the positions of newlines and the sizes are positive
numbers; the bounds are numbers. Neither of the first two properties is inductive: both compare what was
read with the offsets, and between the reading and the save of the offset these
are apart. `IInv` adds to `TypeOK`

- `OffsetsSeen`: not only the two offsets but every position a reader starts
  from or will set is behind bytes that were read, or that it holds itself. It
  needs no order between the scan and the loop, as what was read stays read;
- `ReadInOrder`: as long as nothing excuses a repetition, one reader at most is at
  work, what it holds lies beyond all that was handed over of this generation of the
  file, and both offsets are as far as that — `filePosition` until the reader hands over
  and again when it has set it, `savedOffset` when it has saved it.

`ReadingAccounts` is the arithmetic: `Tokens` covers each byte from the offset on
that ends no line (its line begins behind the last newline before it, which
exists because the numbers are well-founded), and `NextOffset` passes the end of the file by
one at most, behind a line without its newline.

`StopInv` is a second invariant, which rests on the first: once Stop has begun
nothing scans and no offset is saved, so what lands in the buffer after the
final flush took it is either what a flush could not send or what the loop has just read. Of
the latter `LineBelowOffset` says that a line which ends at or below an offset
overlaps one that was read, as `OffsetsSeen` accounts for its last byte, or is the single
byte behind one. The attempt to prove the property without this last case
showed that it was false: the scan reads a line half written, one byte more of it than
the loop read, and saves an offset past the next byte, which only the loop
reads, from an older offset, when the final flush is over. TLC finds this with
`Newlines = {4}`, `Cuts = {1, 2, 4}`; the lines of the `tail` run are
too short for it.

### ToolReadersProofs

For any files of the three tools, directories, paths, configurations, times and
bounds:

| Theorem | Property |
|---|---|
| `DropsExplained` | `DroppedForAReason` |
| `NothingIsPassedOver` | `NothingPassedOver` |
| `ReadOnlyOnce` | `ReadOnce` |
| `ResolvesByPath` | `ResolvedByPath` |

`ToolReadersAssumption` says where the tools put their files, and that the Gemini files of
one directory have one path, whose hash names the directory. A read turns memory,
offsets and history into others, so `IInv` is a predicate of these (`Sound`), and
the lemmas show for each kind of read, from wherever it is called, that it keeps
it. Its parts

- `Offsets`: of a Codex file the lines up to the offset were read and no others, and the
  offset in memory is the one in SQLite. A file found in a new directory is
  read from zero all the same, which is why `ReadOnce` excepts it;
- `Versions`: a version that was read has a time no later than the mark, so
  being newer than the mark means not yet read; and one that is not newer was
  read or is late. With the order of the rows this survives a poll that
  breaks off, as what it leaves behind has the last time or a later one;
- `Cached`: what was resolved and kept is what the targets in force resolve it
  to: for a Codex directory by one of its sessions, for a Gemini directory
  by each, for an OpenCode path itself. Only `UpdateTargets` changes the targets, and
  it forgets what was resolved. `ResolvedByPath` speaks of the targets, not of the cache,
  and needs this.

`Largest` finds the latest of the times there are, which is the watermark.

### AccessProofs

For any users, logins, keys, browsers, lives of codes and times:

| Theorem | Property |
|---|---|
| `TypeCorrect` | `TypeOK` |
| `SavedKeyOwner` | `SavedKeyIsApprovers` |
| `SavedKeyWorks` | `KeyOnDiskWorks` |
| `NoKeyForgotten` | `KeyAccountedFor` |
| `NeverUnrevoked` | `RevokedForGood` |
| `GrantsKept` | `ImplementsGrants` |

The assumptions name the sentinels apart from the keys and the users. `IInv`
adds to `TypeOK` and `KeyAccountedFor`

- `NothingYet`: a login that was given no code has no document, and one that
  was given no key has none;
- `SavesIssued`: what is written to the file is a CLI key that never expires
  and is in the collection — the file never gets ahead of it;
- `ApprovedByApprover`: an approved code carries the user who was last told so:
  the filter of the update (`approved: false`) lets only one succeed;
- `KeptUser`: what a login carries from the poll to the key is that user.

`GrantsKept`: every behaviour of Access is one of `DeviceGrant`. It needs
`OneApprover` besides: no code of a login that has none, or that is not approved
yet, has an approver, and no two codes shown read the same — the unique index,
though an expired code stays in its way until it is removed. Each action is then
a step of the promise or changes nothing it speaks of: the one update that
approves is `Approve`, the poll that answers with tokens is `Tell`, opening
`auth.json` drops the key that was kept, and writing it keeps a key that was
issued.

### TrackingProofs

For any commands, directories, organizations, first worlds, and any number of
starts, kills and failed calls:

| Theorem | Property |
|---|---|
| `TypeCorrect` | `TypeOK` |
| `SerialWithoutRaces` | `SerialUnlessRaced` |
| `RegisteredOnce` | `OneProjectPerRepository` |
| `LocalNamesProject` | `LocalMatchesServer` |

`TrackingAssumption` says that the main repository of a worktree, and the directory
that the code takes for it, are directories; `WorldsAssumption` says what the
commands find at first: ids of projects in their order, no repository twice,
whole files, and local configs that name projects. `IInv` adds to `TypeOK` and
`LocalMatchesServer`

- `SoleWriter`: as long as no section was overtaken, a file that is emptied is one
  process's, whose write is based on what was in it, and any other file holds what the
  commands left. `SerialUnlessRaced` alone says nothing of an emptied file;
- `SoleInserter`: as long as no two registrations overlapped, one command at most is
  between its query and its insertion, and the query would still find nothing;
- `SavesKnown`: what a command is about to write to a local config is in the
  registry, unless the API could not be reached. Projects are never deleted
  here, so it stays so.

### MembershipProofs

For any users, organizations, slugs, invitations, and any number of requests,
served at once or in all:

| Theorem | Property |
|---|---|
| `TypeCorrect` | `TypeOK` |
| `OrphansExplained` | `OrphansForAReason` |
| `DeletedAccountIsOut` | `DeletedAccountLeft` |
| `SharedOrgIsKept` | `SharedOrgKept` |
| `LastAdminIsKept` | `LastAdminKept` |
| `DuplicatesAreRaces` | `DuplicateOnlyWhenRaced` |
| `AcceptedIsMember` | `AcceptedMeansMember` |

`MembershipAssumption` says that users and first invitations are finitely many
(the services count them), and that at first only the first entry of a user
makes an admin, as `CreateOrganization` and `AddMember` leave it. A request
acts on what it read some calls before, so the invariant speaks of every place
of every handler. `IInv` adds to `TypeOK`, `OrphansForAReason` and
`DeletedAccountLeft`

- `FirstOnly`: an entry other than the first is a member's. Without it
  `WriteRole`, which changes the first entry alone, could demote an admin who
  stays one, and `CountAdmins` would count him twice;
- `Shaped`: what a request's locals are, stale or not: which calls it can be at,
  one organization with its member count when leaving, the
  counts still to be handled when deleting an account, and that the invitation's
  id still names the invitation that was found, if any;
- `Knows`: what a request that nobody overtook may still rely on: the
  target is no admin or another one is; the counts it took are the counts there
  are; nobody has asked the invited; the invitation is pending, and who is to be
  pushed has no entry. `KnowsKept` carries this over every write to
  another organization, and a write to its own makes it stale;
- `Listed` and `Emptied`: DeleteAccount has listed every organization
  that was not joined late, and what a cascade deleted stays deleted
  unless it came meanwhile. These hold of stale requests too, as
  deletions never ask.

The action properties follow with one lemma per action (`...By`) that says what a step
writes and what it had read. `LastAdminKept` needs that the admin
counted is not the one that is removed: two elements of the member array with role
"admin" are two users, by `FirstOnly`.

### SessionStreamProofs

For every retry limit, set of batches, and number of events and restarts:

| Theorem | Property |
|---|---|
| `TypeCorrect` | `TypeOK`, with retries within the limit; no run repeats it |
| `CompletedWasSaved` | `CompletedMeansSaved` |
| `DuplicatesExplained` | `DuplicateForAReason` |
| `PendingExplained` | `PendingForAReason` |
| `StreamConverts` | `ImplementsConversion` |

The assumption is a retry limit of at least one. `IInv` adds

- `FoundKept`: the events at work are still pending below the limit, and once
  the good ones are marked only bad ones are pending without an excuse;
- `SavedKept`: an event that has sessions and is pending without an excuse is
  about to be marked, which is what makes a second insert impossible;
- `WaitingAhead`: a pending event without an excuse lies ahead of the stream
  and of the token, or is at work, and its retries are untouched until then —
  so that the query of its own change event finds it.

`StreamConverts`: every behaviour of SessionStream is one of `Conversion` under
the mapping. It needs one more invariant, `AtWork`: from the query of a change
event until its last mark nothing before its event waits, and what did not
convert is still pending when it is to be marked failed — no other goroutine
settles it. With `WaitingAhead` this gives `Turns`, that nothing reached waits,
in every state; each step that ends a turn then ends it as the promise allows
(`TurnsEnd`). The steps are shown one by one: an insertion appends to each of
the mapped sequences (`AppendField`); the query, the retry counts and a failed
query end at most a turn (`PassImplements`); an insert of sessions, also half
done, adds to events that are pending and had none unless they broke off
(`ConvertImplements`); a mark, also half done, settles the events it reached and
leaves the others to `unmarked` (`MarkImplements`); the token saved is a place
reached (`SaveImplements`).

### DashboardProofs

For any lines, projects, members, page size, and number of insertions meanwhile:

| Theorem | Property |
|---|---|
| `PagingComplete` | `PagesComplete` |
| `ViewsAlways` | the five parts of `ViewsAgree`, at every moment |
| `ViewsTrue` | `ViewsAgree` |
| `CardsAreTrue` | `CardsTrue` |

Three assumptions are about constants. `DashboardAssumption`: projects are finitely many,
with the times they were registered at. `LinesAssumption`: what the tools write, as far as
the adapters rely on it. A message has a time, a list of contents and, from an agent, a
number of tokens and a session; the collector registers the project of a line before
it sends any. `CallsAssumption`: the tools' ids. The id of a call is of no other
call, its result names the message that made it, and that message's id is of nothing
else. A line may still come again, as each version of a Gemini file repeats what the one
before it had, so documents of equal ids abound; the links must not depend on which is met.

A page is a place in an order that is chosen anew for each query, so the argument counts:
an untied key is on the page its number of smaller keys (`Less`) falls into
(`PagePlace`). `IInv` says

- `Filed`: documents are what some line becomes, and their ids differ, also those still to
  be inserted. An id has the copy of its line, which is one more than the copies
  counted, so copies must have no gaps (`Numbered`);
- `Ahead`: a key that was there at first and is not shown yet has at least as many
  before it as the pages read hold, unless it is a session active meanwhile;
- `Counted`: and fewer than were counted, unless something came before it since;
- `Behind`: a key that was shown has fewer before it *that never moved*
  than the pages read hold, so if a later page shows it again, something that moved is before it.

Insertions only add keys or bring them forward (`Grown`), which keeps all three
(`PlacingKeeps`); and the projects a reader of the list looks at are the same on each page, as they
can only be deleted, all at once.

The proof attempt showed that `PagesComplete`, as it first stood, was false: it let a key
be shown twice only if something *now* stands before it. A session shown, then pushed onto
the next page by another, shown again, and then active itself, is in front of what
pushed it. TLC finds this with three sessions, four insertions and page size 1, and
the property now excepts it.

The views rest on `Filed` alone. They compare sums over sets of documents and lists made
by recursion, whose values take induction. The library's induction theorems have an
operator as parameter, but one about *sets* can be stated and proved: a set of subsets of
a finite set that has the empty one, and each one it has all the parts of, has them all
(`SubsetInduction`, from the well-foundedness of the naturals), and likewise
for numbers (`SetInduction`). From it follow

- that a recursive definition has a value, and only one (`NumberRecursion`,
  `SubsetRecursion`), which makes `CHOOSE` in a recursive function tractable;
- the rules of sums (`Total`): one element less, a renaming, the parts of a partition;
- what `Kept` and `FlattenSeq` return: exactly what was there at the places
  kept, in order, each once (`Draws`);
- what a line of each tool becomes (`EntryOf`, `ConvertedAt`): which entries have
  a usage, refer to calls, are calls, and under which ids;
- that a panel has all entries of its segment (`ByTimeHasAll`), and what the chat
  makes of them.

Then the overview's sum is that of projects and of sessions by partition, a session's
parts come to the whole, and every call leads to the message that made it. That
a result without a call's entry has no name is a case of its own, as in the code.

`CardsAreTrue` needs `BoardInv` besides: the projects of the organization are all
registered or all deleted, and an entry in an earlier project than the one chosen for its
member has come since the choice (`Chosen`). A card counts calls by the entries made for them, the
property by what messages refer to. They are as many in whole lines (`Even`):
in a line of each tool an entry is made for each reference, and what a line becomes differs
with the time of conversion only in the time of a summary (`ConvertAlike`).
The property first asked for the whole line among all sessions, where a
card counts only entries since a time, and a line of Gemini spans several; the attempt to
prove it showed that, and it now asks for the whole line among those the card is of.

## 6. What is only model-checked

`Drains`, `ReadInTheEnd`, `Processed`, `LoginEnds` and `Converges`: liveness and
fairness are beyond the prover. Every invariant and action property of the passing runs is
a theorem.

### What the violations say

- **session_resume.** `GetResumeToken` asserts the type `bson.Raw` on a field
  of a `bson.M`, where an embedded document is decoded into a `bson.M`
  (`resume_token_repo.go:43`).
- **tracking_worktree.** From the `.git` file of a worktree the code goes up
  three levels and then once more (`gitutil.go:67`): the directory above the
  main repository is offered and registered.

### What the passing properties allow

The properties of the form *only for a reason* name what the code does let
happen.

*Daemon.* A line may be sent twice after a lost reply; it is lost when the server
answers 413 or `Success = false`. After a 413 the caller drops the length of
its own, longer batch, so lines never sent are lost with it (`log_service.go:479`; the
comment says the actual length is used). A last line that is not
complete is handed over in two pieces, and the offset counts a newline that is
not there (`log_service.go:271`). The initial scan runs before the targets are
applied and nothing repeats it (`handler.go:88`). An offset is saved before the line is
sent, so a crash loses the buffer. A Codex directory that appears after
the targets is taken for Claude Code's until the next targets, so its lines are
dropped, and all sessions of a day go to the project of the first that was
read.

*Tracking.* Two commands at once may lose one's project, or register a repository
twice; the daemon misses a change between its first load and its watch, and one of a local
config alone. `cops connect` always adds the current directory (`add.go:71`).

*Membership.* Two requests at once may leave an organization without an admin,
or a member in it twice; deleting an account never asks whether it was the last
admin. Who joins an organization while its last member leaves loses it.

*Access.* A key whose login failed after it was issued stays valid; a second
login overwrites the first one's key, which stays valid too.

*SessionStream.* An event stays pending when its batch failed, because the token
moves on and the retry worker is not built in; `MaxRetries` only filters the
query (an event that does not convert is marked failed at once, and with a limit
of zero nothing would be processed).

*Views.* Entries of one time may be missing from the pages or shown twice, as the sorts
have no second key (`dashboard_repo.go:604`). The overview counts all
entries without a session as one session, which the list leaves out (`:123`, `:404`). A tool call and
its result are two documents of one id, though a comment speaks of one
(`converter.go:118`); the board counts results under an empty name. A failure
whose content is no string is shown as a success (`parse-content.ts`). A
card counts a member's entries in every card's project (`featured_repo.go:200`).

## 7. Plan

1. *Done.* All modules of section 2 with their runs; a theorem for every safety
   property of LogFlush, LogTail, ToolReaders, Access, Tracking, Membership,
   SessionStream and Dashboard; that LogFlush implements LogDelivery,
   SessionStream implements Conversion, and Access implements DeviceGrant.
2. *Proofs.* An abstract specification of the tracking commands.
3. *Model.* ToolReaders with interleaved reads, as LogTail has them; a retry of
   `FindOrCreate` by a third command.

## 8. Not modelled

Daemon installation and the CLI's upgrade are sequences of operating
system calls. The retry worker is not part of the program. Migrations are run by
hand and read for the indexes they make. Of ingestion, the rights check is one read and
the transformation is Transcripts'. Of the dashboard, the statistics by day and the
date arithmetic are left out; of the web application, all that only renders.
Generated code (`shared/gen`) enters through the messages the modules name; documentation, the
plugin and the scripts are not part of the running system's logic. A data race
on `projectIDToOrgID` is reduced to the value before or after: that the
runtime may end the process is the crash of LogTail. The Claude Code adapter
asserts the type of a line it has parsed (`claudecodeadapter/adapter.go:31`) and
would end the process for a line of a known type that did not decode; Transcripts has
lines that decode.

## 9. Running

    tlc -workers 2 -config LogFlush.cfg MCLogFlush
    tlapm LogFlushProofs.tla
    tlapm LogTailProofs.tla
    tlapm ToolReadersProofs.tla
    tlapm AccessProofs.tla
    tlapm TrackingProofs.tla
    tlapm MembershipProofs.tla
    tlapm SessionStreamProofs.tla
    tlapm DashboardProofs.tla

The module of each run and its configuration are in `PROJECT.json`.
