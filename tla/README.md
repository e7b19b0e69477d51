# Verification project for goldeneye-tool

TLA+ models of the parts of goldeneye whose correctness depends on the order
in which things happen:

* durable source edits and the journal they rest on, with what crashes, faults,
  other processes and outside programs do to them;
* the stored graph of a project, with the calls that replace it while others read;
* the watcher, which keeps that graph up with a source tree that changes under it;
* the cache of graphs that queries are answered from;
* the database file, its artifacts and the jobs of the HTTP server that write both;
* the agent's client of the goldeneye process, and the daemon that shares it.

Run a check with `tlc -config X.cfg M`, a proof with `tlapm M.tla`.
`PROJECT.json` lists the runs, the lines each definition models, the findings
and the hazards.

## The system

Goldeneye indexes source repositories into a SQLite graph, answers queries
about them, and edits source files through syntax-checked, durable edits. It
is served to agents over stdio (MCP), to a browser over HTTP and to a shell.

| component | state | operations | hard because |
|---|---|---|---|
| edit journal (`goldeneye-store/journal.rs`) | table `edit_journal` | create, transition (compare-and-set), delete, list incomplete; cascade from projects | callers race, retry and hold old rows |
| durable edits (`goldeneye-edit/durable`) | target, temporary and backup file, journal row, target leases of the process | update, create, rollback, recovery at open | a crash, a fault or an outside write between any two calls |
| graph store (`goldeneye-store/graph.rs`, `project.rs`, `search.rs`) | projects, generations, files, nodes, edges, vectors | replace a project's graph or its vectors, delete a project | each call reads in one transaction and replaces everything in another |
| index (`goldeneye-index`) | none of its own; reads files, writes the graph | index a repository, refresh one file | files and rows change between discovery, parsing and commit |
| services (`goldeneye-services`) | configuration; opens an edit service per request | every operation a front end offers | opening an edit service runs recovery |
| watcher (`goldeneye-watcher`, `goldeneye-bootstrap`) | per project: baseline fingerprint, next poll, interval | watch, touch, prune, poll | a change while an index runs; a busy index |
| MCP server (`goldeneye-mcp`) | one session | initialise, list tools, call a tool | framing errors, order of answers |
| HTTP (`goldeneye-http`) | table of index jobs | start a job, list jobs, browse | slots are used again; threads outlive requests |
| artifact (`goldeneye-artifact`, `goldeneye artifact`) | a repository's artifact and its metadata | export, import | two files, written one after the other, by whoever indexes; a database that appears during an import, or is in use |
| queries (`goldeneye-query`) | a cache of project graphs keyed by generation | query, invalidate | what is cached may change without its generation |
| cross-links (`goldeneye-crosslink`) | derived edges in the graph | rebuild | a second transaction, which changes other projects |
| adapters (discovery, git, syntax, grammars) | files they write | walk, parse | pure functions or bulk input and output |
| agent session (TypeScript) | the goldeneye process, pending requests, output buffer | invoke, close, events of the process | processes that die, events that come late |
| agent daemon (TypeScript) | an endpoint, a start lock, sessions per project | start, connect, request, shut down | commands race to start it, signals and kills end it |

How they interact: a front end calls services; services opens a
`DurableEditService` for each edit request, which first recovers what an
earlier process left open; the edit service writes files through `std::fs`,
rows through the journal, and asks the index to refresh the file it changed;
the index parses the file and replaces its part of the graph; the watcher polls
file fingerprints and asks services to index. Everything durable is in one
SQLite file and in the source tree; a repository may carry an artifact of that
file, which is imported where there is none. `goldeneye` over stdio opens the database
when it starts; `goldeneye ui` starts without one, and its jobs, its watcher and its
MCP endpoint each import or make it when they index. The agent's commands reach goldeneye over
stdio, through a daemon that they start and share.

What makes each part correct:

* journal: one active row per target; rows move only along the phase order; a
  row's hashes never change under its reader;
* durable edits: the file holds the old or the new content or is one rename
  away from it, recoverably; the graph agrees with the file once the edit is
  over; nothing is left behind; a foreign write is not destroyed; recovery ends;
* graph store and index: files and nodes belong together, and vectors to the
  nodes; a refresh changes one file; a source that stops parsing does not
  replace the graph of one that did; no call undoes another;
* queries: an answer is of one commit and not older than what was stored when
  it was asked;
* watcher: a change is eventually indexed; one index at a time;
* jobs, database and artifact: a job reports to its own slot; every process has the same
  database open and nothing committed to it is lost; an artifact is what its metadata says;
* agent: an answer reaches the caller that asked; nobody waits for a process that
  is gone; an operation is run at most once; a daemon leaves.

## Modules

| module | models | checked by | proved in |
|---|---|---|---|
| `EditJournal` | the journal table and the store operations that write it | `edit_journal` | `EditJournal_proofs` |
| `DurableEdit` | `goldeneye-edit/durable` on one target, with the journal, a one-file index, leases, crashes, faults, outside writers | `edit_*` | `DurableEdit_proofs` |
| `AtomicEdit` | what an edit promises: the file changes in one step between old and new | as `EditIsAtomic` | `DurableEdit_proofs` |
| `ProjectGraph` | index_repository, refresh_file, the semantic index and the deletion of one project | `graph` | `ProjectGraph_proofs` |
| `Watcher` | the watcher's thread, its indexer, and the clients that index, watch and delete the project | `watcher` | `Watcher_proofs` |
| `QueryCache` | queries through the cache of each process, and the calls that write what they read | `query_cache` | `QueryCache_proofs` |
| `IndexJobs` | opening, making and importing the database, indexes in slots and without, the artifacts they and the command line write | `index_jobs` | `IndexJobs_proofs` |
| `StdioSession` | the agent's JSON-RPC session over the processes it starts | `agent_session`, `agent_orphan` | `StdioSession_proofs` |
| `AgentDaemon` | commands, the daemons they start, the sessions these keep | `agent_daemon` | `AgentDaemon_proofs` |
| `MC` followed by the name of a module | its small instances | | |

`DurableEdit` uses the same journal that `EditJournal` specifies; that it uses
it as specified is the property `JournalSpec`. `ProjectGraph` looks inside the
refresh that `DurableEdit` takes as one step on one file, and inside the index
that `Watcher` takes as a read and a commit. `QueryCache` takes the same commits
as steps of a stamp and adds the writes that keep the generation. They are not composed: an edit's
refresh meets other calls in `ProjectGraph` whatever made it start. `AgentDaemon`
takes of a `StdioSession` only whether its process runs, and how writing to a
process whose input is ended goes wrong.

### EditJournal

`journal` maps an operation identifier to a row or to `NoRow`. Each store
operation is one immediate SQLite transaction and therefore one action;
a call the code refuses is a stutter. `CanTransition` is
`EditPhase::can_transition_to`; `TransitionAccepted` is the compare-and-set
with its idempotent case (asking for the phase the row already has succeeds).
The callers are arbitrary, so what is shown holds for every client.

### DurableEdit

State and code:

| variable | in the code |
|---|---|
| `dest` | the target file's content (a content stands for its hash) |
| `temp[o]`, `bak[o]` | the two artifacts named after the operation |
| `parent` | whether the target's directory exists |
| `journal`, `idx` | the edit journal; what the graph says the target holds |
| `disk` | what of the database survives a power loss |
| `lease[h]` | `ACTIVE_TARGETS`, a static of one process |
| `pc[w]`, `job[w]` | where a service is inside a call, and its local variables |

A worker is one `DurableEditService`, a host one process. A request runs
`PrepareEdit` or `PrepareCreate`, `Begin` (the journal row), then the calls of
`commit.rs`, one action for each file-system call or transaction: `OpenTemp`,
`FillTemp`, `Verify`, `LinkBackup`, `DropTarget`, `MarkBackupReady`,
`LinkTarget`, `DropTemp`, `MarkReplaced`, `Refresh`, `MarkIndexed`,
`RemoveBackup`, `RemoveTemp`, `MarkCommitted`. `rename_new` is two of them
(`Link*` then `Drop*`) because the code links, then unlinks. A refused refresh
leads to the `Undo*` actions. Opening a service runs `ListIncomplete`,
`Inspect` and one of four branches: the target holds the new content (`Fwd*`),
the old (`Back*`), nothing (`Restore*`, or `Back*` for a creation), or
something else (`KeepConflict`).

The environment: `Crash` of a process between any two steps, `IoError` in place
of any call, `ExternalWrite` by another program, `PowerLoss` with `Flush`,
`DeleteProject` by another client.

Choices worth knowing:

* An outside writer replaces the file by a rename, as editors do; hard links to
  the old content keep it. A writer that truncates in place would also change
  the backup before the target's name is removed.
* `Inspect` decides from one look at the target. The code hashes it again in each branch
  test; the difference is visible only to a writer between two such looks.
* File-system changes are durable when made; the code synchronises files and
  directories. The database is durable at a flush, since its connection sets
  `synchronous = NORMAL`.
* One target. Leases, journal uniqueness and artifacts are per target, so two
  targets interact only in the parent directory.
* The set `Accepted` stands for the indexer's parse; a content outside it is a
  source with diagnostics.
* Between the unlink and the link of an update the target has no name, and a
  reader finds no file. `EditIsAtomic` allows it; the design document
  (`docs/superfastpowers/specs/2026-07-13-goldeneye-rust-port-design.md`, line 224)
  calls the step an atomic rename.
* Deleting the project deletes its journal rows, open ones too. An edit that is
  inside then fails at its next transition and its backup stays beside the
  target for a human to find: `LastCopyKept` is what remains true.
* Delete operations exist in the journal's schema and have no caller in the
  edit service; `EditJournal` has them, `DurableEdit` does not.

### ProjectGraph

| variable | in the code |
|---|---|
| `source` | the source tree; outside programs and edits change it (`WriteSource`) |
| `project` | `current_generation` of the row of `projects`, or `NoProject` |
| `hash` | `content_hash` of each row of `files` |
| `nodes` | which content the nodes of each file were extracted from |
| `vectors` | which nodes the rows of `node_vectors` were computed from |
| `pc[w]`, `job[w]` | where a thread is inside a call, and its local variables |

An index call runs `StartIndex` (the walk), `GetProject`, one `ReadCandidate`
for each file, `ClassifyChanges` (the list of files, unchanged or rejected or
to be committed), `ReplaceProjectGraph`, `RebuildCrossLinks`, and then the
semantic index: `LoadSemanticNodes` and `ReplaceSemanticIndex`. A refresh runs
`StartRefresh`, `Discover`, `ListFiles`, `RefreshTarget` or `RefreshMissing`,
one `MatchRecord` for each other file, `AssembleGraph`, one `ReuseFileGraph` for
each file whose stored nodes it keeps, and the same commit. Each transaction
and each read of a file is one action, because anything may happen in between.
`Abandon` is an error or a cancellation at any point.

Choices worth knowing:

* A content is a source, its hash and its nodes at once; `Accepted` are those
  that parse without diagnostics. Edges are left out: they are replaced with the nodes.
* A walk is one step; a file that goes before it is read fails the call, as in
  the code.
* `job[w].life` counts deletions. It exists in the model only, so that the
  properties can say whether the project is still the one the call read.
* The transaction of a commit does not compare generations
  (`register_project_generation`), so a commit that was overtaken succeeds.
  `Overtaken` says which commits those are.
* A project that is deleted while a call is inside is inserted again by its
  commit, and its generations begin again; a call that holds a generation of
  before may then meet it again. `VectorsCurrent` is stated up to a deletion
  for this reason.

### Watcher

| variable | in the code |
|---|---|
| `tree` | the project's root: whether it is there and under git, the file, and the file at `HEAD` |
| `graph` | which content is indexed, or `NoProject` |
| `watched`, `states` | `Watcher::projects` and the `ProjectState`s, which a poll holds on to after the map has dropped them |
| `pc`, `poll` | where the watcher's thread is, and its local variables |
| `stopped`, `woken` | `WakeState` |
| `user[u]`, `read[u]` | where a client is inside a call, and what its index read |

A round of the thread is `Top` (the stop flag, the states cloned out of the
map), `CheckRoot` (with the counting of a root that is away), `ReadHead` and
`ReadStatus` (the calls of git, which are processes of their own), `IndexRead`
and `IndexCommit`, then `Record` or `RecordFailure`; or `Prune` and `Forget`;
and at the end `Wait` and `Wake`. `Tick` is time going by: a poll falls due,
the grace of a missing root ends. A client indexes and then watches, or deletes
and then unwatches, each in two steps as in `handlers.rs` and `indexing.rs`.
`Change` is everything that happens to the source tree: an edit, a commit, the
root removed, or put back with or without a repository.

Choices worth knowing:

* One project and one file. Projects share the thread, which takes them in
  turn, and nothing else.
* A snapshot is `HEAD` and whether the file differs from it, which is all that
  git status tells: the file modified twice is the same snapshot as modified once.
* An index is a read and a commit; what may happen between the parts of each
  is the subject of `ProjectGraph`.
* `visible` exists in the model only. It says that git shows the last change to
  the next poll: the snapshot now differs from the baseline, and from the one
  being indexed, if any. `VisibleChangesIndexed` promises no more than that,
  since the code keeps nothing that could show the other changes.
* The indexer's busy flag has no action. Only the watcher's thread calls the
  indexer, so it is never found set; were it set, the poll would do what
  `RecordFailure` does.
* Intervals are not numbers: `due` says that one has passed.

### QueryCache

| variable | in the code |
|---|---|
| `store[p]` | the row of `projects` and, as a stamp each, the graph, the git history and the `CROSS_` edges of its nodes and edges |
| `cache[h]` | `QueryCache::graphs` of a process |
| `query[h]` | the one query that `with_query_engine` lets in |
| `call[w]` | where an index, a refresh, a deletion or a rebuild of the cross edges is |
| `due`, `racy` | model only: what finished calls oblige their process to show, and projects deleted while others used them |

A query runs `Ask`, `ReadBefore`, `Get`, then unless it hits `GetOrLoad`,
`LoadEdges` and `ReadAfter`, which may send it back, and `Return`. An index runs
`Commit` or `Unchanged`, `ListProjects`, one `ReplaceLinks` for each project
listed, `GitHistory` or `NoHistory`, and `Invalidate`; a refresh ends after the
links; a rebuild begins with them; a deletion is `DeleteProject` and `Invalidate`.

Choices worth knowing:

* Every write of a part of the store advances the stamp of that part, the
  deletion too. An answer shows stamps, so "older" is a comparison of numbers.
* The lock of the cache is held between the two reads of a load, and
  `Invalidate` waits for it. The mutant that does not wait is caught.
* A deletion is racy if, at its transaction, a call that may store the project
  is inside, a query is, or another process is asked queries, whose cached graph nobody drops; or if a call of the
  project begins before the deleting process drops its own. Generations then begin again under readers that compare them; the
  properties are stated for the projects that are not racy.

### IndexJobs

| variable | in the code |
|---|---|
| `db` | the file at the database's path, as the set of commits in it |
| `artifact[r]`, `metadata[r]` | a repository's artifact file and its metadata |
| `conn[h]` | the connection of the process's edit service: to the file at the path or to one that was replaced there |
| `jobs[h]` | `index_jobs` of the HTTP server of a process |
| `pc[t]`, `task[t]` | where a thread is; its kind of task, repository, slot (0 for none), connection, and the snapshot it works on |
| `commits`, `acked` | model only: how many commits there were, and those since `artifact import` was last run |
| `clashed`, `torn` | model only: an import met another one or a database in use; repositories whose two files may disagree |

`Server` are the processes that run `goldeneye ui`; they never call `Services::open`.
The others run `goldeneye` over stdio, or `goldeneye artifact`.

A thread is given something by `Open` (stdio's start), `HandleIndex` (`POST /api/index`,
with a slot), `IndexUnreserved` (the watcher, and MCP's `index_repository` over stdio
or `/rpc`, without one) or `ArtifactCommand` (`goldeneye artifact`). An index and a
start run `Check`, perhaps `ReadArtifact` and `Install`, then `OpenStore`; `artifact
import` runs the middle two only, and asks nobody. An index goes on with
`IndexRepository`, and if it exports with `Snapshot`, `WriteArtifact` and
`WriteMetadata`, which are also what `artifact export` runs. `Fails` may end it
before each of these. `Finish` updates the slot. Of a process, `Connect` is the edit
service that `goldeneye ui` makes at its first use, `Edit` any other transaction, `Exit`
the end of stdio, which opens the database once more; `Crash` and `SpawnFails` come at any time.

Nothing keeps an index without a slot from running beside a job of the same
process, on the same repository: two may import at once, and two may export at once.
So the properties are stated with these exceptions, which the model records:

* `OneDatabase` is given up (`clashed`) once a thread makes the database while
  another one, of any process, imports it because there was none, or once `artifact
  import` replaces a database that is open, or fails to replace one.
* `PairAgrees` is given up for a repository (`torn`) while two exports of it have
  overlapped, in one process or in two, one was cut off by a crash, or one failed and
  could not remove its artifact either. The next export that runs alone (`task.alone`)
  mends the pair.

Choices worth knowing:

* A snapshot is of the file at the path, whichever file the thread's own connection
  is to, as in the code.
* An import that fails while it renames the old file away and back keeps what was
  checkpointed only: a subset of the commits.
* The two renames of an import are one step; a crash between them is a known limit.
* `InUse` counts the connections of edit services and of indexes. A query's
  connection writes nothing and is not counted.
* An index commits once. Its later transactions, the deletion of a project and the
  rebuild of cross-links are commits through such a connection, as `Edit` is.
* Idle threads of a process are alike, so the first of them is taken.
* `JobsEnd` and `JobsReportTheirOwn` are about jobs. An index without a slot has none to
  report to.

### StdioSession

| variable | in the code |
|---|---|
| `child`, `initialized`, `pending`, `nextRequestId`, `stdoutBuffer`, `closing` | the fields of `StdioJsonRpcSession` |
| `starting` | the calls that wait for the promise of the handshake |
| `call[c]` | what the caller of an invocation knows |
| `host` | the client's own process |
| `proc[k]` | a goldeneye process: what it has not taken from its input, what it wrote and nobody has read |

`Invoke*` and `Close` are the calls; `OnStdout`, `OnHandshake`, `OnExit` and
`OnClose` are the callbacks, each with everything that the promises it settles
lead to; `Answer`, `FinishLine`, `Leave` and `Die` are the process. Choices
worth knowing:

* Node's exit event may come before the last output is read, its close event
  comes after it. A new process may be started in between.
* A line is read whole or in two parts. The parts of different lines that meet
  in the buffer make a line that is no JSON, which the code drops.
* A write to a process that is gone or whose input was ended raises an error
  event that nobody listens for, which ends the client's process (`HostDown`).
* A request has no timeout, as in the code.

### AgentDaemon

| variable | in the code |
|---|---|
| `client[c]`, `at[c]` | a command and the daemon it is connected to |
| `sock`, `lock` | the endpoint's path and `daemon-start.lock` |
| `daemon[d]` | where a daemon is, from its probe to its end |
| `session[s]` | a session of a daemon: its queue, its shutdown, whether its goldeneye process runs |
| `ran[c]` | model only: how often the command's operation was run |

A command runs `ConnectFirst`, perhaps `OpenLock`, `StatLock`, `UnlinkLock`,
`Relock`, then `Retry` until it connects or `GiveUp` and `RunDirect`. A daemon
runs `Probe`, `Remove`, `Bind`, `Unlock`, serves (`Accept`, `Enqueue`,
`RunNext`, `Finish`, `DropSession`), and leaves (`ShutdownIdle` or `Signal`,
`EndDrain`, `EndClose`, `RemoveSock`, `RemoveLock`, `Leave`). A step is a
callback or one file-system call that another process can see, so that two
commands may both find a stale lock and one remove the other's. Ages are not
numbers: `LockAges` makes a lock stale at any time.

## Runs

Passing runs:

| run | instance | shows |
|---|---|---|
| `edit_journal` | 2 operations, 2 targets, 2 contents | type, one active operation per target, rows only advance |
| `edit_crash` | 2 services of one process, 2 operations, 3 contents (1 rejected), 2 crashes, 1 fault | atomic, recoverable, indexed, clean, directories removed, nothing left open without a cause |
| `edit_live` | 1 service, 1 outside write, all sources accepted, 1 crash, 1 fault | foreign content is kept if written before the last look, an undisturbed recovery resolves |
| `edit_power` | 1 service, 1 power loss, 1 crash, 1 fault, project deletable | neither lost rows nor deleted rows make an update or a recovery destroy the last copy |
| `graph` | 2 calls of any kind, 2 files, 3 contents (1 with diagnostics), 2 writes, 1 deletion | files have nodes, vectors are current, a refresh is local, a broken source is refused |
| `watcher` | 1 client call, 2 contents, 2 changes, 1 failure, 2 polls to miss a root | visible changes are indexed, a root that stays away is forgotten, a stop ends the thread |
| `query_cache` | 1 project, 2 processes (1 is asked), a writer in each, 2 calls | answers are of one commit and current |
| `index_jobs` | 2 processes (`goldeneye ui` with 2 threads, another with 1), 2 repositories (1 with an artifact), 2 slots, 3 things begun, 2 at a time, 1 commit, 1 crash or error | slots belong to their jobs, one database, artifacts agree with their metadata, jobs end |
| `agent_session` | 3 invocations, 1 process that dies, a close at any moment | answers match, nobody waits in vain, invocations and closes end |
| `agent_daemon` | 2 commands, 1 killed daemon, 1 signal, a lock that may be stale | an operation runs at most once, commands end, daemons leave |

Bounds. Two operations are an interrupted one and the one that meets what it
left; three contents are an old, a new and a rejected or foreign one. Two
crashes interrupt a request and then its recovery; one fault inside each branch
of either reaches every error exit. One outside write comes at
any moment, before or after a service looked. Two calls are one that reads and one that commits in between;
two files are the target of a refresh and a file it must leave alone; two writes
change both, or one twice. Two changes of a watched tree are one that starts an
index and one in the middle of it, or a root that goes and comes back; one
client call replaces or drops the state that a poll is holding; one failure is
of the poll that would have indexed the change. For a cache, two calls are
one whose writes a query has half read and one that owes the process that is
asked; a second process that is only written in has no cache that matters, and
projects share only the list of a rebuild, which ends at one that is gone also
when it is the only one. Three threads are a job beside another of its process, or beside
an index without a slot, and a start, an index or a command of a second process. Two are busy
at a time, since an import or an export is disturbed by one other; the third thing
begun meets what they left. One commit is one that is lost or kept. Two slots are one more
than a job needs, so that a slot is used again. Three invocations are one in the handshake, one
behind it, and one after the process has died. Two commands are a winner and a loser of
the lock, or the old and the new daemon. Larger bounds repeat these cases.

The runs allow deadlock where requests, calls or crashes are bounded: the
system then stops with every thread idle.

Runs that find a disagreement (each finding in `PROJECT.json` quotes the line):

| run | property | what happens |
|---|---|---|
| `edit_two_processes` | `OriginalRecoverable` | a starting process recovers a live operation of another, and the original is lost |
| `agent_orphan` | `OneChild` | the close event of an old goldeneye process makes the session forget the new one |

### Known limits

Properties are stated up to cases in which the code does something that no
document excludes, or excludes only loosely. Each is in the models unless it
says otherwise, and each is a place to look before one changes the code:

* A process that starts recovers the open operations of a running one
  (`durable/recovery.rs`, line 20); `edit_crash` therefore has one process.
* A power loss takes back rows of the journal that were not flushed, though
  the files stay as they are: the target may be left without a name, with its
  content in a backup that nobody recovers. `LastCopyKept` is what remains.
* An outside write that lands between the last look at the target and its
  removal (`durable/commit.rs`, lines 42 to 53) is lost. `ForeignKept` begins before it.
* A creation whose directory is missing, and that was not asked to make it, makes
  its row before it finds out (`durable/mutation.rs`, line 260, then
  `durable/commit.rs`, line 155): the call fails and the row stays open, which
  refuses every later edit of that path until the service is opened again.
  `OpenForCause` names it as one of three such cases.
* A source that the indexer rejects, installed before a crash, keeps its row
  open at every start, so the service does not open (`durable/recovery.rs`,
  line 72; `docs/gcal-feature-handoff.md` describes it). `edit_live` has every
  source accepted.
* A refresh that listed the files before another call committed writes the old
  list back (`service/refresh.rs`, line 200). `RefreshKeepsOthers` is about
  commits that nothing overtook.
* The cross edges that an index or a refresh rebuilds in other projects do not
  show there until their graphs are dropped for another reason
  (`engine/cache.rs`, line 26; `service/indexing.rs`, line 197).
* An import replaces a database that was made since it looked, by another process or by
  another thread of its own (`edit/runtime.rs`, line 32): a job, the watcher and `/rpc` of
  one `goldeneye ui` may each import. What is written through the old connection is
  lost. `goldeneye artifact import` does not look at all (CLI `main.rs`, line 98); that the
  database "must not be open by another service" (`import.rs`, line 10) is left to
  its user. A crash between the two renames of an import (`import.rs`, line 84) leaves the
  old database under another name; that one is not modelled.
* Exports of one repository may overlap (`service/indexing.rs`, line 277), also in one
  process, where the watcher (bootstrap `lib.rs`, line 278) and `/rpc` (`backend.rs`, line
  199) index without a slot. The artifact is then one's and the metadata the other's, until the
  next export. So it is if the metadata cannot be written and the artifact
  not removed (`export.rs`, line 68). An import refuses such a pair.
* A job whose thread cannot be started, or panics, leaves its slot indexing
  (`backend/indexing.rs`, line 59).
* Output that a dead goldeneye process left in the buffer swallows the first
  line of the next one (`StdioCodebaseMemoryClient.ts`, line 126), and without
  a timeout its caller waits for ever. A write to a process that is gone ends the client.
* A daemon that leaves removes the path of the endpoint, which may be another
  daemon's by now (`startDaemonServer.ts`, line 125): that one is not reached any more
  and ends when it is idle. A request accepted before a shutdown may start a
  goldeneye process that nobody ends, and the daemon stays with it.
* The watcher prunes by name (`polling.rs`, line 114) what a client may have
  watched again, and goes on with the states it cloned (line 20): a project deleted
  meanwhile is indexed again. A change that git status does not show, or that is
  made before the first snapshot, is not indexed.

### Fairness

`FairSpec` is weak fairness of each worker's steps: a thread that is inside a
call runs on. The code has no loop that waits for another thread (a busy lease
and a busy journal are errors), so nothing stronger is needed. Requests,
restarts, crashes, faults and outside writes are never assumed to happen.

`FairSpec` of `Watcher` is weak fairness of the watcher's thread, whose waits all have a
timeout, and of the clock of each state. Clients, changes and the stop are not
assumed; failures are bounded, since a git that always fails indexes nothing.

`FairSpec` of `IndexJobs` is weak fairness of each thread that runs; a crash is not a
step of it. Nothing there waits for another thread: SQLite's locks are held for
one step. `FairSpec` of `StdioSession` is weak fairness of the events of each
process and of the process's own work: Node's loop takes up every event that is
ready, and a goldeneye process that is up answers its requests one after another.
`FairSpec` of `AgentDaemon` is weak fairness of each command, of each session
and of each daemon's start and end. That a daemon is idle long enough, that a
signal comes, that a lock ages, that a command begins is not assumed.
`query_cache` states safety only.

## Proofs

`EditJournal_proofs` proves for any operations, targets and contents:

* `TypeCorrect`: `Spec => []TypeOK`;
* `OneActive`: `Spec => []OneActivePerTarget`. The inductive invariant is
  `TypeOK /\ OneActivePerTarget`: creation looks for an active row of the same
  target, and no transition leads from a terminal phase to an active one;
* `OnlyAdvance`: `Spec => RowsOnlyAdvance`, from `TypeOK` alone.

They rest on `CanTransitionShape` (what the automaton allows) and on one lemma
per operation. The only assumption is that `Absent` is no content.

`DurableEdit_proofs` proves for any services, processes, operations and bounds:

* `TypeCorrect`: `Spec => []TypeOK`, where `TypeOK` also says that the target
  never holds an unfinished write;
* `JournalImplemented`: `Spec => JournalSpec` for `MaxPower = 0`: without power
  losses the service implements the abstract journal, step by step or by
  stuttering.

The inductive invariant `IInv` has a part for files (`FilesOK`), one for the
variables of data (`DataOK`), one for bounds (`EnvOK`), one for control
(`ControlOK`), and three that make the argument. `TempWritten` says that a
service which is past `FillTemp` has a complete temporary file. That is stable
only if no other service writes the same file, which is `OwnsOp`: two services
inside requests never write for one operation. Why not: each has made the
operation's row, creation refuses an identifier that has a row, and `OwnsRow`
keeps the row there unless the project goes, after which no row can be made. Every action has lemmas for control, files and data.
`DurableEdit_proofs` assumes `ConstantsAssumption`: contents, marks and bounds are what they
should be.

It also proves for any threads, operations, contents, crashes and faults what becomes
of the file. Each theorem names the rest of what it needs:

| theorem | states | turns | no power loss | no outside write | no deletion |
|---|---|---|---|---|---|
| `OutsideWritesAreKept` | `ForeignKept` | | | | |
| `LastCopyIsKeptInTurns` | `LastCopyKept` | x | | x | |
| `NothingIsLeftBehindInTurns` | `ArtifactsGone` | x | x | | |
| `OriginalsAreRecoverableInTurns` | `OriginalRecoverable` | x | x | x | |
| `RollbacksRemoveDirectoriesInTurns` | `RollbackRemovesDirectories` | x | x | x | |
| `OpenOnlyForCauseInTurns` | `OpenForCause` | x | x | x | |
| `IndexAgreesInTurns` | `IndexAgreesWhenSettled` | x | x | x | x |
| `AtomicEditImplementedInTurns` | `EditIsAtomic` | x | x | x | x |

"Turns" is `[]TakeTurns`, a condition on the behaviour and not on a constant: no service
is inside a request or a recovery while one of another process is. Each of these
theorems reads `Spec /\ []TakeTurns => property`, for any number of processes, which
may come, crash and recover what another one left. Nothing in the code makes
processes take turns, and `edit_two_processes` shows what follows when they do
not; the theorems say that this is the only thing missing, so a lock on the database
while a service is inside would do. One process takes turns by itself
(`OneProcessTakesTurns`), because the table of target leases is a static of the
process; each theorem has a corollary for that case, under the name without
`InTurns`, whose hypothesis `OneProcess` is about the constants alone.

The other hypotheses are the code's own limits; the run of a property assumes at least those of
its theorem. `MaxPower = 0`: with `synchronous=NORMAL` a power loss takes
commits back that files have already followed. `MaxWrite = 0`: an outside writer may replace the content
that a row counts on between two calls. `Deletable = FALSE`: deleting a project
drops the rows and the graph and leaves the files as they are, so that nobody finishes
an edit that is open.

Each mark in the table is needed: in an instance like `edit_crash`, with at most one crash and without that
hypothesis, TLC finds the property violated. One takes two events: a file stays behind after a power loss only
if the target is also written from outside, and the identifier of the lost row used again.

What a row says must be true of the files between any two calls, and after a crash
when nobody is at work: a recovery has nothing else to start from. The invariants
are built in layers, and each is used as a fact about both ends of a step by the next one.

1. `Leased`: whoever is inside a request, or past the inspection of a recovery, has the
   lease. So among processes that take turns one service at a time is inside (`Alone`), and
   a step of it needs no check against the others.
2. `RowInv`: the place of a service says which phase its row is in
   (`PhaseAt`), that its job is its row (`JobIsRow`) and which files are already removed
   (`Cleared`). Of all rows: one is open, and a closed one has no
   files (`Tidy`), which is `ArtifactsGone`.
3. `ContentInv`: a service knows what the target, the backup and the temporary file
   hold and whether the index agrees (`Looked`). Of an open row, `FilesFit`: the target holds
   the old content; or nothing and the backup holds it; or, between `backup_ready` and
   `replaced`, the new content with the old in the backup; or, `indexed`, the new content
   in place and in the index. That is `OriginalRecoverable` and more.
   While no row is open the index agrees with the target.
4. `DirInv`: a service that is about to write `rolled_back` for a creation has
   removed the directories that its row recorded.
5. `ReadyInv`: a service finds the names of its artifacts free and its own writes in
   place, and a directory that is missing holds nothing (`Housed`). So a call of it can
   fail only if it is made to, or for a cause that `OpenForCause` names:
   `CommitCause`, `UndoCause` and `RecoveryCause` go through every exit that leaves a row open.

For the refinement, `OpenShows` and `SettledShows` say what a reader of the mapping sees:
the target while nothing is open, and else the new content if it is in place and
the old if not. A step then is one of three: it works on the file of the open row
(`WithinIsAtomic`), makes a row (`MakingIsAtomic`) or moves one on (`AdvancingIsAtomic`),
and each is a step of `AtomicEdit` or a stutter.

Two invariants need less. `CopyInv` does not look at the database at all, since the place of a service alone
says where a copy is, and so holds through power losses and deletions. `ForeignInv` says that no request
under way knows the outside content, so that no rollback takes it for its own. It needs
no lease and no row, since a recovery removes no target and puts one in place
only where there is none (`RecoverySpares`), and so holds without any hypothesis.

`ProjectGraph_proofs` proves for any workers, files, contents and bounds:

* `TypeCorrect`, `RowsHaveNodes` and `VectorsFollowNodes`:
  `Spec => []TypeOK`, `[]GraphCoversFiles` and `[]VectorsCurrent`;
* `RefreshIsLocal` and `BrokenSourceIsRefused`: `Spec => RefreshKeepsOthers` and
  `Spec => BrokenSourceKeepsGraph`.

None of these formulas is inductive: they speak of the store, and what a commit
writes was read long before. `IInv` adds, for each place a call can be at, what its local
variables have to do with the store if no other commit came in between
(`Listed`, `Matched`, `RefreshReady`, `IndexReady`, `Loaded`) and what they have
to do with each other in any case (`Covered`). These hold because a call that
was overtaken stays overtaken, which is `Behind`: a call's generation is never
ahead of the project's and generations only grow, up to a deletion, which
`life` counts. So a step of one call is checked against the others by three
lemmas only: `Elsewhere` (the store did not change), `CommitOvertakes` and
`DeletionOvertakes`. The assumption is `GraphAssumption`: marks are no
contents and no numbers.

`QueryCache_proofs` proves for any projects, processes and writers:

* `TypeCorrect`: `Spec => []TypeOK`;
* `LoadedAtOneCommit`: `Spec => []AnswersAreOfOneCommit`;
* `NothingStaleIsAnswered`: `Spec => []AnswersAreCurrent`.

The invariant has two halves. `Stamps` relates what queries expect and what processes
owe to what is stored, for every project; it needs no argument about caches. For a project that
is not racy, `Kept` adds three things: `Gone`, that nobody stores the project between
its deletion and the drop of the graph; `Fresh`, that a cached graph is no
newer than the stored one, lags behind it by no more commits than generations,
and is the stored one where the generations agree; and `Reading`, the same of
the generation that a query has read. An answer is then current because a
generation read again and found the same leaves no room for a commit in
between. The assumption is `HostAssumption`: every writer has a process.

`IndexJobs_proofs` proves for any processes, threads, repositories and bounds:

* `TypeCorrect`: `Spec => []TypeOK`;
* `SlotsAreTheJobs`: `Spec => []JobsReportTheirOwn`;
* `CommitsAreInTheDatabase`: `Spec => []OneDatabase`;
* `ArtifactsAgree`: `Spec => []PairAgrees`.

The invariant has a part for each of the last three, and they do not mix. `JobInv`
says that a thread with a slot is the one that the slot shows. `DataInv` says that, until
an import has clashed, whoever imports because there was no database still finds none,
and every connection is to the file at the path, which holds what was acknowledged.
`PairInv` says that the exporters of a repository that is not torn export alone, that
one who is alone has written the artifact before it writes the metadata, and that until it
writes the pair agrees. None of them rests on slots, since an index may have none. The
assumption is `JobsAssumption`.

`AgentDaemon_proofs` proves for any number of commands, kills and signals:

* `TypeCorrect`: `Spec => []TypeOK`;
* `OperationsRunAtMostOnce`: `Spec => []RanAtMostOnce`.

A count of runs is not inductive; where the command is waiting is. `Counted`
says that a command in a queue has not run and one that is running has run once. It
stays so because a daemon has one session that takes requests (`OneOpen`), a command
stands in one queue at one place (`Distinct`), the head of a queue is the one
that runs (`Queues`), and shutdown waits for no more than is in the queue (`Waits`).

* `CommandsAreAttended`: `Spec => []CommandsAttended`, the safety that
  `CommandsEnd` rests on. A command that has sent its request has sent it to a
  daemon that listens; one that was accepted waits for a daemon that has not left; one
  that is queued or running stands in a queue of that daemon. `Connections`
  holds because the end of a server and the death of a daemon move the commands on
  its connections too, `Enqueued` because only an answer takes a
  command out of a queue, and `Fresh` because a command's session is not
  used before it makes it. What is left of `CommandsEnd` is fairness alone.

The assumption is `DaemonAssumption`.

`StdioSession_proofs` proves for any number of invocations and of processes that die:

* `AnswersReachTheirCallers`: `Spec => []AnswersMatch`;
* `EveryoneIsAttended`: `Spec => []NobodyWaitsInVain`;
* `TypeCorrect`: `Spec => []TypeOK`.

`Attended` is the second property with what makes it inductive: the handshake is
pending while calls wait for it, and the process that the session has is one it
has not heard the exit of. `Unique` gives the first one: two things that are pending,
on their way to a process, half written or on their way back, and have the same
identifier, are for the same caller, since identifiers are not used again when a process
is forgotten. `Order` says that calls and processes begin in order, so that
there is a next process to start. `TypeOK` bounds the identifiers by the invocations, which `Budget`
counts: an invocation that has begun has sent two requests, or one and still waits.
The assumption is `SessionAssumption`.

`Watcher_proofs` proves for any clients, contents and bounds:

* `TypeCorrect`: `Spec => []TypeOK`. That states are never more than there are numbers
  for is the part that needs an argument: each takes a client's call, and `Counted` counts
  the clients that are still to make theirs;
* `ShownChangesAreFound`: `Spec => []ShownUntilIndexed`, the safety that
  `VisibleChangesIndexed` rests on: as long as the graph is not of a file that git
  shows as changed, the snapshot that the watcher compares with differs from what git
  shows, so that the next poll finds the change, or the project is about to be
  dropped. A commit that tears a snapshot, a change in the middle of an
  index, a failure, and a client that replaces the state under a poll do not
  hide it. `Shown` says of the thread on its way from a snapshot to its record what it still
  has to index, and `Replaced` that a thread whose state was replaced
  writes into the old one. `ShownUntilIndexed` and the two were also checked with
  TLC on the instance of `watcher` before they were proved.

The assumption is `WatcherAssumption`.

Every safety and action property of the passing runs is proved, up to the hypotheses
above. Only model-checked are the liveness properties, which are beyond the prover:
`StartupResolves`, `VisibleChangesIndexed`, `GoneIsForgotten`, `StopEnds`,
`JobsEnd`, `InvokeEnds`, `CloseEnds`, `CommandsEnd` and `DaemonLeaves`.
`NobodyWaitsInVain`, `ShownUntilIndexed` and `CommandsAttended` are what could be
proved of three of them.

## Not modelled

`PROJECT.json` gives the reason beside each component. In short: parsing,
discovery, git, ranking and the Cypher evaluator compute a result from their input; the
command line (but for `goldeneye artifact`, in `IndexJobs`), packaging and the browser front end keep no state worth a model;
vendored grammars are data. They are most of the repository's lines: what the
models cover is small in size, and is where order matters. Inside modelled components,
which edges are derived, what compression and the merge driver do to an
artifact, Windows' named pipes and the store operations that only tests call are left out.

## Plan

In order of what depends on what:

1. More of `Watcher`: whether a project that a client has indexed stays
   watched, once a document says what should hold.
2. `WatchedProject`: `Watcher` with `ProjectGraph`; an edit's refresh and the
   watcher's index settle on the source tree when writes stop.
3. `McpServer`: framing and request lifecycle of the stdio server, as the other
   end of `StdioSession`.
