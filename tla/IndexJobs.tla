-------------------------------- MODULE IndexJobs --------------------------------
(***************************************************************************)
(* Where the database comes from and where it goes: `goldeneye' over       *)
(* standard input, which opens it and imports the repository's artifact    *)
(* when there is none; `goldeneye ui', which opens it when it is needed;   *)
(* their indexes of repositories, the jobs of POST /api/index in slots and *)
(* those of MCP and of the watcher without; the artifacts that indexes     *)
(* export; and `goldeneye artifact', which exports and imports them.       *)
(*                                                                         *)
(* The content of a database is the set of commits in it, and so is that   *)
(* of an artifact.  A connection keeps the file it opened when the path    *)
(* gets another.  A step is one call on the file system or one             *)
(* transaction; the two renames of an import are one step.  A host is one  *)
(* process after another; its threads are those of the process.            *)
(***************************************************************************)
EXTENDS Naturals, Sequences, FiniteSets

CONSTANTS Host,           \* processes
          Thread, HostOf, \* their threads
          Server,         \* those that run `goldeneye ui'
          Root,           \* repositories
          Home,           \* the one the processes are started in
          Shared,         \* those for which artifacts are asked
          MaxIndexJobs,
          MaxBegun,       \* bounds of what is begun in all,
          MaxBusy,        \* and of how much of it at a time,
          MaxCommit,      \* of the commits and
          MaxFailure,     \* of the crashes and I/O errors
          NoFile

ASSUME JobsAssumption ==
    /\ HostOf \in [Thread -> Host] /\ Server \subseteq Host /\ Home \in Root
    /\ Shared \subseteq Root
    /\ MaxIndexJobs \in Nat \ {0}
    /\ {MaxBegun, MaxBusy, MaxCommit, MaxFailure} \subseteq Nat
    /\ \A commits \in SUBSET (0 .. MaxCommit) : commits # NoFile

VARIABLES
    db,         \* the database at the path: its commits, or NoFile
    artifact,   \* each repository's artifact file and
    metadata,   \* its metadata: the snapshot they are of, or NoFile
    conn,       \* what each process's edit service has open: "none", the file
                \* at the "path", or one that was "replaced" there
    jobs,       \* the slots of its server
    pc, task,   \* what each thread does
    commits,    \* how many there were, and
    acked,      \* those since `artifact import' was last run
    clashed,    \* an import met another one, or a database in use
    torn,       \* repositories whose pair of files an export left in doubt
    begun, failures

files == <<db, artifact, metadata>>
server == <<conn, jobs>>
ghost == <<commits, acked, clashed, torn>>
vars == <<files, server, pc, task, ghost, begun, failures>>

Foreign == 0      \* the commit in the artifact that came with the repository

\* `seen' is the content of the file that it works on; `alone' says that no other
\* thread exports the repository since it began to.
Task(kind, root, slot) ==
    [kind |-> kind, root |-> root, slot |-> slot, seen |-> NoFile, conn |-> "none",
     alone |-> TRUE]
NoTask == Task("none", Home, 0)

Exporting == {"writeartifact", "writemetadata"}
Importing == {"readartifact", "install"}

At(t, label) == pc[t] = label
To(t, label) == pc' = [pc EXCEPT ![t] = label]
Sees(t, x) == task' = [task EXCEPT ![t].seen = x]

\* The thread goes on with its task; when it is done and has nobody to tell, it stops.
Goes(t, label, new) ==
    LET ends == label \in {"done", "error"} /\ new.slot = 0
    IN /\ To(t, IF ends THEN "idle" ELSE label)
       /\ task' = [task EXCEPT ![t] = IF ends THEN NoTask ELSE new]

\* The bounds of what is begun.
Counted ==
    /\ begun < MaxBegun /\ begun' = begun + 1
    /\ Cardinality({t \in Thread : ~At(t, "idle")}) < MaxBusy

\* A thread gets something to do.  Idle threads are alike, so it is always the same.
Begin(t, label, new) ==
    /\ At(t, "idle") /\ Counted
    /\ t = CHOOSE u \in Thread : HostOf[u] = HostOf[t] /\ At(u, "idle")
    /\ To(t, label) /\ task' = [task EXCEPT ![t] = new]

ArtifactExists(r) == artifact[r] # NoFile /\ metadata[r] # NoFile

\* An I/O error or a crash.
Fault == failures < MaxFailure /\ failures' = failures + 1

-----------------------------------------------------------------------------
\* A process that has just begun, and does not serve HTTP.
New(h) ==
    /\ h \notin Server /\ conn[h] = "none"
    /\ \A t \in Thread : HostOf[t] = h => At(t, "idle")

\* Services::open.
Open(t) ==
    /\ New(HostOf[t]) /\ Begin(t, "check", Task("open", Home, 0))
    /\ UNCHANGED <<files, server, ghost, failures>>

\* Mutant: a job always gets a slot of its own.
FreeSlotsNew(h, root) ==
    IF \E s \in DOMAIN jobs[h] : jobs[h][s] = [status |-> "indexing", root |-> root]
    THEN {}
    ELSE {Len(jobs[h]) + 1}

\* Mutant: only the slots are looked at, not what is being indexed.
FreeSlotsAnyRoot(h, root) ==
    {s \in 1 .. Len(jobs[h]) + 1 :
        /\ s <= MaxIndexJobs
        /\ s <= Len(jobs[h]) => jobs[h][s].status # "indexing"}

\* reserve_index_job: refused while the repository is being indexed, else the
\* first slot that is not indexing, else a new one.
FreeSlots(h, root) ==
    IF \E s \in DOMAIN jobs[h] : jobs[h][s] = [status |-> "indexing", root |-> root]
    THEN {}
    ELSE {s \in 1 .. Len(jobs[h]) + 1 :
            /\ s <= MaxIndexJobs
            /\ s <= Len(jobs[h]) => jobs[h][s].status # "indexing"}

Reserve(h, root, slot) ==
    /\ h \in Server
    /\ \A s \in FreeSlots(h, root) : slot <= s
    /\ jobs' = [jobs EXCEPT ![h] =
                  [s \in DOMAIN @ \cup {slot} |->
                     IF s = slot THEN [status |-> "indexing", root |-> root]
                                 ELSE @[s]]]
    /\ UNCHANGED <<files, conn, ghost>>

\* POST /api/index reserves a slot, then starts the job's thread.
HandleIndex(t) ==
    \E root \in Root : \E slot \in FreeSlots(HostOf[t], root) :
       /\ Begin(t, "check", Task("index", root, slot))
       /\ Reserve(HostOf[t], root, slot)
       /\ UNCHANGED failures

\* The thread cannot be started: the slot stays as it is.
SpawnFails(h) ==
    /\ \E root \in Root : \E slot \in FreeSlots(h, root) : Reserve(h, root, slot)
    /\ Fault
    /\ UNCHANGED <<pc, task>>

\* MCP's index_repository, over standard input or POST /rpc, and the watcher's:
\* without a slot, whatever the process's jobs do.
IndexUnreserved(t) ==
    /\ HostOf[t] \in Server \/ conn[HostOf[t]] # "none"
    /\ \E root \in Root : Begin(t, "check", Task("index", root, 0))
    /\ UNCHANGED <<files, server, ghost, failures>>

\* `goldeneye artifact': an import looks for the artifact only.
ArtifactCommand(t) ==
    /\ New(HostOf[t])
    /\ \E r \in Root :
          \/ r \in Shared /\ Begin(t, "snapshot", Task("export", r, 0))
          \/ /\ ArtifactExists(r)
             /\ Begin(t, "readartifact",
                      [Task("import", r, 0) EXCEPT !.seen = metadata[r]])
    /\ UNCHANGED <<files, server, ghost, failures>>

-----------------------------------------------------------------------------
\* Importing.  Except for the command its errors are ignored: the database is then
\* made anew.

Command(t) == task[t].kind = "import"

\* Mutant: the artifact is preferred to the database.
CheckArtifactOnly(t) ==
    LET r == task[t].root
    IN /\ At(t, "check")
       /\ IF ArtifactExists(r)
          THEN Sees(t, metadata[r]) /\ To(t, "readartifact")
          ELSE UNCHANGED task /\ To(t, "open")
       /\ UNCHANGED <<files, server, ghost, failures>>

Check(t) ==
    LET r == task[t].root
    IN /\ At(t, "check")
       /\ IF db = NoFile /\ ArtifactExists(r)
          THEN Sees(t, metadata[r]) /\ To(t, "readartifact")
          ELSE UNCHANGED task /\ To(t, "open")
       /\ UNCHANGED <<files, server, ghost, failures>>

\* The artifact must be the one the metadata describes.
ReadArtifact(t) ==
    /\ At(t, "readartifact")
    /\ Goes(t, IF artifact[task[t].root] = task[t].seen THEN "install"
               ELSE IF Command(t) THEN "error" ELSE "open", task[t])
    /\ UNCHANGED <<files, server, ghost, failures>>

\* The threads that found no database and import one.
Importers == {t \in Thread : pc[t] \in Importing /\ ~Command(t)}

InUse ==
    \/ \E h \in Host : conn[h] = "path"
    \/ \E u \in Thread : task[u].conn = "path"

Moved(c) == IF c = "path" THEN "replaced" ELSE c

\* Another file at the path, or none: the connections keep the one they have.
Replace == conn' = [h \in Host |-> Moved(conn[h])]

\* The file becomes the database, whatever is there by now; what was committed there
\* is given up when the command is used.  If that fails, a database that was there
\* stays, without what it had only in its write-ahead log, or stays moved away.
Install(t) ==
    LET next(moved) == [u \in Thread |->
                          IF u = t /\ Command(t) THEN NoTask
                          ELSE [task[u] EXCEPT !.conn = IF moved THEN Moved(@) ELSE @,
                                               !.seen = IF u = t THEN NoFile ELSE @]]
    IN /\ At(t, "install") /\ To(t, IF Command(t) THEN "idle" ELSE "open")
       /\ \/ /\ db' = task[t].seen /\ Replace /\ task' = next(TRUE)
             /\ acked' = IF Command(t) THEN {} ELSE acked
             /\ clashed' = (clashed \/ Importers \ {t} # {} \/ (Command(t) /\ InUse))
             /\ UNCHANGED failures
          \/ /\ Fault /\ UNCHANGED acked
             /\ clashed' = (clashed \/ (Command(t) /\ db # NoFile))
             /\ \/ /\ UNCHANGED conn /\ task' = next(FALSE)
                   /\ IF db = NoFile THEN UNCHANGED db
                                     ELSE \E kept \in SUBSET db : db' = kept
                \/ db # NoFile /\ db' = NoFile /\ Replace /\ task' = next(TRUE)
       /\ UNCHANGED <<artifact, metadata, jobs, commits, torn>>

-----------------------------------------------------------------------------
\* prepare_database: SQLite makes the file when there is none.
PrepareDatabase ==
    IF db = NoFile THEN db' = {} /\ clashed' = (clashed \/ Importers # {})
                   ELSE UNCHANGED <<db, clashed>>

OpenStore(t) ==
    LET h == HostOf[t]
    IN /\ At(t, "open") /\ PrepareDatabase
       /\ IF task[t].kind = "open"
          THEN /\ To(t, "idle") /\ task' = [task EXCEPT ![t] = NoTask]
               /\ conn' = [conn EXCEPT ![h] = "path"]
          ELSE /\ To(t, "commit") /\ UNCHANGED conn
               /\ task' = [task EXCEPT ![t].conn = "path", ![t].seen = NoFile]
       /\ UNCHANGED <<artifact, metadata, jobs, commits, acked, torn, failures>>

\* The first use of the edit service with `goldeneye ui', which imports nothing.
Connect(h) ==
    /\ h \in Server /\ conn[h] = "none" /\ Counted /\ PrepareDatabase
    /\ conn' = [conn EXCEPT ![h] = "path"]
    /\ UNCHANGED <<artifact, metadata, jobs, pc, task, commits, acked, torn, failures>>

\* A transaction, through a connection.
Commits(c) ==
    /\ commits < MaxCommit
    /\ commits' = commits + 1
    /\ acked' = acked \cup {commits'}
    /\ db' = IF c = "path" THEN db \cup {commits'} ELSE db
    /\ UNCHANGED <<artifact, metadata, server, clashed, torn, failures>>

\* An edit, through the process's connection.
Edit(h) ==
    /\ conn[h] # "none" /\ Commits(conn[h])
    /\ UNCHANGED <<pc, task>>

\* index_repository, which commits unless nothing changed; the artifact is written
\* when asked for or when there is one.
IndexRepository(t) ==
    /\ At(t, "commit")
    /\ Commits(task[t].conn) \/ UNCHANGED <<files, server, ghost, failures>>
    /\ \E persistence \in {FALSE, task[t].root \in Shared} :
          Goes(t, IF persistence \/ ArtifactExists(task[t].root)
                  THEN "snapshot" ELSE "done", [task[t] EXCEPT !.conn = "none"])

\* An error on the way; nothing of this step is done.
Fails(t) ==
    /\ pc[t] \in {"check", "open", "commit", "snapshot", "writeartifact"}
    /\ At(t, "check") => task[t].kind = "index"
    /\ Goes(t, "error", [task[t] EXCEPT !.conn = "none", !.seen = NoFile])
    /\ UNCHANGED <<files, server, ghost, failures>>

-----------------------------------------------------------------------------
\* Exporting: the snapshot is of the file that is at the path by now.
Snapshot(t) ==
    LET r == task[t].root
        others == {u \in Thread \ {t} : pc[u] \in Exporting /\ task[u].root = r}
    IN /\ At(t, "snapshot") /\ db # NoFile
       /\ To(t, "writeartifact")
       /\ torn' = IF others = {} THEN torn ELSE torn \cup {r}
       /\ task' = [u \in Thread |->
                      CASE u = t -> [task[u] EXCEPT !.seen = db, !.alone = others = {}]
                        [] u \in others -> [task[u] EXCEPT !.alone = FALSE]
                        [] OTHER -> task[u]]
       /\ UNCHANGED <<files, server, commits, acked, clashed, failures>>

WriteArtifact(t) ==
    /\ At(t, "writeartifact") /\ To(t, "writemetadata")
    /\ artifact' = [artifact EXCEPT ![task[t].root] = task[t].seen]
    /\ UNCHANGED <<db, metadata, server, task, ghost, failures>>

\* The metadata is written; an error may still follow.
MetadataWritten(t) ==
    LET r == task[t].root
    IN /\ metadata' = [metadata EXCEPT ![r] = task[t].seen]
       /\ torn' = IF task[t].alone THEN torn \ {r} ELSE torn
       /\ \E end \in {"done", "error"} : Goes(t, end, [task[t] EXCEPT !.seen = NoFile])
       /\ UNCHANGED <<artifact, failures>>

\* Mutant: the artifact stays when its metadata cannot be written.
WriteMetadataKeeping(t) ==
    /\ At(t, "writemetadata")
    /\ \/ MetadataWritten(t)
       \/ /\ Fault /\ Goes(t, "error", [task[t] EXCEPT !.seen = NoFile])
          /\ UNCHANGED <<artifact, metadata, torn>>
    /\ UNCHANGED <<db, server, commits, acked, clashed>>

\* Without its metadata the artifact is removed, if it can be.
WriteMetadata(t) ==
    LET r == task[t].root
    IN /\ At(t, "writemetadata")
       /\ \/ MetadataWritten(t)
          \/ /\ Fault /\ Goes(t, "error", [task[t] EXCEPT !.seen = NoFile])
             /\ \/ artifact' = [artifact EXCEPT ![r] = NoFile] /\ UNCHANGED torn
                \/ torn' = torn \cup {r} /\ UNCHANGED artifact
             /\ UNCHANGED metadata
       /\ UNCHANGED <<db, server, commits, acked, clashed>>

\* Mutant: a job that fails leaves its slot as it is.
FinishDone(t) ==
    /\ pc[t] \in {"done", "error"} /\ To(t, "idle")
    /\ jobs' = [jobs EXCEPT ![HostOf[t]][task[t].slot].status =
                  IF At(t, "done") THEN "done" ELSE @]
    /\ task' = [task EXCEPT ![t] = NoTask]
    /\ UNCHANGED <<files, conn, ghost, failures>>

\* update_index_job.
Finish(t) ==
    /\ pc[t] \in {"done", "error"} /\ To(t, "idle")
    /\ jobs' = [jobs EXCEPT ![HostOf[t]][task[t].slot].status = pc[t]]
    /\ task' = [task EXCEPT ![t] = NoTask]
    /\ UNCHANGED <<files, conn, ghost, failures>>

-----------------------------------------------------------------------------
\* Standard input ends; the process opens the database once more, to checkpoint it.
Exit(h) ==
    /\ h \notin Server /\ conn[h] # "none"
    /\ \A t \in Thread : HostOf[t] = h => At(t, "idle")
    /\ PrepareDatabase
    /\ conn' = [conn EXCEPT ![h] = "none"]
    /\ UNCHANGED <<artifact, metadata, jobs, pc, task, commits, acked, torn, failures>>

\* A process dies between any two steps; its slots are gone with it.
Crash(h) ==
    LET own == {t \in Thread : HostOf[t] = h}
    IN /\ Fault
       /\ conn' = [conn EXCEPT ![h] = "none"] /\ jobs' = [jobs EXCEPT ![h] = <<>>]
       /\ pc' = [t \in Thread |-> IF t \in own THEN "idle" ELSE pc[t]]
       /\ task' = [t \in Thread |-> IF t \in own THEN NoTask ELSE task[t]]
       /\ <<conn, jobs, pc>>' # <<conn, jobs, pc>>
       /\ torn' = torn \cup {task[t].root : t \in {u \in own : pc[u] \in Exporting}}
       /\ UNCHANGED <<files, commits, acked, clashed>>

Init ==
    /\ db \in {NoFile, {}}
    /\ \E came \in {NoFile, {Foreign}} :
          artifact = [r \in Root |-> IF r = Home THEN came ELSE NoFile]
    /\ metadata = artifact
    /\ conn = [h \in Host |-> "none"] /\ jobs = [h \in Host |-> <<>>]
    /\ pc = [t \in Thread |-> "idle"] /\ task = [t \in Thread |-> NoTask]
    /\ commits = 0 /\ acked = {} /\ clashed = FALSE /\ torn = {}
    /\ begun = 0 /\ failures = 0

Step(t) ==
    /\ \/ Check(t) \/ ReadArtifact(t) \/ Install(t) \/ OpenStore(t)
       \/ IndexRepository(t) \/ Fails(t)
       \/ Snapshot(t) \/ WriteArtifact(t) \/ WriteMetadata(t) \/ Finish(t)
    /\ UNCHANGED begun

Next ==
    \/ \E t \in Thread : \/ Open(t) \/ ArtifactCommand(t)
                         \/ HandleIndex(t) \/ IndexUnreserved(t) \/ Step(t)
    \/ \E h \in Host : \/ Connect(h)
                       \/ /\ SpawnFails(h) \/ Edit(h) \/ Exit(h) \/ Crash(h)
                          /\ UNCHANGED begun

Spec == Init /\ [][Next]_vars

\* A thread that runs goes on.
FairSpec == Spec /\ \A t \in Thread : WF_vars(Step(t))

-----------------------------------------------------------------------------
\* Properties.

Commit == Foreign .. MaxCommit
Content == SUBSET Commit

TypeOK ==
    /\ db \in Content \cup {NoFile}
    /\ artifact \in [Root -> Content \cup {NoFile}]
    /\ metadata \in [Root -> Content \cup {NoFile}]
    /\ conn \in [Host -> {"none", "path", "replaced"}]
    /\ \A h \in Host : DOMAIN jobs[h] \in {1 .. n : n \in 0 .. MaxIndexJobs}
    /\ pc \in [Thread -> {"idle", "check", "open", "commit", "snapshot", "done",
                          "error"} \cup Importing \cup Exporting]
    /\ \A t \in Thread : task[t].root \in Root /\ task[t].slot \in 0 .. MaxIndexJobs
    /\ commits \in 0 .. MaxCommit /\ acked \subseteq 1 .. commits
    /\ clashed \in BOOLEAN /\ torn \subseteq Root

\* A job reports to the slot that shows it, and to no other job's, however slots
\* are reused; no two jobs of a process index the same repository.
JobsReportTheirOwn ==
    LET Jobs == {t \in Thread : task[t].slot # 0}
    IN /\ \A t \in Jobs : jobs[HostOf[t]][task[t].slot] =
                             [status |-> "indexing", root |-> task[t].root]
       /\ \A t, u \in Jobs :
             /\ t # u /\ HostOf[t] = HostOf[u]
             => task[t].slot # task[u].slot /\ task[t].root # task[u].root

\* There is one database: every process has the file at the path open, and every
\* commit since the last `artifact import' is in it.  Unless a thread made the
\* database while another, of any process, imported it because there was none, or
\* `artifact import' replaced one that a process had open, or failed to replace one.
OneDatabase ==
    clashed \/ /\ \A h \in Host : conn[h] # "none" => conn[h] = "path" /\ db # NoFile
               /\ acked # {} => db # NoFile /\ acked \subseteq db

\* An artifact and its metadata describe the same snapshot whenever nobody is
\* exporting, unless two exports overlapped, one was cut off by a crash, or one could
\* remove nothing after it failed; the next export that runs alone mends them.
PairAgrees ==
    \A r \in Root :
       \/ r \in torn
       \/ \E t \in Thread : pc[t] \in Exporting /\ task[t].root = r
       \/ NoFile \in {artifact[r], metadata[r]}
       \/ artifact[r] = metadata[r]

\* The slot of a job that runs is free again in the end.
JobsEnd ==
    \A h \in Server, s \in 1 .. MaxIndexJobs :
       (\E t \in Thread : HostOf[t] = h /\ task[t].slot = s)
       ~> s \notin DOMAIN jobs[h] \/ jobs[h][s].status # "indexing"
=============================================================================
