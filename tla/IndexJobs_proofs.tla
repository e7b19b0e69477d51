-------------------------- MODULE IndexJobs_proofs --------------------------
(***************************************************************************)
(* What IndexJobs guarantees for any processes, threads, repositories and  *)
(* bounds.                                                                 *)
(*                                                                         *)
(* The invariant has three parts that do not mix: the slots and the jobs   *)
(* that hold them (JobInv), the database and who has it open (DataInv),    *)
(* and the artifacts and who writes them (PairInv).                        *)
(***************************************************************************)
EXTENDS IndexJobs, TLAPS

File == Content \cup {NoFile}
Conn == {"none", "path", "replaced"}
Kind == {"none", "open", "index", "import", "export"}
TaskType == [kind : Kind, root : Root, slot : 0 .. MaxIndexJobs, seen : File,
             conn : Conn, alone : BOOLEAN]
Job == [status : {"indexing", "done", "error"}, root : Root]
Slots == UNION {[1 .. n -> Job] : n \in 0 .. MaxIndexJobs}

Ended == {"done", "error"}
Labels == {"idle", "check", "open", "commit", "snapshot", "done", "error"}
             \cup Importing \cup Exporting

Types ==
    /\ db \in File
    /\ artifact \in [Root -> File] /\ metadata \in [Root -> File]
    /\ conn \in [Host -> Conn] /\ jobs \in [Host -> Slots]
    /\ pc \in [Thread -> Labels] /\ task \in [Thread -> TaskType]
    /\ commits \in 0 .. MaxCommit /\ acked \in SUBSET (1 .. commits)
    /\ clashed \in BOOLEAN /\ torn \in SUBSET Root

\* Only what has a slot ends with something to report, and the slot is its own.
Has(t) ==
    /\ pc[t] \in Ended => task[t].slot # 0
    /\ task[t].slot # 0 =>
          /\ pc[t] # "idle"
          /\ task[t].slot \in DOMAIN jobs[HostOf[t]]
          /\ jobs[HostOf[t]][task[t].slot] =
                [status |-> "indexing", root |-> task[t].root]

JobInv ==
    /\ \A t \in Thread : Has(t)
    /\ \A t, u \in Thread :
          /\ t # u /\ HostOf[t] = HostOf[u]
          /\ task[t].slot # 0 /\ task[u].slot # 0
          => task[t].slot # task[u].slot /\ task[t].root # task[u].root

\* The path has a database once somebody has it open.  Whoever imports one because
\* there is none is right until it installs it, unless something clashed.
DataInv ==
    /\ \A t \in Thread : pc[t] \in Importing => task[t].seen # NoFile
    /\ \A h \in Host : conn[h] = "path" => db # NoFile
    /\ \A t \in Thread : task[t].conn = "path" => db # NoFile
    /\ clashed \/ /\ \A h \in Host : conn[h] # "replaced"
                  /\ \A t \in Thread :
                        /\ task[t].conn # "replaced"
                        /\ pc[t] = "commit" => task[t].conn = "path"
                        /\ pc[t] \in Importing /\ ~Command(t) => db = NoFile
                  /\ IF db = NoFile THEN acked = {} ELSE acked \subseteq db

Exports(t, r) == pc[t] \in Exporting /\ task[t].root = r

Agrees(r) == NoFile \in {artifact[r], metadata[r]} \/ artifact[r] = metadata[r]

\* Who exports a repository alone has written the artifact before it writes the
\* metadata.  Nobody who exports one that is not in doubt has company, and until it
\* writes the two files agree.
PairInv ==
    \A r \in Root :
       /\ \A t, u \in Thread :
             Exports(t, r) /\ Exports(u, r) /\ task[t].alone => t = u
       /\ \A t \in Thread :
             Exports(t, r) /\ task[t].alone /\ pc[t] = "writemetadata"
             => artifact[r] = task[t].seen
       /\ r \notin torn =>
             /\ \A t \in Thread : Exports(t, r) => task[t].alone
             /\ (\A t \in Thread : Exports(t, r) => pc[t] = "writeartifact") => Agrees(r)

IInv == Types /\ JobInv /\ DataInv /\ PairInv

-----------------------------------------------------------------------------
(* The values.                                                             *)

LEMMA FileFacts ==
    /\ NoFile \notin Content /\ {} \in Content
    /\ \A f \in Content : f # NoFile /\ SUBSET f \subseteq Content
<1>1. NoFile \notin Content
  BY JobsAssumption DEF Content, Commit, Foreign
<1>2. QED
  BY <1>1 DEF Content

LEMMA TaskFields ==
    ASSUME Types, NEW t \in Thread
    PROVE  /\ task[t] \in TaskType /\ task[t].root \in Root /\ task[t].kind \in Kind
           /\ task[t].slot \in 0 .. MaxIndexJobs
           /\ task[t].seen \in File /\ task[t].conn \in Conn
           /\ task[t].alone \in BOOLEAN
BY DEF Types, TaskType

LEMMA NewTask ==
    ASSUME NEW kind \in Kind, NEW root \in Root, NEW slot \in 0 .. MaxIndexJobs
    PROVE  /\ Task(kind, root, slot) \in TaskType
           /\ Task(kind, root, slot).kind = kind
           /\ Task(kind, root, slot).slot = slot
           /\ Task(kind, root, slot).root = root
           /\ Task(kind, root, slot).conn = "none"
BY DEF Task, TaskType, File, Conn

LEMMA NoTaskFields ==
    /\ NoTask \in TaskType /\ NoTask.slot = 0 /\ NoTask.conn = "none"
    /\ NoTask.root = Home
<1>1. "none" \in Kind /\ Home \in Root /\ 0 \in 0 .. MaxIndexJobs
  BY JobsAssumption DEF Kind
<1>2. QED
  BY <1>1, NewTask DEF NoTask

\* A thread looks at a file.
LEMMA SeesFacts ==
    ASSUME Types, NEW t \in Thread, NEW x \in File, Sees(t, x)
    PROVE  /\ task' \in [Thread -> TaskType] /\ task'[t].seen = x
           /\ \A u \in Thread \ {t} : task'[u] = task[u]
           /\ \A u \in Thread : /\ task'[u].slot = task[u].slot
                                /\ task'[u].root = task[u].root
                                /\ task'[u].kind = task[u].kind
                                /\ task'[u].conn = task[u].conn
BY DEF Types, TaskType, Sees

LEMMA ToFacts ==
    ASSUME Types, NEW t \in Thread, NEW label \in Labels, To(t, label)
    PROVE  /\ pc' \in [Thread -> Labels] /\ pc'[t] = label
           /\ \A u \in Thread \ {t} : pc'[u] = pc[u]
BY DEF Types, To

\* A thread goes on, or stops because there is nobody to tell.
LEMMA GoesFacts ==
    ASSUME Types, NEW t \in Thread, NEW label \in Labels, NEW new \in TaskType,
           Goes(t, label, new)
    PROVE  /\ pc' \in [Thread -> Labels] /\ task' \in [Thread -> TaskType]
           /\ \A u \in Thread \ {t} : pc'[u] = pc[u] /\ task'[u] = task[u]
           /\ \/ pc'[t] = "idle" /\ task'[t] = NoTask /\ label \in Ended
              \/ pc'[t] = label /\ task'[t] = new /\ (label \in Ended => new.slot # 0)
<1> DEFINE ends == label \in Ended /\ new.slot = 0
<1>1. /\ To(t, IF ends THEN "idle" ELSE label)
      /\ task' = [task EXCEPT ![t] = IF ends THEN NoTask ELSE new]
  BY Zenon DEF Goes, Ended
<1>2. CASE ends
  <2>1. To(t, "idle") /\ task' = [task EXCEPT ![t] = NoTask]
    BY <1>1, <1>2
  <2>2. "idle" \in Labels
    BY DEF Labels
  <2>3. QED
    BY <1>2, <2>1, <2>2, ToFacts, NoTaskFields DEF Types
<1>3. CASE ~ends
  <2>1. To(t, label) /\ task' = [task EXCEPT ![t] = new]
    BY <1>1, <1>3
  <2>2. QED
    BY <1>3, <2>1, ToFacts DEF Types
<1>4. QED
  BY <1>2, <1>3

-----------------------------------------------------------------------------
(* Steps that leave a part alone.                                          *)

LEMMA JobsQuiet ==
    ASSUME IInv, UNCHANGED jobs,
           \A u \in Thread :
              \/ task'[u].slot = 0 /\ pc'[u] \notin Ended
              \/ /\ task'[u].slot = task[u].slot /\ task'[u].root = task[u].root
                 /\ pc'[u] = "idle" => pc[u] = "idle"
                 /\ pc'[u] \in Ended => task[u].slot # 0 \/ pc'[u] = pc[u]
    PROVE  JobInv'
BY DEF IInv, JobInv, Has

LEMMA DataQuiet ==
    ASSUME IInv, UNCHANGED <<db, acked, clashed>>,
           \A h \in Host : conn'[h] \in {conn[h], "none"},
           \A u \in Thread :
              /\ task'[u].conn \in {task[u].conn, "none"}
              /\ pc'[u] = "commit" => pc[u] = "commit" /\ task'[u].conn = task[u].conn
              /\ pc'[u] \in Importing =>
                    /\ \/ task'[u].kind = "import" \/ db = NoFile
                       \/ pc[u] \in Importing /\ task'[u].kind = task[u].kind
                    /\ task'[u].seen # NoFile
    PROVE  DataInv'
BY DEF IInv, DataInv, Command

LEMMA PairQuiet ==
    ASSUME IInv, UNCHANGED <<artifact, metadata>>, torn \subseteq torn',
           \A u \in Thread :
              /\ pc'[u] \in Exporting => /\ pc'[u] = pc[u]
                                         /\ task'[u].root = task[u].root
                                         /\ task'[u].seen = task[u].seen
                                         /\ task'[u].alone = task[u].alone
              /\ pc[u] = "writemetadata" => pc'[u] = pc[u] \/ task[u].root \in torn'
    PROVE  PairInv'
<1>1. ASSUME NEW u \in Thread, NEW r \in Root, Exports(u, r)'
      PROVE  /\ Exports(u, r) /\ pc'[u] = pc[u]
             /\ task'[u].seen = task[u].seen /\ task'[u].alone = task[u].alone
  BY <1>1 DEF Exports
<1>2. ASSUME NEW r \in Root, r \notin torn',
             \A u \in Thread : Exports(u, r)' => pc'[u] = "writeartifact"
      PROVE  Agrees(r)'
  <2>1. \A u \in Thread : Exports(u, r) => pc[u] = "writeartifact"
    BY <1>2 DEF Exports, Exporting
  <2>2. Agrees(r)
    BY <1>2, <2>1 DEF IInv, PairInv
  <2>3. QED
    BY <2>2 DEF Agrees
<1>3. QED
  BY <1>1, <1>2 DEF IInv, PairInv

-----------------------------------------------------------------------------
(* Threads get something to do.                                            *)

LEMMA BeginFacts ==
    ASSUME Types, NEW t \in Thread, NEW label \in Labels, NEW new \in TaskType,
           Begin(t, label, new)
    PROVE  /\ pc[t] = "idle"
           /\ pc' \in [Thread -> Labels] /\ pc'[t] = label
           /\ task' \in [Thread -> TaskType] /\ task'[t] = new
           /\ \A u \in Thread \ {t} : pc'[u] = pc[u] /\ task'[u] = task[u]
<1>1. pc[t] = "idle" /\ To(t, label) /\ task' = [task EXCEPT ![t] = new]
  BY Zenon DEF Begin, At
<1>2. QED
  BY <1>1, ToFacts DEF Types

\* What is done without a slot.
LEMMA BeginKeepsIInv ==
    ASSUME IInv, NEW t \in Thread, NEW label \in {"check", "snapshot", "readartifact"},
           NEW new \in TaskType, new.slot = 0, new.conn = "none",
           label = "readartifact" => new.kind = "import" /\ new.seen # NoFile,
           Begin(t, label, new), UNCHANGED <<files, server, ghost>>
    PROVE  IInv'
<1>1. UNCHANGED <<db, artifact, metadata, conn, jobs, commits, acked, clashed, torn>>
  BY DEF files, server, ghost
<1>2. /\ pc[t] = "idle"
      /\ pc' \in [Thread -> Labels] /\ pc'[t] = label
      /\ task' \in [Thread -> TaskType] /\ task'[t] = new
      /\ \A u \in Thread \ {t} : pc'[u] = pc[u] /\ task'[u] = task[u]
  BY BeginFacts DEF IInv, Labels, Importing
<1>3. Types'
  BY <1>1, <1>2 DEF IInv, Types
<1>4. JobInv'
  BY <1>1, <1>2, JobsQuiet DEF Ended
<1>5. DataInv'
  <2>1. \A u \in Thread : pc[u] \in Importing => task[u].seen # NoFile
    BY DEF IInv, DataInv
  <2>2. QED
    BY <1>1, <1>2, <2>1, DataQuiet DEF Importing
<1>6. PairInv'
  BY <1>1, <1>2, PairQuiet DEF Exporting
<1>7. QED
  BY <1>3, <1>4, <1>5, <1>6 DEF IInv

LEMMA OpenKeepsIInv ==
    ASSUME IInv, NEW t \in Thread, Open(t)
    PROVE  IInv'
<1> DEFINE new == Task("open", Home, 0)
<1>1. Begin(t, "check", new) /\ UNCHANGED <<files, server, ghost>>
  BY Zenon DEF Open
<1>2. "open" \in Kind /\ Home \in Root /\ 0 \in 0 .. MaxIndexJobs
  BY JobsAssumption DEF Kind
<1>3. new \in TaskType /\ new.slot = 0 /\ new.conn = "none"
  BY <1>2, NewTask
<1> HIDE DEF new
<1>4. QED
  BY <1>1, <1>3, BeginKeepsIInv

LEMMA IndexUnreservedKeepsIInv ==
    ASSUME IInv, NEW t \in Thread, IndexUnreserved(t)
    PROVE  IInv'
<1>1. PICK root \in Root : Begin(t, "check", Task("index", root, 0))
  BY Zenon DEF IndexUnreserved
<1> DEFINE new == Task("index", root, 0)
<1>2. UNCHANGED <<files, server, ghost>>
  BY DEF IndexUnreserved
<1>3. "index" \in Kind /\ 0 \in 0 .. MaxIndexJobs
  BY JobsAssumption DEF Kind
<1>4. new \in TaskType /\ new.slot = 0 /\ new.conn = "none"
  BY <1>3, NewTask
<1>5. Begin(t, "check", new)
  BY <1>1
<1> HIDE DEF new
<1>6. QED
  BY <1>2, <1>4, <1>5, BeginKeepsIInv

LEMMA ArtifactCommandKeepsIInv ==
    ASSUME IInv, NEW t \in Thread, ArtifactCommand(t)
    PROVE  IInv'
<1>1. UNCHANGED <<files, server, ghost>>
  BY DEF ArtifactCommand
<1>2. PICK r \in Root :
         \/ Begin(t, "snapshot", Task("export", r, 0))
         \/ /\ ArtifactExists(r)
            /\ Begin(t, "readartifact", [Task("import", r, 0) EXCEPT !.seen = metadata[r]])
  BY Zenon DEF ArtifactCommand
<1>3. {"export", "import"} \subseteq Kind /\ 0 \in 0 .. MaxIndexJobs
  BY JobsAssumption DEF Kind
<1>4. CASE Begin(t, "snapshot", Task("export", r, 0))
  <2> DEFINE new == Task("export", r, 0)
  <2>1. new \in TaskType /\ new.slot = 0 /\ new.conn = "none"
    BY <1>3, NewTask
  <2>2. Begin(t, "snapshot", new)
    BY <1>4
  <2> HIDE DEF new
  <2>3. QED
    BY <1>1, <2>1, <2>2, BeginKeepsIInv
<1>5. CASE /\ ArtifactExists(r)
           /\ Begin(t, "readartifact", [Task("import", r, 0) EXCEPT !.seen = metadata[r]])
  <2> DEFINE old == Task("import", r, 0)
             new == [old EXCEPT !.seen = metadata[r]]
  <2>1. Begin(t, "readartifact", new)
    BY <1>5
  <2>2. /\ old \in TaskType /\ old.slot = 0 /\ old.conn = "none"
        /\ old.kind = "import"
    BY <1>3, NewTask
  <2>3. metadata[r] \in File /\ metadata[r] # NoFile
    BY <1>5 DEF ArtifactExists, IInv, Types
  <2> HIDE DEF old
  <2>4. /\ new \in TaskType /\ new.slot = 0 /\ new.conn = "none"
        /\ new.kind = "import" /\ new.seen # NoFile
    BY <2>2, <2>3 DEF TaskType
  <2> HIDE DEF new
  <2>5. QED
    BY <1>1, <2>1, <2>4, BeginKeepsIInv
<1>6. QED
  BY <1>2, <1>4, <1>5

\* A slot is reserved: the server's slots stay slots, and those of running jobs
\* stay theirs.
LEMMA ReserveFacts ==
    ASSUME IInv, NEW h \in Host, NEW root \in Root,
           NEW slot \in FreeSlots(h, root), Reserve(h, root, slot)
    PROVE  /\ jobs' \in [Host -> Slots]
           /\ slot \in (1 .. MaxIndexJobs) \cap DOMAIN jobs'[h]
           /\ jobs'[h][slot] = [status |-> "indexing", root |-> root]
           /\ \A g \in Host \ {h} : jobs'[g] = jobs[g]
           /\ \A s \in DOMAIN jobs[h] \ {slot} :
                 s \in DOMAIN jobs'[h] /\ jobs'[h][s] = jobs[h][s]
           /\ \A s \in DOMAIN jobs[h] :
                 jobs[h][s].status = "indexing" =>
                    s # slot /\ jobs[h][s] # [status |-> "indexing", root |-> root]
<1>1. PICK n \in 0 .. MaxIndexJobs : jobs[h] \in [1 .. n -> Job]
  BY DEF IInv, Types, Slots
<1>2. DOMAIN jobs[h] = 1 .. n /\ Len(jobs[h]) = n
  <2>1. n \in Nat
    BY JobsAssumption
  <2>2. jobs[h] \in Seq(Job)
    BY <1>1, <2>1
  <2>3. QED
    BY <1>1, <2>1, <2>2
<1>3. /\ ~ \E s \in 1 .. n : jobs[h][s] = [status |-> "indexing", root |-> root]
      /\ slot \in 1 .. n + 1 /\ slot <= MaxIndexJobs
      /\ slot <= n => jobs[h][slot].status # "indexing"
  BY <1>2, Zenon DEF FreeSlots
<1>4. PICK m \in 0 .. MaxIndexJobs : 1 .. m = (1 .. n) \cup {slot}
  <2>1. CASE slot <= n
    BY <2>1, <1>3, JobsAssumption
  <2>2. CASE ~(slot <= n)
    <3>1. slot = n + 1 /\ n + 1 \in 0 .. MaxIndexJobs
      BY <2>2, <1>3, JobsAssumption
    <3>2. 1 .. n + 1 = (1 .. n) \cup {slot}
      BY <3>1
    <3>3. QED
      BY <3>1, <3>2
  <2>3. QED
    BY <2>1, <2>2
<1>5. PICK f : f = [s \in 1 .. m |-> IF s = slot THEN [status |-> "indexing", root |-> root]
                                                ELSE jobs[h][s]]
  OBVIOUS
<1>6. jobs' = [jobs EXCEPT ![h] = f]
  BY <1>2, <1>4, <1>5, Zenon DEF Reserve
<1>7. [status |-> "indexing", root |-> root] \in Job
  BY DEF Job
<1>8. f \in [1 .. m -> Job]
  BY <1>1, <1>4, <1>5, <1>7
<1>9. f \in Slots
  BY <1>4, <1>8 DEF Slots
<1>10. jobs \in [Host -> Slots]
  BY DEF IInv, Types
<1>11. jobs' \in [Host -> Slots] /\ jobs'[h] = f /\ \A g \in Host \ {h} : jobs'[g] = jobs[g]
  BY <1>6, <1>9, <1>10
<1>12. slot \in 1 .. m /\ f[slot] = [status |-> "indexing", root |-> root]
  BY <1>4, <1>5
<1>13. \A s \in 1 .. n : s \in 1 .. m /\ (s # slot => f[s] = jobs[h][s])
  BY <1>4, <1>5
<1>14. DOMAIN f = 1 .. m
  BY <1>5
<1>15. slot \in 1 .. MaxIndexJobs
  BY <1>3, JobsAssumption
<1>16. ASSUME NEW s \in 1 .. n, jobs[h][s].status = "indexing"
       PROVE  s # slot /\ jobs[h][s] # [status |-> "indexing", root |-> root]
  <2>1. s = slot => slot <= n
    OBVIOUS
  <2>2. QED
    BY <1>3, <1>16, <2>1
<1>17. QED
  BY <1>2, <1>11, <1>12, <1>13, <1>14, <1>15, <1>16

LEMMA ReserveKeepsJobs ==
    ASSUME IInv, NEW h \in Host, NEW root \in Root,
           NEW slot \in FreeSlots(h, root), Reserve(h, root, slot),
           \A u \in Thread :
              \/ task'[u] = task[u] /\ pc'[u] = pc[u]
              \/ /\ HostOf[u] = h /\ task'[u].slot = slot /\ task'[u].root = root
                 /\ pc'[u] # "idle" /\ \A v \in Thread \ {u} : task'[v] = task[v]
    PROVE  JobInv'
<1>1. /\ slot \in (1 .. MaxIndexJobs) \cap DOMAIN jobs'[h]
      /\ jobs'[h][slot] = [status |-> "indexing", root |-> root]
      /\ \A g \in Host \ {h} : jobs'[g] = jobs[g]
      /\ \A s \in DOMAIN jobs[h] \ {slot} :
            s \in DOMAIN jobs'[h] /\ jobs'[h][s] = jobs[h][s]
      /\ \A s \in DOMAIN jobs[h] :
            jobs[h][s].status = "indexing" =>
               s # slot /\ jobs[h][s] # [status |-> "indexing", root |-> root]
  BY ReserveFacts
<1>2. slot # 0
  BY <1>1, JobsAssumption
<1>3. \A u \in Thread : HostOf[u] \in Host
  BY JobsAssumption
<1>4. ASSUME NEW u \in Thread, task[u].slot # 0, HostOf[u] = h
      PROVE  /\ task[u].slot \in DOMAIN jobs[h] /\ task[u].slot # slot
             /\ jobs[h][task[u].slot] = [status |-> "indexing", root |-> task[u].root]
             /\ task[u].root # root
  <2>1. /\ task[u].slot \in DOMAIN jobs[h]
        /\ jobs[h][task[u].slot] = [status |-> "indexing", root |-> task[u].root]
    BY <1>4 DEF IInv, JobInv, Has
  <2>2. jobs[h][task[u].slot].status = "indexing"
    BY <2>1
  <2>3. QED
    BY <1>1, <2>1, <2>2
<1>5. ASSUME NEW u \in Thread
      PROVE  Has(u)'
  <2>1. CASE task'[u] = task[u] /\ pc'[u] = pc[u] /\ HostOf[u] = h
    BY <1>1, <1>4, <2>1 DEF IInv, JobInv, Has
  <2>2. CASE task'[u] = task[u] /\ pc'[u] = pc[u] /\ HostOf[u] # h
    BY <1>1, <1>3, <2>2 DEF IInv, JobInv, Has
  <2>3. CASE /\ HostOf[u] = h /\ task'[u].slot = slot /\ task'[u].root = root
             /\ pc'[u] # "idle"
    BY <1>1, <1>2, <2>3 DEF Has
  <2>4. QED
    BY <2>1, <2>2, <2>3
<1>6. ASSUME NEW u \in Thread, NEW v \in Thread, u # v, HostOf[u] = HostOf[v],
             task'[u].slot # 0, task'[v].slot # 0
      PROVE  task'[u].slot # task'[v].slot /\ task'[u].root # task'[v].root
  <2>1. CASE task'[u] = task[u] /\ task'[v] = task[v]
    BY <1>6, <2>1 DEF IInv, JobInv
  <2>2. CASE task'[u] = task[u] /\ task'[v] # task[v]
    BY <1>4, <1>6, <2>2
  <2>3. CASE task'[u] # task[u]
    BY <1>4, <1>6, <2>3
  <2>4. QED
    BY <2>1, <2>2, <2>3
<1>7. QED
  BY <1>5, <1>6 DEF JobInv

LEMMA HandleIndexKeepsIInv ==
    ASSUME IInv, NEW t \in Thread, HandleIndex(t)
    PROVE  IInv'
<1> DEFINE h == HostOf[t]
<1>1. h \in Host
  BY JobsAssumption
<1>a. PICK root \in Root : \E slot \in FreeSlots(h, root) :
         Begin(t, "check", Task("index", root, slot)) /\ Reserve(h, root, slot)
  BY Zenon DEF HandleIndex
<1>2. PICK slot \in FreeSlots(h, root) :
         Begin(t, "check", Task("index", root, slot)) /\ Reserve(h, root, slot)
  BY <1>a
<1>3. UNCHANGED <<db, artifact, metadata, conn, commits, acked, clashed, torn>>
  BY <1>2 DEF Reserve, files, ghost
<1>4. jobs' \in [Host -> Slots] /\ slot \in 1 .. MaxIndexJobs
  BY <1>1, <1>2, ReserveFacts
<1> DEFINE new == Task("index", root, slot)
<1>5. "index" \in Kind /\ slot \in 0 .. MaxIndexJobs
  BY <1>4, JobsAssumption DEF Kind
<1>6. /\ new \in TaskType /\ new.slot = slot /\ new.root = root
      /\ new.conn = "none"
  BY <1>5, NewTask
<1>7. Begin(t, "check", new)
  BY <1>2
<1> HIDE DEF new
<1>8. /\ pc[t] = "idle"
      /\ pc' \in [Thread -> Labels] /\ pc'[t] = "check"
      /\ task' \in [Thread -> TaskType] /\ task'[t] = new
      /\ \A u \in Thread \ {t} : pc'[u] = pc[u] /\ task'[u] = task[u]
  BY <1>6, <1>7, BeginFacts DEF IInv, Labels
<1>9. Types'
  BY <1>3, <1>4, <1>8 DEF IInv, Types
<1>10. JobInv'
  BY <1>1, <1>2, <1>6, <1>8, ReserveKeepsJobs
<1>11. DataInv'
  <2>1. \A v \in Thread : pc[v] \in Importing => task[v].seen # NoFile
    BY DEF IInv, DataInv
  <2>2. QED
    BY <1>3, <1>6, <1>8, <2>1, DataQuiet DEF Importing
<1>12. PairInv'
  BY <1>3, <1>8, PairQuiet DEF Exporting
<1>13. QED
  BY <1>9, <1>10, <1>11, <1>12 DEF IInv

LEMMA SpawnFailsKeepsIInv ==
    ASSUME IInv, NEW h \in Host, SpawnFails(h)
    PROVE  IInv'
<1>a. PICK root \in Root : \E slot \in FreeSlots(h, root) : Reserve(h, root, slot)
  BY DEF SpawnFails
<1>1. PICK slot \in FreeSlots(h, root) : Reserve(h, root, slot)
  BY <1>a
<1>2. UNCHANGED <<db, artifact, metadata, conn, commits, acked, clashed, torn, pc, task>>
  BY <1>1 DEF Reserve, SpawnFails, files, ghost
<1>3. jobs' \in [Host -> Slots]
  BY <1>1, ReserveFacts
<1>4. Types'
  BY <1>2, <1>3 DEF IInv, Types
<1>5. JobInv'
  BY <1>1, <1>2, ReserveKeepsJobs
<1>6. DataInv' /\ PairInv'
  BY <1>2 DEF IInv, DataInv, Command, PairInv, Exports, Agrees
<1>7. QED
  BY <1>4, <1>5, <1>6 DEF IInv

-----------------------------------------------------------------------------
(* The database is imported or opened.                                     *)

LEMMA CheckKeepsIInv ==
    ASSUME IInv, NEW t \in Thread, Check(t)
    PROVE  IInv'
<1>1. /\ pc[t] = "check"
      /\ UNCHANGED <<db, artifact, metadata, conn, jobs, commits, acked, clashed, torn>>
  BY DEF Check, At, files, server, ghost
<1>2. \A u \in Thread : pc[u] \in Importing => task[u].seen # NoFile
  BY DEF IInv, DataInv
<1>3. task[t].root \in Root
  BY TaskFields DEF IInv
<1>4. CASE db = NoFile /\ ArtifactExists(task[t].root)
  <2>1. PICK x : x = metadata[task[t].root]
    OBVIOUS
  <2>2. x \in File /\ x # NoFile
    BY <1>3, <1>4, <2>1 DEF IInv, Types, ArtifactExists
  <2>3. Sees(t, x) /\ To(t, "readartifact")
    BY <1>4, <2>1 DEF Check
  <2>4. /\ pc' \in [Thread -> Labels] /\ pc'[t] = "readartifact"
        /\ \A u \in Thread \ {t} : pc'[u] = pc[u]
    BY <2>3, ToFacts DEF IInv, Labels, Importing
  <2>5. /\ task' \in [Thread -> TaskType] /\ task'[t].seen = x
        /\ \A u \in Thread \ {t} : task'[u] = task[u]
        /\ \A u \in Thread : /\ task'[u].slot = task[u].slot
                             /\ task'[u].root = task[u].root
                             /\ task'[u].conn = task[u].conn
    BY <2>2, <2>3, SeesFacts DEF IInv
  <2>6. Types'
    BY <1>1, <2>4, <2>5 DEF IInv, Types
  <2>7. JobInv'
    BY <1>1, <2>4, <2>5, JobsQuiet DEF Ended
  <2>8. DataInv'
    BY <1>1, <1>2, <1>4, <2>2, <2>4, <2>5, DataQuiet DEF Importing
  <2>9. PairInv'
    BY <1>1, <2>4, <2>5, PairQuiet DEF Exporting
  <2>10. QED
    BY <2>6, <2>7, <2>8, <2>9 DEF IInv
<1>5. CASE ~(db = NoFile /\ ArtifactExists(task[t].root))
  <2>1. UNCHANGED task /\ To(t, "open")
    BY <1>5 DEF Check
  <2>2. /\ pc' \in [Thread -> Labels] /\ pc'[t] = "open"
        /\ \A u \in Thread \ {t} : pc'[u] = pc[u]
    BY <2>1, ToFacts DEF IInv, Labels
  <2>3. Types'
    BY <1>1, <2>1, <2>2 DEF IInv, Types
  <2>4. JobInv'
    BY <1>1, <2>1, <2>2, JobsQuiet DEF Ended
  <2>5. DataInv'
    BY <1>1, <1>2, <2>1, <2>2, DataQuiet DEF Importing
  <2>6. PairInv'
    BY <1>1, <2>1, <2>2, PairQuiet DEF Exporting
  <2>7. QED
    BY <2>3, <2>4, <2>5, <2>6 DEF IInv
<1>6. QED
  BY <1>4, <1>5

LEMMA ReadArtifactKeepsIInv ==
    ASSUME IInv, NEW t \in Thread, ReadArtifact(t)
    PROVE  IInv'
<1>1. /\ pc[t] = "readartifact"
      /\ UNCHANGED <<db, artifact, metadata, conn, jobs, commits, acked, clashed, torn>>
  BY DEF ReadArtifact, At, files, server, ghost
<1>2. PICK label \in {"install", "error", "open"} : Goes(t, label, task[t])
  BY DEF ReadArtifact
<1>3. /\ pc' \in [Thread -> Labels] /\ task' \in [Thread -> TaskType]
      /\ \A u \in Thread \ {t} : pc'[u] = pc[u] /\ task'[u] = task[u]
      /\ \/ pc'[t] = "idle" /\ task'[t] = NoTask
         \/ pc'[t] = label /\ task'[t] = task[t] /\ (label \in Ended => task[t].slot # 0)
  BY <1>2, GoesFacts, TaskFields DEF IInv, Labels, Importing
<1>4. Types'
  BY <1>1, <1>3 DEF IInv, Types
<1>5. JobInv'
  BY <1>1, <1>2, <1>3, NoTaskFields, JobsQuiet DEF Ended
<1>6. DataInv'
  <2>1. \A u \in Thread : pc[u] \in Importing => task[u].seen # NoFile
    BY DEF IInv, DataInv
  <2>2. QED
    BY <1>1, <1>2, <1>3, <2>1, NoTaskFields, DataQuiet DEF Importing
<1>7. PairInv'
  BY <1>1, <1>2, <1>3, PairQuiet DEF Exporting
<1>8. QED
  BY <1>4, <1>5, <1>6, <1>7 DEF IInv

\* What an import does to a task: its own is finished with the file, and the
\* connections are moved with it when it is.
LEMMA InstallTask ==
    ASSUME Types, NEW t \in Thread, NEW moved \in BOOLEAN,
           task' = [u \in Thread |->
                      IF u = t /\ Command(t) THEN NoTask
                      ELSE [task[u] EXCEPT !.conn = IF moved THEN Moved(@) ELSE @,
                                           !.seen = IF u = t THEN NoFile ELSE @]]
    PROVE  /\ task' \in [Thread -> TaskType]
           /\ Command(t) => task'[t] = NoTask
           /\ \A u \in Thread :
                 \/ u = t /\ Command(t)
                 \/ /\ task'[u].slot = task[u].slot /\ task'[u].root = task[u].root
                    /\ task'[u].kind = task[u].kind /\ task'[u].alone = task[u].alone
                    /\ u # t => task'[u].seen = task[u].seen
                    /\ task'[u].conn = IF moved THEN Moved(task[u].conn)
                                                ELSE task[u].conn
<1>1. ASSUME NEW u \in Thread, ~(u = t /\ Command(t))
      PROVE  /\ task'[u] \in TaskType
             /\ task'[u].slot = task[u].slot /\ task'[u].root = task[u].root
             /\ task'[u].kind = task[u].kind /\ task'[u].alone = task[u].alone
             /\ u # t => task'[u].seen = task[u].seen
             /\ task'[u].conn = IF moved THEN Moved(task[u].conn) ELSE task[u].conn
  <2>1. PICK e : e = task[u]
    OBVIOUS
  <2>2. /\ e \in TaskType
        /\ task'[u] = [e EXCEPT !.conn = IF moved THEN Moved(@) ELSE @,
                                !.seen = IF u = t THEN NoFile ELSE @]
    BY <1>1, <2>1, TaskFields
  <2>3. QED
    BY <2>1, <2>2 DEF TaskType, File, Conn, Moved
<1>2. Command(t) => task'[t] = NoTask
  OBVIOUS
<1>3. \A u \in Thread : task'[u] \in TaskType
  BY <1>1, <1>2, NoTaskFields
<1>4. task' \in [Thread -> TaskType]
  <2>1. DOMAIN task' = Thread /\ task' = [u \in Thread |-> task'[u]]
    OBVIOUS
  <2>2. QED
    BY <1>3, <2>1
<1>5. QED
  BY <1>1, <1>2, <1>4

LEMMA InstallKeepsIInv ==
    ASSUME IInv, NEW t \in Thread, Install(t)
    PROVE  IInv'
<1> DEFINE next(moved) ==
      [u \in Thread |->
         IF u = t /\ Command(t) THEN NoTask
         ELSE [task[u] EXCEPT !.conn = IF moved THEN Moved(@) ELSE @,
                              !.seen = IF u = t THEN NoFile ELSE @]]
<1>1. /\ pc[t] = "install" /\ To(t, IF Command(t) THEN "idle" ELSE "open")
      /\ UNCHANGED <<artifact, metadata, jobs, commits, torn>>
  BY DEF Install, At
<1>2. /\ pc' \in [Thread -> Labels]
      /\ pc'[t] = IF Command(t) THEN "idle" ELSE "open"
      /\ \A u \in Thread \ {t} : pc'[u] = pc[u]
  <2>1. (IF Command(t) THEN "idle" ELSE "open") \in Labels
    BY DEF Labels
  <2>2. QED
    BY <1>1, <2>1, ToFacts DEF IInv
<1>3. /\ \A u \in Thread : pc[u] \in Importing => task[u].seen # NoFile
      /\ clashed \/ Command(t) \/ db = NoFile
  BY <1>1 DEF IInv, DataInv, Importing
<1>4. \/ /\ db' = task[t].seen /\ Replace /\ task' = next(TRUE)
         /\ acked' = IF Command(t) THEN {} ELSE acked
         /\ clashed' = (clashed \/ Importers \ {t} # {} \/ (Command(t) /\ InUse))
      \/ /\ UNCHANGED <<acked, conn>>
         /\ clashed' = (clashed \/ (Command(t) /\ db # NoFile))
         /\ task' = next(FALSE)
         /\ IF db = NoFile THEN UNCHANGED db ELSE db' \in SUBSET db
      \/ /\ UNCHANGED acked
         /\ clashed' = (clashed \/ (Command(t) /\ db # NoFile))
         /\ db # NoFile /\ db' = NoFile /\ Replace /\ task' = next(TRUE)
  BY Zenon DEF Install
<1>5. ASSUME NEW moved \in BOOLEAN, task' = next(moved)
      PROVE  /\ task' \in [Thread -> TaskType]
             /\ Command(t) => task'[t] = NoTask
             /\ \A u \in Thread :
                   \/ u = t /\ Command(t)
                   \/ /\ task'[u].slot = task[u].slot /\ task'[u].root = task[u].root
                      /\ task'[u].kind = task[u].kind /\ task'[u].alone = task[u].alone
                      /\ u # t => task'[u].seen = task[u].seen
                      /\ task'[u].conn = IF moved THEN Moved(task[u].conn)
                                                  ELSE task[u].conn
             /\ JobInv' /\ PairInv'
  <2>1. /\ task' \in [Thread -> TaskType]
        /\ Command(t) => task'[t] = NoTask
        /\ \A u \in Thread :
              \/ u = t /\ Command(t)
              \/ /\ task'[u].slot = task[u].slot /\ task'[u].root = task[u].root
                 /\ task'[u].kind = task[u].kind /\ task'[u].alone = task[u].alone
                 /\ u # t => task'[u].seen = task[u].seen
                 /\ task'[u].conn = IF moved THEN Moved(task[u].conn)
                                             ELSE task[u].conn
    BY <1>5, InstallTask DEF IInv
  <2> HIDE DEF next
  <2>2. JobInv'
    BY <1>1, <1>2, <2>1, NoTaskFields, JobsQuiet DEF Ended
  <2>3. PairInv'
    BY <1>1, <1>2, <2>1, PairQuiet DEF Exporting
  <2>4. QED
    BY <2>1, <2>2, <2>3
<1>6. Replace => /\ conn' \in [Host -> Conn] /\ \A h \in Host : conn'[h] # "path"
                 /\ \A h \in Host : conn[h] = "none" => conn'[h] = "none"
  BY DEF Replace, Moved, IInv, Types, Conn
<1> HIDE DEF next
<1>7. CASE /\ db' = task[t].seen /\ Replace /\ task' = next(TRUE)
           /\ acked' = IF Command(t) THEN {} ELSE acked
           /\ clashed' = (clashed \/ Importers \ {t} # {} \/ (Command(t) /\ InUse))
  <2>1. db' \in File /\ db' # NoFile
    BY <1>1, <1>3, <1>7, TaskFields DEF IInv, Importing
  <2>2. /\ task' \in [Thread -> TaskType] /\ JobInv' /\ PairInv'
        /\ Command(t) => task'[t] = NoTask
        /\ \A u \in Thread :
              \/ u = t /\ Command(t)
              \/ /\ task'[u].kind = task[u].kind
                 /\ u # t => task'[u].seen = task[u].seen
                 /\ task'[u].conn = Moved(task[u].conn)
    BY <1>5, <1>7
  <2>3. /\ conn' \in [Host -> Conn] /\ \A h \in Host : conn'[h] # "path"
        /\ \A h \in Host : conn[h] = "none" => conn'[h] = "none"
    BY <1>6, <1>7
  <2>4. acked' \in SUBSET (1 .. commits) /\ clashed' \in BOOLEAN
    BY <1>7 DEF IInv, Types
  <2>5. Types'
    BY <1>1, <1>2, <2>1, <2>2, <2>3, <2>4 DEF IInv, Types
  <2>6. \A u \in Thread : pc'[u] \in Importing => task'[u].seen # NoFile
    BY <1>2, <1>3, <2>2 DEF Importing
  <2>7. CASE clashed'
    BY <2>1, <2>2, <2>3, <2>5, <2>6, <2>7 DEF DataInv, IInv
  <2>8. CASE ~clashed'
    <3>1. /\ ~clashed /\ (Command(t) => ~InUse)
          /\ \A u \in Thread \ {t} : pc[u] \in Importing => Command(u)
      BY <1>7, <2>8 DEF Importers
    <3>2. /\ \A h \in Host : conn[h] = "none"
          /\ \A u \in Thread : task[u].conn = "none" /\ pc[u] # "commit"
      <4>1. CASE Command(t)
        BY <3>1, <4>1, TaskFields DEF InUse, IInv, Types, DataInv, Conn
      <4>2. CASE ~Command(t)
        BY <1>3, <3>1, <4>2, TaskFields DEF IInv, Types, DataInv, Conn
      <4>3. QED
        BY <4>1, <4>2
    <3>3. acked' = {}
      BY <1>3, <1>7, <3>1 DEF IInv, DataInv
    <3>4. \A h \in Host : conn'[h] = "none"
      BY <2>3, <3>2
    <3>5. \A u \in Thread : /\ task'[u].conn = "none"
                            /\ pc'[u] \in Importing => Command(u)'
      BY <1>2, <2>2, <3>1, <3>2, NoTaskFields DEF Moved, Command, Importing
    <3>6. \A u \in Thread : pc'[u] # "commit"
      BY <1>2, <3>2
    <3>7. DataInv'
      BY <2>1, <2>6, <3>3, <3>4, <3>5, <3>6 DEF DataInv
    <3>8. QED
      BY <2>2, <2>5, <3>7 DEF IInv
  <2>9. QED
    BY <2>7, <2>8
<1>8. CASE /\ UNCHANGED <<acked, conn>>
           /\ clashed' = (clashed \/ (Command(t) /\ db # NoFile))
           /\ task' = next(FALSE)
           /\ IF db = NoFile THEN UNCHANGED db ELSE db' \in SUBSET db
  <2>1. db' \in File /\ (db' = NoFile <=> db = NoFile)
    BY <1>8, FileFacts DEF IInv, Types, File
  <2>2. /\ task' \in [Thread -> TaskType] /\ JobInv' /\ PairInv'
        /\ Command(t) => task'[t] = NoTask
        /\ \A u \in Thread :
              \/ u = t /\ Command(t)
              \/ /\ task'[u].kind = task[u].kind
                 /\ u # t => task'[u].seen = task[u].seen
                 /\ task'[u].conn = task[u].conn
    BY <1>5, <1>8
  <2>3. clashed' \in BOOLEAN
    BY <1>8 DEF IInv, Types
  <2>4. Types'
    BY <1>1, <1>2, <1>8, <2>1, <2>2, <2>3 DEF IInv, Types
  <2>5. \A u \in Thread : pc'[u] \in Importing => task'[u].seen # NoFile
    BY <1>2, <1>3, <2>2 DEF Importing
  <2>6. DataInv'
    <3>1. CASE ~clashed'
      <4>1. db = NoFile /\ UNCHANGED <<db, clashed>>
        BY <1>3, <1>8, <3>1 DEF IInv, Types
      <4>2. QED
        BY <1>1, <1>2, <1>3, <1>8, <2>2, <2>5, <4>1, NoTaskFields, DataQuiet DEF Importing
    <3>2. CASE clashed'
      BY <1>2, <1>8, <2>1, <2>2, <2>5, <3>2, NoTaskFields DEF IInv, DataInv
    <3>3. QED
      BY <3>1, <3>2
  <2>7. QED
    BY <2>2, <2>4, <2>6 DEF IInv
<1>9. CASE /\ UNCHANGED acked
           /\ clashed' = (clashed \/ (Command(t) /\ db # NoFile))
           /\ db # NoFile /\ db' = NoFile /\ Replace /\ task' = next(TRUE)
  <2>1. /\ task' \in [Thread -> TaskType] /\ JobInv' /\ PairInv'
        /\ Command(t) => task'[t] = NoTask
        /\ \A u \in Thread :
              \/ u = t /\ Command(t)
              \/ /\ u # t => task'[u].seen = task[u].seen
                 /\ task'[u].conn = Moved(task[u].conn)
    BY <1>5, <1>9
  <2>2. /\ conn' \in [Host -> Conn] /\ \A h \in Host : conn'[h] # "path"
    BY <1>6, <1>9
  <2>3. clashed' = TRUE /\ db' \in File
    BY <1>3, <1>9 DEF IInv, Types, File
  <2>4. Types'
    BY <1>1, <1>2, <1>9, <2>1, <2>2, <2>3 DEF IInv, Types
  <2>5. \A u \in Thread : pc'[u] \in Importing => task'[u].seen # NoFile
    BY <1>2, <1>3, <2>1 DEF Importing
  <2>6. \A u \in Thread : task'[u].conn # "path"
    BY <2>1, NoTaskFields DEF Moved
  <2>7. QED
    BY <2>1, <2>2, <2>3, <2>4, <2>5, <2>6 DEF IInv, DataInv
<1>10. QED
  BY <1>4, <1>7, <1>8, <1>9

\* SQLite makes the file when there is none: nobody may be importing one.
LEMMA PrepareFacts ==
    ASSUME IInv, PrepareDatabase, UNCHANGED acked
    PROVE  /\ db' \in File /\ db' # NoFile /\ clashed' \in BOOLEAN
           /\ clashed' \/ /\ ~clashed /\ acked \subseteq db'
                          /\ \A u \in Thread : pc[u] \in Importing => Command(u)
<1>1. CASE db = NoFile
  <2>1. db' = {} /\ clashed' = (clashed \/ Importers # {})
    BY <1>1 DEF PrepareDatabase
  <2>2. clashed \/ acked = {}
    BY <1>1 DEF IInv, DataInv
  <2>3. QED
    BY <2>1, <2>2, FileFacts DEF Importers, File, IInv, Types
<1>2. CASE db # NoFile
  <2>1. UNCHANGED <<db, clashed>>
    BY <1>2 DEF PrepareDatabase
  <2>2. QED
    BY <1>2, <2>1 DEF IInv, Types, DataInv
<1>3. QED
  BY <1>1, <1>2

LEMMA OpenStoreKeepsIInv ==
    ASSUME IInv, NEW t \in Thread, OpenStore(t)
    PROVE  IInv'
<1> DEFINE h == HostOf[t]
<1>1. h \in Host
  BY JobsAssumption
<1>2. /\ pc[t] = "open" /\ PrepareDatabase
      /\ UNCHANGED <<artifact, metadata, jobs, commits, acked, torn>>
  BY DEF OpenStore, At
<1>3. /\ db' \in File /\ db' # NoFile /\ clashed' \in BOOLEAN
      /\ clashed' \/ /\ ~clashed /\ acked \subseteq db'
                     /\ \A u \in Thread : pc[u] \in Importing => Command(u)
  BY <1>2, PrepareFacts
<1>4. \A u \in Thread : pc[u] \in Importing => task[u].seen # NoFile
  BY DEF IInv, DataInv
<1>5. CASE task[t].kind = "open"
  <2>1. /\ To(t, "idle") /\ task' = [task EXCEPT ![t] = NoTask]
        /\ conn' = [conn EXCEPT ![h] = "path"]
    BY <1>5 DEF OpenStore
  <2>2. /\ pc' \in [Thread -> Labels] /\ pc'[t] = "idle"
        /\ \A u \in Thread \ {t} : pc'[u] = pc[u]
    BY <2>1, ToFacts DEF IInv, Labels
  <2>3. /\ task' \in [Thread -> TaskType] /\ task'[t] = NoTask
        /\ \A u \in Thread \ {t} : task'[u] = task[u]
    BY <2>1, NoTaskFields DEF IInv, Types
  <2>4. /\ conn' \in [Host -> Conn] /\ conn'[h] = "path"
        /\ \A g \in Host \ {h} : conn'[g] = conn[g]
    BY <1>1, <2>1 DEF IInv, Types, Conn
  <2>5. Types'
    BY <1>2, <1>3, <2>2, <2>3, <2>4 DEF IInv, Types
  <2>6. JobInv'
    BY <1>2, <2>2, <2>3, NoTaskFields, JobsQuiet DEF Ended
  <2>7. PairInv'
    BY <1>2, <2>2, <2>3, PairQuiet DEF Exporting
  <2>8. DataInv'
    BY <1>2, <1>3, <1>4, <2>2, <2>3, <2>4, NoTaskFields
       DEF IInv, DataInv, Importing, Command
  <2>9. QED
    BY <2>5, <2>6, <2>7, <2>8 DEF IInv
<1>6. CASE task[t].kind # "open"
  <2>1. /\ To(t, "commit") /\ UNCHANGED conn
        /\ task' = [task EXCEPT ![t].conn = "path", ![t].seen = NoFile]
    BY <1>6 DEF OpenStore
  <2>2. /\ pc' \in [Thread -> Labels] /\ pc'[t] = "commit"
        /\ \A u \in Thread \ {t} : pc'[u] = pc[u]
    BY <2>1, ToFacts DEF IInv, Labels
  <2>3. PICK e : e = [task[t] EXCEPT !.conn = "path", !.seen = NoFile]
    OBVIOUS
  <2>4. /\ e \in TaskType /\ e.conn = "path"
        /\ e.slot = task[t].slot /\ e.root = task[t].root
    BY <2>3, TaskFields DEF IInv, TaskType, File, Conn
  <2>5. task' = [task EXCEPT ![t] = e]
    BY <2>1, <2>3
  <2>6. /\ task' \in [Thread -> TaskType] /\ task'[t] = e
        /\ \A u \in Thread \ {t} : task'[u] = task[u]
    BY <2>4, <2>5 DEF IInv, Types
  <2>7. Types'
    BY <1>2, <1>3, <2>1, <2>2, <2>6 DEF IInv, Types
  <2>8. JobInv'
    BY <1>2, <2>2, <2>4, <2>6, JobsQuiet DEF Ended
  <2>9. PairInv'
    BY <1>2, <2>2, <2>6, PairQuiet DEF Exporting
  <2>10. DataInv'
    BY <1>2, <1>3, <1>4, <2>1, <2>2, <2>4, <2>6 DEF IInv, DataInv, Importing, Command
  <2>11. QED
    BY <2>7, <2>8, <2>9, <2>10 DEF IInv
<1>7. QED
  BY <1>5, <1>6

LEMMA ConnectKeepsIInv ==
    ASSUME IInv, NEW h \in Host, Connect(h)
    PROVE  IInv'
<1>1. /\ PrepareDatabase /\ conn' = [conn EXCEPT ![h] = "path"]
      /\ UNCHANGED <<artifact, metadata, jobs, pc, task, commits, acked, torn>>
  BY Zenon DEF Connect
<1>2. /\ db' \in File /\ db' # NoFile /\ clashed' \in BOOLEAN
      /\ clashed' \/ /\ ~clashed /\ acked \subseteq db'
                     /\ \A u \in Thread : pc[u] \in Importing => Command(u)
  BY <1>1, PrepareFacts
<1>3. /\ conn' \in [Host -> Conn] /\ conn'[h] = "path"
      /\ \A g \in Host \ {h} : conn'[g] = conn[g]
  BY <1>1 DEF IInv, Types, Conn
<1>4. Types'
  BY <1>1, <1>2, <1>3 DEF IInv, Types
<1>5. JobInv' /\ PairInv'
  BY <1>1 DEF IInv, JobInv, Has, PairInv, Exports, Agrees
<1>6. DataInv'
  BY <1>1, <1>2, <1>3 DEF IInv, DataInv, Command
<1>7. QED
  BY <1>4, <1>5, <1>6 DEF IInv

-----------------------------------------------------------------------------
(* Commits.                                                                *)

LEMMA CommitsKeepData ==
    ASSUME IInv, NEW c \in Conn, c = "path" => db # NoFile,
           clashed \/ c = "path", Commits(c),
           \A u \in Thread : /\ task'[u].conn \in {task[u].conn, "none"}
                             /\ pc'[u] \in Importing \cup {"commit"} =>
                                   pc'[u] = pc[u] /\ task'[u] = task[u]
    PROVE  /\ db' \in File /\ DataInv'
           /\ commits' \in 0 .. MaxCommit /\ acked' \in SUBSET (1 .. commits')
<1>1. PICK commit : /\ commits < MaxCommit /\ commit = commits + 1 /\ commits' = commit
                    /\ acked' = acked \cup {commit}
                    /\ db' = IF c = "path" THEN db \cup {commit} ELSE db
                    /\ UNCHANGED <<conn, clashed>>
  BY DEF Commits, server
<1>2. commit \in Commit /\ commit \in 1 .. commits' /\ commits' \in 0 .. MaxCommit
  BY <1>1, JobsAssumption DEF IInv, Types, Commit, Foreign
<1>3. acked' \in SUBSET (1 .. commits')
  <2>1. 1 .. commits \subseteq 1 .. commits'
    BY <1>1, JobsAssumption DEF IInv, Types
  <2>2. QED
    BY <1>1, <1>2, <2>1 DEF IInv, Types
<1>4. db' \in File /\ (db # NoFile => db' # NoFile)
  <2>1. CASE c = "path"
    <3>1. db \in Content
      BY <2>1 DEF IInv, Types, File
    <3>2. db' \in Content
      BY <1>1, <1>2, <2>1, <3>1 DEF Content
    <3>3. QED
      BY <3>2, FileFacts DEF File
  <2>2. CASE c # "path"
    BY <1>1, <2>2 DEF IInv, Types
  <2>3. QED
    BY <2>1, <2>2
<1>5. ASSUME clashed PROVE DataInv'
  BY <1>1, <1>4, <1>5 DEF IInv, DataInv, Importing
<1>6. ASSUME ~clashed PROVE DataInv'
  <2>1. /\ c = "path" /\ db # NoFile /\ acked \subseteq db
        /\ db' = db \cup {commit}
    BY <1>1, <1>6 DEF IInv, DataInv
  <2>2. acked' \subseteq db'
    BY <1>1, <2>1
  <2>3. QED
    BY <1>1, <1>4, <1>6, <2>1, <2>2 DEF IInv, DataInv, Importing, Command
<1>7. QED
  BY <1>2, <1>3, <1>4, <1>5, <1>6

LEMMA EditKeepsIInv ==
    ASSUME IInv, NEW h \in Host, Edit(h)
    PROVE  IInv'
<1>1. /\ conn[h] \in Conn /\ Commits(conn[h])
      /\ UNCHANGED <<artifact, metadata, conn, jobs, clashed, torn, pc, task>>
  BY DEF Edit, Commits, server, IInv, Types
<1>2. (conn[h] = "path" => db # NoFile) /\ (clashed \/ conn[h] = "path")
  BY <1>1 DEF Edit, IInv, DataInv, Conn
<1>3. /\ db' \in File /\ DataInv'
      /\ commits' \in 0 .. MaxCommit /\ acked' \in SUBSET (1 .. commits')
  BY <1>1, <1>2, CommitsKeepData
<1>4. Types'
  BY <1>1, <1>3 DEF IInv, Types
<1>5. JobInv' /\ PairInv'
  BY <1>1 DEF IInv, JobInv, Has, PairInv, Exports, Agrees
<1>6. QED
  BY <1>3, <1>4, <1>5 DEF IInv

\* A task whose store is closed, and the one of an export that is over.
LEMMA ClosedTask ==
    ASSUME Types, NEW t \in Thread, NEW x \in File
    PROVE  /\ [task[t] EXCEPT !.conn = "none"] \in TaskType
           /\ [task[t] EXCEPT !.conn = "none"].conn = "none"
           /\ [task[t] EXCEPT !.conn = "none"].slot = task[t].slot
           /\ [task[t] EXCEPT !.conn = "none"].root = task[t].root
           /\ [task[t] EXCEPT !.seen = x] \in TaskType
           /\ [task[t] EXCEPT !.seen = x].conn = task[t].conn
           /\ [task[t] EXCEPT !.seen = x].slot = task[t].slot
           /\ [task[t] EXCEPT !.seen = x].root = task[t].root
           /\ [task[t] EXCEPT !.conn = "none", !.seen = x] \in TaskType
           /\ [task[t] EXCEPT !.conn = "none", !.seen = x].conn = "none"
           /\ [task[t] EXCEPT !.conn = "none", !.seen = x].slot = task[t].slot
           /\ [task[t] EXCEPT !.conn = "none", !.seen = x].root = task[t].root
BY TaskFields DEF TaskType, Conn

LEMMA IndexRepositoryKeepsIInv ==
    ASSUME IInv, NEW t \in Thread, IndexRepository(t)
    PROVE  IInv'
<1> DEFINE new == [task[t] EXCEPT !.conn = "none"]
<1>1. /\ pc[t] = "commit"
      /\ Commits(task[t].conn) \/ UNCHANGED <<files, server, ghost, failures>>
      /\ UNCHANGED <<artifact, metadata, conn, jobs, clashed, torn>>
  BY DEF IndexRepository, Commits, files, server, ghost, At
<1>2. PICK label \in {"snapshot", "done"} : Goes(t, label, new)
  BY DEF IndexRepository
<1>3. /\ new \in TaskType /\ new.conn = "none"
      /\ new.slot = task[t].slot /\ new.root = task[t].root
  BY ClosedTask DEF IInv, File
<1> HIDE DEF new
<1>4. /\ pc' \in [Thread -> Labels] /\ task' \in [Thread -> TaskType]
      /\ \A u \in Thread \ {t} : pc'[u] = pc[u] /\ task'[u] = task[u]
      /\ \/ pc'[t] = "idle" /\ task'[t] = NoTask
         \/ pc'[t] = label /\ task'[t] = new /\ (label \in Ended => new.slot # 0)
  BY <1>2, <1>3, GoesFacts DEF IInv, Labels
<1>5. /\ task[t].conn \in Conn /\ (task[t].conn = "path" => db # NoFile)
      /\ clashed \/ task[t].conn = "path"
  BY <1>1, TaskFields DEF IInv, DataInv
<1>6. /\ \A u \in Thread \ {t} : pc'[u] = pc[u] /\ task'[u] = task[u]
      /\ task'[t].conn = "none" /\ pc'[t] \notin Importing \cup {"commit"}
  BY <1>2, <1>3, <1>4, NoTaskFields DEF Importing
<1>7. /\ db' \in File /\ DataInv'
      /\ commits' \in 0 .. MaxCommit /\ acked' \in SUBSET (1 .. commits')
  <2>1. CASE Commits(task[t].conn)
    BY <1>5, <1>6, <2>1, CommitsKeepData
  <2>2. CASE UNCHANGED <<files, server, ghost, failures>>
    <3>1. UNCHANGED <<db, conn, commits, acked, clashed>>
      BY <2>2 DEF files, server, ghost
    <3>2. \A u \in Thread : pc[u] \in Importing => task[u].seen # NoFile
      BY DEF IInv, DataInv
    <3>3. DataInv'
      BY <1>6, <3>1, <3>2, DataQuiet
    <3>4. QED
      BY <3>1, <3>3 DEF IInv, Types
  <2>3. QED
    BY <1>1, <2>1, <2>2
<1>8. Types'
  BY <1>1, <1>4, <1>7 DEF IInv, Types
<1>9. JobInv'
  BY <1>1, <1>2, <1>3, <1>4, NoTaskFields, JobsQuiet DEF Ended
<1>10. PairInv'
  BY <1>1, <1>2, <1>4, PairQuiet DEF Exporting
<1>11. QED
  BY <1>7, <1>8, <1>9, <1>10 DEF IInv

LEMMA FailsKeepsIInv ==
    ASSUME IInv, NEW t \in Thread, Fails(t)
    PROVE  IInv'
<1> DEFINE new == [task[t] EXCEPT !.conn = "none", !.seen = NoFile]
<1>1. /\ pc[t] \in {"check", "open", "commit", "snapshot", "writeartifact"}
      /\ Goes(t, "error", new)
      /\ UNCHANGED <<db, artifact, metadata, conn, jobs, commits, acked, clashed, torn>>
  BY DEF Fails, files, server, ghost
<1>2. /\ new \in TaskType /\ new.conn = "none"
      /\ new.slot = task[t].slot /\ new.root = task[t].root
  BY ClosedTask DEF IInv, File
<1> HIDE DEF new
<1>3. /\ pc' \in [Thread -> Labels] /\ task' \in [Thread -> TaskType]
      /\ \A u \in Thread \ {t} : pc'[u] = pc[u] /\ task'[u] = task[u]
      /\ \/ pc'[t] = "idle" /\ task'[t] = NoTask
         \/ pc'[t] = "error" /\ task'[t] = new /\ new.slot # 0
  BY <1>1, <1>2, GoesFacts DEF IInv, Labels, Ended
<1>4. Types'
  BY <1>1, <1>3 DEF IInv, Types
<1>5. JobInv'
  BY <1>1, <1>2, <1>3, NoTaskFields, JobsQuiet DEF Ended
<1>6. DataInv'
  <2>1. \A u \in Thread : pc[u] \in Importing => task[u].seen # NoFile
    BY DEF IInv, DataInv
  <2>2. QED
    BY <1>1, <1>2, <1>3, <2>1, NoTaskFields, DataQuiet DEF Importing
<1>7. PairInv'
  BY <1>1, <1>3, PairQuiet DEF Exporting
<1>8. QED
  BY <1>4, <1>5, <1>6, <1>7 DEF IInv

-----------------------------------------------------------------------------
(* Exports.                                                                *)

LEMMA SnapshotKeepsIInv ==
    ASSUME IInv, NEW t \in Thread, Snapshot(t)
    PROVE  IInv'
<1> DEFINE root == task[t].root
           others == {u \in Thread \ {t} : Exports(u, root)}
<1>1. /\ pc[t] = "snapshot" /\ db # NoFile /\ To(t, "writeartifact")
      /\ torn' = IF others = {} THEN torn ELSE torn \cup {root}
      /\ task' = [u \in Thread |->
                    CASE u = t -> [task[u] EXCEPT !.seen = db, !.alone = others = {}]
                      [] u \in others -> [task[u] EXCEPT !.alone = FALSE]
                      [] OTHER -> task[u]]
      /\ UNCHANGED <<db, artifact, metadata, conn, jobs, commits, acked, clashed>>
  BY Zenon DEF Snapshot, files, server, At, Exports
<1>2. /\ pc' \in [Thread -> Labels] /\ pc'[t] = "writeartifact"
      /\ \A u \in Thread \ {t} : pc'[u] = pc[u]
  BY <1>1, ToFacts DEF IInv, Labels, Exporting
<1>3. PICK company \in BOOLEAN : company <=> others # {}
  OBVIOUS
<1>4. ASSUME NEW u \in Thread
      PROVE  /\ task'[u] \in TaskType
             /\ task'[u].slot = task[u].slot /\ task'[u].root = task[u].root
             /\ task'[u].conn = task[u].conn /\ task'[u].kind = task[u].kind
             /\ u # t => task'[u].seen = task[u].seen
             /\ u = t => (task'[u].alone <=> ~company)
             /\ u \in others => ~task'[u].alone
             /\ u # t /\ u \notin others => task'[u] = task[u]
  <2>1. PICK e : e = task[u]
    OBVIOUS
  <2>2. e \in TaskType /\ db \in File
    BY <2>1, TaskFields DEF IInv, Types
  <2>3. CASE u = t
    <3>1. task'[u] = [e EXCEPT !.seen = db, !.alone = ~company]
      BY <1>1, <1>3, <2>1, <2>3
    <3>2. QED
      BY <2>1, <2>2, <2>3, <3>1 DEF TaskType
  <2>4. CASE u \in others
    <3>1. task'[u] = [e EXCEPT !.alone = FALSE] /\ u # t
      BY <1>1, <2>1, <2>4
    <3>2. QED
      BY <2>1, <2>2, <2>4, <3>1 DEF TaskType
  <2>5. CASE u # t /\ u \notin others
    BY <1>1, <2>1, <2>2, <2>5
  <2>6. QED
    BY <2>3, <2>4, <2>5
<1>a. \A u \in Thread : u \in others <=> u # t /\ Exports(u, root)
  OBVIOUS
<1>5. task' \in [Thread -> TaskType]
  <2>1. DOMAIN task' = Thread /\ task' = [u \in Thread |-> task'[u]]
    BY <1>1
  <2>2. QED
    BY <1>4, <2>1
<1>d. \A u \in Thread : /\ task'[u].slot = task[u].slot /\ task'[u].root = task[u].root
                        /\ task'[u].conn = task[u].conn /\ task'[u].kind = task[u].kind
                        /\ u # t => task'[u].seen = task[u].seen
  BY <1>4
<1>e. /\ pc[t] = "snapshot"
      /\ UNCHANGED <<db, artifact, metadata, conn, jobs, commits, acked, clashed>>
  BY <1>1
<1>6. root \in Root
  BY TaskFields DEF IInv
<1>c. root = task[t].root
  OBVIOUS
<1> HIDE DEF others, root
<1>7. torn' \in SUBSET Root /\ torn \subseteq torn' /\ (company => root \in torn')
  BY <1>1, <1>3, <1>6 DEF IInv, Types
<1>8. Types'
  BY <1>e, <1>2, <1>5, <1>7 DEF IInv, Types
<1>9. JobInv'
  BY <1>e, <1>2, <1>d, JobsQuiet DEF Ended
<1>10. DataInv'
  <2>1. \A u \in Thread : pc[u] \in Importing => task[u].seen # NoFile
    BY DEF IInv, DataInv
  <2>2. QED
    BY <1>e, <1>2, <1>d, <2>1, DataQuiet DEF Importing
<1>11. ASSUME NEW u \in Thread, NEW r \in Root
       PROVE  Exports(u, r)' <=> Exports(u, r) \/ (u = t /\ r = root)
  BY <1>e, <1>2, <1>c, <1>d DEF Exports, Exporting
<1>12. PairInv'
  <2> SUFFICES ASSUME NEW r \in Root
               PROVE  /\ \A u, v \in Thread :
                            Exports(u, r)' /\ Exports(v, r)' /\ task'[u].alone => u = v
                      /\ \A u \in Thread :
                            Exports(u, r)' /\ task'[u].alone /\ pc'[u] = "writemetadata"
                            => artifact'[r] = task'[u].seen
                      /\ r \notin torn' =>
                            /\ \A u \in Thread : Exports(u, r)' => task'[u].alone
                            /\ (\A u \in Thread : Exports(u, r)' => pc'[u] = "writeartifact")
                                  => Agrees(r)'
    BY Zenon DEF PairInv
  <2>1. CASE r = root
    <3>1. \A u \in Thread : Exports(u, r)' => u = t \/ u \in others
      BY <1>11, <1>a, <2>1
    <3>2. \A u \in Thread : Exports(u, r)' /\ task'[u].alone => u = t /\ ~company
      BY <1>4, <3>1
    <3>3. r \notin torn' =>
             /\ \A u \in Thread : Exports(u, r)' => u = t
             /\ r \notin torn /\ \A u \in Thread : ~Exports(u, r)
      BY <1>e, <1>3, <1>7, <1>a, <2>1, <3>1 DEF Exports, Exporting
    <3>4. \A u \in Thread : ~Exports(u, r) => (Exports(u, r) => pc[u] = "writeartifact")
      OBVIOUS
    <3>5. r \notin torn' => Agrees(r)'
      BY <1>e, <3>3, <3>4 DEF IInv, PairInv, Agrees
    <3>6. r \notin torn' => ~company
      BY <1>7, <2>1
    <3>7. \A u \in Thread : Exports(u, r)' /\ task'[u].alone => pc'[u] = "writeartifact"
      BY <1>2, <3>2
    <3>8. \A u, v \in Thread :
             Exports(u, r)' /\ Exports(v, r)' /\ task'[u].alone => u = v
      BY <1>3, <3>1, <3>2
    <3>9. QED
      BY <1>4, <3>3, <3>5, <3>6, <3>7, <3>8
  <2>2. CASE r # root
    <3>1. \A u \in Thread : Exports(u, r)' <=> Exports(u, r)
      BY <1>11, <2>2
    <3>2. ASSUME NEW u \in Thread, Exports(u, r)
          PROVE  pc'[u] = pc[u] /\ task'[u] = task[u]
      BY <1>e, <1>2, <1>4, <1>a, <1>c, <2>2, <3>2 DEF Exports, Exporting
    <3>3. r \notin torn' => r \notin torn
      BY <1>7
    <3>4. Agrees(r)' <=> Agrees(r)
      BY <1>e DEF Agrees
    <3>5. UNCHANGED <<artifact, metadata>>
      BY <1>e
    <3>6. QED
      BY <3>1, <3>2, <3>3, <3>4, <3>5 DEF IInv, PairInv
  <2>3. QED
    BY <2>1, <2>2
<1>13. QED
  BY <1>8, <1>9, <1>10, <1>12 DEF IInv

LEMMA WriteArtifactKeepsIInv ==
    ASSUME IInv, NEW t \in Thread, WriteArtifact(t)
    PROVE  IInv'
<1>1. /\ pc[t] = "writeartifact" /\ To(t, "writemetadata")
      /\ artifact' = [artifact EXCEPT ![task[t].root] = task[t].seen]
      /\ UNCHANGED <<db, metadata, conn, jobs, task, commits, acked, clashed, torn>>
  BY DEF WriteArtifact, server, ghost, At
<1>2. /\ pc' \in [Thread -> Labels] /\ pc'[t] = "writemetadata"
      /\ \A u \in Thread \ {t} : pc'[u] = pc[u]
  BY <1>1, ToFacts DEF IInv, Labels, Exporting
<1>3. task[t].root \in Root /\ task[t].seen \in File
  BY TaskFields DEF IInv
<1>4. /\ artifact' \in [Root -> File] /\ artifact'[task[t].root] = task[t].seen
      /\ \A r \in Root : r # task[t].root => artifact'[r] = artifact[r]
  BY <1>1, <1>3 DEF IInv, Types
<1>5. Types'
  BY <1>1, <1>2, <1>4 DEF IInv, Types
<1>6. JobInv'
  BY <1>1, <1>2, JobsQuiet DEF Ended
<1>7. DataInv'
  <2>1. \A u \in Thread : pc[u] \in Importing => task[u].seen # NoFile
    BY DEF IInv, DataInv
  <2>2. QED
    BY <1>1, <1>2, <2>1, DataQuiet DEF Importing
<1>8. \A u \in Thread, r \in Root : Exports(u, r)' <=> Exports(u, r)
  BY <1>1, <1>2 DEF Exports, Exporting
<1>9. Exports(t, task[t].root)
  BY <1>1 DEF Exports, Exporting
<1>10. PairInv'
  <2> SUFFICES ASSUME NEW r \in Root
               PROVE  /\ \A u, v \in Thread :
                            Exports(u, r)' /\ Exports(v, r)' /\ task'[u].alone => u = v
                      /\ \A u \in Thread :
                            Exports(u, r)' /\ task'[u].alone /\ pc'[u] = "writemetadata"
                            => artifact'[r] = task'[u].seen
                      /\ r \notin torn' =>
                            /\ \A u \in Thread : Exports(u, r)' => task'[u].alone
                            /\ (\A u \in Thread : Exports(u, r)' => pc'[u] = "writeartifact")
                                  => Agrees(r)'
    BY Zenon DEF PairInv
  <2>1. CASE r = task[t].root
    <3>1. \A u \in Thread : Exports(u, r) /\ task[u].alone => u = t
      BY <1>9, <2>1 DEF IInv, PairInv
    <3>2. ~(\A u \in Thread : Exports(u, r)' => pc'[u] = "writeartifact")
      BY <1>2, <1>8, <1>9, <2>1
    <3>3. /\ \A u, v \in Thread : Exports(u, r) /\ Exports(v, r) /\ task[u].alone => u = v
          /\ r \notin torn => \A u \in Thread : Exports(u, r) => task[u].alone
      BY DEF IInv, PairInv
    <3>4. QED
      BY <1>1, <1>4, <1>8, <2>1, <3>1, <3>2, <3>3
  <2>2. CASE r # task[t].root
    <3>1. \A u \in Thread : Exports(u, r) => u # t /\ pc'[u] = pc[u] /\ task'[u] = task[u]
      BY <1>1, <1>2, <2>2 DEF Exports
    <3>2. Agrees(r)' <=> Agrees(r)
      BY <1>1, <1>4, <2>2 DEF Agrees
    <3>3. QED
      BY <1>1, <1>4, <1>8, <2>2, <3>1, <3>2 DEF IInv, PairInv
  <2>3. QED
    BY <2>1, <2>2
<1>11. QED
  BY <1>5, <1>6, <1>7, <1>10 DEF IInv

LEMMA WriteMetadataKeepsIInv ==
    ASSUME IInv, NEW t \in Thread, WriteMetadata(t)
    PROVE  IInv'
<1> DEFINE root == task[t].root
           new == [task[t] EXCEPT !.seen = NoFile]
<1>1. /\ pc[t] = "writemetadata"
      /\ UNCHANGED <<db, conn, jobs, commits, acked, clashed>>
  BY DEF WriteMetadata, server, At
<1>2. PICK end \in Ended : Goes(t, end, new)
  BY Zenon DEF WriteMetadata, MetadataWritten, Ended
<1>3. \/ /\ metadata' = [metadata EXCEPT ![root] = task[t].seen]
         /\ torn' = IF task[t].alone THEN torn \ {root} ELSE torn
         /\ UNCHANGED artifact
      \/ /\ artifact' = [artifact EXCEPT ![root] = NoFile] /\ UNCHANGED <<metadata, torn>>
      \/ torn' = torn \cup {root} /\ UNCHANGED <<artifact, metadata>>
  BY Zenon DEF WriteMetadata, MetadataWritten
<1>4. /\ new \in TaskType /\ new.conn = task[t].conn
      /\ new.slot = task[t].slot /\ new.root = root
  BY ClosedTask DEF IInv, File
<1> HIDE DEF new
<1>5. /\ pc' \in [Thread -> Labels] /\ task' \in [Thread -> TaskType]
      /\ \A u \in Thread \ {t} : pc'[u] = pc[u] /\ task'[u] = task[u]
      /\ \/ pc'[t] = "idle" /\ task'[t] = NoTask
         \/ pc'[t] = end /\ task'[t] = new /\ new.slot # 0
  BY <1>2, <1>4, GoesFacts DEF IInv, Labels, Ended
<1>6. root \in Root /\ task[t].seen \in File /\ NoFile \in File
  BY TaskFields DEF IInv, File
<1>7. /\ artifact' \in [Root -> File] /\ metadata' \in [Root -> File]
      /\ torn' \in SUBSET Root
      /\ \A r \in Root : r # root =>
            /\ artifact'[r] = artifact[r] /\ metadata'[r] = metadata[r]
            /\ r \in torn' <=> r \in torn
      /\ \/ root \in torn'
         \/ artifact'[root] = NoFile /\ (root \in torn' <=> root \in torn)
         \/ /\ metadata'[root] = task[t].seen
            /\ artifact'[root] = artifact[root]
            /\ root \notin torn => root \notin torn'
            /\ task[t].alone \/ (root \in torn' <=> root \in torn)
  <2>1. CASE /\ metadata' = [metadata EXCEPT ![root] = task[t].seen]
             /\ torn' = IF task[t].alone THEN torn \ {root} ELSE torn
             /\ UNCHANGED artifact
    BY <1>6, <2>1 DEF IInv, Types
  <2>2. CASE /\ artifact' = [artifact EXCEPT ![root] = NoFile]
             /\ UNCHANGED <<metadata, torn>>
    BY <1>6, <2>2 DEF IInv, Types
  <2>3. CASE torn' = torn \cup {root} /\ UNCHANGED <<artifact, metadata>>
    BY <1>6, <2>3 DEF IInv, Types
  <2>4. QED
    BY <1>3, <2>1, <2>2, <2>3
<1>8. Types'
  BY <1>1, <1>5, <1>7 DEF IInv, Types
<1>9. JobInv'
  BY <1>1, <1>2, <1>4, <1>5, NoTaskFields, JobsQuiet DEF Ended
<1>10. DataInv'
  <2>1. \A u \in Thread : pc[u] \in Importing => task[u].seen # NoFile
    BY DEF IInv, DataInv
  <2>2. QED
    BY <1>1, <1>2, <1>4, <1>5, <2>1, NoTaskFields, DataQuiet DEF Importing, Ended
<1>11. /\ Exports(t, root)
       /\ \A u \in Thread \ {t}, r \in Root : Exports(u, r)' <=> Exports(u, r)
       /\ \A r \in Root : ~Exports(t, r)'
  BY <1>1, <1>2, <1>5 DEF Exports, Exporting, Ended
<1>12. PairInv'
  <2> SUFFICES ASSUME NEW r \in Root
               PROVE  /\ \A u, v \in Thread :
                            Exports(u, r)' /\ Exports(v, r)' /\ task'[u].alone => u = v
                      /\ \A u \in Thread :
                            Exports(u, r)' /\ task'[u].alone /\ pc'[u] = "writemetadata"
                            => artifact'[r] = task'[u].seen
                      /\ r \notin torn' =>
                            /\ \A u \in Thread : Exports(u, r)' => task'[u].alone
                            /\ (\A u \in Thread : Exports(u, r)' => pc'[u] = "writeartifact")
                                  => Agrees(r)'
    BY Zenon DEF PairInv
  <2>1. CASE r = root
    <3>1. \A u \in Thread : Exports(u, r)' => u # t /\ Exports(u, r) /\ task'[u] = task[u]
      BY <1>5, <1>11
    <3>2. \A u \in Thread : Exports(u, r)' => ~task[u].alone /\ ~task[t].alone
      BY <1>11, <2>1, <3>1 DEF IInv, PairInv
    <3>3. r \notin torn' =>
             /\ \A u \in Thread : ~Exports(u, r)'
             /\ Agrees(r)'
      <4>1. SUFFICES ASSUME r \notin torn'
                     PROVE  (\A u \in Thread : ~Exports(u, r)') /\ Agrees(r)'
        OBVIOUS
      <4>2. task[t].alone
        BY <1>7, <1>11, <2>1, <4>1 DEF IInv, PairInv
      <4>3. artifact[r] = task[t].seen
        BY <1>1, <1>11, <2>1, <4>2 DEF IInv, PairInv
      <4>4. QED
        BY <1>7, <2>1, <3>2, <4>1, <4>2, <4>3 DEF Agrees
    <3>4. QED
      BY <3>1, <3>2, <3>3
  <2>2. CASE r # root
    <3>1. \A u \in Thread : Exports(u, r)' <=> Exports(u, r)
      BY <1>11, <2>2 DEF Exports
    <3>2. \A u \in Thread : Exports(u, r) => u # t /\ pc'[u] = pc[u] /\ task'[u] = task[u]
      BY <1>5, <2>2 DEF Exports
    <3>3. Agrees(r)' <=> Agrees(r)
      BY <1>7, <2>2 DEF Agrees
    <3>4. QED
      BY <1>7, <2>2, <3>1, <3>2, <3>3 DEF IInv, PairInv
  <2>3. QED
    BY <2>1, <2>2
<1>13. QED
  BY <1>8, <1>9, <1>10, <1>12 DEF IInv

-----------------------------------------------------------------------------
(* Jobs end, and processes.                                                *)

LEMMA NoSlots == <<>> \in Slots
<1>1. <<>> \in [1 .. 0 -> Job]
  OBVIOUS
<1>2. 0 \in 0 .. MaxIndexJobs
  BY JobsAssumption
<1>3. QED
  BY <1>1, <1>2 DEF Slots

LEMMA FinishKeepsIInv ==
    ASSUME IInv, NEW t \in Thread, Finish(t)
    PROVE  IInv'
<1> DEFINE h == HostOf[t]
<1>1. /\ pc[t] \in {"done", "error"} /\ To(t, "idle")
      /\ task' = [task EXCEPT ![t] = NoTask]
      /\ jobs' = [jobs EXCEPT ![h][task[t].slot].status = pc[t]]
      /\ UNCHANGED <<db, artifact, metadata, conn, commits, acked, clashed, torn>>
  BY DEF Finish, files, ghost
<1>2. /\ pc' \in [Thread -> Labels] /\ pc'[t] = "idle"
      /\ \A u \in Thread \ {t} : pc'[u] = pc[u]
  BY <1>1, ToFacts DEF IInv, Labels
<1>3. /\ task' \in [Thread -> TaskType] /\ task'[t] = NoTask
      /\ \A u \in Thread \ {t} : task'[u] = task[u]
  BY <1>1, NoTaskFields DEF IInv, Types
<1>4. h \in Host
  BY JobsAssumption
<1>5. task[t].slot # 0 /\ task[t].slot \in DOMAIN jobs[h]
  BY <1>1 DEF IInv, JobInv, Has, Ended
<1>6. PICK n \in 0 .. MaxIndexJobs : jobs[h] \in [1 .. n -> Job]
  <2>1. jobs[h] \in Slots
    BY <1>4 DEF IInv, Types
  <2>2. QED
    BY <2>1 DEF Slots
<1>7. PICK job : job = [jobs[h][task[t].slot] EXCEPT !.status = pc[t]]
  OBVIOUS
<1>8. jobs[h][task[t].slot] \in Job
  BY <1>5, <1>6
<1>9. job \in Job
  BY <1>1, <1>7, <1>8 DEF Job
<1>10. PICK new : new = [jobs[h] EXCEPT ![task[t].slot] = job]
  OBVIOUS
<1>11. /\ new \in [1 .. n -> Job] /\ DOMAIN new = DOMAIN jobs[h]
       /\ \A s \in DOMAIN new : s # task[t].slot => new[s] = jobs[h][s]
  BY <1>6, <1>9, <1>10
<1>12. jobs' = [jobs EXCEPT ![h] = new]
  BY <1>1, <1>7, <1>10, Zenon
<1>13. new \in Slots
  BY <1>11 DEF Slots
<1>14. /\ jobs' \in [Host -> Slots] /\ jobs'[h] = new
       /\ \A g \in Host \ {h} : jobs'[g] = jobs[g]
  BY <1>4, <1>12, <1>13 DEF IInv, Types
<1>15. Types'
  BY <1>1, <1>2, <1>3, <1>14 DEF IInv, Types
<1>16. JobInv'
  <2>1. ASSUME NEW u \in Thread
        PROVE  Has(u)'
    <3>1. CASE u = t
      BY <1>2, <1>3, <3>1, NoTaskFields DEF Has, Ended
    <3>2. CASE u # t
      <4>1. /\ pc[u] \in Ended => task[u].slot # 0
            /\ task[u].slot # 0 =>
                  /\ pc[u] # "idle"
                  /\ task[u].slot \in DOMAIN jobs[HostOf[u]]
                  /\ jobs[HostOf[u]][task[u].slot] =
                        [status |-> "indexing", root |-> task[u].root]
        BY DEF IInv, JobInv, Has
      <4>2. HostOf[u] = h /\ task[u].slot # 0 => task[u].slot # task[t].slot
        BY <1>5, <3>2 DEF IInv, JobInv
      <4>3. HostOf[u] \in Host
        BY JobsAssumption
      <4>4. task[u].slot # 0 =>
               /\ task[u].slot \in DOMAIN jobs'[HostOf[u]]
               /\ jobs'[HostOf[u]][task[u].slot] = jobs[HostOf[u]][task[u].slot]
        BY <1>11, <1>14, <4>1, <4>2, <4>3
      <4>5. QED
        BY <1>2, <1>3, <3>2, <4>1, <4>4 DEF Has
    <3>3. QED
      BY <3>1, <3>2
  <2>2. ASSUME NEW u \in Thread, NEW v \in Thread, u # v, HostOf[u] = HostOf[v],
               task'[u].slot # 0, task'[v].slot # 0
        PROVE  task'[u].slot # task'[v].slot /\ task'[u].root # task'[v].root
    BY <1>3, <2>2, NoTaskFields DEF IInv, JobInv
  <2>3. QED
    BY <2>1, <2>2 DEF JobInv
<1>17. DataInv'
  <2>1. \A u \in Thread : pc[u] \in Importing => task[u].seen # NoFile
    BY DEF IInv, DataInv
  <2>2. QED
    BY <1>1, <1>2, <1>3, <2>1, NoTaskFields, DataQuiet DEF Importing
<1>18. PairInv'
  BY <1>1, <1>2, <1>3, PairQuiet DEF Exporting
<1>19. QED
  BY <1>15, <1>16, <1>17, <1>18 DEF IInv

LEMMA CrashKeepsIInv ==
    ASSUME IInv, NEW h \in Host, Crash(h)
    PROVE  IInv'
<1>1. /\ conn' = [conn EXCEPT ![h] = "none"] /\ jobs' = [jobs EXCEPT ![h] = <<>>]
      /\ UNCHANGED <<db, artifact, metadata, commits, acked, clashed>>
  BY DEF Crash, files
<1>2. /\ pc' = [u \in Thread |-> IF HostOf[u] = h THEN "idle" ELSE pc[u]]
      /\ task' = [u \in Thread |-> IF HostOf[u] = h THEN NoTask ELSE task[u]]
  BY DEF Crash
<1>3. /\ torn' \in SUBSET Root /\ torn \subseteq torn'
      /\ \A u \in Thread : HostOf[u] = h /\ pc[u] \in Exporting => task[u].root \in torn'
  BY TaskFields DEF Crash, IInv, Types
<1>4. <<>> \in Slots
  BY NoSlots
<1>5. jobs' \in [Host -> Slots] /\ \A g \in Host \ {h} : jobs'[g] = jobs[g]
  BY <1>1, <1>4 DEF IInv, Types
<1>6. /\ conn' \in [Host -> Conn]
      /\ \A g \in Host : conn'[g] \in {conn[g], "none"}
  BY <1>1 DEF IInv, Types, Conn
<1>7. Types'
  <2>1. pc' \in [Thread -> Labels] /\ task' \in [Thread -> TaskType]
    BY <1>2, NoTaskFields DEF IInv, Types, Labels
  <2>2. QED
    BY <1>1, <1>3, <1>5, <1>6, <2>1 DEF IInv, Types
<1>8. JobInv'
  <2>1. ASSUME NEW u \in Thread
        PROVE  Has(u)'
    <3>1. HostOf[u] \in Host
      BY JobsAssumption
    <3>2. CASE HostOf[u] = h
      BY <1>2, <3>2, NoTaskFields DEF Has, Ended
    <3>3. CASE HostOf[u] # h
      BY <1>2, <1>5, <3>1, <3>3 DEF IInv, JobInv, Has
    <3>4. QED
      BY <3>2, <3>3
  <2>2. ASSUME NEW u \in Thread, NEW v \in Thread, u # v, HostOf[u] = HostOf[v],
               task'[u].slot # 0, task'[v].slot # 0
        PROVE  task'[u].slot # task'[v].slot /\ task'[u].root # task'[v].root
    BY <1>2, <2>2, NoTaskFields DEF IInv, JobInv
  <2>3. QED
    BY <2>1, <2>2 DEF JobInv
<1>9. DataInv'
  <2>1. \A u \in Thread : pc[u] \in Importing => task[u].seen # NoFile
    BY DEF IInv, DataInv
  <2>2. QED
    BY <1>1, <1>2, <1>6, <2>1, NoTaskFields, DataQuiet DEF Importing
<1>10. PairInv'
  BY <1>1, <1>2, <1>3, PairQuiet DEF Exporting
<1>11. QED
  BY <1>7, <1>8, <1>9, <1>10 DEF IInv

LEMMA ExitKeepsIInv ==
    ASSUME IInv, NEW h \in Host, Exit(h)
    PROVE  IInv'
<1>1. /\ PrepareDatabase /\ conn' = [conn EXCEPT ![h] = "none"]
      /\ UNCHANGED <<artifact, metadata, jobs, pc, task, commits, acked, torn>>
  BY Zenon DEF Exit
<1>2. /\ db' \in File /\ db' # NoFile /\ clashed' \in BOOLEAN
      /\ clashed' \/ /\ ~clashed /\ acked \subseteq db'
                     /\ \A u \in Thread : pc[u] \in Importing => Command(u)
  BY <1>1, PrepareFacts
<1>3. /\ conn' \in [Host -> Conn]
      /\ \A g \in Host : conn'[g] \in {conn[g], "none"}
  BY <1>1 DEF IInv, Types, Conn
<1>4. Types'
  BY <1>1, <1>2, <1>3 DEF IInv, Types
<1>5. JobInv' /\ PairInv'
  BY <1>1 DEF IInv, JobInv, Has, PairInv, Exports, Agrees
<1>6. DataInv'
  BY <1>1, <1>2, <1>3 DEF IInv, DataInv, Command
<1>7. QED
  BY <1>4, <1>5, <1>6 DEF IInv

-----------------------------------------------------------------------------
(* The specification.                                                      *)

LEMMA InitIInv == Init => IInv
<1> SUFFICES ASSUME Init PROVE IInv
  OBVIOUS
<1>1. {Foreign} \in Content
  BY JobsAssumption DEF Content, Commit, Foreign
<1>2. /\ db \in File /\ artifact \in [Root -> File] /\ metadata = artifact
  BY <1>1, FileFacts DEF Init, File
<1>3. <<>> \in Slots
  BY NoSlots
<1>4. /\ conn = [h \in Host |-> "none"] /\ jobs = [h \in Host |-> <<>>]
      /\ pc = [t \in Thread |-> "idle"] /\ task = [t \in Thread |-> NoTask]
      /\ commits = 0 /\ acked = {} /\ clashed = FALSE /\ torn = {}
  BY DEF Init
<1>a. commits \in 0 .. MaxCommit /\ acked \in SUBSET (1 .. commits)
  BY <1>4, JobsAssumption
<1>5. Types
  BY <1>2, <1>3, <1>4, <1>a, NoTaskFields DEF Types, Conn, Labels
<1>6. JobInv
  BY <1>4, NoTaskFields DEF JobInv, Has, Ended
<1>7. DataInv
  BY <1>4, NoTaskFields DEF DataInv, Importing
<1>8. PairInv
  BY <1>2, <1>4 DEF PairInv, Exports, Exporting, Agrees
<1>9. QED
  BY <1>5, <1>6, <1>7, <1>8 DEF IInv

LEMMA NextKeepsIInv == IInv /\ [Next]_vars => IInv'
<1> SUFFICES ASSUME IInv, [Next]_vars PROVE IInv'
  OBVIOUS
<1>1. CASE UNCHANGED vars
  BY <1>1 DEF vars, files, server, ghost, IInv, Types, JobInv, Has, DataInv, Command,
              PairInv, Exports, Agrees
<1>2. ASSUME NEW t \in Thread,
             Open(t) \/ ArtifactCommand(t) \/ HandleIndex(t) \/ IndexUnreserved(t)
      PROVE  IInv'
  BY <1>2, OpenKeepsIInv, ArtifactCommandKeepsIInv, HandleIndexKeepsIInv,
     IndexUnreservedKeepsIInv, Zenon
<1>3. ASSUME NEW t \in Thread, Step(t)
      PROVE  IInv'
  BY <1>3, CheckKeepsIInv, ReadArtifactKeepsIInv, InstallKeepsIInv, OpenStoreKeepsIInv,
     IndexRepositoryKeepsIInv, FailsKeepsIInv, SnapshotKeepsIInv,
     WriteArtifactKeepsIInv, WriteMetadataKeepsIInv, FinishKeepsIInv, Zenon DEF Step
<1>4. ASSUME NEW h \in Host,
             Connect(h) \/ SpawnFails(h) \/ Edit(h) \/ Exit(h) \/ Crash(h)
      PROVE  IInv'
  BY <1>4, ConnectKeepsIInv, SpawnFailsKeepsIInv, EditKeepsIInv, ExitKeepsIInv,
     CrashKeepsIInv, Zenon
<1>5. QED
  BY <1>1, <1>2, <1>3, <1>4, Zenon DEF Next

THEOREM SpecIInv == Spec => []IInv
BY InitIInv, NextKeepsIInv, PTL DEF Spec

\* The values are what the code's types say, in every process and thread.
THEOREM TypeCorrect == Spec => []TypeOK
<1>1. IInv => TypeOK
  <2> SUFFICES ASSUME IInv PROVE TypeOK
    OBVIOUS
  <2>1. \A h \in Host : DOMAIN jobs[h] \in {1 .. n : n \in 0 .. MaxIndexJobs}
    <3>1. SUFFICES ASSUME NEW h \in Host
                   PROVE  DOMAIN jobs[h] \in {1 .. n : n \in 0 .. MaxIndexJobs}
      OBVIOUS
    <3>2. jobs[h] \in Slots
      BY DEF IInv, Types
    <3>3. PICK n \in 0 .. MaxIndexJobs : jobs[h] \in [1 .. n -> Job]
      BY <3>2 DEF Slots
    <3>4. QED
      BY <3>3
  <2>2. \A t \in Thread : task[t].root \in Root /\ task[t].slot \in 0 .. MaxIndexJobs
    BY TaskFields DEF IInv
  <2>3. QED
    BY <2>1, <2>2 DEF IInv, Types, TypeOK, File, Conn, Labels, Content
<1>2. QED
  BY <1>1, SpecIInv, PTL

\* Reserving a slot and reporting to it keep jobs apart: the slot that a job holds
\* shows it and nothing else, however many jobs and servers there are.
THEOREM SlotsAreTheJobs == Spec => []JobsReportTheirOwn
<1>1. IInv => JobsReportTheirOwn
  BY DEF IInv, JobInv, Has, JobsReportTheirOwn
<1>2. QED
  BY <1>1, SpecIInv, PTL

\* Whoever opens the database, imports it because there is none or commits to it, in
\* a job or without, with `goldeneye ui' or over standard input: all have one
\* database, with every commit since the last `artifact import' in it.  Except after
\* an import that met another thread's, or a command that replaced a database in use
\* or lost one.
THEOREM CommitsAreInTheDatabase == Spec => []OneDatabase
<1>1. IInv => OneDatabase
  BY DEF IInv, Types, DataInv, OneDatabase, Conn
<1>2. QED
  BY <1>1, SpecIInv, PTL

\* Writing the artifact and then its metadata, and removing the one without the
\* other, leave the two in agreement, whoever exports.  Except where exports of one
\* repository overlapped, by threads of one process too, where a process died in
\* between or where nothing could be removed; and there again after the next export
\* that runs alone.
THEOREM ArtifactsAgree == Spec => []PairAgrees
<1>1. IInv => PairAgrees
  BY DEF IInv, PairInv, PairAgrees, Exports, Agrees
<1>2. QED
  BY <1>1, SpecIInv, PTL

=============================================================================
