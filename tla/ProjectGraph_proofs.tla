------------------------- MODULE ProjectGraph_proofs -------------------------
(***************************************************************************)
(* What ProjectGraph guarantees for any workers, files, contents and       *)
(* bounds.                                                                 *)
(***************************************************************************)
EXTENDS ProjectGraph, TLAPS

\* The generation a call holds is not ahead of the project's, unless the project
\* was deleted since: generations grow, so a call that another commit overtook
\* stays overtaken.
Behind(w) ==
    /\ job[w].life <= deletes
    /\ job[w].life = deletes /\ job[w].generation # NoProject =>
          project # NoProject /\ job[w].generation <= project

\* Which calls are where.
Kinds(w) ==
    /\ pc[w] \in {"project", "read"} => ~IsRefresh(w)
    /\ pc[w] \in {"discover", "list", "target", "match"} => IsRefresh(w)
    /\ pc[w] \in {"discover", "list", "target"} => job[w].graph = Empty

\* A refresh holds the rows that are still there.
Listed(w) == pc[w] = "target" /\ ~Overtaken(w) => job[w].records = hash

Matched(w) ==
    pc[w] = "match" =>
       /\ job[w].file \notin job[w].todo
       /\ job[w].graph[job[w].file] = job[w].records[job[w].file]
       /\ \A f \in File : job[w].graph[f] \in {Absent, job[w].records[f]}
       /\ ~Overtaken(w) =>
             \A f \in File \ {job[w].file} : job[w].records[f] = hash[f]

\* The nodes assembled so far belong to the rows that will be written.
Covered(w) ==
    pc[w] = "assemble" =>
       \A f \in File :
          /\ f \in job[w].todo \/ job[w].graph[f] # Absent => job[w].records[f] # Absent
          /\ f \notin job[w].todo /\ job[w].records[f] # Absent => job[w].graph[f] # Absent

RefreshReady(w) ==
    pc[w] = "assemble" /\ IsRefresh(w) =>
       /\ job[w].file \notin job[w].todo
       /\ job[w].graph[job[w].file] = job[w].records[job[w].file]
       /\ ~Overtaken(w) =>
             \A f \in File \ {job[w].file} :
                /\ job[w].records[f] = hash[f]
                /\ job[w].graph[f] \in {Absent, hash[f], nodes[f]}

IndexReady(w) ==
    pc[w] = "assemble" /\ ~IsRefresh(w) =>
       /\ job[w].todo = {}
       /\ job[w].graph = job[w].records
       /\ ~Overtaken(w) =>
             \A f \in File : hash[f] # Absent => job[w].records[f] \notin Content \ Accepted

Loaded(w) ==
    pc[w] = "vectors" /\ deletes = 0 /\ project = job[w].generation =>
       job[w].graph = nodes

WorkerInv(w) ==
    /\ Behind(w)
    /\ Kinds(w) /\ Listed(w) /\ Matched(w)
    /\ Covered(w) /\ RefreshReady(w) /\ IndexReady(w)
    /\ Loaded(w)

\* No rows without a project.
RowsBelong == project = NoProject => hash = Empty

StoreInv == RowsBelong /\ GraphCoversFiles /\ VectorsCurrent

IInv == TypeOK /\ StoreInv /\ \A w \in Worker : WorkerInv(w)

-----------------------------------------------------------------------------
(* How steps move workers                                                  *)

LEMMA GotoFacts ==
    ASSUME NEW w \in Worker, pc \in [Worker -> PCs], NEW l \in PCs, Goto(w, l)
    PROVE  /\ pc' \in [Worker -> PCs]
           /\ pc'[w] = l
           /\ \A v \in Worker \ {w} : pc'[v] = pc[v]
  BY DEF Goto

LEMMA SetFacts ==
    ASSUME NEW w \in Worker, job \in [Worker -> Job], NEW j \in Job, Set(w, j)
    PROVE  /\ job' \in [Worker -> Job]
           /\ job'[w] = j
           /\ \A v \in Worker \ {w} : job'[v] = job[v]
  BY DEF Set

LEMMA NoJobType == NoJob \in Job
  BY DEF NoJob, Job, Tree, Empty

\* A worker that stays where it is keeps its invariant while the store does.
LEMMA Elsewhere ==
    ASSUME NEW v \in Worker, WorkerInv(v),
           pc'[v] = pc[v], job'[v] = job[v],
           UNCHANGED <<project, hash, nodes, deletes>>
    PROVE  WorkerInv(v)'
  BY DEF WorkerInv, Behind, Kinds, Listed, Matched, Covered, RefreshReady, IndexReady,
         Loaded, Overtaken, IsRefresh

\* A commit overtakes every other call.
LEMMA CommitOvertakes ==
    ASSUME TypeOK, NEW v \in Worker, WorkerInv(v),
           pc'[v] = pc[v], job'[v] = job[v], deletes' = deletes,
           NEW g \in Nat \cup {NoProject}, project' = NextGeneration(g)
    PROVE  WorkerInv(v)'
  <1> USE DEF WorkerInv, Overtaken, IsRefresh
  <1>1. /\ project' \in Nat /\ project' # NoProject
        /\ project # NoProject => project \in Nat /\ project' = project + 1
    BY GraphAssumption DEF TypeOK, NextGeneration
  <1>2. /\ job[v].life \in Nat /\ job[v].generation \in Nat \cup {NoProject}
        /\ deletes \in Nat
    BY DEF TypeOK, Job
  <1>3. Overtaken(v)'
    BY <1>1, <1>2 DEF Behind
  <1>4. ~(pc'[v] = "vectors" /\ deletes' = 0 /\ project' = job'[v].generation)
    BY <1>1, <1>2 DEF Behind
  <1>5. Behind(v)'
    BY <1>1, <1>2 DEF Behind
  <1> QED
    BY <1>3, <1>4, <1>5 DEF Kinds, Listed, Matched, Covered, RefreshReady, IndexReady, Loaded

\* So does the deletion of the project.
LEMMA DeletionOvertakes ==
    ASSUME TypeOK, NEW v \in Worker, WorkerInv(v), DeleteProject
    PROVE  WorkerInv(v)'
  <1> USE DEF WorkerInv, Overtaken, IsRefresh
  <1>1. /\ job[v].life \in Nat /\ deletes \in Nat /\ deletes' = deletes + 1
        /\ pc' = pc /\ job' = job
    BY DEF TypeOK, Job, DeleteProject
  <1>2. Overtaken(v)' /\ deletes' # 0 /\ job'[v].life < deletes'
    BY <1>1 DEF Behind
  <1> QED
    BY <1>1, <1>2 DEF Behind, Kinds, Listed, Matched, Covered, RefreshReady, IndexReady, Loaded

-----------------------------------------------------------------------------
(* Steps that leave the store alone                                        *)

LEMMA LocalStep ==
    ASSUME IInv, NEW w \in Worker,
           pc' \in [Worker -> PCs], \A v \in Worker \ {w} : pc'[v] = pc[v],
           job' \in [Worker -> Job], \A v \in Worker \ {w} : job'[v] = job[v],
           UNCHANGED <<source, project, hash, nodes, vectors, writes, deletes>>,
           calls' \in 0..MaxCall,
           WorkerInv(w)'
    PROVE  IInv'
  <1>1. TypeOK'
    BY DEF IInv, TypeOK
  <1>2. StoreInv'
    BY DEF IInv, StoreInv, RowsBelong, GraphCoversFiles, VectorsCurrent
  <1>3. \A v \in Worker : WorkerInv(v)'
    BY Elsewhere DEF IInv
  <1> QED
    BY <1>1, <1>2, <1>3 DEF IInv

\* A call that returns.
LEMMA ReturnStep ==
    ASSUME IInv, NEW w \in Worker, Return(w), ReadOnly
    PROVE  IInv'
  <1>1. /\ pc' \in [Worker -> PCs] /\ pc'[w] = "idle"
        /\ \A v \in Worker \ {w} : pc'[v] = pc[v]
    BY GotoFacts DEF Return, IInv, TypeOK, PCs
  <1>2. /\ job' \in [Worker -> Job] /\ job'[w] = NoJob
        /\ \A v \in Worker \ {w} : job'[v] = job[v]
    BY SetFacts, NoJobType DEF Return, IInv, TypeOK
  <1>3. deletes' = deletes /\ deletes \in Nat
    BY DEF ReadOnly, IInv, TypeOK
  <1>4. WorkerInv(w)'
    BY <1>1, <1>2, <1>3 DEF WorkerInv, Behind, Kinds, Listed, Matched, Covered,
       RefreshReady, IndexReady, Loaded, NoJob
  <1> QED
    BY <1>1, <1>2, <1>4, LocalStep DEF ReadOnly, IInv, TypeOK

LEMMA StartIndexStep ==
    ASSUME IInv, NEW w \in Worker, StartIndex(w)
    PROVE  IInv'
  <1>1. PICK full \in BOOLEAN :
           Set(w, [NoJob EXCEPT !.full = full, !.todo = Present(source)])
    BY DEF StartIndex
  <1> DEFINE j == [NoJob EXCEPT !.full = full, !.todo = Present(source)]
  <1>2. /\ j \in Job /\ j.file = NoFile /\ j.life = 0 /\ j.generation = NoProject
    BY DEF Job, NoJob, Tree, Empty, Present
  <1> HIDE DEF j
  <1>3. /\ pc' \in [Worker -> PCs] /\ pc'[w] = "project"
        /\ \A v \in Worker \ {w} : pc'[v] = pc[v]
    BY GotoFacts DEF StartIndex, IInv, TypeOK, PCs
  <1>4. /\ job' \in [Worker -> Job] /\ job'[w] = j
        /\ \A v \in Worker \ {w} : job'[v] = job[v]
    BY <1>1, <1>2, SetFacts DEF IInv, TypeOK, j
  <1>5. deletes' = deletes /\ deletes \in Nat
    BY DEF StartIndex, IInv, TypeOK
  <1>6. WorkerInv(w)'
    BY <1>2, <1>3, <1>4, <1>5 DEF WorkerInv, Behind, Kinds, Listed, Matched, Covered,
       RefreshReady, IndexReady, Loaded, IsRefresh
  <1>7. calls' \in 0..MaxCall
    BY GraphAssumption DEF StartIndex, IInv, TypeOK
  <1> QED
    BY <1>3, <1>4, <1>6, <1>7, LocalStep DEF StartIndex

LEMMA GetProjectStep ==
    ASSUME IInv, NEW w \in Worker, GetProject(w)
    PROVE  IInv'
  <1> DEFINE j == [job[w] EXCEPT !.generation = project, !.life = deletes]
  <1>1. job[w] \in Job /\ deletes \in Nat /\ project \in Nat \cup {NoProject}
    BY DEF IInv, TypeOK
  <1>2. /\ j \in Job /\ j.file = job[w].file /\ j.life = deletes /\ j.generation = project
    BY <1>1 DEF Job
  <1> HIDE DEF j
  <1>3. /\ pc' \in [Worker -> PCs] /\ pc'[w] = "read"
        /\ \A v \in Worker \ {w} : pc'[v] = pc[v]
    BY GotoFacts DEF GetProject, IInv, TypeOK, PCs
  <1>4. /\ job' \in [Worker -> Job] /\ job'[w] = j
        /\ \A v \in Worker \ {w} : job'[v] = job[v]
    BY <1>2, SetFacts DEF GetProject, IInv, TypeOK, j
  <1>5. ~IsRefresh(w) /\ deletes' = deletes /\ project' = project
    BY DEF GetProject, ReadOnly, IInv, WorkerInv, Kinds
  <1>6. WorkerInv(w)'
    BY <1>1, <1>2, <1>3, <1>4, <1>5 DEF WorkerInv, Behind, Kinds, Listed, Matched, Covered,
       RefreshReady, IndexReady, Loaded, IsRefresh
  <1> QED
    BY <1>3, <1>4, <1>6, LocalStep DEF GetProject, ReadOnly, IInv, TypeOK

LEMMA ReadCandidateStep ==
    ASSUME IInv, NEW w \in Worker, ReadCandidate(w)
    PROVE  IInv'
  <1>1. PICK f \in job[w].todo :
           \/ /\ source[f] # Absent
              /\ Set(w, [job[w] EXCEPT !.todo = @ \ {f}, !.records[f] = source[f]])
              /\ UNCHANGED pc
           \/ source[f] = Absent /\ Return(w)
    BY DEF ReadCandidate
  <1>2. CASE Return(w)
    BY <1>2, ReturnStep DEF ReadCandidate
  <1>3. CASE /\ Set(w, [job[w] EXCEPT !.todo = @ \ {f}, !.records[f] = source[f]])
             /\ UNCHANGED pc
    <2> DEFINE j == [job[w] EXCEPT !.todo = @ \ {f}, !.records[f] = source[f]]
    <2>1. job[w] \in Job /\ source \in Tree /\ f \in File
      BY DEF IInv, TypeOK, Job
    <2>2. /\ j \in Job /\ j.file = job[w].file /\ j.life = job[w].life
          /\ j.generation = job[w].generation
      BY <2>1 DEF Job, Tree
    <2> HIDE DEF j
    <2>3. /\ job' \in [Worker -> Job] /\ job'[w] = j
          /\ \A v \in Worker \ {w} : job'[v] = job[v]
      BY <1>3, <2>2, SetFacts DEF IInv, TypeOK, j
    <2>4. pc' = pc /\ pc[w] = "read" /\ deletes' = deletes /\ project' = project
      BY <1>3 DEF ReadCandidate, ReadOnly
    <2>5. WorkerInv(w)'
      BY <2>2, <2>3, <2>4 DEF IInv, WorkerInv, Behind, Kinds, Listed, Matched, Covered,
         RefreshReady, IndexReady, Loaded, IsRefresh
    <2> QED
      BY <2>3, <2>4, <2>5, LocalStep DEF ReadCandidate, ReadOnly, IInv, TypeOK
  <1> QED
    BY <1>1, <1>2, <1>3

LEMMA ClassifyChangesStep ==
    ASSUME IInv, NEW w \in Worker, ClassifyChanges(w)
    PROVE  IInv'
  <1> DEFINE existing == IF job[w].generation = NoProject THEN Empty ELSE hash
             j == [job[w] EXCEPT !.graph = job[w].records]
  <1>1. /\ job[w] \in Job /\ hash \in Tree /\ WorkerInv(w) /\ ~IsRefresh(w)
        /\ pc[w] = "read" /\ job[w].todo = {}
        /\ UNCHANGED <<source, project, hash, nodes, vectors, calls, writes, deletes>>
    BY DEF ClassifyChanges, ReadOnly, IInv, TypeOK, WorkerInv, Kinds
  <1>2. CASE Goto(w, "semantic") /\ UNCHANGED job
    <2>1. /\ pc' \in [Worker -> PCs] /\ pc'[w] = "semantic"
          /\ \A v \in Worker \ {w} : pc'[v] = pc[v]
      BY <1>2, GotoFacts DEF IInv, TypeOK, PCs
    <2>2. WorkerInv(w)'
      BY <1>1, <1>2, <2>1 DEF WorkerInv, Behind, Kinds, Listed, Matched, Covered,
         RefreshReady, IndexReady, Loaded
    <2> QED
      BY <1>1, <1>2, <2>1, <2>2, LocalStep DEF IInv, TypeOK
  <1>3. CASE /\ Goto(w, "assemble") /\ Set(w, j)
             /\ ~RejectsExisting(existing, job[w].records)
    <2>1. /\ pc' \in [Worker -> PCs] /\ pc'[w] = "assemble"
          /\ \A v \in Worker \ {w} : pc'[v] = pc[v]
      BY <1>3, GotoFacts DEF IInv, TypeOK, PCs
    <2>2. /\ j \in Job /\ j.file = NoFile /\ j.life = job[w].life
          /\ j.generation = job[w].generation /\ j.todo = {}
          /\ j.records = job[w].records /\ j.graph = job[w].records
      BY <1>1 DEF Job, IsRefresh
    <2> HIDE DEF j
    <2>3. /\ job' \in [Worker -> Job] /\ job'[w] = j
          /\ \A v \in Worker \ {w} : job'[v] = job[v]
      BY <1>3, <2>2, SetFacts DEF IInv, TypeOK
    <2>4. ~Overtaken(w) =>
             \A f \in File : hash[f] # Absent => job[w].records[f] \notin Content \ Accepted
      BY <1>1, <1>3 DEF Overtaken, RejectsExisting, IInv, StoreInv, RowsBelong
    <2>5. IndexReady(w)'
      BY <1>1, <2>2, <2>3, <2>4 DEF IndexReady, Overtaken
    <2>6. WorkerInv(w)'
      BY <1>1, <2>1, <2>2, <2>3, <2>5 DEF WorkerInv, Behind, Kinds, Listed, Matched, Covered,
         RefreshReady, Loaded, IsRefresh
    <2> QED
      BY <1>1, <2>1, <2>3, <2>6, LocalStep DEF IInv, TypeOK
  <1> QED
    BY <1>2, <1>3 DEF ClassifyChanges

LEMMA StartRefreshStep ==
    ASSUME IInv, NEW w \in Worker, StartRefresh(w)
    PROVE  IInv'
  <1>1. PICK f \in File :
           Set(w, [NoJob EXCEPT !.file = f, !.generation = project, !.life = deletes])
    BY DEF StartRefresh
  <1> DEFINE j == [NoJob EXCEPT !.file = f, !.generation = project, !.life = deletes]
  <1>0. NoJob \in Job /\ deletes \in Nat /\ project \in Nat
    BY NoJobType DEF StartRefresh, IInv, TypeOK
  <1>2. /\ j \in Job /\ j.file = f /\ j.life = deletes /\ j.generation = project
        /\ j.graph = Empty
    BY <1>0 DEF Job, NoJob
  <1> HIDE DEF j
  <1>3. /\ pc' \in [Worker -> PCs] /\ pc'[w] = "discover"
        /\ \A v \in Worker \ {w} : pc'[v] = pc[v]
    BY GotoFacts DEF StartRefresh, IInv, TypeOK, PCs
  <1>4. /\ job' \in [Worker -> Job] /\ job'[w] = j
        /\ \A v \in Worker \ {w} : job'[v] = job[v]
    BY <1>1, <1>2, SetFacts DEF IInv, TypeOK, j
  <1>5. /\ deletes' = deletes /\ deletes \in Nat /\ project' = project /\ project \in Nat
        /\ f # NoFile
    BY GraphAssumption DEF StartRefresh, IInv, TypeOK
  <1>6. WorkerInv(w)'
    BY <1>2, <1>3, <1>4, <1>5, GraphAssumption DEF WorkerInv, Behind, Kinds, Listed, Matched,
       Covered, RefreshReady, IndexReady, Loaded, IsRefresh
  <1>7. calls' \in 0..MaxCall
    BY GraphAssumption DEF StartRefresh, IInv, TypeOK
  <1> QED
    BY <1>3, <1>4, <1>6, <1>7, LocalStep DEF StartRefresh

LEMMA DiscoverStep ==
    ASSUME IInv, NEW w \in Worker, Discover(w)
    PROVE  IInv'
  <1> DEFINE j == [job[w] EXCEPT !.todo = Present(source)]
  <1>1. /\ job[w] \in Job /\ source \in Tree /\ hash \in Tree /\ nodes \in Tree
        /\ deletes \in Nat /\ project \in Nat \cup {NoProject}
    BY DEF IInv, TypeOK
  <1>2. /\ j \in Job /\ j.life = job[w].life /\ j.generation = job[w].generation
        /\ j.file = job[w].file
        /\ j.graph = job[w].graph
    BY <1>1 DEF Job, Present
  <1> HIDE DEF j
  <1>3. /\ pc' \in [Worker -> PCs] /\ pc'[w] = "list"
        /\ \A v \in Worker \ {w} : pc'[v] = pc[v]
    BY GotoFacts DEF Discover, IInv, TypeOK, PCs
  <1>4. /\ job' \in [Worker -> Job] /\ job'[w] = j
        /\ \A v \in Worker \ {w} : job'[v] = job[v]
    BY <1>2, SetFacts DEF Discover, IInv, TypeOK, j
  <1>5. /\ WorkerInv(w)
        /\ UNCHANGED <<project, hash, nodes, deletes>>
    BY DEF Discover, ReadOnly, IInv
  <1>6. WorkerInv(w)'
    BY <1>1, <1>2, <1>3, <1>4, <1>5 DEF Discover, WorkerInv, Behind, Kinds, Listed, Matched,
       Covered, RefreshReady, IndexReady, Loaded, IsRefresh, Overtaken
  <1> QED
    BY <1>3, <1>4, <1>6, LocalStep DEF Discover, ReadOnly, IInv, TypeOK

LEMMA ListFilesStep ==
    ASSUME IInv, NEW w \in Worker, ListFiles(w)
    PROVE  IInv'
  <1> DEFINE j == [job[w] EXCEPT !.records = hash]
  <1>1. /\ job[w] \in Job /\ source \in Tree /\ hash \in Tree /\ nodes \in Tree
        /\ deletes \in Nat /\ project \in Nat \cup {NoProject}
    BY DEF IInv, TypeOK
  <1>2. /\ j \in Job /\ j.life = job[w].life /\ j.generation = job[w].generation
        /\ j.file = job[w].file
        /\ j.graph = job[w].graph /\ j.records = hash
    BY <1>1 DEF Job
  <1> HIDE DEF j
  <1>3. /\ pc' \in [Worker -> PCs] /\ pc'[w] = "target"
        /\ \A v \in Worker \ {w} : pc'[v] = pc[v]
    BY GotoFacts DEF ListFiles, IInv, TypeOK, PCs
  <1>4. /\ job' \in [Worker -> Job] /\ job'[w] = j
        /\ \A v \in Worker \ {w} : job'[v] = job[v]
    BY <1>2, SetFacts DEF ListFiles, IInv, TypeOK, j
  <1>5. /\ WorkerInv(w)
        /\ UNCHANGED <<project, hash, nodes, deletes>>
    BY DEF ListFiles, ReadOnly, IInv
  <1>6. WorkerInv(w)'
    BY <1>1, <1>2, <1>3, <1>4, <1>5 DEF ListFiles, WorkerInv, Behind, Kinds, Listed, Matched,
       Covered, RefreshReady, IndexReady, Loaded, IsRefresh, Overtaken
  <1> QED
    BY <1>3, <1>4, <1>6, LocalStep DEF ListFiles, ReadOnly, IInv, TypeOK

LEMMA RefreshMissingStep ==
    ASSUME IInv, NEW w \in Worker, RefreshMissing(w)
    PROVE  IInv'
  <1> DEFINE j == [job[w] EXCEPT !.records[job[w].file] = Absent, !.todo = Others(job[w])]
  <1>1. CASE Return(w)
    BY <1>1, ReturnStep DEF RefreshMissing
  <1>2. CASE Goto(w, "match") /\ Set(w, j)
    <2>1. /\ job[w] \in Job /\ hash \in Tree /\ WorkerInv(w) /\ pc[w] = "target"
          /\ job[w].file \in File /\ job[w].graph = Empty
          /\ UNCHANGED <<source, project, hash, nodes, vectors, calls, writes, deletes>>
      BY DEF RefreshMissing, ReadOnly, IInv, TypeOK, WorkerInv, Kinds, IsRefresh, Job
    <2>2. /\ j \in Job /\ j.file = job[w].file /\ j.life = job[w].life
          /\ j.generation = job[w].generation /\ j.graph = Empty /\ j.file \notin j.todo
          /\ j.records[j.file] = Absent
          /\ \A f \in File \ {j.file} : j.records[f] = job[w].records[f]
      BY <2>1 DEF Job, Tree, Others
    <2> HIDE DEF j
    <2>3. /\ pc' \in [Worker -> PCs] /\ pc'[w] = "match"
          /\ \A v \in Worker \ {w} : pc'[v] = pc[v]
      BY <1>2, GotoFacts DEF IInv, TypeOK, PCs
    <2>4. /\ job' \in [Worker -> Job] /\ job'[w] = j
          /\ \A v \in Worker \ {w} : job'[v] = job[v]
      BY <1>2, <2>2, SetFacts DEF IInv, TypeOK
    <2>5. Matched(w)'
      BY <2>1, <2>2, <2>4 DEF Matched, WorkerInv, Listed, Overtaken, Empty
    <2>6. WorkerInv(w)'
      BY <2>1, <2>2, <2>3, <2>4, <2>5 DEF WorkerInv, Behind, Kinds, Listed, Covered,
         RefreshReady, IndexReady, Loaded, IsRefresh
    <2> QED
      BY <2>1, <2>3, <2>4, <2>6, LocalStep DEF IInv, TypeOK
  <1> QED
    BY <1>1, <1>2 DEF RefreshMissing

LEMMA RefreshTargetStep ==
    ASSUME IInv, NEW w \in Worker, RefreshTarget(w)
    PROVE  IInv'
  <1> DEFINE content == source[job[w].file]
             j == [job[w] EXCEPT !.records[job[w].file] = content,
                                 !.graph[job[w].file] = content,
                                 !.todo = Others(job[w])]
  <1>1. CASE Return(w)
    BY <1>1, ReturnStep DEF RefreshTarget
  <1>2. CASE Goto(w, "match") /\ Set(w, j)
    <2>1. /\ job[w] \in Job /\ source \in Tree /\ hash \in Tree /\ WorkerInv(w)
          /\ pc[w] = "target" /\ job[w].file \in File /\ job[w].graph = Empty
          /\ UNCHANGED <<source, project, hash, nodes, vectors, calls, writes, deletes>>
      BY DEF RefreshTarget, ReadOnly, IInv, TypeOK, WorkerInv, Kinds, IsRefresh, Job
    <2>2. /\ j \in Job /\ j.file = job[w].file /\ j.life = job[w].life
          /\ j.generation = job[w].generation /\ j.file \notin j.todo
          /\ j.records[j.file] = content /\ j.graph[j.file] = content
          /\ \A f \in File \ {j.file} : j.records[f] = job[w].records[f]
          /\ \A f \in File \ {j.file} : j.graph[f] = Absent
      BY <2>1 DEF Job, Tree, Others, Empty
    <2> HIDE DEF j
    <2>3. /\ pc' \in [Worker -> PCs] /\ pc'[w] = "match"
          /\ \A v \in Worker \ {w} : pc'[v] = pc[v]
      BY <1>2, GotoFacts DEF IInv, TypeOK, PCs
    <2>4. /\ job' \in [Worker -> Job] /\ job'[w] = j
          /\ \A v \in Worker \ {w} : job'[v] = job[v]
      BY <1>2, <2>2, SetFacts DEF IInv, TypeOK
    <2>5. Matched(w)'
      BY <2>1, <2>2, <2>4 DEF Matched, WorkerInv, Listed, Overtaken
    <2>6. WorkerInv(w)'
      BY <2>1, <2>2, <2>3, <2>4, <2>5 DEF WorkerInv, Behind, Kinds, Listed, Covered,
         RefreshReady, IndexReady, Loaded, IsRefresh
    <2> QED
      BY <2>1, <2>3, <2>4, <2>6, LocalStep DEF IInv, TypeOK
  <1> QED
    BY <1>1, <1>2 DEF RefreshTarget

LEMMA MatchRecordStep ==
    ASSUME IInv, NEW w \in Worker, MatchRecord(w)
    PROVE  IInv'
  <1>1. PICK f \in job[w].todo :
           \/ /\ source[f] # Absent
              /\ Set(w, [job[w] EXCEPT
                     !.todo = @ \ {f},
                     !.graph[f] = IF source[f] = job[w].records[f] /\ source[f] \in Accepted
                                  THEN source[f] ELSE @])
              /\ UNCHANGED pc
           \/ source[f] = Absent /\ Return(w)
    BY DEF MatchRecord
  <1> DEFINE j == [job[w] EXCEPT
                     !.todo = @ \ {f},
                     !.graph[f] = IF source[f] = job[w].records[f] /\ source[f] \in Accepted
                                  THEN source[f] ELSE @]
  <1>2. CASE Return(w)
    BY <1>2, ReturnStep DEF MatchRecord
  <1>3. CASE source[f] # Absent /\ Set(w, j) /\ UNCHANGED pc
    <2>1. /\ job[w] \in Job /\ source \in Tree /\ nodes \in Tree /\ f \in File
          /\ WorkerInv(w) /\ pc[w] = "match" /\ pc' = pc
          /\ UNCHANGED <<source, project, hash, nodes, vectors, calls, writes, deletes>>
      BY <1>3 DEF MatchRecord, ReadOnly, IInv, TypeOK, Job
    <2>2. /\ j \in Job /\ j.file = job[w].file /\ j.life = job[w].life
          /\ j.generation = job[w].generation /\ j.todo = job[w].todo \ {f}
          /\ j.records = job[w].records
          /\ \A g \in File \ {f} : j.graph[g] = job[w].graph[g]
          /\ j.graph[f] \in {job[w].graph[f], job[w].records[f]}
      BY <2>1 DEF Job, Tree
    <2> HIDE DEF j
    <2>3. /\ job' \in [Worker -> Job] /\ job'[w] = j
          /\ \A v \in Worker \ {w} : job'[v] = job[v]
      BY <1>3, <2>2, SetFacts DEF IInv, TypeOK
    <2>4. Matched(w)'
      BY <2>1, <2>2, <2>3 DEF Matched, WorkerInv, Overtaken, Kinds, IsRefresh, Job
    <2>9. WorkerInv(w)'
      BY <2>1, <2>2, <2>3, <2>4 DEF WorkerInv, Behind, Kinds, Listed, Covered,
         RefreshReady, IndexReady, Loaded, IsRefresh
    <2> QED
      BY <2>1, <2>3, <2>9, LocalStep DEF IInv, TypeOK
  <1> QED
    BY <1>1, <1>2, <1>3

LEMMA AssembleGraphStep ==
    ASSUME IInv, NEW w \in Worker, AssembleGraph(w)
    PROVE  IInv'
  <1> DEFINE todo == {f \in File : job[w].records[f] # Absent /\ job[w].graph[f] = Absent}
             j == [job[w] EXCEPT !.todo = todo]
  <1>1. /\ job[w] \in Job /\ WorkerInv(w) /\ pc[w] = "match"
        /\ UNCHANGED <<source, project, hash, nodes, vectors, calls, writes, deletes>>
    BY DEF AssembleGraph, ReadOnly, IInv, TypeOK
  <1>2. /\ j \in Job /\ j.file = job[w].file /\ j.life = job[w].life
        /\ j.generation = job[w].generation /\ j.todo = todo
        /\ j.records = job[w].records /\ j.graph = job[w].graph
    BY <1>1 DEF Job
  <1> HIDE DEF j
  <1>3. /\ pc' \in [Worker -> PCs] /\ pc'[w] = "assemble"
        /\ \A v \in Worker \ {w} : pc'[v] = pc[v]
    BY GotoFacts DEF AssembleGraph, IInv, TypeOK, PCs
  <1>4. /\ job' \in [Worker -> Job] /\ job'[w] = j
        /\ \A v \in Worker \ {w} : job'[v] = job[v]
    BY <1>2, SetFacts DEF AssembleGraph, IInv, TypeOK, j
  <1>5. Covered(w)'
    BY <1>1, <1>2, <1>4 DEF WorkerInv, Matched, Covered
  <1>6. RefreshReady(w)'
    BY <1>1, <1>2, <1>4 DEF WorkerInv, Matched, RefreshReady, Overtaken
  <1>7. WorkerInv(w)'
    BY <1>1, <1>2, <1>3, <1>4, <1>5, <1>6 DEF WorkerInv, Behind, Kinds, Listed, Matched,
       IndexReady, Loaded, IsRefresh
  <1> QED
    BY <1>1, <1>3, <1>4, <1>7, LocalStep DEF IInv, TypeOK

LEMMA ReuseFileGraphStep ==
    ASSUME IInv, NEW w \in Worker, ReuseFileGraph(w)
    PROVE  IInv'
  <1>1. PICK f \in job[w].todo :
           \/ /\ nodes[f] # Absent
              /\ Set(w, [job[w] EXCEPT !.todo = @ \ {f}, !.graph[f] = nodes[f]])
              /\ UNCHANGED pc
           \/ nodes[f] = Absent /\ Return(w)
    BY DEF ReuseFileGraph
  <1> DEFINE j == [job[w] EXCEPT !.todo = @ \ {f}, !.graph[f] = nodes[f]]
  <1>2. CASE Return(w)
    BY <1>2, ReturnStep DEF ReuseFileGraph
  <1>3. CASE nodes[f] # Absent /\ Set(w, j) /\ UNCHANGED pc
    <2>1. /\ job[w] \in Job /\ source \in Tree /\ nodes \in Tree /\ f \in File
          /\ WorkerInv(w) /\ pc[w] = "assemble" /\ pc' = pc
          /\ UNCHANGED <<source, project, hash, nodes, vectors, calls, writes, deletes>>
      BY <1>3 DEF ReuseFileGraph, ReadOnly, IInv, TypeOK, Job
    <2>2. /\ j \in Job /\ j.file = job[w].file /\ j.life = job[w].life
          /\ j.generation = job[w].generation /\ j.todo = job[w].todo \ {f}
          /\ j.records = job[w].records
          /\ \A g \in File \ {f} : j.graph[g] = job[w].graph[g]
          /\ j.graph[f] = nodes[f]
      BY <2>1 DEF Job, Tree
    <2> HIDE DEF j
    <2>3. /\ job' \in [Worker -> Job] /\ job'[w] = j
          /\ \A v \in Worker \ {w} : job'[v] = job[v]
      BY <1>3, <2>2, SetFacts DEF IInv, TypeOK
    <2>4. IsRefresh(w)
      BY <2>1 DEF WorkerInv, IndexReady
    <2>5. Covered(w)'
      BY <1>3, <2>1, <2>2, <2>3 DEF Covered, WorkerInv
    <2>6. RefreshReady(w)'
      BY <2>1, <2>2, <2>3, <2>4 DEF RefreshReady, WorkerInv, Overtaken, IsRefresh, Job
    <2>9. WorkerInv(w)'
      BY <2>1, <2>2, <2>3, <2>4, <2>5, <2>6 DEF WorkerInv, Behind, Kinds, Listed, Matched,
         IndexReady, Loaded, IsRefresh
    <2> QED
      BY <2>1, <2>3, <2>9, LocalStep DEF IInv, TypeOK
  <1> QED
    BY <1>1, <1>2, <1>3

LEMMA RebuildCrossLinksStep ==
    ASSUME IInv, NEW w \in Worker, RebuildCrossLinks(w)
    PROVE  IInv'
  <1>1. CASE Return(w)
    BY <1>1, ReturnStep DEF RebuildCrossLinks
  <1>2. CASE Goto(w, "semantic") /\ UNCHANGED job
    <2>1. /\ WorkerInv(w)
          /\ UNCHANGED <<source, project, hash, nodes, vectors, calls, writes, deletes>>
      BY DEF RebuildCrossLinks, ReadOnly, IInv
    <2>2. /\ pc' \in [Worker -> PCs] /\ pc'[w] = "semantic"
          /\ \A v \in Worker \ {w} : pc'[v] = pc[v]
      BY <1>2, GotoFacts DEF IInv, TypeOK, PCs
    <2>3. WorkerInv(w)'
      BY <1>2, <2>1, <2>2 DEF WorkerInv, Behind, Kinds, Listed, Matched, Covered,
         RefreshReady, IndexReady, Loaded
    <2> QED
      BY <1>2, <2>1, <2>2, <2>3, LocalStep DEF IInv, TypeOK
  <1> QED
    BY <1>1, <1>2 DEF RebuildCrossLinks

LEMMA LoadSemanticNodesStep ==
    ASSUME IInv, NEW w \in Worker, LoadSemanticNodes(w)
    PROVE  IInv'
  <1> DEFINE j == [job[w] EXCEPT !.graph = nodes]
  <1>1. /\ job[w] \in Job /\ nodes \in Tree /\ WorkerInv(w)
        /\ UNCHANGED <<source, project, hash, nodes, vectors, calls, writes, deletes>>
    BY DEF LoadSemanticNodes, ReadOnly, IInv, TypeOK
  <1>2. /\ j \in Job /\ j.life = job[w].life /\ j.generation = job[w].generation
        /\ j.file = job[w].file /\ j.graph = nodes
    BY <1>1 DEF Job
  <1> HIDE DEF j
  <1>3. /\ pc' \in [Worker -> PCs] /\ pc'[w] = "vectors"
        /\ \A v \in Worker \ {w} : pc'[v] = pc[v]
    BY GotoFacts DEF LoadSemanticNodes, IInv, TypeOK, PCs
  <1>4. /\ job' \in [Worker -> Job] /\ job'[w] = j
        /\ \A v \in Worker \ {w} : job'[v] = job[v]
    BY <1>2, SetFacts DEF LoadSemanticNodes, IInv, TypeOK, j
  <1>5. WorkerInv(w)'
    BY <1>1, <1>2, <1>3, <1>4 DEF WorkerInv, Behind, Kinds, Listed, Matched, Covered,
       RefreshReady, IndexReady, Loaded
  <1> QED
    BY <1>1, <1>3, <1>4, <1>5, LocalStep DEF IInv, TypeOK

-----------------------------------------------------------------------------
(* Steps that write the store, and the environment's                       *)

LEMMA ReplaceSemanticIndexStep ==
    ASSUME IInv, NEW w \in Worker, ReplaceSemanticIndex(w)
    PROVE  IInv'
  <1>1. /\ job[w] \in Job /\ WorkerInv(w) /\ VectorsCurrent /\ Return(w)
        /\ hash \in Tree /\ nodes \in Tree /\ vectors \in Tree \cup {NoVectors}
        /\ deletes \in Nat
        /\ UNCHANGED <<source, project, hash, nodes, calls, writes, deletes>>
    BY DEF ReplaceSemanticIndex, IInv, TypeOK, StoreInv
  <1>2. /\ pc' \in [Worker -> PCs] /\ pc'[w] = "idle"
        /\ \A v \in Worker \ {w} : pc'[v] = pc[v]
    BY <1>1, GotoFacts DEF Return, IInv, TypeOK, PCs
  <1>3. /\ job' \in [Worker -> Job] /\ job'[w] = NoJob
        /\ \A v \in Worker \ {w} : job'[v] = job[v]
    BY <1>1, SetFacts, NoJobType DEF Return, IInv, TypeOK
  <1>4. vectors' \in Tree \cup {NoVectors}
    BY <1>1 DEF ReplaceSemanticIndex, Job
  <1>5. VectorsCurrent'
    BY <1>1 DEF ReplaceSemanticIndex, VectorsCurrent, WorkerInv, Loaded
  <1>6. TypeOK'
    BY <1>1, <1>2, <1>3, <1>4 DEF IInv, TypeOK
  <1>7. StoreInv'
    BY <1>1, <1>5 DEF IInv, StoreInv, RowsBelong, GraphCoversFiles
  <1>8. WorkerInv(w)'
    BY <1>1, <1>2, <1>3 DEF WorkerInv, Behind, Kinds, Listed, Matched, Covered,
       RefreshReady, IndexReady, Loaded, NoJob
  <1>9. \A v \in Worker \ {w} : WorkerInv(v)'
    BY <1>1, <1>2, <1>3, Elsewhere DEF IInv
  <1> QED
    BY <1>6, <1>7, <1>8, <1>9 DEF IInv

LEMMA ReplaceProjectGraphStep ==
    ASSUME IInv, NEW w \in Worker, ReplaceProjectGraph(w)
    PROVE  IInv'
  <1> DEFINE j == [job[w] EXCEPT !.generation = project']
  <1>1. /\ job[w] \in Job /\ WorkerInv(w) /\ pc[w] = "assemble" /\ job[w].todo = {}
        /\ project' = NextGeneration(job[w].generation)
        /\ hash' = job[w].records /\ nodes' = job[w].graph /\ vectors' = NoVectors
        /\ UNCHANGED <<source, calls, writes, deletes>>
        /\ deletes \in Nat
    BY DEF ReplaceProjectGraph, IInv, TypeOK
  <1>2. project' \in Nat
    BY <1>1, GraphAssumption DEF NextGeneration, Job, IInv, TypeOK
  <1>3. /\ j \in Job /\ j.life = job[w].life /\ j.generation = project'
    BY <1>1, <1>2 DEF Job
  <1> HIDE DEF j
  <1>4. /\ pc' \in [Worker -> PCs] /\ pc'[w] = "link"
        /\ \A v \in Worker \ {w} : pc'[v] = pc[v]
    BY GotoFacts DEF ReplaceProjectGraph, IInv, TypeOK, PCs
  <1>5. /\ job' \in [Worker -> Job] /\ job'[w] = j
        /\ \A v \in Worker \ {w} : job'[v] = job[v]
    BY <1>3, SetFacts DEF ReplaceProjectGraph, IInv, TypeOK, j
  <1>6. TypeOK'
    BY <1>1, <1>2, <1>4, <1>5 DEF IInv, TypeOK, Job
  <1>7. GraphCoversFiles'
    BY <1>1 DEF GraphCoversFiles, Present, WorkerInv, Covered
  <1>8. StoreInv'
    BY <1>1, <1>2, <1>7, GraphAssumption DEF StoreInv, RowsBelong, VectorsCurrent
  <1>9. WorkerInv(w)'
    <2>1. Behind(w)'
      BY <1>1, <1>2, <1>3, <1>5, GraphAssumption DEF WorkerInv, Behind
    <2> QED
      BY <1>4, <2>1 DEF WorkerInv, Kinds, Listed, Matched, Covered, RefreshReady,
         IndexReady, Loaded
  <1>10. \A v \in Worker \ {w} : WorkerInv(v)'
    BY <1>1, <1>4, <1>5, CommitOvertakes DEF IInv, Job
  <1> QED
    BY <1>6, <1>8, <1>9, <1>10 DEF IInv

LEMMA DeleteProjectStep ==
    ASSUME IInv, DeleteProject
    PROVE  IInv'
  <1>1. Empty \in Tree
    BY DEF Empty, Tree
  <1>2. TypeOK'
    BY <1>1, GraphAssumption DEF DeleteProject, IInv, TypeOK
  <1>3. StoreInv'
    BY DEF DeleteProject, StoreInv, RowsBelong, GraphCoversFiles, VectorsCurrent
  <1>4. \A v \in Worker : WorkerInv(v)'
    BY DeletionOvertakes DEF IInv
  <1> QED
    BY <1>2, <1>3, <1>4 DEF IInv

LEMMA WriteSourceStep ==
    ASSUME IInv, WriteSource
    PROVE  IInv'
  <1>1. UNCHANGED <<project, hash, nodes, vectors, pc, job, calls, deletes>>
    BY DEF WriteSource
  <1>2. TypeOK'
    BY <1>1, GraphAssumption DEF WriteSource, IInv, TypeOK, Tree
  <1>3. StoreInv'
    BY <1>1 DEF IInv, StoreInv, RowsBelong, GraphCoversFiles, VectorsCurrent
  <1>4. \A v \in Worker : WorkerInv(v)'
    BY <1>1, Elsewhere DEF IInv
  <1> QED
    BY <1>2, <1>3, <1>4 DEF IInv

-----------------------------------------------------------------------------
(* The invariant                                                           *)

LEMMA InitIInv == Init => IInv
  <1> SUFFICES ASSUME Init PROVE IInv
    OBVIOUS
  <1>1. TypeOK
    BY GraphAssumption, NoJobType DEF Init, TypeOK, PCs, Tree, Empty
  <1>2. StoreInv
    BY GraphAssumption DEF Init, StoreInv, RowsBelong, GraphCoversFiles, VectorsCurrent
  <1>3. ASSUME NEW w \in Worker PROVE WorkerInv(w)
    <2>1. pc[w] = "idle" /\ job[w] = NoJob /\ deletes = 0
      BY DEF Init
    <2> QED
      BY <2>1 DEF NoJob, WorkerInv, Behind, Kinds, Listed, Matched, Covered, RefreshReady,
         IndexReady, Loaded
  <1> QED
    BY <1>1, <1>2, <1>3 DEF IInv

LEMMA NextIInv == IInv /\ [Next]_vars => IInv'
  <1> SUFFICES ASSUME IInv, [Next]_vars PROVE IInv'
    OBVIOUS
  <1>1. ASSUME NEW w \in Worker, Index(w) PROVE IInv'
    BY <1>1, StartIndexStep, GetProjectStep, ReadCandidateStep, ClassifyChangesStep,
       LoadSemanticNodesStep, ReplaceSemanticIndexStep DEF Index
  <1>2. ASSUME NEW w \in Worker, Refresh(w) PROVE IInv'
    BY <1>2, StartRefreshStep, DiscoverStep, ListFilesStep, RefreshMissingStep,
       RefreshTargetStep, MatchRecordStep, AssembleGraphStep, ReuseFileGraphStep DEF Refresh
  <1>3. ASSUME NEW w \in Worker, Commit(w) PROVE IInv'
    BY <1>3, ReplaceProjectGraphStep, RebuildCrossLinksStep DEF Commit
  <1>4. ASSUME NEW w \in Worker, Abandon(w) PROVE IInv'
    BY <1>4, ReturnStep DEF Abandon
  <1>5. CASE UNCHANGED vars
    BY <1>5, Elsewhere DEF vars, IInv, TypeOK, StoreInv, RowsBelong, GraphCoversFiles,
       VectorsCurrent
  <1> QED
    BY <1>1, <1>2, <1>3, <1>4, <1>5, DeleteProjectStep, WriteSourceStep DEF Next

LEMMA Invariance == Spec => []IInv
  BY InitIInv, NextIInv, PTL DEF Spec

-----------------------------------------------------------------------------
(* The properties                                                          *)

\* Every reachable state is well typed.
THEOREM TypeCorrect == Spec => []TypeOK
  <1>1. IInv => TypeOK
    BY DEF IInv
  <1> QED
    BY <1>1, Invariance, PTL

\* Whichever calls overlap, abort or lose the project under their feet, the files
\* that have a row are the files that have nodes.
THEOREM RowsHaveNodes == Spec => []GraphCoversFiles
  <1>1. IInv => GraphCoversFiles
    BY DEF IInv, StoreInv
  <1> QED
    BY <1>1, Invariance, PTL

\* While the project is never deleted, stored vectors are those of the stored
\* nodes: comparing generations is enough to refuse late ones.
THEOREM VectorsFollowNodes == Spec => []VectorsCurrent
  <1>1. IInv => VectorsCurrent
    BY DEF IInv, StoreInv
  <1> QED
    BY <1>1, Invariance, PTL

\* A refresh no other commit overtook changes no file but its target.
LEMMA RefreshCommitKeeps ==
    ASSUME IInv, NEW w \in Worker, RefreshCommit(w), ~Overtaken(w)
    PROVE  KeepsOthers(w)
  <1>1. /\ RefreshReady(w) /\ Covered(w) /\ GraphCoversFiles /\ job[w] \in Job
        /\ pc[w] = "assemble" /\ job[w].todo = {} /\ IsRefresh(w)
        /\ hash' = job[w].records /\ nodes' = job[w].graph
    BY DEF RefreshCommit, ReplaceProjectGraph, IInv, TypeOK, StoreInv, WorkerInv
  <1>2. hash'[job[w].file] = nodes'[job[w].file]
    BY <1>1 DEF RefreshReady
  <1>3. ASSUME NEW f \in File \ {job[w].file}
        PROVE  hash'[f] = hash[f] /\ nodes'[f] \in {nodes[f], hash[f]}
    <2>1. /\ job[w].records[f] = hash[f]
          /\ job[w].graph[f] \in {Absent, hash[f], nodes[f]}
      BY <1>1, <1>3 DEF RefreshReady
    <2>2. hash[f] # Absent => job[w].graph[f] # Absent
      BY <1>1, <2>1 DEF Covered
    <2> QED
      BY <1>1, <2>1, <2>2
  <1> QED
    BY <1>2, <1>3 DEF KeepsOthers

\* A refresh that no other commit overtook keeps the rows and nodes of every
\* other file, or repairs nodes that were not those of their row.
THEOREM RefreshIsLocal == Spec => RefreshKeepsOthers
  <1>1. IInv /\ [Next]_vars =>
          [\A w \in Worker : RefreshCommit(w) /\ ~Overtaken(w) => KeepsOthers(w)]_vars
    BY RefreshCommitKeeps
  <1> QED
    BY <1>1, Invariance, PTL DEF Spec, RefreshKeepsOthers

\* What parsed before is replaced by what parses, unless another commit came
\* between the classification and the commit.
THEOREM BrokenSourceIsRefused == Spec => BrokenSourceKeepsGraph
  <1>1. ASSUME IInv, NEW w \in Worker, IndexCommit(w), ~Overtaken(w), NEW f \in File,
               nodes[f] \in Accepted
        PROVE  nodes'[f] \notin Content \ Accepted
    <2>1. /\ IndexReady(w) /\ GraphCoversFiles /\ pc[w] = "assemble" /\ ~IsRefresh(w)
          /\ nodes' = job[w].graph
      BY <1>1 DEF IndexCommit, ReplaceProjectGraph, IInv, StoreInv, WorkerInv
    <2>2. hash[f] # Absent
      BY <1>1, <2>1, GraphAssumption DEF GraphCoversFiles, Present
    <2> QED
      BY <1>1, <2>1, <2>2 DEF IndexReady
  <1>2. IInv /\ [Next]_vars =>
          [\A w \in Worker : IndexCommit(w) /\ ~Overtaken(w) =>
             \A f \in File : nodes[f] \in Accepted => nodes'[f] \notin Content \ Accepted]_vars
    BY <1>1
  <1> QED
    BY <1>2, Invariance, PTL DEF Spec, BrokenSourceKeepsGraph

=============================================================================
