---------------------------- MODULE ProjectGraph ----------------------------
(***************************************************************************)
(* The stored graph of one project and the calls that write it:            *)
(* index_repository (goldeneye-index, then the semantic index of           *)
(* goldeneye-services) and refresh_file, which an edit calls.  Each reads  *)
(* the source tree and the store in several steps, and replaces the whole  *)
(* project in one transaction that does not compare generations.           *)
(*                                                                         *)
(* A content stands for a source and its hash; the nodes of a file stand   *)
(* for the content they were extracted from.  Edges, git history and other *)
(* projects are left out.                                                  *)
(***************************************************************************)
EXTENDS Naturals

CONSTANTS
    Worker,      \* threads inside a call
    File,        \* project-relative paths
    Content,     \* contents a source file may have
    Accepted,    \* those that parse without diagnostics
    Absent,      \* no file, no row
    NoProject,   \* no row in projects
    NoVectors,   \* no row in node_vectors
    NoFile,      \* an index call has no target file
    MaxCall,     \* bound on calls
    MaxWrite,    \* bound on changes of the source tree
    MaxDelete    \* bound on deletions of the project

ASSUME GraphAssumption ==
    /\ Accepted \subseteq Content
    /\ Absent \notin Content
    /\ NoProject \notin Nat
    /\ NoVectors \notin [File -> Content \cup {Absent}]
    /\ NoFile \notin File
    /\ MaxCall \in Nat /\ MaxWrite \in Nat /\ MaxDelete \in Nat

VARIABLES
    source,      \* the source tree
    project,     \* current_generation of the project's row
    hash,        \* content_hash of each row of files
    nodes,       \* what each file's rows of nodes were extracted from
    vectors,     \* what the rows of node_vectors were computed from
    pc, job,     \* where each worker is, and its local variables
    calls, writes, deletes

store == <<project, hash, nodes, vectors>>
vars == <<source, project, hash, nodes, vectors, pc, job, calls, writes, deletes>>

Tree == [File -> Content \cup {Absent}]
Empty == [f \in File |-> Absent]
Present(tree) == {f \in File : tree[f] # Absent}

PCs == {"idle", "project", "read", "discover", "list", "target", "match",
        "assemble", "link", "semantic", "vectors"}

Job == [file : File \cup {NoFile},          \* the target of a refresh
        full : BOOLEAN,                     \* the mode computes vectors
        generation : Nat \cup {NoProject},
        todo : SUBSET File,                 \* discovered, or left in a loop
        records : Tree,                     \* the rows of files to commit
        graph : Tree,                       \* the nodes to commit
        life : Nat]                         \* model only: deletions so far

NoJob == [file |-> NoFile, full |-> FALSE, generation |-> NoProject,
          todo |-> {}, records |-> Empty, graph |-> Empty, life |-> 0]

IsRefresh(w) == job[w].file # NoFile

\* The project is new, or indexed with every file as it was.
Init ==
    /\ source \in Tree
    /\ \/ project = NoProject /\ hash = Empty
       \/ project = 1 /\ hash = source
    /\ nodes = hash
    /\ vectors = NoVectors
    /\ pc = [w \in Worker |-> "idle"]
    /\ job = [w \in Worker |-> NoJob]
    /\ calls = 0 /\ writes = 0 /\ deletes = 0

Goto(w, label) == pc' = [pc EXCEPT ![w] = label]
Set(w, j) == job' = [job EXCEPT ![w] = j]
Return(w) == Goto(w, "idle") /\ Set(w, NoJob)
ReadOnly == UNCHANGED <<source, project, hash, nodes, vectors, calls, writes, deletes>>

-----------------------------------------------------------------------------
(* index_repository                                                        *)

StartIndex(w) ==
    /\ pc[w] = "idle" /\ calls < MaxCall
    /\ calls' = calls + 1
    /\ Goto(w, "project")
    /\ \E full \in BOOLEAN :
          Set(w, [NoJob EXCEPT !.full = full, !.todo = Present(source)])
    /\ UNCHANGED <<source, project, hash, nodes, vectors, writes, deletes>>

GetProject(w) ==
    /\ pc[w] = "project"
    /\ Goto(w, "read")
    /\ Set(w, [job[w] EXCEPT !.generation = project, !.life = deletes])
    /\ ReadOnly

\* A discovered file that is gone is an I/O error, which ends the call.
ReadCandidate(w) ==
    /\ pc[w] = "read"
    /\ \E f \in job[w].todo :
          \/ /\ source[f] # Absent
             /\ Set(w, [job[w] EXCEPT !.todo = @ \ {f}, !.records[f] = source[f]])
             /\ UNCHANGED pc
          \/ source[f] = Absent /\ Return(w)
    /\ ReadOnly

\* Mutant: diagnostics never reject an index.
RejectsNothing(existing, records) == FALSE

\* Some file the graph already has no longer parses.
RejectsExisting(existing, records) ==
    \E f \in File : existing[f] # Absent /\ records[f] \in Content \ Accepted

\* The sources are in memory: from here an index call reads no more of the tree.
ClassifyChanges(w) ==
    /\ pc[w] = "read" /\ job[w].todo = {}
    /\ LET existing == IF job[w].generation = NoProject THEN Empty ELSE hash
           records == job[w].records
       IN IF \/ job[w].generation # NoProject /\ records = existing
             \/ RejectsExisting(existing, records)
          THEN Goto(w, "semantic") /\ UNCHANGED job
          ELSE Goto(w, "assemble") /\ Set(w, [job[w] EXCEPT !.graph = records])
    /\ ReadOnly

-----------------------------------------------------------------------------
(* refresh_file                                                            *)

StartRefresh(w) ==
    /\ pc[w] = "idle" /\ calls < MaxCall
    /\ project # NoProject
    /\ calls' = calls + 1
    /\ Goto(w, "discover")
    /\ \E f \in File :
          Set(w, [NoJob EXCEPT !.file = f, !.generation = project, !.life = deletes])
    /\ UNCHANGED <<source, project, hash, nodes, vectors, writes, deletes>>

Discover(w) ==
    /\ pc[w] = "discover"
    /\ Goto(w, "list")
    /\ Set(w, [job[w] EXCEPT !.todo = Present(source)])
    /\ ReadOnly

ListFiles(w) ==
    /\ pc[w] = "list"
    /\ Goto(w, "target")
    /\ Set(w, [job[w] EXCEPT !.records = hash])
    /\ ReadOnly

\* The files parse_matching_records looks at: discovered, recorded, not the target.
Others(j) == {f \in j.todo \ {j.file} : j.records[f] # Absent}

RefreshMissing(w) ==
    /\ pc[w] = "target" /\ job[w].file \notin job[w].todo
    /\ LET j == job[w]
       IN IF j.records[j.file] = Absent THEN Return(w)
          ELSE /\ Goto(w, "match")
               /\ Set(w, [j EXCEPT !.records[j.file] = Absent, !.todo = Others(j)])
    /\ ReadOnly

\* Unchanged, rejected and unreadable targets end the call.
RefreshTarget(w) ==
    /\ pc[w] = "target" /\ job[w].file \in job[w].todo
    /\ LET j == job[w]
           content == source[j.file]
       IN IF content \in Accepted /\ content # j.records[j.file]
          THEN /\ Goto(w, "match")
               /\ Set(w, [j EXCEPT !.records[j.file] = content,
                                   !.graph[j.file] = content,
                                   !.todo = Others(j)])
          ELSE Return(w)
    /\ ReadOnly

\* Mutant: the source is parsed without comparing its hash with the record's.
MatchAnyContent(w) ==
    /\ pc[w] = "match"
    /\ \E f \in job[w].todo :
          \/ /\ source[f] # Absent
             /\ Set(w, [job[w] EXCEPT
                          !.todo = @ \ {f},
                          !.graph[f] = IF source[f] \in Accepted THEN source[f] ELSE @])
             /\ UNCHANGED pc
          \/ source[f] = Absent /\ Return(w)
    /\ ReadOnly

\* A file that still is what its record says is parsed again.
MatchRecord(w) ==
    /\ pc[w] = "match"
    /\ \E f \in job[w].todo :
          \/ /\ source[f] # Absent
             /\ Set(w, [job[w] EXCEPT
                          !.todo = @ \ {f},
                          !.graph[f] = IF source[f] = job[w].records[f] /\ source[f] \in Accepted
                                       THEN source[f] ELSE @])
             /\ UNCHANGED pc
          \/ source[f] = Absent /\ Return(w)
    /\ ReadOnly

AssembleGraph(w) ==
    /\ pc[w] = "match" /\ job[w].todo = {}
    /\ Goto(w, "assemble")
    /\ Set(w, [job[w] EXCEPT
                 !.todo = {f \in File : job[w].records[f] # Absent /\ job[w].graph[f] = Absent}])
    /\ ReadOnly

\* Mutant: a file without its node does not end the call.
ReuseFileGraphOrNothing(w) ==
    /\ pc[w] = "assemble"
    /\ \E f \in job[w].todo :
          /\ Set(w, [job[w] EXCEPT !.todo = @ \ {f}, !.graph[f] = nodes[f]])
          /\ UNCHANGED pc
    /\ ReadOnly

\* The graph of any other file is read from the store; a file without its node
\* ends the call.
ReuseFileGraph(w) ==
    /\ pc[w] = "assemble"
    /\ \E f \in job[w].todo :
          \/ /\ nodes[f] # Absent
             /\ Set(w, [job[w] EXCEPT !.todo = @ \ {f}, !.graph[f] = nodes[f]])
             /\ UNCHANGED pc
          \/ nodes[f] = Absent /\ Return(w)
    /\ ReadOnly

-----------------------------------------------------------------------------
(* The store, and what follows a commit                                    *)

\* Mutant: a project that was not stored is inserted below zero.
NextGenerationUnchecked(read) ==
    IF project = NoProject /\ read = NoProject THEN 0 - 1
    ELSE 1 + (IF project = NoProject THEN read ELSE project)

\* register_project_generation: a missing row is inserted with the generation
\* the caller read, zero for a project that was not stored.
NextGeneration(read) ==
    LET initial == IF read = NoProject THEN 0 ELSE read
    IN 1 + (IF project = NoProject THEN initial ELSE project)

\* replace_project_graph.  Deleting the nodes deletes their vectors.
ReplaceProjectGraph(w) ==
    /\ pc[w] = "assemble" /\ job[w].todo = {}
    /\ project' = NextGeneration(job[w].generation)
    /\ hash' = job[w].records
    /\ nodes' = job[w].graph
    /\ vectors' = NoVectors
    /\ Goto(w, "link")
    /\ Set(w, [job[w] EXCEPT !.generation = project'])
    /\ UNCHANGED <<source, calls, writes, deletes>>

\* Rebuilding cross-links fails when the project goes between its reads.
RebuildCrossLinks(w) ==
    /\ pc[w] = "link"
    /\ \/ ~IsRefresh(w) /\ Goto(w, "semantic") /\ UNCHANGED job
       \/ (IsRefresh(w) \/ project = NoProject) /\ Return(w)
    /\ ReadOnly

\* Only a full index computes vectors, from nodes it reads with a new connection.
LoadSemanticNodes(w) ==
    /\ pc[w] = "semantic" /\ job[w].full
    /\ Goto(w, "vectors")
    /\ Set(w, [job[w] EXCEPT !.graph = nodes])
    /\ ReadOnly

\* Mutant: the generation is not compared.
ReplaceSemanticIndexLate(w) ==
    /\ \/ pc[w] = "semantic" /\ ~job[w].full
       \/ pc[w] = "vectors"
    /\ project # NoProject
    /\ IF job[w].full
       THEN /\ Present(job[w].graph) \subseteq Present(nodes)
            /\ vectors' = job[w].graph
       ELSE vectors' = NoVectors
    /\ Return(w)
    /\ UNCHANGED <<source, project, hash, nodes, calls, writes, deletes>>

\* replace_semantic_index compares the generation.  A fast index deletes the
\* vectors.  Vectors of nodes that do not exist fail on the foreign key, which
\* vectors of other nodes of the same files may not.
ReplaceSemanticIndex(w) ==
    /\ \/ pc[w] = "semantic" /\ ~job[w].full
       \/ pc[w] = "vectors"
    /\ \/ /\ project = job[w].generation
          /\ IF job[w].full
             THEN /\ Present(job[w].graph) \subseteq Present(nodes)
                  /\ vectors' = job[w].graph
             ELSE vectors' = NoVectors
       \/ /\ project # job[w].generation \/ (job[w].full /\ job[w].graph # nodes)
          /\ UNCHANGED vectors
    /\ Return(w)
    /\ UNCHANGED <<source, project, hash, nodes, calls, writes, deletes>>

-----------------------------------------------------------------------------
(* The environment                                                         *)

\* A cancellation, an I/O or storage error, or the end of the process.
Abandon(w) ==
    /\ pc[w] # "idle"
    /\ Return(w)
    /\ ReadOnly

DeleteProject ==
    /\ project # NoProject /\ deletes < MaxDelete
    /\ deletes' = deletes + 1
    /\ project' = NoProject
    /\ hash' = Empty /\ nodes' = Empty /\ vectors' = NoVectors
    /\ UNCHANGED <<source, pc, job, calls, writes>>

WriteSource ==
    /\ writes < MaxWrite
    /\ writes' = writes + 1
    /\ \E f \in File, c \in Content \cup {Absent} :
          c # source[f] /\ source' = [source EXCEPT ![f] = c]
    /\ UNCHANGED <<project, hash, nodes, vectors, pc, job, calls, deletes>>

Index(w) ==
    \/ StartIndex(w) \/ GetProject(w) \/ ReadCandidate(w) \/ ClassifyChanges(w)
    \/ LoadSemanticNodes(w) \/ ReplaceSemanticIndex(w)

Refresh(w) ==
    \/ StartRefresh(w) \/ Discover(w) \/ ListFiles(w) \/ RefreshMissing(w)
    \/ RefreshTarget(w) \/ MatchRecord(w) \/ AssembleGraph(w) \/ ReuseFileGraph(w)

Commit(w) == ReplaceProjectGraph(w) \/ RebuildCrossLinks(w)

Next ==
    \/ \E w \in Worker : Index(w) \/ Refresh(w) \/ Commit(w) \/ Abandon(w)
    \/ DeleteProject
    \/ WriteSource

Spec == Init /\ [][Next]_vars

-----------------------------------------------------------------------------
(* Properties                                                              *)

TypeOK ==
    /\ source \in Tree /\ hash \in Tree /\ nodes \in Tree
    /\ project \in Nat \cup {NoProject}
    /\ vectors \in Tree \cup {NoVectors}
    /\ pc \in [Worker -> PCs]
    /\ job \in [Worker -> Job]
    /\ calls \in 0..MaxCall /\ writes \in 0..MaxWrite /\ deletes \in 0..MaxDelete

\* Every row of files has its nodes and no nodes are without a row, whichever
\* calls overlap: a refresh that would keep the row of a file whose nodes another
\* call has removed fails instead (MissingFileNode).
GraphCoversFiles == Present(hash) = Present(nodes)

\* Vectors are those of the nodes they are stored beside, although they are
\* computed from nodes read by another connection after the commit: the
\* generation comparison of replace_semantic_index refuses late ones.  A project
\* that is deleted and indexed again starts from generation zero, so the
\* comparison says nothing across a deletion.
VectorsCurrent == deletes = 0 => vectors \in {NoVectors, nodes}

\* Another commit came between the call's first read of the project and now.
Overtaken(w) == project # job[w].generation \/ deletes # job[w].life

\* What refresh_file promises: the graphs of the other files stay, and the file
\* refreshed gets the nodes of the content it records.  A file whose nodes were
\* not those of its record may be repaired.
KeepsOthers(w) ==
    /\ hash'[job[w].file] = nodes'[job[w].file]
    /\ \A f \in File \ {job[w].file} :
          hash'[f] = hash[f] /\ nodes'[f] \in {nodes[f], hash[f]}

RefreshCommit(w) == ReplaceProjectGraph(w) /\ IsRefresh(w)
IndexCommit(w) == ReplaceProjectGraph(w) /\ ~IsRefresh(w)

\* A refresh that no other commit overtook keeps the other files, whatever
\* happened to the source tree meanwhile.
RefreshKeepsOthers ==
    [][\A w \in Worker : RefreshCommit(w) /\ ~Overtaken(w) => KeepsOthers(w)]_vars

\* An index that no other commit overtook never replaces the graph of a source
\* that parsed by that of one that does not.
BrokenSourceKeepsGraph ==
    [][\A w \in Worker : IndexCommit(w) /\ ~Overtaken(w) =>
          \A f \in File : nodes[f] \in Accepted => nodes'[f] \notin Content \ Accepted]_vars

=============================================================================
