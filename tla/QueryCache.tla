----------------------------- MODULE QueryCache -----------------------------
(***************************************************************************)
(* The cache of project graphs that goldeneye-query keeps for a process    *)
(* and the calls of goldeneye-services that change what it holds.  A graph *)
(* is looked up by the generation of its project, which only a commit of   *)
(* the project advances; its git enrichment and its cross-project edges    *)
(* change without it, and then the process that wrote them is to drop the  *)
(* cached graph.  Several processes share the store, each with a cache.    *)
(*                                                                         *)
(* What is stored stands for its stamp, which every write of it advances,  *)
(* the deletion included: a project that is gone reads as empty.           *)
(***************************************************************************)
EXTENDS Naturals

CONSTANTS
    Project,
    Host,       \* processes
    Asked,      \* those that are asked queries
    Writer,     \* threads that index, refresh, delete or rebuild
    HostOf,     \* the process of each
    MaxCall,    \* bound: calls that the writers begin
    NoProject

ASSUME HostAssumption == Asked \subseteq Host /\ HostOf \in [Writer -> Host]

VARIABLES
    store,      \* the projects' rows
    cache,      \* QueryCache::graphs of each process
    query,      \* the query that holds the engine of each process
    call,       \* where each writer is, and its local variables
    calls,      \* model only: calls begun
    due,        \* model only: what finished calls of a process oblige it to show
    racy        \* model only: projects with a deletion that others overlapped

vars == <<store, cache, query, call, calls, due, racy>>

-----------------------------------------------------------------------------
Stored == [gen : Nat,           \* 0: the project is not stored
           graph : Nat,         \* its files, nodes and local edges
           git : Nat,           \* the git history in its nodes and edges
           links : Nat]         \* CROSS_ edges

\* What list_nodes and list_edges returned, under the generation read before.
\* Its history is that of the nodes, which are read first.
Graph == [gen : Nat, nodes : Nat, edges : Nat, git : Nat, links : Nat]

NoGraph == [gen |-> 0, nodes |-> 0, edges |-> 0, git |-> 0, links |-> 0]

\* Stamps that an answer has to reach.
Due == [graph : Nat, git : Nat, rebuilt : Nat]

NothingDue == [graph |-> 0, git |-> 0, rebuilt |-> 0]

Query == [pc : {"idle", "before", "get", "load", "edges", "after", "answer"},
          project : Project \cup {NoProject},
          before : Nat,
          got : Graph,
          due : Due]            \* model only: what its answer has to show

Call == [pc : {"idle", "commit", "list", "links", "git", "invalidate"},
         kind : {"index", "refresh", "delete", "rebuild"},
         project : Project \cup {NoProject},
         todo : SUBSET Project, \* projects whose cross edges it has yet to write
         links : [Project -> Nat],  \* model only: stamps its cross edges reach
         git : Nat]             \* model only: the stamp of the history it wrote

NoQuery == [pc |-> "idle", project |-> NoProject, before |-> 0, got |-> NoGraph,
            due |-> NothingDue]

NoLinks == [p \in Project |-> 0]

NoCall == [pc |-> "idle", kind |-> "index", project |-> NoProject, todo |-> {},
           links |-> NoLinks, git |-> 0]

IsStored(p) == store[p].gen # 0

Init ==
    /\ store \in [Project -> {[gen |-> n, graph |-> 1, git |-> 1, links |-> 1] : n \in 0 .. 1}]
    /\ cache = [h \in Host |-> [p \in Project |-> NoGraph]]
    /\ query = [h \in Host |-> NoQuery]
    /\ call = [w \in Writer |-> NoCall]
    /\ calls = 0
    /\ due = [h \in Host |-> [p \in Project |-> NothingDue]]
    /\ racy = {}

-----------------------------------------------------------------------------
(* A query: with_query_engine lets one at a time in, cached_graph finds or *)
(* loads the graph.  cached_graph_at_generation is the same loop.          *)

Asking(h, pc) == h \in Asked /\ query[h].pc = pc
Goto(h, pc) == query' = [query EXCEPT ![h] = IF pc = "idle" THEN NoQuery
                                             ELSE [@ EXCEPT !.pc = pc]]
Reads == UNCHANGED <<store, call, calls, due, racy>>

\* A graph is cached, and under this generation.
Hit(h) ==
    /\ cache[h][query[h].project] # NoGraph
    /\ cache[h][query[h].project].gen = query[h].before

Ask(h, p) ==
    /\ Asking(h, "idle")
    /\ query' = [query EXCEPT ![h] =
                   [pc |-> "before", project |-> p, before |-> 0, got |-> NoGraph,
                    due |-> [due[h][p] EXCEPT !.graph = store[p].graph]]]
    /\ UNCHANGED cache /\ Reads

\* require_project: a project that is not stored ends the query.
ReadBefore(h) ==
    /\ Asking(h, "before")
    /\ LET gen == store[query[h].project].gen IN
       IF gen = 0 THEN Goto(h, "idle")
       ELSE query' = [query EXCEPT ![h].before = gen, ![h].pc = "get"]
    /\ UNCHANGED cache /\ Reads

\* Mutant: a cached graph of another generation is a hit, and empty.
GetAny(h) ==
    /\ Asking(h, "get")
    /\ query' = [query EXCEPT ![h].pc = IF cache[h][query[h].project] # NoGraph
                                       THEN "answer" ELSE "load",
                              ![h].got = IF Hit(h) THEN cache[h][query[h].project]
                                                   ELSE NoGraph]
    /\ UNCHANGED cache /\ Reads

\* QueryCache::get.
Get(h) ==
    /\ Asking(h, "get")
    /\ query' = [query EXCEPT ![h].pc = IF Hit(h) THEN "answer" ELSE "load",
                              ![h].got = IF Hit(h) THEN cache[h][query[h].project] ELSE @]
    /\ UNCHANGED cache /\ Reads

\* QueryCache::get_or_load takes the cache's lock and, unless the graph came
\* meanwhile, reads the nodes.  The lock is held while pc is "edges".
GetOrLoad(h) ==
    /\ Asking(h, "load")
    /\ LET p == query[h].project
           nodes == [NoGraph EXCEPT !.gen = query[h].before, !.nodes = store[p].graph,
                                    !.git = store[p].git]
       IN query' = [query EXCEPT
                      ![h].pc = IF Hit(h) THEN "after" ELSE "edges",
                      ![h].got = IF Hit(h) THEN cache[h][p] ELSE nodes]
    /\ UNCHANGED cache /\ Reads

\* It reads the edges, in a second statement, and inserts the graph.
LoadEdges(h) ==
    /\ Asking(h, "edges")
    /\ LET p == query[h].project
           graph == [query[h].got EXCEPT !.edges = store[p].graph, !.links = store[p].links]
       IN /\ query' = [query EXCEPT ![h].pc = "after", ![h].got = graph]
          /\ cache' = [cache EXCEPT ![h][p] = graph]
    /\ Reads

\* Mutant: the generation is not read again.
ReadAfterNever(h) ==
    /\ Asking(h, "after")
    /\ Goto(h, IF IsStored(query[h].project) THEN "answer" ELSE "idle")
    /\ UNCHANGED cache /\ Reads

\* The graph is the answer's if the generation is still the one read before.
ReadAfter(h) ==
    /\ Asking(h, "after")
    /\ LET gen == store[query[h].project].gen IN
       Goto(h, IF gen = 0 THEN "idle"
               ELSE IF gen = query[h].before THEN "answer" ELSE "before")
    /\ UNCHANGED cache /\ Reads

Return(h) == Asking(h, "answer") /\ Goto(h, "idle") /\ UNCHANGED cache /\ Reads

-----------------------------------------------------------------------------
(* The calls that write.                                                   *)

In(w, pc) == call[w].pc = pc
Continue(w, pc) == call' = [call EXCEPT ![w] = IF pc = "idle" THEN NoCall
                                              ELSE [@ EXCEPT !.pc = pc]]

\* The calls that put the graph of p.
Putting(w, p) == call[w].kind \in {"index", "refresh"} /\ call[w].project = p

StartCall(w, kind, p) ==
    /\ In(w, "idle") /\ calls < MaxCall
    /\ calls' = calls + 1
    /\ call' = [call EXCEPT ![w] = [pc |-> IF kind = "rebuild" THEN "list" ELSE "commit",
                                    kind |-> kind, project |-> p, todo |-> {},
                                    links |-> NoLinks, git |-> 0]]
    /\ racy' = IF \E d \in Writer : In(d, "invalidate") /\ call[d].kind = "delete"
                                      /\ call[d].project = p
               THEN racy \cup {p} ELSE racy
    /\ UNCHANGED <<store, cache, query, due>>

\* replace_project_graph of an index or of the refresh of an edited file: the
\* new graph has no history and no cross edges.
Commit(w) ==
    /\ In(w, "commit") /\ call[w].kind \in {"index", "refresh"}
    /\ LET p == call[w].project IN
       store' = [store EXCEPT ![p].gen = @ + 1, ![p].graph = @ + 1,
                              ![p].git = @ + 1, ![p].links = @ + 1]
    /\ Continue(w, "list")
    /\ UNCHANGED <<cache, query, calls, due, racy>>

\* An index that finds nothing changed, or a source it must not replace.
Unchanged(w) ==
    /\ In(w, "commit") /\ call[w].kind = "index"
    /\ Continue(w, "git")
    /\ UNCHANGED <<store, cache, query, calls, due, racy>>

\* crosslink::rebuild lists and loads the projects,
ListProjects(w) ==
    /\ In(w, "list")
    /\ call' = [call EXCEPT ![w].todo = {p \in Project : IsStored(p)},
                            ![w].links = [p \in Project |-> store[p].links + 1], ![w].pc = "links"]
    /\ UNCHANGED <<store, cache, query, calls, due, racy>>

\* and replaces the cross edges of each in a transaction of its own.
ReplaceLinks(w, p) ==
    /\ In(w, "links") /\ p \in call[w].todo /\ IsStored(p)
    /\ store' = [store EXCEPT ![p].links = @ + 1]
    /\ call' = [call EXCEPT ![w].todo = @ \ {p}]
    /\ UNCHANGED <<cache, query, calls, due, racy>>

\* It ends at a project that is gone, or at an error of the store.  Only the
\* rebuild that a client asked for drops the cached graphs all the same.
LinksFail(w) ==
    /\ In(w, "links")
    /\ call[w].kind = "rebuild" \/ \E p \in call[w].todo : ~IsStored(p)
    /\ call' = [call EXCEPT ![w] = IF @.kind = "rebuild"
                                   THEN [@ EXCEPT !.links = NoLinks, !.pc = "invalidate"]
                                   ELSE NoCall]
    /\ UNCHANGED <<store, cache, query, calls, due, racy>>

Later(a, b) == IF a < b THEN b ELSE a

\* The call ends, and its process owes later queries what it wrote.
Finish(w) ==
    /\ Continue(w, "idle")
    /\ due' = [due EXCEPT ![HostOf[w]] = [p \in Project |->
         [due[HostOf[w]][p] EXCEPT
            !.git = IF p = call[w].project THEN Later(@, call[w].git) ELSE @,
            !.rebuilt = IF call[w].kind = "rebuild" THEN Later(@, call[w].links[p]) ELSE @]]]

LinksDone(w) ==
    /\ In(w, "links") /\ call[w].todo = {}
    /\ CASE call[w].kind = "index" -> Continue(w, "git") /\ UNCHANGED due
         [] call[w].kind = "rebuild" -> Continue(w, "invalidate") /\ UNCHANGED due
         [] OTHER -> Finish(w)
    /\ UNCHANGED <<store, cache, query, calls, racy>>

\* replace_git_history keeps the generation.
GitHistory(w) ==
    /\ In(w, "git") /\ IsStored(call[w].project)
    /\ store' = [store EXCEPT ![call[w].project].git = @ + 1]
    /\ call' = [call EXCEPT ![w].git = store'[call[w].project].git,
                            ![w].pc = "invalidate"]
    /\ UNCHANGED <<cache, query, calls, due, racy>>

\* A root without history, or a project that is gone: a warning.
NoHistory(w) ==
    /\ In(w, "git")
    /\ Finish(w)
    /\ UNCHANGED <<store, cache, query, calls, racy>>

DeleteProject(w) ==
    /\ In(w, "commit") /\ call[w].kind = "delete"
    /\ LET p == call[w].project IN
       IF ~IsStored(p)
       THEN Continue(w, "idle") /\ UNCHANGED <<store, racy>>
       ELSE /\ store' = [store EXCEPT ![p] = [gen |-> 0, graph |-> @.graph + 1,
                                              git |-> @.git + 1, links |-> @.links + 1]]
            /\ Continue(w, "invalidate")
            /\ racy' = IF \/ \E v \in Writer : ~In(v, "idle") /\ Putting(v, p)
                          \/ \E h \in Asked : h # HostOf[w] \/ ~Asking(h, "idle")
                       THEN racy \cup {p} ELSE racy
    /\ UNCHANGED <<cache, query, calls, due>>

\* Mutant: the lock of the cache is not held while a graph is loaded.
InvalidateUnlocked(w) ==
    /\ In(w, "invalidate")
    /\ LET h == HostOf[w]
           dropped == IF call[w].kind = "rebuild" THEN Project ELSE {call[w].project}
       IN cache' = [cache EXCEPT ![h] = [p \in Project |->
                      IF p \in dropped THEN NoGraph ELSE cache[h][p]]]
    /\ Finish(w)
    /\ UNCHANGED <<store, query, calls, racy>>

\* invalidate_project, or invalidate_all after a rebuild, waits for the lock.
Invalidate(w) ==
    /\ In(w, "invalidate") /\ ~Asking(HostOf[w], "edges")
    /\ LET h == HostOf[w]
           dropped == IF call[w].kind = "rebuild" THEN Project ELSE {call[w].project}
       IN cache' = [cache EXCEPT ![h] = [p \in Project |->
                      IF p \in dropped THEN NoGraph ELSE cache[h][p]]]
    /\ Finish(w)
    /\ UNCHANGED <<store, query, calls, racy>>

-----------------------------------------------------------------------------
QueryStep(h) ==
    \/ ReadBefore(h) \/ Get(h) \/ GetOrLoad(h) \/ LoadEdges(h) \/ ReadAfter(h)
    \/ Return(h)

CallStep(w) ==
    \/ Commit(w) \/ Unchanged(w) \/ ListProjects(w)
    \/ \E p \in Project : ReplaceLinks(w, p)
    \/ LinksFail(w) \/ LinksDone(w) \/ GitHistory(w) \/ NoHistory(w)
    \/ DeleteProject(w) \/ Invalidate(w)

Next ==
    \/ \E h \in Host, p \in Project : Ask(h, p)
    \/ \E w \in Writer, p \in Project, kind \in {"index", "refresh", "delete", "rebuild"} :
          StartCall(w, kind, p)
    \/ \E h \in Host : QueryStep(h)
    \/ \E w \in Writer : CallStep(w)

Spec == Init /\ [][Next]_vars

-----------------------------------------------------------------------------
\* The type of the state.  What a query is about to answer with was loaded.
TypeOK ==
    /\ store \in [Project -> Stored]
    /\ cache \in [Host -> [Project -> Graph]]
    /\ query \in [Host -> Query] /\ call \in [Writer -> Call]
    /\ calls \in Nat /\ due \in [Host -> [Project -> Due]] /\ racy \subseteq Project
    /\ \A h \in Host : query[h].pc = "answer" => query[h].got.gen # 0

Answering(h) == query[h].pc = "answer" /\ query[h].project \notin racy

\* The nodes and the edges of an answer are from one commit, although they are
\* read by two statements and kept under a generation read before both.
AnswersAreOfOneCommit ==
    \A h \in Host : Answering(h) => query[h].got.nodes = query[h].got.edges

\* An answer is not older than the graph that was stored when it was asked, by
\* whatever process, nor than the history and the rebuilt cross edges that a
\* call of its own process had finished writing by then.  The cross edges that an
\* index or a refresh wrote may be missing: nothing drops the graph for them.
AnswersAreCurrent ==
    \A h \in Host : Answering(h) =>
       LET got == query[h].got  owed == query[h].due IN
       got.edges >= owed.graph /\ got.git >= owed.git /\ got.links >= owed.rebuilt
=============================================================================
