--------------------------- MODULE QueryCache_proofs ---------------------------
(***************************************************************************)
(* What QueryCache guarantees for any projects, processes and writers.     *)
(*                                                                         *)
(* A cached graph is judged by its generation: it is no newer than the     *)
(* stored one, lags behind it by no more commits than generations, and is  *)
(* the stored graph if the generations agree (Fresh).  A query trusts it   *)
(* only under the generation that it read, which it therefore has to       *)
(* relate to the stored one all along (Reading).  Generations begin anew   *)
(* when a project is deleted, so until the graph is dropped nothing may    *)
(* store the project (Gone); deletions of which others' calls keep that    *)
(* from being true are the racy ones.                                      *)
(***************************************************************************)
EXTENDS QueryCache, TLAPS

Types ==
    /\ store \in [Project -> Stored]
    /\ cache \in [Host -> [Project -> Graph]]
    /\ query \in [Host -> Query] /\ call \in [Writer -> Call]
    /\ calls \in Nat /\ due \in [Host -> [Project -> Due]] /\ racy \subseteq Project

\* A query that has read the generation.
Read == {"get", "load", "edges", "after", "answer"}

QueryShape(h) ==
    /\ query[h].pc # "idle" => h \in Asked /\ query[h].project \in Project
    /\ query[h].pc \in Read => query[h].before # 0
    /\ query[h].pc \in {"edges", "after", "answer"} => query[h].got.gen = query[h].before

CallShape(w) ==
    /\ call[w].pc # "idle" => call[w].project \in Project
    /\ call[w].pc = "git" => call[w].kind = "index"
    /\ call[w].pc # "invalidate" => call[w].git = 0

Shape == (\A h \in Host : QueryShape(h)) /\ (\A w \in Writer : CallShape(w))

\* Cross edges up to the stamp n are stored, or will be by the commit that stores p.
Written(n, p) == n <= store[p].links + (IF store[p].gen = 0 THEN 1 ELSE 0)

Promised(h, p) == due[h][p].git <= store[p].git /\ Written(due[h][p].rebuilt, p)

\* A query is to show no more than its process owes by now.
Expected(h) ==
    query[h].pc # "idle" =>
       /\ query[h].due.graph <= store[query[h].project].graph
       /\ query[h].due.git <= due[h][query[h].project].git
       /\ query[h].due.rebuilt <= due[h][query[h].project].rebuilt

\* What a call will owe is stored before it ends.
Owes(w) ==
    /\ call[w].pc # "idle" => call[w].git <= store[call[w].project].git
    /\ call[w].kind = "rebuild" /\ call[w].pc \in {"links", "invalidate"} =>
          \A p \in Project :
             /\ call[w].links[p] <= store[p].links + 1
             /\ call[w].pc = "invalidate" \/ p \notin call[w].todo
                   => Written(call[w].links[p], p)

Stamps ==
    /\ \A h \in Host, p \in Project : Promised(h, p)
    /\ \A h \in Host : Expected(h)
    /\ \A w \in Writer : Owes(w)

Deleting(w, p) ==
    call[w].pc = "invalidate" /\ call[w].kind = "delete" /\ call[w].project = p

Gone(p) ==
    \A w \in Writer : Deleting(w, p) =>
       /\ store[p].gen = 0
       /\ \A v \in Writer : call[v].pc = "idle" \/ ~Putting(v, p)

Agrees(c, p) ==
    /\ c.gen <= store[p].gen
    /\ store[p].graph + c.gen <= c.edges + store[p].gen
    /\ c.gen = store[p].gen => c.nodes = store[p].graph /\ c.edges = store[p].graph

Fresh(h, p) ==
    cache[h][p].gen # 0 =>
       /\ due[h][p].git <= cache[h][p].git /\ due[h][p].rebuilt <= cache[h][p].links
       /\ IF store[p].gen = 0 THEN \E w \in Writer : HostOf[w] = h /\ Deleting(w, p)
                              ELSE Agrees(cache[h][p], p)

Enough(q) ==
    /\ q.due.graph <= q.got.edges /\ q.due.git <= q.got.git
    /\ q.due.rebuilt <= q.got.links

Reading(h, p) ==
    query[h].pc \in Read /\ query[h].project = p =>
       /\ query[h].before <= store[p].gen
       /\ query[h].due.graph + store[p].gen <= store[p].graph + query[h].before
       /\ query[h].pc \in {"get", "load"} /\ cache[h][p].gen = query[h].before =>
             cache[h][p].nodes = cache[h][p].edges
       /\ query[h].pc = "edges" =>
             /\ due[h][p].git <= query[h].got.git
             /\ query[h].before = store[p].gen => query[h].got.nodes = store[p].graph
       /\ query[h].pc \in {"after", "answer"} => Enough(query[h])
       /\ query[h].pc = "after" /\ query[h].before = store[p].gen =>
             query[h].got.nodes = query[h].got.edges
       /\ query[h].pc = "answer" => query[h].got.nodes = query[h].got.edges

Kept(p) == Gone(p) /\ \A h \in Asked : Fresh(h, p) /\ Reading(h, p)

IInv == Types /\ Shape /\ Stamps /\ \A p \in Project \ racy : Kept(p)

-----------------------------------------------------------------------------
(* The values.                                                             *)

LEMMA StoreFields ==
    ASSUME Types, NEW p \in Project
    PROVE  /\ store[p] \in Stored
           /\ store[p].gen \in Nat /\ store[p].graph \in Nat
           /\ store[p].git \in Nat /\ store[p].links \in Nat
BY DEF Types, Stored

LEMMA CacheFields ==
    ASSUME Types, NEW h \in Host, NEW p \in Project
    PROVE  /\ cache[h][p] \in Graph
           /\ cache[h][p].gen \in Nat /\ cache[h][p].nodes \in Nat
           /\ cache[h][p].edges \in Nat /\ cache[h][p].git \in Nat
           /\ cache[h][p].links \in Nat
BY DEF Types, Graph

LEMMA DueFields ==
    ASSUME Types, NEW h \in Host, NEW p \in Project
    PROVE  /\ due[h][p] \in Due /\ due[h][p].graph \in Nat
           /\ due[h][p].git \in Nat /\ due[h][p].rebuilt \in Nat
BY DEF Types, Due

LEMMA QueryFields ==
    ASSUME NEW q \in Query
    PROVE  /\ q.pc \in {"idle", "before"} \cup Read /\ q.project \in Project \cup {NoProject}
           /\ q.before \in Nat /\ q.got \in Graph /\ q.due \in Due
           /\ q.got.gen \in Nat /\ q.got.nodes \in Nat /\ q.got.edges \in Nat
           /\ q.got.git \in Nat /\ q.got.links \in Nat
           /\ q.due.graph \in Nat /\ q.due.git \in Nat /\ q.due.rebuilt \in Nat
<1>1. /\ q.pc \in {"idle", "before"} \cup Read /\ q.project \in Project \cup {NoProject}
      /\ q.before \in Nat /\ q.got \in Graph /\ q.due \in Due
  BY DEF Query, Read
<1>2. QED
  BY <1>1 DEF Graph, Due

LEMMA CallFields ==
    ASSUME NEW c \in Call
    PROVE  /\ c.pc \in {"idle", "commit", "list", "links", "git", "invalidate"}
           /\ c.kind \in {"index", "refresh", "delete", "rebuild"}
           /\ c.project \in Project \cup {NoProject} /\ c.todo \in SUBSET Project
           /\ c.links \in [Project -> Nat] /\ c.git \in Nat
BY DEF Call

LEMMA NoneFields ==
    /\ NoGraph \in Graph /\ NoGraph.gen = 0
    /\ NoQuery \in Query /\ NoQuery.pc = "idle"
    /\ NoCall \in Call /\ NoCall.pc = "idle" /\ NoCall.git = 0 /\ NoCall.kind = "index"
<1>1. NoGraph \in Graph /\ NoGraph.gen = 0 /\ NothingDue \in Due
  BY DEF NoGraph, Graph, NothingDue, Due
<1>2. NoQuery \in Query /\ NoQuery.pc = "idle"
  BY <1>1 DEF NoQuery, Query
<1>3. NoCall \in Call /\ NoCall.pc = "idle" /\ NoCall.git = 0 /\ NoCall.kind = "index"
  BY DEF NoCall, NoLinks, Call
<1>4. QED
  BY <1>1, <1>2, <1>3

-----------------------------------------------------------------------------
(* A step of a query: only it and the cached graph of its project change.  *)

LEMMA QueryStepKeepsIInv ==
    ASSUME IInv, NEW h \in Asked, Reads,
           NEW q \in Query, query' = [query EXCEPT ![h] = q],
           cache' \in [Host -> [Project -> Graph]],
           \A g \in Host, p \in Project :
              (g = h /\ p = q.project /\ q.pc = "after") \/ cache'[g][p] = cache[g][p],
           QueryShape(h)', Expected(h)',
           \A p \in Project \ racy : q.project = p => Fresh(h, p)' /\ Reading(h, p)'
    PROVE  IInv'
<1>1. h \in Host /\ UNCHANGED <<store, call, calls, due, racy>>
  BY HostAssumption DEF Reads
<1>2. /\ query' \in [Host -> Query] /\ query'[h] = q
      /\ \A g \in Host \ {h} : query'[g] = query[g]
  BY <1>1 DEF IInv, Types
<1>3. Types'
  BY <1>1, <1>2 DEF IInv, Types
<1>4. Shape'
  <2>1. \A w \in Writer : CallShape(w)'
    BY <1>1 DEF IInv, Shape, CallShape
  <2>2. \A g \in Host : QueryShape(g)'
    BY <1>2 DEF IInv, Shape, QueryShape
  <2>3. QED
    BY <2>1, <2>2 DEF Shape
<1>5. Stamps'
  <2>1. /\ \A g \in Host, p \in Project : Promised(g, p)'
        /\ \A w \in Writer : Owes(w)'
    BY <1>1 DEF IInv, Stamps, Promised, Owes, Written
  <2>2. \A g \in Host : Expected(g)'
    BY <1>1, <1>2 DEF IInv, Stamps, Expected
  <2>3. QED
    BY <2>1, <2>2 DEF Stamps
<1>6. ASSUME NEW p \in Project \ racy'
      PROVE  Kept(p)'
  <2>1. Kept(p)
    BY <1>1 DEF IInv
  <2>2. Gone(p)'
    BY <1>1, <2>1 DEF Kept, Gone, Deleting, Putting
  <2>3. ASSUME NEW g \in Asked
        PROVE  Fresh(g, p)' /\ Reading(g, p)'
    <3>1. g \in Host
      BY HostAssumption
    <3>2. CASE g = h /\ q.project = p
      BY <1>1, <3>2
    <3>3. CASE ~(g = h /\ q.project = p)
      <4>1. cache'[g][p] = cache[g][p]
        BY <3>1, <3>3
      <4>2. Fresh(g, p)'
        BY <1>1, <2>1, <4>1 DEF Kept, Fresh, Agrees, Deleting
      <4>3. Reading(g, p)'
        BY <1>1, <1>2, <2>1, <3>1, <3>3, <4>1 DEF Kept, Reading, Enough
      <4>4. QED
        BY <4>2, <4>3
    <3>4. QED
      BY <3>2, <3>3
  <2>4. QED
    BY <2>2, <2>3 DEF Kept
<1>7. QED
  BY <1>3, <1>4, <1>5, <1>6 DEF IInv

-----------------------------------------------------------------------------
(* The steps of a query.                                                   *)

\* The next line of a query, or its end.
LEMMA GotoFacts ==
    ASSUME Types, NEW h \in Host, NEW pc \in {"idle", "before"} \cup Read, Goto(h, pc)
    PROVE  \E q \in Query :
              /\ query' = [query EXCEPT ![h] = q] /\ q.pc = pc
              /\ pc # "idle" => /\ q.project = query[h].project
                                /\ q.before = query[h].before
                                /\ q.got = query[h].got /\ q.due = query[h].due
<1>1. CASE pc = "idle"
  BY <1>1, NoneFields DEF Goto
<1>2. CASE pc # "idle"
  <2>1. PICK q : q = [query[h] EXCEPT !.pc = pc]
    OBVIOUS
  <2>2. query[h] \in Query
    BY DEF Types
  <2>3. /\ q \in Query /\ q.pc = pc /\ q.project = query[h].project
        /\ q.before = query[h].before /\ q.got = query[h].got /\ q.due = query[h].due
    BY <2>1, <2>2 DEF Query, Read
  <2>4. query' = [query EXCEPT ![h] = q]
    BY <1>2, <2>1 DEF Goto
  <2>5. QED
    BY <2>3, <2>4
<1>3. QED
  BY <1>1, <1>2

\* Ending a query keeps everything.
LEMMA EndKeepsIInv ==
    ASSUME IInv, NEW h \in Asked, Goto(h, "idle"), UNCHANGED cache, Reads
    PROVE  IInv'
<1>1. h \in Host
  BY HostAssumption
<1>2. PICK q \in Query : query' = [query EXCEPT ![h] = q] /\ q.pc = "idle"
  BY <1>1, GotoFacts DEF IInv
<1>3. query'[h] = q
  BY <1>1, <1>2 DEF IInv, Types
<1>4. QueryShape(h)' /\ Expected(h)' /\ \A p \in Project : Reading(h, p)'
  BY <1>2, <1>3 DEF QueryShape, Expected, Reading, Read
<1>5. \A p \in Project \ racy : Fresh(h, p)'
  BY DEF IInv, Kept, Fresh, Agrees, Deleting, Reads
<1>6. cache' \in [Host -> [Project -> Graph]]
  BY DEF IInv, Types
<1>7. QED
  BY <1>2, <1>4, <1>5, <1>6, QueryStepKeepsIInv

LEMMA AskKeepsIInv ==
    ASSUME IInv, NEW h \in Host, NEW p \in Project, Ask(h, p)
    PROVE  IInv'
<1>1. h \in Asked /\ UNCHANGED cache /\ Reads
  BY DEF Ask, Asking
<1>2. PICK d : d = [due[h][p] EXCEPT !.graph = store[p].graph]
  OBVIOUS
<1>3. /\ d \in Due /\ d.graph = store[p].graph
      /\ d.git = due[h][p].git /\ d.rebuilt = due[h][p].rebuilt
  BY <1>2, StoreFields, DueFields DEF IInv, Due
<1>4. PICK q : q = [pc |-> "before", project |-> p, before |-> 0, got |-> NoGraph, due |-> d]
  OBVIOUS
<1>5. q \in Query /\ q.pc = "before" /\ q.project = p /\ q.due = d
  BY <1>3, <1>4, NoneFields DEF Query
<1>6. query' = [query EXCEPT ![h] = q]
  BY <1>2, <1>4 DEF Ask
<1>7. query'[h] = q
  BY <1>6 DEF IInv, Types
<1>8. QueryShape(h)' /\ \A r \in Project : Reading(h, r)'
  BY <1>1, <1>5, <1>7 DEF QueryShape, Reading, Read
<1>9. Expected(h)'
  BY <1>1, <1>3, <1>5, <1>7, StoreFields, DueFields DEF IInv, Expected, Reads
<1>10. \A r \in Project \ racy : Fresh(h, r)'
  BY <1>1 DEF IInv, Kept, Fresh, Agrees, Deleting, Reads
<1>11. cache' \in [Host -> [Project -> Graph]]
  BY <1>1 DEF IInv, Types
<1>12. QED
  BY <1>1, <1>5, <1>6, <1>8, <1>9, <1>10, <1>11, QueryStepKeepsIInv

\* A query that goes on, with what it got and the generation that it read.
LEMMA GoesOnKeepsIInv ==
    ASSUME IInv, NEW h \in Asked, query[h].pc # "idle", UNCHANGED cache, Reads,
           NEW q \in Query, query' = [query EXCEPT ![h] = q],
           q.pc # "idle", q.project = query[h].project, q.due = query[h].due,
           q.pc \in Read => q.before # 0,
           q.pc \in {"edges", "after", "answer"} => q.got.gen = q.before,
           query'[h] = q => \A p \in Project \ racy : Reading(h, p)'
    PROVE  IInv'
<1>1. h \in Host
  BY HostAssumption
<1>2. query'[h] = q
  BY <1>1 DEF IInv, Types
<1>3. query[h].project \in Project
  BY <1>1 DEF IInv, Shape, QueryShape
<1>4. QueryShape(h)'
  BY <1>2, <1>3 DEF QueryShape
<1>5. Expected(h)'
  BY <1>1, <1>2 DEF IInv, Stamps, Expected, Reads
<1>6. \A p \in Project \ racy : Fresh(h, p)'
  BY DEF IInv, Kept, Fresh, Agrees, Deleting, Reads
<1>7. cache' \in [Host -> [Project -> Graph]]
  BY DEF IInv, Types
<1>8. QED
  BY <1>2, <1>4, <1>5, <1>6, <1>7, QueryStepKeepsIInv

LEMMA ReadBeforeKeepsIInv ==
    ASSUME IInv, NEW h \in Host, ReadBefore(h)
    PROVE  IInv'
<1>1. h \in Asked /\ query[h].pc = "before" /\ UNCHANGED cache /\ Reads
  BY DEF ReadBefore, Asking
<1>2. PICK p \in Project : p = query[h].project
  BY <1>1 DEF IInv, Shape, QueryShape
<1>3. CASE store[p].gen = 0
  <2>1. Goto(h, "idle")
    BY <1>2, <1>3 DEF ReadBefore
  <2>2. QED
    BY <1>1, <2>1, EndKeepsIInv
<1>4. CASE store[p].gen # 0
  <2>1. PICK q : q = [query[h] EXCEPT !.before = store[p].gen, !.pc = "get"]
    OBVIOUS
  <2>2. query[h] \in Query
    BY DEF IInv, Types
  <2>3. /\ q \in Query /\ q.pc = "get" /\ q.project = p /\ q.due = query[h].due
        /\ q.before = store[p].gen
    BY <1>2, <2>1, <2>2, StoreFields DEF IInv, Query
  <2>4. query' = [query EXCEPT ![h] = q]
    BY <1>2, <1>4, <2>1 DEF ReadBefore
  <2>5. ASSUME query'[h] = q, NEW r \in Project \ racy
        PROVE  Reading(h, r)'
    <3>1. SUFFICES ASSUME r = p PROVE Reading(h, r)'
      BY <2>3, <2>5 DEF Reading
    <3>2. query[h].due.graph <= store[p].graph
      BY <1>1, <1>2 DEF IInv, Stamps, Expected
    <3>3. cache[h][p].gen = store[p].gen => cache[h][p].nodes = cache[h][p].edges
      BY <1>1, <1>4, <3>1 DEF IInv, Kept, Fresh, Agrees
    <3>4. query[h].due.graph \in Nat
      BY <2>2, QueryFields
    <3>5. QED
      BY <1>1, <2>3, <2>5, <3>1, <3>2, <3>3, <3>4, StoreFields DEF IInv, Reading, Reads
  <2>6. QED
    BY <1>1, <1>2, <1>4, <2>3, <2>4, <2>5, GoesOnKeepsIInv
<1>5. QED
  BY <1>3, <1>4

\* A cached graph under the generation that was read will do for an answer.
LEMMA HitFacts ==
    ASSUME IInv, NEW h \in Asked, query[h].pc \in {"get", "load"}, Hit(h)
    PROVE  LET c == cache[h][query[h].project] IN
           /\ c \in Graph /\ c.gen = query[h].before
           /\ query[h].project \notin racy =>
                 /\ c.nodes = c.edges
                 /\ query[h].due.graph <= c.edges /\ query[h].due.git <= c.git
                 /\ query[h].due.rebuilt <= c.links
<1>1. h \in Host
  BY HostAssumption
<1>2. PICK p \in Project : p = query[h].project
  BY <1>1 DEF IInv, Shape, QueryShape
<1>3. PICK c \in Graph : c = cache[h][p]
  BY <1>1, CacheFields DEF IInv
<1>4. c.gen = query[h].before /\ query[h].before # 0
  BY <1>1, <1>2, <1>3 DEF Hit, IInv, Shape, QueryShape, Read
<1>5. ASSUME p \notin racy
      PROVE  /\ c.nodes = c.edges
             /\ query[h].due.graph <= c.edges /\ query[h].due.git <= c.git
             /\ query[h].due.rebuilt <= c.links
  <2>1. /\ due[h][p].git <= c.git /\ due[h][p].rebuilt <= c.links
        /\ store[p].gen # 0 => Agrees(c, p)
    BY <1>3, <1>4, <1>5 DEF IInv, Kept, Fresh
  <2>2. /\ query[h].before <= store[p].gen /\ c.nodes = c.edges
        /\ query[h].due.graph + store[p].gen <= store[p].graph + query[h].before
    BY <1>2, <1>3, <1>4, <1>5 DEF IInv, Kept, Reading, Read
  <2>3. query[h].due.git <= due[h][p].git /\ query[h].due.rebuilt <= due[h][p].rebuilt
    BY <1>1, <1>2 DEF IInv, Stamps, Expected
  <2>4. query[h] \in Query
    BY <1>1 DEF IInv, Types
  <2>5. /\ query[h].due.graph \in Nat /\ query[h].due.git \in Nat
        /\ query[h].due.rebuilt \in Nat /\ query[h].before \in Nat
    BY <2>4, QueryFields
  <2>6. /\ c.gen \in Nat /\ c.edges \in Nat /\ c.git \in Nat /\ c.links \in Nat
        /\ store[p].gen \in Nat /\ store[p].graph \in Nat
        /\ due[h][p].git \in Nat /\ due[h][p].rebuilt \in Nat
    BY <1>1, <1>3, CacheFields, StoreFields, DueFields DEF IInv
  <2>7. store[p].graph + c.gen <= c.edges + store[p].gen
    BY <1>4, <2>1, <2>2, <2>5, <2>6 DEF Agrees
  <2>8. query[h].due.graph <= c.edges
    BY <1>4, <2>2, <2>5, <2>6, <2>7
  <2>9. query[h].due.git <= c.git /\ query[h].due.rebuilt <= c.links
    BY <2>1, <2>3, <2>5, <2>6
  <2>10. QED
    BY <2>2, <2>8, <2>9
<1>6. QED
  BY <1>2, <1>3, <1>4, <1>5

LEMMA GetKeepsIInv ==
    ASSUME IInv, NEW h \in Host, Get(h)
    PROVE  IInv'
<1>1. h \in Asked /\ query[h].pc = "get" /\ UNCHANGED cache /\ Reads
  BY DEF Get, Asking
<1>2. PICK p \in Project : p = query[h].project
  BY <1>1 DEF IInv, Shape, QueryShape
<1>3. query[h] \in Query /\ query[h].before # 0
  BY <1>1 DEF IInv, Types, Shape, QueryShape, Read
<1>4. CASE Hit(h)
  <2>1. PICK c : c = cache[h][p]
    OBVIOUS
  <2>2. /\ c \in Graph /\ c.gen = query[h].before
        /\ p \notin racy =>
              /\ c.nodes = c.edges
              /\ query[h].due.graph <= c.edges /\ query[h].due.git <= c.git
              /\ query[h].due.rebuilt <= c.links
    BY <1>1, <1>2, <1>4, <2>1, HitFacts
  <2>3. PICK q : q = [query[h] EXCEPT !.pc = "answer", !.got = c]
    OBVIOUS
  <2>4. /\ q \in Query /\ q.pc = "answer" /\ q.project = p /\ q.due = query[h].due
        /\ q.before = query[h].before /\ q.got = c
    BY <1>2, <1>3, <2>2, <2>3 DEF Query
  <2>5. query' = [query EXCEPT ![h] = q]
    BY <1>2, <1>4, <2>1, <2>3 DEF Get
  <2>6. ASSUME query'[h] = q, NEW r \in Project \ racy
        PROVE  Reading(h, r)'
    <3>1. SUFFICES ASSUME r = p PROVE Reading(h, r)'
      BY <2>4, <2>6 DEF Reading
    <3>2. Reading(h, p)
      BY <1>1, <3>1 DEF IInv, Kept
    <3>3. Enough(q)
      BY <2>2, <2>4, <3>1 DEF Enough
    <3>4. QED
      BY <1>1, <1>2, <2>2, <2>4, <2>6, <3>1, <3>2, <3>3 DEF Reading, Reads, Read
  <2>7. QED
    BY <1>1, <1>2, <1>3, <2>2, <2>4, <2>5, <2>6, GoesOnKeepsIInv
<1>5. CASE ~Hit(h)
  <2>1. PICK q : q = [query[h] EXCEPT !.pc = "load"]
    OBVIOUS
  <2>2. /\ q \in Query /\ q.pc = "load" /\ q.project = p /\ q.due = query[h].due
        /\ q.before = query[h].before /\ q.got = query[h].got
    BY <1>2, <1>3, <2>1 DEF Query
  <2>3. q = [query[h] EXCEPT !.pc = "load", !.got = @]
    BY <1>3, <2>1 DEF Query
  <2>4. query' = [query EXCEPT ![h] = q]
    BY <1>5, <2>3 DEF Get
  <2>5. ASSUME query'[h] = q, NEW r \in Project \ racy
        PROVE  Reading(h, r)'
    <3>1. Reading(h, r)
      BY <1>1 DEF IInv, Kept
    <3>2. QED
      BY <1>1, <1>2, <2>2, <2>5, <3>1 DEF Reading, Reads, Read
  <2>6. QED
    BY <1>1, <1>2, <1>3, <2>2, <2>4, <2>5, GoesOnKeepsIInv
<1>6. QED
  BY <1>4, <1>5

LEMMA GetOrLoadKeepsIInv ==
    ASSUME IInv, NEW h \in Host, GetOrLoad(h)
    PROVE  IInv'
<1>1. h \in Asked /\ query[h].pc = "load" /\ UNCHANGED cache /\ Reads
  BY DEF GetOrLoad, Asking
<1>2. PICK p \in Project : p = query[h].project
  BY <1>1 DEF IInv, Shape, QueryShape
<1>3. query[h] \in Query /\ query[h].before # 0
  BY <1>1 DEF IInv, Types, Shape, QueryShape, Read
<1>4. PICK c : c = IF Hit(h) THEN cache[h][p]
                   ELSE [NoGraph EXCEPT !.gen = query[h].before, !.nodes = store[p].graph,
                                        !.git = store[p].git]
  OBVIOUS
<1>5. PICK pc : pc = IF Hit(h) THEN "after" ELSE "edges"
  OBVIOUS
<1>6. PICK q : q = [query[h] EXCEPT !.pc = pc, !.got = c]
  OBVIOUS
<1>7. query' = [query EXCEPT ![h] = q]
  BY <1>2, <1>4, <1>5, <1>6, Zenon DEF GetOrLoad
<1>8. CASE Hit(h)
  <2>1. /\ c = cache[h][p] /\ c \in Graph /\ c.gen = query[h].before
        /\ p \notin racy =>
              /\ c.nodes = c.edges
              /\ query[h].due.graph <= c.edges /\ query[h].due.git <= c.git
              /\ query[h].due.rebuilt <= c.links
    BY <1>1, <1>2, <1>4, <1>8, HitFacts
  <2>2. /\ q \in Query /\ q.pc = "after" /\ q.project = p /\ q.due = query[h].due
        /\ q.before = query[h].before /\ q.got = c
    BY <1>2, <1>3, <1>5, <1>6, <1>8, <2>1 DEF Query
  <2>3. ASSUME query'[h] = q, NEW r \in Project \ racy
        PROVE  Reading(h, r)'
    <3>1. SUFFICES ASSUME r = p PROVE Reading(h, r)'
      BY <2>2, <2>3 DEF Reading
    <3>2. Reading(h, p)
      BY <1>1, <3>1 DEF IInv, Kept
    <3>3. Enough(q)
      BY <2>1, <2>2, <3>1 DEF Enough
    <3>4. QED
      BY <1>1, <1>2, <2>1, <2>2, <2>3, <3>1, <3>2, <3>3 DEF Reading, Reads, Read
  <2>4. QED
    BY <1>1, <1>2, <1>3, <1>7, <2>1, <2>2, <2>3, GoesOnKeepsIInv
<1>9. CASE ~Hit(h)
  <2>1. c = [NoGraph EXCEPT !.gen = query[h].before, !.nodes = store[p].graph,
                            !.git = store[p].git]
    BY <1>4, <1>9
  <2>2. /\ c \in Graph /\ c.gen = query[h].before /\ c.nodes = store[p].graph
        /\ c.git = store[p].git
    BY <1>3, <2>1, NoneFields, StoreFields, QueryFields DEF Graph, IInv
  <2>3. /\ q \in Query /\ q.pc = "edges" /\ q.project = p /\ q.due = query[h].due
        /\ q.before = query[h].before /\ q.got = c
    BY <1>2, <1>3, <1>5, <1>6, <1>9, <2>2 DEF Query
  <2>4. ASSUME query'[h] = q, NEW r \in Project \ racy
        PROVE  Reading(h, r)'
    <3>1. SUFFICES ASSUME r = p PROVE Reading(h, r)'
      BY <2>3, <2>4 DEF Reading
    <3>2. Reading(h, p)
      BY <1>1, <3>1 DEF IInv, Kept
    <3>3. due[h][p].git <= store[p].git
      BY DEF IInv, Stamps, Promised
    <3>4. QED
      BY <1>1, <1>2, <2>2, <2>3, <2>4, <3>1, <3>2, <3>3 DEF Reading, Reads, Read
  <2>5. QED
    BY <1>1, <1>2, <1>3, <1>7, <2>2, <2>3, <2>4, GoesOnKeepsIInv
<1>10. QED
  BY <1>8, <1>9

LEMMA LoadEdgesKeepsIInv ==
    ASSUME IInv, NEW h \in Host, LoadEdges(h)
    PROVE  IInv'
<1>1. h \in Asked /\ query[h].pc = "edges" /\ Reads
  BY DEF LoadEdges, Asking
<1>2. PICK p \in Project : p = query[h].project
  BY <1>1 DEF IInv, Shape, QueryShape
<1>3. /\ query[h] \in Query /\ query[h].before # 0
      /\ query[h].got.gen = query[h].before
  BY <1>1 DEF IInv, Types, Shape, QueryShape, Read
<1>4. PICK c : c = [query[h].got EXCEPT !.edges = store[p].graph, !.links = store[p].links]
  OBVIOUS
<1>5. query[h].got \in Graph
  BY <1>3, QueryFields
<1>6. /\ c \in Graph /\ c.gen = query[h].before /\ c.nodes = query[h].got.nodes
      /\ c.edges = store[p].graph /\ c.git = query[h].got.git /\ c.links = store[p].links
  BY <1>3, <1>4, <1>5, StoreFields DEF IInv, Graph
<1>7. PICK q : q = [query[h] EXCEPT !.pc = "after", !.got = c]
  OBVIOUS
<1>8. /\ q \in Query /\ q.pc = "after" /\ q.project = p /\ q.due = query[h].due
      /\ q.before = query[h].before /\ q.got = c
  BY <1>2, <1>3, <1>6, <1>7 DEF Query
<1>9. /\ query' = [query EXCEPT ![h] = q]
      /\ cache' = [cache EXCEPT ![h][p] = c]
  BY <1>2, <1>4, <1>7, Zenon DEF LoadEdges
<1>10. query'[h] = q
  BY <1>9 DEF IInv, Types
<1>11. /\ cache' \in [Host -> [Project -> Graph]] /\ cache'[h][p] = c
       /\ \A g \in Host, r \in Project : (g = h /\ r = p) \/ cache'[g][r] = cache[g][r]
  BY <1>6, <1>9 DEF IInv, Types
<1>12. QueryShape(h)'
  BY <1>1, <1>3, <1>6, <1>8, <1>10 DEF QueryShape
<1>13. Expected(h)'
  BY <1>1, <1>2, <1>8, <1>10 DEF IInv, Stamps, Expected, Reads
<1>14. ASSUME p \notin racy
       PROVE  Fresh(h, p)' /\ Reading(h, p)'
  <2>1. /\ query[h].before <= store[p].gen
        /\ query[h].due.graph + store[p].gen <= store[p].graph + query[h].before
        /\ due[h][p].git <= query[h].got.git
        /\ query[h].before = store[p].gen => query[h].got.nodes = store[p].graph
    BY <1>1, <1>2, <1>14 DEF IInv, Kept, Reading, Read
  <2>2. /\ query[h].due.graph <= store[p].graph /\ query[h].due.git <= due[h][p].git
        /\ query[h].due.rebuilt <= due[h][p].rebuilt
    BY <1>1, <1>2 DEF IInv, Stamps, Expected
  <2>3. /\ query[h].due.graph \in Nat /\ query[h].due.git \in Nat
        /\ query[h].due.rebuilt \in Nat /\ query[h].before \in Nat
        /\ query[h].got.git \in Nat
    BY <1>3, QueryFields
  <2>4. /\ store[p].gen \in Nat /\ store[p].graph \in Nat /\ store[p].links \in Nat
        /\ due[h][p].git \in Nat /\ due[h][p].rebuilt \in Nat
    BY StoreFields, DueFields DEF IInv
  <2>5. store[p].gen # 0
    BY <1>3, <2>1, <2>3, <2>4
  <2>6. due[h][p].rebuilt <= store[p].links
    BY <2>4, <2>5 DEF IInv, Stamps, Promised, Written
  <2>7. Enough(q)
    BY <1>6, <1>8, <2>1, <2>2, <2>3, <2>4, <2>6 DEF Enough
  <2>8. Fresh(h, p)'
    <3>1. Agrees(c, p)
      BY <1>6, <2>1, <2>3, <2>4 DEF Agrees
    <3>2. Agrees(cache[h][p], p)'
      BY <1>1, <1>11, <3>1 DEF Agrees, Reads
    <3>3. QED
      BY <1>1, <1>6, <1>11, <2>1, <2>5, <2>6, <3>2 DEF Fresh, Reads
  <2>9. Reading(h, p)'
    BY <1>1, <1>6, <1>8, <1>10, <2>1, <2>7 DEF Reading, Reads
  <2>10. QED
    BY <2>8, <2>9
<1>15. /\ \A g \in Host, r \in Project :
             (g = h /\ r = q.project /\ q.pc = "after") \/ cache'[g][r] = cache[g][r]
       /\ \A r \in Project \ racy : q.project = r => Fresh(h, r)' /\ Reading(h, r)'
  BY <1>8, <1>11, <1>14
<1>16. QED
  BY <1>1, <1>8, <1>9, <1>11, <1>12, <1>13, <1>15, QueryStepKeepsIInv

LEMMA ReadAfterKeepsIInv ==
    ASSUME IInv, NEW h \in Host, ReadAfter(h)
    PROVE  IInv'
<1>1. h \in Asked /\ query[h].pc = "after" /\ UNCHANGED cache /\ Reads
  BY DEF ReadAfter, Asking
<1>2. PICK p \in Project : p = query[h].project
  BY <1>1 DEF IInv, Shape, QueryShape
<1>3. query[h].before # 0 /\ query[h].got.gen = query[h].before
  BY <1>1 DEF IInv, Shape, QueryShape, Read
<1>4. CASE store[p].gen = 0
  <2>1. Goto(h, "idle")
    BY <1>2, <1>4 DEF ReadAfter
  <2>2. QED
    BY <1>1, <2>1, EndKeepsIInv
<1>5. CASE store[p].gen # 0
  <2>1. PICK pc \in {"before", "answer"} :
           Goto(h, pc) /\ (pc = "answer" => store[p].gen = query[h].before)
    BY <1>2, <1>5 DEF ReadAfter
  <2>2. pc \in {"idle", "before"} \cup Read
    BY DEF Read
  <2>3. PICK q \in Query :
           /\ query' = [query EXCEPT ![h] = q] /\ q.pc = pc /\ q.project = p
           /\ q.before = query[h].before /\ q.got = query[h].got /\ q.due = query[h].due
    BY <1>2, <2>1, <2>2, GotoFacts DEF IInv
  <2>4. ASSUME query'[h] = q, NEW r \in Project \ racy
        PROVE  Reading(h, r)'
    <3>1. SUFFICES ASSUME r = p PROVE Reading(h, r)'
      BY <2>3, <2>4 DEF Reading
    <3>2. Reading(h, p)
      BY <1>1, <3>1 DEF IInv, Kept
    <3>3. Enough(q)
      BY <1>1, <1>2, <2>3, <3>2 DEF Reading, Read, Enough
    <3>4. QED
      BY <1>1, <1>2, <2>1, <2>3, <2>4, <3>1, <3>2, <3>3 DEF Reading, Reads, Read
  <2>5. QED
    BY <1>1, <1>2, <1>3, <2>1, <2>3, <2>4, GoesOnKeepsIInv
<1>6. QED
  BY <1>4, <1>5

LEMMA QueryStepsKeepIInv ==
    ASSUME IInv, NEW h \in Host, QueryStep(h)
    PROVE  IInv'
<1>1. ASSUME Return(h) PROVE IInv'
  BY <1>1, EndKeepsIInv DEF Return, Asking
<1>2. QED
  BY <1>1, ReadBeforeKeepsIInv, GetKeepsIInv, GetOrLoadKeepsIInv, LoadEdgesKeepsIInv,
     ReadAfterKeepsIInv, Zenon DEF QueryStep

-----------------------------------------------------------------------------
(* A step of a call: only it and what it writes changes.                   *)

Calls(w, c) ==
    /\ call' = [call EXCEPT ![w] = c]
    /\ UNCHANGED <<query, due>>

\* What is stored is stamped later, and cross edges that were written still are.
Advances(p) ==
    /\ store[p].graph <= store'[p].graph /\ store[p].git <= store'[p].git
    /\ store[p].links <= store'[p].links
    /\ store[p].links + (IF store[p].gen = 0 THEN 1 ELSE 0)
          <= store'[p].links + (IF store'[p].gen = 0 THEN 1 ELSE 0)

LEMMA CallsFacts ==
    ASSUME Types, NEW w \in Writer, NEW c \in Call, Calls(w, c)
    PROVE  /\ call' \in [Writer -> Call] /\ call'[w] = c
           /\ \A v \in Writer \ {w} : call'[v] = call[v]
BY DEF Types, Calls

LEMMA WrittenAdvances ==
    ASSUME Types, Types', NEW p \in Project, Advances(p), NEW n \in Nat
    PROVE  /\ n <= store[p].links + 1 => n <= store'[p].links + 1
           /\ Written(n, p) => Written(n, p)'
<1>1. /\ store[p].links \in Nat /\ store[p].gen \in Nat
      /\ store'[p].links \in Nat /\ store'[p].gen \in Nat
  BY DEF Types, Stored
<1>2. QED
  BY <1>1 DEF Advances, Written

LEMMA StampsAdvance ==
    ASSUME IInv, Types', NEW w \in Writer, NEW c \in Call, Calls(w, c),
           \A p \in Project : Advances(p), Owes(w)'
    PROVE  Stamps'
<1>1. /\ UNCHANGED <<query, due>> /\ Types
      /\ \A v \in Writer \ {w} : call'[v] = call[v]
  BY CallsFacts DEF Calls, IInv
<1>2. ASSUME NEW p \in Project
      PROVE  /\ store[p].graph \in Nat /\ store[p].git \in Nat
             /\ store'[p].graph \in Nat /\ store'[p].git \in Nat
             /\ store[p].graph <= store'[p].graph /\ store[p].git <= store'[p].git
  BY DEF IInv, Types, Stored, Advances
<1>3. ASSUME NEW h \in Host, NEW p \in Project
      PROVE  Promised(h, p)'
  <2>1. Promised(h, p) /\ due'[h][p] = due[h][p]
    BY <1>1 DEF IInv, Stamps
  <2>2. PICK n \in Nat : n = due[h][p].rebuilt
    BY DueFields DEF IInv
  <2>3. Written(n, p)
    BY <2>1, <2>2 DEF Promised
  <2>4. Written(n, p)'
    BY <1>1, <2>3, WrittenAdvances
  <2>5. due[h][p].git \in Nat
    BY DueFields DEF IInv
  <2>6. due[h][p].git <= store'[p].git
    BY <1>2, <2>1, <2>5 DEF Promised
  <2>7. QED
    BY <2>1, <2>2, <2>4, <2>6 DEF Promised, Written
<1>4. ASSUME NEW h \in Host
      PROVE  Expected(h)'
  <2>1. query[h] \in Query
    BY DEF IInv, Types
  <2>2. query[h].due.graph \in Nat
    BY <2>1, QueryFields
  <2>3. query[h].pc # "idle" => query[h].project \in Project
    BY DEF IInv, Shape, QueryShape
  <2>4. QED
    BY <1>1, <1>2, <2>2, <2>3 DEF IInv, Stamps, Expected
<1>5. ASSUME NEW v \in Writer
      PROVE  Owes(v)'
  <2>1. CASE v # w
    <3>1. call'[v] = call[v] /\ Owes(v) /\ call[v] \in Call
      BY <1>1, <2>1 DEF IInv, Stamps, Types
    <3>2. call[v].git \in Nat /\ call[v].links \in [Project -> Nat]
      BY <3>1, CallFields
    <3>3. call[v].pc # "idle" => call[v].project \in Project
      BY DEF IInv, Shape, CallShape
    <3>4. call[v].pc # "idle" => call[v].git <= store'[call[v].project].git
      BY <1>2, <3>1, <3>2, <3>3 DEF Owes
    <3>5. ASSUME call[v].kind = "rebuild", call[v].pc \in {"links", "invalidate"},
                 NEW p \in Project
          PROVE  /\ call[v].links[p] <= store'[p].links + 1
                 /\ call[v].pc = "invalidate" \/ p \notin call[v].todo
                       => call[v].links[p] <=
                             store'[p].links + (IF store'[p].gen = 0 THEN 1 ELSE 0)
      <4>1. call[v].links[p] \in Nat
        BY <3>2
      <4>2. PICK n \in Nat : n = call[v].links[p]
        BY <4>1
      <4>3. /\ n <= store[p].links + 1
            /\ call[v].pc = "invalidate" \/ p \notin call[v].todo => Written(n, p)
        BY <3>1, <3>5, <4>2 DEF Owes
      <4>4. /\ n <= store'[p].links + 1
            /\ Written(n, p) => Written(n, p)'
        BY <1>1, <4>3, WrittenAdvances
      <4>5. QED
        BY <4>2, <4>3, <4>4 DEF Written
    <3>6. QED
      BY <3>1, <3>4, <3>5 DEF Owes, Written
  <2>2. QED
    BY <2>1
<1>6. QED
  BY <1>3, <1>4, <1>5 DEF Stamps

LEMMA ShapeKept ==
    ASSUME IInv, NEW w \in Writer, NEW c \in Call, Calls(w, c),
           c.pc # "idle" => c.project \in Project,
           c.pc = "git" => c.kind = "index",
           c.pc # "invalidate" => c.git = 0
    PROVE  Shape'
<1>1. /\ UNCHANGED query /\ call'[w] = c
      /\ \A v \in Writer \ {w} : call'[v] = call[v]
  BY CallsFacts DEF Calls, IInv
<1>2. \A h \in Host : QueryShape(h)'
  BY <1>1 DEF IInv, Shape, QueryShape
<1>3. \A v \in Writer : CallShape(v)'
  BY <1>1 DEF IInv, Shape, CallShape
<1>4. QED
  BY <1>2, <1>3 DEF Shape

\* A project that the step does not store, delete or drop: what is cached of it and
\* the queries of it stay as good.
LEMMA KeptBeside ==
    ASSUME IInv, NEW w \in Writer, NEW c \in Call, Calls(w, c), UNCHANGED cache,
           NEW p \in Project \ racy,
           store'[p].gen = store[p].gen, store'[p].graph = store[p].graph,
           call[w].pc # "invalidate",
           c.pc = "invalidate" => c.kind # "delete" \/ c.project # p,
           \/ c.pc = "idle"
           \/ c.project # p
           \/ call[w].pc # "idle" /\ c.kind = call[w].kind /\ c.project = call[w].project
           \/ \A v \in Writer : ~Deleting(v, p)
    PROVE  Kept(p)'
<1>1. /\ UNCHANGED <<query, due>> /\ call'[w] = c
      /\ \A v \in Writer \ {w} : call'[v] = call[v]
  BY CallsFacts DEF Calls, IInv
<1>2. Kept(p)
  BY DEF IInv
<1>3. \A v \in Writer : Deleting(v, p)' <=> Deleting(v, p)
  BY <1>1 DEF Deleting
<1>4. Gone(p)'
  BY <1>1, <1>2, <1>3 DEF Kept, Gone, Putting
<1>5. ASSUME NEW h \in Asked
      PROVE  Fresh(h, p)' /\ Reading(h, p)'
  BY <1>1, <1>2, <1>3 DEF Kept, Fresh, Agrees, Reading, Enough
<1>6. QED
  BY <1>4, <1>5 DEF Kept

LEMMA CallStepKeepsIInv ==
    ASSUME IInv, NEW w \in Writer, NEW c \in Call, Calls(w, c), UNCHANGED <<store, cache>>,
           calls' \in Nat, racy \subseteq racy', racy' \subseteq Project,
           c.pc # "idle" => c.project \in Project,
           c.pc = "git" => c.kind = "index",
           c.pc # "invalidate" => c.git = 0,
           call[w].pc # "invalidate",
           c.pc = "invalidate" => c.kind # "delete",
           \/ c.pc = "idle"
           \/ call[w].pc # "idle" /\ c.kind = call[w].kind /\ c.project = call[w].project
           \/ c.project \notin racy' => \A v \in Writer : ~Deleting(v, c.project),
           Owes(w)'
    PROVE  IInv'
<1>1. Types'
  BY CallsFacts DEF Calls, IInv, Types
<1>2. \A p \in Project : Advances(p)
  BY StoreFields DEF IInv, Advances
<1>3. Stamps'
  BY <1>1, <1>2, StampsAdvance
<1>4. Shape'
  BY ShapeKept
<1>5. ASSUME NEW p \in Project \ racy'
      PROVE  Kept(p)'
  BY KeptBeside
<1>6. QED
  BY <1>1, <1>3, <1>4, <1>5 DEF IInv

-----------------------------------------------------------------------------
(* The steps of a call.                                                    *)

LEMMA ContinueFacts ==
    ASSUME Types, NEW w \in Writer,
           NEW pc \in {"idle", "commit", "list", "links", "git", "invalidate"},
           Continue(w, pc)
    PROVE  \E c \in Call :
              /\ call' = [call EXCEPT ![w] = c] /\ c.pc = pc
              /\ pc = "idle" => c.git = 0
              /\ pc # "idle" => /\ c.kind = call[w].kind /\ c.project = call[w].project
                                /\ c.todo = call[w].todo /\ c.links = call[w].links
                                /\ c.git = call[w].git
<1>1. CASE pc = "idle"
  BY <1>1, NoneFields DEF Continue
<1>2. CASE pc # "idle"
  <2>1. PICK c : c = [call[w] EXCEPT !.pc = pc]
    OBVIOUS
  <2>2. call[w] \in Call
    BY DEF Types
  <2>3. /\ c \in Call /\ c.pc = pc /\ c.kind = call[w].kind
        /\ c.project = call[w].project /\ c.todo = call[w].todo
        /\ c.links = call[w].links /\ c.git = call[w].git
    BY <2>1, <2>2 DEF Call
  <2>4. call' = [call EXCEPT ![w] = c]
    BY <1>2, <2>1 DEF Continue
  <2>5. QED
    BY <1>2, <2>3, <2>4
<1>3. QED
  BY <1>1, <1>2

LEMMA StartCallKeepsIInv ==
    ASSUME IInv, NEW w \in Writer, NEW kind \in {"index", "refresh", "delete", "rebuild"},
           NEW p \in Project, StartCall(w, kind, p)
    PROVE  IInv'
<1>1. /\ call[w].pc = "idle" /\ calls' = calls + 1
      /\ UNCHANGED <<store, cache, query, due>>
  BY DEF StartCall, In
<1>2. /\ racy \subseteq racy' /\ racy' \subseteq Project
      /\ p \notin racy' => \A d \in Writer : ~Deleting(d, p)
  BY DEF StartCall, In, Deleting, IInv, Types
<1>3. PICK pc : pc = IF kind = "rebuild" THEN "list" ELSE "commit"
  OBVIOUS
<1>4. PICK c : c = [pc |-> pc, kind |-> kind, project |-> p, todo |-> {}, links |-> NoLinks,
                    git |-> 0]
  OBVIOUS
<1>5. c \in Call /\ c.pc = pc /\ c.kind = kind /\ c.project = p /\ c.git = 0
  BY <1>3, <1>4 DEF Call, NoLinks
<1>6. call' = [call EXCEPT ![w] = c]
  BY <1>3, <1>4 DEF StartCall
<1>7. call'[w] = c
  BY <1>6 DEF IInv, Types
<1>8. Owes(w)'
  BY <1>1, <1>3, <1>5, <1>7, StoreFields DEF IInv, Owes
<1>9. calls' \in Nat
  BY <1>1 DEF IInv, Types
<1>10. Calls(w, c)
  BY <1>1, <1>6 DEF Calls
<1>11. QED
  BY <1>1, <1>2, <1>3, <1>5, <1>8, <1>9, <1>10, CallStepKeepsIInv

\* A call that goes on without writing, or ends with nothing written.
LEMMA ContinueKeepsIInv ==
    ASSUME IInv, NEW w \in Writer,
           NEW pc \in {"idle", "commit", "list", "links", "git", "invalidate"},
           Continue(w, pc), UNCHANGED <<store, cache, query, calls, due, racy>>,
           call[w].pc # "invalidate",
           pc # "idle" => call[w].pc # "idle",
           pc = "git" => call[w].kind = "index",
           pc = "invalidate" => call[w].kind # "delete",
           pc \in {"links", "invalidate"} /\ call[w].kind = "rebuild" =>
              call[w].pc = "links" /\ call[w].todo = {} /\ pc = "invalidate"
    PROVE  IInv'
<1>1. PICK c \in Call :
         /\ call' = [call EXCEPT ![w] = c] /\ c.pc = pc
         /\ pc = "idle" => c.git = 0
         /\ pc # "idle" => /\ c.kind = call[w].kind /\ c.project = call[w].project
                           /\ c.todo = call[w].todo /\ c.links = call[w].links
                           /\ c.git = call[w].git
  BY ContinueFacts DEF IInv
<1>2. Calls(w, c)
  BY <1>1 DEF Calls
<1>3. call'[w] = c
  BY <1>1 DEF IInv, Types
<1>4. /\ call[w].pc # "idle" => call[w].project \in Project
      /\ call[w].git = 0
  BY DEF IInv, Shape, CallShape
<1>5. Owes(w)'
  BY <1>1, <1>3, <1>4, StoreFields DEF IInv, Stamps, Owes, Written
<1>6. calls' \in Nat /\ racy \subseteq racy' /\ racy' \subseteq Project
  BY DEF IInv, Types
<1>7. QED
  BY <1>1, <1>2, <1>4, <1>5, <1>6, CallStepKeepsIInv

LEMMA UnchangedKeepsIInv ==
    ASSUME IInv, NEW w \in Writer, Unchanged(w)
    PROVE  IInv'
BY ContinueKeepsIInv DEF Unchanged, In

LEMMA ListProjectsKeepsIInv ==
    ASSUME IInv, NEW w \in Writer, ListProjects(w)
    PROVE  IInv'
<1>1. call[w].pc = "list" /\ UNCHANGED <<store, cache, query, calls, due, racy>>
  BY DEF ListProjects, In
<1>2. PICK todo \in SUBSET Project : todo = {p \in Project : IsStored(p)}
  OBVIOUS
<1>3. PICK links : links = [p \in Project |-> store[p].links + 1]
  OBVIOUS
<1>4. links \in [Project -> Nat]
  BY <1>3, StoreFields DEF IInv
<1>5. PICK c : c = [call[w] EXCEPT !.todo = todo, !.links = links, !.pc = "links"]
  OBVIOUS
<1>6. call[w] \in Call
  BY DEF IInv, Types
<1>7. /\ c \in Call /\ c.pc = "links" /\ c.kind = call[w].kind
      /\ c.project = call[w].project /\ c.todo = todo /\ c.links = links
      /\ c.git = call[w].git
  BY <1>2, <1>4, <1>5, <1>6 DEF Call
<1>8. call' = [call EXCEPT ![w] = c]
  BY <1>2, <1>3, <1>5 DEF ListProjects
<1>9. call'[w] = c /\ Calls(w, c)
  BY <1>1, <1>8 DEF IInv, Types, Calls
<1>10. call[w].project \in Project /\ call[w].git = 0
  BY <1>1 DEF IInv, Shape, CallShape
<1>11. \A p \in Project :
          /\ links[p] <= store[p].links + 1
          /\ p \notin todo => links[p] <= store[p].links + (IF store[p].gen = 0 THEN 1 ELSE 0)
  <2>1. ASSUME NEW p \in Project
        PROVE  /\ links[p] <= store[p].links + 1
               /\ p \notin todo =>
                     links[p] <= store[p].links + (IF store[p].gen = 0 THEN 1 ELSE 0)
    <3>1. links[p] = store[p].links + 1
      BY <1>3
    <3>2. p \notin todo => store[p].gen = 0
      BY <1>2 DEF IsStored
    <3>3. store[p].links \in Nat
      BY StoreFields DEF IInv
    <3>4. CASE store[p].gen = 0
      BY <3>1, <3>3, <3>4
    <3>5. CASE store[p].gen # 0
      BY <3>1, <3>2, <3>3, <3>5
    <3>6. QED
      BY <3>4, <3>5
  <2>2. QED
    BY <2>1
<1>12. Owes(w)'
  BY <1>1, <1>7, <1>9, <1>10, <1>11, StoreFields DEF IInv, Owes, Written
<1>13. calls' \in Nat /\ racy \subseteq racy' /\ racy' \subseteq Project
  BY <1>1 DEF IInv, Types
<1>14. QED
  BY <1>1, <1>7, <1>9, <1>10, <1>12, <1>13, CallStepKeepsIInv

LEMMA LinksFailKeepsIInv ==
    ASSUME IInv, NEW w \in Writer, LinksFail(w)
    PROVE  IInv'
<1>1. call[w].pc = "links" /\ UNCHANGED <<store, cache, query, calls, due, racy>>
  BY DEF LinksFail, In
<1>2. CASE call[w].kind = "rebuild"
  <2>1. PICK c : c = [call[w] EXCEPT !.links = NoLinks, !.pc = "invalidate"]
    OBVIOUS
  <2>2. call[w] \in Call /\ NoLinks \in [Project -> Nat]
    BY DEF IInv, Types, NoLinks
  <2>3. /\ c \in Call /\ c.pc = "invalidate" /\ c.kind = "rebuild"
        /\ c.project = call[w].project /\ c.links = NoLinks /\ c.git = call[w].git
    BY <1>2, <2>1, <2>2 DEF Call
  <2>4. call' = [call EXCEPT ![w] = c]
    BY <1>2, <2>1 DEF LinksFail
  <2>5. call'[w] = c /\ Calls(w, c)
    BY <1>1, <2>4 DEF IInv, Types, Calls
  <2>6. call[w].project \in Project /\ call[w].git = 0
    BY <1>1 DEF IInv, Shape, CallShape
  <2>7. Owes(w)'
    BY <1>1, <2>3, <2>5, <2>6, StoreFields DEF IInv, Owes, Written, NoLinks
  <2>8. calls' \in Nat /\ racy \subseteq racy' /\ racy' \subseteq Project
    BY <1>1 DEF IInv, Types
  <2>9. QED
    BY <1>1, <1>2, <2>3, <2>5, <2>6, <2>7, <2>8, CallStepKeepsIInv
<1>3. CASE call[w].kind # "rebuild"
  <2>1. Continue(w, "idle")
    BY <1>3 DEF LinksFail, Continue
  <2>2. QED
    BY <1>1, <2>1, ContinueKeepsIInv
<1>4. QED
  BY <1>2, <1>3

\* A call that wrote nothing a query has to show ends without a debt.
LEMMA FinishNothing ==
    ASSUME IInv, NEW w \in Writer, Finish(w), call[w].git = 0, call[w].kind # "rebuild"
    PROVE  UNCHANGED due /\ Continue(w, "idle")
<1>1. HostOf[w] \in Host
  BY HostAssumption
<1>2. PICK d : d = [p \in Project |->
         [due[HostOf[w]][p] EXCEPT
            !.git = IF p = call[w].project THEN Later(@, call[w].git) ELSE @,
            !.rebuilt = IF call[w].kind = "rebuild" THEN Later(@, call[w].links[p]) ELSE @]]
  OBVIOUS
<1>3. due' = [due EXCEPT ![HostOf[w]] = d]
  BY <1>2 DEF Finish
<1>4. ASSUME NEW p \in Project
      PROVE  d[p] = due[HostOf[w]][p]
  <2>1. PICK e \in Due : e = due[HostOf[w]][p]
    BY <1>1, DueFields DEF IInv
  <2>2. d[p] = [e EXCEPT
            !.git = IF p = call[w].project THEN Later(@, call[w].git) ELSE @,
            !.rebuilt = IF call[w].kind = "rebuild" THEN Later(@, call[w].links[p]) ELSE @]
    BY <1>2, <2>1
  <2>3. e.git \in Nat
    BY <2>1 DEF Due
  <2>4. Later(e.git, 0) = e.git
    BY <2>3 DEF Later
  <2>5. d[p] = [e EXCEPT !.git = e.git, !.rebuilt = e.rebuilt]
    BY <2>2, <2>4
  <2>6. QED
    BY <2>1, <2>5 DEF Due
<1>5. due[HostOf[w]] \in [Project -> Due]
  BY <1>1 DEF IInv, Types
<1>6. d = due[HostOf[w]]
  BY <1>2, <1>4, <1>5
<1>7. due \in [Host -> [Project -> Due]]
  BY DEF IInv, Types
<1>8. QED
  BY <1>1, <1>3, <1>6, <1>7 DEF Finish

LEMMA LinksDoneKeepsIInv ==
    ASSUME IInv, NEW w \in Writer, LinksDone(w)
    PROVE  IInv'
<1>1. /\ call[w].pc = "links" /\ call[w].todo = {} /\ call[w].git = 0
      /\ UNCHANGED <<store, cache, query, calls, racy>>
  BY DEF LinksDone, In, IInv, Shape, CallShape
<1>2. CASE call[w].kind = "index"
  <2>1. Continue(w, "git") /\ UNCHANGED due
    BY <1>2 DEF LinksDone
  <2>2. QED
    BY <1>1, <1>2, <2>1, ContinueKeepsIInv
<1>3. CASE call[w].kind = "rebuild"
  <2>1. Continue(w, "invalidate") /\ UNCHANGED due
    BY <1>3 DEF LinksDone
  <2>2. QED
    BY <1>1, <1>3, <2>1, ContinueKeepsIInv
<1>4. CASE call[w].kind \notin {"index", "rebuild"}
  <2>0. call[w].kind # "index" /\ call[w].kind # "rebuild"
    BY <1>4
  <2>1. Finish(w)
    BY <2>0, Zenon DEF LinksDone
  <2>2. UNCHANGED due /\ Continue(w, "idle")
    BY <1>1, <1>4, <2>1, FinishNothing
  <2>3. QED
    BY <1>1, <2>2, ContinueKeepsIInv
<1>5. QED
  BY <1>2, <1>3, <1>4

LEMMA NoHistoryKeepsIInv ==
    ASSUME IInv, NEW w \in Writer, NoHistory(w)
    PROVE  IInv'
<1>1. /\ call[w].pc = "git" /\ call[w].git = 0 /\ call[w].kind = "index" /\ Finish(w)
      /\ UNCHANGED <<store, cache, query, calls, racy>>
  BY DEF NoHistory, In, IInv, Shape, CallShape
<1>2. UNCHANGED due /\ Continue(w, "idle")
  BY <1>1, FinishNothing
<1>3. QED
  BY <1>1, <1>2, ContinueKeepsIInv

-----------------------------------------------------------------------------
(* The steps that write.                                                   *)

\* The store of one project changes.
LEMMA StoreFacts ==
    ASSUME Types, NEW p \in Project, NEW row \in Stored, store' = [store EXCEPT ![p] = row]
    PROVE  /\ store' \in [Project -> Stored] /\ store'[p] = row
           /\ \A r \in Project \ {p} : store'[r] = store[r]
           /\ \A r \in Project \ {p} : Advances(r)
<1>1. /\ store' \in [Project -> Stored] /\ store'[p] = row
      /\ \A r \in Project \ {p} : store'[r] = store[r]
  BY DEF Types
<1>2. \A r \in Project \ {p} : Advances(r)
  BY <1>1, StoreFields DEF Advances
<1>3. QED
  BY <1>1, <1>2

LEMMA CommitKeepsIInv ==
    ASSUME IInv, NEW w \in Writer, Commit(w)
    PROVE  IInv'
<1>1. /\ call[w].pc = "commit" /\ call[w].kind \in {"index", "refresh"}
      /\ Continue(w, "list") /\ UNCHANGED <<cache, query, calls, due, racy>>
  BY DEF Commit, In
<1>2. PICK p \in Project : p = call[w].project
  BY <1>1 DEF IInv, Shape, CallShape
<1>3. PICK row : row = [store[p] EXCEPT !.gen = @ + 1, !.graph = @ + 1, !.git = @ + 1,
                                        !.links = @ + 1]
  OBVIOUS
<1>4. /\ row \in Stored /\ row.gen = store[p].gen + 1 /\ row.graph = store[p].graph + 1
      /\ row.git = store[p].git + 1 /\ row.links = store[p].links + 1
  <2>1. store[p] \in Stored
    BY DEF IInv, Types
  <2>2. PICK e \in Stored : e = store[p]
    BY <2>1
  <2>3. /\ row = [e EXCEPT !.gen = @ + 1, !.graph = @ + 1, !.git = @ + 1, !.links = @ + 1]
        /\ e.gen + 1 \in Nat /\ e.graph + 1 \in Nat /\ e.git + 1 \in Nat
        /\ e.links + 1 \in Nat
    BY <1>3, <2>2 DEF Stored
  <2>4. QED
    BY <2>2, <2>3 DEF Stored
<1>5. store' = [store EXCEPT ![p] = row]
  BY <1>2, <1>3 DEF Commit
<1>6. /\ store' \in [Project -> Stored] /\ store'[p] = row
      /\ \A r \in Project \ {p} : store'[r] = store[r]
      /\ \A r \in Project \ {p} : Advances(r)
  BY <1>4, <1>5, StoreFacts DEF IInv
<1>7. /\ store[p].gen \in Nat /\ store[p].graph \in Nat
      /\ store[p].git \in Nat /\ store[p].links \in Nat
  BY StoreFields DEF IInv
<1>8. Advances(p)
  BY <1>4, <1>6, <1>7 DEF Advances
<1>9. PICK c \in Call :
         /\ call' = [call EXCEPT ![w] = c] /\ c.pc = "list" /\ c.kind = call[w].kind
         /\ c.project = p /\ c.git = call[w].git
  BY <1>1, <1>2, ContinueFacts DEF IInv
<1>10. Calls(w, c)
  BY <1>1, <1>9 DEF Calls
<1>11. /\ call' \in [Writer -> Call] /\ call'[w] = c
       /\ \A v \in Writer \ {w} : call'[v] = call[v]
  BY <1>10, CallsFacts DEF IInv
<1>12. Types'
  BY <1>1, <1>6, <1>11 DEF IInv, Types
<1>13. call[w].git = 0
  BY <1>1 DEF IInv, Shape, CallShape
<1>14. Shape'
  BY <1>9, <1>10, <1>13, ShapeKept
<1>15. Owes(w)'
  BY <1>4, <1>6, <1>7, <1>9, <1>11, <1>13 DEF Owes
<1>16. Stamps'
  BY <1>6, <1>8, <1>10, <1>12, <1>15, StampsAdvance
<1>17. ASSUME p \notin racy
       PROVE  Kept(p)'
  <2>1. Kept(p) /\ Putting(w, p)
    BY <1>1, <1>2, <1>17 DEF IInv, Putting
  <2>2. \A v \in Writer : ~Deleting(v, p)
    BY <1>1, <2>1 DEF Kept, Gone
  <2>3. \A v \in Writer : ~Deleting(v, p)'
    BY <1>9, <1>11, <2>2 DEF Deleting
  <2>4. Gone(p)'
    BY <2>3 DEF Gone
  <2>5. ASSUME NEW h \in Asked
        PROVE  Fresh(h, p)' /\ Reading(h, p)'
    <3>1. h \in Host /\ Fresh(h, p) /\ Reading(h, p)
      BY <2>1, HostAssumption DEF Kept
    <3>2. cache[h][p].gen \in Nat /\ cache[h][p].edges \in Nat
      BY <3>1, CacheFields DEF IInv
    <3>3. cache[h][p].gen # 0 => Agrees(cache[h][p], p)
      BY <2>2, <3>1 DEF Fresh
    <3>4. cache[h][p].gen # 0 => Agrees(cache[h][p], p)'
      BY <1>1, <1>4, <1>6, <1>7, <3>2, <3>3 DEF Agrees
    <3>5. Fresh(h, p)'
      BY <1>1, <1>4, <1>6, <1>7, <3>1, <3>4 DEF Fresh
    <3>6. query[h] \in Query
      BY <3>1 DEF IInv, Types
    <3>7. query[h].before \in Nat /\ query[h].due.graph \in Nat
      BY <3>6, QueryFields
    <3>8. Reading(h, p)'
      BY <1>1, <1>4, <1>6, <1>7, <3>1, <3>7 DEF Reading, Enough
    <3>9. QED
      BY <3>5, <3>8
  <2>6. QED
    BY <2>4, <2>5 DEF Kept
<1>18. ASSUME NEW r \in Project \ racy'
       PROVE  Kept(r)'
  <2>1. CASE r = p
    BY <1>1, <1>17, <2>1
  <2>2. CASE r # p
    BY <1>1, <1>6, <1>9, <1>10, <2>2, KeptBeside
  <2>3. QED
    BY <2>1, <2>2
<1>19. QED
  BY <1>12, <1>14, <1>16, <1>18 DEF IInv

\* The history or the cross edges of a project are written: its graph stays.
LEMMA EnrichKeepsIInv ==
    ASSUME IInv, NEW w \in Writer, NEW c \in Call, Calls(w, c),
           UNCHANGED <<cache, calls, racy>>,
           NEW p \in Project, NEW row \in Stored, store' = [store EXCEPT ![p] = row],
           row.gen = store[p].gen, row.graph = store[p].graph,
           store[p].git <= row.git, store[p].links <= row.links,
           call[w].pc \in {"links", "git"},
           c.pc \in {"links", "invalidate"}, c.kind = call[w].kind,
           c.project = call[w].project, c.kind = "delete" => c.pc = "links",
           c.pc # "invalidate" => c.git = 0, Owes(w)'
    PROVE  IInv'
<1>1. /\ store' \in [Project -> Stored] /\ store'[p] = row
      /\ \A r \in Project \ {p} : store'[r] = store[r]
      /\ \A r \in Project \ {p} : Advances(r)
  BY StoreFacts DEF IInv
<1>2. Advances(p)
  BY <1>1, StoreFields DEF IInv, Advances, Stored
<1>3. Types'
  BY <1>1, CallsFacts DEF Calls, IInv, Types
<1>4. call[w].project \in Project
  BY DEF IInv, Shape, CallShape
<1>5. Shape'
  BY <1>4, ShapeKept
<1>6. Stamps'
  BY <1>1, <1>2, <1>3, StampsAdvance
<1>7. ASSUME NEW r \in Project \ racy'
      PROVE  Kept(r)'
  BY <1>1, KeptBeside
<1>8. QED
  BY <1>3, <1>5, <1>6, <1>7 DEF IInv

LEMMA ReplaceLinksKeepsIInv ==
    ASSUME IInv, NEW w \in Writer, NEW p \in Project, ReplaceLinks(w, p)
    PROVE  IInv'
<1>1. /\ call[w].pc = "links" /\ p \in call[w].todo /\ store[p].gen # 0
      /\ UNCHANGED <<cache, query, calls, due, racy>>
  BY DEF ReplaceLinks, In, IsStored
<1>2. PICK row : row = [store[p] EXCEPT !.links = @ + 1]
  OBVIOUS
<1>3. /\ row \in Stored /\ row.gen = store[p].gen /\ row.graph = store[p].graph
      /\ row.git = store[p].git /\ row.links = store[p].links + 1
  BY <1>2, StoreFields DEF IInv, Stored
<1>4. store' = [store EXCEPT ![p] = row]
  BY <1>2 DEF ReplaceLinks
<1>5. PICK c : c = [call[w] EXCEPT !.todo = @ \ {p}]
  OBVIOUS
<1>6. call[w] \in Call
  BY DEF IInv, Types
<1>7. /\ c \in Call /\ c.pc = "links" /\ c.kind = call[w].kind
      /\ c.project = call[w].project /\ c.todo = call[w].todo \ {p}
      /\ c.links = call[w].links /\ c.git = call[w].git
  BY <1>1, <1>5, <1>6 DEF Call
<1>8. call' = [call EXCEPT ![w] = c]
  BY <1>5 DEF ReplaceLinks
<1>9. Calls(w, c) /\ call'[w] = c
  BY <1>1, <1>8 DEF Calls, IInv, Types
<1>10. /\ store'[p] = row /\ \A r \in Project \ {p} : store'[r] = store[r]
       /\ store' \in [Project -> Stored]
  BY <1>3, <1>4, StoreFacts DEF IInv
<1>11. call[w].git = 0 /\ call[w].project \in Project
  BY <1>1 DEF IInv, Shape, CallShape
<1>12. Owes(w)'
  <2>1. c.git <= store'[c.project].git
    BY <1>7, <1>10, <1>11 DEF Stored
  <2>2. Owes(w)
    BY DEF IInv, Stamps
  <2>3. ASSUME c.kind = "rebuild", NEW r \in Project
        PROVE  /\ c.links[r] <= store'[r].links + 1
               /\ r \notin c.todo =>
                     c.links[r] <= store'[r].links + (IF store'[r].gen = 0 THEN 1 ELSE 0)
    <3>1. /\ c.links[r] <= store[r].links + 1
          /\ r \notin call[w].todo =>
                c.links[r] <= store[r].links + (IF store[r].gen = 0 THEN 1 ELSE 0)
      BY <1>1, <1>7, <2>2, <2>3 DEF Owes, Written
    <3>2. c.links[r] \in Nat /\ store[r].links \in Nat
      BY <1>7, CallFields, StoreFields DEF IInv
    <3>3. CASE r = p
      BY <1>1, <1>3, <1>10, <3>1, <3>2, <3>3
    <3>4. CASE r # p
      BY <1>7, <1>10, <3>1, <3>4
    <3>5. QED
      BY <3>3, <3>4
  <2>4. QED
    BY <1>7, <1>9, <2>1, <2>3 DEF Owes, Written
<1>13. store[p].git <= row.git /\ store[p].links <= row.links
  BY <1>3, StoreFields DEF IInv
<1>14. QED
  BY <1>1, <1>3, <1>4, <1>7, <1>9, <1>11, <1>12, <1>13, EnrichKeepsIInv

LEMMA GitHistoryKeepsIInv ==
    ASSUME IInv, NEW w \in Writer, GitHistory(w)
    PROVE  IInv'
<1>1. /\ call[w].pc = "git" /\ call[w].kind = "index"
      /\ UNCHANGED <<cache, query, calls, due, racy>>
  BY DEF GitHistory, In, IInv, Shape, CallShape
<1>2. PICK p \in Project : p = call[w].project
  BY <1>1 DEF IInv, Shape, CallShape
<1>3. PICK row : row = [store[p] EXCEPT !.git = @ + 1]
  OBVIOUS
<1>4. /\ row \in Stored /\ row.gen = store[p].gen /\ row.graph = store[p].graph
      /\ row.git = store[p].git + 1 /\ row.links = store[p].links
  BY <1>3, StoreFields DEF IInv, Stored
<1>5. store' = [store EXCEPT ![p] = row]
  BY <1>2, <1>3 DEF GitHistory
<1>6. store'[p] = row
  BY <1>4, <1>5, StoreFacts DEF IInv
<1>7. PICK c : c = [call[w] EXCEPT !.git = row.git, !.pc = "invalidate"]
  OBVIOUS
<1>8. call[w] \in Call /\ row.git \in Nat
  BY <1>4 DEF IInv, Types, Stored
<1>9. /\ c \in Call /\ c.pc = "invalidate" /\ c.kind = "index" /\ c.project = p
      /\ c.git = row.git
  BY <1>1, <1>2, <1>7, <1>8 DEF Call
<1>10. call' = [call EXCEPT ![w] = c]
  <2>1. store'[call[w].project].git = row.git
    BY <1>2, <1>6
  <2>2. call' = [call EXCEPT ![w].git = store'[call[w].project].git, ![w].pc = "invalidate"]
    BY DEF GitHistory
  <2>3. QED
    BY <1>7, <2>1, <2>2
<1>11. Calls(w, c) /\ call'[w] = c
  BY <1>1, <1>10 DEF Calls, IInv, Types
<1>12. Owes(w)'
  BY <1>6, <1>8, <1>9, <1>11 DEF Owes
<1>13. store[p].git <= row.git /\ store[p].links <= row.links
  BY <1>4, StoreFields DEF IInv
<1>14. QED
  BY <1>1, <1>2, <1>4, <1>5, <1>9, <1>11, <1>12, <1>13, EnrichKeepsIInv

LEMMA DeleteProjectKeepsIInv ==
    ASSUME IInv, NEW w \in Writer, DeleteProject(w)
    PROVE  IInv'
<1>1. /\ call[w].pc = "commit" /\ call[w].kind = "delete"
      /\ UNCHANGED <<cache, query, calls, due>>
  BY DEF DeleteProject, In
<1>2. PICK p \in Project : p = call[w].project
  BY <1>1 DEF IInv, Shape, CallShape
<1>3. CASE store[p].gen = 0
  <2>1. Continue(w, "idle") /\ UNCHANGED <<store, racy>>
    BY <1>2, <1>3 DEF DeleteProject, IsStored
  <2>2. QED
    BY <1>1, <2>1, ContinueKeepsIInv
<1>4. CASE store[p].gen # 0
  <2>1. PICK row : row = [gen |-> 0, graph |-> store[p].graph + 1, git |-> store[p].git + 1,
                          links |-> store[p].links + 1]
    OBVIOUS
  <2>2. /\ row \in Stored /\ row.gen = 0 /\ row.graph = store[p].graph + 1
        /\ row.git = store[p].git + 1 /\ row.links = store[p].links + 1
    BY <2>1, StoreFields DEF IInv, Stored
  <2>3. /\ store' = [store EXCEPT ![p] = row] /\ Continue(w, "invalidate")
        /\ racy' = IF \/ \E v \in Writer : ~In(v, "idle") /\ Putting(v, p)
                      \/ \E h \in Asked : h # HostOf[w] \/ ~Asking(h, "idle")
                   THEN racy \cup {p} ELSE racy
    BY <1>2, <1>4, <2>1 DEF DeleteProject, IsStored
  <2>4. /\ store' \in [Project -> Stored] /\ store'[p] = row
        /\ \A r \in Project \ {p} : store'[r] = store[r]
        /\ \A r \in Project \ {p} : Advances(r)
    BY <2>2, <2>3, StoreFacts DEF IInv
  <2>5. Advances(p)
    BY <1>4, <2>2, <2>4, StoreFields DEF IInv, Advances
  <2>6. PICK c \in Call :
           /\ call' = [call EXCEPT ![w] = c] /\ c.pc = "invalidate" /\ c.kind = "delete"
           /\ c.project = p /\ c.git = call[w].git
    BY <1>1, <1>2, <2>3, ContinueFacts DEF IInv
  <2>7. Calls(w, c)
    BY <1>1, <2>6 DEF Calls
  <2>8. /\ call' \in [Writer -> Call] /\ call'[w] = c
        /\ \A v \in Writer \ {w} : call'[v] = call[v]
    BY <2>7, CallsFacts DEF IInv
  <2>9. racy \subseteq racy' /\ racy' \subseteq Project
    BY <2>3 DEF IInv, Types
  <2>10. Types'
    BY <1>1, <2>4, <2>8, <2>9 DEF IInv, Types
  <2>11. call[w].git = 0
    BY <1>1 DEF IInv, Shape, CallShape
  <2>12. Shape'
    BY <2>6, <2>7, ShapeKept
  <2>13. Owes(w)'
    BY <2>2, <2>4, <2>6, <2>8, <2>11, StoreFields DEF IInv, Owes
  <2>14. Stamps'
    BY <2>4, <2>5, <2>7, <2>10, <2>13, StampsAdvance
  <2>15. ASSUME p \notin racy'
         PROVE  Kept(p)'
    <3>1. /\ \A v \in Writer : call[v].pc = "idle" \/ ~Putting(v, p)
          /\ \A h \in Asked : h = HostOf[w] /\ query[h].pc = "idle"
      BY <2>3, <2>15 DEF In, Asking
    <3>2. Deleting(w, p)'
      BY <2>6, <2>8 DEF Deleting
    <3>3. \A v \in Writer : call'[v].pc = "idle" \/ ~Putting(v, p)'
      BY <2>6, <2>8, <3>1 DEF Putting
    <3>4. Gone(p)'
      BY <2>2, <2>4, <3>3 DEF Gone
    <3>5. ASSUME NEW h \in Asked
          PROVE  Fresh(h, p)' /\ Reading(h, p)'
      <4>1. Reading(h, p)'
        BY <1>1, <3>1 DEF Reading, Read
      <4>2. Fresh(h, p)
        BY <2>9, <2>15 DEF IInv, Kept
      <4>3. Fresh(h, p)'
        BY <1>1, <2>2, <2>4, <3>1, <3>2, <4>2 DEF Fresh
      <4>4. QED
        BY <4>1, <4>3
    <3>6. QED
      BY <3>4, <3>5 DEF Kept
  <2>16. ASSUME NEW r \in Project \ racy'
         PROVE  Kept(r)'
    <3>1. CASE r = p
      BY <2>15, <3>1
    <3>2. CASE r # p
      BY <1>1, <2>4, <2>6, <2>7, <2>9, <3>2, KeptBeside
    <3>3. QED
      BY <3>1, <3>2
  <2>17. QED
    BY <2>10, <2>12, <2>14, <2>16 DEF IInv
<1>5. QED
  BY <1>3, <1>4

\* A call that drops cached graphs ends, and its process owes what it wrote.
LEMMA FinishFacts ==
    ASSUME IInv, NEW w \in Writer, call[w].pc = "invalidate", Finish(w)
    PROVE  /\ due' \in [Host -> [Project -> Due]]
           /\ \A h \in Host, p \in Project :
                 /\ due[h][p].git <= due'[h][p].git /\ due[h][p].rebuilt <= due'[h][p].rebuilt
                 /\ due'[h][p].git <= store[p].git /\ Written(due'[h][p].rebuilt, p)
                 /\ \/ h # HostOf[w]
                    \/ call[w].kind # "rebuild" /\ p # call[w].project
                    => due'[h][p] = due[h][p]
<1> DEFINE g == HostOf[w]
           Debt(p) == [due[g][p] EXCEPT
              !.git = IF p = call[w].project THEN Later(@, call[w].git) ELSE @,
              !.rebuilt = IF call[w].kind = "rebuild" THEN Later(@, call[w].links[p]) ELSE @]
<1>1. g \in Host
  BY HostAssumption
<1>2. PICK d : d = [p \in Project |-> Debt(p)]
  OBVIOUS
<1>3. due' = [due EXCEPT ![g] = d]
  BY <1>2 DEF Finish
<1>4. call[w] \in Call /\ Owes(w)
  BY DEF IInv, Types, Stamps
<1>5. call[w].git \in Nat /\ call[w].links \in [Project -> Nat]
  BY <1>4, CallFields
<1>6. ASSUME NEW p \in Project
      PROVE  /\ d[p] \in Due
             /\ due[g][p].git <= d[p].git /\ due[g][p].rebuilt <= d[p].rebuilt
             /\ d[p].git <= store[p].git /\ Written(d[p].rebuilt, p)
             /\ call[w].kind # "rebuild" /\ p # call[w].project => d[p] = due[g][p]
  <2>1. PICK e \in Due : e = due[g][p]
    BY <1>1, DueFields DEF IInv
  <2>2. PICK git : git = IF p = call[w].project THEN Later(e.git, call[w].git) ELSE e.git
    OBVIOUS
  <2>3. PICK n : n = IF call[w].kind = "rebuild" THEN Later(e.rebuilt, call[w].links[p])
                                               ELSE e.rebuilt
    OBVIOUS
  <2>4. d[p] = [e EXCEPT !.git = git, !.rebuilt = n]
    BY <1>2, <2>1, <2>2, <2>3
  <2>5. e.git \in Nat /\ e.rebuilt \in Nat
    BY <2>1 DEF Due
  <2>6. e.git <= store[p].git /\ Written(e.rebuilt, p)
    BY <1>1, <2>1 DEF IInv, Stamps, Promised
  <2>7. git \in Nat /\ e.git <= git /\ git <= store[p].git
    BY <1>4, <1>5, <2>2, <2>5, <2>6 DEF Owes, Later
  <2>8. n \in Nat /\ e.rebuilt <= n /\ Written(n, p)
    <3>1. CASE call[w].kind = "rebuild"
      <4>1. PICK m \in Nat : m = call[w].links[p]
        BY <1>5
      <4>2. Written(m, p) /\ n = Later(e.rebuilt, m)
        BY <1>4, <2>3, <3>1, <4>1 DEF Owes
      <4>3. QED
        BY <2>5, <2>6, <4>2 DEF Later
    <3>2. CASE call[w].kind # "rebuild"
      BY <2>3, <2>5, <2>6, <3>2
    <3>3. QED
      BY <3>1, <3>2
  <2>9. d[p] \in Due /\ d[p].git = git /\ d[p].rebuilt = n
    BY <2>1, <2>4, <2>7, <2>8 DEF Due
  <2>10. ASSUME call[w].kind # "rebuild", p # call[w].project
         PROVE  d[p] = due[g][p]
    BY <2>1, <2>2, <2>3, <2>4, <2>10 DEF Due
  <2>11. QED
    BY <2>1, <2>7, <2>8, <2>9, <2>10
<1>7. d \in [Project -> Due]
  BY <1>2, <1>6
<1>8. /\ due' \in [Host -> [Project -> Due]] /\ due'[g] = d
      /\ \A h \in Host \ {g} : due'[h] = due[h]
  BY <1>1, <1>3, <1>7 DEF IInv, Types
<1>9. ASSUME NEW h \in Host, NEW p \in Project
      PROVE  /\ due[h][p].git \in Nat /\ due[h][p].rebuilt \in Nat
             /\ due[h][p].git <= store[p].git /\ Written(due[h][p].rebuilt, p)
  BY DueFields DEF IInv, Stamps, Promised
<1>10. QED
  BY <1>6, <1>8, <1>9

LEMMA InvalidateKeepsIInv ==
    ASSUME IInv, NEW w \in Writer, Invalidate(w)
    PROVE  IInv'
<1> DEFINE g == HostOf[w]
           dropped == IF call[w].kind = "rebuild" THEN Project ELSE {call[w].project}
<1>1. /\ call[w].pc = "invalidate" /\ ~Asking(g, "edges") /\ Finish(w)
      /\ Continue(w, "idle") /\ UNCHANGED <<store, query, calls, racy>>
  BY DEF Invalidate, In, Finish
<1>2. g \in Host
  BY HostAssumption
<1>3. /\ due' \in [Host -> [Project -> Due]]
      /\ \A h \in Host, p \in Project :
            /\ due[h][p].git <= due'[h][p].git /\ due[h][p].rebuilt <= due'[h][p].rebuilt
            /\ due'[h][p].git <= store[p].git /\ Written(due'[h][p].rebuilt, p)
            /\ h # g \/ p \notin dropped => due'[h][p] = due[h][p]
  BY <1>1, FinishFacts
<1>4. PICK d : d = [p \in Project |-> IF p \in dropped THEN NoGraph ELSE cache[g][p]]
  OBVIOUS
<1>5. cache' = [cache EXCEPT ![g] = d]
  BY <1>4 DEF Invalidate
<1>6. d \in [Project -> Graph]
  BY <1>2, <1>4, NoneFields, CacheFields DEF IInv
<1>7. /\ cache' \in [Host -> [Project -> Graph]]
      /\ \A p \in Project : p \in dropped => cache'[g][p].gen = 0
      /\ \A h \in Host, p \in Project :
            h # g \/ p \notin dropped => cache'[h][p] = cache[h][p]
  BY <1>2, <1>4, <1>5, <1>6, NoneFields DEF IInv, Types
<1>8. PICK c \in Call : call' = [call EXCEPT ![w] = c] /\ c.pc = "idle" /\ c.git = 0
  BY <1>1, ContinueFacts DEF IInv
<1>9. /\ call' \in [Writer -> Call] /\ call'[w] = c
      /\ \A v \in Writer \ {w} : call'[v] = call[v]
  BY <1>8 DEF IInv, Types
<1>10. Types'
  BY <1>1, <1>3, <1>7, <1>9 DEF IInv, Types
<1>11. Shape'
  <2>1. \A h \in Host : QueryShape(h)'
    BY <1>1 DEF IInv, Shape, QueryShape
  <2>2. \A v \in Writer : CallShape(v)'
    BY <1>8, <1>9 DEF IInv, Shape, CallShape
  <2>3. QED
    BY <2>1, <2>2 DEF Shape
<1>12. Stamps'
  <2>1. \A h \in Host, p \in Project : Promised(h, p)'
    BY <1>1, <1>3 DEF Promised, Written
  <2>2. ASSUME NEW h \in Host
        PROVE  Expected(h)'
    <3>1. SUFFICES ASSUME query[h].pc # "idle"
                   PROVE  Expected(h)'
      BY <1>1 DEF Expected
    <3>2. PICK p \in Project : p = query[h].project
      BY <3>1 DEF IInv, Shape, QueryShape
    <3>3. query[h] \in Query
      BY DEF IInv, Types
    <3>4. query[h].due.git \in Nat /\ query[h].due.rebuilt \in Nat
      BY <3>3, QueryFields
    <3>5. /\ due[h][p].git \in Nat /\ due[h][p].rebuilt \in Nat
          /\ due'[h][p].git \in Nat /\ due'[h][p].rebuilt \in Nat
      BY <1>3, DueFields DEF IInv, Due
    <3>6. /\ query[h].due.graph <= store[p].graph /\ query[h].due.git <= due[h][p].git
          /\ query[h].due.rebuilt <= due[h][p].rebuilt
      BY <3>1, <3>2 DEF IInv, Stamps, Expected
    <3>7. query[h].due.git <= due'[h][p].git /\ query[h].due.rebuilt <= due'[h][p].rebuilt
      BY <1>3, <3>4, <3>5, <3>6
    <3>8. QED
      BY <1>1, <3>2, <3>6, <3>7 DEF Expected
  <2>3. \A v \in Writer : Owes(v)'
    BY <1>1, <1>8, <1>9 DEF IInv, Stamps, Owes, Written
  <2>4. QED
    BY <2>1, <2>2, <2>3 DEF Stamps
<1>13. ASSUME NEW p \in Project \ racy'
       PROVE  Kept(p)'
  <2>1. Kept(p)
    BY <1>1 DEF IInv
  <2>2. Gone(p)'
    BY <1>1, <1>8, <1>9, <2>1 DEF Kept, Gone, Deleting, Putting
  <2>3. ASSUME NEW h \in Asked
        PROVE  Fresh(h, p)' /\ Reading(h, p)'
    <3>1. h \in Host /\ Fresh(h, p) /\ Reading(h, p)
      BY <2>1, HostAssumption DEF Kept
    <3>2. CASE h = g /\ p \in dropped
      <4>1. query[h].pc # "edges" /\ cache'[h][p].gen = 0
        BY <1>1, <1>7, <3>2 DEF Asking
      <4>2. query[h].pc \in Read => query[h].before # 0
        BY <3>1 DEF IInv, Shape, QueryShape
      <4>3. Fresh(h, p)'
        BY <4>1 DEF Fresh
      <4>4. Reading(h, p)'
        BY <1>1, <3>1, <4>1, <4>2 DEF Reading, Enough
      <4>5. QED
        BY <4>3, <4>4
    <3>3. CASE ~(h = g /\ p \in dropped)
      <4>1. cache'[h][p] = cache[h][p] /\ due'[h][p] = due[h][p]
        BY <1>3, <1>7, <3>1, <3>3
      <4>2. \A v \in Writer : HostOf[v] = h /\ Deleting(v, p) => v # w
        BY <3>3 DEF Deleting
      <4>3. Fresh(h, p)'
        BY <1>1, <1>9, <3>1, <4>1, <4>2 DEF Fresh, Agrees, Deleting
      <4>4. Reading(h, p)'
        BY <1>1, <3>1, <4>1 DEF Reading, Enough
      <4>5. QED
        BY <4>3, <4>4
    <3>4. QED
      BY <3>2, <3>3
  <2>4. QED
    BY <2>2, <2>3 DEF Kept
<1>14. QED
  BY <1>10, <1>11, <1>12, <1>13 DEF IInv

LEMMA CallStepsKeepIInv ==
    ASSUME IInv, NEW w \in Writer, CallStep(w)
    PROVE  IInv'
BY CommitKeepsIInv, UnchangedKeepsIInv, ListProjectsKeepsIInv, ReplaceLinksKeepsIInv,
   LinksFailKeepsIInv, LinksDoneKeepsIInv, GitHistoryKeepsIInv, NoHistoryKeepsIInv,
   DeleteProjectKeepsIInv, InvalidateKeepsIInv, Zenon DEF CallStep

-----------------------------------------------------------------------------
(* The specification.                                                      *)

LEMMA InitIInv == Init => IInv
<1> SUFFICES ASSUME Init PROVE IInv
  OBVIOUS
<1>1. /\ store \in [Project -> {[gen |-> n, graph |-> 1, git |-> 1, links |-> 1] : n \in 0 .. 1}]
      /\ cache = [h \in Host |-> [p \in Project |-> NoGraph]]
      /\ query = [h \in Host |-> NoQuery] /\ call = [w \in Writer |-> NoCall]
      /\ calls = 0 /\ due = [h \in Host |-> [p \in Project |-> NothingDue]] /\ racy = {}
  BY DEF Init
<1>2. {[gen |-> n, graph |-> 1, git |-> 1, links |-> 1] : n \in 0 .. 1} \subseteq Stored
  BY DEF Stored
<1>3. NothingDue \in Due /\ NothingDue.git = 0 /\ NothingDue.rebuilt = 0
  BY DEF NothingDue, Due
<1>4. Types
  BY <1>1, <1>2, <1>3, NoneFields DEF Types
<1>5. Shape
  BY <1>1, NoneFields DEF Shape, QueryShape, CallShape, Read
<1>6. Stamps
  BY <1>1, <1>3, <1>4, NoneFields, StoreFields
     DEF Stamps, Promised, Expected, Owes, Written
<1>7. ASSUME NEW p \in Project
      PROVE  Kept(p)
  <2>1. Gone(p)
    BY <1>1, NoneFields DEF Gone, Deleting
  <2>2. ASSUME NEW h \in Asked
        PROVE  Fresh(h, p) /\ Reading(h, p)
    BY <1>1, NoneFields, HostAssumption DEF Fresh, Reading, Read
  <2>3. QED
    BY <2>1, <2>2 DEF Kept
<1>8. QED
  BY <1>4, <1>5, <1>6, <1>7 DEF IInv

LEMMA NextKeepsIInv == IInv /\ [Next]_vars => IInv'
<1> SUFFICES ASSUME IInv, [Next]_vars PROVE IInv'
  OBVIOUS
<1>1. CASE UNCHANGED vars
  BY <1>1 DEF vars, IInv, Types, Shape, QueryShape, CallShape, Stamps, Promised, Expected,
              Owes, Written, Kept, Gone, Fresh, Reading, Deleting, Agrees, Enough, Putting
<1>2. ASSUME NEW h \in Host, NEW p \in Project, Ask(h, p)
      PROVE  IInv'
  BY <1>2, AskKeepsIInv
<1>3. ASSUME NEW w \in Writer, NEW p \in Project,
             NEW kind \in {"index", "refresh", "delete", "rebuild"}, StartCall(w, kind, p)
      PROVE  IInv'
  BY <1>3, StartCallKeepsIInv
<1>4. ASSUME NEW h \in Host, QueryStep(h)
      PROVE  IInv'
  BY <1>4, QueryStepsKeepIInv
<1>5. ASSUME NEW w \in Writer, CallStep(w)
      PROVE  IInv'
  BY <1>5, CallStepsKeepIInv
<1>6. QED
  BY <1>1, <1>2, <1>3, <1>4, <1>5, Zenon DEF Next

THEOREM SpecIInv == Spec => []IInv
BY InitIInv, NextKeepsIInv, PTL DEF Spec

\* The values are what the code's types say, and an answer's graph was loaded.
THEOREM TypeCorrect == Spec => []TypeOK
<1>1. IInv => TypeOK
  BY DEF IInv, Types, Shape, QueryShape, Read, TypeOK
<1>2. QED
  BY <1>1, SpecIInv, PTL

\* Whatever commits overlap with the two reads of a graph, and whichever process
\* they are of, comparing generations leaves only graphs of one commit to answer with.
THEOREM LoadedAtOneCommit == Spec => []AnswersAreOfOneCommit
<1>1. IInv => AnswersAreOfOneCommit
  BY HostAssumption
     DEF IInv, Shape, QueryShape, Kept, Reading, Read, Answering, AnswersAreOfOneCommit
<1>2. QED
  BY <1>1, SpecIInv, PTL

\* No answer misses what was stored when it was asked, nor what a call of its own
\* process had written by then and has to drop the cached graph for.
THEOREM NothingStaleIsAnswered == Spec => []AnswersAreCurrent
<1>1. IInv => AnswersAreCurrent
  <2> SUFFICES ASSUME IInv, NEW h \in Host, Answering(h)
               PROVE  LET got == query[h].got  owed == query[h].due IN
                      /\ got.edges >= owed.graph /\ got.git >= owed.git
                      /\ got.links >= owed.rebuilt
    BY DEF AnswersAreCurrent
  <2>1. Enough(query[h])
    BY DEF IInv, Shape, QueryShape, Kept, Reading, Read, Answering
  <2>2. query[h] \in Query
    BY DEF IInv, Types
  <2>3. QED
    BY <2>1, <2>2, QueryFields DEF Enough
<1>2. QED
  BY <1>1, SpecIInv, PTL

=============================================================================
