---------------------------- MODULE Watcher_proofs ----------------------------
(***************************************************************************)
(* What holds of Watcher for any clients, contents and bounds: the type,   *)
(* and the safety part of VisibleChangesIndexed.                           *)
(*                                                                         *)
(* The type counts the states that clients make (Counted): each takes a    *)
(* call, and a call that is still to make its own is counted before.       *)
(*                                                                         *)
(* A change that git shows cannot be taken for seen before it is indexed,  *)
(* because of what the thread that is on its way to index it remembers     *)
(* (Shown): a change in the middle of its index is visible only if it      *)
(* differs from the snapshot that the thread is going to record.  A thread *)
(* that works for a state which a client has replaced writes its snapshot  *)
(* into the old state (Replaced).                                          *)
(***************************************************************************)
EXTENDS Watcher, FiniteSetTheorems, TLAPS

USE WatcherAssumption

-----------------------------------------------------------------------------
\* The inductive invariant of the type.

\* Clients that are still to make a state in the call they are in.
Busy == {u \in User : user[u] \in {"commit", "watch"}}

Counted ==
    /\ calls \in 0..MaxCall /\ made \in Nat \ {0}
    /\ IsFiniteSet(Busy) /\ made + Cardinality(Busy) <= calls + 1
    /\ watched \in 0..made /\ poll.id <= made

\* What the thread has read by the time it needs it.
PollFits ==
    /\ pc = "status" => poll.head # NoProject
    /\ pc \in {"index", "commit", "record", "failed"} => poll.pending # NoBaseline

WorldOK ==
    /\ tree \in Tree /\ graph \in Content \cup {NoProject}
    /\ stopped \in BOOLEAN /\ woken \in BOOLEAN /\ visible \in BOOLEAN
    /\ user \in [User -> {"idle", "commit", "watch", "unwatch"}]
    /\ read \in [User -> Content \cup {NoProject}]
    /\ changes \in 0..MaxChange /\ fails \in 0..MaxFail
StatesOK ==
    /\ states \in [Ids -> State]
    /\ \A i \in Ids : states[i].git = "yes" => states[i].baseline # NoBaseline
ThreadOK == pc \in PCs /\ poll \in Poll /\ PollFits

IInv == WorldOK /\ StatesOK /\ ThreadOK /\ Counted

LEMMA SnapshotsAreNoBaseline == \A s \in Snapshots : s # NoBaseline
BY DEF Snapshots

LEMMA InvType == IInv => TypeOK
<1> SUFFICES ASSUME IInv PROVE TypeOK
  OBVIOUS
<1>1. Cardinality(Busy) \in Nat
  BY FS_CardinalityType DEF IInv, Counted
<1>2. made \in Ids
  BY <1>1 DEF IInv, Counted, Ids
<1> QED
  BY <1>2 DEF IInv, WorldOK, StatesOK, ThreadOK, Counted, TypeOK, Ids

LEMMA InitInv == Init => IInv
<1> SUFFICES ASSUME Init PROVE IInv
  OBVIOUS
<1>1. Busy = {}
  BY DEF Init, Busy
<1>2. Counted
  BY <1>1, FS_EmptySet DEF Init, Counted, NoPoll
<1>3. NewState \in State /\ NewState.git = "unknown"
  BY DEF NewState, State
<1>4. StatesOK
  BY <1>3 DEF Init, StatesOK
<1>5. ThreadOK
  BY DEF Init, ThreadOK, PollFits, PCs, NoPoll, Poll, Ids
<1>6. WorldOK
  <2>1. tree \in Tree
    BY DEF Init, Tree, Kinds
  <2>2. user \in [User -> {"idle", "commit", "watch", "unwatch"}]
    BY DEF Init
  <2>3. read \in [User -> Content \cup {NoProject}]
    BY DEF Init
  <2>4. changes \in 0..MaxChange /\ fails \in 0..MaxFail
    BY DEF Init
  <2>5. stopped \in BOOLEAN /\ woken \in BOOLEAN /\ visible \in BOOLEAN
    BY DEF Init
  <2>6. graph \in Content \cup {NoProject}
    BY DEF Init
  <2> QED BY <2>1, <2>2, <2>3, <2>4, <2>5, <2>6 DEF WorldOK
<1> QED BY <1>2, <1>4, <1>5, <1>6 DEF IInv

\* The thread counts nothing but its own failures.
LEMMA PollerCounts ==
    ASSUME IInv, Poller
    PROVE  Counted'
<1>1. UNCHANGED <<user, calls, made>> /\ watched' \in {watched, 0}
  BY DEF Poller, client, Top, CheckRoot, ReadHead, ReadStatus, IndexRead, IndexCommit,
     Record, RecordFailure, Prune, Forget, Wait, Wake
<1>2. poll'.id <= made
  <2>0. poll \in Poll
    BY DEF IInv, ThreadOK
  <2>1. CASE Top
    BY <2>0, <2>1 DEF Top, IInv, Counted, Poll, Ids
  <2>2. CASE Wait
    BY <2>2 DEF Wait, NoPoll, IInv, Counted
  <2>3. CASE ~Top /\ ~Wait
    <3>1. poll'.id = poll.id
      BY <2>0, <2>3 DEF Poller, CheckRoot, ReadHead, ReadStatus, IndexRead, IndexCommit,
         Record, RecordFailure, Prune, Forget, Wake, Poll
    <3> QED BY <3>1 DEF IInv, Counted
  <2> QED BY <2>1, <2>2, <2>3
<1>3. Busy' = Busy
  BY <1>1 DEF Busy
<1> QED BY <1>1, <1>2, <1>3 DEF IInv, Counted

LEMMA PollerWorld ==
    ASSUME IInv, Poller
    PROVE  WorldOK'
<1> USE DEF IInv, WorldOK, client
<1>1. UNCHANGED <<tree, stopped, visible, changes, user, read>>
  BY DEF Poller, Top, CheckRoot, ReadHead, ReadStatus, IndexRead, IndexCommit,
     Record, RecordFailure, Prune, Forget, Wait, Wake
<1>2. woken' \in BOOLEAN
  BY DEF Poller, Top, CheckRoot, ReadHead, ReadStatus, IndexRead, IndexCommit,
     Record, RecordFailure, Prune, Forget, Wait, Wake
<1>3. fails' \in 0..MaxFail
  BY DEF Poller, Top, CheckRoot, ReadHead, ReadStatus, IndexRead, IndexCommit,
     Record, RecordFailure, Prune, Forget, Wait, Wake, Fail
<1>4. graph' \in {graph, poll.file, NoProject}
  BY DEF Poller, Top, CheckRoot, ReadHead, ReadStatus, IndexRead, IndexCommit,
     Record, RecordFailure, Prune, Forget, Wait, Wake
<1>5. poll.file \in Content \cup {NoProject}
  BY DEF ThreadOK, Poll
<1> QED BY <1>1, <1>2, <1>3, <1>4, <1>5

LEMMA PollerStates ==
    ASSUME IInv, Poller
    PROVE  StatesOK'
<1>0. poll.id \in Ids /\ poll.head \in Content \cup {NoProject} /\ tree.file \in Content
      /\ tree.head \in Content /\ poll.pending \in Snapshots \cup {NoBaseline}
  BY DEF IInv, WorldOK, ThreadOK, Poll, Tree
<1>1. state \in State /\ (state.git = "yes" => state.baseline # NoBaseline)
  BY <1>0 DEF IInv, StatesOK, state
<1>2. ASSUME NEW s, SetState(s), s \in State, s.git = "yes" => s.baseline # NoBaseline
      PROVE  StatesOK'
  BY <1>0, <1>2 DEF SetState, IInv, StatesOK
<1>3. CASE UNCHANGED states
  BY <1>3 DEF IInv, StatesOK
<1>4. CASE CheckRoot
  <2>1. ASSUME NEW m \in 0..MissingPolls, SetState([state EXCEPT !.missing = m])
        PROVE  StatesOK'
    <3> DEFINE s == [state EXCEPT !.missing = m]
    <3>1. s \in State /\ s.git = state.git /\ s.baseline = state.baseline
      BY <1>1 DEF State
    <3> QED BY <1>1, <1>2, <2>1, <3>1
  <2>2. ASSUME SetState([state EXCEPT !.missing = 0, !.grace = FALSE])
        PROVE  StatesOK'
    <3> DEFINE s == [state EXCEPT !.missing = 0, !.grace = FALSE]
    <3>0. 0 \in 0..MissingPolls
      OBVIOUS
    <3>1. s \in State /\ s.git = state.git /\ s.baseline = state.baseline
      BY <1>1, <3>0 DEF State
    <3> QED BY <1>1, <1>2, <2>2, <3>1
  <2>3. state.missing \in 0..MissingPolls
    BY <1>1 DEF State
  <2>4. (IF state.missing < MissingPolls THEN state.missing + 1 ELSE MissingPolls)
          \in 0..MissingPolls
    BY <2>3
  <2> QED BY <1>4, <2>1, <2>2, <2>4 DEF CheckRoot
<1>5. ASSUME NEW b \in BOOLEAN, SetState([state EXCEPT !.due = b])
      PROVE  StatesOK'
  <2> DEFINE s == [state EXCEPT !.due = b]
  <2>1. s \in State /\ s.git = state.git /\ s.baseline = state.baseline
    BY <1>1 DEF State
  <2> QED BY <1>1, <1>2, <1>5, <2>1
<1>6. ASSUME NEW t \in Snapshots, NEW b \in BOOLEAN,
             \/ SetState([state EXCEPT !.baseline = t, !.git = "yes", !.due = b])
             \/ SetState([state EXCEPT !.baseline = t, !.due = b])
      PROVE  StatesOK'
  <2> DEFINE s1 == [state EXCEPT !.baseline = t, !.git = "yes", !.due = b]
             s2 == [state EXCEPT !.baseline = t, !.due = b]
  <2>1. s1 \in State /\ s1.baseline = t /\ s2 \in State /\ s2.baseline = t
    BY <1>1 DEF State
  <2>2. t # NoBaseline
    BY SnapshotsAreNoBaseline
  <2> QED BY <1>2, <1>6, <2>1, <2>2
<1>7. CASE ReadHead
  <2>1. ASSUME NEW b \in BOOLEAN, SetState([state EXCEPT !.git = "no", !.due = b])
        PROVE  StatesOK'
    <3> DEFINE s == [state EXCEPT !.git = "no", !.due = b]
    <3>1. s \in State /\ s.git = "no"
      BY <1>1 DEF State
    <3> QED BY <1>2, <2>1, <3>1
  <2>2. CASE SetState([state EXCEPT !.git = "no",
                         !.due = IF state.git = "unknown" THEN FALSE ELSE @])
    <3>1. state.due \in BOOLEAN
      BY <1>1 DEF State
    <3>2. CASE state.git = "unknown"
      BY <2>1, <2>2, <3>2
    <3>3. CASE state.git # "unknown"
      BY <2>1, <2>2, <3>1, <3>3
    <3> QED BY <3>2, <3>3
  <2> QED BY <1>3, <1>5, <1>7, <2>2 DEF ReadHead
<1>8. CASE ReadStatus
  <2>1. <<poll.head, tree.file # tree.head>> \in Snapshots
    BY <1>0, <1>8 DEF ReadStatus, IInv, ThreadOK, PollFits, Snapshots
  <2> QED BY <1>3, <1>5, <1>6, <1>8, <2>1 DEF ReadStatus
<1>9. CASE Record
  <2>1. poll.pending \in Snapshots
    BY <1>0, <1>9 DEF Record, IInv, ThreadOK, PollFits
  <2> QED BY <1>6, <1>9, <2>1 DEF Record
<1>10. CASE RecordFailure
  BY <1>5, <1>10 DEF RecordFailure
<1> QED
  BY <1>3, <1>4, <1>7, <1>8, <1>9, <1>10
     DEF Poller, Top, IndexRead, IndexCommit, Prune, Forget, Wait, Wake

LEMMA PollerThread ==
    ASSUME IInv, Poller
    PROVE  ThreadOK'
<1> USE DEF ThreadOK, PollFits, Goto, PCs
<1>0. poll \in Poll /\ tree.file \in Content /\ tree.head \in Content /\ PollFits
  BY DEF IInv, WorldOK, Tree
<1>1. CASE Top
  <2>1. watched \in Ids \cup {0}
    BY InvType DEF TypeOK, Ids
  <2> QED BY <1>0, <1>1, <2>1 DEF Top, Poll
<1>2. CASE CheckRoot \/ IndexCommit \/ Record \/ RecordFailure \/ Prune \/ Forget \/ Wake
  BY <1>0, <1>2 DEF CheckRoot, IndexCommit, Record, RecordFailure, Prune, Forget, Wake
<1>3. CASE ReadHead
  BY <1>0, <1>3 DEF ReadHead, Poll
<1>4. CASE ReadStatus
  <2>1. CASE UNCHANGED poll /\ pc' = "end"
    BY <1>0, <2>1
  <2>2. CASE poll' = [poll EXCEPT !.pending = <<poll.head, tree.file # tree.head>>] /\ pc' = "index"
    <3>1. <<poll.head, tree.file # tree.head>> \in Snapshots
      BY <1>0, <1>4 DEF ReadStatus, Poll, Snapshots
    <3> QED BY <1>0, <2>2, <3>1, SnapshotsAreNoBaseline DEF Poll
  <2> QED BY <1>4, <2>1, <2>2 DEF ReadStatus
<1>5. CASE IndexRead
  BY <1>0, <1>5 DEF IndexRead, Poll
<1>6. CASE Wait
  BY <1>0, <1>6 DEF Wait, NoPoll, Poll, Ids
<1> QED
  BY <1>1, <1>2, <1>3, <1>4, <1>5, <1>6 DEF Poller

\* A call of a client makes at most one state.
LEMMA ClientCounts ==
    ASSUME IInv, NEW u \in User, Client(u)
    PROVE  Counted'
<1> USE DEF IInv, Counted
<1>0. Cardinality(Busy) \in Nat /\ user \in [User -> {"idle", "commit", "watch", "unwatch"}]
      /\ poll.id \in Nat
  BY FS_CardinalityType DEF ThreadOK, WorldOK, Poll, Ids
<1>1. CASE StartIndex(u)
  <2>1. Busy' = Busy \cup {u} /\ u \notin Busy
    BY <1>0, <1>1 DEF StartIndex, UserGoto, Busy
  <2>2. IsFiniteSet(Busy') /\ Cardinality(Busy') = Cardinality(Busy) + 1
    BY <2>1, FS_AddElement
  <2> QED BY <1>0, <1>1, <2>2 DEF StartIndex
<1>2. CASE Watch(u)
  <2>1. Busy' = Busy \ {u} /\ u \in Busy
    BY <1>0, <1>2 DEF Watch, UserGoto, Busy
  <2>2. IsFiniteSet(Busy') /\ Cardinality(Busy') = Cardinality(Busy) - 1
    BY <2>1, FS_RemoveElement
  <2> QED BY <1>0, <1>2, <2>2 DEF Watch
<1>3. CASE UserCommit(u)
  <2>1. Busy' = Busy \/ (Busy' = Busy \ {u} /\ u \in Busy)
    BY <1>0, <1>3 DEF UserCommit, UserGoto, Busy
  <2>2. IsFiniteSet(Busy') /\ Cardinality(Busy') \in Nat /\ Cardinality(Busy') <= Cardinality(Busy)
    <3>1. CASE Busy' = Busy
      BY <1>0, <3>1
    <3>2. CASE Busy' = Busy \ {u} /\ u \in Busy
      <4>1. IsFiniteSet(Busy') /\ Cardinality(Busy') = Cardinality(Busy) - 1
        BY <3>2, FS_RemoveElement
      <4>2. Cardinality(Busy') \in Nat
        BY <4>1, FS_CardinalityType
      <4> QED BY <1>0, <4>1, <4>2
    <3> QED BY <2>1, <3>1, <3>2
  <2> QED BY <1>0, <1>3, <2>2 DEF UserCommit
<1>4. CASE DeleteProject(u)
  <2>1. Busy' = Busy
    BY <1>0, <1>4 DEF DeleteProject, UserGoto, Busy
  <2> QED BY <1>0, <1>4, <2>1 DEF DeleteProject
<1>5. CASE Unwatch(u)
  <2>1. Busy' = Busy
    BY <1>0, <1>5 DEF Unwatch, UserGoto, Busy
  <2> QED BY <1>0, <1>5, <2>1 DEF Unwatch
<1> QED
  BY <1>1, <1>2, <1>3, <1>4, <1>5 DEF Client

LEMMA ClientRest ==
    ASSUME IInv, NEW u \in User, Client(u)
    PROVE  WorldOK' /\ StatesOK' /\ ThreadOK'
<1>1. UNCHANGED <<tree, pc, poll, stopped, changes, fails>> /\ woken' \in BOOLEAN
  BY DEF Client, StartIndex, UserCommit, Watch, DeleteProject, Unwatch, Notify, IInv, WorldOK
<1>2. ThreadOK'
  BY <1>1 DEF IInv, ThreadOK, PollFits
<1>3. tree.file \in Content
  BY DEF IInv, WorldOK, Tree
<1>4. WorldOK'
  BY <1>1, <1>3 DEF IInv, WorldOK, Client, StartIndex, UserCommit, Watch, DeleteProject,
     Unwatch, UserGoto
<1>5. StatesOK'
  <2>1. NewState \in State /\ NewState.git = "unknown"
    BY DEF NewState, State
  <2>2. UNCHANGED states \/ \E i : states' = [states EXCEPT ![i] = NewState]
    BY DEF Client, StartIndex, UserCommit, Watch, DeleteProject, Unwatch
  <2> QED BY <2>1, <2>2 DEF IInv, StatesOK
<1> QED BY <1>2, <1>4, <1>5

LEMMA NextInv == IInv /\ [Next]_vars => IInv'
<1> SUFFICES ASSUME IInv, [Next]_vars PROVE IInv'
  OBVIOUS
<1>1. CASE Poller
  BY <1>1, PollerCounts, PollerWorld, PollerStates, PollerThread DEF IInv
<1>2. ASSUME NEW u \in User, Client(u)
      PROVE  IInv'
  BY <1>2, ClientCounts, ClientRest DEF IInv
<1>3. ASSUME NEW i \in Ids, Tick(i)
      PROVE  IInv'
  <2>1. Counted' /\ WorldOK' /\ ThreadOK'
    BY <1>3 DEF Tick, IInv, WorldOK, ThreadOK, Counted, PollFits, Busy, client
  <2>2. states[i] \in State
    BY DEF IInv, StatesOK
  <2>3. \/ states' = [states EXCEPT ![i] = [states[i] EXCEPT !.due = TRUE]]
        \/ states' = [states EXCEPT ![i] = [states[i] EXCEPT !.grace = TRUE]]
    BY <1>3 DEF Tick
  <2>4. \A s \in {[states[i] EXCEPT !.due = TRUE], [states[i] EXCEPT !.grace = TRUE]} :
           s \in State /\ s.git = states[i].git /\ s.baseline = states[i].baseline
    BY <2>2 DEF State
  <2>5. StatesOK'
    BY <2>3, <2>4 DEF IInv, StatesOK
  <2> QED BY <2>1, <2>5 DEF IInv
<1>4. CASE Stop
  BY <1>4 DEF Stop, Notify, IInv, WorldOK, StatesOK, ThreadOK, Counted, PollFits, Busy, client
<1>5. CASE Change
  <2>1. tree' \in Tree
    BY <1>5 DEF Change, IInv, WorldOK, Tree, Kinds
  <2>2. visible' \in BOOLEAN /\ changes' \in 0..MaxChange
    BY <1>5 DEF Change, IInv, WorldOK
  <2>3. UNCHANGED <<graph, watched, states, pc, poll, stopped, woken, fails, client>>
    BY <1>5 DEF Change
  <2> QED BY <2>1, <2>2, <2>3 DEF IInv, WorldOK, StatesOK, ThreadOK, Counted, PollFits, Busy, client
<1>6. CASE UNCHANGED vars
  BY <1>6 DEF vars, IInv, WorldOK, StatesOK, ThreadOK, Counted, PollFits, Busy, client
<1> QED
  BY <1>1, <1>2, <1>3, <1>4, <1>5, <1>6 DEF Next

LEMMA InvHolds == Spec => []IInv
BY InitInv, NextInv, PTL DEF Spec

\* The type of the state, whatever the threads of clients do: clients never make more
\* states than there are identifiers, the state that is watched and the one that a
\* poll holds are among those that were made, and a state that is polled for changes
\* has a baseline to compare with.
THEOREM TypeCorrect == Spec => []TypeOK
BY InvHolds, InvType, PTL

-----------------------------------------------------------------------------
\* A change that git shows.

Indexed == graph = tree.file
\* The watched state has what git shows for seen.
Seen == states[watched].baseline = Snapshot(tree)

\* Where the thread works for one state until it gives it up.
Working == {"root", "head", "status", "index", "commit", "record", "failed", "prune",
            "forget"}

\* A client that indexes a project makes a new state for it, which the poll that is
\* under way knows nothing of.
Replaced ==
    watched # 0 /\ pc \in Working /\ poll.id # watched => states[watched].git = "unknown"

StillShown ==
    /\ tree.kind = "work" /\ states[watched].git = "yes"
    /\ Seen => Indexed \/ pc = "forget"
    /\ pc = "commit" /\ (Seen \/ poll.pending = Snapshot(tree)) => poll.file = tree.file
    /\ pc = "record" /\ poll.pending = Snapshot(tree) => Indexed
Shown == visible /\ watched # 0 => StillShown

LEMMA PollerKeepsReplaced ==
    ASSUME IInv, Replaced, Poller
    PROVE  Replaced'
<1> SUFFICES ASSUME watched' # 0, pc' \in Working, poll'.id # watched'
             PROVE  states'[watched'].git = "unknown"
  BY DEF Replaced
<1>0. poll \in Poll /\ watched \in Ids \cup {0} /\ states \in [Ids -> State]
  BY InvType DEF TypeOK, Ids
<1>1. ~Top /\ ~Wait /\ ~Wake /\ ~Forget
  BY <1>0 DEF Top, Wait, Wake, Forget, Goto, Working, Poll
<1>2. watched' = watched /\ poll'.id = poll.id /\ pc \in Working
  BY <1>0, <1>1 DEF Poller, CheckRoot, ReadHead, ReadStatus, IndexRead, IndexCommit, Record,
     RecordFailure, Prune, Working, Poll
<1>3. UNCHANGED states \/ \E s : SetState(s)
  BY <1>1 DEF Poller, CheckRoot, ReadHead, ReadStatus, IndexRead, IndexCommit, Record,
     RecordFailure, Prune
<1>4. states'[watched] = states[watched]
  BY <1>0, <1>2, <1>3 DEF SetState
<1> QED BY <1>2, <1>4 DEF Replaced

LEMMA NextKeepsReplaced == IInv /\ Replaced /\ [Next]_vars => Replaced'
<1> SUFFICES ASSUME IInv, Replaced, [Next]_vars PROVE Replaced'
  OBVIOUS
<1>0. watched \in Ids \cup {0} /\ states \in [Ids -> State]
  BY InvType DEF TypeOK, Ids
<1>1. CASE Poller
  BY <1>1, PollerKeepsReplaced
<1>2. ASSUME NEW u \in User, Client(u)
      PROVE  Replaced'
  <2>1. CASE Watch(u)
    <3>1. watched' \in Ids
      <4>1. made' \in Nat \ {0} /\ IsFiniteSet(Busy') /\ made' + Cardinality(Busy') <= calls' + 1
            /\ calls' \in 0..MaxCall /\ watched' = made'
        BY <2>1, ClientCounts DEF Client, Counted, Watch
      <4>2. Cardinality(Busy') \in Nat
        BY <4>1, FS_CardinalityType
      <4> QED BY <4>1, <4>2 DEF Ids
    <3>2. states'[watched'] = NewState
      BY <1>0, <2>1, <3>1 DEF Watch
    <3> QED BY <3>2 DEF Replaced, NewState
  <2>2. CASE Unwatch(u)
    BY <2>2 DEF Unwatch, Replaced
  <2>3. CASE StartIndex(u) \/ UserCommit(u) \/ DeleteProject(u)
    BY <2>3 DEF StartIndex, UserCommit, DeleteProject, Replaced
  <2> QED BY <1>2, <2>1, <2>2, <2>3 DEF Client
<1>3. ASSUME NEW i \in Ids, Tick(i)
      PROVE  Replaced'
  <2>1. UNCHANGED <<watched, pc, poll>>
    BY <1>3 DEF Tick
  <2>2. \A k \in Ids : states'[k].git = states[k].git
    BY <1>0, <1>3 DEF Tick, State
  <2> QED BY <1>0, <2>1, <2>2 DEF Replaced
<1>4. CASE Stop \/ Change \/ UNCHANGED vars
  BY <1>4 DEF Stop, Change, vars, Replaced
<1> QED
  BY <1>1, <1>2, <1>3, <1>4 DEF Next

LEMMA PollerKeepsShown ==
    ASSUME IInv, Replaced, Shown, Poller
    PROVE  Shown'
<1> SUFFICES ASSUME visible', watched' # 0
             PROVE  StillShown'
  BY DEF Shown
<1> USE DEF Goto
<1>1. /\ UNCHANGED <<tree, visible>> /\ watched' = watched /\ watched # 0 /\ StillShown
      /\ tree.kind = "work" /\ states[watched].git = "yes"
  <2>1. UNCHANGED <<tree, visible>> /\ watched' = watched
    BY DEF Poller, Top, CheckRoot, ReadHead, ReadStatus, IndexRead, IndexCommit, Record,
       RecordFailure, Prune, Forget, Wait, Wake
  <2> QED BY <2>1 DEF Shown, StillShown
<1>2. poll \in Poll /\ watched \in Ids /\ states \in [Ids -> State]
  BY <1>1, InvType DEF TypeOK, Ids
<1>3. ASSUME pc \in Working
      PROVE  poll.id = watched /\ state = states[watched] /\ state \in State
  BY <1>1, <1>2, <1>3 DEF Replaced, state
<1>4. ASSUME NEW s, SetState(s), pc \in Working
      PROVE  states'[watched] = s
  BY <1>2, <1>3, <1>4 DEF SetState
<1>5. ASSUME UNCHANGED graph, pc' \notin {"commit", "record"}, pc # "forget",
             states'[watched].git = states[watched].git,
             states'[watched].baseline = states[watched].baseline
      PROVE  StillShown'
  BY <1>1, <1>5 DEF StillShown, Seen, Indexed, Snapshot
<1>6. CASE Top \/ Wait \/ Wake
  BY <1>5, <1>6 DEF Top, Wait, Wake
<1>7. CASE CheckRoot
  <2>1. pc \in Working /\ UNCHANGED graph /\ pc' \notin {"commit", "record"} /\ pc # "forget"
    BY <1>7 DEF CheckRoot, Working
  <2>2. PICK s : SetState(s) /\ s.git = state.git /\ s.baseline = state.baseline
    <3>1. \/ \E m : SetState([state EXCEPT !.missing = m])
          \/ SetState([state EXCEPT !.missing = 0, !.grace = FALSE])
      BY <1>7 DEF CheckRoot
    <3>2. \A m : /\ [state EXCEPT !.missing = m].git = state.git
                 /\ [state EXCEPT !.missing = m].baseline = state.baseline
      BY <1>3, <2>1 DEF State
    <3>3. /\ [state EXCEPT !.missing = 0, !.grace = FALSE].git = state.git
          /\ [state EXCEPT !.missing = 0, !.grace = FALSE].baseline = state.baseline
      BY <1>3, <2>1 DEF State
    <3> QED BY <3>1, <3>2, <3>3
  <2> QED BY <1>3, <1>4, <1>5, <2>1, <2>2
<1>8. ASSUME SetState([state EXCEPT !.due = FALSE]), pc \in Working \ {"forget"},
             pc' \notin {"commit", "record"}, UNCHANGED graph
      PROVE  StillShown'
  <2>1. /\ [state EXCEPT !.due = FALSE].git = state.git
        /\ [state EXCEPT !.due = FALSE].baseline = state.baseline
    BY <1>3, <1>8 DEF State
  <2> QED BY <1>3, <1>4, <1>5, <1>8, <2>1
<1>9. CASE ReadHead
  <2>1. UNCHANGED states \/ SetState([state EXCEPT !.due = FALSE])
    BY <1>1, <1>9 DEF ReadHead
  <2>2. pc \in Working \ {"forget"} /\ pc' \notin {"commit", "record"} /\ UNCHANGED graph
    BY <1>9 DEF ReadHead, Working
  <2> QED BY <1>5, <1>8, <2>1, <2>2
<1>10. CASE ReadStatus
  <2>1. pc \in Working \ {"forget"} /\ pc' \notin {"commit", "record"} /\ UNCHANGED graph
    BY <1>10 DEF ReadStatus, Working
  <2>2. UNCHANGED states \/ SetState([state EXCEPT !.due = FALSE])
    BY <1>1, <1>3, <1>10, <2>1 DEF ReadStatus
  <2> QED BY <1>5, <1>8, <2>1, <2>2
<1>11. CASE RecordFailure
  BY <1>8, <1>11 DEF RecordFailure, Working
<1>12. CASE IndexRead
  <2>1. CASE pc' = "failed"
    BY <1>5, <1>12, <2>1 DEF IndexRead
  <2>2. CASE poll' = [poll EXCEPT !.file = tree.file] /\ pc' = "commit"
    <3>1. poll'.file = tree.file
      BY <1>2, <2>2 DEF Poll
    <3>2. UNCHANGED <<graph, states>> /\ pc = "index"
      BY <1>12 DEF IndexRead
    <3> QED BY <1>1, <2>2, <3>1, <3>2 DEF StillShown, Seen, Indexed, Snapshot
  <2> QED BY <1>12, <2>1, <2>2 DEF IndexRead
<1>13. CASE IndexCommit
  <2>1. CASE pc' = "failed" /\ UNCHANGED graph
    BY <1>5, <1>13, <2>1 DEF IndexCommit
  <2>2. CASE pc' = "record" /\ graph' = poll.file
    <3>1. UNCHANGED <<states, poll>> /\ pc = "commit"
      BY <1>13 DEF IndexCommit
    <3> QED BY <1>1, <2>2, <3>1 DEF StillShown, Seen, Indexed, Snapshot
  <2> QED BY <1>13, <2>1, <2>2 DEF IndexCommit
<1>14. CASE Record
  <2>1. UNCHANGED graph /\ pc = "record" /\ pc' = "end"
    BY <1>14 DEF Record
  <2>2. states'[watched] = [state EXCEPT !.baseline = poll.pending, !.due = FALSE]
    BY <1>4, <1>14, <2>1 DEF Record, Working
  <2>3. states'[watched].git = "yes" /\ states'[watched].baseline = poll.pending
    BY <1>1, <1>3, <2>1, <2>2 DEF State, Working
  <2> QED BY <1>1, <2>1, <2>3 DEF StillShown, Seen, Indexed, Snapshot
<1>15. CASE Prune
  <2>1. CASE pc' = "end" /\ UNCHANGED graph
    BY <1>5, <1>15, <2>1 DEF Prune
  <2>2. CASE pc' = "forget"
    BY <1>1, <1>15, <2>2 DEF Prune, StillShown
  <2> QED BY <1>15, <2>1, <2>2 DEF Prune
<1>16. CASE Forget
  BY <1>1, <1>16 DEF Forget
<1> QED
  BY <1>6, <1>7, <1>9, <1>10, <1>11, <1>12, <1>13, <1>14, <1>15, <1>16 DEF Poller

LEMMA NextKeepsShown == IInv /\ Replaced /\ Shown /\ [Next]_vars => Shown'
<1> SUFFICES ASSUME IInv, Replaced, Shown, [Next]_vars PROVE Shown'
  OBVIOUS
<1> USE DEF Shown, StillShown, Seen, Indexed, Snapshot
<1>0. watched \in Ids \cup {0} /\ states \in [Ids -> State]
  BY InvType DEF TypeOK, Ids
<1>1. CASE Poller
  BY <1>1, PollerKeepsShown
<1>2. ASSUME NEW u \in User, Client(u)
      PROVE  Shown'
  <2>1. CASE StartIndex(u)
    BY <2>1 DEF StartIndex
  <2>2. CASE UserCommit(u)
    BY <2>2 DEF UserCommit
  <2>3. CASE Watch(u) \/ DeleteProject(u) \/ Unwatch(u)
    BY <2>3 DEF Watch, DeleteProject, Unwatch
  <2> QED BY <1>2, <2>1, <2>2, <2>3 DEF Client
<1>3. ASSUME NEW i \in Ids, Tick(i)
      PROVE  Shown'
  <2>1. UNCHANGED <<tree, graph, watched, pc, poll, visible>>
    BY <1>3 DEF Tick
  <2>2. \A k \in Ids : states'[k].git = states[k].git /\ states'[k].baseline = states[k].baseline
    BY <1>0, <1>3 DEF Tick, State
  <2>3. watched # 0 => /\ states'[watched].git = states[watched].git
                       /\ states'[watched].baseline = states[watched].baseline
    BY <1>0, <2>2
  <2> QED BY <2>1, <2>3
<1>4. CASE Stop \/ UNCHANGED vars
  BY <1>4 DEF Stop, vars
<1>5. CASE Change
  BY <1>5 DEF Change, Shows
<1> QED
  BY <1>1, <1>2, <1>3, <1>4, <1>5 DEF Next

\* A change that git shows is never taken for seen before it is indexed: as long as
\* the graph is not of the file that is there, the watched state differs from what
\* git shows, and the next poll finds the change, unless this one is about to drop
\* the project.  Snapshots that a commit tears, changes in the middle of an index,
\* failures, and a client that replaces the state under a poll do not hide it.
ShownUntilIndexed ==
    visible /\ watched # 0 =>
       \/ Indexed \/ pc = "forget"
       \/ states[watched].git = "yes" /\ ~Seen

THEOREM ShownChangesAreFound == Spec => []ShownUntilIndexed
<1>1. Init => Replaced /\ Shown
  BY DEF Init, Replaced, Shown, Working
<1>2. Shown => ShownUntilIndexed
  BY DEF Shown, StillShown, ShownUntilIndexed
<1> QED
  BY <1>1, <1>2, InvHolds, NextKeepsReplaced, NextKeepsShown, PTL DEF Spec
=============================================================================
