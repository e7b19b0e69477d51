------------------------------- MODULE Watcher -------------------------------
(***************************************************************************)
(* The background watcher of one project (goldeneye-watcher), the indexer  *)
(* it drives (goldeneye-bootstrap) and the calls of MCP and HTTP clients   *)
(* that index, watch and delete the project beside it.                     *)
(*                                                                         *)
(* The source tree is one file: `file' is its content, `head' its content  *)
(* in the last git commit.  An index is a read of the tree and a commit;   *)
(* ProjectGraph has its parts.                                             *)
(***************************************************************************)
EXTENDS Naturals

CONSTANTS
    User,           \* threads of clients
    Content,        \* contents of the file
    NoProject,      \* the project is not stored
    NoBaseline,     \* no snapshot yet
    MissingPolls,   \* WatcherConfig::missing_polls
    MaxCall,        \* bound on client calls
    MaxChange,      \* bound on changes of the source tree
    MaxFail         \* bound on failures of the watcher's calls

ASSUME WatcherAssumption ==
    /\ NoProject \notin Content
    /\ NoBaseline \notin Content \X BOOLEAN
    /\ MissingPolls \in Nat \ {0}
    /\ MaxCall \in Nat /\ MaxChange \in Nat /\ MaxFail \in Nat

VARIABLES
    tree,           \* the root: kind, file, head
    graph,          \* the content that is indexed, or NoProject
    watched,        \* the map of projects: the state under the name, or zero
    states,         \* every ProjectState made; the poll may hold an old one
    pc, poll,       \* where the thread is, and its local variables
    stopped, woken, \* WakeState
    user, read,     \* where each client is, and what its index read
    visible,        \* model only: git shows the last change to the next poll
    calls, changes, fails, made    \* counters; made counts states

client == <<user, read, calls, made>>
vars == <<tree, graph, watched, states, pc, poll, stopped, woken, visible,
          changes, fails, client>>

Kinds == {"gone", "plain", "bare", "work"}
Tree == [kind : Kinds, file : Content, head : Content]

\* What git rev-parse and git status say: a modified file that is modified again
\* is the same line of git status.
Snapshot(t) == <<t.head, t.file # t.head>>
Snapshots == Content \X BOOLEAN

State == [baseline : Snapshots \cup {NoBaseline},
          git : {"unknown", "yes", "no"},
          due : BOOLEAN,                   \* next_poll has come
          missing : 0..MissingPolls,       \* missing_count, as far as it matters
          grace : BOOLEAN]                 \* prune_grace has passed since first_missing

NewState == [baseline |-> NoBaseline, git |-> "unknown", due |-> TRUE,
             missing |-> 0, grace |-> FALSE]

Ids == 1..(MaxCall + 1)
PCs == {"top", "root", "head", "status", "index", "commit", "record", "failed",
        "prune", "forget", "end", "wait", "stopped"}
Poll == [id : Ids, head : Content \cup {NoProject},
         pending : Snapshots \cup {NoBaseline}, file : Content \cup {NoProject}]
NoPoll == [id |-> 1, head |-> NoProject, pending |-> NoBaseline, file |-> NoProject]

state == states[poll.id]
SetState(s) == states' = [states EXCEPT ![poll.id] = s]
Goto(label) == pc' = label
Fail == fails < MaxFail /\ fails' = fails + 1

\* A runtime seeds the watcher with the stored projects.
Init ==
    /\ tree \in [kind : {"work", "bare", "plain"}, file : Content, head : Content]
    /\ graph \in Content \cup {NoProject}
    /\ watched = IF graph = NoProject THEN 0 ELSE 1
    /\ states = [i \in Ids |-> NewState]
    /\ pc = "top"
    /\ poll = NoPoll
    /\ stopped = FALSE /\ woken = FALSE
    /\ user = [u \in User |-> "idle"] /\ read = [u \in User |-> NoProject]
    /\ visible = FALSE
    /\ calls = 0 /\ changes = 0 /\ fails = 0 /\ made = 1

-----------------------------------------------------------------------------
(* The watcher's thread                                                    *)

\* run and poll_once: the states are cloned out of the map.
Top ==
    /\ pc = "top"
    /\ IF stopped THEN Goto("stopped") /\ UNCHANGED poll
       ELSE IF watched = 0 THEN Goto("end") /\ UNCHANGED poll
       ELSE Goto("root") /\ poll' = [poll EXCEPT !.id = watched]
    /\ UNCHANGED <<tree, graph, watched, states, stopped, woken, visible, changes, fails, client>>

\* check_root and handle_missing_root.  The state stays locked until the snapshot
\* is taken, which holds up no one but touch.
CheckRoot ==
    /\ pc = "root"
    /\ \/ /\ tree.kind = "gone"
          /\ LET missing == IF state.missing < MissingPolls THEN state.missing + 1
                            ELSE MissingPolls
             IN /\ SetState([state EXCEPT !.missing = missing])
                /\ Goto(IF missing = MissingPolls /\ state.grace THEN "prune" ELSE "end")
          /\ UNCHANGED fails
       \/ /\ tree.kind # "gone"
          /\ SetState([state EXCEPT !.missing = 0, !.grace = FALSE])
          /\ Goto(IF \/ state.baseline = NoBaseline /\ state.git = "unknown"
                     \/ state.git # "no" /\ state.due
                  THEN "head" ELSE "end")
          /\ UNCHANGED fails
       \/ /\ Fail
          /\ SetState([state EXCEPT !.missing = 0, !.grace = FALSE])
          /\ Goto("end")
    /\ UNCHANGED <<tree, graph, watched, poll, stopped, woken, visible, changes, client>>

\* git_snapshot, first part.  A directory without a repository is an error.
ReadHead ==
    /\ pc = "head"
    /\ \/ /\ tree.kind = "work"
          /\ poll' = [poll EXCEPT !.head = tree.head]
          /\ Goto("status") /\ UNCHANGED <<states, fails>>
       \/ /\ tree.kind = "bare"
          /\ SetState([state EXCEPT !.git = "no",
                         !.due = IF state.git = "unknown" THEN FALSE ELSE @])
          /\ Goto("end") /\ UNCHANGED <<poll, fails>>
       \/ /\ (tree.kind \in {"gone", "plain"} /\ UNCHANGED fails) \/ Fail
          /\ SetState([state EXCEPT !.due = FALSE])
          /\ Goto("end") /\ UNCHANGED poll
    /\ UNCHANGED <<tree, graph, watched, stopped, woken, visible, changes, client>>

\* git_snapshot, second part, and what initialize_snapshot and pending_snapshot
\* do with it: the first snapshot becomes the baseline, a later one that differs
\* from it asks for an index.
ReadStatus ==
    /\ pc = "status"
    /\ LET snapshot == <<poll.head, tree.file # tree.head>>
       IN \/ /\ tree.kind = "work" /\ state.git = "unknown"
             /\ SetState([state EXCEPT !.baseline = snapshot, !.git = "yes", !.due = FALSE])
             /\ Goto("end") /\ UNCHANGED <<poll, fails>>
          \/ /\ tree.kind = "work" /\ state.git = "yes" /\ state.baseline = snapshot
             /\ SetState([state EXCEPT !.due = FALSE])
             /\ Goto("end") /\ UNCHANGED <<poll, fails>>
          \/ /\ tree.kind = "work" /\ state.git = "yes" /\ state.baseline # snapshot
             /\ poll' = [poll EXCEPT !.pending = snapshot]
             /\ Goto("index") /\ UNCHANGED <<states, fails>>
          \/ /\ (tree.kind # "work" /\ UNCHANGED fails) \/ Fail
             /\ SetState([state EXCEPT !.due = FALSE])
             /\ Goto("end") /\ UNCHANGED poll
    /\ UNCHANGED <<tree, graph, watched, stopped, woken, visible, changes, client>>

\* Indexer::index.  A busy indexer and one that fails are treated alike; the
\* indexer of the program is busy only for this thread itself.
IndexRead ==
    /\ pc = "index"
    /\ \/ /\ tree.kind # "gone"
          /\ poll' = [poll EXCEPT !.file = tree.file]
          /\ Goto("commit") /\ UNCHANGED fails
       \/ /\ (tree.kind = "gone" /\ UNCHANGED fails) \/ Fail
          /\ Goto("failed") /\ UNCHANGED poll
    /\ UNCHANGED <<tree, graph, watched, states, stopped, woken, visible, changes, client>>

IndexCommit ==
    /\ pc = "commit"
    /\ \/ graph' = poll.file /\ Goto("record") /\ UNCHANGED fails
       \/ Fail /\ Goto("failed") /\ UNCHANGED graph
    /\ UNCHANGED <<tree, watched, states, poll, stopped, woken, visible, changes, client>>

\* Mutant: the snapshot is moved out of the state while the index runs, and not back.
RecordNothing ==
    /\ pc = "record"
    /\ SetState([state EXCEPT !.baseline = NoBaseline, !.due = FALSE])
    /\ Goto("end")
    /\ UNCHANGED <<tree, graph, watched, poll, stopped, woken, visible, changes, fails, client>>

\* reindex, once the index returned: the state is locked again.
Record ==
    /\ pc = "record"
    /\ SetState([state EXCEPT !.baseline = poll.pending, !.due = FALSE])
    /\ Goto("end")
    /\ UNCHANGED <<tree, graph, watched, poll, stopped, woken, visible, changes, fails, client>>

\* Mutant: the snapshot is recorded whatever the index returned.
RecordFailureAsDone ==
    /\ pc = "failed"
    /\ SetState([state EXCEPT !.baseline = poll.pending, !.due = FALSE])
    /\ Goto("end")
    /\ UNCHANGED <<tree, graph, watched, poll, stopped, woken, visible, changes, fails, client>>

\* A failed index keeps the baseline.
RecordFailure ==
    /\ pc = "failed"
    /\ SetState([state EXCEPT !.due = FALSE])
    /\ Goto("end")
    /\ UNCHANGED <<tree, graph, watched, poll, stopped, woken, visible, changes, fails, client>>

\* Indexer::prune, with no lock held.
Prune ==
    /\ pc = "prune"
    /\ \/ graph' = NoProject /\ Goto("forget") /\ UNCHANGED fails
       \/ Fail /\ Goto("end") /\ UNCHANGED graph
    /\ UNCHANGED <<tree, watched, states, poll, stopped, woken, visible, changes, client>>

\* Mutant: the project is deleted and stays in the map.
ForgetNothing ==
    /\ pc = "forget"
    /\ Goto("end")
    /\ UNCHANGED <<tree, graph, watched, states, poll, stopped, woken, visible, changes, fails,
                   client>>

\* The project is removed by name, whichever state is under it by now.
Forget ==
    /\ pc = "forget"
    /\ watched' = 0
    /\ Goto("end")
    /\ UNCHANGED <<tree, graph, states, poll, stopped, woken, visible, changes, fails, client>>

\* WakeState::wait: a notification before this step wakes no one.
Wait ==
    /\ pc = "end"
    /\ Goto("wait") /\ poll' = NoPoll
    /\ UNCHANGED <<tree, graph, watched, states, stopped, woken, visible, changes, fails, client>>

\* Mutant: the wait has no timeout.
WakeNotified ==
    /\ pc = "wait" /\ woken
    /\ Goto("top") /\ woken' = FALSE
    /\ UNCHANGED <<tree, graph, watched, states, poll, stopped, visible, changes, fails, client>>

\* The wait ends with a notification or with wake_interval.
Wake ==
    /\ pc = "wait"
    /\ Goto("top") /\ woken' = FALSE
    /\ UNCHANGED <<tree, graph, watched, states, poll, stopped, visible, changes, fails, client>>

Poller ==
    \/ Top \/ CheckRoot \/ ReadHead \/ ReadStatus \/ IndexRead \/ IndexCommit
    \/ Record \/ RecordFailure \/ Prune \/ Forget \/ Wait \/ Wake

\* Time passes: the next poll is due (which touch brings about at once), and the
\* grace of a missing root is over.
Tick(i) ==
    /\ \/ /\ ~states[i].due
          /\ states' = [states EXCEPT ![i].due = TRUE]
       \/ /\ states[i].missing > 0 /\ ~states[i].grace
          /\ states' = [states EXCEPT ![i].grace = TRUE]
    /\ UNCHANGED <<tree, graph, watched, pc, poll, stopped, woken, visible, changes, fails,
                   client>>

-----------------------------------------------------------------------------
(* Clients                                                                 *)

UserGoto(u, label) == user' = [user EXCEPT ![u] = label]
Notify == woken' = (pc = "wait")

StartIndex(u) ==
    /\ user[u] = "idle" /\ calls < MaxCall
    /\ tree.kind # "gone"
    /\ calls' = calls + 1
    /\ read' = [read EXCEPT ![u] = tree.file]
    /\ UserGoto(u, "commit")
    /\ UNCHANGED <<tree, graph, watched, states, pc, poll, stopped, woken, visible, made, changes, fails>>

UserCommit(u) ==
    /\ user[u] = "commit"
    /\ \/ graph' = read[u] /\ UserGoto(u, "watch") /\ visible' = FALSE
       \/ UserGoto(u, "idle") /\ UNCHANGED <<graph, visible>>
    /\ read' = [read EXCEPT ![u] = NoProject]
    /\ UNCHANGED <<tree, watched, states, pc, poll, stopped, woken, calls, made, changes, fails>>

\* Watcher::watch makes a new state whatever was there.
Watch(u) ==
    /\ user[u] = "watch"
    /\ made' = made + 1
    /\ watched' = made' /\ states' = [states EXCEPT ![made'] = NewState]
    /\ visible' = FALSE
    /\ UserGoto(u, "idle") /\ Notify
    /\ UNCHANGED <<tree, graph, pc, poll, stopped, read, calls, changes, fails>>

DeleteProject(u) ==
    /\ user[u] = "idle" /\ calls < MaxCall
    /\ graph # NoProject
    /\ calls' = calls + 1
    /\ graph' = NoProject /\ visible' = FALSE
    /\ UserGoto(u, "unwatch")
    /\ UNCHANGED <<tree, watched, states, pc, poll, stopped, woken, read, made, changes, fails>>

Unwatch(u) ==
    /\ user[u] = "unwatch"
    /\ watched' = 0
    /\ UserGoto(u, "idle") /\ Notify
    /\ UNCHANGED <<tree, graph, states, pc, poll, stopped, visible, read, calls, made, changes, fails>>

Client(u) == StartIndex(u) \/ UserCommit(u) \/ Watch(u) \/ DeleteProject(u) \/ Unwatch(u)

Stop ==
    /\ ~stopped
    /\ stopped' = TRUE /\ Notify
    /\ UNCHANGED <<tree, graph, watched, states, pc, poll, visible, changes, fails, client>>

-----------------------------------------------------------------------------
(* The source tree                                                         *)

\* The next poll of the state that is watched cannot take t for what the watcher
\* has seen.
Shows(t) ==
    /\ watched # 0
    /\ states[watched].git = "yes"
    /\ Snapshot(t) # states[watched].baseline
    /\ pc \in {"index", "commit", "record", "failed"} => Snapshot(t) # poll.pending

Change ==
    /\ changes < MaxChange /\ changes' = changes + 1
    /\ \/ tree.kind # "gone" /\ \E c \in Content : tree' = [tree EXCEPT !.file = c]
       \/ tree.kind = "work" /\ tree' = [tree EXCEPT !.head = tree.file]
       \/ tree.kind # "gone" /\ tree' = [tree EXCEPT !.kind = "gone"]
       \/ /\ tree.kind = "gone"
          /\ \E kind \in {"work", "bare", "plain"} : tree' = [tree EXCEPT !.kind = kind]
    /\ tree' # tree
    /\ visible' = (tree'.kind = "work" /\ Shows(tree'))
    /\ UNCHANGED <<graph, watched, states, pc, poll, stopped, woken, fails, client>>

Next ==
    \/ Poller
    \/ \E i \in Ids : Tick(i)
    \/ \E u \in User : Client(u)
    \/ Stop \/ Change

Spec == Init /\ [][Next]_vars

\* The thread runs on and its waits time out; time passes.
FairSpec == Spec /\ WF_vars(Poller) /\ \A i \in Ids : WF_vars(Tick(i))

-----------------------------------------------------------------------------
(* Properties                                                              *)

\* A state that is polled for changes has a baseline to compare with.
TypeOK ==
    /\ tree \in Tree /\ graph \in Content \cup {NoProject}
    /\ watched \in 0..(MaxCall + 1) /\ states \in [Ids -> State]
    /\ \A i \in Ids : states[i].git = "yes" => states[i].baseline # NoBaseline
    /\ pc \in PCs /\ poll \in Poll
    /\ stopped \in BOOLEAN /\ woken \in BOOLEAN /\ visible \in BOOLEAN
    /\ user \in [User -> {"idle", "commit", "watch", "unwatch"}]
    /\ read \in [User -> Content \cup {NoProject}]
    /\ calls \in 0..MaxCall /\ made \in Ids /\ changes \in 0..MaxChange /\ fails \in 0..MaxFail

\* A change that git shows is indexed in the end, although polls and indexes
\* fail, snapshots are torn by commits, and changes come in the middle of both.
VisibleChangesIndexed ==
    <>[](visible /\ watched # 0 /\ ~stopped => graph = tree.file)

\* A root that is gone for good is forgotten in the end.
GoneIsForgotten ==
    <>[](tree.kind = "gone" /\ ~stopped => watched = 0)

\* A watcher that is asked to stop stops, wherever its thread is: notifications
\* get lost, the timeout of the wait does not.
StopEnds == stopped ~> pc = "stopped"
=============================================================================
