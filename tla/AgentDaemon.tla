------------------------------- MODULE AgentDaemon -------------------------------
(***************************************************************************)
(* The agent's on-demand daemon: command runs that share one endpoint and  *)
(* one start lock in GCAL_HOME, the daemons they start, and the backend    *)
(* sessions these keep for a project.                                      *)
(*                                                                         *)
(* A daemon runs one callback at a time; a step here is a callback, or one *)
(* call on the file system that another process can see.  A session's      *)
(* client is StdioSession, of which only matters here whether its          *)
(* goldeneye process runs.                                                 *)
(***************************************************************************)
EXTENDS Naturals, Sequences, FiniteSets

CONSTANTS MaxClient,  \* how many commands run
          MaxCrash,   \* how many daemons are killed
          MaxSignal,  \* how many daemons get SIGINT or SIGTERM
          Aging,      \* whether a start lock can be ten seconds old
          Nobody

ASSUME DaemonAssumption ==
    /\ MaxClient \in Nat /\ MaxCrash \in Nat /\ MaxSignal \in Nat
    /\ Aging \in BOOLEAN /\ Nobody \notin Nat

Client == 1 .. MaxClient     \* in the order in which they begin
Daemon == 1 .. MaxClient     \* a command starts at most one daemon,
Session == 1 .. MaxClient    \* and its request creates at most one session,
                             \* which has the command's number

VARIABLES
    client,     \* where each command is
    at,         \* the daemon it is connected to
    ran,        \* how often its operation was run, anywhere
    sock,       \* the daemon whose socket the endpoint's path names
    lock,       \* daemon-start.lock: "absent", "fresh" or "stale"
    daemon,     \* where each daemon is
    session,    \* the sessions of all daemons
    crashes, signals

files == <<sock, lock>>
count == <<crashes, signals>>
vars == <<client, at, ran, files, daemon, session, count>>

Connected == {"sent", "accepted", "queued", "running"}
Ended == {"answered", "error", "cut"}

NoSession == [at |-> Nobody, state |-> "none", queue |-> <<>>, busy |-> FALSE,
              wait |-> 0, kid |-> FALSE]

Accepting == {"unlocking", "serving", "draining"}
Running == Accepting \cup {"closing", "rmsock", "rmlock"}

Moves(c, to) == client' = [client EXCEPT ![c] = to]

Enters(d, to) == daemon' = [daemon EXCEPT ![d] = to]

-----------------------------------------------------------------------------
\* A command: connect, or start a daemon and connect again for two seconds.

Reachable == sock # Nobody /\ daemon[sock] \in Accepting

Connects(c) ==
    /\ Reachable
    /\ Moves(c, "sent")
    /\ at' = [at EXCEPT ![c] = sock]
    /\ UNCHANGED <<ran, files, daemon, session, count>>

Client_(c) == UNCHANGED <<at, ran, sock, session, count>>

ConnectFirst(c) ==
    /\ client[c] = "idle" /\ \A b \in 1 .. c - 1 : client[b] # "idle"
    /\ \/ Connects(c)
       \/ ~Reachable /\ Moves(c, "lock") /\ UNCHANGED <<lock, daemon>> /\ Client_(c)

\* startDetachedDaemon: the lock is taken by creating it.
TakeLock(c) ==
    /\ lock = "absent" /\ lock' = "fresh"
    /\ Moves(c, "retry")
    /\ \E d \in Daemon :
          /\ daemon[d] = "none" /\ \A e \in 1 .. d - 1 : daemon[e] # "none"
          /\ Enters(d, "probing")
    /\ Client_(c)

OpenLock(c) ==
    /\ client[c] = "lock"
    /\ \/ TakeLock(c)
       \/ /\ lock # "absent" /\ Moves(c, "stat")
          /\ UNCHANGED <<lock, daemon>> /\ Client_(c)

\* A lock that is gone by now is an error, and one that is not old is respected.
StatLock(c) ==
    /\ client[c] = "stat"
    /\ Moves(c, CASE lock = "absent" -> "direct"
                  [] lock = "fresh" -> "retry"
                  [] lock = "stale" -> "unlink")
    /\ UNCHANGED <<lock, daemon>> /\ Client_(c)

UnlinkLock(c) ==
    /\ client[c] = "unlink" /\ Moves(c, "relock")
    /\ lock' = "absent"
    /\ UNCHANGED daemon /\ Client_(c)

Relock(c) ==
    /\ client[c] = "relock"
    /\ \/ TakeLock(c)
       \/ /\ lock # "absent" /\ Moves(c, "retry")
          /\ UNCHANGED <<lock, daemon>> /\ Client_(c)

Retry(c) == client[c] = "retry" /\ Connects(c)

\* Mutant: there is no deadline.
NeverGiveUp(c) == FALSE /\ UNCHANGED vars

GiveUp(c) ==
    /\ client[c] = "retry" /\ Moves(c, "direct")
    /\ UNCHANGED <<lock, daemon>> /\ Client_(c)

\* Without a daemon the command runs its own goldeneye process.
RunDirect(c) ==
    /\ client[c] = "direct"
    /\ ran' = [ran EXCEPT ![c] = @ + 1]
    /\ \E result \in {"answered", "error"} : Moves(c, result)
    /\ UNCHANGED <<at, files, daemon, session, count>>

-----------------------------------------------------------------------------
\* A daemon starts: is another one listening, remove what it left, listen,
\* remove the lock.

Daemon_ == UNCHANGED <<client, at, ran, session, count>>

Probe(d) ==
    /\ daemon[d] = "probing"
    /\ Enters(d, IF Reachable THEN "gone" ELSE "removing")
    /\ UNCHANGED files /\ Daemon_

Remove(d) ==
    /\ daemon[d] = "removing" /\ Enters(d, "binding")
    /\ sock' = Nobody
    /\ UNCHANGED lock /\ Daemon_

Bind(d) ==
    /\ daemon[d] = "binding"
    /\ IF sock = Nobody THEN sock' = d /\ Enters(d, "unlocking")
                        ELSE Enters(d, "gone") /\ UNCHANGED sock
    /\ UNCHANGED lock /\ Daemon_

Unlock(d) ==
    /\ daemon[d] = "unlocking" /\ Enters(d, "serving")
    /\ lock' = "absent"
    /\ UNCHANGED sock /\ Daemon_

-----------------------------------------------------------------------------
\* Requests.

Accept(c) ==
    /\ client[c] = "sent" /\ daemon[at[c]] \in Accepting
    /\ Moves(c, "accepted")
    /\ UNCHANGED <<at, ran, files, daemon, session, count>>

\* The sessions map.
Map(d) == {s \in Session : /\ session[s].at = d
                           /\ session[s].state \in
                                {"open", "draining", "ending", "ended"}}

\* enqueue: into the session of the project, made if there is none.
Enqueue(c) ==
    LET d == at[c]
    IN /\ client[c] = "accepted" /\ daemon[d] \in Running
       /\ Moves(c, "queued")
       /\ session' = IF Map(d) # {}
                     THEN [s \in Session |-> IF s \in Map(d)
                             THEN [session[s] EXCEPT !.queue = Append(@, c)]
                             ELSE session[s]]
                     ELSE [session EXCEPT ![c] =
                             [NoSession EXCEPT !.at = d, !.state = "open",
                                               !.queue = <<c>>]]
       /\ UNCHANGED <<at, ran, files, daemon, count>>

\* The head of the queue runs when what came before has ended.
Runs(s) ==
    /\ session[s].queue # <<>> /\ ~session[s].busy
    /\ daemon[session[s].at] \in Running

RunNext(s) ==
    LET c == Head(session[s].queue)
    IN /\ Runs(s) /\ session[s].state # "ending"
       /\ Moves(c, "running")
       /\ ran' = [ran EXCEPT ![c] = @ + 1]
       /\ session' = [session EXCEPT ![s].busy = TRUE, ![s].kid = TRUE]
       /\ UNCHANGED <<at, files, daemon, count>>

\* The client of the session is closed as soon as what shutdown waits for has
\* ended, before the next request runs.
Closing(e) == IF e.kid THEN "ending" ELSE "ended"

\* Mutant: an ended request stays active.
FinishStays(s) ==
    /\ session[s].busy /\ daemon[session[s].at] \in Running
    /\ Moves(Head(session[s].queue), "answered")
    /\ session' = [session EXCEPT ![s].busy = FALSE]
    /\ UNCHANGED <<at, ran, files, daemon, count>>

Finish(s) ==
    /\ session[s].busy /\ daemon[session[s].at] \in Running
    /\ \E result \in {"answered", "error"} :
          Moves(Head(session[s].queue), result)
    /\ LET e == [session[s] EXCEPT !.busy = FALSE, !.queue = Tail(@)]
       IN session' = [session EXCEPT ![s] =
            IF e.state # "draining" THEN e
            ELSE IF e.wait > 1 THEN [e EXCEPT !.wait = @ - 1]
            ELSE [e EXCEPT !.wait = 0, !.state = Closing(e)]]
    /\ UNCHANGED <<at, ran, files, daemon, count>>

\* The goldeneye process of a closed client leaves.
KidLeaves(s) ==
    /\ session[s].kid /\ session[s].state \in {"ending", "closed"}
    /\ session' = [session EXCEPT ![s].kid = FALSE,
                     ![s].state = IF @ = "ending" THEN "ended" ELSE @]
    /\ UNCHANGED <<client, at, ran, files, daemon, count>>

-----------------------------------------------------------------------------
\* A daemon ends.

\* Mutant: the clean-up forgets to close the client.
DropUnclosed(s) ==
    /\ session[s].state = "open" /\ daemon[session[s].at] = "serving"
    /\ session[s].queue = <<>>
    /\ session' = [session EXCEPT ![s].state = "forgotten"]
    /\ UNCHANGED <<client, at, ran, files, daemon, count>>

\* cleanupIdleSessions: a session without requests leaves the map and is closed.
DropSession(s) ==
    /\ session[s].state = "open" /\ daemon[session[s].at] = "serving"
    /\ session[s].queue = <<>>
    /\ session' = [session EXCEPT ![s].state = "closed"]
    /\ UNCHANGED <<client, at, ran, files, daemon, count>>

\* server.close takes the path away, whosever socket it names by now, and resets
\* the connections nobody accepted.
CloseServer(d) ==
    /\ Enters(d, "closing")
    /\ sock' = Nobody
    /\ client' = [c \in Client |-> IF client[c] = "sent" /\ at[c] = d
                                   THEN "cut" ELSE client[c]]
    /\ UNCHANGED <<at, ran, lock>>

\* shutdown: the sessions are closed, each after what is in its queue by now.
Shutdown(d) ==
    \/ Map(d) = {} /\ CloseServer(d) /\ UNCHANGED session
    \/ /\ Map(d) # {} /\ Enters(d, "draining")
       /\ session' = [s \in Session |->
            IF s \notin Map(d) THEN session[s]
            ELSE IF session[s].queue = <<>>
            THEN [session[s] EXCEPT !.state = Closing(session[s])]
            ELSE [session[s] EXCEPT !.state = "draining",
                                    !.wait = Len(session[s].queue)]]
       /\ UNCHANGED <<client, at, ran, files>>

\* Without a session and after the idle time, or on a signal.
ShutdownIdle(d) ==
    daemon[d] = "serving" /\ Map(d) = {} /\ Shutdown(d) /\ UNCHANGED count

Signal(d) ==
    /\ daemon[d] = "serving" /\ signals < MaxSignal
    /\ signals' = signals + 1
    /\ Shutdown(d)
    /\ UNCHANGED crashes

EndDrain(d) ==
    /\ daemon[d] = "draining"
    /\ \A s \in Map(d) : session[s].state = "ended"
    /\ CloseServer(d)
    /\ session' = [s \in Session |-> IF s \in Map(d)
                     THEN [session[s] EXCEPT !.state = "cleared"] ELSE session[s]]
    /\ UNCHANGED count

\* server.close ends with the last connection.
EndClose(d) ==
    /\ daemon[d] = "closing"
    /\ \A c \in Client : client[c] \in Connected => at[c] # d
    /\ Enters(d, "rmsock")
    /\ UNCHANGED files /\ Daemon_

RemoveSock(d) ==
    /\ daemon[d] = "rmsock" /\ Enters(d, "rmlock")
    /\ sock' = Nobody
    /\ UNCHANGED lock /\ Daemon_

RemoveLock(d) ==
    /\ daemon[d] = "rmlock" /\ Enters(d, "done")
    /\ lock' = "absent"
    /\ UNCHANGED sock /\ Daemon_

\* Node ends when nothing is left to wait for: a child process is something.
Leave(d) ==
    /\ daemon[d] = "done"
    /\ \A s \in Session : session[s].at = d => ~session[s].kid
    /\ Enters(d, "gone")
    /\ UNCHANGED files /\ Daemon_

\* Mutant: a lost connection makes the command run the operation itself.
DiesAndFallsBack(d) ==
    /\ Enters(d, "gone")
    /\ client' = [c \in Client |-> IF client[c] \in Connected /\ at[c] = d
                                   THEN "direct" ELSE client[c]]
    /\ session' = [s \in Session |-> IF session[s].at = d THEN NoSession
                                                         ELSE session[s]]
    /\ UNCHANGED <<at, ran, files, signals>>

\* The process of a daemon is gone, its clients' connections with it; its
\* goldeneye processes see the end of their input.
Dies(d) ==
    /\ Enters(d, "gone")
    /\ client' = [c \in Client |-> IF client[c] \in Connected /\ at[c] = d
                                   THEN "cut" ELSE client[c]]
    /\ session' = [s \in Session |->
         IF session[s].at # d THEN session[s]
         ELSE [session[s] EXCEPT !.state = "closed", !.queue = <<>>,
                                 !.busy = FALSE, !.wait = 0]]
    /\ UNCHANGED <<at, ran, files, signals>>

\* A request is written to a process whose input is ended (see StdioSession).
RunBreaks(s) ==
    /\ Runs(s) /\ session[s].state = "ending"
    /\ Dies(session[s].at) /\ UNCHANGED crashes

Crash(d) ==
    /\ daemon[d] \notin {"none", "gone"} /\ crashes < MaxCrash
    /\ crashes' = crashes + 1
    /\ Dies(d)

\* Ten seconds after it was taken; the wait is not tied to anybody's progress.
LockAges ==
    /\ Aging /\ lock = "fresh" /\ lock' = "stale"
    /\ UNCHANGED <<client, at, ran, sock, daemon, session, count>>

-----------------------------------------------------------------------------
Init ==
    /\ client = [c \in Client |-> "idle"] /\ at = [c \in Client |-> Nobody]
    /\ ran = [c \in Client |-> 0]
    /\ sock = Nobody /\ lock \in {"absent", "stale"}   \* left by a killed daemon
    /\ daemon = [d \in Daemon |-> "none"]
    /\ session = [s \in Session |-> NoSession]
    /\ crashes = 0 /\ signals = 0

Command(c) ==
    \/ OpenLock(c) \/ StatLock(c) \/ UnlinkLock(c) \/ Relock(c)
    \/ Retry(c) \/ GiveUp(c) \/ RunDirect(c) \/ Accept(c) \/ Enqueue(c)

Serve(s) == RunNext(s) \/ RunBreaks(s) \/ Finish(s) \/ KidLeaves(s)

Progress(d) ==
    \/ Probe(d) \/ Remove(d) \/ Bind(d) \/ Unlock(d)
    \/ EndDrain(d) \/ EndClose(d) \/ RemoveSock(d) \/ RemoveLock(d) \/ Leave(d)

Next ==
    \/ \E c \in Client : ConnectFirst(c) \/ Command(c)
    \/ \E s \in Session : Serve(s) \/ DropSession(s)
    \/ \E d \in Daemon : Progress(d) \/ ShutdownIdle(d) \/ Signal(d) \/ Crash(d)
    \/ LockAges

Spec == Init /\ [][Next]_vars

\* Commands, event loops and goldeneye processes go on.
FairSpec ==
    /\ Spec
    /\ \A c \in Client : WF_vars(Command(c))
    /\ \A s \in Session : WF_vars(Serve(s))
    /\ \A d \in Daemon : WF_vars(Progress(d))

-----------------------------------------------------------------------------
\* Properties.

TypeOK ==
    /\ client \in [Client -> {"idle", "lock", "stat", "unlink", "relock",
                              "retry", "direct"} \cup Connected \cup Ended]
    /\ at \in [Client -> Daemon \cup {Nobody}] /\ sock \in Daemon \cup {Nobody}
    /\ ran \in [Client -> Nat] /\ lock \in {"absent", "fresh", "stale"}
    /\ daemon \in [Daemon -> {"none", "probing", "removing", "binding", "done",
                              "gone"} \cup Running]
    /\ crashes \in 0 .. MaxCrash /\ signals \in 0 .. MaxSignal
    /\ \A s \in Session :
         /\ session[s].at \in Daemon \cup {Nobody}
         /\ session[s].wait \in 0 .. Len(session[s].queue)
         /\ \A i \in DOMAIN session[s].queue :
              client[session[s].queue[i]] = IF i = 1 /\ session[s].busy
                                            THEN "running" ELSE "queued"

\* An operation, which may be an index, is run at most once, by a daemon or by the
\* command itself, through every loss of a daemon; one that is answered was run.
RanAtMostOnce ==
    \A c \in Client :
        ran[c] <= 1 /\ (client[c] \in {"answered", "error"} => ran[c] = 1)

\* Every command comes to its end: the daemon, its absence or its loss ends it.
CommandsEnd ==
    \A c \in Client : client[c] \notin {"idle"} \cup Ended ~> client[c] \in Ended

\* A daemon that has closed its server ends, unless a command that connected
\* before made it start one more goldeneye process.
DaemonLeaves ==
    \A d \in Daemon :
       daemon[d] = "closing" ~>
          \/ daemon[d] = "gone"
          \/ \E s \in Session : /\ session[s].at = d /\ session[s].kid
                                /\ session[s].state \in {"open", "cleared"}
==============================================================================
