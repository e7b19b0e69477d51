------------------------- MODULE AgentDaemon_proofs -------------------------
(***************************************************************************)
(* What AgentDaemon guarantees for any number of commands, killed daemons  *)
(* and signals.                                                            *)
(*                                                                         *)
(* An operation is run at most once because a command that waits in a      *)
(* queue waits in one place: a daemon has at most one session that takes   *)
(* requests (OneOpen), a command is in at most one queue, once (Distinct), *)
(* and only the head of a queue, taken from it at its end, is run          *)
(* (Queues).                                                               *)
(*                                                                         *)
(* A command never waits for a daemon that is gone, or beside every queue  *)
(* of one that is not, because whatever takes a daemon's connections away  *)
(* - the end of its server, its death - moves the commands on them too     *)
(* (Connections), and because a command's session is its own until its     *)
(* operation enters a queue (Fresh), which nothing takes it out of but the *)
(* answer (Enqueued).                                                      *)
(***************************************************************************)
EXTENDS AgentDaemon, TLAPS, SequenceTheorems

Seeking == {"idle", "lock", "stat", "unlink", "relock", "retry", "direct"}

\* Commands that are in no queue and have not run.
Outside == Seeking \cup {"sent", "accepted"}

Types ==
    /\ client \in [Client -> Outside \cup {"queued", "running"} \cup Ended]
    /\ at \in [Client -> Daemon \cup {Nobody}] /\ sock \in Daemon \cup {Nobody}
    /\ ran \in [Client -> Nat] /\ lock \in {"absent", "fresh", "stale"}
    /\ daemon \in [Daemon -> {"none", "probing", "removing", "binding", "done",
                              "gone"} \cup Running]
    /\ crashes \in 0 .. MaxCrash /\ signals \in 0 .. MaxSignal

SessionState == {"none", "open", "draining", "ending", "ended", "closed", "cleared"}

SessionType == [at : Daemon \cup {Nobody}, state : SessionState,
                queue : Seq(Client), busy : BOOLEAN, wait : Nat, kid : BOOLEAN]

Sessions ==
    session \in [Session -> SessionType]

\* A command was run if it is running or answered, and not before.
Counted ==
    \A c \in Client :
       /\ client[c] \in Outside \cup {"queued"} => ran[c] = 0
       /\ client[c] \in {"running", "answered", "error"} => ran[c] = 1
       /\ ran[c] <= 1

InQueue(s) ==
    /\ session[s].busy => session[s].queue # <<>>
    /\ \A i \in 1 .. Len(session[s].queue) :
         /\ at[session[s].queue[i]] = session[s].at
         /\ client[session[s].queue[i]] =
               IF i = 1 /\ session[s].busy THEN "running" ELSE "queued"

Queues == \A s \in Session : InQueue(s)

Distinct ==
    \A s, t \in Session :
       \A i \in 1 .. Len(session[s].queue), j \in 1 .. Len(session[t].queue) :
          session[s].queue[i] = session[t].queue[j] => s = t /\ i = j

OneOpen == \A d \in Daemon \cup {Nobody} : \A s, t \in Map(d) : s = t

\* What shutdown waits for is part of the queue.
Waits ==
    \A s \in Session :
       IF session[s].state = "draining"
       THEN session[s].wait \in 1 .. Len(session[s].queue)
       ELSE session[s].wait = 0

IInv == Types /\ Sessions /\ Counted /\ Queues /\ Distinct /\ OneOpen /\ Waits

LEMMA SessionFields ==
    ASSUME Sessions, NEW s \in Session
    PROVE  /\ session[s] \in SessionType
           /\ session[s].at \in Daemon \cup {Nobody}
           /\ session[s].queue \in Seq(Client)
           /\ Len(session[s].queue) \in Nat
           /\ session[s].busy \in BOOLEAN /\ session[s].kid \in BOOLEAN
           /\ session[s].wait \in Nat
<1>1. session[s] \in SessionType
  BY DEF Sessions
<1>2. session[s].queue \in Seq(Client)
  BY <1>1 DEF SessionType
<1>3. QED
  BY <1>1, <1>2, LenProperties DEF SessionType

LEMMA SessionUpdates ==
    ASSUME NEW e \in SessionType, NEW x \in SessionState, NEW k \in BOOLEAN
    PROVE  /\ [e EXCEPT !.state = x] \in SessionType
           /\ [e EXCEPT !.kid = k, !.state = x] \in SessionType
           /\ [e EXCEPT !.wait = 0, !.state = x] \in SessionType
BY DEF SessionType

LEMMA StateUpdate ==
    ASSUME NEW e \in SessionType, NEW x \in SessionState
    PROVE  LET f == [e EXCEPT !.state = x] IN
           /\ f \in SessionType /\ f.state = x /\ f.wait = e.wait /\ f.at = e.at
           /\ f.queue = e.queue /\ f.busy = e.busy
BY DEF SessionType

-----------------------------------------------------------------------------
(* Steps that leave the sessions alone.                                    *)

\* What depends on the sessions and on the commands in them.
LEMMA SessionsAlone ==
    ASSUME IInv, UNCHANGED session, Types',
           \A c \in Client : client[c] \in {"queued", "running"} =>
                                client'[c] = client[c] /\ at'[c] = at[c]
    PROVE  Sessions' /\ Queues' /\ Distinct' /\ OneOpen' /\ Waits'
<1>1. Sessions' /\ Distinct' /\ Waits'
  BY DEF IInv, Sessions, Distinct, Waits
<1>2. OneOpen'
  BY DEF IInv, OneOpen, Map
<1>3. Queues'
  <2>1. SUFFICES ASSUME NEW s \in Session PROVE InQueue(s)'
    BY DEF Queues
  <2>2. InQueue(s) /\ session[s].queue \in Seq(Client)
    BY SessionFields DEF IInv, Queues
  <2>3. ASSUME NEW i \in 1 .. Len(session[s].queue)
        PROVE  /\ session[s].queue[i] \in Client
               /\ client[session[s].queue[i]] \in {"queued", "running"}
    BY <2>2, ElementOfSeq DEF InQueue
  <2>4. QED
    BY <2>2, <2>3 DEF InQueue
<1>4. QED
  BY <1>1, <1>2, <1>3

\* A command moves outside the queues, and connects or not.
LEMMA MoveOutside ==
    ASSUME IInv, NEW c \in Client, NEW to \in Outside,
           client[c] \in Outside, Moves(c, to),
           UNCHANGED <<ran, session>>, Types',
           \A b \in Client \ {c} : at'[b] = at[b]
    PROVE  IInv'
<1>1. \A b \in Client : client'[b] = IF b = c THEN to ELSE client[b]
  BY DEF Moves, IInv, Types
<1>2. \A b \in Client : client[b] \in {"queued", "running"} =>
                           client'[b] = client[b] /\ at'[b] = at[b]
  BY <1>1 DEF Outside, Seeking
<1>3. Counted'
  BY <1>1 DEF IInv, Counted, Outside, Seeking
<1>4. QED
  BY <1>2, <1>3, SessionsAlone DEF IInv

\* Nobody moves.
LEMMA NobodyMoves ==
    ASSUME IInv, UNCHANGED <<client, at, ran, session>>, Types'
    PROVE  IInv'
<1>1. Counted'
  BY DEF IInv, Counted
<1>2. QED
  BY <1>1, SessionsAlone DEF IInv

LEMMA CommandKeeps ==
    ASSUME IInv, NEW c \in Client, ConnectFirst(c) \/ Command(c), ~Enqueue(c),
           ~RunDirect(c)
    PROVE  IInv'
<1> USE DEF IInv, Types, Moves, Enters, Outside, Seeking, files, count
<1>1. ASSUME client[c] \in {"idle", "retry"}, Connects(c) PROVE IInv'
  <2>1. Types'
    BY <1>1 DEF Connects, Reachable
  <2>2. QED
    BY <1>1, <2>1, MoveOutside DEF Connects
<1>2. ASSUME client[c] \in {"lock", "relock"}, TakeLock(c) PROVE IInv'
  <2>1. Types'
    BY <1>2 DEF TakeLock, Client_
  <2>2. QED
    BY <1>2, <2>1, MoveOutside DEF TakeLock, Client_
<1>3. ASSUME client[c] \in Seeking, Client_(c), UNCHANGED daemon,
             lock' \in {lock, "absent"},
             NEW to \in {"lock", "stat", "direct", "retry", "unlink", "relock"},
             Moves(c, to)
      PROVE  IInv'
  <2>1. Types'
    BY <1>3 DEF Client_
  <2>2. QED
    BY <1>3, <2>1, MoveOutside DEF Client_
<1>4. CASE ConnectFirst(c)
  BY <1>1, <1>3, <1>4 DEF ConnectFirst
<1>5. CASE OpenLock(c)
  BY <1>2, <1>3, <1>5 DEF OpenLock
<1>6. CASE StatLock(c)
  BY <1>3, <1>6 DEF StatLock
<1>7. CASE UnlinkLock(c)
  BY <1>3, <1>7 DEF UnlinkLock
<1>8. CASE Relock(c)
  BY <1>2, <1>3, <1>8 DEF Relock
<1>9. CASE Retry(c)
  BY <1>1, <1>9 DEF Retry
<1>10. CASE GiveUp(c)
  BY <1>3, <1>10 DEF GiveUp
<1>11. CASE Accept(c)
  <2>1. Types'
    BY <1>11 DEF Accept
  <2>2. QED
    BY <1>11, <2>1, MoveOutside DEF Accept
<1>12. QED
  BY <1>4, <1>5, <1>6, <1>7, <1>8, <1>9, <1>10, <1>11 DEF Command

LEMMA RunDirectKeeps ==
    ASSUME IInv, NEW c \in Client, RunDirect(c) PROVE IInv'
<1> USE DEF RunDirect, Moves, files, count
<1>1. Types'
  BY DEF IInv, Types, Ended
<1>2. Counted'
  BY DEF IInv, Types, Counted, Outside, Seeking
<1>3. \A b \in Client : client[b] \in {"queued", "running"} =>
                           client'[b] = client[b] /\ at'[b] = at[b]
  BY DEF IInv, Types
<1>4. QED
  BY <1>1, <1>2, <1>3, SessionsAlone DEF IInv

LEMMA ProgressKeeps ==
    ASSUME IInv, NEW d \in Daemon, Progress(d), ~EndDrain(d) PROVE IInv'
<1>1. UNCHANGED <<client, at, ran, session>> /\ Types'
  BY DEF Progress, Probe, Remove, Bind, Unlock, EndClose, RemoveSock, RemoveLock,
         Leave, Daemon_, Enters, files, count, IInv, Types, Running, Accepting
<1>2. QED
  BY <1>1, NobodyMoves

LEMMA LockAgesKeeps ==
    ASSUME IInv, LockAges PROVE IInv'
<1>1. Types'
  BY DEF LockAges, IInv, Types, count
<1>2. QED
  BY <1>1, NobodyMoves DEF LockAges

-----------------------------------------------------------------------------
(* Steps that change the state of sessions, not who is in them.            *)

LEMMA SameQueues ==
    ASSUME IInv, \A s \in Session : session'[s].queue = session[s].queue
    PROVE  Distinct'
<1>1. SUFFICES ASSUME NEW s \in Session, NEW t \in Session,
                      NEW i \in 1 .. Len(session'[s].queue),
                      NEW j \in 1 .. Len(session'[t].queue),
                      session'[s].queue[i] = session'[t].queue[j]
               PROVE  s = t /\ i = j
  BY DEF Distinct
<1>2. QED
  BY <1>1 DEF IInv, Distinct

LEMMA StatesChange ==
    ASSUME IInv, Types', Sessions', Counted', Waits',
           \A s \in Session : /\ session'[s].at = session[s].at
                              /\ session'[s].queue = session[s].queue
                              /\ session'[s].busy = session[s].busy,
           \A d \in Daemon \cup {Nobody} : Map(d)' \subseteq Map(d),
           \A c \in Client : client[c] \in {"queued", "running"} =>
                                client'[c] = client[c] /\ at'[c] = at[c]
    PROVE  IInv'
<1>1. Distinct'
  BY SameQueues
<1>2. OneOpen'
  BY DEF IInv, OneOpen
<1>3. Queues'
  <2>1. SUFFICES ASSUME NEW s \in Session PROVE InQueue(s)'
    BY DEF Queues
  <2>2. InQueue(s) /\ session[s].queue \in Seq(Client)
    BY SessionFields DEF IInv, Queues
  <2>3. ASSUME NEW i \in 1 .. Len(session[s].queue)
        PROVE  /\ session[s].queue[i] \in Client
               /\ client[session[s].queue[i]] \in {"queued", "running"}
    BY <2>2, ElementOfSeq DEF InQueue
  <2>4. QED
    BY <2>2, <2>3 DEF InQueue
<1>4. QED
  BY <1>1, <1>2, <1>3 DEF IInv

LEMMA KidLeavesKeeps ==
    ASSUME IInv, NEW s \in Session, KidLeaves(s) PROVE IInv'
<1> USE DEF KidLeaves
<1>1. Types' /\ Counted'
  BY DEF IInv, Types, Counted, files, count
<1>2. Sessions'
  <2>1. SUFFICES ASSUME NEW t \in Session PROVE session'[t] \in SessionType
    BY DEF Sessions, IInv
  <2>2. QED
    BY SessionFields, SessionUpdates DEF IInv, Sessions, SessionState
<1>6. Waits'
  BY DEF IInv, Sessions, SessionType, Waits
<1>3. \A t \in Session : /\ session'[t].at = session[t].at
                         /\ session'[t].queue = session[t].queue
                         /\ session'[t].busy = session[t].busy
  BY DEF IInv, Sessions, SessionType
<1>4. \A d \in Daemon \cup {Nobody} : Map(d)' \subseteq Map(d)
  BY DEF IInv, Sessions, Map
<1>5. QED
  BY <1>1, <1>2, <1>3, <1>4, <1>6, StatesChange

LEMMA DropSessionKeeps ==
    ASSUME IInv, NEW s \in Session, DropSession(s) PROVE IInv'
<1> USE DEF DropSession
<1>1. Types' /\ Counted'
  BY DEF IInv, Types, Counted, files, count
<1>2. Sessions'
  <2>1. SUFFICES ASSUME NEW t \in Session PROVE session'[t] \in SessionType
    BY DEF Sessions, IInv
  <2>2. QED
    BY SessionFields, SessionUpdates DEF IInv, Sessions, SessionState
<1>6. Waits'
  BY DEF IInv, Sessions, SessionType, Waits
<1>3. \A t \in Session : /\ session'[t].at = session[t].at
                         /\ session'[t].queue = session[t].queue
                         /\ session'[t].busy = session[t].busy
  BY DEF IInv, Sessions, SessionType
<1>4. \A d \in Daemon \cup {Nobody} : Map(d)' \subseteq Map(d)
  BY DEF IInv, Sessions, Map
<1>5. QED
  BY <1>1, <1>2, <1>3, <1>4, <1>6, StatesChange

\* A server that closes cuts commands that are in no session yet.
LEMMA CloseServerMoves ==
    ASSUME IInv, NEW d \in Daemon, CloseServer(d),
           crashes' \in 0 .. MaxCrash, signals' \in 0 .. MaxSignal
    PROVE  /\ Types' /\ Counted'
           /\ \A c \in Client : client[c] \in {"queued", "running"} =>
                                client'[c] = client[c] /\ at'[c] = at[c]
<1>1. \A c \in Client : client'[c] = IF client[c] = "sent" /\ at[c] = d
                                     THEN "cut" ELSE client[c]
  BY DEF CloseServer
<1>2. Types'
  BY DEF IInv, Types, CloseServer, Enters, Ended, Running
<1>3. Counted'
  BY <1>1 DEF IInv, Types, Counted, CloseServer, Outside, Seeking
<1>4. QED
  BY <1>1, <1>2, <1>3 DEF CloseServer

LEMMA ShutdownKeeps ==
    ASSUME IInv, NEW d \in Daemon, Shutdown(d), crashes' \in 0 .. MaxCrash,
           signals' \in 0 .. MaxSignal
    PROVE  IInv'
<1>1. CASE Map(d) = {} /\ CloseServer(d) /\ UNCHANGED session
  <2>1. /\ Types' /\ Counted'
        /\ \A c \in Client : client[c] \in {"queued", "running"} =>
                             client'[c] = client[c] /\ at'[c] = at[c]
    BY <1>1, CloseServerMoves
  <2>2. QED
    BY <1>1, <2>1, SessionsAlone DEF IInv
<1>2. CASE /\ Enters(d, "draining")
           /\ session' = [s \in Session |->
                IF s \notin Map(d) THEN session[s]
                ELSE IF session[s].queue = <<>>
                THEN [session[s] EXCEPT !.state = Closing(session[s])]
                ELSE [session[s] EXCEPT !.state = "draining",
                                        !.wait = Len(session[s].queue)]]
           /\ UNCHANGED <<client, at, ran, files>>
  <2>1. Types' /\ Counted'
    BY <1>2 DEF IInv, Types, Counted, Enters, Running, Accepting, files
  <2>2. ASSUME NEW s \in Session
        PROVE  \/ s \notin Map(d) /\ session'[s] = session[s]
               \/ /\ s \in Map(d) /\ session[s].queue = <<>>
                  /\ session'[s] = [session[s] EXCEPT !.state = Closing(session[s])]
               \/ /\ s \in Map(d) /\ session[s].queue # <<>>
                  /\ session'[s] = [session[s] EXCEPT !.state = "draining",
                                                   !.wait = Len(session[s].queue)]
    BY <1>2, Zenon
  <2>3. ASSUME NEW s \in Session
        PROVE  /\ session'[s].at = session[s].at
               /\ session'[s].queue = session[s].queue
               /\ session'[s].busy = session[s].busy
               /\ s \in Map(d) => session'[s].state \in {"draining", "ending", "ended"}
               /\ s \notin Map(d) => session'[s] = session[s]
               /\ session'[s] \in SessionType
               /\ IF session'[s].state = "draining"
                  THEN session'[s].wait \in 1 .. Len(session'[s].queue)
                  ELSE session'[s].wait = 0
    <3>1. /\ session[s] \in SessionType
          /\ session[s].queue \in Seq(Client) /\ Len(session[s].queue) \in Nat
          /\ session[s].wait \in Nat
      BY SessionFields DEF IInv
    <3>2. IF session[s].state = "draining"
          THEN session[s].wait \in 1 .. Len(session[s].queue)
          ELSE session[s].wait = 0
      BY DEF IInv, Waits
    <3>3. session[s].queue = <<>> \/ Len(session[s].queue) > 0
      BY <3>1, EmptySeq
    <3>4. Len(<<>>) = 0
      OBVIOUS
    <3>5. CASE s \notin Map(d) /\ session'[s] = session[s]
      BY <3>1, <3>2, <3>5
    <3>6. CASE /\ s \in Map(d) /\ session[s].queue = <<>>
               /\ session'[s] = [session[s] EXCEPT !.state = Closing(session[s])]
      <4>1. session[s].wait = 0
        BY <3>1, <3>2, <3>4, <3>6
      <4>2. Closing(session[s]) \in {"ending", "ended"}
        BY DEF Closing
      <4>3. Closing(session[s]) \in SessionState
        BY <4>2 DEF SessionState
      <4>4. /\ session'[s] \in SessionType
            /\ session'[s].state = Closing(session[s])
            /\ session'[s].wait = session[s].wait
            /\ session'[s].at = session[s].at
            /\ session'[s].queue = session[s].queue
            /\ session'[s].busy = session[s].busy
        BY <3>1, <3>6, <4>3, StateUpdate
      <4>5. QED
        BY <3>6, <4>1, <4>2, <4>4
    <3>7. CASE /\ s \in Map(d) /\ session[s].queue # <<>>
               /\ session'[s] = [session[s] EXCEPT !.state = "draining",
                                                !.wait = Len(session[s].queue)]
      <4>1. "draining" \in SessionState
        BY DEF SessionState
      <4>2. /\ session'[s] \in SessionType
            /\ session'[s].state = "draining"
            /\ session'[s].wait = Len(session[s].queue)
            /\ session'[s].at = session[s].at
            /\ session'[s].queue = session[s].queue
            /\ session'[s].busy = session[s].busy
        BY <3>1, <3>7, <4>1 DEF SessionType
      <4>3. QED
        BY <3>1, <3>3, <3>7, <4>2
    <3>8. QED
      BY <2>2, <3>5, <3>6, <3>7
  <2>4. Sessions' /\ Waits'
    <3>1. session' = [s \in Session |-> session'[s]]
      BY <1>2
    <3>2. QED
      BY <2>3, <3>1 DEF Sessions, Waits
  <2>5. \A e \in Daemon \cup {Nobody} : Map(e)' \subseteq Map(e)
    BY <2>3 DEF Map
  <2>6. QED
    BY <1>2, <2>1, <2>3, <2>4, <2>5, StatesChange
<1>3. QED
  BY <1>1, <1>2 DEF Shutdown

LEMMA EndDrainKeeps ==
    ASSUME IInv, NEW d \in Daemon, EndDrain(d) PROVE IInv'
<1>1. crashes' \in 0 .. MaxCrash /\ signals' \in 0 .. MaxSignal
  BY DEF EndDrain, IInv, Types, count
<1>2. /\ Types' /\ Counted'
      /\ \A c \in Client : client[c] \in {"queued", "running"} =>
                           client'[c] = client[c] /\ at'[c] = at[c]
  BY <1>1, CloseServerMoves DEF EndDrain
<1>3. ASSUME NEW s \in Session
      PROVE  /\ session'[s].at = session[s].at
             /\ session'[s].queue = session[s].queue
             /\ session'[s].busy = session[s].busy
             /\ session'[s].wait = session[s].wait
             /\ session'[s].state = IF s \in Map(d) THEN "cleared" ELSE session[s].state
             /\ session'[s] \in SessionType
  <2>1. session[s] \in SessionType /\ "cleared" \in SessionState
    BY SessionFields DEF IInv, SessionState
  <2>2. CASE s \in Map(d)
    <3>1. session'[s] = [session[s] EXCEPT !.state = "cleared"]
      BY <2>2, Zenon DEF EndDrain
    <3>2. QED
      BY <2>1, <2>2, <3>1, StateUpdate
  <2>3. CASE s \notin Map(d)
    <3>1. session'[s] = session[s]
      BY <2>3, Zenon DEF EndDrain
    <3>2. QED
      BY <2>1, <2>3, <3>1, Zenon
  <2>4. QED
    BY <2>2, <2>3
<1>4. Sessions'
  <2>1. session' = [s \in Session |-> session'[s]]
    BY DEF EndDrain
  <2>2. QED
    BY <1>3, <2>1 DEF Sessions
<1>5. Waits'
  <2>1. \A s \in Map(d) : session[s].state = "ended"
    BY DEF EndDrain
  <2>2. QED
    BY <1>3, <2>1 DEF IInv, Waits
<1>6. \A e \in Daemon \cup {Nobody} : Map(e)' \subseteq Map(e)
  BY <1>3 DEF Map
<1>7. QED
  BY <1>2, <1>3, <1>4, <1>5, <1>6, StatesChange

-----------------------------------------------------------------------------
(* A daemon dies.                                                          *)

LEMMA DiedSession ==
    ASSUME NEW e \in SessionType
    PROVE  LET f == [e EXCEPT !.state = "closed", !.queue = <<>>, !.busy = FALSE,
                              !.wait = 0]
           IN /\ f.at = e.at /\ f.state = "closed" /\ f.queue = <<>>
              /\ Len(f.queue) = 0 /\ f.busy = FALSE /\ f.wait = 0
              /\ f \in SessionType
<1>1. <<>> \in Seq(Client) /\ Len(<<>>) = 0
  OBVIOUS
<1>2. QED
  BY <1>1 DEF SessionType, SessionState

LEMMA DiesKeeps ==
    ASSUME IInv, NEW d \in Daemon \cup {Nobody}, Dies(d), crashes' \in 0 .. MaxCrash
    PROVE  IInv'
<1>1. \A c \in Client : client'[c] = IF client[c] \in Connected /\ at[c] = d
                                     THEN "cut" ELSE client[c]
  BY DEF Dies
<1>2. UNCHANGED <<at, ran, sock, lock, signals>>
  BY DEF Dies, files
<1>3. Types'
  <2>1. client' \in [Client -> Outside \cup {"queued", "running"} \cup Ended]
    BY DEF Dies, IInv, Types, Ended
  <2>2. QED
    BY <1>2, <2>1 DEF Dies, IInv, Types, Enters
<1>4. Counted'
  BY <1>1, <1>2 DEF IInv, Types, Counted, Outside, Seeking
<1>5. ASSUME NEW s \in Session
      PROVE  \/ session[s].at # d /\ session'[s] = session[s]
             \/ /\ session[s].at = d /\ session'[s].at = d
                /\ session'[s].state = "closed" /\ Len(session'[s].queue) = 0
                /\ session'[s].busy = FALSE /\ session'[s].wait = 0
                /\ session'[s] \in SessionType
  <2>1. session[s] \in SessionType /\ "closed" \in SessionState
    BY SessionFields DEF IInv, SessionState
  <2>2. CASE session[s].at # d
    BY <2>2, Zenon DEF Dies
  <2>3. CASE session[s].at = d
    <3>1. session'[s] = [session[s] EXCEPT !.state = "closed", !.queue = <<>>,
                                           !.busy = FALSE, !.wait = 0]
      BY <2>3, Zenon DEF Dies
    <3>2. QED
      BY <2>1, <2>3, <3>1, DiedSession
  <2>4. QED
    BY <2>2, <2>3
<1>6. Sessions'
  <2>1. session' = [s \in Session |-> session'[s]]
    BY DEF Dies
  <2>2. \A s \in Session : session'[s] \in SessionType
    BY <1>5, SessionFields DEF IInv
  <2>3. QED
    BY <2>1, <2>2 DEF Sessions
<1>7. Queues'
  <2>1. SUFFICES ASSUME NEW s \in Session PROVE InQueue(s)'
    BY DEF Queues
  <2>2. InQueue(s) /\ session[s].queue \in Seq(Client)
    BY SessionFields DEF IInv, Queues
  <2>3. ASSUME session[s].at # d, NEW i \in 1 .. Len(session[s].queue)
        PROVE  client'[session[s].queue[i]] = client[session[s].queue[i]]
    BY <1>1, <2>2, <2>3, ElementOfSeq DEF InQueue
  <2>4. CASE session[s].at # d /\ session'[s] = session[s]
    BY <1>2, <2>2, <2>3, <2>4 DEF InQueue
  <2>5. CASE Len(session'[s].queue) = 0 /\ session'[s].busy = FALSE
    BY <2>5 DEF InQueue
  <2>6. QED
    BY <1>5, <2>4, <2>5
<1>8. Distinct'
  <2>1. SUFFICES ASSUME NEW s \in Session, NEW t \in Session,
                        NEW i \in 1 .. Len(session'[s].queue),
                        NEW j \in 1 .. Len(session'[t].queue),
                        session'[s].queue[i] = session'[t].queue[j]
                 PROVE  s = t /\ i = j
    BY DEF Distinct
  <2>2. Len(session'[s].queue) # 0 /\ Len(session'[t].queue) # 0
    OBVIOUS
  <2>3. session'[s] = session[s]
    BY <1>5, <2>2
  <2>4. session'[t] = session[t]
    BY <1>5, <2>2
  <2>5. QED
    BY <2>1, <2>3, <2>4 DEF IInv, Distinct
<1>9. OneOpen'
  <2>1. \A e \in Daemon \cup {Nobody} : Map(e)' \subseteq Map(e)
    BY <1>5 DEF Map
  <2>2. QED
    BY <2>1 DEF IInv, OneOpen
<1>10. Waits'
  BY <1>5 DEF IInv, Waits
<1>11. QED
  BY <1>3, <1>4, <1>6, <1>7, <1>8, <1>9, <1>10 DEF IInv

LEMMA CrashKeeps ==
    ASSUME IInv, NEW d \in Daemon, Crash(d) PROVE IInv'
<1>1. crashes' \in 0 .. MaxCrash
  BY DaemonAssumption DEF Crash, IInv, Types
<1>2. QED
  BY <1>1, DiesKeeps DEF Crash

LEMMA RunBreaksKeeps ==
    ASSUME IInv, NEW s \in Session, RunBreaks(s) PROVE IInv'
<1>1. crashes' \in 0 .. MaxCrash
  BY DEF RunBreaks, IInv, Types
<1>2. session[s].at \in Daemon \cup {Nobody}
  BY SessionFields DEF IInv
<1>3. QED
  BY <1>1, <1>2, DiesKeeps DEF RunBreaks

-----------------------------------------------------------------------------
(* Requests.                                                               *)

\* A command enters at the end of one queue: that of an open session, or an
\* empty one.
LEMMA Joins ==
    ASSUME IInv, NEW c \in Client, NEW t \in Session, NEW q \in Seq(Client),
           NEW b \in BOOLEAN, client[c] = "accepted",
           client' = [client EXCEPT ![c] = "queued"], UNCHANGED at,
           \/ q = session[t].queue /\ b = session[t].busy /\ session[t].at = at[c]
           \/ q = <<>> /\ b = FALSE,
           session'[t].queue = Append(q, c), session'[t].busy = b,
           session'[t].at = at[c],
           \A s \in Session \ {t} : session'[s] = session[s]
    PROVE  Queues' /\ Distinct'
<1>1. \A s \in Session :
         /\ session[s].queue \in Seq(Client) /\ Len(session[s].queue) \in Nat
         /\ InQueue(s)
  BY SessionFields DEF IInv, Queues
<1>2. \A s \in Session : \A i \in 1 .. Len(session[s].queue) :
         /\ session[s].queue[i] \in Client /\ session[s].queue[i] # c
         /\ client'[session[s].queue[i]] = client[session[s].queue[i]]
  BY <1>1, ElementOfSeq DEF InQueue, IInv, Types
<1>3. /\ Len(q) \in Nat /\ Len(Append(q, c)) = Len(q) + 1
      /\ \A i \in 1 .. Len(q) : Append(q, c)[i] = q[i]
      /\ Append(q, c)[Len(q) + 1] = c /\ Append(q, c) # <<>>
  BY AppendProperties, LenProperties
<1>4. Len(<<>>) = 0
  OBVIOUS
<1>5. client'[c] = "queued"
  BY DEF IInv, Types
<1>6. \A i \in 1 .. Len(q) :
         /\ q = session[t].queue /\ b = session[t].busy /\ session[t].at = at[c]
         /\ q[i] # c /\ client'[q[i]] = client[q[i]]
  BY <1>2, <1>4
<1>7. b => q # <<>>
  BY <1>1 DEF InQueue
<1>8. Queues'
  <2>1. SUFFICES ASSUME NEW s \in Session PROVE InQueue(s)'
    BY DEF Queues
  <2>2. CASE s # t
    <3>1. session'[s] = session[s]
      BY <2>2
    <3>2. QED
      BY <1>1, <1>2, <3>1 DEF InQueue
  <2>3. CASE s = t
    <3>1. ASSUME NEW i \in 1 .. Len(q)
          PROVE  /\ at[q[i]] = at[c]
                 /\ client'[q[i]] = IF i = 1 /\ b THEN "running" ELSE "queued"
      BY <1>1, <1>6 DEF InQueue
    <3>2. b => Len(q) # 0
      BY <1>7, EmptySeq
    <3>3. ASSUME NEW i \in 1 .. Len(Append(q, c))
          PROVE  /\ at[Append(q, c)[i]] = at[c]
                 /\ client'[Append(q, c)[i]] =
                       IF i = 1 /\ b THEN "running" ELSE "queued"
      <4>1. CASE i \in 1 .. Len(q)
        BY <1>3, <3>1, <4>1
      <4>2. CASE i = Len(q) + 1
        BY <1>3, <1>5, <3>2, <4>2
      <4>3. QED
        BY <1>3, <4>1, <4>2
    <3>4. QED
      BY <1>3, <2>3, <3>3 DEF InQueue
  <2>4. QED
    BY <2>2, <2>3
<1>9. Distinct'
  <2>1. SUFFICES ASSUME NEW s \in Session, NEW u \in Session,
                        NEW i \in 1 .. Len(session'[s].queue),
                        NEW j \in 1 .. Len(session'[u].queue),
                        session'[s].queue[i] = session'[u].queue[j]
                 PROVE  s = u /\ i = j
    BY DEF Distinct
  <2>2. \A r \in Session, k \in Nat :
           k \in 1 .. Len(session'[r].queue) =>
              \/ r = t /\ k = Len(q) + 1 /\ session'[r].queue[k] = c
              \/ /\ k \in 1 .. Len(session[r].queue)
                 /\ session'[r].queue[k] = session[r].queue[k]
                 /\ session'[r].queue[k] # c
                 /\ r = t => k \in 1 .. Len(q)
    <3>1. SUFFICES ASSUME NEW r \in Session, NEW k \in 1 .. Len(session'[r].queue)
                   PROVE \/ r = t /\ k = Len(q) + 1 /\ session'[r].queue[k] = c
                         \/ /\ k \in 1 .. Len(session[r].queue)
                            /\ session'[r].queue[k] = session[r].queue[k]
                            /\ session'[r].queue[k] # c
                            /\ r = t => k \in 1 .. Len(q)
      OBVIOUS
    <3>2. CASE r # t
      <4>1. session'[r] = session[r]
        BY <3>2
      <4>2. QED
        BY <1>2, <3>2, <4>1
    <3>3. CASE r = t
      <4>1. k \in 1 .. Len(Append(q, c)) /\ session'[r].queue[k] = Append(q, c)[k]
        BY <3>3
      <4>2. CASE k = Len(q) + 1
        BY <1>3, <3>3, <4>1, <4>2
      <4>3. CASE k \in 1 .. Len(q)
        BY <1>3, <1>6, <3>3, <4>1, <4>3
      <4>4. QED
        BY <1>3, <4>1, <4>2, <4>3
    <3>4. QED
      BY <3>2, <3>3
  <2>3. i \in Nat /\ j \in Nat
    OBVIOUS
  <2>4. \/ s = t /\ i = Len(q) + 1 /\ session'[s].queue[i] = c
        \/ /\ i \in 1 .. Len(session[s].queue) /\ session'[s].queue[i] # c
           /\ session'[s].queue[i] = session[s].queue[i]
    BY <2>2, <2>3
  <2>5. \/ u = t /\ j = Len(q) + 1 /\ session'[u].queue[j] = c
        \/ /\ j \in 1 .. Len(session[u].queue) /\ session'[u].queue[j] # c
           /\ session'[u].queue[j] = session[u].queue[j]
    BY <2>2, <2>3
  <2>6. CASE session'[s].queue[i] = c
    BY <2>1, <2>4, <2>5, <2>6
  <2>7. CASE session'[s].queue[i] # c
    BY <2>1, <2>4, <2>5, <2>7 DEF IInv, Distinct
  <2>8. QED
    BY <2>6, <2>7
<1>10. QED
  BY <1>8, <1>9

LEMMA EnqueueKeeps ==
    ASSUME IInv, NEW c \in Client, Enqueue(c) PROVE IInv'
<1> DEFINE d == at[c]
<1>1. /\ client[c] = "accepted" /\ client' = [client EXCEPT ![c] = "queued"]
      /\ UNCHANGED <<at, ran, sock, lock, daemon, crashes, signals>>
  BY DEF Enqueue, Moves, files, count
<1>2. Types' /\ Counted'
  BY <1>1 DEF IInv, Types, Counted, Outside, Seeking
<1>3. d \in Daemon \cup {Nobody}
  BY DEF IInv, Types
<1>4. CASE Map(d) # {}
  <2>1. PICK t \in Map(d) : TRUE
    BY <1>4
  <2>2. t \in Session /\ session[t].at = d
    BY <2>1 DEF Map
  <2>3. session' = [s \in Session |->
                      IF s \in Map(d) THEN [session[s] EXCEPT !.queue = Append(@, c)]
                                      ELSE session[s]]
    BY <1>4, Zenon DEF Enqueue
  <2>4. \A s \in Session \ {t} : session'[s] = session[s]
    BY <1>3, <2>1, <2>3, Zenon DEF IInv, OneOpen
  <2>5. session'[t] = [session[t] EXCEPT !.queue = Append(session[t].queue, c)]
    BY <2>1, <2>2, <2>3, Zenon
  <2>6. /\ session[t].queue \in Seq(Client) /\ Len(session[t].queue) \in Nat
        /\ Append(session[t].queue, c) \in Seq(Client)
        /\ Len(Append(session[t].queue, c)) = Len(session[t].queue) + 1
        /\ session[t] \in SessionType /\ session[t].busy \in BOOLEAN
    BY <2>2, SessionFields, AppendProperties DEF IInv
  <2>7. /\ session'[t] \in SessionType
        /\ session'[t].queue = Append(session[t].queue, c)
        /\ session'[t].busy = session[t].busy /\ session'[t].at = session[t].at
        /\ session'[t].state = session[t].state /\ session'[t].wait = session[t].wait
    BY <2>5, <2>6 DEF SessionType
  <2>8. Queues' /\ Distinct'
    <3>1. session[t].at = at[c] /\ session'[t].at = at[c]
      BY <2>2, <2>7
    <3> HIDE DEF d
    <3>2. QED
      BY <1>1, <2>2, <2>4, <2>6, <2>7, <3>1, Joins
  <2>9. Sessions'
    <3>1. session' = [s \in Session |-> session'[s]]
      BY <2>3
    <3>2. \A s \in Session : session'[s] \in SessionType
      BY <2>4, <2>7, SessionFields DEF IInv
    <3>3. QED
      BY <3>1, <3>2 DEF Sessions
  <2>10. Waits'
    <3>1. SUFFICES ASSUME NEW s \in Session
                   PROVE  IF session'[s].state = "draining"
                          THEN session'[s].wait \in 1 .. Len(session'[s].queue)
                          ELSE session'[s].wait = 0
      BY DEF Waits
    <3>2. IF session[s].state = "draining"
          THEN session[s].wait \in 1 .. Len(session[s].queue)
          ELSE session[s].wait = 0
      BY DEF IInv, Waits
    <3>3. QED
      BY <2>4, <2>6, <2>7, <3>2
  <2>11. OneOpen'
    <3>1. \A e \in Daemon \cup {Nobody} : Map(e)' \subseteq Map(e)
      BY <2>4, <2>7 DEF Map
    <3>2. QED
      BY <3>1 DEF IInv, OneOpen
  <2>12. QED
    BY <1>2, <2>8, <2>9, <2>10, <2>11 DEF IInv
<1>5. CASE Map(d) = {}
  <2>1. session' = [session EXCEPT ![c] =
                      [NoSession EXCEPT !.at = d, !.state = "open", !.queue = <<c>>]]
    BY <1>5, Zenon DEF Enqueue
  <2>2. c \in Session
    BY DEF Client, Session
  <2>3. \A s \in Session \ {c} : session'[s] = session[s]
    BY <2>1 DEF IInv, Sessions
  <2>4. session'[c] = [at |-> d, state |-> "open", queue |-> <<c>>, busy |-> FALSE,
                       wait |-> 0, kid |-> FALSE]
    BY <2>1, <2>2 DEF IInv, Sessions, NoSession
  <2>5. <<c>> \in Seq(Client) /\ <<>> \in Seq(Client) /\ <<c>> = Append(<<>>, c)
    OBVIOUS
  <2>6. /\ session'[c] \in SessionType /\ session'[c].queue = Append(<<>>, c)
        /\ session'[c].busy = FALSE /\ session'[c].at = d
        /\ session'[c].state = "open" /\ session'[c].wait = 0
    BY <1>3, <2>4, <2>5 DEF SessionType, SessionState
  <2>7. Queues' /\ Distinct'
    BY <1>1, <2>2, <2>3, <2>5, <2>6, Joins
  <2>8. Sessions'
    <3>1. session' = [s \in Session |-> session'[s]]
      BY <2>1 DEF IInv, Sessions
    <3>2. \A s \in Session : session'[s] \in SessionType
      BY <2>3, <2>6, SessionFields DEF IInv
    <3>3. QED
      BY <3>1, <3>2 DEF Sessions
  <2>9. Waits'
    BY <2>3, <2>6 DEF IInv, Waits
  <2>10. OneOpen'
    <3>1. \A e \in Daemon \cup {Nobody} : e # d => Map(e)' \subseteq Map(e)
      BY <2>3, <2>6 DEF Map
    <3>2. Map(d)' \subseteq {c}
      BY <1>1, <1>5, <2>3 DEF Map
    <3>3. d' = d
      BY <1>1
    <3>4. QED
      BY <3>1, <3>2, <3>3 DEF IInv, OneOpen
  <2>11. QED
    BY <1>2, <2>7, <2>8, <2>9, <2>10 DEF IInv
<1>6. QED
  BY <1>4, <1>5

\* The head of a queue whose session is not busy was queued, and it is nowhere
\* else.
LEMMA TheHead ==
    ASSUME IInv, NEW s \in Session, session[s].queue # <<>>
    PROVE  LET c == Head(session[s].queue) IN
           /\ c \in Client /\ Len(session[s].queue) \in Nat \ {0}
           /\ client[c] = IF session[s].busy THEN "running" ELSE "queued"
           /\ at[c] = session[s].at
           /\ \A t \in Session : \A i \in 1 .. Len(session[t].queue) :
                 session[t].queue[i] = c => t = s /\ i = 1
<1>1. /\ session[s].queue \in Seq(Client) /\ Len(session[s].queue) \in Nat \ {0}
      /\ 1 \in 1 .. Len(session[s].queue)
  BY SessionFields, EmptySeq DEF IInv
<1>2. Head(session[s].queue) = session[s].queue[1]
  BY <1>1
<1>3. session[s].queue[1] \in Client
  BY <1>1, ElementOfSeq
<1>4. InQueue(s)
  BY DEF IInv, Queues
<1>5. \A t \in Session : \A i \in 1 .. Len(session[t].queue) :
         session[t].queue[i] = session[s].queue[1] => t = s /\ i = 1
  BY <1>1 DEF IInv, Distinct
<1>6. QED
  BY <1>1, <1>2, <1>3, <1>4, <1>5 DEF InQueue

LEMMA RunNextKeeps ==
    ASSUME IInv, NEW s \in Session, RunNext(s) PROVE IInv'
<1> DEFINE c == Head(session[s].queue)
<1>1. /\ session[s].queue # <<>> /\ ~session[s].busy
      /\ client' = [client EXCEPT ![c] = "running"]
      /\ ran' = [ran EXCEPT ![c] = @ + 1]
      /\ UNCHANGED <<at, sock, lock, daemon, crashes, signals>>
  BY DEF RunNext, Runs, Moves, files, count
<1>2. /\ c \in Client /\ client[c] = "queued"
      /\ \A t \in Session : \A i \in 1 .. Len(session[t].queue) :
            session[t].queue[i] = c => t = s /\ i = 1
  BY <1>1, TheHead
<1>3. Types'
  BY <1>1, <1>2 DEF IInv, Types
<1>4. Counted'
  BY <1>1, <1>2 DEF IInv, Types, Counted, Outside, Seeking
<1>5. /\ \A t \in Session \ {s} : session'[t] = session[t]
      /\ session' = [t \in Session |-> session'[t]]
  BY DEF RunNext, IInv, Sessions
<1>6. /\ session[s] \in SessionType
      /\ session'[s] = [session[s] EXCEPT !.busy = TRUE, !.kid = TRUE]
  BY SessionFields DEF RunNext, IInv, Sessions
<1>7. /\ session'[s] \in SessionType /\ session'[s].busy = TRUE
      /\ session'[s].at = session[s].at /\ session'[s].queue = session[s].queue
      /\ session'[s].state = session[s].state /\ session'[s].wait = session[s].wait
  BY <1>6 DEF SessionType
<1>8. Sessions'
  <2>1. \A t \in Session : session'[t] \in SessionType
    BY <1>5, <1>7, SessionFields DEF IInv
  <2>2. QED
    BY <1>5, <2>1 DEF Sessions
<1>9. Waits'
  BY <1>5, <1>7 DEF IInv, Waits
<1>10. OneOpen'
  <2>1. \A e \in Daemon \cup {Nobody} : Map(e)' \subseteq Map(e)
    BY <1>5, <1>7 DEF Map
  <2>2. QED
    BY <2>1 DEF IInv, OneOpen
<1>11. \A t \in Session : session'[t].queue = session[t].queue
  BY <1>5, <1>7
<1>12. Distinct'
  BY <1>11, SameQueues
<1>13. Queues'
  <2>1. SUFFICES ASSUME NEW t \in Session PROVE InQueue(t)'
    BY DEF Queues
  <2>2. InQueue(t) /\ session[t].queue \in Seq(Client)
    BY SessionFields DEF IInv, Queues
  <2>3. ASSUME NEW i \in 1 .. Len(session[t].queue)
        PROVE  /\ session[t].queue[i] \in Client
               /\ client'[session[t].queue[i]] =
                     IF t = s /\ i = 1 THEN "running" ELSE client[session[t].queue[i]]
    <3>1. session[t].queue[i] \in Client
      BY <2>2, ElementOfSeq
    <3>2. session[t].queue[i] = c <=> t = s /\ i = 1
      BY <1>1, <1>2, <2>2
    <3>3. QED
      BY <1>1, <1>2, <3>1, <3>2 DEF IInv, Types
  <2>4. CASE t # s
    <3>1. session'[t] = session[t]
      BY <1>5, <2>4
    <3>2. QED
      BY <1>1, <2>2, <2>3, <2>4, <3>1 DEF InQueue
  <2>5. CASE t = s
    BY <1>1, <1>7, <2>2, <2>3, <2>5 DEF InQueue
  <2>6. QED
    BY <2>4, <2>5
<1>14. QED
  BY <1>3, <1>4, <1>8, <1>9, <1>10, <1>12, <1>13 DEF IInv

\* What the end of a request makes of its session.
LEMMA FinishedSession ==
    ASSUME IInv, NEW s \in Session, Finish(s)
    PROVE  /\ session[s].queue # <<>>
           /\ session'[s] \in SessionType
           /\ session'[s].queue = Tail(session[s].queue)
           /\ session'[s].busy = FALSE /\ session'[s].at = session[s].at
           /\ session'[s].state \in {session[s].state, "ending", "ended"}
           /\ session'[s].state # session[s].state => session[s].state = "draining"
           /\ IF session'[s].state = "draining"
              THEN session'[s].wait \in 1 .. Len(session'[s].queue)
              ELSE session'[s].wait = 0
<1> DEFINE e == [session[s] EXCEPT !.busy = FALSE, !.queue = Tail(@)]
<1>1. session[s].queue # <<>>
  BY DEF Finish, IInv, Queues, InQueue
<1>2. /\ session[s].queue \in Seq(Client) /\ session[s] \in SessionType
      /\ session[s].wait \in Nat /\ Len(session[s].queue) \in Nat
  BY SessionFields DEF IInv
<1>3. /\ Tail(session[s].queue) \in Seq(Client)
      /\ Len(Tail(session[s].queue)) = Len(session[s].queue) - 1
  BY <1>1, <1>2, HeadTailProperties
<1>4. /\ e \in SessionType /\ e.queue = Tail(session[s].queue) /\ e.busy = FALSE
      /\ e.at = session[s].at /\ e.state = session[s].state /\ e.wait = session[s].wait
  BY <1>2, <1>3 DEF SessionType
<1>5. session'[s] = IF e.state # "draining" THEN e
                    ELSE IF e.wait > 1 THEN [e EXCEPT !.wait = @ - 1]
                    ELSE [e EXCEPT !.wait = 0, !.state = Closing(e)]
  BY Zenon DEF Finish, IInv, Sessions
<1> HIDE DEF e
<1>6. IF e.state = "draining" THEN e.wait \in 1 .. Len(session[s].queue)
                              ELSE e.wait = 0
  BY <1>4 DEF IInv, Waits
<1>7. CASE e.state # "draining"
  <2>1. session'[s] = e
    BY <1>5, <1>7
  <2>2. QED
    BY <1>1, <1>4, <1>6, <1>7, <2>1
<1>8. CASE e.state = "draining" /\ e.wait > 1
  <2>1. session'[s] = [e EXCEPT !.wait = e.wait - 1]
    BY <1>5, <1>8
  <2>2. e.wait - 1 \in Nat
    BY <1>2, <1>4, <1>8
  <2>3. /\ session'[s] \in SessionType /\ session'[s].wait = e.wait - 1
        /\ session'[s].queue = e.queue /\ session'[s].busy = e.busy
        /\ session'[s].at = e.at /\ session'[s].state = e.state
    BY <1>4, <2>1, <2>2 DEF SessionType
  <2>4. QED
    BY <1>1, <1>2, <1>3, <1>4, <1>6, <1>8, <2>3
<1>9. CASE e.state = "draining" /\ ~(e.wait > 1)
  <2>1. session'[s] = [e EXCEPT !.wait = 0, !.state = Closing(e)]
    BY <1>5, <1>9
  <2>2. Closing(e) \in {"ending", "ended"} /\ Closing(e) \in SessionState
    BY DEF Closing, SessionState
  <2>3. /\ session'[s] \in SessionType /\ session'[s].wait = 0
        /\ session'[s].queue = e.queue /\ session'[s].busy = e.busy
        /\ session'[s].at = e.at /\ session'[s].state = Closing(e)
    <3>1. PICK x \in SessionState : x = Closing(e)
      BY <2>2
    <3>2. PICK r \in SessionType : r = e
      BY <1>4
    <3>3. session'[s] = [r EXCEPT !.wait = 0, !.state = x]
      BY <2>1, <3>1, <3>2
    <3>4. /\ session'[s].queue = r.queue /\ session'[s].busy = r.busy
          /\ session'[s].at = r.at /\ session'[s].state = x /\ session'[s].wait = 0
      BY <3>3 DEF SessionType
    <3>5. [r EXCEPT !.wait = 0, !.state = x] \in SessionType
      BY SessionUpdates
    <3>6. session'[s] \in SessionType
      BY <3>3, <3>5
    <3>7. QED
      BY <3>1, <3>2, <3>4, <3>6
  <2>4. QED
    BY <1>1, <1>4, <1>9, <2>2, <2>3
<1>10. QED
  BY <1>7, <1>8, <1>9

LEMMA FinishKeeps ==
    ASSUME IInv, NEW s \in Session, Finish(s) PROVE IInv'
<1> DEFINE c == Head(session[s].queue)
<1>1. UNCHANGED <<at, ran, sock, lock, daemon, crashes, signals>> /\ session[s].busy
  BY DEF Finish, files, count
<1>2. PICK result \in {"answered", "error"} : client' = [client EXCEPT ![c] = result]
  BY DEF Finish, Moves
<1>3. /\ session[s].queue # <<>>
      /\ session'[s] \in SessionType
      /\ session'[s].queue = Tail(session[s].queue)
      /\ session'[s].busy = FALSE /\ session'[s].at = session[s].at
      /\ session'[s].state \in {session[s].state, "ending", "ended"}
      /\ session'[s].state # session[s].state => session[s].state = "draining"
      /\ IF session'[s].state = "draining"
         THEN session'[s].wait \in 1 .. Len(session'[s].queue)
         ELSE session'[s].wait = 0
  BY FinishedSession
<1>4. /\ c \in Client /\ client[c] = "running"
      /\ \A t \in Session : \A i \in 1 .. Len(session[t].queue) :
            session[t].queue[i] = c => t = s /\ i = 1
  BY <1>1, <1>3, TheHead
<1>5. Types'
  BY <1>1, <1>2, <1>4 DEF IInv, Types, Ended
<1>6. Counted'
  BY <1>1, <1>2, <1>4 DEF IInv, Types, Counted, Outside, Seeking
<1>7. /\ \A t \in Session \ {s} : session'[t] = session[t]
      /\ session' = [t \in Session |-> session'[t]]
  BY DEF Finish, IInv, Sessions
<1>8. Sessions'
  <2>1. \A t \in Session : session'[t] \in SessionType
    BY <1>3, <1>7, SessionFields DEF IInv
  <2>2. QED
    BY <1>7, <2>1 DEF Sessions
<1>9. Waits'
  BY <1>3, <1>7 DEF IInv, Waits
<1>10. OneOpen'
  <2>1. \A e \in Daemon \cup {Nobody} : Map(e)' \subseteq Map(e)
    BY <1>3, <1>7 DEF Map
  <2>2. QED
    BY <2>1 DEF IInv, OneOpen
<1>11. \A t \in Session : /\ session[t].queue \in Seq(Client)
                          /\ Len(session[t].queue) \in Nat /\ InQueue(t)
  BY SessionFields DEF IInv, Queues
<1>12. /\ Len(session'[s].queue) = Len(session[s].queue) - 1
       /\ \A i \in 1 .. Len(session'[s].queue) :
             /\ i + 1 \in 1 .. Len(session[s].queue)
             /\ session'[s].queue[i] = session[s].queue[i + 1]
  BY <1>3, <1>11, HeadTailProperties
<1>13. Distinct'
  <2>1. SUFFICES ASSUME NEW t \in Session, NEW u \in Session,
                        NEW i \in 1 .. Len(session'[t].queue),
                        NEW j \in 1 .. Len(session'[u].queue),
                        session'[t].queue[i] = session'[u].queue[j]
                 PROVE  t = u /\ i = j
    BY DEF Distinct
  <2>2. PICK k \in 1 .. Len(session[t].queue) :
           /\ session[t].queue[k] = session'[t].queue[i]
           /\ k = IF t = s THEN i + 1 ELSE i
    BY <1>7, <1>12
  <2>3. PICK l \in 1 .. Len(session[u].queue) :
           /\ session[u].queue[l] = session'[u].queue[j]
           /\ l = IF u = s THEN j + 1 ELSE j
    BY <1>7, <1>12
  <2>4. t = u /\ k = l
    BY <2>1, <2>2, <2>3 DEF IInv, Distinct
  <2>5. QED
    BY <2>2, <2>3, <2>4
<1>14. Queues'
  <2>1. SUFFICES ASSUME NEW t \in Session PROVE InQueue(t)'
    BY DEF Queues
  <2>2. ASSUME NEW i \in 1 .. Len(session[t].queue), t # s \/ i # 1
        PROVE  client'[session[t].queue[i]] = client[session[t].queue[i]]
    <3>1. session[t].queue[i] \in Client /\ session[t].queue[i] # c
      BY <1>4, <1>11, <2>2, ElementOfSeq
    <3>2. QED
      BY <1>2, <3>1 DEF IInv, Types
  <2>3. CASE t # s
    <3>1. session'[t] = session[t]
      BY <1>7, <2>3
    <3>2. QED
      BY <1>1, <1>11, <2>2, <2>3, <3>1 DEF InQueue
  <2>4. CASE t = s
    <3>1. ASSUME NEW i \in 1 .. Len(session'[s].queue)
          PROVE  /\ at'[session'[s].queue[i]] = session'[s].at
                 /\ client'[session'[s].queue[i]] = "queued"
      <4>1. /\ i + 1 \in 1 .. Len(session[s].queue) /\ i + 1 # 1
            /\ session'[s].queue[i] = session[s].queue[i + 1]
        BY <1>12
      <4>2. /\ client[session[s].queue[i + 1]] = "queued"
            /\ at[session[s].queue[i + 1]] = session[s].at
        BY <1>11, <4>1 DEF InQueue
      <4>3. client'[session[s].queue[i + 1]] = client[session[s].queue[i + 1]]
        BY <2>2, <2>4, <4>1
      <4>4. QED
        BY <1>1, <1>3, <4>1, <4>2, <4>3
    <3>2. QED
      BY <1>3, <2>4, <3>1 DEF InQueue
  <2>5. QED
    BY <2>3, <2>4
<1>15. QED
  BY <1>5, <1>6, <1>8, <1>9, <1>10, <1>13, <1>14 DEF IInv

-----------------------------------------------------------------------------
(* The theorems.                                                           *)

LEMMA InitIInv == Init => IInv
<1> SUFFICES ASSUME Init PROVE IInv
  OBVIOUS
<1>1. Types /\ Counted
  BY DaemonAssumption DEF Init, Types, Counted, Outside, Seeking, Ended
<1>2. \A s \in Session : session[s] = NoSession
  BY DEF Init
<1>3. NoSession \in SessionType /\ Len(NoSession.queue) = 0
  <2>1. <<>> \in Seq(Client) /\ Len(<<>>) = 0
    OBVIOUS
  <2>2. QED
    BY <2>1 DEF NoSession, SessionType, SessionState
<1>4. NoSession.state = "none" /\ NoSession.wait = 0 /\ ~NoSession.busy
  BY DEF NoSession
<1>5. Sessions
  BY <1>3 DEF Init, Sessions
<1>6. Queues /\ Distinct
  BY <1>2, <1>3, <1>4 DEF Queues, InQueue, Distinct
<1>7. Waits
  BY <1>2, <1>4 DEF Waits
<1>8. OneOpen
  <2>1. \A d \in Daemon \cup {Nobody} : Map(d) = {}
    BY <1>2, <1>4 DEF Map
  <2>2. QED
    BY <2>1 DEF OneOpen
<1>9. QED
  BY <1>1, <1>5, <1>6, <1>7, <1>8 DEF IInv

LEMMA StutterKeeps == ASSUME IInv, UNCHANGED vars PROVE IInv'
<1>1. UNCHANGED <<client, at, ran, session>> /\ Types'
  BY DEF vars, files, count, IInv, Types
<1>2. QED
  BY <1>1, NobodyMoves

LEMMA NextIInv == IInv /\ [Next]_vars => IInv'
<1> SUFFICES ASSUME IInv, [Next]_vars PROVE IInv'
  OBVIOUS
<1>1. ASSUME NEW c \in Client, ConnectFirst(c) \/ Command(c) PROVE IInv'
  BY <1>1, CommandKeeps, EnqueueKeeps, RunDirectKeeps
<1>2. ASSUME NEW s \in Session, Serve(s) \/ DropSession(s) PROVE IInv'
  BY <1>2, RunNextKeeps, RunBreaksKeeps, FinishKeeps, KidLeavesKeeps,
     DropSessionKeeps DEF Serve
<1>3. ASSUME NEW d \in Daemon, Progress(d) PROVE IInv'
  BY <1>3, ProgressKeeps, EndDrainKeeps
<1>4. ASSUME NEW d \in Daemon, ShutdownIdle(d) \/ Signal(d) PROVE IInv'
  <2>1. crashes' \in 0 .. MaxCrash /\ signals' \in 0 .. MaxSignal
    BY <1>4, DaemonAssumption DEF ShutdownIdle, Signal, count, IInv, Types
  <2>2. QED
    BY <1>4, <2>1, ShutdownKeeps DEF ShutdownIdle, Signal
<1>5. ASSUME NEW d \in Daemon, Crash(d) PROVE IInv'
  BY <1>5, CrashKeeps
<1>6. CASE LockAges
  BY <1>6, LockAgesKeeps
<1>7. CASE UNCHANGED vars
  BY <1>7, StutterKeeps
<1>8. QED
  BY <1>1, <1>2, <1>3, <1>4, <1>5, <1>6, <1>7 DEF Next

LEMMA Invariance == Spec => []IInv
BY InitIInv, NextIInv, PTL DEF Spec

\* TypeOK, for any number of commands: in particular a command that waits in a
\* queue of a daemon is queued, and running only at its head.
THEOREM TypeCorrect == Spec => []TypeOK
<1>1. IInv => TypeOK
  <2> SUFFICES ASSUME IInv PROVE TypeOK
    OBVIOUS
  <2>1. /\ client \in [Client -> {"idle", "lock", "stat", "unlink", "relock",
                              "retry", "direct"} \cup Connected \cup Ended]
        /\ at \in [Client -> Daemon \cup {Nobody}] /\ sock \in Daemon \cup {Nobody}
        /\ ran \in [Client -> Nat] /\ lock \in {"absent", "fresh", "stale"}
        /\ daemon \in [Daemon -> {"none", "probing", "removing", "binding", "done",
                                  "gone"} \cup Running]
        /\ crashes \in 0 .. MaxCrash /\ signals \in 0 .. MaxSignal
    BY DEF IInv, Types, Outside, Seeking, Connected
  <2>2. ASSUME NEW s \in Session
        PROVE  /\ session[s].at \in Daemon \cup {Nobody}
               /\ session[s].wait \in 0 .. Len(session[s].queue)
               /\ \A i \in DOMAIN session[s].queue :
                     client[session[s].queue[i]] = IF i = 1 /\ session[s].busy
                                                   THEN "running" ELSE "queued"
    <3>1. /\ session[s].at \in Daemon \cup {Nobody} /\ InQueue(s)
          /\ Len(session[s].queue) \in Nat
          /\ DOMAIN session[s].queue = 1 .. Len(session[s].queue)
      BY SessionFields, LenProperties DEF IInv, Queues
    <3>2. session[s].wait \in 0 .. Len(session[s].queue)
      BY <3>1 DEF IInv, Waits
    <3>3. QED
      BY <3>1, <3>2 DEF InQueue
  <2>3. QED
    BY <2>1, <2>2 DEF TypeOK
<1>2. QED
  BY <1>1, Invariance, PTL

\* RanAtMostOnce: whatever daemons are killed, leave or are lost, an operation is
\* run at most once, and one that is answered was run.
THEOREM OperationsRunAtMostOnce == Spec => []RanAtMostOnce
<1>1. IInv => RanAtMostOnce
  BY DEF IInv, Counted, RanAtMostOnce
<1>2. QED
  BY <1>1, Invariance, PTL

-----------------------------------------------------------------------------
(* Nobody waits for a daemon that is gone.                                 *)

\* A daemon that still has connections.
Open == Accepting \cup {"closing"}

\* A command is connected to a daemon that listens, or has accepted it.
Connections ==
    \A c \in Client :
       /\ client[c] = "sent" => at[c] \in Daemon /\ daemon[at[c]] \in Accepting
       /\ client[c] \in {"accepted", "queued", "running"} =>
             at[c] \in Daemon /\ daemon[at[c]] \in Open

\* A command makes its session when it enters a queue, not before.
Fresh == \A c \in Client : client[c] \in Outside => session[c] = NoSession

Waiting(s, c) == \E i \in 1 .. Len(session[s].queue) : session[s].queue[i] = c

\* A command that is queued or running is in a queue.
Enqueued ==
    \A c \in Client : client[c] \in {"queued", "running"} =>
                         \E s \in Session : Waiting(s, c)

WaitInv == Connections /\ Fresh /\ Enqueued

LEMMA NextConnections ==
    ASSUME IInv, Connections, [Next]_vars PROVE Connections'
<1> USE DEF IInv, Types, Connections, Open, Accepting, Running, Moves, Enters, files, count
<1>1. ASSUME NEW c \in Client, ConnectFirst(c) \/ Retry(c) PROVE Connections'
  BY <1>1 DEF ConnectFirst, Retry, Connects, Reachable, Client_
<1>2. ASSUME NEW c \in Client, OpenLock(c) \/ Relock(c) PROVE Connections'
  BY <1>2 DEF OpenLock, Relock, TakeLock, Client_
<1>3. ASSUME NEW c \in Client, StatLock(c) \/ UnlinkLock(c) \/ GiveUp(c) PROVE Connections'
  BY <1>3 DEF StatLock, UnlinkLock, GiveUp, Client_
<1>4. ASSUME NEW c \in Client, RunDirect(c) \/ Accept(c) \/ Enqueue(c) PROVE Connections'
  BY <1>4 DEF RunDirect, Accept, Enqueue
<1>5. ASSUME NEW s \in Session, RunNext(s) PROVE Connections'
  <2>1. /\ session[s].queue # <<>> /\ ~session[s].busy
        /\ client' = [client EXCEPT ![Head(session[s].queue)] = "running"]
        /\ UNCHANGED <<at, daemon>>
    BY <1>5 DEF RunNext, Runs
  <2>2. Head(session[s].queue) \in Client /\ client[Head(session[s].queue)] = "queued"
    BY <2>1, TheHead
  <2>3. QED
    BY <2>1, <2>2
<1>6. ASSUME NEW s \in Session, Finish(s) PROVE Connections'
  BY <1>6 DEF Finish
<1>7. ASSUME NEW s \in Session, KidLeaves(s) \/ DropSession(s) PROVE Connections'
  BY <1>7 DEF KidLeaves, DropSession
<1>8. ASSUME NEW d, Dies(d) PROVE Connections'
  BY <1>8 DEF Dies, Connected
<1>9. ASSUME NEW d \in Daemon, CloseServer(d) PROVE Connections'
  BY <1>9 DEF CloseServer
<1>10. ASSUME NEW d \in Daemon, daemon[d] = "serving", Shutdown(d) PROVE Connections'
  <2>1. CASE CloseServer(d)
    BY <1>9, <2>1
  <2>2. CASE Enters(d, "draining") /\ UNCHANGED <<client, at>>
    BY <1>10, <2>2
  <2>3. QED
    BY <1>10, <2>1, <2>2 DEF Shutdown
<1>11. ASSUME NEW d \in Daemon, Progress(d) PROVE Connections'
  <2>1. CASE EndClose(d)
    BY <2>1 DEF EndClose, Daemon_, Connected
  <2>2. CASE ~EndClose(d) /\ ~EndDrain(d)
    BY <1>11, <2>2 DEF Progress, Probe, Remove, Bind, Unlock, RemoveSock, RemoveLock, Leave,
       Daemon_
  <2>3. QED
    BY <1>9, <2>1, <2>2 DEF EndDrain
<1>12. CASE LockAges \/ UNCHANGED vars
  BY <1>12 DEF LockAges, vars
<1>13. QED
  BY <1>1, <1>2, <1>3, <1>4, <1>5, <1>6, <1>7, <1>8, <1>10, <1>11, <1>12
     DEF Next, Command, Serve, ShutdownIdle, Signal, Crash, RunBreaks

\* The daemon of a session with a queue.
LEMMA QueueAtDaemon ==
    ASSUME IInv, Connections, NEW s \in Session, session[s].queue # <<>>
    PROVE  session[s].at \in Daemon
BY TheHead DEF Connections

LEMMA NextFresh ==
    ASSUME IInv, WaitInv, [Next]_vars PROVE Fresh'
<1> USE DEF WaitInv, IInv, Types, Fresh, Moves, Outside, Seeking, files, count
<1>0. \A c \in Client : c \in Session
  BY DEF Client, Session
<1>1. ASSUME NEW c \in Client, ConnectFirst(c) \/ Command(c), ~Enqueue(c) PROVE Fresh'
  BY <1>1 DEF ConnectFirst, Command, OpenLock, Relock, Retry, TakeLock, Connects, Client_,
     StatLock, UnlinkLock, GiveUp, RunDirect, Accept
<1>2. ASSUME NEW c \in Client, Enqueue(c) PROVE Fresh'
  <2>1. SUFFICES ASSUME NEW b \in Client, client'[b] \in Outside PROVE session'[b] = NoSession
    OBVIOUS
  <2>2. b # c /\ client'[b] = client[b] /\ b \in Session /\ session[b] = NoSession
    BY <1>0, <1>2, <2>1 DEF Enqueue
  <2>3. b \notin Map(at[c])
    BY <2>2 DEF Map, NoSession
  <2>4. QED
    BY <1>2, <2>2, <2>3 DEF Enqueue, Sessions
<1>3. ASSUME NEW s \in Session, RunNext(s) PROVE Fresh'
  <2>1. session[s] # NoSession
    BY <1>3 DEF RunNext, Runs, NoSession
  <2>2. /\ client' = [client EXCEPT ![Head(session[s].queue)] = "running"]
        /\ \A b \in Session \ {s} : session'[b] = session[b]
    BY <1>3 DEF RunNext, Sessions
  <2>3. QED
    BY <1>0, <2>1, <2>2
<1>4. ASSUME NEW s \in Session, Finish(s) PROVE Fresh'
  <2>1. session[s] # NoSession
    BY <1>4 DEF Finish, NoSession
  <2>2. \A b \in Session \ {s} : session'[b] = session[b]
    BY <1>4 DEF Finish, Sessions
  <2>3. \A b \in Client : client'[b] \in Outside => client[b] \in Outside
    BY <1>4 DEF Finish
  <2>4. QED
    BY <1>0, <2>1, <2>2, <2>3
<1>5. ASSUME NEW s \in Session, KidLeaves(s) \/ DropSession(s) PROVE Fresh'
  <2>1. session[s] # NoSession /\ UNCHANGED client
    BY <1>5 DEF KidLeaves, DropSession, NoSession
  <2>2. \A b \in Session \ {s} : session'[b] = session[b]
    BY <1>5 DEF KidLeaves, DropSession, Sessions
  <2>3. QED
    BY <1>0, <2>1, <2>2
<1>6. ASSUME NEW d \in Daemon, Dies(d) PROVE Fresh'
  <2>1. \A b \in Session : session[b] = NoSession => session'[b] = NoSession
    <3>1. NoSession.at # d
      BY DaemonAssumption DEF NoSession, Daemon
    <3>2. \A b \in Session : session[b].at # d => session'[b] = session[b]
      BY <1>6 DEF Dies
    <3>3. QED
      BY <3>1, <3>2
  <2>2. QED
    BY <1>0, <1>6, <2>1 DEF Dies
<1>7. ASSUME NEW d \in Daemon, CloseServer(d),
             \A b \in Session : session'[b] # session[b] => b \in Map(d)
      PROVE  Fresh'
  <2>1. \A b \in Session : session[b] = NoSession => session'[b] = NoSession
    BY <1>7 DEF Map, NoSession
  <2>2. QED
    BY <1>0, <1>7, <2>1 DEF CloseServer
<1>8. ASSUME NEW d \in Daemon, Shutdown(d) PROVE Fresh'
  <2>1. \A b \in Session : session'[b] # session[b] => b \in Map(d)
    BY <1>8 DEF Shutdown
  <2>2. CASE CloseServer(d)
    BY <1>7, <2>1, <2>2
  <2>3. CASE UNCHANGED client
    <3>1. \A b \in Session : session[b] = NoSession => b \notin Map(d)
      BY DEF Map, NoSession
    <3>2. QED
      BY <1>0, <2>1, <2>3, <3>1
  <2>4. QED
    BY <1>8, <2>2, <2>3 DEF Shutdown
<1>9. ASSUME NEW d \in Daemon, Progress(d) PROVE Fresh'
  <2>1. CASE EndDrain(d)
    <3>1. \A b \in Session : session'[b] # session[b] => b \in Map(d)
      BY <2>1 DEF EndDrain
    <3>2. QED
      BY <1>7, <2>1, <3>1 DEF EndDrain
  <2>2. CASE ~EndDrain(d)
    BY <1>9, <2>2 DEF Progress, Probe, Remove, Bind, Unlock, EndClose, RemoveSock, RemoveLock,
       Leave, Daemon_
  <2>3. QED
    BY <2>1, <2>2
<1>10. CASE LockAges \/ UNCHANGED vars
  BY <1>10 DEF LockAges, vars
<1>11. ASSUME NEW s \in Session, RunBreaks(s) PROVE session[s].at \in Daemon /\ Dies(session[s].at)
  BY <1>11, QueueAtDaemon DEF RunBreaks, Runs
<1>12. QED
  BY <1>1, <1>2, <1>3, <1>4, <1>5, <1>6, <1>8, <1>9, <1>10, <1>11
     DEF Next, Serve, ShutdownIdle, Signal, Crash

LEMMA NextEnqueued ==
    ASSUME IInv, WaitInv, [Next]_vars PROVE Enqueued'
<1> USE DEF WaitInv, IInv, Types, Moves, files, count
<1>0. \A s \in Session : session[s] \in SessionType /\ session[s].queue \in Seq(Client)
                         /\ Len(session[s].queue) \in Nat
  BY SessionFields
<1>1. ASSUME \A s \in Session : session'[s].queue = session[s].queue,
             \A c \in Client : client'[c] \in {"queued", "running"} =>
                                  client[c] \in {"queued", "running"}
      PROVE  Enqueued'
  BY <1>1 DEF Enqueued, Waiting
<1>2. ASSUME NEW c \in Client, ConnectFirst(c) \/ Command(c), ~Enqueue(c) PROVE Enqueued'
  <2>1. UNCHANGED session /\ \E to : to \notin {"queued", "running"} /\ Moves(c, to)
    BY <1>2 DEF ConnectFirst, Command, OpenLock, Relock, Retry, TakeLock, Connects, Client_,
       StatLock, UnlinkLock, GiveUp, RunDirect, Accept
  <2>2. QED
    BY <1>1, <2>1
<1>3. ASSUME NEW c \in Client, Enqueue(c) PROVE Enqueued'
  <2>1. /\ client[c] = "accepted" /\ client' = [client EXCEPT ![c] = "queued"]
        /\ c \in Session /\ session[c] = NoSession /\ at[c] \in Daemon
    BY <1>3 DEF Enqueue, Client, Session, Fresh, Outside, Connections
  <2>2. ASSUME NEW s \in Session, NEW b, Waiting(s, b) PROVE Waiting(s, b)'
    <3>1. s # c
      BY <2>1, <2>2, EmptySeq DEF Waiting, NoSession
    <3>2. CASE session'[s] = session[s]
      BY <2>2, <3>2 DEF Waiting
    <3>3. CASE session'[s] = [session[s] EXCEPT !.queue = Append(@, c)]
      <4>1. session'[s].queue = Append(session[s].queue, c)
        BY <1>0, <3>3 DEF SessionType
      <4>2. QED
        BY <1>0, <2>2, <4>1, AppendProperties DEF Waiting
    <3>4. QED
      BY <1>3, <3>1, <3>2, <3>3 DEF Enqueue, Sessions
  <2>3. \E s \in Session : Waiting(s, c)'
    <3>1. CASE Map(at[c]) # {}
      <4>1. PICK t \in Map(at[c]) : TRUE
        BY <3>1
      <4>2. t \in Session
        BY <4>1 DEF Map
      <4>3. session'[t] = [session[t] EXCEPT !.queue = Append(session[t].queue, c)]
        BY <1>3, <3>1, <4>1, <4>2, Zenon DEF Enqueue
      <4>4. session'[t].queue = Append(session[t].queue, c)
        BY <1>0, <4>2, <4>3 DEF SessionType
      <4>5. Len(session[t].queue) + 1 \in 1 .. Len(session'[t].queue)
            /\ session'[t].queue[Len(session[t].queue) + 1] = c
        BY <1>0, <4>2, <4>4, AppendProperties
      <4>6. QED
        BY <4>2, <4>5 DEF Waiting
    <3>2. CASE Map(at[c]) = {}
      <4>1. session'[c].queue = <<c>>
        BY <1>3, <2>1, <3>2 DEF Enqueue, Sessions, NoSession
      <4>2. 1 \in 1 .. Len(<<c>>) /\ <<c>>[1] = c
        OBVIOUS
      <4>3. QED
        BY <2>1, <4>1, <4>2 DEF Waiting
    <3>3. QED
      BY <3>1, <3>2
  <2>4. QED
    BY <2>1, <2>2, <2>3 DEF Enqueued
<1>4. ASSUME NEW s \in Session, RunNext(s) PROVE Enqueued'
  <2>1. /\ Head(session[s].queue) \in Client /\ client[Head(session[s].queue)] = "queued"
        /\ client' = [client EXCEPT ![Head(session[s].queue)] = "running"]
    BY <1>4, TheHead DEF RunNext, Runs
  <2>2. \A t \in Session : session'[t].queue = session[t].queue
    BY <1>0, <1>4 DEF RunNext, Sessions, SessionType
  <2>3. QED
    BY <1>1, <2>1, <2>2
<1>5. ASSUME NEW s \in Session, Finish(s) PROVE Enqueued'
  <2>1. /\ session[s].queue # <<>> /\ session'[s].queue = Tail(session[s].queue)
        /\ \A t \in Session \ {s} : session'[t] = session[t]
    BY <1>5, FinishedSession DEF Finish, Sessions
  <2>2. PICK result \in {"answered", "error"} :
           client' = [client EXCEPT ![Head(session[s].queue)] = result]
    BY <1>5 DEF Finish
  <2>3. SUFFICES ASSUME NEW b \in Client, client'[b] \in {"queued", "running"}
                 PROVE  \E t \in Session : Waiting(t, b)'
    BY DEF Enqueued
  <2>4. b # Head(session[s].queue) /\ client[b] \in {"queued", "running"}
    BY <2>2, <2>3
  <2>5. PICK t \in Session : Waiting(t, b)
    BY <2>4 DEF Enqueued
  <2>6. CASE t # s
    BY <2>1, <2>5, <2>6 DEF Waiting
  <2>7. CASE t = s
    <3>1. PICK i \in 1 .. Len(session[s].queue) : session[s].queue[i] = b
      BY <2>5, <2>7 DEF Waiting
    <3>2. i # 1
      <4>1. Head(session[s].queue) = session[s].queue[1]
        BY <1>0
      <4>2. QED
        BY <2>4, <3>1, <4>1
    <3>3. /\ Len(Tail(session[s].queue)) = Len(session[s].queue) - 1
          /\ i - 1 \in 1 .. Len(Tail(session[s].queue))
          /\ Tail(session[s].queue)[i - 1] = session[s].queue[i]
      <4>1. /\ Len(Tail(session[s].queue)) = Len(session[s].queue) - 1
            /\ \A j \in 1 .. Len(Tail(session[s].queue)) :
                  Tail(session[s].queue)[j] = session[s].queue[j + 1]
        BY <1>0, <2>1, HeadTailProperties
      <4>2. /\ Len(session[s].queue) \in Nat /\ i \in Nat
            /\ i - 1 \in 1 .. Len(session[s].queue) - 1 /\ (i - 1) + 1 = i
        BY <1>0, <3>1, <3>2
      <4>3. Tail(session[s].queue)[i - 1] = session[s].queue[(i - 1) + 1]
        BY <4>1, <4>2
      <4>4. QED
        BY <4>1, <4>2, <4>3
    <3>4. QED
      BY <2>1, <3>1, <3>3 DEF Waiting
  <2>8. QED
    BY <2>6, <2>7
<1>6. ASSUME NEW s \in Session, KidLeaves(s) \/ DropSession(s) PROVE Enqueued'
  <2>1. \A t \in Session : session'[t].queue = session[t].queue
    <3>1. CASE KidLeaves(s)
      BY <1>0, <3>1 DEF KidLeaves, Sessions, SessionType
    <3>2. CASE DropSession(s)
      BY <1>0, <3>2 DEF DropSession, Sessions, SessionType
    <3>3. QED
      BY <1>6, <3>1, <3>2
  <2>2. QED
    BY <1>1, <1>6, <2>1 DEF KidLeaves, DropSession
<1>7. ASSUME NEW d \in Daemon, Dies(d) PROVE Enqueued'
  <2>1. SUFFICES ASSUME NEW b \in Client, client'[b] \in {"queued", "running"}
                 PROVE  \E t \in Session : Waiting(t, b)'
    BY DEF Enqueued
  <2>2. client[b] \in {"queued", "running"} /\ at[b] # d
    BY <1>7, <2>1 DEF Dies, Connected
  <2>3. PICK t \in Session : Waiting(t, b)
    BY <2>2 DEF Enqueued
  <2>4. session[t].at = at[b]
    BY <2>3 DEF Queues, InQueue, Waiting
  <2>5. session'[t] = session[t]
    BY <1>7, <2>2, <2>4 DEF Dies
  <2>6. QED
    BY <2>3, <2>5 DEF Waiting
<1>8. ASSUME NEW d \in Daemon, Shutdown(d) PROVE Enqueued'
  <2>1. \A t \in Session : session'[t].queue = session[t].queue
    <3>1. SUFFICES ASSUME NEW t \in Session PROVE session'[t].queue = session[t].queue
      OBVIOUS
    <3>2. \/ session'[t] = session[t]
          \/ session'[t] = [session[t] EXCEPT !.state = Closing(session[t])]
          \/ session'[t] = [session[t] EXCEPT !.state = "draining",
                                              !.wait = Len(session[t].queue)]
      BY <1>8 DEF Shutdown
    <3>3. QED
      BY <1>0, <3>2 DEF SessionType
  <2>2. UNCHANGED client \/ CloseServer(d)
    BY <1>8 DEF Shutdown
  <2>3. QED
    BY <1>1, <2>1, <2>2 DEF CloseServer
<1>9. ASSUME NEW d \in Daemon, Progress(d) PROVE Enqueued'
  <2>1. CASE EndDrain(d)
    <3>1. \A t \in Session : session'[t].queue = session[t].queue
      <4>1. SUFFICES ASSUME NEW t \in Session PROVE session'[t].queue = session[t].queue
        OBVIOUS
      <4>2. \/ session'[t] = session[t]
            \/ session'[t] = [session[t] EXCEPT !.state = "cleared"]
        BY <2>1 DEF EndDrain
      <4>3. QED
        BY <1>0, <4>2 DEF SessionType
    <3>2. QED
      BY <1>1, <2>1, <3>1 DEF EndDrain, CloseServer
  <2>2. CASE ~EndDrain(d)
    <3>1. UNCHANGED <<client, session>>
      BY <1>9, <2>2 DEF Progress, Probe, Remove, Bind, Unlock, EndClose, RemoveSock,
         RemoveLock, Leave, Daemon_
    <3>2. QED
      BY <1>1, <3>1
  <2>3. QED
    BY <2>1, <2>2
<1>10. CASE LockAges \/ UNCHANGED vars
  BY <1>1, <1>10 DEF LockAges, vars
<1>11. ASSUME NEW s \in Session, RunBreaks(s) PROVE session[s].at \in Daemon /\ Dies(session[s].at)
  BY <1>11, QueueAtDaemon DEF RunBreaks, Runs
<1>12. QED
  BY <1>2, <1>3, <1>4, <1>5, <1>6, <1>7, <1>8, <1>9, <1>10, <1>11
     DEF Next, Serve, ShutdownIdle, Signal, Crash

\* Every command that waits is attended: one that has sent its request, by a daemon
\* that will accept it or cut it off; one that was accepted, by a daemon that has not
\* left; one whose operation is queued or running, by a queue of that very daemon.
CommandsAttended ==
    \A c \in Client :
       /\ client[c] = "sent" => daemon[at[c]] \in Accepting
       /\ client[c] \in {"accepted", "queued", "running"} => daemon[at[c]] \in Open
       /\ client[c] \in {"queued", "running"} =>
             \E s \in Session : session[s].at = at[c] /\ Waiting(s, c)

\* No command is left with a daemon that is gone, or outside of every queue of one
\* that is not, whatever daemons start, take the endpoint from each other, drain,
\* leave or are killed in between: what CommandsEnd asks of the safety of the code.
THEOREM CommandsAreAttended == Spec => []CommandsAttended
<1>1. Init => WaitInv
  BY DEF Init, WaitInv, Connections, Fresh, Enqueued, Client, Session
<1>2. IInv /\ WaitInv /\ [Next]_vars => WaitInv'
  BY NextConnections, NextFresh, NextEnqueued DEF WaitInv
<1>3. IInv /\ WaitInv => CommandsAttended
  <2>1. SUFFICES ASSUME IInv, WaitInv, NEW c \in Client, client[c] \in {"queued", "running"}
                 PROVE  \E s \in Session : session[s].at = at[c] /\ Waiting(s, c)
    BY DEF WaitInv, Connections, CommandsAttended
  <2>2. PICK s \in Session : Waiting(s, c)
    BY <2>1 DEF WaitInv, Enqueued
  <2>3. session[s].at = at[c]
    BY <2>1, <2>2 DEF IInv, Queues, InQueue, Waiting
  <2>4. QED
    BY <2>2, <2>3
<1>4. QED
  BY <1>1, <1>2, <1>3, Invariance, PTL DEF Spec
=============================================================================
