------------------------------ MODULE StdioSession ------------------------------
(***************************************************************************)
(* The JSON-RPC session of the agent (class StdioJsonRpcSession): one      *)
(* client object, the goldeneye processes it starts one after another, and *)
(* the callers of its tools.                                               *)
(*                                                                         *)
(* Node runs one callback at a time and, before the next one, everything   *)
(* that the promises it settled lead to: that together is one action.  A   *)
(* line a process writes is read whole or in two parts, and the processes  *)
(* share the buffer in which parts are joined.                             *)
(***************************************************************************)
EXTENDS Naturals, FiniteSets, Sequences, SequencesExt

CONSTANTS MaxCall,   \* how many invocations callers make
          MaxCrash,  \* how many processes may die by themselves
          NoChild, Initialize, NoLine, Junk

ASSUME SessionAssumption ==
    /\ MaxCall \in Nat /\ MaxCrash \in Nat
    /\ Initialize \notin Nat /\ NoChild \notin Nat

Call == 1 .. MaxCall       \* invocations, in the order they are made
Child == 1 .. MaxCall      \* an invocation starts at most one process,
Id == 1 .. 2 * MaxCall     \* and sends at most two requests

VARIABLES
    child,          \* this.child
    initialized,    \* this.initialized: "none", "pending" or "done"
    starting,       \* calls that wait for it, in the order they came
    pending,        \* this.pending: [id, to, at], at the process written to
    nextRequestId,
    stdoutBuffer,   \* NoLine, the line whose head was read, or Junk
    closing,        \* the process that this.closePromise waits for
    call,           \* what each caller knows of its invocation
    host,           \* "down" after an error event nobody listens for
    proc,           \* the processes
    crashes,
    garbled         \* parts of different lines were joined

session == <<child, initialized, starting, pending, nextRequestId>>
buffer == <<stdoutBuffer, garbled>>
vars == <<session, buffer, closing, call, host, proc, crashes>>

Line == [id : Id, to : Call \cup {Initialize}]
Ended == {"answered", "mismatched", "failed", "lost"}

\* A process: its state as the client has heard of it ("dead" is still unheard),
\* the requests it has not taken, the line it wrote in part, the parts on their
\* way to the client, whether its input is ended.
NotStarted == [state |-> "none", stdin |-> <<>>, writing |-> NoLine,
               stdout |-> <<>>, eof |-> FALSE]

-----------------------------------------------------------------------------
\* A process that is gone without the client knowing it, or whose input is ended,
\* answers a write with an error event of stdin, which has no listener: the
\* client's own process ends.
Hopeless(k) == proc[k].state = "dead" \/ proc[k].eof

HostDown ==
    /\ host' = "down"
    /\ call' = [c \in Call |-> IF call[c] = "waiting" THEN "lost" ELSE call[c]]
    /\ child' = NoChild /\ initialized' = "none" /\ starting' = <<>>
    /\ pending' = {}
    /\ UNCHANGED <<nextRequestId, buffer, closing, proc, crashes>>

\* send: requests to process k, each with the next id.
Requests(to, k) ==
    [i \in DOMAIN to |-> [id |-> nextRequestId + i - 1, to |-> to[i], at |-> k]]

\* Mutant: a notification takes an id as well.
SentWithNote(to, k) ==
    /\ pending' = pending \cup ToSet(Requests(to, k))
    /\ nextRequestId' = nextRequestId + Len(to) + 1

Sent(to, k) ==
    /\ pending' = pending \cup ToSet(Requests(to, k))
    /\ nextRequestId' = nextRequestId + Len(to)

Written(to, k) == [proc[k] EXCEPT !.stdin = @ \o Requests(to, k)]

Rejected == {r.to : r \in pending}

Failed == [c \in Call |->
             IF \/ c \in Rejected
                \/ Initialize \in Rejected /\ c \in ToSet(starting)
             THEN "failed" ELSE call[c]]

Forgotten == child' = NoChild /\ initialized' = "none" /\ starting' = <<>>

\* Mutants: the ids start again with the next process; nothing is rejected; only
\* the calls whose own request was sent are rejected.
FailAndRestartIds ==
    Forgotten /\ pending' = {} /\ call' = Failed /\ nextRequestId' = 1

FailSilently == Forgotten /\ UNCHANGED <<pending, call, nextRequestId>>

FailSentOnly ==
    /\ Forgotten /\ pending' = {}
    /\ call' = [c \in Call |-> IF c \in Rejected THEN "failed" ELSE call[c]]
    /\ UNCHANGED nextRequestId

\* fail: an error, exit or close event forgets the process and rejects every
\* request, whichever process the event is about and the request was sent to.
Fail ==
    Forgotten /\ pending' = {} /\ call' = Failed /\ UNCHANGED nextRequestId

-----------------------------------------------------------------------------
\* invoke starts the process and the handshake if nobody has, waits for the
\* handshake, then sends the request.
Begin(c) ==
    /\ host = "up" /\ call[c] = "idle"
    /\ \A earlier \in 1 .. c - 1 : call[earlier] # "idle"
    /\ call' = [call EXCEPT ![c] = "waiting"]
    /\ UNCHANGED <<buffer, closing, host, crashes>>

NextChild == CHOOSE k \in Child : /\ proc[k].state = "none"
                                  /\ \A j \in 1 .. k - 1 : proc[j].state # "none"

InvokeFirst(c) ==
    LET k == IF child = NoChild THEN NextChild ELSE child
    IN /\ Begin(c) /\ initialized = "none"
       /\ ~Hopeless(k)
       /\ child' = k /\ initialized' = "pending" /\ starting' = <<c>>
       /\ Sent(<<Initialize>>, k)
       /\ proc' = [proc EXCEPT ![k] =
                     [Written(<<Initialize>>, k) EXCEPT !.state = "up"]]

InvokeWaits(c) ==
    /\ Begin(c) /\ initialized = "pending"
    /\ starting' = Append(starting, c)
    /\ UNCHANGED <<child, initialized, pending, nextRequestId, proc>>

InvokeSends(c) ==
    /\ Begin(c) /\ initialized = "done" /\ ~Hopeless(child)
    /\ Sent(<<c>>, child)
    /\ proc' = [proc EXCEPT ![child] = Written(<<c>>, child)]
    /\ UNCHANGED <<child, initialized, starting>>

InvokeBreaks ==
    /\ host = "up" /\ \E c \in Call : call[c] = "idle"
    /\ initialized # "pending" /\ child # NoChild /\ Hopeless(child)
    /\ HostDown

\* Mutant: close only waits.
CloseByWaiting ==
    /\ host = "up" /\ closing = NoChild /\ child # NoChild
    /\ closing' = child
    /\ UNCHANGED <<session, buffer, call, host, proc, crashes>>

\* close: end the input of the process and wait for its close event.  Later
\* calls return the same promise, and without a process there is nothing to do.
Close ==
    /\ host = "up" /\ closing = NoChild /\ child # NoChild
    /\ closing' = child
    /\ proc' = [proc EXCEPT ![child].eof = TRUE]
    /\ UNCHANGED <<session, buffer, call, host, crashes>>

-----------------------------------------------------------------------------
\* onLine: settle the request with this id, by a result or an error.  A handshake
\* that succeeds lets the calls that wait for it send theirs.
Settle(r, line) ==
    /\ r.to # Initialize
    /\ pending' = pending \ {r}
    /\ call' = [call EXCEPT ![r.to] =
                  IF line.to = r.to THEN "answered" ELSE "mismatched"]
    /\ UNCHANGED <<child, initialized, starting, nextRequestId, host>>

Refuse(r) ==
    /\ r.to = Initialize
    /\ initialized' = "none" /\ starting' = <<>> /\ pending' = pending \ {r}
    /\ call' = [c \in Call |->
                  IF c \in ToSet(starting) THEN "failed" ELSE call[c]]
    /\ UNCHANGED <<child, nextRequestId, host>>

Greet(r) ==
    /\ r.to = Initialize /\ ~Hopeless(child)
    /\ initialized' = "done" /\ starting' = <<>>
    /\ pending' = (pending \ {r}) \cup ToSet(Requests(starting, child))
    /\ nextRequestId' = nextRequestId + Len(starting)
    /\ UNCHANGED <<child, call, host>>

\* onStdout: join the next part of process k with what is in the buffer.
Part(k) == Head(proc[k].stdout)

Whole(k) == \/ Part(k).piece = "whole" /\ stdoutBuffer = NoLine
            \/ Part(k).piece = "tail" /\ stdoutBuffer = Part(k).line

Asked(k) == {r \in pending : Whole(k) /\ r.id = Part(k).line.id}

Read(k) ==
    /\ host = "up" /\ proc[k].stdout # <<>>
    /\ stdoutBuffer' = CASE Part(k).piece # "head" -> NoLine
                         [] stdoutBuffer = NoLine -> Part(k).line
                         [] OTHER -> Junk
    /\ garbled' = (garbled \/ (Part(k).piece # "head" /\ ~Whole(k)))
    /\ UNCHANGED <<closing, crashes>>

Unread(k) == [proc EXCEPT ![k].stdout = Tail(@)]

OnStdout(k) ==
    /\ Read(k) /\ proc' = Unread(k)
    /\ \/ Asked(k) = {} /\ UNCHANGED <<session, call, host>>
       \/ \E r \in Asked(k) : Settle(r, Part(k).line) \/ Refuse(r)

OnHandshake(k) ==
    /\ Read(k)
    /\ \E r \in Asked(k) : Greet(r)
    /\ proc' = [Unread(k) EXCEPT ![child].stdin = @ \o Requests(starting, child)]

OnHandshakeBreaks(k) ==
    /\ host = "up" /\ proc[k].stdout # <<>>
    /\ \E r \in Asked(k) : r.to = Initialize
    /\ Hopeless(child) /\ HostDown

\* The exit event, which comes before the last output is read, and the close
\* event, which comes after it.
Heard(k, state) ==
    /\ host = "up"
    /\ proc' = [proc EXCEPT ![k].state = state]
    /\ Fail
    /\ UNCHANGED <<buffer, closing, host, crashes>>

OnExit(k) == proc[k].state = "dead" /\ Heard(k, "exited")

OnClose(k) ==
    proc[k].state = "exited" /\ proc[k].stdout = <<>> /\ Heard(k, "closed")

-----------------------------------------------------------------------------
\* The goldeneye process answers its requests one after another, in one write or
\* in two, and leaves at the end of its input or by the client's kill.
Alone == UNCHANGED <<session, buffer, closing, call, host>>

Answer(k) ==
    LET line == [id |-> Head(proc[k].stdin).id, to |-> Head(proc[k].stdin).to]
    IN /\ proc[k].state = "up" /\ proc[k].writing = NoLine
       /\ proc[k].stdin # <<>>
       /\ \E piece \in {"whole", "head"} :
             proc' = [proc EXCEPT
                        ![k].stdin = Tail(@),
                        ![k].writing = IF piece = "head" THEN line ELSE NoLine,
                        ![k].stdout = Append(@, [piece |-> piece, line |-> line])]
       /\ Alone /\ UNCHANGED crashes

FinishLine(k) ==
    /\ proc[k].state = "up" /\ proc[k].writing # NoLine
    /\ proc' = [proc EXCEPT
                  ![k].writing = NoLine,
                  ![k].stdout = Append(@, [piece |-> "tail",
                                           line |-> proc[k].writing])]
    /\ Alone /\ UNCHANGED crashes

Leave(k) ==
    /\ proc[k].state = "up" /\ proc[k].eof
    /\ proc' = [proc EXCEPT ![k].state = "dead"]
    /\ Alone /\ UNCHANGED crashes

\* By itself: in the middle of a line, or before any.
Die(k) ==
    /\ proc[k].state = "up" /\ crashes < MaxCrash
    /\ crashes' = crashes + 1
    /\ proc' = [proc EXCEPT ![k].state = "dead"]
    /\ Alone

-----------------------------------------------------------------------------
Init ==
    /\ child = NoChild /\ initialized = "none" /\ starting = <<>>
    /\ pending = {} /\ nextRequestId = 1
    /\ stdoutBuffer = NoLine /\ garbled = FALSE /\ closing = NoChild
    /\ call = [c \in Call |-> "idle"] /\ host = "up"
    /\ proc = [k \in Child |-> NotStarted] /\ crashes = 0

Invoke == \/ \E c \in Call : InvokeFirst(c) \/ InvokeWaits(c) \/ InvokeSends(c)
          \/ InvokeBreaks

Event(k) == \/ OnStdout(k) \/ OnHandshake(k) \/ OnHandshakeBreaks(k)
            \/ OnExit(k) \/ OnClose(k)

Work(k) == Answer(k) \/ FinishLine(k) \/ Leave(k)

Next == Invoke \/ Close \/ \E k \in Child : Event(k) \/ Work(k) \/ Die(k)

Spec == Init /\ [][Next]_vars

\* The event loop takes up every event that stays due, and a process that is up
\* goes on with its requests.
FairSpec == Spec /\ \A k \in Child : WF_vars(Event(k)) /\ WF_vars(Work(k))

-----------------------------------------------------------------------------
\* Properties.

\* The type of the state: no more identifiers and processes than calls need.
TypeOK ==
    /\ child \in Child \cup {NoChild} /\ closing \in Child \cup {NoChild}
    /\ initialized \in {"none", "pending", "done"}
    /\ starting \in BoundedSeq(Call, MaxCall)
    /\ pending \subseteq [id : Id, to : Call \cup {Initialize}, at : Child]
    /\ nextRequestId \in 1 .. 2 * MaxCall + 1
    /\ stdoutBuffer \in Line \cup {NoLine, Junk} /\ garbled \in BOOLEAN
    /\ call \in [Call -> {"idle", "waiting"} \cup Ended]
    /\ host \in {"up", "down"} /\ crashes \in 0 .. MaxCrash
    /\ \A k \in Child :
         /\ proc[k].state \in {"none", "up", "dead", "exited", "closed"}
         /\ proc[k].writing \in Line \cup {NoLine}

\* A caller is answered with what a process said about its own request, although
\* output of an earlier process is still read after its exit.
AnswersMatch == \A c \in Call : call[c] # "mismatched"

\* Whoever waits, waits for a process the session will hear of: a request is
\* pending only at the present process, before its exit event, and a call waits
\* for its request or for the handshake.
NobodyWaitsInVain ==
    /\ \A r \in pending : r.at = child /\ proc[child].state \in {"up", "dead"}
    /\ \A c \in Call : call[c] = "waiting" =>
         c \in ToSet(starting) \/ \E r \in pending : r.to = c
    /\ starting # <<>> => \E r \in pending : r.to = Initialize

\* Every invocation ends, through any crash, unless parts of different lines were
\* joined: then an answer is dropped and nobody notices.
InvokeEnds ==
    \A c \in Call : call[c] = "waiting" ~> call[c] \in Ended \/ garbled

\* The promise of close is kept: the process it waits for comes to its end.
CloseEnds ==
    \A k \in Child :
       closing = k ~> proc[k].state = "closed" \/ host = "down"

\* The session has one process: one that it forgets is gone.
OneChild == Cardinality({k \in Child : proc[k].state = "up"}) <= 1
=============================================================================
