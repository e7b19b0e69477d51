------------------------ MODULE StdioSession_proofs ------------------------
(***************************************************************************)
(* What StdioSession guarantees for any number of invocations and of       *)
(* processes that die.                                                     *)
(*                                                                         *)
(* A request that is pending is one of the present process, because the    *)
(* session forgets its process and its requests together (Attended).       *)
(* Answers meet their requests by identifiers: whatever any process still  *)
(* holds of a request names the one caller that the identifier was given   *)
(* to (Unique), so output read late does no harm.  The type of the state   *)
(* also bounds the identifiers, which takes a count of what the            *)
(* invocations that have begun can have sent (Budget).                     *)
(***************************************************************************)
EXTENDS StdioSession, TLAPS, SequenceTheorems

Addressee == Call \cup {Initialize}
LineType == [id : Nat \ {0}, to : Addressee]
Request == [id : Nat \ {0}, to : Addressee, at : Child]
Piece == [piece : {"whole", "head", "tail"}, line : LineType]
Process == [state : {"none", "up", "dead", "exited", "closed"},
            stdin : Seq(Request), writing : LineType \cup {NoLine},
            stdout : Seq(Piece), eof : BOOLEAN]

Types ==
    /\ child \in Child \cup {NoChild} /\ closing \in Child \cup {NoChild}
    /\ initialized \in {"none", "pending", "done"}
    /\ starting \in Seq(Call)
    /\ pending \in SUBSET Request
    /\ nextRequestId \in Nat \ {0}
    /\ call \in [Call -> {"idle", "waiting"} \cup Ended]
    /\ proc \in [Child -> Process]

\* Calls and processes begin in order, and a process by its own call at the latest.
Order ==
    /\ \A c \in Call : call[c] # "idle" => \A b \in 1 .. c - 1 : call[b] # "idle"
    /\ \E n \in 0 .. MaxCall : \A k \in Child : proc[k].state # "none" <=> k <= n
    /\ \A k \in Child : proc[k].state # "none" => call[k] # "idle"
    /\ \A c \in ToSet(starting) : call[c] # "idle"
    /\ \A r \in pending : r.to \in Call => call[r.to] # "idle"

Attended ==
    /\ child # NoChild => proc[child].state \in {"up", "dead"}
    /\ \A r \in pending : r.at = child
    /\ initialized # "none" => child # NoChild
    /\ IF initialized = "pending" THEN \E r \in pending : r.to = Initialize
                                  ELSE starting = <<>>
    /\ \A c \in Call : call[c] = "waiting" =>
         c \in ToSet(starting) \/ \E r \in pending : r.to = c

\* Process k holds request or answer i, which is for x.
Holds(k, i, x) ==
    \/ \E j \in 1 .. Len(proc[k].stdin) :
          proc[k].stdin[j].id = i /\ proc[k].stdin[j].to = x
    \/ proc[k].writing # NoLine /\ proc[k].writing.id = i /\ proc[k].writing.to = x
    \/ \E j \in 1 .. Len(proc[k].stdout) :
          proc[k].stdout[j].line.id = i /\ proc[k].stdout[j].line.to = x

Said(i, x) == \/ \E r \in pending : r.id = i /\ r.to = x
              \/ \E k \in Child : Holds(k, i, x)

Unique ==
    \A i \in Nat, x, y \in Addressee :
       Said(i, x) => i < nextRequestId /\ (Said(i, y) => x = y)

IInv == Types /\ Order /\ Attended /\ Unique /\ AnswersMatch

-----------------------------------------------------------------------------
(* The values.                                                             *)

LEMMA Elements ==
    ASSUME NEW S, NEW s \in Seq(S), NEW x
    PROVE  x \in ToSet(s) <=> \E i \in 1 .. Len(s) : s[i] = x
BY LenProperties DEF ToSet

LEMMA ProcFields ==
    ASSUME Types, NEW k \in Child
    PROVE  /\ proc[k] \in Process
           /\ proc[k].state \in {"none", "up", "dead", "exited", "closed"}
           /\ proc[k].stdin \in Seq(Request) /\ Len(proc[k].stdin) \in Nat
           /\ proc[k].writing \in LineType \cup {NoLine}
           /\ proc[k].stdout \in Seq(Piece) /\ Len(proc[k].stdout) \in Nat
           /\ proc[k].eof \in BOOLEAN
<1>1. proc[k] \in Process
  BY DEF Types
<1>2. proc[k].stdin \in Seq(Request) /\ proc[k].stdout \in Seq(Piece)
  BY <1>1 DEF Process
<1>3. Len(proc[k].stdin) \in Nat /\ Len(proc[k].stdout) \in Nat
  BY <1>2, LenProperties
<1>4. QED
  BY <1>1, <1>2, <1>3 DEF Process

LEMMA RequestsFacts ==
    ASSUME Types, NEW to \in Seq(Addressee), NEW k \in Child
    PROVE  /\ Requests(to, k) \in Seq(Request)
           /\ Len(Requests(to, k)) = Len(to)
           /\ \A i \in 1 .. Len(to) :
                Requests(to, k)[i] = [id |-> nextRequestId + i - 1, to |-> to[i], at |-> k]
           /\ \A r : r \in ToSet(Requests(to, k)) <=>
                \E i \in 1 .. Len(to) :
                   r = [id |-> nextRequestId + i - 1, to |-> to[i], at |-> k]
<1> DEFINE R == Requests(to, k)
           n == Len(to)
<1>1. n \in Nat /\ DOMAIN to = 1 .. n /\ \A i \in 1 .. n : to[i] \in Addressee
  BY LenProperties
<1>2. R = [i \in 1 .. n |-> [id |-> nextRequestId + i - 1, to |-> to[i], at |-> k]]
  BY <1>1 DEF Requests
<1>3. \A i \in 1 .. n :
         [id |-> nextRequestId + i - 1, to |-> to[i], at |-> k] \in Request
  <2>1. TAKE i \in 1 .. n
  <2>2. nextRequestId + i - 1 \in Nat \ {0}
    BY <1>1 DEF Types
  <2>3. QED
    BY <1>1, <2>2 DEF Request
<1>4. R \in [1 .. n -> Request]
  BY <1>2, <1>3
<1>5. R \in Seq(Request) /\ Len(R) = n
  <2> HIDE DEF R
  <2>1. R \in Seq(Request)
    BY <1>1, <1>4, SeqDef
  <2>2. DOMAIN R = 1 .. n /\ DOMAIN R = 1 .. Len(R) /\ Len(R) \in Nat
    BY <1>4, <2>1, LenProperties
  <2>3. QED
    BY <1>1, <2>1, <2>2
<1>6. \A r : r \in ToSet(R) <=> \E i \in 1 .. n : R[i] = r
  BY <1>5, Elements
<1>7. QED
  BY <1>2, <1>5, <1>6

LEMMA PartFacts ==
    ASSUME Types, NEW k \in Child, proc[k].stdout # <<>>
    PROVE  /\ Part(k) \in Piece /\ Part(k).line \in LineType
           /\ Tail(proc[k].stdout) \in Seq(Piece)
           /\ Len(proc[k].stdout) \in Nat \ {0}
           /\ Part(k) = proc[k].stdout[1]
           /\ Len(Tail(proc[k].stdout)) = Len(proc[k].stdout) - 1
           /\ \A i \in 1 .. Len(Tail(proc[k].stdout)) :
                 i + 1 \in 1 .. Len(proc[k].stdout)
                 /\ Tail(proc[k].stdout)[i] = proc[k].stdout[i + 1]
<1>1. proc[k].stdout \in Seq(Piece)
  BY ProcFields
<1>2. /\ Head(proc[k].stdout) \in Piece
      /\ Tail(proc[k].stdout) \in Seq(Piece)
      /\ Len(proc[k].stdout) \in Nat \ {0}
      /\ Head(proc[k].stdout) = proc[k].stdout[1]
      /\ Len(Tail(proc[k].stdout)) = Len(proc[k].stdout) - 1
      /\ \A i \in 1 .. Len(Tail(proc[k].stdout)) :
            Tail(proc[k].stdout)[i] = proc[k].stdout[i + 1]
  BY <1>1, HeadTailProperties, EmptySeq, LenProperties
<1>3. QED
  BY <1>2 DEF Part, Piece

-----------------------------------------------------------------------------
(* Frames.                                                                 *)

LEMMA Starters ==
    ASSUME Types
    PROVE  ToSet(starting) \subseteq Call
BY LenProperties DEF Types, ToSet

LEMMA OrderKept ==
    ASSUME Order,
           \A c \in Call : call'[c] = "idle" <=> call[c] = "idle",
           \A k \in Child : proc'[k].state = "none" <=> proc[k].state = "none",
           ToSet(starting)' \subseteq ToSet(starting), ToSet(starting) \subseteq Call,
           \A r \in pending' : r \in pending \/ r.to \in ToSet(starting)
    PROVE  Order'
<1>1. \A c \in Call : \A b \in 1 .. c - 1 : b \in Call
  BY SessionAssumption DEF Call
<1>2. \A c \in Call : call'[c] # "idle" => \A b \in 1 .. c - 1 : call'[b] # "idle"
  BY <1>1 DEF Order
<1>3. \E n \in 0 .. MaxCall : \A k \in Child : proc'[k].state # "none" <=> k <= n
  BY DEF Order
<1>4. \A k \in Child : proc'[k].state # "none" => call'[k] # "idle"
  BY DEF Order, Call, Child
<1>5. \A c \in ToSet(starting)' : call'[c] # "idle"
  BY DEF Order
<1>6. \A r \in pending' : r.to \in Call => call'[r.to] # "idle"
  BY DEF Order
<1>7. QED
  BY <1>2, <1>3, <1>4, <1>5, <1>6 DEF Order

\* Nothing that a process or the session holds is new but the requests sent.
LEMMA UniqueKept ==
    ASSUME Types, Unique, NEW to \in Seq(Addressee),
           nextRequestId' = nextRequestId + Len(to),
           \A i \in Nat, x \in Addressee : Said(i, x)' =>
              \/ Said(i, x)
              \/ \E j \in 1 .. Len(to) : i = nextRequestId + j - 1 /\ x = to[j]
    PROVE  Unique'
<1>1. Len(to) \in Nat /\ nextRequestId \in Nat
  BY LenProperties DEF Types
<1>2. SUFFICES ASSUME NEW i \in Nat, NEW x \in Addressee, NEW y \in Addressee,
                      Said(i, x)'
               PROVE  i < nextRequestId' /\ (Said(i, y)' => x = y)
  BY DEF Unique
<1>3. Said(i, x) \/ \E j \in 1 .. Len(to) : i = nextRequestId + j - 1 /\ x = to[j]
  BY <1>2
<1>4. Said(i, y)' =>
         Said(i, y) \/ \E j \in 1 .. Len(to) : i = nextRequestId + j - 1 /\ y = to[j]
  OBVIOUS
<1>5. \A z \in Addressee : Said(i, z) => i < nextRequestId
  BY DEF Unique
<1>6. Said(i, x) /\ Said(i, y) => x = y
  BY DEF Unique
<1>7. QED
  BY <1>1, <1>3, <1>4, <1>5, <1>6

LEMMA HoldsLess ==
    ASSUME Types, NEW j \in Child, NEW to \in Seq(Addressee), NEW m \in Child,
           \/ proc'[j].stdin = proc[j].stdin
           \/ proc'[j].stdin = proc[j].stdin \o Requests(to, m),
           proc'[j].writing = proc[j].writing,
           \/ proc'[j].stdout = proc[j].stdout
           \/ proc[j].stdout # <<>> /\ proc'[j].stdout = Tail(proc[j].stdout),
           NEW i, NEW x, Holds(j, i, x)'
    PROVE  Holds(j, i, x) \/ \E n \in 1 .. Len(to) : i = nextRequestId + n - 1 /\ x = to[n]
<1>1. CASE \E n \in 1 .. Len(proc'[j].stdin) :
              proc'[j].stdin[n].id = i /\ proc'[j].stdin[n].to = x
  <2>1. CASE proc'[j].stdin = proc[j].stdin
    BY <1>1, <2>1 DEF Holds
  <2>2. CASE proc'[j].stdin = proc[j].stdin \o Requests(to, m)
    <3> DEFINE s == proc[j].stdin
               R == Requests(to, m)
    <3>1. s \in Seq(Request) /\ Len(s) \in Nat
      BY ProcFields
    <3>2. R \in Seq(Request) /\ Len(R) = Len(to) /\ Len(to) \in Nat
      BY RequestsFacts, LenProperties
    <3>3. \A n \in 1 .. Len(to) : R[n].id = nextRequestId + n - 1 /\ R[n].to = to[n]
      <4>1. \A n \in 1 .. Len(to) :
               R[n] = [id |-> nextRequestId + n - 1, to |-> to[n], at |-> m]
        BY RequestsFacts
      <4>2. ASSUME NEW n \in 1 .. Len(to), NEW r, r = [id |-> nextRequestId + n - 1, to |-> to[n], at |-> m]
            PROVE  r.id = nextRequestId + n - 1 /\ r.to = to[n]
        BY <4>2
      <4> HIDE DEF R
      <4>3. QED
        BY <4>1, <4>2
    <3> HIDE DEF s, R
    <3>4. /\ Len(s \o R) = Len(s) + Len(R)
          /\ \A n \in 1 .. Len(s) + Len(R) :
                (s \o R)[n] = IF n <= Len(s) THEN s[n] ELSE R[n - Len(s)]
      <4>1. s \o R \in Seq(Request) /\ Len(s \o R) = Len(s) + Len(R)
        BY <3>1, <3>2, ConcatProperties
      <4>2. \A n \in 1 .. Len(s) + Len(R) :
               (s \o R)[n] = IF n <= Len(s) THEN s[n] ELSE R[n - Len(s)]
        BY <3>1, <3>2
      <4>3. QED
        BY <4>1, <4>2
    <3>5. PICK n \in 1 .. Len(s) + Len(R) : (s \o R)[n].id = i /\ (s \o R)[n].to = x
      BY <1>1, <2>2, <3>4 DEF s, R
    <3>6. CASE n <= Len(s)
      <4>1. n \in 1 .. Len(s) /\ s[n].id = i /\ s[n].to = x
        BY <3>1, <3>2, <3>4, <3>5, <3>6
      <4>2. QED
        BY <4>1 DEF s, Holds
    <3>7. CASE ~(n <= Len(s))
      <4>1. n - Len(s) \in 1 .. Len(to) /\ R[n - Len(s)].id = i /\ R[n - Len(s)].to = x
        BY <3>1, <3>2, <3>4, <3>5, <3>7
      <4>2. QED
        BY <3>3, <4>1
    <3>8. QED
      BY <3>6, <3>7
  <2>3. QED
    BY <2>1, <2>2
<1>2. CASE proc'[j].writing # NoLine /\ proc'[j].writing.id = i /\ proc'[j].writing.to = x
  BY <1>2 DEF Holds
<1>3. CASE \E n \in 1 .. Len(proc'[j].stdout) :
              proc'[j].stdout[n].line.id = i /\ proc'[j].stdout[n].line.to = x
  <2>1. CASE proc'[j].stdout = proc[j].stdout
    BY <1>3, <2>1 DEF Holds
  <2>2. CASE proc[j].stdout # <<>> /\ proc'[j].stdout = Tail(proc[j].stdout)
    <3>1. PICK n \in 1 .. Len(Tail(proc[j].stdout)) :
             Tail(proc[j].stdout)[n].line.id = i /\ Tail(proc[j].stdout)[n].line.to = x
      BY <1>3, <2>2
    <3>2. /\ n + 1 \in 1 .. Len(proc[j].stdout)
          /\ Tail(proc[j].stdout)[n] = proc[j].stdout[n + 1]
      BY <2>2, PartFacts
    <3>3. QED
      BY <3>1, <3>2 DEF Holds
  <2>3. QED
    BY <2>1, <2>2
<1>4. QED
  BY <1>1, <1>2, <1>3 DEF Holds

\* What the processes and the session hold of requests after a step.
LEMMA UniqueSent ==
    ASSUME Types, Unique, NEW to \in Seq(Addressee), NEW m \in Child,
           nextRequestId' = nextRequestId + Len(to),
           pending' \subseteq pending \cup ToSet(Requests(to, m)),
           \A j \in Child :
              /\ \/ proc'[j].stdin = proc[j].stdin
                 \/ proc'[j].stdin = proc[j].stdin \o Requests(to, m)
              /\ proc'[j].writing = proc[j].writing
              /\ \/ proc'[j].stdout = proc[j].stdout
                 \/ proc[j].stdout # <<>> /\ proc'[j].stdout = Tail(proc[j].stdout)
    PROVE  Unique'
<1>1. SUFFICES ASSUME NEW i \in Nat, NEW x \in Addressee, Said(i, x)'
               PROVE  \/ Said(i, x)
                      \/ \E n \in 1 .. Len(to) : i = nextRequestId + n - 1 /\ x = to[n]
  BY UniqueKept
<1>2. CASE \E r \in pending' : r.id = i /\ r.to = x
  <2>1. PICK r \in pending' : r.id = i /\ r.to = x
    BY <1>2
  <2>2. CASE r \in pending
    BY <2>1, <2>2 DEF Said
  <2>3. CASE r \in ToSet(Requests(to, m))
    BY <2>1, <2>3, RequestsFacts
  <2>4. QED
    BY <2>2, <2>3
<1>3. CASE \E k \in Child : Holds(k, i, x)'
  <2>1. PICK k \in Child : Holds(k, i, x)'
    BY <1>3
  <2>2. Holds(k, i, x) \/ \E n \in 1 .. Len(to) : i = nextRequestId + n - 1 /\ x = to[n]
    BY <2>1, HoldsLess
  <2>3. QED
    BY <2>2 DEF Said
<1>4. QED
  BY <1>1, <1>2, <1>3 DEF Said

LEMMA UniqueSilent ==
    ASSUME Types, Unique, nextRequestId' = nextRequestId,
           pending' \subseteq pending,
           \A j \in Child :
              /\ proc'[j].stdin = proc[j].stdin
              /\ proc'[j].writing = proc[j].writing
              /\ \/ proc'[j].stdout = proc[j].stdout
                 \/ proc[j].stdout # <<>> /\ proc'[j].stdout = Tail(proc[j].stdout)
    PROVE  Unique'
<1>1. <<>> \in Seq(Addressee) /\ Len(<<>>) = 0
  BY EmptySeq
<1>2. nextRequestId' = nextRequestId + Len(<<>>)
  BY <1>1 DEF Types
<1>3. CASE Child = {}
  BY <1>3 DEF Unique, Said
<1>4. CASE Child # {}
  BY <1>1, <1>2, <1>4, UniqueSent
<1>5. QED
  BY <1>3, <1>4

-----------------------------------------------------------------------------
(* The processes.                                                          *)

LEMMA AttendedQuiet ==
    ASSUME Types, Attended, UNCHANGED session, UNCHANGED call,
           \A k \in Child : proc[k].state \in {"up", "dead"} =>
                               proc'[k].state \in {"up", "dead"}
    PROVE  Attended'
BY DEF Types, Attended, session

LEMMA ProcessStep ==
    ASSUME IInv, Alone, NEW k \in Child, NEW q \in Process,
           proc' = [proc EXCEPT ![k] = q],
           proc[k].state = "up", q.state \in {"up", "dead"},
           \A i \in Nat, x \in Addressee : Holds(k, i, x)' => Holds(k, i, x)
    PROVE  IInv'
<1> USE DEF IInv
<1>1. Types'
  BY DEF Types, Alone, session
<1>2. \A j \in Child : proc'[j] = IF j = k THEN q ELSE proc[j]
  BY DEF Types
<1>3. Order'
  <2>1. \A c \in Call : call'[c] = "idle" <=> call[c] = "idle"
    BY DEF Alone
  <2>2. \A j \in Child : proc'[j].state = "none" <=> proc[j].state = "none"
    BY <1>2
  <2>3. QED
    BY <2>1, <2>2, OrderKept, Starters DEF Alone, session
<1>4. Attended'
  BY <1>2, AttendedQuiet DEF Alone
<1>5. \A i \in Nat, x \in Addressee : Said(i, x)' => Said(i, x)
  <2>1. TAKE i \in Nat, x \in Addressee
  <2>2. \A j \in Child : Holds(j, i, x)' => Holds(j, i, x)
    <3>1. \A j \in Child \ {k} : Holds(j, i, x)' => Holds(j, i, x)
      BY <1>2 DEF Holds
    <3>2. QED
      BY <3>1
  <2>3. QED
    BY <2>2 DEF Said, Alone, session
<1>6. Unique'
  BY <1>5 DEF Unique, Alone, session
<1>7. AnswersMatch'
  BY DEF AnswersMatch, Alone
<1>8. QED
  BY <1>1, <1>3, <1>4, <1>6, <1>7

LEMMA AnswerKeeps ==
    ASSUME IInv, NEW k \in Child, Answer(k)
    PROVE  IInv'
<1> DEFINE s == proc[k].stdin
           line == [id |-> Head(s).id, to |-> Head(s).to]
<1>1. proc[k].state = "up" /\ proc[k].writing = NoLine /\ s # <<>>
  BY DEF Answer
<1>2. PICK piece \in {"whole", "head"} :
         proc' = [proc EXCEPT
                    ![k].stdin = Tail(@),
                    ![k].writing = IF piece = "head" THEN line ELSE NoLine,
                    ![k].stdout = Append(@, [piece |-> piece, line |-> line])]
  BY DEF Answer
<1> DEFINE part == [piece |-> piece, line |-> line]
           w == IF piece = "head" THEN line ELSE NoLine
           q == [proc[k] EXCEPT !.stdin = Tail(s), !.writing = w,
                                !.stdout = Append(proc[k].stdout, part)]
<1>3. proc' = [proc EXCEPT ![k] = q]
  BY <1>2 DEF IInv, Types
<1>4. /\ proc[k] \in Process /\ s \in Seq(Request) /\ Len(s) \in Nat
      /\ proc[k].stdout \in Seq(Piece) /\ Len(proc[k].stdout) \in Nat
  BY ProcFields DEF IInv
<1>5. /\ Head(s) \in Request /\ Head(s) = s[1] /\ Tail(s) \in Seq(Request)
      /\ Len(s) \in Nat \ {0} /\ Len(Tail(s)) = Len(s) - 1
      /\ \A n \in 1 .. Len(Tail(s)) : Tail(s)[n] = s[n + 1]
  BY <1>1, <1>4, HeadTailProperties, EmptySeq
<1>6. line \in LineType /\ line.id = s[1].id /\ line.to = s[1].to
  BY <1>5 DEF LineType, Request
<1>7. part \in Piece /\ part.line = line /\ w \in LineType \cup {NoLine}
  BY <1>6 DEF Piece
<1> HIDE DEF line, part, w
<1>8. /\ Append(proc[k].stdout, part) \in Seq(Piece)
      /\ Len(Append(proc[k].stdout, part)) = Len(proc[k].stdout) + 1
      /\ \A n \in 1 .. Len(proc[k].stdout) :
            Append(proc[k].stdout, part)[n] = proc[k].stdout[n]
      /\ Append(proc[k].stdout, part)[Len(proc[k].stdout) + 1] = part
  BY <1>4, <1>7, AppendProperties
<1>9. /\ q \in Process /\ q.state = "up" /\ q.stdin = Tail(s) /\ q.writing = w
      /\ q.stdout = Append(proc[k].stdout, part)
  BY <1>1, <1>4, <1>5, <1>7, <1>8 DEF Process
<1> HIDE DEF q
<1>10. proc'[k] = q
  BY <1>3 DEF IInv, Types
<1>11. ASSUME NEW i \in Nat, NEW x \in Addressee, Holds(k, i, x)'
       PROVE  Holds(k, i, x)
  <2>1. CASE \E n \in 1 .. Len(q.stdin) : q.stdin[n].id = i /\ q.stdin[n].to = x
    <3>1. PICK n \in 1 .. Len(Tail(s)) : Tail(s)[n].id = i /\ Tail(s)[n].to = x
      BY <1>9, <2>1
    <3>2. n + 1 \in 1 .. Len(s) /\ s[n + 1].id = i /\ s[n + 1].to = x
      BY <1>5, <3>1
    <3>3. QED
      BY <3>2 DEF Holds
  <2>2. CASE line.id = i /\ line.to = x
    <3>1. 1 \in 1 .. Len(s) /\ s[1].id = i /\ s[1].to = x
      BY <1>5, <1>6, <2>2
    <3>2. QED
      BY <3>1 DEF Holds
  <2>3. CASE \E n \in 1 .. Len(q.stdout) : q.stdout[n].line.id = i /\ q.stdout[n].line.to = x
    <3>1. PICK n \in 1 .. Len(proc[k].stdout) + 1 :
             q.stdout[n].line.id = i /\ q.stdout[n].line.to = x
      BY <1>8, <1>9, <2>3
    <3>2. CASE n \in 1 .. Len(proc[k].stdout)
      BY <1>8, <1>9, <3>1, <3>2 DEF Holds
    <3>3. CASE n = Len(proc[k].stdout) + 1
      BY <1>7, <1>8, <1>9, <2>2, <3>1, <3>3
    <3>4. QED
      BY <1>4, <3>2, <3>3
  <2>4. q.writing # NoLine => q.writing = line
    BY <1>9 DEF w
  <2>5. QED
    BY <1>10, <1>11, <2>1, <2>2, <2>3, <2>4 DEF Holds
<1>12. Alone
  BY DEF Answer
<1>13. QED
  BY <1>1, <1>3, <1>9, <1>11, <1>12, ProcessStep

LEMMA FinishLineKeeps ==
    ASSUME IInv, NEW k \in Child, FinishLine(k)
    PROVE  IInv'
<1> DEFINE line == proc[k].writing
           part == [piece |-> "tail", line |-> line]
           q == [proc[k] EXCEPT !.writing = NoLine, !.stdout = Append(proc[k].stdout, part)]
<1>1. proc[k].state = "up" /\ line # NoLine
  BY DEF FinishLine
<1>2. proc' = [proc EXCEPT ![k] = q]
  BY DEF FinishLine, IInv, Types
<1>3. /\ proc[k] \in Process /\ line \in LineType
      /\ proc[k].stdout \in Seq(Piece) /\ Len(proc[k].stdout) \in Nat
  BY <1>1, ProcFields DEF IInv
<1>4. part \in Piece /\ part.line = line
  BY <1>3 DEF Piece
<1> HIDE DEF part
<1>5. /\ Append(proc[k].stdout, part) \in Seq(Piece)
      /\ Len(Append(proc[k].stdout, part)) = Len(proc[k].stdout) + 1
      /\ \A n \in 1 .. Len(proc[k].stdout) :
            Append(proc[k].stdout, part)[n] = proc[k].stdout[n]
      /\ Append(proc[k].stdout, part)[Len(proc[k].stdout) + 1] = part
  BY <1>3, <1>4, AppendProperties
<1>6. /\ q \in Process /\ q.state = "up" /\ q.stdin = proc[k].stdin /\ q.writing = NoLine
      /\ q.stdout = Append(proc[k].stdout, part)
  BY <1>1, <1>3, <1>5 DEF Process
<1> HIDE DEF q
<1>7. proc'[k] = q
  BY <1>2 DEF IInv, Types
<1>8. ASSUME NEW i \in Nat, NEW x \in Addressee, Holds(k, i, x)'
      PROVE  Holds(k, i, x)
  <2>1. CASE \E n \in 1 .. Len(q.stdout) : q.stdout[n].line.id = i /\ q.stdout[n].line.to = x
    <3>1. PICK n \in 1 .. Len(proc[k].stdout) + 1 :
             q.stdout[n].line.id = i /\ q.stdout[n].line.to = x
      BY <1>5, <1>6, <2>1
    <3>2. CASE n \in 1 .. Len(proc[k].stdout)
      BY <1>5, <1>6, <3>1, <3>2 DEF Holds
    <3>3. CASE n = Len(proc[k].stdout) + 1
      BY <1>1, <1>4, <1>5, <1>6, <3>1, <3>3 DEF Holds
    <3>4. QED
      BY <1>3, <3>2, <3>3
  <2>2. QED
    BY <1>6, <1>7, <1>8, <2>1 DEF Holds
<1>9. Alone
  BY DEF FinishLine
<1>10. QED
  BY <1>1, <1>2, <1>6, <1>8, <1>9, ProcessStep

LEMMA EndKeeps ==
    ASSUME IInv, NEW k \in Child, Leave(k) \/ Die(k)
    PROVE  IInv'
<1> DEFINE q == [proc[k] EXCEPT !.state = "dead"]
<1>1. proc[k].state = "up" /\ Alone /\ proc' = [proc EXCEPT ![k] = q]
  BY DEF Leave, Die, IInv, Types
<1>2. proc[k] \in Process
  BY ProcFields DEF IInv
<1>3. /\ q \in Process /\ q.state = "dead" /\ q.stdin = proc[k].stdin
      /\ q.writing = proc[k].writing /\ q.stdout = proc[k].stdout
  BY <1>2 DEF Process
<1> HIDE DEF q
<1>4. proc'[k] = q
  BY <1>1 DEF IInv, Types
<1>5. \A i \in Nat, x \in Addressee : Holds(k, i, x)' => Holds(k, i, x)
  BY <1>3, <1>4 DEF Holds
<1>6. QED
  BY <1>1, <1>3, <1>5, ProcessStep


-----------------------------------------------------------------------------
(* The session forgets its process.                                        *)

LEMMA NobodyStarts ==
    ASSUME NEW x
    PROVE  x \notin ToSet(<<>>) /\ <<>> \in Seq(Call)
<1>1. <<>> \in Seq(Call) /\ Len(<<>>) = 0
  BY EmptySeq
<1>2. ~ \E i \in 1 .. Len(<<>>) : <<>>[i] = x
  BY <1>1
<1>3. QED
  BY <1>1, <1>2, Elements

LEMMA ForgottenKeeps ==
    ASSUME IInv, Forgotten, pending' = {}, UNCHANGED <<nextRequestId, closing>>,
           call' \in [Call -> {"idle", "waiting"} \cup Ended],
           \A c \in Call : call'[c] = call[c] \/ (call[c] # "idle" /\ call'[c] \in {"failed", "lost"}),
           \A c \in Call : call'[c] # "waiting",
           proc' \in [Child -> Process],
           \A k \in Child :
              /\ proc'[k].state = "none" <=> proc[k].state = "none"
              /\ proc'[k].stdin = proc[k].stdin /\ proc'[k].writing = proc[k].writing
              /\ proc'[k].stdout = proc[k].stdout
    PROVE  IInv'
<1>1. Types'
  BY NobodyStarts DEF IInv, Types, Forgotten
<1>2. Order'
  <2>1. \A c \in Call : call'[c] = "idle" <=> call[c] = "idle"
    OBVIOUS
  <2>2. ToSet(starting)' = {}
    BY NobodyStarts DEF Forgotten
  <2>3. QED
    BY <2>1, <2>2, OrderKept, Starters DEF IInv
<1>3. Attended'
  BY DEF Attended, Forgotten
<1>4. Unique'
  BY UniqueSilent DEF IInv
<1>5. AnswersMatch'
  BY DEF IInv, AnswersMatch
<1>6. QED
  BY <1>1, <1>2, <1>3, <1>4, <1>5 DEF IInv

LEMMA HostDownKeeps ==
    ASSUME IInv, HostDown
    PROVE  IInv'
<1>1. Forgotten /\ pending' = {} /\ UNCHANGED <<nextRequestId, closing, proc>>
  BY DEF HostDown, Forgotten
<1>2. call' = [c \in Call |-> IF call[c] = "waiting" THEN "lost" ELSE call[c]]
  BY DEF HostDown
<1>3. call \in [Call -> {"idle", "waiting"} \cup Ended]
  BY DEF IInv, Types
<1>4. /\ call' \in [Call -> {"idle", "waiting"} \cup Ended]
      /\ \A c \in Call : call'[c] = call[c] \/ (call[c] # "idle" /\ call'[c] \in {"failed", "lost"})
      /\ \A c \in Call : call'[c] # "waiting"
  <2>1. \A c \in Call : call'[c] = IF call[c] = "waiting" THEN "lost" ELSE call[c]
    BY <1>2
  <2>2. call' \in [Call -> {"idle", "waiting"} \cup Ended]
    BY <1>2, <1>3 DEF Ended
  <2>3. QED
    BY <2>1, <2>2
<1>5. proc' \in [Child -> Process]
  BY <1>1 DEF IInv, Types
<1>6. QED
  BY <1>1, <1>4, <1>5, ForgottenKeeps

LEMMA HeardKeeps ==
    ASSUME IInv, NEW k \in Child, NEW state \in {"exited", "closed"}, Heard(k, state),
           proc[k].state # "none"
    PROVE  IInv'
<1> DEFINE q == [proc[k] EXCEPT !.state = state]
<1>1. /\ Forgotten /\ pending' = {} /\ UNCHANGED <<nextRequestId, closing>>
      /\ call' = Failed /\ proc' = [proc EXCEPT ![k] = q]
  BY DEF Heard, Fail, Forgotten, IInv, Types
<1>2. proc[k] \in Process /\ call \in [Call -> {"idle", "waiting"} \cup Ended]
  BY ProcFields DEF IInv, Types
<1>3. /\ q \in Process /\ q.state = state /\ q.stdin = proc[k].stdin
      /\ q.writing = proc[k].writing /\ q.stdout = proc[k].stdout
  BY <1>2 DEF Process
<1> HIDE DEF q
<1>4. proc' \in [Child -> Process] /\ \A j \in Child : proc'[j] = IF j = k THEN q ELSE proc[j]
  BY <1>1, <1>3 DEF IInv, Types
<1>5. call' \in [Call -> {"idle", "waiting"} \cup Ended]
  BY <1>1, <1>2 DEF Failed, Ended
<1>6. ASSUME NEW c \in Call
      PROVE  /\ call'[c] = call[c] \/ (call[c] # "idle" /\ call'[c] = "failed")
             /\ call'[c] # "waiting"
  <2>1. \/ call'[c] = "failed" /\ (c \in Rejected \/ c \in ToSet(starting))
        \/ /\ call'[c] = call[c] /\ c \notin Rejected
           /\ Initialize \notin Rejected \/ c \notin ToSet(starting)
    BY <1>1 DEF Failed
  <2>2. c \in Rejected \/ c \in ToSet(starting) => call[c] # "idle"
    BY DEF Rejected, IInv, Order
  <2>3. c \in ToSet(starting) => Initialize \in Rejected
    <3>1. starting = <<>> => c \notin ToSet(starting)
      BY NobodyStarts
    <3>2. starting = <<>> \/ \E r \in pending : r.to = Initialize
      BY DEF IInv, Attended
    <3>3. QED
      BY <3>1, <3>2 DEF Rejected
  <2>4. call[c] = "waiting" => c \in ToSet(starting) \/ c \in Rejected
    BY DEF Rejected, IInv, Attended
  <2>5. QED
    BY <2>1, <2>2, <2>3, <2>4
<1>7. \A j \in Child :
         /\ proc'[j].state = "none" <=> proc[j].state = "none"
         /\ proc'[j].stdin = proc[j].stdin /\ proc'[j].writing = proc[j].writing
         /\ proc'[j].stdout = proc[j].stdout
  BY <1>3, <1>4
<1>8. QED
  BY <1>1, <1>4, <1>5, <1>6, <1>7, ForgottenKeeps

LEMMA CloseKeeps ==
    ASSUME IInv, Close
    PROVE  IInv'
<1> DEFINE q == [proc[child] EXCEPT !.eof = TRUE]
<1> USE DEF IInv
<1>1. /\ child \in Child /\ closing' = child /\ UNCHANGED session /\ UNCHANGED call
      /\ proc' = [proc EXCEPT ![child] = q]
  BY DEF Close, Types
<1>2. proc[child] \in Process
  BY <1>1, ProcFields
<1>3. /\ q \in Process /\ q.state = proc[child].state /\ q.stdin = proc[child].stdin
      /\ q.writing = proc[child].writing /\ q.stdout = proc[child].stdout
  BY <1>2 DEF Process
<1> HIDE DEF q
<1>4. \A j \in Child : proc'[j] = IF j = child THEN q ELSE proc[j]
  BY <1>1 DEF Types
<1>5. \A j \in Child :
         /\ proc'[j].state = proc[j].state
         /\ proc'[j].stdin = proc[j].stdin /\ proc'[j].writing = proc[j].writing
         /\ proc'[j].stdout = proc[j].stdout
  BY <1>3, <1>4
<1>6. Types'
  BY <1>1, <1>3 DEF Types, session
<1>7. Order'
  BY <1>1, <1>5, OrderKept, Starters DEF session
<1>8. Attended'
  BY <1>1, <1>5, AttendedQuiet
<1>9. Unique'
  BY <1>1, <1>5, UniqueSilent DEF session
<1>10. AnswersMatch'
  BY <1>1 DEF AnswersMatch
<1>11. QED
  BY <1>6, <1>7, <1>8, <1>9, <1>10

-----------------------------------------------------------------------------
(* Output of a process.                                                    *)

\* Output was read from process k, and nothing else of the processes changed.
LEMMA UnreadFacts ==
    ASSUME Types, NEW k \in Child, proc[k].stdout # <<>>
    PROVE  /\ Unread(k) \in [Child -> Process]
           /\ \A j \in Child :
                /\ Unread(k)[j].state = proc[j].state
                /\ Unread(k)[j].stdin = proc[j].stdin
                /\ Unread(k)[j].writing = proc[j].writing
                /\ \/ Unread(k)[j].stdout = proc[j].stdout
                   \/ /\ proc[j].stdout # <<>>
                      /\ Unread(k)[j].stdout = Tail(proc[j].stdout)
<1> DEFINE q == [proc[k] EXCEPT !.stdout = Tail(proc[k].stdout)]
<1>1. Unread(k) = [proc EXCEPT ![k] = q]
  BY DEF Types, Unread
<1>2. /\ q \in Process /\ q.state = proc[k].state /\ q.stdin = proc[k].stdin
      /\ q.writing = proc[k].writing /\ q.stdout = Tail(proc[k].stdout)
  BY ProcFields, PartFacts DEF Process
<1> HIDE DEF q
<1>3. proc \in [Child -> Process]
  BY DEF Types
<1>4. Unread(k) \in [Child -> Process]
  BY <1>1, <1>2, <1>3
<1>5. \A j \in Child : Unread(k)[j] = IF j = k THEN q ELSE proc[j]
  BY <1>1, <1>3
<1>6. QED
  BY <1>2, <1>4, <1>5

\* The answer is about the request that it settles.
LEMMA AnswerIsAbout ==
    ASSUME IInv, NEW k \in Child, proc[k].stdout # <<>>, NEW r \in Asked(k)
    PROVE  r \in pending /\ Part(k).line.to = r.to
<1>1. r \in pending /\ r.id = Part(k).line.id
  BY DEF Asked
<1>2. r \in Request /\ Part(k).line \in LineType
  BY <1>1, PartFacts DEF IInv, Types
<1>3. Said(r.id, r.to)
  BY <1>1 DEF Said
<1>4. Holds(k, Part(k).line.id, Part(k).line.to)
  BY PartFacts DEF Holds, IInv
<1>5. Said(r.id, Part(k).line.to)
  BY <1>1, <1>4 DEF Said
<1>6. r.id \in Nat /\ r.to \in Addressee /\ Part(k).line.to \in Addressee
  BY <1>2 DEF Request, LineType
<1>7. QED
  BY <1>1, <1>3, <1>5, <1>6 DEF IInv, Unique

\* A line that is an answer to a request other than the handshake, or to none.
LEMMA OnStdoutKeeps ==
    ASSUME IInv, NEW k \in Child, OnStdout(k)
    PROVE  IInv'
<1> USE DEF IInv
<1>1. proc[k].stdout # <<>> /\ proc' = Unread(k) /\ UNCHANGED closing
  BY DEF OnStdout, Read
<1>2. /\ proc' \in [Child -> Process]
      /\ \A j \in Child :
           /\ proc'[j].state = proc[j].state
           /\ proc'[j].stdin = proc[j].stdin
           /\ proc'[j].writing = proc[j].writing
           /\ \/ proc'[j].stdout = proc[j].stdout
              \/ /\ proc[j].stdout # <<>>
                 /\ proc'[j].stdout = Tail(proc[j].stdout)
  BY <1>1, UnreadFacts
<1>3. CASE UNCHANGED <<session, call>>
  <2>1. Types'
    BY <1>1, <1>2, <1>3 DEF Types, session
  <2>2. Order'
    BY <1>2, <1>3, OrderKept, Starters DEF session
  <2>3. Attended'
    BY <1>2, <1>3, AttendedQuiet
  <2>4. Unique'
    BY <1>2, <1>3, UniqueSilent DEF session
  <2>5. AnswersMatch'
    BY <1>3 DEF AnswersMatch
  <2>6. QED
    BY <2>1, <2>2, <2>3, <2>4, <2>5
<1>4. ASSUME NEW r \in Asked(k), Settle(r, Part(k).line)
      PROVE  IInv'
  <2>1. r \in pending /\ r.to = Part(k).line.to /\ r \in Request
    BY <1>1, AnswerIsAbout DEF Types
  <2>2. /\ r.to # Initialize /\ pending' = pending \ {r}
        /\ UNCHANGED <<child, initialized, starting, nextRequestId>>
        /\ call' = [call EXCEPT ![r.to] = "answered"]
    BY <1>4, <2>1 DEF Settle
  <2>3. r.to \in Call
    BY <2>1, <2>2 DEF Request, Addressee
  <2>4. \A c \in Call : call'[c] = IF c = r.to THEN "answered" ELSE call[c]
    BY <2>2, <2>3 DEF Types
  <2>5. Types'
    BY <1>1, <1>2, <2>2 DEF Types, Ended
  <2>6. call[r.to] # "idle"
    BY <2>1, <2>3 DEF Order
  <2>7. Order'
    <3>1. \A c \in Call : call'[c] = "idle" <=> call[c] = "idle"
      BY <2>4, <2>6
    <3>2. QED
      BY <1>2, <2>2, <3>1, OrderKept, Starters
  <2>8. Attended'
    <3>1. \A c \in Call : call'[c] = "waiting" =>
             c \in ToSet(starting)' \/ \E s \in pending' : s.to = c
      BY <2>2, <2>4 DEF Attended
    <3>2. IF initialized' = "pending" THEN \E s \in pending' : s.to = Initialize
                                      ELSE starting' = <<>>
      BY <2>2 DEF Attended
    <3>3. child # NoChild => proc'[child].state \in {"up", "dead"}
      BY <1>2 DEF Attended, Types
    <3>4. QED
      BY <2>2, <3>1, <3>2, <3>3 DEF Attended
  <2>9. Unique'
    BY <1>2, <2>2, UniqueSilent
  <2>10. AnswersMatch'
    BY <2>4 DEF AnswersMatch
  <2>11. QED
    BY <2>5, <2>7, <2>8, <2>9, <2>10
<1>5. ASSUME NEW r \in Asked(k), Refuse(r)
      PROVE  IInv'
  <2>1. r \in pending
    BY DEF Asked
  <2>2. /\ r.to = Initialize /\ pending' = pending \ {r}
        /\ initialized' = "none" /\ starting' = <<>> /\ UNCHANGED <<child, nextRequestId>>
        /\ call' = [c \in Call |-> IF c \in ToSet(starting) THEN "failed" ELSE call[c]]
    BY <1>5 DEF Refuse
  <2>3. Types'
    BY <1>1, <1>2, <2>2, NobodyStarts DEF Types, Ended
  <2>4. Order'
    <3>1. \A c \in Call : call'[c] = "idle" <=> call[c] = "idle"
      BY <2>2 DEF Order
    <3>2. ToSet(starting)' = {}
      BY <2>2, NobodyStarts
    <3>3. QED
      BY <1>2, <2>2, <3>1, <3>2, OrderKept, Starters
  <2>5. Attended'
    <3>1. ASSUME NEW c \in Call, call'[c] = "waiting"
          PROVE  \E s \in pending' : s.to = c
      <4>1. call[c] = "waiting" /\ c \notin ToSet(starting)
        BY <2>2, <3>1
      <4>2. PICK s \in pending : s.to = c
        BY <4>1 DEF Attended
      <4>3. c # Initialize
        BY SessionAssumption DEF Call
      <4>4. QED
        BY <2>2, <4>2, <4>3
    <3>2. child # NoChild => proc'[child].state \in {"up", "dead"}
      BY <1>2 DEF Attended, Types
    <3>3. QED
      BY <2>2, <3>1, <3>2 DEF Attended
  <2>6. Unique'
    BY <1>2, <2>2, UniqueSilent
  <2>7. AnswersMatch'
    BY <2>2 DEF AnswersMatch
  <2>8. QED
    BY <2>3, <2>4, <2>5, <2>6, <2>7
<1>6. QED
  BY <1>3, <1>4, <1>5 DEF OnStdout

-----------------------------------------------------------------------------
(* Requests are sent.                                                      *)

\* The process written to is the present one, or the next.
LEMMA NextChildFacts ==
    ASSUME IInv, NEW c \in Call, Begin(c)
    PROVE  /\ NextChild \in Child /\ proc[NextChild].state = "none"
           /\ NextChild <= c
           /\ \A k \in Child : proc[k].state # "none" \/ k = NextChild <=> k <= NextChild
<1>1. PICK n \in 0 .. MaxCall : \A k \in Child : proc[k].state # "none" <=> k <= n
  BY DEF IInv, Order
<1>2. c \in Child /\ proc[c].state = "none" /\ c \in Nat
  BY SessionAssumption DEF IInv, Order, Begin, Call, Child
<1>3. n < c
  BY <1>1, <1>2
<1>4. n + 1 \in Child /\ n + 1 <= c
  BY <1>2, <1>3, SessionAssumption DEF Child, Call
<1> DEFINE P(k) == proc[k].state = "none" /\ \A j \in 1 .. k - 1 : proc[j].state # "none"
<1>5. P(n + 1)
  BY <1>1, <1>4, SessionAssumption DEF Child
<1>6. ASSUME NEW k \in Child, P(k)
      PROVE  k = n + 1
  <2>1. k \in Nat /\ ~(k <= n)
    BY <1>1, <1>6, SessionAssumption DEF Child
  <2>2. ~(n + 1 < k)
    <3>1. SUFFICES ASSUME n + 1 < k PROVE FALSE
      OBVIOUS
    <3>2. n + 1 \in 1 .. k - 1
      BY <2>1, <3>1
    <3>3. QED
      BY <1>5, <1>6, <3>2
  <2>3. QED
    BY <2>1, <2>2
<1>7. NextChild = CHOOSE k \in Child : P(k)
  BY DEF NextChild
<1> HIDE DEF P
<1>8. NextChild = n + 1
  BY <1>4, <1>5, <1>6, <1>7
<1>9. \A k \in Child : proc[k].state # "none" \/ k = n + 1 <=> k <= n + 1
  BY <1>1, SessionAssumption DEF Child
<1>10. QED
  BY <1>4, <1>5, <1>8, <1>9 DEF P

LEMMA BeginFacts ==
    ASSUME Types, Order, NEW c \in Call, Begin(c)
    PROVE  /\ call' \in [Call -> {"idle", "waiting"} \cup Ended]
           /\ \A d \in Call : call'[d] = IF d = c THEN "waiting" ELSE call[d]
           /\ \A d \in Call : call'[d] # "idle" =>
                 \A b \in 1 .. d - 1 : call'[b] # "idle"
           /\ UNCHANGED closing /\ call[c] = "idle"
<1>1. /\ call' = [call EXCEPT ![c] = "waiting"] /\ UNCHANGED closing /\ call[c] = "idle"
      /\ \A b \in 1 .. c - 1 : call[b] # "idle"
  BY DEF Begin
<1>2. /\ call' \in [Call -> {"idle", "waiting"} \cup Ended]
      /\ \A d \in Call : call'[d] = IF d = c THEN "waiting" ELSE call[d]
  BY <1>1 DEF Types
<1>3. ASSUME NEW d \in Call, call'[d] # "idle", NEW b \in 1 .. d - 1
      PROVE  call'[b] # "idle"
  <2>1. b \in Call
    BY SessionAssumption DEF Call
  <2>2. call[b] # "idle"
    BY <1>1, <1>2, <1>3 DEF Order
  <2>3. QED
    BY <1>2, <2>1, <2>2
<1>4. QED
  BY <1>1, <1>2, <1>3

LEMMA OneElement ==
    ASSUME NEW S, NEW e \in S
    PROVE  <<e>> \in Seq(S) /\ Len(<<e>>) = 1 /\ ToSet(<<e>>) = {e}
<1>1. <<e>> \in Seq(S) /\ Len(<<e>>) = 1 /\ <<e>>[1] = e
  OBVIOUS
<1>2. \A x : x \in ToSet(<<e>>) <=> \E i \in 1 .. Len(<<e>>) : <<e>>[i] = x
  BY <1>1, Elements
<1>3. QED
  BY <1>1, <1>2

\* What is written is appended to the input of its process.
LEMMA WrittenFacts ==
    ASSUME Types, NEW k \in Child, NEW to \in Seq(Addressee)
    PROVE  /\ Written(to, k) \in Process
           /\ Written(to, k).state = proc[k].state
           /\ Written(to, k).stdin = proc[k].stdin \o Requests(to, k)
           /\ Written(to, k).writing = proc[k].writing
           /\ Written(to, k).stdout = proc[k].stdout
<1>1. proc[k].stdin \o Requests(to, k) \in Seq(Request)
  BY ProcFields, RequestsFacts, ConcatProperties
<1>2. QED
  BY <1>1, ProcFields DEF Written, Process

LEMMA SentFacts ==
    ASSUME Types, NEW k \in Child, NEW to \in Seq(Addressee), Sent(to, k)
    PROVE  /\ nextRequestId' = nextRequestId + Len(to) /\ nextRequestId' \in Nat \ {0}
           /\ pending' = pending \cup ToSet(Requests(to, k))
           /\ pending' \in SUBSET Request
<1>1. Len(to) \in Nat
  BY LenProperties
<1>2. ToSet(Requests(to, k)) \subseteq Request
  BY RequestsFacts, Elements, LenProperties
<1>3. QED
  BY <1>1, <1>2 DEF Sent, Types

LEMMA InvokeFirstKeeps ==
    ASSUME IInv, NEW c \in Call, InvokeFirst(c)
    PROVE  IInv'
<1> DEFINE k == IF child = NoChild THEN NextChild ELSE child
           to == <<Initialize>>
           q == [Written(to, k) EXCEPT !.state = "up"]
<1> USE DEF IInv
<1>1. /\ Begin(c) /\ initialized = "none" /\ ~Hopeless(k)
      /\ child' = k /\ initialized' = "pending" /\ starting' = <<c>>
      /\ Sent(to, k) /\ proc' = [proc EXCEPT ![k] = q]
  BY DEF InvokeFirst
<1>2. to \in Seq(Addressee) /\ Len(to) = 1 /\ to[1] = Initialize
  <2>1. Initialize \in Addressee
    BY DEF Addressee
  <2>2. QED
    BY <2>1, OneElement
<1>3. k \in Child /\ k # NoChild
  BY <1>1, NextChildFacts, SessionAssumption DEF Types, Child
<1>4. IF child = NoChild THEN k = NextChild ELSE k = child /\ proc[k].state = "up"
  BY <1>1 DEF Hopeless, Attended
<1> HIDE DEF k, to
<1>5. /\ q \in Process /\ q.state = "up"
      /\ q.stdin = proc[k].stdin \o Requests(to, k) /\ q.writing = proc[k].writing
      /\ q.stdout = proc[k].stdout
  BY <1>2, <1>3, WrittenFacts DEF Process
<1> HIDE DEF q
<1>6. \A j \in Child : proc'[j] = IF j = k THEN q ELSE proc[j]
  BY <1>1 DEF Types
<1>7. /\ nextRequestId' = nextRequestId + Len(to) /\ nextRequestId' \in Nat \ {0}
      /\ pending' = pending \cup ToSet(Requests(to, k))
      /\ pending' \in SUBSET Request
  BY <1>1, <1>2, <1>3, SentFacts
<1>8. ToSet(Requests(to, k)) = {[id |-> nextRequestId, to |-> Initialize, at |-> k]}
  <2>1. \A r : r \in ToSet(Requests(to, k)) <=>
           \E i \in 1 .. Len(to) : r = [id |-> nextRequestId + i - 1, to |-> to[i], at |-> k]
    BY <1>2, <1>3, RequestsFacts
  <2>2. nextRequestId + 1 - 1 = nextRequestId /\ 1 .. Len(to) = {1}
    BY <1>2 DEF Types
  <2>3. \A r : r \in ToSet(Requests(to, k)) <=>
           r = [id |-> nextRequestId, to |-> Initialize, at |-> k]
    BY <1>2, <2>1, <2>2
  <2>4. QED
    BY <2>3
<1>9. /\ call' \in [Call -> {"idle", "waiting"} \cup Ended]
      /\ \A d \in Call : call'[d] = IF d = c THEN "waiting" ELSE call[d]
      /\ \A d \in Call : call'[d] # "idle" =>
                 \A b \in 1 .. d - 1 : call'[b] # "idle"
      /\ UNCHANGED closing /\ call[c] = "idle"
  BY <1>1, BeginFacts
<1>10. starting' \in Seq(Call) /\ ToSet(starting)' = {c}
  BY <1>1, OneElement
<1>11. Types'
  BY <1>1, <1>3, <1>5, <1>7, <1>9, <1>10 DEF Types
<1>12. Order'
  <2>1. \E n \in 0 .. MaxCall : \A j \in Child : proc'[j].state # "none" <=> j <= n
    <3>1. CASE child = NoChild
      <4>1. \A j \in Child : proc'[j].state # "none" <=> j <= NextChild
        BY <1>1, <1>4, <1>5, <1>6, <3>1, NextChildFacts
      <4>2. NextChild \in 0 .. MaxCall
        BY <1>1, NextChildFacts, SessionAssumption DEF Child
      <4>3. QED
        BY <4>1, <4>2
    <3>2. CASE child # NoChild
      <4>1. \A j \in Child : proc'[j].state # "none" <=> proc[j].state # "none"
        BY <1>4, <1>5, <1>6, <3>2
      <4>2. QED
        BY <4>1 DEF Order
    <3>3. QED
      BY <3>1, <3>2
  <2>2. \A j \in Child : proc'[j].state # "none" => call'[j] # "idle"
    <3>1. TAKE j \in Child
    <3>2. j \in Call
      BY DEF Child, Call
    <3>3. CASE proc[j].state # "none"
      BY <1>9, <3>2, <3>3 DEF Order
    <3>4. CASE j = k /\ child = NoChild
      <4>1. j <= c
        BY <1>1, <1>4, <3>4, NextChildFacts
      <4>2. j = c \/ j \in 1 .. c - 1
        BY <3>2, <4>1, SessionAssumption DEF Call
      <4>3. QED
        BY <1>9, <4>2
    <3>5. QED
      BY <1>4, <1>6, <3>3, <3>4
  <2>3. \A r \in pending' : r.to \in Call => call'[r.to] # "idle"
    <3>1. Initialize \notin Call
      BY SessionAssumption DEF Call
    <3>2. QED
      BY <1>7, <1>8, <1>9, <3>1 DEF Order
  <2>4. QED
    BY <1>9, <1>10, <2>1, <2>2, <2>3 DEF Order
<1>13. Attended'
  <2>1. child = NoChild => pending = {}
    <3>1. SUFFICES ASSUME NEW r \in pending PROVE child # NoChild
      OBVIOUS
    <3>2. r \in Request /\ r.at = child
      BY DEF Attended, Types
    <3>3. r.at \in Nat
      BY <3>2, SessionAssumption DEF Request, Child
    <3>4. QED
      BY <3>2, <3>3, SessionAssumption
  <2>2. \A r \in pending' : r.at = child'
    <3>1. \A r \in pending : r.at = k
      BY <1>4, <2>1 DEF Attended
    <3>2. [id |-> nextRequestId, to |-> Initialize, at |-> k].at = k
      OBVIOUS
    <3>3. QED
      BY <1>1, <1>7, <1>8, <3>1, <3>2
  <2>3. \E r \in pending' : r.to = Initialize
    <3>1. [id |-> nextRequestId, to |-> Initialize, at |-> k].to = Initialize
      OBVIOUS
    <3>2. [id |-> nextRequestId, to |-> Initialize, at |-> k] \in pending'
      BY <1>7, <1>8
    <3>3. QED
      BY <3>1, <3>2
  <2>4. ToSet(starting) = {}
    BY <1>1, NobodyStarts DEF Attended
  <2>5. \A d \in Call : call'[d] = "waiting" =>
           d \in ToSet(starting)' \/ \E r \in pending' : r.to = d
    BY <1>7, <1>9, <1>10, <2>4 DEF Attended
  <2>6. proc'[child'].state = "up" /\ child' # NoChild
    BY <1>1, <1>3, <1>5, <1>6
  <2>7. QED
    BY <1>1, <2>2, <2>3, <2>5, <2>6 DEF Attended
<1>14. Unique'
  <2>1. \A j \in Child :
              /\ \/ proc'[j].stdin = proc[j].stdin
                 \/ proc'[j].stdin = proc[j].stdin \o Requests(to, k)
              /\ proc'[j].writing = proc[j].writing
              /\ proc'[j].stdout = proc[j].stdout
    BY <1>5, <1>6
  <2>2. QED
    BY <1>2, <1>3, <1>7, <2>1, UniqueSent
<1>15. AnswersMatch'
  BY <1>9 DEF AnswersMatch
<1>16. QED
  BY <1>11, <1>12, <1>13, <1>14, <1>15

LEMMA InvokeWaitsKeeps ==
    ASSUME IInv, NEW c \in Call, InvokeWaits(c)
    PROVE  IInv'
<1> USE DEF IInv
<1>1. /\ Begin(c) /\ initialized = "pending" /\ starting' = Append(starting, c)
      /\ UNCHANGED <<child, initialized, pending, nextRequestId, proc>>
  BY DEF InvokeWaits
<1>2. /\ call' \in [Call -> {"idle", "waiting"} \cup Ended]
      /\ \A d \in Call : call'[d] = IF d = c THEN "waiting" ELSE call[d]
      /\ \A d \in Call : call'[d] # "idle" =>
                 \A b \in 1 .. d - 1 : call'[b] # "idle"
      /\ UNCHANGED closing /\ call[c] = "idle"
  BY <1>1, BeginFacts
<1>3. starting' \in Seq(Call) /\ ToSet(starting)' = ToSet(starting) \cup {c}
  <2>1. starting \in Seq(Call) /\ Len(starting) \in Nat
    BY LenProperties DEF Types
  <2>2. /\ Append(starting, c) \in Seq(Call)
        /\ Len(Append(starting, c)) = Len(starting) + 1
        /\ \A i \in 1 .. Len(starting) : Append(starting, c)[i] = starting[i]
        /\ Append(starting, c)[Len(starting) + 1] = c
    BY <2>1, AppendProperties
  <2>3. \A x : x \in ToSet(Append(starting, c)) <=>
           \E i \in 1 .. Len(starting) + 1 : Append(starting, c)[i] = x
    <3>1. \A x : x \in ToSet(Append(starting, c)) <=>
             \E i \in 1 .. Len(Append(starting, c)) : Append(starting, c)[i] = x
      BY <2>2, Elements
    <3>2. QED
      BY <2>2, <3>1
  <2>4. \A x : x \in ToSet(starting) <=> \E i \in 1 .. Len(starting) : starting[i] = x
    BY <2>1, Elements
  <2>5. ASSUME NEW x
        PROVE  x \in ToSet(Append(starting, c)) <=> x \in ToSet(starting) \/ x = c
    <3>1. ASSUME NEW i \in 1 .. Len(starting) + 1
          PROVE  i \in 1 .. Len(starting) \/ i = Len(starting) + 1
      BY <2>1, <3>1
    <3>2. 1 .. Len(starting) \subseteq 1 .. Len(starting) + 1
          /\ Len(starting) + 1 \in 1 .. Len(starting) + 1
      BY <2>1
    <3>3. QED
      BY <2>2, <2>3, <2>4, <3>1, <3>2
  <2>6. QED
    BY <1>1, <2>2, <2>5
<1>4. Types'
  BY <1>1, <1>2, <1>3 DEF Types
<1>5. Order'
  <2>1. \A k \in Child : proc'[k].state # "none" => call'[k] # "idle"
    BY <1>1, <1>2 DEF Order, Call, Child
  <2>2. \A d \in ToSet(starting)' : call'[d] # "idle"
    <3>1. \A d \in ToSet(starting) : d \in Call /\ call[d] # "idle"
      BY Starters DEF Order
    <3>2. QED
      BY <1>2, <1>3, <3>1
  <2>3. \A r \in pending' : r.to \in Call => call'[r.to] # "idle"
    BY <1>1, <1>2 DEF Order
  <2>4. QED
    BY <1>1, <1>2, <2>1, <2>2, <2>3 DEF Order
<1>6. Attended'
  BY <1>1, <1>2, <1>3 DEF Attended
<1>7. Unique'
  BY <1>1, UniqueSilent
<1>8. AnswersMatch'
  BY <1>2 DEF AnswersMatch
<1>9. QED
  BY <1>4, <1>5, <1>6, <1>7, <1>8

LEMMA InvokeSendsKeeps ==
    ASSUME IInv, NEW c \in Call, InvokeSends(c)
    PROVE  IInv'
<1> DEFINE to == <<c>>
           q == Written(to, child)
           new == [id |-> nextRequestId, to |-> c, at |-> child]
<1> USE DEF IInv
<1>1. /\ Begin(c) /\ initialized = "done" /\ Sent(to, child)
      /\ UNCHANGED <<child, initialized, starting>>
      /\ proc' = [proc EXCEPT ![child] = q]
  BY DEF InvokeSends
<1>2. to \in Seq(Addressee) /\ Len(to) = 1 /\ to[1] = c
  BY OneElement DEF Addressee
<1>3. child \in Child /\ child # NoChild
  BY <1>1 DEF Types, Attended
<1> HIDE DEF to
<1>4. /\ q \in Process /\ q.state = proc[child].state
      /\ q.stdin = proc[child].stdin \o Requests(to, child)
      /\ q.writing = proc[child].writing /\ q.stdout = proc[child].stdout
  BY <1>2, <1>3, WrittenFacts
<1> HIDE DEF q
<1>5. \A j \in Child : proc'[j] = IF j = child THEN q ELSE proc[j]
  BY <1>1 DEF Types
<1>6. /\ nextRequestId' = nextRequestId + Len(to) /\ nextRequestId' \in Nat \ {0}
      /\ pending' = pending \cup ToSet(Requests(to, child))
      /\ pending' \in SUBSET Request
  BY <1>1, <1>2, <1>3, SentFacts
<1>7. new.to = c /\ new.at = child
  OBVIOUS
<1>8. ToSet(Requests(to, child)) = {new}
  <2>1. \A r : r \in ToSet(Requests(to, child)) <=>
           \E i \in 1 .. Len(to) : r = [id |-> nextRequestId + i - 1, to |-> to[i], at |-> child]
    BY <1>2, <1>3, RequestsFacts
  <2>2. nextRequestId + 1 - 1 = nextRequestId /\ 1 .. Len(to) = {1}
    BY <1>2 DEF Types
  <2>3. \A r : r \in ToSet(Requests(to, child)) <=> r = new
    BY <1>2, <2>1, <2>2
  <2>4. QED
    BY <2>3
<1> HIDE DEF new
<1>9. /\ call' \in [Call -> {"idle", "waiting"} \cup Ended]
      /\ \A d \in Call : call'[d] = IF d = c THEN "waiting" ELSE call[d]
      /\ \A d \in Call : call'[d] # "idle" =>
                 \A b \in 1 .. d - 1 : call'[b] # "idle"
      /\ UNCHANGED closing /\ call[c] = "idle"
  BY <1>1, BeginFacts
<1>10. Types'
  BY <1>1, <1>4, <1>6, <1>9 DEF Types
<1>11. \A j \in Child :
         /\ proc'[j].state = proc[j].state
         /\ \/ proc'[j].stdin = proc[j].stdin
            \/ proc'[j].stdin = proc[j].stdin \o Requests(to, child)
         /\ proc'[j].writing = proc[j].writing /\ proc'[j].stdout = proc[j].stdout
  BY <1>4, <1>5
<1>12. Order'
  <2>1. \A k \in Child : proc'[k].state # "none" => call'[k] # "idle"
    BY <1>9, <1>11 DEF Order, Call, Child
  <2>2. \A d \in ToSet(starting)' : call'[d] # "idle"
    BY <1>1, <1>9, Starters DEF Order
  <2>3. \A r \in pending' : r.to \in Call => call'[r.to] # "idle"
    BY <1>6, <1>7, <1>8, <1>9 DEF Order
  <2>4. \E n \in 0 .. MaxCall : \A k \in Child : proc'[k].state # "none" <=> k <= n
    BY <1>11 DEF Order
  <2>5. QED
    BY <1>9, <2>1, <2>2, <2>3, <2>4 DEF Order
<1>13. Attended'
  <2>1. \A r \in pending' : r.at = child'
    BY <1>1, <1>6, <1>7, <1>8 DEF Attended
  <2>2. \A d \in Call : call'[d] = "waiting" =>
           d \in ToSet(starting)' \/ \E r \in pending' : r.to = d
    BY <1>1, <1>6, <1>7, <1>8, <1>9 DEF Attended
  <2>3. proc'[child'].state \in {"up", "dead"}
    BY <1>1, <1>3, <1>11 DEF Attended
  <2>4. QED
    BY <1>1, <1>3, <2>1, <2>2, <2>3 DEF Attended
<1>14. Unique'
  BY <1>2, <1>3, <1>6, <1>11, UniqueSent
<1>15. AnswersMatch'
  BY <1>9 DEF AnswersMatch
<1>16. QED
  BY <1>10, <1>12, <1>13, <1>14, <1>15

\* The handshake lets the calls that wait for it send their requests.
LEMMA OnHandshakeKeeps ==
    ASSUME IInv, NEW k \in Child, OnHandshake(k)
    PROVE  IInv'
<1> DEFINE R == Requests(starting, child)
           U == Unread(k)
           q == [U[child] EXCEPT !.stdin = U[child].stdin \o R]
<1> USE DEF IInv
<1>1. PICK r \in Asked(k) : Greet(r)
  BY DEF OnHandshake
<1>2. /\ proc[k].stdout # <<>> /\ UNCHANGED <<closing, call, child>>
      /\ r \in pending /\ r.to = Initialize
      /\ initialized' = "done" /\ starting' = <<>>
      /\ pending' = (pending \ {r}) \cup ToSet(R)
      /\ nextRequestId' = nextRequestId + Len(starting)
      /\ proc' = [U EXCEPT ![child].stdin = @ \o R]
  BY <1>1 DEF OnHandshake, Read, Greet, Asked
<1>3. child \in Child /\ child # NoChild /\ r \in Request
  <2>1. r \in Request /\ r.at = child
    BY <1>2 DEF Types, Attended
  <2>2. child \in Child
    BY <2>1 DEF Request
  <2>3. QED
    BY <2>1, <2>2, SessionAssumption DEF Child
<1>4. starting \in Seq(Addressee) /\ Len(starting) \in Nat
  BY LenProperties, SeqMonotonic DEF Types, Addressee
<1>5. /\ R \in Seq(Request)
      /\ \A s : s \in ToSet(R) <=>
            \E i \in 1 .. Len(starting) :
               s = [id |-> nextRequestId + i - 1, to |-> starting[i], at |-> child]
  BY <1>3, <1>4, RequestsFacts
<1>6. /\ U \in [Child -> Process]
      /\ \A j \in Child :
           /\ U[j].state = proc[j].state
           /\ U[j].stdin = proc[j].stdin
           /\ U[j].writing = proc[j].writing
           /\ \/ U[j].stdout = proc[j].stdout
              \/ /\ proc[j].stdout # <<>>
                 /\ U[j].stdout = Tail(proc[j].stdout)
  BY <1>2, UnreadFacts
<1> HIDE DEF R, U
<1>7. U[child] \in Process /\ U[child].stdin \in Seq(Request)
  BY <1>3, <1>6 DEF Process
<1>8. U[child].stdin \o R \in Seq(Request)
  BY <1>5, <1>7, ConcatProperties
<1>9. /\ q \in Process /\ q.state = U[child].state
      /\ q.stdin = U[child].stdin \o R
      /\ q.writing = U[child].writing /\ q.stdout = U[child].stdout
  BY <1>7, <1>8 DEF Process
<1>10. proc' = [U EXCEPT ![child] = q]
  BY <1>2
<1> HIDE DEF q
<1>11. proc' \in [Child -> Process] /\ \A j \in Child : proc'[j] = IF j = child THEN q ELSE U[j]
  BY <1>6, <1>9, <1>10
<1>12. \A j \in Child :
         /\ proc'[j].state = proc[j].state
         /\ \/ proc'[j].stdin = proc[j].stdin
            \/ proc'[j].stdin = proc[j].stdin \o R
         /\ proc'[j].writing = proc[j].writing
         /\ \/ proc'[j].stdout = proc[j].stdout
            \/ /\ proc[j].stdout # <<>>
               /\ proc'[j].stdout = Tail(proc[j].stdout)
  BY <1>3, <1>6, <1>9, <1>11
<1>13. Types'
  <2>1. ToSet(R) \subseteq Request
    BY <1>5, Elements, LenProperties
  <2>2. pending' \in SUBSET Request /\ nextRequestId' \in Nat \ {0} /\ starting' \in Seq(Call)
    BY <1>2, <1>4, <2>1, NobodyStarts DEF Types
  <2>3. QED
    BY <1>2, <1>11, <2>2 DEF Types
<1>14. \A s \in ToSet(R) : s.at = child /\ s.to \in ToSet(starting)
  <2>1. TAKE s \in ToSet(R)
  <2>2. PICK i \in 1 .. Len(starting) :
           s = [id |-> nextRequestId + i - 1, to |-> starting[i], at |-> child]
    BY <1>5
  <2>3. s.at = child /\ s.to = starting[i]
    BY <2>2
  <2>4. QED
    BY <1>4, <2>3, Elements
<1>15. \A c \in ToSet(starting) : \E s \in ToSet(R) : s.to = c
  <2>1. TAKE c \in ToSet(starting)
  <2>2. PICK i \in 1 .. Len(starting) : starting[i] = c
    BY <1>4, Elements
  <2> DEFINE s == [id |-> nextRequestId + i - 1, to |-> starting[i], at |-> child]
  <2>3. s \in ToSet(R)
    BY <1>5
  <2>4. s.to = c
    BY <2>2
  <2>5. QED
    BY <2>3, <2>4
<1>16. Order'
  <2>1. ToSet(starting)' = {}
    BY <1>2, NobodyStarts
  <2>2. \A s \in pending' : s \in pending \/ s.to \in ToSet(starting)
    BY <1>2, <1>14
  <2>3. QED
    BY <1>2, <1>12, <2>1, <2>2, OrderKept, Starters
<1>17. Attended'
  <2>1. \A s \in pending' : s.at = child'
    BY <1>2, <1>14 DEF Attended
  <2>2. ASSUME NEW c \in Call, call'[c] = "waiting"
        PROVE  \E s \in pending' : s.to = c
    <3>1. c # Initialize
      BY SessionAssumption DEF Call
    <3>2. CASE c \in ToSet(starting)
      BY <1>2, <1>15, <3>2
    <3>3. CASE \E s \in pending : s.to = c
      BY <1>2, <3>1, <3>3
    <3>4. QED
      BY <1>2, <2>2, <3>2, <3>3 DEF Attended
  <2>3. proc'[child'].state \in {"up", "dead"}
    BY <1>2, <1>3, <1>12 DEF Attended
  <2>4. QED
    BY <1>2, <1>3, <2>1, <2>2, <2>3 DEF Attended
<1>18. Unique'
  <2>1. pending' \subseteq pending \cup ToSet(Requests(starting, child))
    BY <1>2 DEF R
  <2>2. QED
    BY <1>2, <1>3, <1>4, <1>12, <2>1, UniqueSent DEF R
<1>19. AnswersMatch'
  BY <1>2 DEF AnswersMatch
<1>20. QED
  BY <1>13, <1>16, <1>17, <1>18, <1>19

-----------------------------------------------------------------------------
(* The specification.                                                      *)

LEMMA InitIInv == Init => IInv
<1> SUFFICES ASSUME Init PROVE IInv
  OBVIOUS
<1> USE DEF Init
<1>1. NotStarted \in Process /\ NotStarted.state = "none" /\ NotStarted.stdin = <<>>
      /\ NotStarted.stdout = <<>> /\ NotStarted.writing = NoLine
  BY EmptySeq DEF NotStarted, Process
<1>2. Types
  BY <1>1, NobodyStarts DEF Types
<1>3. Order
  <2>1. 0 \in 0 .. MaxCall /\ \A k \in Child : ~(k <= 0)
    BY SessionAssumption DEF Child
  <2>2. \A k \in Child : proc[k].state = "none"
    BY <1>1
  <2>3. \E n \in 0 .. MaxCall : \A k \in Child : proc[k].state # "none" <=> k <= n
    BY <2>1, <2>2
  <2>4. QED
    BY <2>2, <2>3, NobodyStarts DEF Order
<1>4. Attended
  BY DEF Attended
<1>5. Unique
  <2>1. \A k \in Child : \A i, x : ~Holds(k, i, x)
    <3>1. Len(<<>>) = 0
      BY EmptySeq
    <3>2. QED
      BY <1>1, <3>1 DEF Holds
  <2>2. QED
    BY <2>1 DEF Unique, Said
<1>6. AnswersMatch
  BY DEF AnswersMatch
<1>7. QED
  BY <1>2, <1>3, <1>4, <1>5, <1>6 DEF IInv

LEMMA NextKeepsIInv == IInv /\ [Next]_vars => IInv'
<1> SUFFICES ASSUME IInv, [Next]_vars PROVE IInv'
  OBVIOUS
<1>1. CASE Invoke
  <2>1. CASE InvokeBreaks
    BY <2>1, HostDownKeeps DEF InvokeBreaks
  <2>2. CASE \E c \in Call : InvokeFirst(c) \/ InvokeWaits(c) \/ InvokeSends(c)
    BY <2>2, InvokeFirstKeeps, InvokeWaitsKeeps, InvokeSendsKeeps
  <2>3. QED
    BY <1>1, <2>1, <2>2 DEF Invoke
<1>2. CASE Close
  BY <1>2, CloseKeeps
<1>3. ASSUME NEW k \in Child, Event(k)
      PROVE  IInv'
  <2>1. CASE OnExit(k)
    BY <2>1, HeardKeeps DEF OnExit
  <2>2. CASE OnClose(k)
    BY <2>2, HeardKeeps DEF OnClose
  <2>3. CASE OnHandshakeBreaks(k)
    BY <2>3, HostDownKeeps DEF OnHandshakeBreaks
  <2>4. QED
    BY <1>3, <2>1, <2>2, <2>3, OnStdoutKeeps, OnHandshakeKeeps DEF Event
<1>4. ASSUME NEW k \in Child, Work(k) \/ Die(k)
      PROVE  IInv'
  BY <1>4, AnswerKeeps, FinishLineKeeps, EndKeeps DEF Work
<1>5. CASE UNCHANGED vars
  <2>1. UNCHANGED <<session, closing, call, proc>>
    BY <1>5 DEF vars
  <2>2. Types'
    BY <2>1 DEF IInv, Types, session
  <2>3. Order'
    BY <2>1, OrderKept, Starters DEF IInv, session
  <2>4. Attended'
    BY <2>1, AttendedQuiet DEF IInv
  <2>5. Unique'
    BY <2>1, UniqueSilent DEF IInv, session
  <2>6. AnswersMatch'
    BY <2>1 DEF IInv, AnswersMatch
  <2>7. QED
    BY <2>2, <2>3, <2>4, <2>5, <2>6 DEF IInv
<1>6. QED
  BY <1>1, <1>2, <1>3, <1>4, <1>5 DEF Next

\* The invariant that the properties follow from.
THEOREM SpecIInv == Spec => []IInv
BY InitIInv, NextKeepsIInv, PTL DEF Spec

\* An answer, read late or not, goes to the caller that asked for it: onLine
\* settles by identifier, and identifiers never meet another caller's request.
THEOREM AnswersReachTheirCallers == Spec => []AnswersMatch
<1>1. IInv => AnswersMatch
  BY DEF IInv
<1>2. QED
  BY <1>1, SpecIInv, PTL

\* Whoever waits, waits for the present process: fail() leaves nobody behind, not
\* those that wait for the handshake either.
THEOREM EveryoneIsAttended == Spec => []NobodyWaitsInVain
<1>1. IInv => NobodyWaitsInVain
  <2> SUFFICES ASSUME IInv PROVE NobodyWaitsInVain
    OBVIOUS
  <2> USE DEF IInv
  <2>1. ASSUME NEW r \in pending
        PROVE  r.at = child /\ proc[child].state \in {"up", "dead"}
    <3>1. r.at = child /\ r.at \in Nat
      BY SessionAssumption DEF Types, Attended, Request, Child
    <3>2. QED
      BY <3>1, SessionAssumption DEF Attended
  <2>2. QED
    BY <2>1 DEF NobodyWaitsInVain, Attended
<1>2. QED
  BY <1>1, SpecIInv, PTL
-----------------------------------------------------------------------------
(* The type, which counts: an invocation starts one process and sends two  *)
(* requests at most, its own and the handshake.                            *)

\* The invocations that have begun are the first n.  A call that waits for the
\* handshake has still to send its request.
Budget ==
    \E n \in 0 .. MaxCall :
       /\ \A c \in Call : call[c] # "idle" <=> c <= n
       /\ Len(starting) <= n
       /\ nextRequestId + Len(starting) <= 2 * n + 1

\* What is in the buffer was sent.
Numbered(line) == line \in LineType /\ line.id < nextRequestId

Rest ==
    /\ stdoutBuffer \in {NoLine, Junk} \/ Numbered(stdoutBuffer)
    /\ garbled \in BOOLEAN /\ host \in {"up", "down"} /\ crashes \in 0 .. MaxCrash

LEMMA BudgetKept ==
    ASSUME Types, Types', Budget,
           \A c \in Call : call'[c] = "idle" <=> call[c] = "idle",
           \/ UNCHANGED <<starting, nextRequestId>>
           \/ starting' = <<>> /\ nextRequestId' = nextRequestId
           \/ starting' = <<>> /\ nextRequestId' = nextRequestId + Len(starting)
    PROVE  Budget'
<1>1. PICK n \in 0 .. MaxCall :
         /\ \A c \in Call : call[c] # "idle" <=> c <= n
         /\ Len(starting) <= n /\ nextRequestId + Len(starting) <= 2 * n + 1
  BY DEF Budget
<1>2. Len(starting) \in Nat /\ Len(<<>>) = 0 /\ nextRequestId \in Nat
  BY LenProperties, EmptySeq DEF Types
<1>3. Len(starting') <= n /\ nextRequestId' + Len(starting') <= 2 * n + 1
  BY <1>1, <1>2, SessionAssumption
<1> QED
  BY <1>1, <1>3 DEF Budget

LEMMA BudgetSpent ==
    ASSUME Types, Order, Budget, NEW c \in Call, Begin(c),
           Len(starting') <= Len(starting) + 1,
           Len(starting') \in Nat, nextRequestId' \in Nat,
           nextRequestId' + Len(starting') <= nextRequestId + Len(starting) + 2
    PROVE  Budget'
<1>1. PICK n \in 0 .. MaxCall :
         /\ \A d \in Call : call[d] # "idle" <=> d <= n
         /\ Len(starting) <= n /\ nextRequestId + Len(starting) <= 2 * n + 1
  BY DEF Budget
<1>2. Len(starting) \in Nat /\ nextRequestId \in Nat
  BY LenProperties DEF Types
<1>3. c = n + 1
  <2>1. c \in 1 .. MaxCall /\ ~(c <= n)
    BY <1>1, BeginFacts DEF Call
  <2>2. SUFFICES ASSUME n + 1 < c PROVE FALSE
    BY <2>1, SessionAssumption
  <2>3. n + 1 \in 1 .. c - 1 /\ n + 1 \in Call /\ ~(n + 1 <= n)
    BY <2>1, <2>2, SessionAssumption DEF Call
  <2> QED
    BY <1>1, <2>3 DEF Begin
<1>4. n + 1 \in 0 .. MaxCall /\ \A d \in Call : d <= n + 1 <=> d <= n \/ d = c
  BY <1>3, SessionAssumption DEF Call
<1>5. \A d \in Call : call'[d] # "idle" <=> d <= n + 1
  BY <1>1, <1>4, BeginFacts
<1>6. Len(starting') <= n + 1 /\ nextRequestId' + Len(starting') <= 2 * (n + 1) + 1
  BY <1>1, <1>2, SessionAssumption
<1> QED
  BY <1>4, <1>5, <1>6 DEF Budget

LEMMA InvokeKeepsBudget ==
    ASSUME IInv, IInv', Budget, NEW c \in Call,
           InvokeFirst(c) \/ InvokeWaits(c) \/ InvokeSends(c)
    PROVE  Budget'
<1> USE DEF IInv
<1>1. /\ Begin(c) /\ nextRequestId \in Nat /\ nextRequestId' \in Nat
      /\ Len(starting) \in Nat /\ Len(starting') \in Nat
  BY LenProperties DEF Types, InvokeFirst, InvokeWaits, InvokeSends
<1>2. CASE InvokeFirst(c)
  <2>1. Len(starting') = 1 /\ nextRequestId' = nextRequestId + 1
    BY <1>2 DEF InvokeFirst, Sent
  <2> QED
    BY <1>1, <2>1, BudgetSpent
<1>3. CASE InvokeWaits(c)
  <2>1. Len(starting') = Len(starting) + 1 /\ nextRequestId' = nextRequestId
    BY <1>3, AppendProperties DEF InvokeWaits, Types
  <2> QED
    BY <1>1, <2>1, BudgetSpent
<1>4. CASE InvokeSends(c)
  <2>1. Len(starting') = Len(starting) /\ nextRequestId' = nextRequestId + 1
    BY <1>4 DEF InvokeSends, Sent
  <2> QED
    BY <1>1, <2>1, BudgetSpent
<1> QED
  BY <1>2, <1>3, <1>4

LEMMA NextKeepsBudget ==
    ASSUME IInv, IInv', Budget, [Next]_vars
    PROVE  Budget'
<1> USE DEF IInv
<1>1. ASSUME \/ UNCHANGED <<call, starting, nextRequestId>>
             \/ HostDown
             \/ Forgotten /\ call' = Failed /\ UNCHANGED nextRequestId
      PROVE  Budget'
  <2>1. \A c \in Call : call'[c] = "idle" <=> call[c] = "idle"
    <3>1. CASE Forgotten /\ call' = Failed
      <4>1. \A c \in Call : c # Initialize
        BY SessionAssumption DEF Call
      <4>2. \A c \in Call : c \in Rejected \/ c \in ToSet(starting) => call[c] # "idle"
        BY DEF Rejected, Order
      <4> QED
        BY <3>1, <4>2 DEF Failed
    <3>2. CASE HostDown
      BY <3>2 DEF HostDown
    <3>3. CASE call' = call
      BY <3>3
    <3> QED BY <1>1, <3>1, <3>2, <3>3
  <2>2. \/ UNCHANGED <<starting, nextRequestId>>
        \/ starting' = <<>> /\ nextRequestId' = nextRequestId
    BY <1>1 DEF HostDown, Forgotten
  <2> QED
    BY <2>1, <2>2, BudgetKept
<1>2. CASE Invoke
  BY <1>1, <1>2, InvokeKeepsBudget DEF Invoke, InvokeBreaks
<1>3. CASE Close \/ UNCHANGED vars
  BY <1>1, <1>3 DEF Close, vars, session
<1>4. ASSUME NEW k \in Child, Work(k) \/ Die(k)
      PROVE  Budget'
  BY <1>1, <1>4 DEF Work, Answer, FinishLine, Leave, Die, Alone, session
<1>5. ASSUME NEW k \in Child, Event(k)
      PROVE  Budget'
  <2>1. CASE OnStdout(k)
    <3>1. CASE UNCHANGED <<session, call>>
      BY <1>1, <3>1 DEF session
    <3>2. ASSUME NEW r \in Asked(k), Settle(r, Part(k).line)
          PROVE  Budget'
      <4>1. r \in pending /\ r.to \in Call /\ call[r.to] # "idle"
        BY <3>2 DEF Asked, Settle, Types, Request, Addressee, Order
      <4>2. \A c \in Call : call'[c] = "idle" <=> call[c] = "idle"
        BY <3>2, <4>1 DEF Settle, Types
      <4> QED
        BY <3>2, <4>2, BudgetKept DEF Settle
    <3>3. ASSUME NEW r \in Asked(k), Refuse(r)
          PROVE  Budget'
      <4>1. \A c \in Call : call'[c] = "idle" <=> call[c] = "idle"
        BY <3>3 DEF Refuse, Order
      <4> QED
        BY <3>3, <4>1, BudgetKept DEF Refuse
    <3> QED
      BY <2>1, <3>1, <3>2, <3>3 DEF OnStdout
  <2>2. CASE OnHandshake(k)
    BY <2>2, BudgetKept DEF OnHandshake, Greet
  <2>3. CASE OnHandshakeBreaks(k) \/ OnExit(k) \/ OnClose(k)
    BY <1>1, <2>3 DEF OnHandshakeBreaks, OnExit, OnClose, Heard, Fail
  <2> QED
    BY <1>5, <2>1, <2>2, <2>3 DEF Event
<1> QED
  BY <1>2, <1>3, <1>4, <1>5 DEF Next

\* Identifiers only grow, so that what is numbered stays so.
LEMMA IdsGrow ==
    ASSUME IInv, IInv', [Next]_vars
    PROVE  nextRequestId' >= nextRequestId
<1>1. nextRequestId \in Nat /\ nextRequestId' \in Nat /\ Len(starting) \in Nat
  BY LenProperties DEF IInv, Types
<1>2. \/ nextRequestId' = nextRequestId
      \/ \E c \in Call : InvokeFirst(c) \/ InvokeSends(c)
      \/ nextRequestId' = nextRequestId + Len(starting)
  BY DEF Next, Invoke, InvokeWaits, InvokeBreaks, HostDown, Close, Event, OnStdout,
     Settle, Refuse, OnHandshake, Greet, OnHandshakeBreaks, OnExit, OnClose, Heard,
     Fail, Work, Answer, FinishLine, Leave, Die, Alone, session, vars
<1>3. ASSUME NEW c \in Call, InvokeFirst(c) \/ InvokeSends(c)
      PROVE  nextRequestId' = nextRequestId + 1
  BY <1>3 DEF InvokeFirst, InvokeSends, Sent
<1> QED
  BY <1>1, <1>2, <1>3

\* What a process still holds was sent with an identifier.
LEMMA PartIsNumbered ==
    ASSUME IInv, NEW k \in Child, proc[k].stdout # <<>>
    PROVE  Numbered(Part(k).line)
<1>1. Part(k).line \in LineType
  BY PartFacts DEF IInv
<1>2. Holds(k, Part(k).line.id, Part(k).line.to)
  BY PartFacts DEF Holds, IInv
<1> QED
  BY <1>1, <1>2 DEF IInv, Unique, Said, Numbered, LineType

LEMMA NextKeepsRest ==
    ASSUME IInv, IInv', Rest, [Next]_vars
    PROVE  Rest'
<1>1. nextRequestId \in Nat /\ nextRequestId' \in Nat /\ nextRequestId' >= nextRequestId
  BY IdsGrow DEF IInv, Types
<1>2. ASSUME NEW line, Numbered(line)
      PROVE  line \in LineType /\ line.id < nextRequestId'
  BY <1>1, <1>2 DEF Numbered, LineType
<1>3. ASSUME UNCHANGED buffer, host' \in {host, "down"}, crashes' \in 0 .. MaxCrash
      PROVE  Rest'
  BY <1>2, <1>3 DEF Rest, Numbered, buffer
<1>4. ASSUME NEW k \in Child, Read(k), UNCHANGED host
      PROVE  Rest'
  <2>1. Numbered(Part(k).line)
    BY <1>4, PartIsNumbered DEF Read
  <2>2. stdoutBuffer' \in {NoLine, Junk, Part(k).line} /\ garbled' \in BOOLEAN
    BY <1>4 DEF Read, Rest
  <2> QED
    BY <1>2, <1>4, <2>1, <2>2 DEF Rest, Numbered, Read
<1>5. CASE Invoke \/ Close \/ UNCHANGED vars
  BY <1>3, <1>5 DEF Invoke, InvokeFirst, InvokeWaits, InvokeSends, InvokeBreaks, Begin,
     HostDown, Close, vars, buffer, Rest
<1>6. ASSUME NEW k \in Child, Work(k) \/ Die(k)
      PROVE  Rest'
  <2>1. UNCHANGED <<buffer, host>>
    BY <1>6 DEF Work, Answer, FinishLine, Leave, Die, Alone
  <2>2. crashes' \in 0 .. MaxCrash
    BY <1>6, SessionAssumption DEF Work, Answer, FinishLine, Leave, Die, Rest
  <2> QED
    BY <1>3, <2>1, <2>2
<1>7. ASSUME NEW k \in Child, Event(k)
      PROVE  Rest'
  <2>1. CASE OnStdout(k) \/ OnHandshake(k)
    BY <1>4, <2>1 DEF OnStdout, OnHandshake, Settle, Refuse, Greet
  <2>2. CASE OnHandshakeBreaks(k) \/ OnExit(k) \/ OnClose(k)
    BY <1>3, <2>2 DEF OnHandshakeBreaks, OnExit, OnClose, Heard, HostDown, Rest
  <2> QED
    BY <1>7, <2>1, <2>2 DEF Event
<1> QED
  BY <1>5, <1>6, <1>7 DEF Next

LEMMA TypesBound ==
    ASSUME IInv, Budget, Rest
    PROVE  TypeOK
<1> USE DEF IInv
<1>1. PICK n \in 0 .. MaxCall :
         Len(starting) <= n /\ nextRequestId + Len(starting) <= 2 * n + 1
  BY DEF Budget
<1>2. Len(starting) \in Nat /\ nextRequestId \in Nat \ {0} /\ MaxCall \in Nat
  BY LenProperties, SessionAssumption DEF Types
<1>3. Len(starting) \in 0 .. MaxCall /\ nextRequestId \in 1 .. 2 * MaxCall + 1
  BY <1>1, <1>2
<1>4. starting \in BoundedSeq(Call, MaxCall)
  <2>1. starting \in [1 .. Len(starting) -> Call]
    BY LenProperties DEF Types
  <2> QED
    BY <1>3, <2>1 DEF BoundedSeq, SeqOf
<1>5. ASSUME NEW i \in Nat \ {0}, i < nextRequestId
      PROVE  i \in Id
  BY <1>2, <1>3, <1>5 DEF Id
<1>6. ASSUME NEW line, Numbered(line)
      PROVE  line \in Line
  BY <1>5, <1>6 DEF Numbered, LineType, Line, Addressee
<1>7. ASSUME NEW r \in pending
      PROVE  r \in [id : Id, to : Call \cup {Initialize}, at : Child]
  <2>1. r \in Request /\ Said(r.id, r.to)
    BY DEF Types, Said
  <2>2. r.id < nextRequestId
    BY <2>1 DEF Unique, Request
  <2> QED
    BY <1>5, <2>1, <2>2 DEF Request, Addressee
<1>8. ASSUME NEW k \in Child
      PROVE  /\ proc[k].state \in {"none", "up", "dead", "exited", "closed"}
             /\ proc[k].writing \in Line \cup {NoLine}
  <2>1. ASSUME proc[k].writing # NoLine
        PROVE  Numbered(proc[k].writing)
    <3>1. proc[k].writing \in LineType
      BY <2>1, ProcFields
    <3>2. Said(proc[k].writing.id, proc[k].writing.to)
      BY <2>1 DEF Said, Holds
    <3> QED
      BY <3>1, <3>2 DEF Unique, Numbered, LineType
  <2> QED
    BY <1>6, <2>1, ProcFields
<1>9. stdoutBuffer \in Line \cup {NoLine, Junk}
  BY <1>6 DEF Rest
<1> QED
  BY <1>3, <1>4, <1>7, <1>8, <1>9 DEF TypeOK, Types, Rest

\* Every variable of the session, its callers and its processes keeps its type,
\* and invoke() never needs more processes, or more identifiers, than one and two
\* for each invocation, however many processes die.
THEOREM TypeCorrect == Spec => []TypeOK
<1>1. Init => Budget /\ Rest
  <2> SUFFICES ASSUME Init PROVE Budget /\ Rest
    OBVIOUS
  <2>1. 0 \in 0 .. MaxCall /\ \A c \in Call : ~(c <= 0)
    BY SessionAssumption DEF Call
  <2>2. Len(starting) <= 0 /\ nextRequestId + Len(starting) <= 2 * 0 + 1
    BY EmptySeq DEF Init
  <2>3. Budget
    BY <2>1, <2>2 DEF Budget, Init
  <2>4. crashes \in 0 .. MaxCrash
    BY SessionAssumption DEF Init
  <2>5. stdoutBuffer = NoLine /\ garbled = FALSE /\ host = "up"
    BY DEF Init
  <2>6. Rest
    BY <2>4, <2>5 DEF Rest
  <2> QED
    BY <2>3, <2>6
<1>2. IInv /\ IInv' /\ Budget /\ Rest /\ [Next]_vars => Budget' /\ Rest'
  BY NextKeepsBudget, NextKeepsRest
<1>3. IInv /\ Budget /\ Rest => TypeOK
  BY TypesBound
<1> QED
  BY <1>1, <1>2, <1>3, SpecIInv, PTL DEF Spec
=============================================================================
