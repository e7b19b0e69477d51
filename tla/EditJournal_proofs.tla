-------------------------- MODULE EditJournal_proofs --------------------------
(***************************************************************************)
(* What EditJournal promises, for every set of identifiers, targets and    *)
(* contents.                                                               *)
(***************************************************************************)
EXTENDS EditJournal, TLAPS

\* A row can be told from its absence by its phase.
LEMMA RowFacts ==
    /\ \A row \in Row : row # NoRow /\ row.phase \in Phase
    /\ NoRow.phase \notin Phase
    /\ Active \subseteq Phase /\ Terminal \subseteq Phase
    /\ Active \cap Terminal = {}
BY DEF Row, NoRow, Phase, Active, Terminal

\* A transition that is accepted for an active phase leads to a phase, and no
\* transition leads back into an active phase from outside the active ones.
LEMMA TransitionFacts ==
    ASSUME NEW from \in Phase, NEW to \in Phase, CanTransition(from, to)
    PROVE  from \in Active
BY DEF CanTransition, Phase, Active, Terminal

\* Setting the phase of a row gives a row that differs in nothing else.
LEMMA SetPhase ==
    ASSUME NEW row \in Row, NEW next \in Phase
    PROVE  /\ [row EXCEPT !.phase = next] \in Row
           /\ [row EXCEPT !.phase = next].phase = next
           /\ [row EXCEPT !.phase = next].path = row.path
           /\ [row EXCEPT !.phase = next].kind = row.kind
           /\ [row EXCEPT !.phase = next].old = row.old
           /\ [row EXCEPT !.phase = next].new = row.new
BY DEF Row

-----------------------------------------------------------------------------
\* Type correctness: every row keeps the shape the schema demands.

LEMMA InitTypeOK == Init => TypeOK
BY DEF Init, TypeOK, Exists

LEMMA NextTypeOK ==
    ASSUME TypeOK, [Next]_journal
    PROVE  TypeOK'
<1>1. CASE UNCHANGED journal
  BY <1>1 DEF TypeOK, Exists
<1>2. ASSUME NEW o \in Op, NEW row \in Row, CreateEditOperation(o, row)
      PROVE  TypeOK'
  BY <1>2, RowFacts DEF CreateEditOperation, CanCreate, TypeOK, Exists
<1>3. ASSUME NEW o \in Op, NEW expected \in Phase, NEW next \in Phase,
             TransitionEditOperation(o, expected, next)
      PROVE  TypeOK'
  <2>1. journal[o] \in Row
    BY <1>3 DEF TransitionEditOperation, TransitionAccepted, TypeOK, Exists
  <2>2. journal' = [journal EXCEPT ![o] = [journal[o] EXCEPT !.phase = next]]
    BY <1>3 DEF TransitionEditOperation
  <2> QED
    BY <2>1, <2>2, SetPhase, RowFacts DEF TypeOK, Exists
<1>4. ASSUME NEW o \in Op, DeleteEditOperation(o)
      PROVE  TypeOK'
  BY <1>4 DEF DeleteEditOperation, TypeOK, Exists
<1>5. ASSUME NEW paths \in SUBSET Path, DeleteProject(paths)
      PROVE  TypeOK'
  BY <1>5 DEF DeleteProject, TypeOK, Exists
<1> QED
  BY <1>1, <1>2, <1>3, <1>4, <1>5 DEF Next

\* The journal is well typed in every reachable state.
THEOREM TypeCorrect == Spec => []TypeOK
BY InitTypeOK, NextTypeOK, PTL DEF Spec

-----------------------------------------------------------------------------
\* One active operation per target.

LEMMA NextOneActive ==
    ASSUME TypeOK, OneActivePerTarget, [Next]_journal
    PROVE  OneActivePerTarget'
<1>1. CASE UNCHANGED journal
  BY <1>1 DEF OneActivePerTarget, IsActive
<1>2. ASSUME NEW o \in Op, NEW row \in Row, CreateEditOperation(o, row)
      PROVE  OneActivePerTarget'
  BY <1>2 DEF CreateEditOperation, CanCreate, OneActivePerTarget, IsActive, TypeOK
<1>3. ASSUME NEW o \in Op, NEW expected \in Phase, NEW next \in Phase,
             TransitionEditOperation(o, expected, next)
      PROVE  OneActivePerTarget'
  <2>1. journal[o] \in Row
    BY <1>3 DEF TransitionEditOperation, TransitionAccepted, TypeOK, Exists
  <2>2. journal' = [journal EXCEPT ![o] = [journal[o] EXCEPT !.phase = next]]
    BY <1>3 DEF TransitionEditOperation
  <2>3. journal'[o].path = journal[o].path /\ journal'[o].phase = next
    BY <2>1, <2>2, SetPhase DEF TypeOK
  <2>4. next \in Active => IsActive(o)
    <3>1. CASE journal[o].phase = next
      BY <3>1 DEF IsActive
    <3>2. CASE journal[o].phase = expected /\ CanTransition(expected, next)
      BY <3>2, TransitionFacts DEF IsActive
    <3> QED
      BY <1>3, <3>1, <3>2 DEF TransitionEditOperation, TransitionAccepted
  <2>5. \A other \in Op \ {o} : journal'[other] = journal[other]
    BY <2>2 DEF TypeOK
  <2>6. \A any \in Op : IsActive(any)' =>
           IsActive(any) /\ journal'[any].path = journal[any].path
    BY <2>3, <2>4, <2>5 DEF IsActive
  <2> QED
    BY <2>6 DEF OneActivePerTarget
<1>4. ASSUME NEW o \in Op, DeleteEditOperation(o)
      PROVE  OneActivePerTarget'
  <2>1. \A any \in Op : IsActive(any)' =>
           IsActive(any) /\ journal'[any] = journal[any]
    BY <1>4, RowFacts DEF DeleteEditOperation, IsActive, TypeOK
  <2> QED
    BY <2>1 DEF OneActivePerTarget
<1>5. ASSUME NEW paths \in SUBSET Path, DeleteProject(paths)
      PROVE  OneActivePerTarget'
  <2>1. \A any \in Op : IsActive(any)' =>
           IsActive(any) /\ journal'[any] = journal[any]
    BY <1>5, RowFacts DEF DeleteProject, IsActive, TypeOK
  <2> QED
    BY <2>1 DEF OneActivePerTarget
<1> QED
  BY <1>1, <1>2, <1>3, <1>4, <1>5 DEF Next

\* Whatever the callers do, a target never has two active operations: the store
\* check and the unique index hold through forward phases and rollbacks alike.
THEOREM OneActive == Spec => []OneActivePerTarget
<1>1. Init => OneActivePerTarget
  BY RowFacts DEF Init, OneActivePerTarget, IsActive
<1> QED
  BY <1>1, TypeCorrect, NextOneActive, PTL DEF Spec

-----------------------------------------------------------------------------
\* Rows only advance.

\* Between two states of a row there is one step of the automaton or none, and
\* everything else it recorded stays.
THEOREM OnlyAdvance == Spec => RowsOnlyAdvance
<1> DEFINE Advance ==
      \A o \in Op : Exists(o) /\ Exists(o)' =>
         /\ \/ journal'[o].phase = journal[o].phase
            \/ CanTransition(journal[o].phase, journal'[o].phase)
         /\ journal'[o] = [journal[o] EXCEPT !.phase = journal'[o].phase]
<1>1. ASSUME TypeOK, Next
      PROVE  Advance
  <2>0. \A row \in Row : row = [row EXCEPT !.phase = row.phase]
    BY DEF Row
  <2>1. ASSUME NEW o \in Op, NEW row \in Row, CreateEditOperation(o, row)
        PROVE  Advance
    BY <1>1, <2>0, <2>1 DEF CreateEditOperation, CanCreate, TypeOK, Exists
  <2>2. ASSUME NEW o \in Op, NEW expected \in Phase, NEW next \in Phase,
               TransitionEditOperation(o, expected, next)
        PROVE  Advance
    <3>1. journal[o] \in Row
      BY <1>1, <2>2 DEF TransitionEditOperation, TransitionAccepted, TypeOK, Exists
    <3>2. journal' = [journal EXCEPT ![o] = [journal[o] EXCEPT !.phase = next]]
      BY <2>2 DEF TransitionEditOperation
    <3>3. journal'[o] = [journal[o] EXCEPT !.phase = next] /\ journal'[o].phase = next
      BY <1>1, <3>1, <3>2, SetPhase DEF TypeOK
    <3>4. \A other \in Op \ {o} : journal'[other] = journal[other]
      BY <1>1, <3>2 DEF TypeOK
    <3> QED
      BY <1>1, <2>0, <2>2, <3>3, <3>4
      DEF TransitionEditOperation, TransitionAccepted, TypeOK, Exists
  <2>3. ASSUME NEW o \in Op, DeleteEditOperation(o)
        PROVE  Advance
    BY <1>1, <2>0, <2>3 DEF DeleteEditOperation, TypeOK, Exists
  <2>4. ASSUME NEW paths \in SUBSET Path, DeleteProject(paths)
        PROVE  Advance
    BY <1>1, <2>0, <2>4 DEF DeleteProject, TypeOK, Exists
  <2> QED
    BY <1>1, <2>1, <2>2, <2>3, <2>4 DEF Next
<1>2. TypeOK /\ [Next]_journal => [Advance]_journal
  BY <1>1
<1> QED
  BY <1>2, TypeCorrect, PTL DEF Spec, RowsOnlyAdvance
=============================================================================
