------------------------------ MODULE AtomicEdit ------------------------------
(***************************************************************************)
(* What a durable edit promises about one file, whatever is interrupted:   *)
(* the file changes only while an edit is open, only between the content   *)
(* the edit found and the content it brings, in one step; an edit ends     *)
(* committed only with the new content in place, and rolled back only with *)
(* the old one.                                                            *)
(***************************************************************************)
CONSTANTS Op, Content, Absent, Initial

VARIABLES file, edit

None == [state |-> "none", old |-> Absent, new |-> Absent]

Is(o, state) == edit[o].state = state

Open(o, new) ==
    /\ Is(o, "none")
    /\ \A other \in Op : ~Is(other, "open")
    /\ edit' = [edit EXCEPT ![o] = [state |-> "open", old |-> file, new |-> new]]
    /\ UNCHANGED file

Install(o) ==
    /\ Is(o, "open") /\ file = edit[o].old
    /\ file' = edit[o].new
    /\ UNCHANGED edit

Restore(o) ==
    /\ Is(o, "open") /\ file = edit[o].new
    /\ file' = edit[o].old
    /\ UNCHANGED edit

Commit(o) ==
    /\ Is(o, "open") /\ file = edit[o].new
    /\ edit' = [edit EXCEPT ![o].state = "committed"]
    /\ UNCHANGED file

Abandon(o) ==
    /\ Is(o, "open") /\ file = edit[o].old
    /\ edit' = [edit EXCEPT ![o].state = "rolled_back"]
    /\ UNCHANGED file

Init ==
    /\ file = Initial
    /\ edit = [o \in Op |-> None]

Next ==
    \E o \in Op :
       \/ \E new \in Content : Open(o, new)
       \/ Install(o) \/ Restore(o) \/ Commit(o) \/ Abandon(o)

Spec == Init /\ [][Next]_<<file, edit>>
=============================================================================
