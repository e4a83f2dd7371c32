---------------------------- MODULE AtomicIndex ----------------------------
(***************************************************************************)
(* What readers and editors of the knowledge base are promised: an index   *)
(* is replaced at once by all texts that were active at one moment, and an *)
(* answer is drawn from the index as it was when its retrieval began.      *)
(***************************************************************************)
CONSTANTS Rebuilders, Readers

VARIABLES active,  \* the texts of active documents
          taken,   \* the texts a rebuild has read
          served,  \* the texts of the index
          views    \* the texts a retrieval chooses from

vars == <<active, taken, served, views>>

NothingTaken == [open |-> FALSE, texts |-> {}]
NoView == [stage |-> "none", texts |-> {}]

Init ==
    /\ active = {} /\ served = {}
    /\ taken = [r \in Rebuilders |-> NothingTaken]
    /\ views = [q \in Readers |-> NoView]

Edit == UNCHANGED <<taken, served, views>>

Take(r) ==
    /\ ~ taken[r].open
    /\ taken' = [taken EXCEPT ![r] = [open |-> TRUE, texts |-> active]]
    /\ UNCHANGED <<active, served, views>>

Install(r) ==
    /\ taken[r].open
    /\ served' = taken[r].texts
    /\ taken' = [taken EXCEPT ![r] = NothingTaken]
    /\ UNCHANGED <<active, views>>

Drop(r) ==
    /\ taken[r].open
    /\ taken' = [taken EXCEPT ![r] = NothingTaken]
    /\ UNCHANGED <<active, served, views>>

Look(q) ==
    /\ views[q].stage = "none"
    /\ views' = [views EXCEPT ![q] = [stage |-> "looking", texts |-> served]]
    /\ UNCHANGED <<active, taken, served>>

Answer(q) ==
    /\ views[q].stage = "looking"
    /\ views' = [views EXCEPT ![q] = [stage |-> "answered", texts |-> views[q].texts]]
    /\ UNCHANGED <<active, taken, served>>

Forget(q) ==
    /\ views[q].stage # "none"
    /\ views' = [views EXCEPT ![q] = NoView]
    /\ UNCHANGED <<active, taken, served>>

Next ==
    \/ Edit
    \/ \E r \in Rebuilders : Take(r) \/ Install(r) \/ Drop(r)
    \/ \E q \in Readers : Look(q) \/ Answer(q) \/ Forget(q)

Spec == Init /\ [][Next]_vars
=============================================================================
