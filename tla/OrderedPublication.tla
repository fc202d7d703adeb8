------------------------- MODULE OrderedPublication -------------------------
(***************************************************************************)
(* What the analysis of a history, serial or parallel, promises to the rest *)
(* of the task: for every leaf of the source one output is accepted, once and *)
(* for all, and the accepted outputs are published in the order of the leaves. *)
(* A leaf is a place of the report: a node of a serial analysis, a work of a *)
(* parallel one.                                                           *)
(***************************************************************************)
EXTENDS Naturals, Sequences

CONSTANTS Leaves, Outputs

VARIABLES accepted,   \* the outputs ever accepted for each leaf
          published   \* the outputs published, leaf by leaf

vars == <<accepted, published>>

Init == accepted = [l \in 1..Leaves |-> {}] /\ published = <<>>

Accept(l, o) ==
    /\ accepted[l] = {} /\ accepted' = [accepted EXCEPT ![l] = {o}]
    /\ UNCHANGED published

Publish ==
    /\ Len(published) < Leaves
    /\ \E o \in accepted[Len(published) + 1] : published' = Append(published, o)
    /\ UNCHANGED accepted

Next == Publish \/ \E l \in 1..Leaves, o \in Outputs : Accept(l, o)
Spec == Init /\ [][Next]_vars
=============================================================================
