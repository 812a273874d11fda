------------------------------ MODULE RuleFlow ------------------------------
(***************************************************************************)
(* What the operator promises about the rules of one SLO, with nothing     *)
(* said of how: the users write versions of the SLO and of the SLI it      *)
(* refers to, each newer than the last; rules are built from a version     *)
(* that was written, mirrored for Mimir from rules that were built, and    *)
(* every place in Mimir serves a version that was built. No stage ever     *)
(* goes back to an older version.                                          *)
(***************************************************************************)
EXTENDS Naturals

CONSTANT Places   \* a place in Mimir: tenant and rule group

VARIABLES
    written,    \* the newest version of SLO and SLI
    built,      \* the version the PrometheusRule was built from
    mirrored,   \* the version of the MimirRule
    served      \* the version of the rules in each place

flow == <<written, built, mirrored, served>>

(* The writes of the SLO and of the SLI are numbered; None is the version  *)
(* of what is not there. An edit of the SLO may choose another indicator.  *)
AllVersions == Nat \X Nat
None == <<0, 0>>

AtMost(v, w) == v[1] < w[1] \/ (v[1] = w[1] /\ v[2] <= w[2])

From(v, w) == {x \in AllVersions : AtMost(v, x) /\ AtMost(x, w)}

Init ==
    /\ written \in AllVersions
    /\ built \in From(None, written)
    /\ mirrored \in From(None, built)
    /\ served \in [Places -> From(None, built)]

Edit ==
    /\ written' \in AllVersions /\ AtMost(written, written')
    /\ UNCHANGED <<built, mirrored, served>>

Build ==
    /\ built' \in From(built, written)
    /\ UNCHANGED <<written, mirrored, served>>

Mirror ==
    /\ mirrored' \in From(mirrored, built)
    /\ UNCHANGED <<written, built, served>>

Serve(p) ==
    /\ served'[p] \in From(served[p], built)
    /\ served' = [served EXCEPT ![p] = served'[p]]
    /\ UNCHANGED <<written, built, mirrored>>

Next == Edit \/ Build \/ Mirror \/ \E p \in Places : Serve(p)

Spec == Init /\ [][Next]_flow
=============================================================================
