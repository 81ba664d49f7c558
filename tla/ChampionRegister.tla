-------------------------- MODULE ChampionRegister --------------------------
(***************************************************************************)
(* What the version store promises to everyone who asks for the champion:  *)
(* one register that changes from one champion to the next in one step,    *)
(* never to none, and a lineage that only grows, every child after its     *)
(* parent.  ImproveLoop implements it.                                     *)
(***************************************************************************)
CONSTANTS Lineages,         \* the versions there may be
          Parent(_),        \* the version a version descends from
          Root              \* the version that descends from none

VARIABLES recorded,   \* the versions of the lineage
          champion    \* the singleton of the champion, or {} before the first

vars == <<recorded, champion>>

Init == \/ recorded = {} /\ champion = {}
        \/ recorded = {Root} /\ champion = {Root}

Crown(v) == /\ v = Root \/ Parent(v) \in recorded
            /\ recorded' = recorded \cup {v}
            /\ champion' = {v}

Next == \E v \in Lineages : Crown(v)

Spec == Init /\ [][Next]_vars
=============================================================================
