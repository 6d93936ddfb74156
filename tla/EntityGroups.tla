----------------------------- MODULE EntityGroups -----------------------------
(***************************************************************************)
(* What merging promises, without pointers, journals, names and requests.  *)
(* Each merge is a link between two entities, and entities joined by a     *)
(* chain of links are one.  Undoing a merge takes its link away and parts  *)
(* the two: what stays together is what the other merges say, in whatever  *)
(* order merges were made and are undone.                                  *)
(***************************************************************************)
CONSTANT Entity

VARIABLES
    links,  \* the pairs merged, and not taken apart since
    group   \* group[x]: the entities that x is one with

groupsVars == <<links, group>>

Closed(S, pairs) == \A p \in pairs : p \cap S # {} => p \subseteq S

\* What a chain of pairs leads to from x: it lies in every set that has x and
\* no pair half.
Chained(x, pairs) ==
    {y \in Entity : \A S \in SUBSET Entity : x \in S /\ Closed(S, pairs) => y \in S}

Groups(pairs) == [x \in Entity |-> Chained(x, pairs)]

GroupsInit ==
    /\ links = {}
    /\ group = [x \in Entity |-> {x}]

Join(x, y) ==
    /\ links' = links \cup {{x, y}}
    /\ group' = Groups(links')

Part(x, y) ==
    /\ links' = links \ {{x, y}}
    /\ group' = Groups(links')
    /\ y \notin group'[x]

\* Two that are one already are not joined, and only what is linked is parted.
GroupsNext ==
    \E x \in Entity :
       \/ \E y \in Entity \ group[x] : Join(x, y)
       \/ \E y \in {y \in Entity : {x, y} \in links} : Part(x, y)

GroupsSpec == GroupsInit /\ [][GroupsNext]_groupsVars
=============================================================================
