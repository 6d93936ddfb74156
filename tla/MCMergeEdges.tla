----------------------------- MODULE MCMergeEdges -----------------------------
(* Units and edges, in two deployments: with the clustering worker, and with *)
(* GATHER_CLUSTER_ENABLED=false, where people's merges are all there is and  *)
(* the bound allows one request more.                                        *)
EXTENDS MCEntityMerge

CONSTANT RequestsWithWorker  \* bound on the requests where the worker runs

VARIABLE clusterEnabled

EdgesInit == Init /\ clusterEnabled \in BOOLEAN

EdgesNext ==
    /\ \/ clusterEnabled /\ Next /\ clock' <= RequestsWithWorker
       \/ ~clusterEnabled /\ PeopleNext
    /\ UNCHANGED clusterEnabled

EdgesSpec == EdgesInit /\ [][EdgesNext]_<<vars, clusterEnabled>>

\* With the worker off and one person merging, also an edge that a merge deleted
\* as a self-loop comes back where it belongs (merge_entities_in, unmerge_core).
PeoplesLoopsFollowHeads == ~clusterEnabled => LoopsFollowHeads
=============================================================================
