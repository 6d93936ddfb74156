--------------------------- MODULE MCPhotoPipeline ---------------------------
(* Three photos: 2 is near 1 and 3, which are not near each other. *)
EXTENDS PhotoPipeline

MCPhotos == 1..3
MCNear == {{1, 2}, {2, 3}}
MCSameScene == {{1, 3}, {2, 3}}
MCPhotoBudgets == {[withdraw |-> 2, differ |-> 0, unavailable |-> 0, error |-> 0],
                   [withdraw |-> 1, differ |-> 1, unavailable |-> 0, error |-> 0],
                   [withdraw |-> 0, differ |-> 1, unavailable |-> 1, error |-> 1]}
=============================================================================
