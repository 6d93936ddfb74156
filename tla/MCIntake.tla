------------------------------ MODULE MCIntake ------------------------------
(* Two files, one of them an archive of a document and an export, one that  *)
(* Gather cannot read, and a session of two messages of which a copy may be *)
(* dropped in the inbox.                                                    *)
EXTENDS Intake

MCSaid == <<"hello", "again">>
MCContent == {"archive", "note", "junk", "copy"}
MCParts == [c \in MCContent |-> CASE c = "archive" -> <<{"export"}, {"page"}>>
                                  [] c = "note" -> <<{"page"}>>
                                  [] c = "copy" -> <<{"hello"}>>
                                  [] OTHER -> <<>>]
Budget(drops, uploads, says, errors, crashes) ==
    [w \in Worldly |-> CASE w = "drop" -> drops [] w = "upload" -> uploads [] w = "say" -> says
                         [] w = "error" -> errors [] OTHER -> crashes]
\* Files only, with errors and a crash; the session only; a session that also
\* comes as an upload and as a file.
MCBudgets == {Budget(3, 0, 0, 0, 0), Budget(2, 0, 0, 1, 1), Budget(0, 0, 4, 1, 1),
              Budget(1, 1, 3, 0, 0)}
=============================================================================
