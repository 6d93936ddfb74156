--------------------------- MODULE MCReadingQueue ---------------------------
(* Small instances of the extraction worker, checked side by side.           *)
EXTENDS ReadingQueue

CONSTANTS f1, f2, f3, f4, w1, w2, m1, m2

MCKind == [f \in File |-> CASE f = f1 -> "pdf" [] f \in {f2, f4} -> "chat" [] OTHER -> "image"]

\* A document and a message in one daemon, with a crash and an error; two
\* messages and a re-read; a document with all of these; an image; a message
\* read again by two models in turn, and one that two daemons read.
MCScenario ==
    {[files |-> {f1, f2}, workers |-> {w1}, models |-> {m1}, jobs |-> 0, crashes |-> 1, errors |-> 1],
     [files |-> {f2, f4}, workers |-> {w1}, models |-> {m1}, jobs |-> 1, crashes |-> 0, errors |-> 0],
     [files |-> {f1}, workers |-> {w1}, models |-> {m1}, jobs |-> 1, crashes |-> 1, errors |-> 1],
     [files |-> {f3}, workers |-> {w1}, models |-> {m1}, jobs |-> 1, crashes |-> 1, errors |-> 1],
     [files |-> {f2}, workers |-> {w1}, models |-> {m1, m2}, jobs |-> 2, crashes |-> 1, errors |-> 0],
     [files |-> {f2}, workers |-> {w1, w2}, models |-> {m1}, jobs |-> 1, crashes |-> 0, errors |-> 0]}
=============================================================================
