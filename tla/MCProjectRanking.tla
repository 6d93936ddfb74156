-------------------------- MODULE MCProjectRanking --------------------------
(* Four files among three projects, samples of two; and a few projects that  *)
(* have every signal.                                                        *)
EXTENDS ProjectRanking

Bare == [files |-> {}, paths |-> {}, entities |-> {}, terms |-> {}, meaning |-> 0]
MCAlike == [a \in 1..2, b \in 1..2 |-> IF a = b THEN 100 ELSE 70]
Full == { [Bare EXCEPT !.files = {1, 2}, !.paths = {1, 3}, !.terms = {1, 2}, !.meaning = 1],
          [Bare EXCEPT !.paths = {1, 2, 3}, !.entities = {2, 4}, !.terms = {2, 3}],
          [Bare EXCEPT !.entities = {1, 2}, !.meaning = 2],
          [Bare EXCEPT !.files = {2, 3, 4}, !.entities = {1, 3}, !.terms = {1}, !.meaning = 1] }

BareShelf == [p \in {1, 2, 3} |-> Bare]
MCShelves == {BareShelf}
             \cup [{1, 2, 3} -> {[Bare EXCEPT !.files = fs] : fs \in {{1, 2}, {2, 3}, {1, 3, 4}, {1, 2, 3, 4}}}]
             \cup [{1, 2, 3} -> Full]
=============================================================================
