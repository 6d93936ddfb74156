---------------------------- MODULE ProjectWords ----------------------------
(***************************************************************************)
(* The vocabulary the signatures of projects share: every word is stored   *)
(* once, under a number.  A number is given out, counted as signatures     *)
(* take, copy and drop their words, and given to another word once no      *)
(* signature has it.  Requests hold signatures of their own, so they come  *)
(* and go in any order; each step holds the lock on the vocabulary.        *)
(*                                                                         *)
(* Names are interned in the same way, without numbers; they are left out. *)
(***************************************************************************)
EXTENDS Integers, FiniteSets, Sequences, SequencesExt

CONSTANTS
    Vocable,   \* words there may be, in their order
    Holder     \* places for a signature's Terms

ASSUME WordsAssumption == Vocable \subseteq Nat \ {0} /\ IsFiniteSet(Vocable)

NoWord == 0

VARIABLES
    words,     \* the Words table: [ids, words, uses, free]
    terms,     \* the numbers each holder has
    meant      \* history: the words it was made with

wordsVars == <<words, terms, meant>>

WordsInit ==
    /\ words = [ids |-> <<>>, words |-> <<>>, uses |-> <<>>, free |-> <<>>]
    /\ terms = [h \in Holder |-> {}] /\ meant = [h \in Holder |-> {}]

\* Words::take
NewIdOf(w) == IF w.free # <<>> THEN Last(w.free) ELSE Len(w.words) + 1

TakeNew(w, word) ==
    LET id == NewIdOf(w)
        reused == w.free # <<>>
    IN  [ids |-> [v \in DOMAIN w.ids \cup {word} |-> IF v = word THEN id ELSE w.ids[v]],
         words |-> IF reused THEN [w.words EXCEPT ![id] = word] ELSE Append(w.words, word),
         uses |-> IF reused THEN [w.uses EXCEPT ![id] = 1] ELSE Append(w.uses, 1),
         free |-> IF reused THEN Front(w.free) ELSE w.free]

Take(w, word) == IF word \in DOMAIN w.ids THEN [w EXCEPT !.uses[w.ids[word]] = @ + 1] ELSE TakeNew(w, word)

Forget(w, id) ==
    [w EXCEPT !.ids = [v \in DOMAIN @ \ {w.words[id]} |-> @[v]],
              !.words[id] = NoWord, !.free = Append(@, id)]

\* Words::drop_use
DropUse(w, id) ==
    LET one == [w EXCEPT !.uses[id] = @ - 1]
    IN  IF one.uses[id] = 0 THEN Forget(one, id) ELSE one

Ordered(s) == SetToSortSeq(s, LAMBDA a, b : a < b)

\* Terms::new, a signature without words included.
MakeTerms(h, ws) ==
    /\ terms[h] = {}
    /\ LET taken == FoldLeft(Take, words, Ordered(ws))
       IN  /\ words' = taken
           /\ terms' = [terms EXCEPT ![h] = {taken.ids[w] : w \in ws}]
    /\ meant' = [meant EXCEPT ![h] = ws]

CopyCounted(w, ids) == [w EXCEPT !.uses = [i \in DOMAIN @ |-> IF i \in ids THEN @[i] + 1 ELSE @[i]]]

\* Terms::clone: when a project is renamed while a request has its signature.
CopyTerms(g, h) ==
    /\ terms[g] # {} /\ terms[h] = {}
    /\ words' = CopyCounted(words, terms[g])
    /\ terms' = [terms EXCEPT ![h] = terms[g]] /\ meant' = [meant EXCEPT ![h] = meant[g]]

\* Terms::drop
DropTerms(h) ==
    /\ terms[h] # {}
    /\ words' = FoldLeft(DropUse, words, Ordered(terms[h]))
    /\ terms' = [terms EXCEPT ![h] = {}] /\ meant' = [meant EXCEPT ![h] = {}]

WordsNext == \E h \in Holder :
    \/ \E ws \in (SUBSET Vocable) \ {{}} : MakeTerms(h, ws)
    \/ \E g \in Holder : CopyTerms(g, h)
    \/ DropTerms(h)

WordsSpec == WordsInit /\ [][WordsNext]_wordsVars

-----------------------------------------------------------------------------
WordsTypeOK ==
    /\ Len(words.words) = Len(words.uses) /\ Len(words.words) <= Cardinality(Vocable)
    /\ \A i \in DOMAIN words.words : words.words[i] \in Vocable \cup {NoWord} /\ words.uses[i] \in Nat
    /\ \A h \in Holder : terms[h] \subseteq DOMAIN words.words
    /\ \A i \in DOMAIN words.free : \A j \in DOMAIN words.free : words.free[i] = words.free[j] => i = j

\* The numbers a signature holds stand for the words it was made with for as
\* long as it lives, whatever other signatures took and dropped (Words: "its
\* id reused").
NumbersKeepTheirWords ==
    \A h \in Holder : {words.words[i] : i \in terms[h]} = meant[h]

\* The vocabulary is that of the signatures that live: no word is under two
\* numbers, none stays behind, and a number is free or used (Words: "only ever
\* that of the projects being compared").
VocabularyIsInUse ==
    /\ DOMAIN words.ids = UNION {meant[h] : h \in Holder}
    /\ \A v \in DOMAIN words.ids : words.words[words.ids[v]] = v
    /\ \A i \in DOMAIN words.words :
         /\ words.uses[i] = Cardinality({h \in Holder : i \in terms[h]})
         /\ (words.uses[i] = 0) = (\E j \in DOMAIN words.free : words.free[j] = i)
=============================================================================
