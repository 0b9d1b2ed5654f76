------------------------- MODULE MCIncrementalVerifier -------------------------
(* Instances of IncrementalVerifier for TLC. *)
EXTENDS IncrementalVerifier

CONSTANTS a, b, s1, s2, p1, p2

Object(stmt, proof, refs) == [stmt |-> stmt, proof |-> proof, refs |-> refs]
Manuscript(objectA, objectB) == [c \in Claims |-> IF c = a THEN objectA ELSE objectB]

\* Theorem b refers to lemma a; the author restates the lemma.
Lemma == Object(s1, p1, {})
Theorem == Object(s1, p1, {a})
Restated == Object(s2, p1, {})
Restatement == {Manuscript(Lemma, Theorem), Manuscript(Restated, Theorem)}

\* ... or adds the reference to the lemma to the proof of the theorem.
AddedReference == {Manuscript(Lemma, Lemma), Manuscript(Lemma, Theorem)}

\* ... or removes the proof of the lemma, restates the theorem so that it stands by
\* itself, or cuts the lemma out.
Conjecture == Object(s1, Absent, {})
Independent == Object(s2, p1, {})
Edits == AddedReference \cup
         {Manuscript(Conjecture, Theorem), Manuscript(Conjecture, Independent),
          Manuscript(Absent, Independent)}

\* A lemma alone, with and without its proof, or with another one.
Single == {[c \in Claims |-> Lemma], [c \in Claims |-> Conjecture],
           [c \in Claims |-> Object(s1, p2, {})]}
===============================================================================
