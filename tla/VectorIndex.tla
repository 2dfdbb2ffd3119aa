---------------------------- MODULE VectorIndex ----------------------------
(***************************************************************************)
(* What a lane of search.db promises its readers: a table of texts under   *)
(* ids that are never given twice, and vectors attached to the texts.  A   *)
(* vector is only ever attached to a row that is there, it encodes that    *)
(* row's text, and a row goes away only once its vector has gone.          *)
(***************************************************************************)
EXTENDS Naturals

VARIABLES
  rows,  \* the texts, records with at least the fields id and text
  vecs,  \* the vectors, records with at least the fields id and text
  next   \* every id given so far is smaller

Init == rows = {} /\ vecs = {} /\ next = 1

\* A text gets an id nobody has had.
Add ==
  /\ \E x \in rows' : /\ x.id = next
                       /\ rows' = rows \cup {x}
  /\ next' = next + 1
  /\ UNCHANGED vecs

\* Some texts get a vector each, in place of the one they had.
Embed ==
  /\ \A v \in vecs' \ vecs : \E x \in rows : x.id = v.id /\ x.text = v.text
  /\ \A v \in vecs \ vecs' : \E w \in vecs' : w.id = v.id
  /\ UNCHANGED <<rows, next>>

\* Some texts lose their vectors.
Unembed == vecs' \subseteq vecs /\ UNCHANGED <<rows, next>>

\* Some texts without a vector go away.
Remove ==
  /\ rows' \subseteq rows
  /\ \A x \in rows \ rows', v \in vecs : v.id # x.id
  /\ UNCHANGED <<vecs, next>>

Next == Add \/ Embed \/ Unembed \/ Remove

Spec == Init /\ [][Next]_<<rows, vecs, next>>

=============================================================================
