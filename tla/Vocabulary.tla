----------------------------- MODULE Vocabulary -----------------------------
(***************************************************************************)
(* What a KenLM vocabulary (lm::ngram::SortedVocabulary or                *)
(* ProbingVocabulary, src/kenlm/lm/vocab.cc) promises its callers, with    *)
(* no hash table, sort or file in it.                                      *)
(*                                                                         *)
(* While loading, the ARPA reader inserts words; the two spellings of the *)
(* unknown word are absorbed into id 0.  FinishedLoading numbers the      *)
(* distinct known words 1..n in an order of the implementation's choice   *)
(* and from then on Index is a fixed function: an inserted word maps to   *)
(* its id, every other string to 0.  A process that wrote the vocabulary  *)
(* to a binary file may exit ("down") and another may map the file; it    *)
(* then serves the same function again.                                   *)
(***************************************************************************)
EXTENDS Naturals, FiniteSets

CONSTANTS
  Words,     \* strings a caller may insert or look up
  Unknown    \* the spellings of <unk>: Index returns 0 for them

VARIABLES
  phase,     \* "loading", "served", "failed" or "down"
  words,     \* the distinct known words inserted
  ids        \* Index, as a function of the string; all 0 while loading

vars == <<phase, words, ids>>

NoIds == [w \in Words |-> 0]

(* The numberings FinishedLoading may choose: a bijection from the words  *)
(* onto 1..n, and 0 for every other string.                               *)
Numberings(S) ==
  {f \in [Words -> 0..Cardinality(S)] :
     /\ \A w \in Words \ S : f[w] = 0
     /\ {f[w] : w \in S} = 1..Cardinality(S)}

Init ==
  /\ phase = "loading"
  /\ words = {}
  /\ ids = NoIds

Insert(w) ==
  /\ phase = "loading"
  /\ w \notin Unknown
  /\ words' = words \cup {w}
  /\ UNCHANGED <<phase, ids>>

FinishLoading ==
  /\ phase = "loading"
  /\ phase' = "served"
  /\ ids' \in Numberings(words)
  /\ UNCHANGED words

(* The serving process exits after writing the binary file. *)
Stop ==
  /\ phase = "served"
  /\ phase' = "down"
  /\ UNCHANGED <<words, ids>>

(* A check the loader runs after FinishedLoading throws: the vocabulary  *)
(* is never used.                                                       *)
Fail ==
  /\ phase = "served"
  /\ phase' = "failed"
  /\ UNCHANGED <<words, ids>>

(* Another process maps the file and serves the same lookups. *)
Reload ==
  /\ phase = "down"
  /\ phase' = "served"
  /\ UNCHANGED <<words, ids>>

Next ==
  \/ \E w \in Words : Insert(w)
  \/ FinishLoading
  \/ Stop
  \/ Fail
  \/ Reload

Spec == Init /\ [][Next]_vars

=============================================================================
