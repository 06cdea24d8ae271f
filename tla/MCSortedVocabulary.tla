------------------------- MODULE MCSortedVocabulary -------------------------
(* Instantiates SortedVocabulary with four special spellings and two      *)
(* ordinary words whose hashes sort in a different order than the words   *)
(* are read, so the sort really permutes ids.                             *)
EXTENDS SortedVocabulary

MCWords == {"<unk>", "<UNK>", "<s>", "</s>", "the", "cat"}

(* Distinct stand-ins for MurmurHash64A of each word. *)
MCVocabHash ==
  [w \in MCWords |->
     CASE w = "<unk>" -> 10 [] w = "<UNK>" -> 11 [] w = "<s>" -> 5
       [] w = "</s>"  -> 3  [] w = "the"   -> 8  [] OTHER    -> 2]

(* Whatever an uninitialised bound_ happens to hold. *)
MCGarbage == {0, 7}

(* Every combination of the two special-word policies. *)
MCConfigs == Config
=============================================================================
