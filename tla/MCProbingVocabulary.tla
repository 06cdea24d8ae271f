------------------------ MODULE MCProbingVocabulary ------------------------
(* Instantiates ProbingVocabulary with a 6-slot table (4 entries at       *)
(* multiplier 1.5) and hashes whose home slots collide at the last slot,  *)
(* so probing must wrap to slot 0.                                        *)
EXTENDS ProbingVocabulary

MCWords == {"<unk>", "<UNK>", "<s>", "</s>", "the", "cat"}

(* Stand-ins for MurmurHash64A: home slots the 5, cat 5, <s> 5, </s> 0. *)
MCVocabHash ==
  [w \in MCWords |->
     CASE w = "<unk>" -> 10 [] w = "<UNK>" -> 22 [] w = "<s>" -> 5
       [] w = "</s>"  -> 6  [] w = "the"   -> 11 [] OTHER    -> 17]
(* Every combination of the two special-word policies. *)
MCConfigs == Config
=============================================================================
