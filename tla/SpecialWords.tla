---------------------------- MODULE SpecialWords ----------------------------
(***************************************************************************)
(* The special-word policy of src/kenlm/lm/vocab.cc: MissingUnknown and    *)
(* MissingSentenceMarker, and the check the ARPA loader runs with them     *)
(* once the unigrams are in the vocabulary (CheckSpecials, lm/vocab.hh,   *)
(* which is not under src/ and follows spec 4.5).                          *)
(*                                                                         *)
(* A policy either lets the load go on (SILENT; COMPLAIN, which only      *)
(* writes to config.messages when it is set) or throws                     *)
(* SpecialWordMissingException (THROW_UP).  The wording of the messages   *)
(* is left out: no state depends on it.                                   *)
(***************************************************************************)

Policies == {"SILENT", "COMPLAIN", "THROW_UP"}

(* The two fields of lm::ngram::Config the policy reads. *)
Config == [unknown_missing : Policies, sentence_marker_missing : Policies]

(* The special words CheckSpecials looks for. *)
Specials == {"<unk>", "<s>", "</s>"}

(* Which special words an ARPA file whose unigrams are ws lacks: <unk>   *)
(* counts as present under either spelling the code recognises.          *)
MissingIn(ws) ==
  [t \in Specials |->
     IF t = "<unk>" THEN ws \cap {"<unk>", "<UNK>"} = {} ELSE t \notin ws]

(* The policy a missing special falls under. *)
PolicyFor(config, tok) ==
  IF tok = "<unk>" THEN config.unknown_missing ELSE config.sentence_marker_missing

(* MissingUnknown(config): TRUE when it throws. *)
MissingUnknown(config) ==
  CASE config.unknown_missing = "SILENT"   -> FALSE
    [] config.unknown_missing = "COMPLAIN" -> FALSE
    [] config.unknown_missing = "THROW_UP" -> TRUE

(* Mutant: THROW_UP handled like COMPLAIN for sentence markers. *)
MissingSentenceMarkerNoThrow(config, str) == FALSE

(* MissingSentenceMarker(config, str): TRUE when it throws. *)
MissingSentenceMarker(config, str) ==
  CASE config.sentence_marker_missing = "SILENT"   -> FALSE
    [] config.sentence_marker_missing = "COMPLAIN" -> FALSE
    [] config.sentence_marker_missing = "THROW_UP" -> TRUE

(***************************************************************************)
(* CheckSpecials(config, vocab): if !SawUnk() MissingUnknown; if           *)
(* BeginSentence() is NotFound() (0) MissingSentenceMarker("<s>"); the     *)
(* same for EndSentence() and "</s>".  The first throw ends it.  TRUE when *)
(* it throws.                                                              *)
(***************************************************************************)
CheckSpecials(config, sawUnk, special) ==
  \/ ~sawUnk /\ MissingUnknown(config)
  \/ special.bos = 0 /\ MissingSentenceMarker(config, "<s>")
  \/ special.eos = 0 /\ MissingSentenceMarker(config, "</s>")

=============================================================================
