------------------------- MODULE ProbingVocabulary -------------------------
(***************************************************************************)
(* lm::ngram::ProbingVocabulary (src/kenlm/lm/vocab.cc) over the          *)
(* open-addressing util::ProbingHashTable, driven by the loader that      *)
(* builds it from an ARPA file, optionally writes the binary file, and    *)
(* later maps that file in a new process.                                  *)
(*                                                                         *)
(* The mapped region is the header (version, bound) followed by the table *)
(* of Buckets slots; with the word stream wordsFile it survives Restart.  *)
(* The hash table itself (probing_hash_table.hh) is not under src/: its   *)
(* operators follow spec 4.3.                                              *)
(***************************************************************************)
EXTENDS Naturals, Sequences, FiniteSets, TLC, SpecialWords

CONSTANTS
  Words,          \* strings the ARPA reader may pass to Insert
  VocabHash,      \* detail::HashForVocab restricted to Words
  MaxEntries,     \* unigram count given to Size and SetupMemory
  MultNum,        \* config.probing_multiplier = MultNum / MultDen
  MultDen,
  FileVersions,   \* probing versions a binary file found on disk may carry
  Unset,          \* a special-word id SetSpecial has not written yet
  Configs         \* the special-word policies a process may be configured with

ASSUME {"<unk>", "<UNK>", "<s>", "</s>"} \subseteq Words
ASSUME VocabHash \in [Words -> Nat \ {0}]
ASSUME \A a, b \in Words : VocabHash[a] = VocabHash[b] => a = b
ASSUME MaxEntries \in Nat \ {0}
ASSUME MultNum \in Nat /\ MultDen \in Nat \ {0}
ASSUME Configs \subseteq Config

kProbingVocabularyVersion == 0
ASSUME kProbingVocabularyVersion \in FileVersions

(***************************************************************************)
(* util::ProbingHashTable (spec 4.3).  Slot value Empty is the invalid    *)
(* key; Buckets is Lookup::Size(entries, multiplier) / sizeof(Entry).     *)
(***************************************************************************)
Buckets == LET scaled == (MultNum * MaxEntries) \div MultDen IN
           IF scaled > MaxEntries + 1 THEN scaled ELSE MaxEntries + 1
Slots == 0..(Buckets - 1)
Empty == [key |-> 0, value |-> 0]
Home(h) == h % Buckets
NextSlot(i) == (i + 1) % Buckets

(* First empty slot at or after i, wrapping at the end of the table. *)
RECURSIVE FreeSlot(_, _)
FreeSlot(t, i) == IF t[i] = Empty THEN i ELSE FreeSlot(t, NextSlot(i))

(* Probe from i until the key or an empty slot: the value, or 0 on miss. *)
RECURSIVE Probe(_, _, _)
Probe(t, h, i) ==
  CASE t[i] = Empty -> 0
    [] t[i].key = h -> t[i].value
    [] OTHER        -> Probe(t, h, NextSlot(i))

(* Mutant: inserting at the home slot without probing for a free one. *)
TableInsertNoProbe(t, h, v) == [t EXCEPT ![Home(h)] = [key |-> h, value |-> v]]
TableInsert(t, h, v) == [t EXCEPT ![FreeSlot(t, Home(h))] = [key |-> h, value |-> v]]
TableFind(t, h) == Probe(t, h, Home(h))

VARIABLES
  header,      \* detail::ProbingVocabularyHeader in the mapped region
  table,       \* the Lookup's slots in the mapped region
  wordsFile,   \* null-terminated words appended by WriteWordsWrapper::Write
  proc,        \* "build" (reads ARPA) or "reload" (maps the binary)
  pc,          \* where the driving loader is
  bound,       \* bound_
  sawUnk,      \* saw_unk_
  enumerate,   \* enumerate_: "none" (NULL), "sink", or a WriteWordsWrapper
  special,     \* begin_sentence_, end_sentence_ set by SetSpecial
  sinkLog,     \* Add(index, str) calls received by enumerate_, in order
  readWords,   \* words the ARPA reader has inserted so far
  given,       \* history: the id each Insert call returned
  built,       \* history: lookups, bound and enumeration of the build
  config       \* the process's lm::ngram::Config

fileVars == <<header, table, wordsFile>>
vars == <<fileVars, config, proc, pc, bound, sawUnk, enumerate, special, sinkLog,
          readWords, given, built>>

kUnknownHash == VocabHash["<unk>"]
kUnknownCapHash == VocabHash["<UNK>"]
(* Mutant: recognising only the lower-case spelling <unk>. *)
IsUnknownHashNoCap(h) == h = kUnknownHash
IsUnknownHash(h) == h = kUnknownHash \/ h = kUnknownCapHash

(* ProbingVocabulary::Index: the stored id, or 0 for a miss. *)
Index(str) == TableFind(table, VocabHash[str])

UnsetSpecial == [bos |-> Unset, eos |-> Unset]
(* SetSpecial(Index("<s>"), Index("</s>"), 0) over a given table. *)
SpecialIn(t) == [bos |-> TableFind(t, VocabHash["<s>"]), eos |-> TableFind(t, VocabHash["</s>"])]

-----------------------------------------------------------------------------

Init ==
  /\ header = [version |-> kProbingVocabularyVersion, bound |-> 0]
  /\ table = [i \in Slots |-> Empty]
  /\ wordsFile = <<>>
  /\ proc = "build"
  /\ pc = "constructed"
  /\ bound = 0
  /\ sawUnk = FALSE
  /\ enumerate = "none"
  /\ special = UnsetSpecial
  /\ sinkLog = <<>>
  /\ readWords = {}
  /\ given = [w \in Words |-> 0]
  /\ built = [index |-> [w \in Words |-> 0], bound |-> 0, log |-> <<>>]
  /\ config \in Configs

(* Mutant: SetupMemory that starts ids at 0, forgetting <unk>'s slot. *)
SetupMemoryZeroBound ==
  /\ pc = "constructed"
  /\ bound' = 0
  /\ sawUnk' = FALSE
  /\ pc' = "setup"
  /\ UNCHANGED <<config, fileVars, proc, enumerate, special, sinkLog, readWords, given, built>>

(* SetupMemory: header_ at start, lookup_ over the rest, bound_ = 1,     *)
(* saw_unk_ = false.                                                     *)
SetupMemory ==
  /\ pc = "constructed"
  /\ bound' = 1
  /\ sawUnk' = FALSE
  /\ pc' = "setup"
  /\ UNCHANGED <<config, fileVars, proc, enumerate, special, sinkLog, readWords, given, built>>

(* ConfigureEnumerate(to): remember the sink and Add(0, "<unk>") to it. *)
ConfigureEnumerate(to) ==
  /\ proc = "build" /\ pc = "setup"
  /\ enumerate' = to
  /\ sinkLog' = IF to = "none" THEN sinkLog ELSE Append(sinkLog, <<0, "<unk>">>)
  /\ pc' = "configured"
  /\ UNCHANGED <<config, fileVars, proc, bound, sawUnk, special, readWords, given, built>>

(* Insert of <unk> or <UNK>: saw_unk_ = true, return 0, table untouched. *)
InsertUnknown(w) ==
  /\ pc = "configured"
  /\ w \notin readWords /\ Cardinality(readWords) < MaxEntries
  /\ IsUnknownHash(VocabHash[w])
  /\ sawUnk' = TRUE
  /\ readWords' = readWords \cup {w}
  /\ given' = [given EXCEPT ![w] = 0]
  /\ UNCHANGED <<config, fileVars, proc, pc, bound, enumerate, special, sinkLog, built>>

(* Mutant: announcing the word to the sink after bound_ was incremented. *)
InsertWordLateAdd(w) ==
  /\ pc = "configured"
  /\ w \notin readWords /\ Cardinality(readWords) < MaxEntries
  /\ ~IsUnknownHash(VocabHash[w])
  /\ sinkLog' = IF enumerate = "none" THEN sinkLog ELSE Append(sinkLog, <<bound + 1, w>>)
  /\ table' = TableInsert(table, VocabHash[w], bound)
  /\ given' = [given EXCEPT ![w] = bound]
  /\ bound' = bound + 1
  /\ readWords' = readWords \cup {w}
  /\ UNCHANGED <<config, header, wordsFile, proc, pc, sawUnk, enumerate, special, built>>

(* Insert of any other word: Add(bound_, str) to the sink, insert        *)
(* (hash, bound_) into the table, return bound_++.                       *)
InsertWord(w) ==
  /\ pc = "configured"
  /\ w \notin readWords /\ Cardinality(readWords) < MaxEntries
  /\ ~IsUnknownHash(VocabHash[w])
  /\ sinkLog' = IF enumerate = "none" THEN sinkLog ELSE Append(sinkLog, <<bound, w>>)
  /\ table' = TableInsert(table, VocabHash[w], bound)
  /\ given' = [given EXCEPT ![w] = bound]
  /\ bound' = bound + 1
  /\ readWords' = readWords \cup {w}
  /\ UNCHANGED <<config, header, wordsFile, proc, pc, sawUnk, enumerate, special, built>>

(* FinishedLoading: lookup_.FinishedInserting(), write bound_ and the    *)
(* version into the header, SetSpecial.                                  *)
FinishedLoading ==
  /\ pc = "configured"
  /\ header' = [bound |-> bound, version |-> kProbingVocabularyVersion]
  /\ special' = SpecialIn(table)
  /\ pc' = "finished"
  /\ UNCHANGED <<config, table, wordsFile, proc, bound, sawUnk, enumerate, sinkLog,
                 readWords, given, built>>

(* After Read1Grams (which ends with FinishedLoading) the ARPA loader     *)
(* runs CheckSpecials; a throw ends the load.                             *)
CheckSpecialWords ==
  /\ proc = "build" /\ pc = "finished"
  /\ pc' = IF CheckSpecials(config, sawUnk, special) THEN "failed" ELSE "checked"
  /\ UNCHANGED <<config, fileVars, proc, bound, sawUnk, enumerate, special,
                 sinkLog, readWords, given, built>>

(* WriteWordsWrapper::Write: append the wrapper's buffered strings to    *)
(* the binary file; built records what the build served.                 *)
WriteWords ==
  /\ pc = "checked" /\ enumerate = "wrapper"
  /\ wordsFile' = [i \in DOMAIN sinkLog |-> sinkLog[i][2]]
  /\ built' = [index |-> [w \in Words |-> Index(w)], bound |-> bound, log |-> sinkLog]
  /\ pc' = "written"
  /\ UNCHANGED <<config, header, table, proc, bound, sawUnk, enumerate, special,
                 sinkLog, readWords, given>>

(* The build process exits and a new process maps a binary file: the    *)
(* one just written, or one whose header carries another probing        *)
(* version because build_binary of another release wrote it.  bound_    *)
(* and saw_unk_ are set by SetupMemory before any read.                  *)
Restart(v) ==
  /\ pc = "written"
  /\ header' = [header EXCEPT !.version = v]
  /\ proc' = "reload"
  /\ pc' = "constructed"
  /\ enumerate' = "none"
  /\ special' = UnsetSpecial
  /\ sinkLog' = <<>>
  /\ readWords' = {}
  /\ config' \in Configs
  /\ UNCHANGED <<table, wordsFile, bound, sawUnk, given, built>>

(* Mutant: LoadedBinary that never adopts header_->bound. *)
LoadedBinaryKeepBound(to) ==
  /\ proc = "reload" /\ pc = "setup"
  /\ header.version = kProbingVocabularyVersion
  /\ sinkLog' = IF to THEN [i \in DOMAIN wordsFile |-> <<i - 1, wordsFile[i]>>] ELSE <<>>
  /\ special' = SpecialIn(table)
  /\ pc' = "loaded"
  /\ UNCHANGED <<config, fileVars, proc, bound, sawUnk, enumerate, readWords, given, built>>

(* LoadedBinary(fd, to) on a file of the expected version:               *)
(* lookup_.LoadedBinary(), ReadWords(fd, to), bound_ = header_->bound,   *)
(* SetSpecial.                                                           *)
LoadedBinary(to) ==
  /\ proc = "reload" /\ pc = "setup"
  /\ header.version = kProbingVocabularyVersion
  /\ sinkLog' = IF to THEN [i \in DOMAIN wordsFile |-> <<i - 1, wordsFile[i]>>] ELSE <<>>
  /\ bound' = header.bound
  /\ special' = SpecialIn(table)
  /\ pc' = "loaded"
  /\ UNCHANGED <<config, fileVars, proc, sawUnk, enumerate, readWords, given, built>>

(* LoadedBinary on a file of another version throws FormatLoadException. *)
LoadedBinaryVersionMismatch ==
  /\ proc = "reload" /\ pc = "setup"
  /\ header.version # kProbingVocabularyVersion
  /\ pc' = "failed"
  /\ UNCHANGED <<config, fileVars, proc, bound, sawUnk, enumerate, special, sinkLog,
                 readWords, given, built>>

Next ==
  \/ SetupMemory
  \/ \E to \in {"none", "sink", "wrapper"} : ConfigureEnumerate(to)
  \/ \E w \in Words : InsertUnknown(w) \/ InsertWord(w)
  \/ FinishedLoading
  \/ CheckSpecialWords
  \/ WriteWords
  \/ \E v \in FileVersions : Restart(v)
  \/ \E to \in BOOLEAN : LoadedBinary(to)
  \/ LoadedBinaryVersionMismatch

Spec == Init /\ [][Next]_vars

-----------------------------------------------------------------------------

Ids == 0..MaxEntries
Served == pc \in {"finished", "checked", "written", "loaded"}

TypeOK ==
  /\ header \in [version : FileVersions, bound : Ids \cup {MaxEntries + 1}]
  /\ table \in [Slots -> {Empty} \cup [key : Nat \ {0}, value : Ids \ {0}]]
  /\ wordsFile \in Seq(Words)
  /\ proc \in {"build", "reload"}
  /\ pc \in {"constructed", "setup", "configured", "finished", "checked",
             "written", "loaded", "failed"}
  /\ bound \in 0..(MaxEntries + 1)
  /\ sawUnk \in BOOLEAN
  /\ enumerate \in {"none", "sink", "wrapper"}
  /\ \A f \in {"bos", "eos"} : special[f] = Unset \/ special[f] \in Ids
  /\ sinkLog \in Seq(Ids \X Words)
  /\ readWords \subseteq Words
  /\ given \in [Words -> Ids]
  /\ config \in Configs

(* Once the table is finished, every word the reader inserted is found by *)
(* probing from its home slot, with the id Insert returned for it, both    *)
(* unknown spellings look up as 0 (never stored), and the ids handed out   *)
(* are exactly 1 .. bound_ - 1: none is skipped or reused.                 *)
IndexReturnsInsertedId ==
  (proc = "build" /\ Served) =>
    /\ \A w \in readWords : Index(w) = given[w]
    /\ Index("<unk>") = 0 /\ Index("<UNK>") = 0
    /\ {given[w] : w \in {x \in readWords : ~IsUnknownHash(VocabHash[x])}}
         = 1..(bound - 1)

(* Every Add(i, s) the enumeration sink received during the build names   *)
(* the id lookups of s return, and no id is announced twice.               *)
SinkAgreesWithIndex ==
  (proc = "build" /\ Served) =>
    /\ \A k \in DOMAIN sinkLog : Index(sinkLog[k][2]) = sinkLog[k][1]
    /\ \A j, k \in DOMAIN sinkLog : sinkLog[j][1] = sinkLog[k][1] => j = k

(* A binary file written by the build and loaded by LoadedBinary serves   *)
(* the same ids, the same Bound() and the same enumeration as the build.   *)
RoundTrip ==
  pc = "loaded" =>
    /\ \A w \in Words : Index(w) = built.index[w]
    /\ bound = built.bound
    /\ sinkLog # <<>> => sinkLog = built.log


-----------------------------------------------------------------------------

(***************************************************************************)
(* Refinement of the vocabulary contract (Vocabulary.tla).  Ids are       *)
(* handed out by Insert already, but the contract promises them only once *)
(* FinishedLoading has run.  Between Restart and LoadedBinary, and after  *)
(* a version mismatch, the new process serves nothing and owes the        *)
(* lookups the build recorded in built.                                   *)
(***************************************************************************)
Unknowns == {w \in Words : IsUnknownHash(VocabHash[w])}
Failed == proc = "build" /\ pc = "failed"
AbsPhase == CASE Served           -> "served"
              [] Failed           -> "failed"
              [] proc = "reload"  -> "down"
              [] OTHER            -> "loading"
AbsWords == IF proc = "build" THEN readWords \ Unknowns
            ELSE {w \in Words : built.index[w] # 0}
AbsIds == CASE Served \/ Failed -> [w \in Words |-> Index(w)]
            [] proc = "reload"  -> built.index
            [] OTHER            -> [w \in Words |-> 0]

Abstract == INSTANCE Vocabulary
              WITH phase <- AbsPhase, words <- AbsWords, ids <- AbsIds,
                   Unknown <- Unknowns

(* The probing vocabulary implements the contract: when FinishedLoading   *)
(* runs, probing from each home slot numbers the known words 1..n with no *)
(* word lost to a collision or a wrap, a lookup never changes while       *)
(* served, and a reloaded table serves the numbering the build chose.     *)
ImplementsVocabulary == Abstract!Spec


(* The build honours the special-word policy: it is handed on (checked or  *)
(* written) only when no special word the file lacked falls under          *)
(* THROW_UP, and it fails only when such a word is really missing.  This   *)
(* goes through Insert's saw_unk_, the probing lookups of SetSpecial and   *)
(* the check.                                                              *)
PolicyHonoured ==
  proc = "build" =>
    /\ pc \in {"checked", "written"} =>
         \A t \in Specials : MissingIn(readWords)[t] => PolicyFor(config, t) # "THROW_UP"
    /\ pc = "failed" =>
         \E t \in Specials : MissingIn(readWords)[t] /\ PolicyFor(config, t) = "THROW_UP"

=============================================================================
