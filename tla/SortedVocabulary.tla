-------------------------- MODULE SortedVocabulary --------------------------
(***************************************************************************)
(* lm::ngram::SortedVocabulary (src/kenlm/lm/vocab.cc) driven by the       *)
(* loader that builds a vocabulary from an ARPA file, optionally writes    *)
(* it as a binary file, and later maps that file in a new process.         *)
(*                                                                         *)
(* The mapped region is split into the variables the code reaches through *)
(* begin_: countSlot is the uint64 at begin_[-1], hashes[i] is begin_[i-1] *)
(* and weights is the caller's ProbBackoff array reorder_vocab (index 0 is *)
(* <unk>).  These three and the word stream wordsFile persist across a     *)
(* Restart; everything else is state of one process.                       *)
(***************************************************************************)
EXTENDS Naturals, Sequences, FiniteSets, TLC, SpecialWords

CONSTANTS
  Words,       \* strings the ARPA reader may pass to Insert
  VocabHash,   \* detail::HashForVocab restricted to Words
  MaxEntries,  \* unigram count given to SetupMemory and ConfigureEnumerate
  Garbage,     \* values an uninitialised WordIndex member can hold
  NoWord,      \* an empty std::string / an unwritten ProbBackoff slot
  Unset,       \* a special-word id SetSpecial has not written yet
  Configs,     \* the special-word policies a process may be configured with
  UnkDefault   \* the ProbBackoff config.unknown_missing_logprob gives <unk>

ASSUME {"<unk>", "<UNK>", "<s>", "</s>"} \subseteq Words
ASSUME VocabHash \in [Words -> Nat \ {0}]
ASSUME \A a, b \in Words : VocabHash[a] = VocabHash[b] => a = b
ASSUME MaxEntries \in Nat \ {0}
ASSUME Garbage \subseteq Nat /\ Garbage # {}
ASSUME NoWord \notin Words /\ UnkDefault \notin Words \cup {NoWord}
ASSUME Configs \subseteq Config

VARIABLES
  countSlot,   \* *(begin_ - 1): number of stored hashes, written at finish
  hashes,      \* begin_[0 .. MaxEntries-1] as 1-based positions
  weights,     \* reorder_vocab[0 .. MaxEntries], the parallel payload
  wordsFile,   \* null-terminated words appended by WriteWordsWrapper::Write
  proc,        \* "build" (reads ARPA) or "reload" (maps the binary)
  pc,          \* where the driving loader is
  end,         \* end_ - begin_
  sawUnk,      \* saw_unk_
  enumerate,   \* enumerate_: "none" (NULL), "sink", or a WriteWordsWrapper
  strings,     \* strings_to_enumerate_
  bound,       \* bound_
  special,     \* begin_sentence_, end_sentence_ set by SetSpecial
  sinkLog,     \* Add(index, str) calls received by enumerate_, in order
  readWords,   \* words the ARPA reader has inserted so far
  built,       \* history: lookups and enumeration at the end of the build
  config       \* the process's lm::ngram::Config

fileVars == <<countSlot, hashes, weights, wordsFile>>
procVars == <<config, proc, pc, end, sawUnk, enumerate, strings, bound, special,
              sinkLog, readWords>>
vars == <<fileVars, procVars, built>>

kUnknownHash == VocabHash["<unk>"]
kUnknownCapHash == VocabHash["<UNK>"]
IsUnknownHash(h) == h = kUnknownHash \/ h = kUnknownCapHash

(***************************************************************************)
(* Index(str) of vocab.hh: search the sorted hashes begin_..end_ and       *)
(* return position + 1 (0 is <unk>), or 0 when the hash is absent.         *)
(***************************************************************************)
RECURSIVE BinaryFind(_, _, _, _)
BinaryFind(arr, key, lo, hi) ==
  IF lo > hi THEN 0
  ELSE LET mid == (lo + hi) \div 2 IN
       CASE arr[mid] < key -> BinaryFind(arr, key, mid + 1, hi)
         [] arr[mid] > key -> BinaryFind(arr, key, lo, mid - 1)
         [] OTHER          -> mid

IndexIn(arr, n, str) == BinaryFind(arr, VocabHash[str], 1, n)
Index(str) == IndexIn(hashes, end, str)

(* SetSpecial(Index("<s>"), Index("</s>"), 0) over a given hash array. *)
SpecialIn(arr, n) == [bos |-> IndexIn(arr, n, "<s>"), eos |-> IndexIn(arr, n, "</s>")]

EmptyStrings == [i \in {} |-> NoWord]

(***************************************************************************)
(* util::JointSort over begin_..end_ with reorder_vocab + 1 (and with the *)
(* buffered strings when enumerating): rows <<hash, weight, string>>      *)
(* sorted by hash, so every row keeps its payload.                        *)
(***************************************************************************)
Rows(n) == [i \in 1..n |-> <<hashes[i], weights[i],
                             IF i - 1 \in DOMAIN strings THEN strings[i - 1] ELSE NoWord>>]

(* Mutant: sorting begin_..end_ alone, leaving the payload in read order. *)
JointSortKeysOnly(n) ==
  LET keys == SortSeq([i \in 1..n |-> hashes[i]], <) IN
  [i \in 1..n |-> <<keys[i], Rows(n)[i][2], Rows(n)[i][3]>>]
JointSort(n) == SortSeq(Rows(n), LAMBDA a, b : a[1] < b[1])

-----------------------------------------------------------------------------

Init ==
  /\ countSlot = 0
  /\ hashes = [i \in 1..MaxEntries |-> 0]
  /\ weights = [i \in 0..MaxEntries |-> NoWord]
  /\ wordsFile = <<>>
  /\ proc = "build"
  /\ pc = "constructed"
  /\ end = 0
  /\ sawUnk = FALSE
  /\ enumerate = "none"
  /\ strings = EmptyStrings
  /\ bound \in Garbage            \* the constructor leaves bound_ alone
  /\ special = [bos |-> Unset, eos |-> Unset]
  /\ sinkLog = <<>>
  /\ readWords = {}
  /\ built = [index |-> [w \in Words |-> 0], log |-> <<>>]
  /\ config \in Configs

(* SetupMemory: begin_ = start + 1, end_ = begin_, saw_unk_ = false. *)
SetupMemory ==
  /\ pc = "constructed"
  /\ end' = 0
  /\ sawUnk' = FALSE
  /\ pc' = "setup"
  /\ UNCHANGED <<config, fileVars, proc, enumerate, strings, bound, special, sinkLog,
                 readWords, built>>

(* ConfigureEnumerate(to, max_entries), called by the ARPA loader. *)
ConfigureEnumerate(to) ==
  /\ proc = "build" /\ pc = "setup"
  /\ enumerate' = to
  /\ IF to = "none"
       THEN UNCHANGED <<config, sinkLog, strings>>
       ELSE /\ sinkLog' = Append(sinkLog, <<0, "<unk>">>)
            /\ strings' = [i \in 0..MaxEntries - 1 |-> NoWord]
  /\ pc' = "configured"
  /\ UNCHANGED <<config, fileVars, proc, end, sawUnk, bound, special, readWords, built>>

(* Insert of <unk> or <UNK>: set saw_unk_ and return 0; the reader then  *)
(* stores the word's ProbBackoff at reorder_vocab[0].                    *)
InsertUnknown(w) ==
  /\ pc = "configured"
  /\ w \notin readWords /\ Cardinality(readWords) < MaxEntries
  /\ IsUnknownHash(VocabHash[w])
  /\ sawUnk' = TRUE
  /\ weights' = [weights EXCEPT ![0] = w]
  /\ readWords' = readWords \cup {w}
  /\ UNCHANGED <<config, countSlot, hashes, wordsFile, proc, pc, end, enumerate,
                 strings, bound, special, sinkLog, built>>

(* Insert of any other word: *end_ = hash, buffer the string at end_ -    *)
(* begin_ when enumerating, ++end_, return end_ - begin_; the reader then *)
(* stores the word's ProbBackoff at reorder_vocab[that index].           *)
InsertWord(w) ==
  /\ pc = "configured"
  /\ w \notin readWords /\ Cardinality(readWords) < MaxEntries
  /\ ~IsUnknownHash(VocabHash[w])
  /\ hashes' = [hashes EXCEPT ![end + 1] = VocabHash[w]]
  /\ strings' = IF enumerate = "none" THEN strings ELSE [strings EXCEPT ![end] = w]
  /\ end' = end + 1
  /\ weights' = [weights EXCEPT ![end + 1] = w]
  /\ readWords' = readWords \cup {w}
  /\ UNCHANGED <<config, countSlot, wordsFile, proc, pc, sawUnk, enumerate, bound,
                 special, sinkLog, built>>

(* Mutant: enumerating sorted strings as Add(i, strings[i]) without the +1. *)
FinishedLoadingEnumerateNoShift ==
  /\ pc = "configured" /\ enumerate # "none"
  /\ LET s == JointSort(end) IN
       /\ hashes' = [i \in 1..MaxEntries |-> IF i <= end THEN s[i][1] ELSE hashes[i]]
       /\ weights' = [i \in 0..MaxEntries |-> IF i \in 1..end THEN s[i][2] ELSE weights[i]]
       /\ sinkLog' = sinkLog \o [i \in 1..end |-> <<i - 1, s[i][3]>>]
  /\ strings' = EmptyStrings
  /\ special' = SpecialIn(hashes', end)
  /\ countSlot' = end
  /\ bound' = end + 1
  /\ pc' = "finished"
  /\ UNCHANGED <<config, wordsFile, proc, end, sawUnk, enumerate, readWords, built>>

(* FinishedLoading with enumerate_ set: jointly sort hashes, weights and *)
(* strings, Add(i + 1, strings[i]) for every entry, clear the strings,   *)
(* SetSpecial, save the count and set bound_ = count + 1.                *)
FinishedLoadingEnumerate ==
  /\ pc = "configured" /\ enumerate # "none"
  /\ LET s == JointSort(end) IN
       /\ hashes' = [i \in 1..MaxEntries |-> IF i <= end THEN s[i][1] ELSE hashes[i]]
       /\ weights' = [i \in 0..MaxEntries |-> IF i \in 1..end THEN s[i][2] ELSE weights[i]]
       /\ sinkLog' = sinkLog \o [i \in 1..end |-> <<i, s[i][3]>>]
  /\ strings' = EmptyStrings
  /\ special' = SpecialIn(hashes', end)
  /\ countSlot' = end
  /\ bound' = end + 1
  /\ pc' = "finished"
  /\ UNCHANGED <<config, wordsFile, proc, end, sawUnk, enumerate, readWords, built>>

(* Mutant: FinishedLoading without enumerate_ that forgets the sort. *)
FinishedLoadingPlainUnsorted ==
  /\ pc = "configured" /\ enumerate = "none"
  /\ LET s == Rows(end) IN
       /\ hashes' = [i \in 1..MaxEntries |-> IF i <= end THEN s[i][1] ELSE hashes[i]]
       /\ weights' = [i \in 0..MaxEntries |-> IF i \in 1..end THEN s[i][2] ELSE weights[i]]
  /\ special' = SpecialIn(hashes', end)
  /\ countSlot' = end
  /\ bound' = end + 1
  /\ pc' = "finished"
  /\ UNCHANGED <<config, wordsFile, proc, end, sawUnk, enumerate, strings, sinkLog,
                 readWords, built>>

(* FinishedLoading without enumerate_: JointSort(begin_, end_,           *)
(* reorder_vocab + 1), then the same bookkeeping.                        *)
FinishedLoadingPlain ==
  /\ pc = "configured" /\ enumerate = "none"
  /\ LET s == JointSort(end) IN
       /\ hashes' = [i \in 1..MaxEntries |-> IF i <= end THEN s[i][1] ELSE hashes[i]]
       /\ weights' = [i \in 0..MaxEntries |-> IF i \in 1..end THEN s[i][2] ELSE weights[i]]
  /\ special' = SpecialIn(hashes', end)
  /\ countSlot' = end
  /\ bound' = end + 1
  /\ pc' = "finished"
  /\ UNCHANGED <<config, wordsFile, proc, end, sawUnk, enumerate, strings, sinkLog,
                 readWords, built>>

(* After Read1Grams (which ends with FinishedLoading) the ARPA loader     *)
(* runs CheckSpecials; if it does not throw, the rest of the n-grams are  *)
(* read and GenericModel::InitializeFromARPA gives a <unk> the file       *)
(* lacked the probability config.unknown_missing_logprob, in slot 0 of    *)
(* the unigram array (reorder_vocab).                                     *)
CheckSpecialWords ==
  /\ proc = "build" /\ pc = "finished"
  /\ IF CheckSpecials(config, sawUnk, special)
       THEN /\ pc' = "failed"
            /\ UNCHANGED weights
       ELSE /\ pc' = "checked"
            /\ weights' = IF sawUnk THEN weights ELSE [weights EXCEPT ![0] = UnkDefault]
  /\ UNCHANGED <<config, countSlot, hashes, wordsFile, proc, end, sawUnk, enumerate,
                 strings, bound, special, sinkLog, readWords, built>>

(* WriteWordsWrapper::Write: append every string the wrapper was handed, *)
(* in Add order, to the end of the binary file.  The history variable    *)
(* built records what the build served.                                  *)
WriteWords ==
  /\ pc = "checked" /\ enumerate = "wrapper"
  /\ wordsFile' = [i \in DOMAIN sinkLog |-> sinkLog[i][2]]
  /\ built' = [index |-> [w \in Words |-> Index(w)], log |-> sinkLog]
  /\ pc' = "written"
  /\ UNCHANGED <<config, countSlot, hashes, weights, proc, end, sawUnk, enumerate,
                 strings, bound, special, sinkLog, readWords>>

(* The build process exits; a new process constructs a vocabulary over   *)
(* the same file.  Only the file survives.                               *)
Restart ==
  /\ pc = "written"
  /\ proc' = "reload"
  /\ pc' = "constructed"
  /\ end' = 0
  /\ sawUnk' = FALSE
  /\ enumerate' = "none"
  /\ strings' = EmptyStrings
  /\ bound' \in Garbage
  /\ special' = [bos |-> Unset, eos |-> Unset]
  /\ sinkLog' = <<>>
  /\ readWords' = {}
  /\ config' \in Configs
  /\ UNCHANGED <<fileVars, built>>

(* Mutant: reading the stored count as if it included <unk>. *)
LoadedBinaryCountWithUnk(to) ==
  /\ proc = "reload" /\ pc = "setup"
  /\ end' = countSlot - 1
  /\ sinkLog' = IF to THEN [i \in DOMAIN wordsFile |-> <<i - 1, wordsFile[i]>>] ELSE <<>>
  /\ special' = SpecialIn(hashes, countSlot - 1)
  /\ pc' = "loaded"
  /\ UNCHANGED <<config, fileVars, proc, sawUnk, enumerate, strings, bound, readWords, built>>

(* Mutant: numbering the words read back from 1, as if <unk> were not in *)
(* the stream (spec 4.4).                                                  *)
LoadedBinaryFromOne(to) ==
  /\ proc = "reload" /\ pc = "setup"
  /\ end' = countSlot
  /\ sinkLog' = IF to THEN [i \in DOMAIN wordsFile |-> <<i, wordsFile[i]>>] ELSE <<>>
  /\ special' = SpecialIn(hashes, countSlot)
  /\ pc' = "loaded"
  /\ UNCHANGED <<config, fileVars, proc, sawUnk, enumerate, strings, bound, readWords, built>>

(* LoadedBinary(fd, to): end_ = begin_ + stored count, ReadWords(fd, to) *)
(* (nothing when to is NULL; otherwise Add(i, word) from index 0 on),    *)
(* SetSpecial.  bound_ is not assigned.                                  *)
LoadedBinary(to) ==
  /\ proc = "reload" /\ pc = "setup"
  /\ end' = countSlot
  /\ sinkLog' = IF to THEN [i \in DOMAIN wordsFile |-> <<i - 1, wordsFile[i]>>] ELSE <<>>
  /\ special' = SpecialIn(hashes, countSlot)
  /\ pc' = "loaded"
  /\ UNCHANGED <<config, fileVars, proc, sawUnk, enumerate, strings, bound, readWords, built>>

Next ==
  \/ SetupMemory
  \/ \E to \in {"none", "sink", "wrapper"} : ConfigureEnumerate(to)
  \/ \E w \in Words : InsertUnknown(w) \/ InsertWord(w)
  \/ FinishedLoadingEnumerate
  \/ FinishedLoadingPlain
  \/ CheckSpecialWords
  \/ WriteWords
  \/ Restart
  \/ \E to \in BOOLEAN : LoadedBinary(to)

Spec == Init /\ [][Next]_vars

-----------------------------------------------------------------------------

Ids == 0..MaxEntries
Served == pc \in {"finished", "checked", "written", "loaded"}

TypeOK ==
  /\ countSlot \in 0..MaxEntries
  /\ hashes \in [1..MaxEntries -> Nat]
  /\ weights \in [0..MaxEntries -> Words \cup {NoWord, UnkDefault}]
  /\ wordsFile \in Seq(Words)
  /\ proc \in {"build", "reload"}
  /\ pc \in {"constructed", "setup", "configured", "finished", "checked", "written",
             "loaded", "failed"}
  /\ end \in 0..MaxEntries
  /\ sawUnk \in BOOLEAN
  /\ enumerate \in {"none", "sink", "wrapper"}
  /\ bound \in Nat
  /\ DOMAIN special = {"bos", "eos"}
  /\ \A f \in DOMAIN special : special[f] = Unset \/ special[f] \in Ids
  /\ sinkLog \in Seq(Ids \X (Words \cup {NoWord}))
  /\ readWords \subseteq Words
  /\ config \in Configs

(* After FinishedLoading has re-ordered the hashes, the ProbBackoff the    *)
(* reader stored at the id Insert returned for w sits at Index(w): the     *)
(* sort moved every weight with its hash.  Both unknown spellings share    *)
(* slot 0, which holds the one read last.                                  *)
WeightsFollowWords ==
  pc \in {"finished", "checked", "written"} =>
    \A w \in readWords :
      IF IsUnknownHash(VocabHash[w])
      THEN Index(w) = 0 /\ weights[0] \in readWords /\ IsUnknownHash(VocabHash[weights[0]])
      ELSE Index(w) # 0 /\ weights[Index(w)] = w

(* Every Add(i, s) the enumeration sink received during the build names   *)
(* the id lookups of s return, and no id is announced twice: the sorted   *)
(* variant announces ids only after the sort, using the strings permuted  *)
(* with the hashes.                                                        *)
SinkAgreesWithIndex ==
  (proc = "build" /\ Served) =>
    /\ \A k \in DOMAIN sinkLog : Index(sinkLog[k][2]) = sinkLog[k][1]
    /\ \A j, k \in DOMAIN sinkLog : sinkLog[j][1] = sinkLog[k][1] => j = k

(* A binary file written by the build and loaded by LoadedBinary serves   *)
(* the same ids, the same weights and the same enumeration as the build.  *)
RoundTrip ==
  pc = "loaded" =>
    /\ \A w \in Words : Index(w) = built.index[w]
    /\ \A w \in Words : built.index[w] # 0 => weights[built.index[w]] = w
    /\ sinkLog # <<>> => sinkLog = built.log

(* Bound() is the number of ids including <unk> once the vocabulary is    *)
(* served (spec 3: bound = distinct words + 1, used to size the parallel  *)
(* probability arrays).                                                    *)
BoundCountsEntries ==
  Served => bound = end + 1


-----------------------------------------------------------------------------

(***************************************************************************)
(* Refinement of the vocabulary contract (Vocabulary.tla).  While loading *)
(* the abstract words are the known words read so far and Index is not   *)
(* yet promised; once served it is the concrete Index.  Between Restart   *)
(* and LoadedBinary the new process serves nothing yet and owes the       *)
(* lookups the build recorded in built.                                   *)
(***************************************************************************)
Unknowns == {w \in Words : IsUnknownHash(VocabHash[w])}
Failed == proc = "build" /\ pc = "failed"
AbsPhase == CASE Served           -> "served"
              [] Failed           -> "failed"
              [] proc = "reload"  -> "down"
              [] OTHER            -> "loading"
AbsWords == IF proc = "build" THEN readWords \ Unknowns
            ELSE {w \in Words : built.index[w] # 0}
AbsIds == CASE Served \/ Failed -> [w \in Words |-> Index(w)]
            [] proc = "reload"  -> built.index
            [] OTHER            -> [w \in Words |-> 0]

Abstract == INSTANCE Vocabulary
              WITH phase <- AbsPhase, words <- AbsWords, ids <- AbsIds,
                   Unknown <- Unknowns

(* The sorted vocabulary implements the contract: it numbers the distinct *)
(* known words 1..n in one step (FinishedLoading's sort and SetSpecial),  *)
(* never changes a lookup while served, and a reloaded binary file serves *)
(* the numbering the build chose.                                         *)
ImplementsVocabulary == Abstract!Spec


(* The build honours the special-word policy: it is handed on (checked or  *)
(* written) only when no special word the file lacked falls under          *)
(* THROW_UP, and then slot 0 of the unigram weights holds the <unk> read   *)
(* (under either spelling) or the configured default; it fails only when   *)
(* such a word is really missing.  This goes through Insert's saw_unk_,    *)
(* the sort and the Index lookups of SetSpecial, and the check.            *)
PolicyHonoured ==
  proc = "build" =>
    /\ pc \in {"checked", "written"} =>
         /\ \A t \in Specials : MissingIn(readWords)[t] => PolicyFor(config, t) # "THROW_UP"
         /\ IF MissingIn(readWords)["<unk>"] THEN weights[0] = UnkDefault
            ELSE weights[0] \in readWords \cap {"<unk>", "<UNK>"}
    /\ pc = "failed" =>
         \E t \in Specials : MissingIn(readWords)[t] /\ PolicyFor(config, t) = "THROW_UP"

=============================================================================
