# TLA+ models of the vocabulary engine and its neighbours

This directory holds TLA+ models of the code under `src/`, the TLC configurations
that check them, and `PROJECT.json`, which maps every modelled definition to the
source lines it translates and lists the runs, mutants, findings and hazards.

## 1. Inventory

The repository snapshot has seven source files. The spec (`spec.md`) describes the
core: kenlm's vocabulary engine. The other files come from neighbouring parts of Moses.

| Component | Source | State | Operations |
|---|---|---|---|
| Sorted vocabulary | `kenlm/lm/vocab.cc` 88-149 | `begin_`/`end_` over the mapped hash array, the count slot at `begin_[-1]`, `saw_unk_`, `enumerate_`, `strings_to_enumerate_`, `bound_`, special ids | `Size`, `SetupMemory`, `ConfigureEnumerate`, `Insert`, `FinishedLoading(reorder_vocab)`, `LoadedBinary` |
| Probing vocabulary | `kenlm/lm/vocab.cc` 151-209 | header `{version, bound}`, the `Lookup` hash table in the mapped region, `bound_`, `saw_unk_`, `enumerate_` | the same contract; `FinishedLoading` writes the header, `LoadedBinary` checks the version |
| Word stream | `kenlm/lm/vocab.cc` 32-86 | `WriteWordsWrapper::buffer_`; `ReadWords`' chunk buffer | `Add` (forward to the inner sink and buffer), `Write` (append to the file), `ReadWords` (chunked read, Add from index 0) |
| Special-word policy | `kenlm/lm/vocab.cc` 211-233 | none (config) | `MissingUnknown`, `MissingSentenceMarker`: Silent / Complain / ThrowUp |
| Mapped region | `kenlm/util/mmap.cc` | `scoped_memory{data_, size_, source_}`, `scoped_mmap`, `scoped_fd` | `reset`, `call_realloc`, destructor, `MapRead` (4 load methods), `MapAnonymous`, `MapZeroedWrite` |
| MERT feature statistics | `mert/FeatureStats.cpp` | `array_`, `entries_`, `available_`, a `SparseVector` map; process-wide `name2id_`/`id2name_` | `add`, `expand`, `addSparse`, `set(string)`, copy and assignment, `loadbin`/`savebin`, `loadtxt`/`savetxt`, `SparseVector::set/get/write/-=` |
| MERT data container | `mert/Data.h` | `scoredata`, `featdata`, `_sparse_flag` | `load`, `save`, `clear` |
| Decoder configuration | `branches/hieu_async/moses/src/StaticData.cpp` | the `StaticData` singleton, weight vector `m_allWeights`, score producers, decode steps, function-static counters | `LoadData`, `LoadLexicalReorderingModel`, `LoadLanguageModels`, `LoadTranslationTable`, `LoadGenerationTable`, `LoadMapping`, `SetWeightsForScoreProducer` |
| MIRA optimiser, Joshua dictionary | `mira/Optimiser.h`, `mt3_chart/.../PhraseDictionaryJoshua.h` | declarations only | none to model |

**How the parts interact.** An ARPA loader (not under `src/`) sizes a region with
`Size` and obtains it from the mapped-region layer: an anonymous map, a malloc'd
buffer, or `MapZeroedWrite` when a binary is being written. It calls
`SetupMemory` and `ConfigureEnumerate`. The sink it passes is the caller's, or a
`WriteWordsWrapper` when a binary is written. The loader then calls `Insert` once
per unigram and stores that word's ProbBackoff at the returned id. It finishes
with `FinishedLoading`. After that the special-word policy applies, and
`WriteWordsWrapper::Write` appends the word stream to the binary.

A later process maps the binary with `MapRead`, calls `SetupMemory` and then
`LoadedBinary`, which reads the word stream back through `ReadWords`. Nothing
runs concurrently: spec 5 makes loading single-threaded. The hard behaviours are
these:
- the re-numbering at the sorted variant's finish;
- collisions and wrap-around in the probing table;
- the round trip through a file shared by two processes;
- uninitialised members;
- partial reads;
- failure and release paths of the mapped region.

The MERT and StaticData code is sequential too. Its hazards are stale
function-static state, self-assignment, uninitialised members and the order of
configuration steps.

**What makes each part correct** (the properties the plan aims at):
- *Vocabularies*: every inserted word is found with a stable id. The sorted
  variant must keep each payload and each enumerated string with its word across
  the sort. Ids are dense below `Bound()`. The enumeration agrees with lookups. A
  binary reloads with the same ids, bound and enumeration. An unknown spelling
  never enters the table.
- *Word stream*: whatever the read sizes, `ReadWords` delivers exactly the
  null-separated words of the file, numbered from 0. A missing terminator is an
  error.
- *Special-word policy*: ThrowUp never yields a usable vocabulary. Silent and
  Complain always do.
- *Mapped region*: every region obtained is released exactly once, by the
  release that matches its origin. Nothing is used after release.
- *FeatureStats*: `entries_ <= available_` always holds. Copy and assignment
  (self-assignment included) preserve contents. Sparse values survive the
  shared name tables.
- *StaticData*: the weights consumed by each table are the ones configured for
  it. Steps are loaded in mapping order. State from one load does not leak into
  the next.

## 2. Plan

Modules in order of importance. All eight are done; what is left is under "Not modelled".

1. **SortedVocabulary** (done): the sorted variant with its driving loader. The
   loader builds from ARPA, optionally writes the binary, restarts and reloads.
2. **ProbingVocabulary** (done): the probing variant over a spec-modelled
   open-addressing table. Same driver and the version check.
3. **Vocabulary** (done, abstract) + refinement: the contract of spec 4.4 as a map
   from words to ids. Ids are unassigned while loading and form a bijection onto
   `1..bound-1` once served. Both variants are shown to implement it with
   `INSTANCE Vocabulary WITH ...` as a PROPERTY.
4. **ReadWords** (done): the chunked reader as a state machine over a byte stream with
   nondeterministic read sizes. It is checked against a reference split. With
   short reads allowed it exposes the `resize` zero-fill (see below).
5. **MappedRegion** (done): `scoped_memory` plus `MapRead`/`MapAnonymous`/`MapZeroedWrite`,
   with failures as nondeterministic outcomes. It checks no leak, no double
   release and release matched to origin.
6. **SpecialWords** (done): the special-word policy. It is composed into both
   vocabulary modules as the `CheckSpecials` step their loader runs after
   `FinishedLoading`, so it is checked in the vocabulary runs rather than a
   run of its own.
7. **FeatureStats** (done): growable array and `SparseVector`, including the
   string-constructor and self-assignment hazards.
8. **StaticData** (done): the configuration-loading sequence and its
   function-static state, as the weight vector it builds.

Each run asks one question. Where one question has several counterexamples
(the FeatureStats constructors), they share a run.

## 3. Modules and runs

### SortedVocabulary (`SortedVocabulary.tla`, `MCSortedVocabulary.tla`)

State:
- the mapped file: `countSlot`, `hashes`, `weights` (the caller's
  `reorder_vocab`) and `wordsFile`, which survive `Restart`;
- the process: `pc` of the driving loader, `end` (`end_ - begin_`), `sawUnk`,
  `enumerate` (NULL, a sink, or a `WriteWordsWrapper`), `strings`, `bound`,
  `special`;
- `sinkLog`, the `Add` calls the sink received;
- history variables `readWords` and `built`.

Each action is one member function. `Insert` is split into its two branches.
`FinishedLoading` is split into its enumerating and non-enumerating branches.
`JointSort` sorts rows `<<hash, weight, string>>` with `SortSeq`. `Index` is a
recursive binary search (vocab.hh is not under `src/`, so spec 4.4 is followed).

The constructor leaves `bound_` uninitialised. That is modelled as a choice from
`Garbage`.

Runs:
- `sorted_vocab` (pass, 23148 states). It checks `WeightsFollowWords`: after the
  sort, the ProbBackoff stored at `Insert`'s id sits at `Index(w)`. It checks
  `SinkAgreesWithIndex` and `RoundTrip`. It also checks `PolicyHonoured`
  (see SpecialWords) and `ImplementsVocabulary` (see Vocabulary).
- `sorted_vocab_bound` (violation). After `LoadedBinary`, `bound_` is garbage.
  This is a code bug: line 145 never assigns it.

`<unk>` is the first string of the word stream (line 106 buffers the
`Add(0, "<unk>")` of `ConfigureEnumerate`). Spec 4.4 says identity 0's string is
never written. Writer and reader agree on the code's layout, as `RoundTrip`
shows, so this divergence is documented here rather than kept as a run.

Bounds: 6 words, with both unknown spellings and both sentence markers, and 5
entries. The hashes are chosen so that sorting reorders the ids.

### ProbingVocabulary (`ProbingVocabulary.tla`, `MCProbingVocabulary.tla`)

State:
- the file: `header`, `table` and `wordsFile`;
- the process: `bound`, `sawUnk`, `enumerate`, `special` and `sinkLog`;
- history variable `given`, the id each `Insert` returned.

The table follows spec 4.3:
- `Buckets = max(entries + 1, entries * multiplier)`;
- linear probing from `hash % Buckets`, wrapping;
- a lookup stops at the key or at an empty slot.

At `Restart` the reload is handed either this build's file or one whose header
carries another version. The other version exercises the `FormatLoadException`
path.

Run `probing_vocab` (pass, 19155 states) checks these properties, besides
`PolicyHonoured` and `ImplementsVocabulary`:
- `IndexReturnsInsertedId`: every word is found with the id `Insert` returned,
  and the ids are exactly `1..bound-1`;
- `SinkAgreesWithIndex`;
- `RoundTrip`, which includes `Bound()`.

Bounds: 4 entries at multiplier 1.5 give 6 buckets. Three words have home slot
5, so probes wrap to slot 0.

### Vocabulary (`Vocabulary.tla`), the contract both variants refine

`Vocabulary.tla` states what a caller of either vocabulary may rely on (spec
4.4; the interface header `lm/vocab.hh` is not under `src/`, so its
definitions are spec-modelled). Its state is:
- `phase`: `"loading"`, `"served"` or `"down"`;
- `words`: the distinct known words inserted;
- `ids`: `Index` as a function of the string.

Its actions:
- `Insert` adds a word; the two unknown spellings are stutters.
- `FinishLoading` picks any numbering: a bijection from the words onto
  `1..n`, with 0 for every other string.
- `Stop` is the process exiting after writing the binary file.
- `Reload` is another process serving the same function again.

Each variant defines a refinement mapping (`AbsPhase`, `AbsWords`, `AbsIds`)
and checks `ImplementsVocabulary == Abstract!Spec` as a PROPERTY in its
existing run:
- served states map `ids` to the concrete `Index`;
- between `Restart` and `LoadedBinary`, and after a version mismatch, the
  phase is `"down"`, and `ids` is what the build recorded in `built`.

The property is stronger than the invariants above in three ways. A lookup
never changes while served, whatever `WriteWords` or the sink does. The
numbering appears in one step. The reload serves exactly the build's function.

Mutants:
- forgetting the sort in `FinishedLoading` breaks the sorted refinement;
- inserting at the home slot without probing breaks the probing one.

`Bound()` is left out of the contract: `SortedVocabulary` would fail it after
a reload, which is the separate `sorted_vocab_bound` finding.

### SpecialWords (`SpecialWords.tla`), composed into both vocabulary modules

`MissingUnknown` and `MissingSentenceMarker` (vocab.cc 211-233) are operators
that say whether the policy throws. `SILENT` and `COMPLAIN` both let the load
go on; `COMPLAIN` differs only in a message, which is left out.
`CheckSpecials(config, sawUnk, special)` is the check the ARPA loader runs
after `Read1Grams` ends with `FinishedLoading`. It lives in `lm/vocab.hh`,
which is not under `src/`, so it follows spec 4.5:
- `!SawUnk()` leads to `MissingUnknown`;
- a `<s>` or `</s>` id of 0 (`NotFound()`) leads to `MissingSentenceMarker`.

Each vocabulary module has a variable `config`, the process's
`lm::ngram::Config`:
- `Init` picks any of the nine policy combinations;
- `Restart` picks again, since the process that maps the file may be
  configured differently.

The step `CheckSpecialWords` goes from `finished` to `checked` or `failed`.
`WriteWords` now waits for `checked`. In the sorted module the step also
stores `unknown_missing_logprob` (`UnkDefault`) in slot 0 of the unigram
weights when no `<unk>` was read. `GenericModel::InitializeFromARPA` does this
once the check has passed.

`PolicyHonoured`, checked in both vocabulary runs, compares the outcome with
a reference computed from the words the reader inserted (`MissingIn`):
- a build is handed on only if no missing special falls under `THROW_UP`;
- it fails only if one does;
- in the sorted variant, slot 0 then holds the `<unk>` read (under either
  spelling) or the default.

Its mutants:
- `MissingSentenceMarker` with `THROW_UP` falling through as `COMPLAIN` lets a
  model without `</s>` through;
- recognising only the lower-case `<unk>` makes a model that spells it `<UNK>`
  fail.

The refinement of `Vocabulary` gained a `Fail` step from `served`.

TLC also reaches this state: a file built under `SILENT` without `</s>` is
reloaded by a process configured `THROW_UP`, and nothing complains, because
`LoadedBinary` runs no check. This matches `build_binary -s` as spec 4.5
describes it. It is recorded as a hazard, not as a property: the only thing a
property could add is that `WriteWords` runs after the check, which is its
guard.

### ReadWords (`ReadWords.tla`, `MCReadWords.tla`)

`ReadWords` (vocab.cc 32-66) as a state machine over the bytes of the word
stream. `buf`/`bufSize` are the `std::string`'s storage and `size()`.
- `read()` writes at `&buf[0]` regardless of `size()`; the reserve keeps the
  capacity above `kInitialRead`.
- `buf.resize(got)` zero-fills the positions between the old and the new size.
- `CompleteWord` is the byte-wise completion loop. `MissingTerminator` is its
  end-of-file throw, and `ReadFails` is either `read() == -1` throw.
- `AddWords` is the `strlen` loop: `Add(index++, word)` for each word of the chunk.

`SplitWords` is a recursive reference definition of the words of a byte
sequence. `AnnouncesStream` says three things:
- what has been announced is a prefix of the numbered words of the stream;
- at a normal return with a sink it is all of them;
- the missing-terminator error happens only for an unterminated stream.

Runs:
- `read_words` (pass, 1262 states). `read()` returns full chunks, as it does
  for a regular file, and may fail. The run checks `AnnouncesStream` and
  `Terminates` (liveness).

With `ShortReads = TRUE`, `read()` may return any positive count up to the
chunk size, and `AnnouncesStream` is violated. A longer read after a shorter
one has its bytes zero-filled by `resize`: the stream `\0 \0 b` is announced as
three empty words, and the missing terminator goes unnoticed. Regular local
files, which are what `LoadedBinary` reads, do not return short reads before end
of file, so the bug is latent. It is listed as a hazard, not kept as a run.

Bounds: every stream of up to 4 bytes over `{a, b, \0}` with `kInitialRead = 2`.
The bug needs a read that grows the string, which 3 bytes already allow. Words
straddle chunks, a chunk can end inside a word, and the byte-wise completion runs.

### MappedRegion (`MappedRegion.tla`, `MCMappedRegion.tla`)

Two `scoped_memory` objects (say, a binary's vocabulary and search regions) over
one allocator:
- `live` maps each address to `"mmap"`, `"array"`, `"malloc"` or `"none"`;
- `mem[m]` is `{data_, size_, source_}`;
- `faults` records the first release of an address that was not allocated as
  that release expects (a double free, or `free` of a mapping).

`ResetFrom` is `scoped_memory::reset`: it releases per `source_` (the
`scoped_mmap` destructor, `delete[]`, `free`, nothing) and then adopts the new
memory. Every caller of `reset` in mmap.cc is an action:
- `MapRead` (its mmap methods; READ, with its throws after the reset);
- `MapAnonymous`;
- `MapZeroedWrite` (open, ftruncate or mmap failing, mem untouched);
- `call_realloc`, where realloc fails, resizes in place, moves, or frees on size
  0 (glibc);
- a caller's `reset(new char[n])` and `reset()`;
- the destructor.

Runs:
- `mapped_region_leak` (pass, 13768 states), with every realloc outcome:
  `NoLeak`, i.e. every allocated address is owned by some region.
- `mapped_region_ownership` (pass, 376 states), with realloc only failing:
  - `OwnedIsLive`: each region's pointer is live, of the origin `source_`
    records, and owned by no other region;
  - `ReleasesMatch`.
- `mapped_region_realloc` (violation). A successful `call_realloc` passes the
  new pointer to `reset`, and `reset` frees `data_`. After a move that pointer
  was already freed by realloc; after an in-place resize it is the live block,
  so the region keeps a dangling pointer.

Bounds: 2 regions and 3 addresses, so an address freed by one region can be
handed to the other while the first still holds it. Sizes are 1..2.

### FeatureStats (`FeatureStats.tla`, `MCFeatureStats.tla`)

Two `FeatureStats` objects over the shared `SparseVector` tables:
- `obj[o]` is `{live, wild, avail, entries, data}`: `array_` (or a wild
  pointer), `available_`, `entries_`, and the array contents, `Undef` where
  never written;
- `fvec[o]` is `map_`, ids to values;
- `id2name` is the static `id2name_`; `name2id_` is its inverse (`IdOf`);
- `faults` records writes past `available_` and accesses through a wild
  pointer (kept for the traces; every such access also breaks `DenseMatch`,
  so no property reads it);
- `file`/`saved` are the line `savetxt` wrote and what the object held then;
- `bin` is what the last `savebin` wrote: the values, and the `entries_` and
  dense values of the object written;
- `absDense`/`absSparse` are what each object should hold.

Actions are the constructors, copy, `operator=`, `add`, `addSparse`, `loadtxt`
of any line, `savetxt`, `loadtxt` of the saved line, `savebin`, `loadbin`,
`SparseVector::operator-=` and the destructor. `savebin` writes the
`featbytes_` bytes of the array and no sparse feature. `loadbin` reads as many
values as the reading object's own `entries_` and leaves `map_` and `entries_`
alone. Its caller, `FeatureArray::loadbin` (not under `src/`), reads each entry
into a `FeatureStats(n)` whose `n` comes from the file header, so `LoadBin`
requires the reader's `entries_` to equal the writer's. `AddTo`/`Expand` translate `add`/`expand`. `SetTokens` is
`set`'s token loop: a token with `:` goes to the map, any other is `add(atof)`.
`Format` is `operator<<`. Lines are token sequences, with the name, the colon
and the value of each token kept.

Runs:
- `feature_stats_dense` (pass, 518163 states, about two minutes). Default and
  sized constructors, with `DenseMatch`: each array holds
  exactly its dense values within its capacity, also after a binary save and
  load. A `loadbin` that reads one element fewer breaks `DenseMatch` too.
- `feature_stats_sparse` (pass, 77356 states). Every constructor and
  self-assignment is allowed. It checks `SparseMatch` (every `get(name)` is the
  value last set). `SYMMETRY` permutes the two objects,
  which the model treats alike. The `VIEW` drops the arrays, `file`, `saved`,
  `faults`, `bin` and `absDense`: no action's effect on the sparse state reads them.
- `feature_stats_array` (violation of `DenseMatch`). Only the string
  constructor is added to the dense run's constructors: it runs `set` on an
  uninitialised `array_`, `available_` and `entries_`, and TLC's trace is
  `StringCtorAction` alone.

  Two more bugs break `DenseMatch` and are listed as hazards. Each is reached
  from this cfg with `StringCtor = FALSE` and one more constant changed
  (scratch runs, not kept as runs):
  - with `CtorSizes = {0, 1}`, `FeatureStats(0)`'s first `add` writes past a
    zero-length array, because `expand` doubles 0 (trace `SizeCtor`, `Add`);
  - with `SelfAssign = TRUE`, `s = s` copies from the array `operator=` has
    just allocated (trace `SizeCtor`, `Assign`).
- `feature_stats_text_round_trip` (violation of the action property
  `TextRoundTrip`). `operator<<` writes sparse features as `namevalue`, without
  a colon, so `loadtxt` of the saved line reads them as dense zeros.

Bounds: 2 objects; `AVAILABLE_` is 1 and at most 2 entries, so `expand` runs.
Values are {0, 1}, and {-1, 0, 1} where `-=` must produce a negative value.
There are 1 or 2 names, so ids are shared and interned in different orders.

### StaticData (`StaticData.tla`, `MCStaticData.tla`)

`LoadData` builds `m_allWeights` while the producers it creates register their
score components with `m_scoreIndexManager`. The model keeps both sequences:
- `weights` holds identities `<<param, position>>` of moses.ini entries;
- `index` holds components `<<kind, producer, j>>`.

Alongside them it keeps `distortionModelWeights` (`dmw`) and the
function-static `weightAllOffset` (`woff`) and `currWeightNum` (`gnum`), and
the member `m_numInputScores` (`numInputScores`). `LoadTranslationTable`
overwrites that member for every table: `InputScores` gives the weight-i count
for table 0 of a confusion network, and 0 for any other table. The weights it
pushes and the components its table registers start with that many input
scores. `CnInputScores` is the reference counterpart used by `Expected`. It
also keeps the mapping position, the decode-step count, `prevTransStep` and
`pc`.

One action covers each of the following:
- the prologue of `LoadData`, up to line 227;
- each iteration of the lexical-reordering loop, which registers the model and
  calls `SetWeightsForScoreProducer`;
- `LoadLanguageModels`, with the index of a failing LM chosen freely;
- each `LoadMapping` entry, where a table's `Load` may fail. An entry that is
  not two tokens (`malformed`) makes `LoadMapping` return false; type `T`
  calls `LoadTranslationTable`; any other type calls `LoadGenerationTable`
  (`IsGeneration`). The three-token form `0 T k` and its assert are parsing
  and are left out;
- the four asserts at the end of `LoadData`: one word-penalty producer, one
  distortion producer, one `distortion-limit` entry and one
  `max-trans-opt-per-coverage` entry per decode step (`conf.dl`, `conf.mt`).

The model halts in one of these states:
- `failed` when `LoadData` returns false;
- `abort` when an assert fails;
- `crash` when a NULL step is dereferenced.

`Expected` is the reference definition of what moses.ini means: which entry
weights each component.

Run `static_data` (pass, 197 states) checks `WeightsAligned`: until loading
stops with an error or attaches a NULL generation step, `weights` is exactly
`Expected` of each registered component. Its configurations cover:
- confusion-network input scores on table 0;
- two LMs;
- a shared-weight bidirectional reordering model;
- reordering models with one weight per component;
- generation steps between translation steps;
- two generation tables after one translation table (`TwoGenerations`), so the
  second reads `weight-generation` at `currWeightNum = 1`; the second is named
  with type `X`, which `LoadMapping` loads as a generation table like any
  two-token entry whose type is not `T`;
- every broken configuration that `LoadData` rejects or asserts on, including
  a short `distortion-limit` and a short `max-trans-opt-per-coverage` list.

The same run checks `LimitsInBounds`. `LoadTranslationTable` hands
`m_maxNoTransOptPerCoverage[index]` to the new `DecodeStepTranslation` (line
602) with no bound check. The ghost `overread` records that a step was built
from an entry past the end of the list. A load that reaches `loaded` never
has one. This holds only because the closing size assert and the per-table
asserts on the producers (a table index beyond `weight-w` or `weight-d`
aborts) together rule it out. The mutant `LoadDataEpilogueNoLimitAssert`
drops the size assert, and TLC serves the step that read past the list.
`ttable-limit` (`maxTargetPhrase[index]`, line 604) is read the same way, but
no assert ever checks its length. Its value goes only to the phrase table's
`Load`, which is not under `src/`, so the model leaves it out. It is listed as
a hazard.

Two configurations outside the run violate `WeightsAligned`; both are listed as
hazards:
- a mapping that lists tables out of file order (`T 1, G 0, T 0`), because the
  offset advances in call order;
- one extra `weight-l` entry, because its count is never checked.

A failed generation-table `Load` is in the run, and `WeightsAligned` exempts
it explicitly through the ghost `nullGen`. `LoadGenerationTable` returns NULL
before it pushes weights or advances the static `currWeightNum`, and
`LoadMapping` attaches the NULL step and goes on, so `LoadData` returns true.
Without the exemption TLC violates `WeightsAligned` in `TwoGenerations`: when
`G 0` fails, table 1 takes `weight-generation` entry 1 instead of entry 2.
This is listed as a hazard at line 637. The decoder would later use the NULL
step, so the load is broken whatever its weights.

The mutant `InputScoresNoReset` leaves `m_numInputScores` from table 0 in
place for later tables, and `WeightsAligned` catches it. What the member holds
after loading is a separate question. The decoder reads it through
`GetNumInputScores()`, and no property covers it. A scratch invariant, outside
the project, showed the value: after the confusion-network configuration
`T 0, G 0, T 1`, `LoadData` returns true with `m_numInputScores = 0`, although
table 0 takes two input scores. This is listed as a hazard at line 574.

### Fairness

The vocabulary runs check invariants and the refinement property (a safety property), so they assume no fairness. The
loader really stops once the vocabulary is served or the load has thrown, so
they say `CHECK_DEADLOCK FALSE`.

`ReadWords` is one thread's loop, so `FairSpec` assumes weak fairness of its own
steps (`Progress`), never of a failing `read()`. `Terminates` checks that every
stream ends in a return or a throw. The scoped_memory owners may stop at any
point, so `MappedRegion` assumes no fairness. FeatureStats objects are used
in any order by their callers, and StaticData only has invariants, so neither
assumes fairness.

## 4. Not modelled, and why

- The hash function is a constant injective map. MurmurHash collisions on 64 bits
  are out of scope.
- Byte-level layout (alignment, the header size) is abstracted to slot counts.
- Log messages and formatting are left out.
- `Optimiser.h` and `PhraseDictionaryJoshua.h` declare interfaces only.
- Parsing of configuration strings (`Scan`, `Tokenize`), timers, and the
  Boost cache-file clean-up in `StaticData` are pure I/O or formatting.
  `StaticData`'s scalar options, the input-phrase filter and the per-sentence
  hooks change no state the weight vector depends on.
- `SparseVector::clear` and `size` are called only from `FeatureStats.h`
  (`reset`), whose effect `SetLine` models. `SparseVector::write`'s 1e-5
  threshold needs non-integer values, which the model does not use.
- The message text of `COMPLAIN` and whether `config.messages` is set: no
  state depends on them.
- `Data.h` is not modelled. Its only state of its own is the sticky
  `_sparse_flag`, listed as a hazard. A module of it would hold one boolean
  that `load` sets and `clear` leaves alone, and any property of it would
  restate that assignment. The rest
  of `Data.h` only forwards calls to `FeatureData`/`ScoreData`, which are not
  under `src/`, so it stays `not_modelled`.
