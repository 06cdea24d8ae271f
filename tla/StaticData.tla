----------------------------- MODULE StaticData -----------------------------
(***************************************************************************)
(* StaticData::LoadData of src/branches/hieu_async/moses/src/StaticData.cpp *)
(* as it assembles the decoder's weight vector m_allWeights while the      *)
(* score producers it creates register their score components with        *)
(* m_scoreIndexManager.  Component p of the index must end up weighted by  *)
(* the moses.ini entry meant for it: that is the whole contract between   *)
(* the two sequences, which are built by different code in different      *)
(* orders (some loaders push weights before creating the producer, some   *)
(* after, the lexical reordering models through                           *)
(* SetWeightsForScoreProducer).                                            *)
(*                                                                         *)
(* A configuration is a record of what the parameters hold, abstracted to *)
(* counts and outcomes: each weight is the identity <<param, position>> of *)
(* the moses.ini entry it was read from.  The producers' constructors and *)
(* ScoreIndexManager::AddScoreProducer are not under src/: a producer     *)
(* appends its components to the index when it is constructed (or, for   *)
(* tables, when Load succeeds).                                           *)
(***************************************************************************)
EXTENDS Naturals, Sequences, SequencesExt

CONSTANTS
  Configs,       \* the moses.ini configurations LoadData may be given
  LoadFailures   \* TRUE: LM creation and table loading may fail

ASSUME LoadFailures \in BOOLEAN

VARIABLES
  conf,      \* the parameters (fixed for the run)
  weights,   \* m_allWeights: the weight identities, in index order
  index,     \* m_scoreIndexManager: the registered components, in order
  dmw,       \* distortionModelWeights still to be used by reordering models
  lexPos,    \* lexical reordering models loaded so far
  woff,      \* LoadTranslationTable's static weightAllOffset
  gnum,      \* LoadGenerationTable's static currWeightNum
  mapPos,    \* mapping entries processed by LoadMapping
  steps,     \* m_decodeStepCollection.GetSize()
  prevTrans, \* LoadMapping's prevTransStep is non-NULL
  numInputScores, \* m_numInputScores, overwritten by every translation table
  overread,  \* a DecodeStepTranslation was given m_maxNoTransOptPerCoverage[k]
             \* for a k past the end of that vector
  nullGen,   \* a NULL DecodeStepGeneration was attached to a translation step
  pc         \* "start", "lexical", "lm", "mapping", "loaded",
             \* "failed" (LoadData returns false), "abort" (an assert),
             \* "crash" (a NULL step dereferenced)

vars == <<conf, weights, index, dmw, lexPos, woff, gnum, mapPos, steps,
          prevTrans, numInputScores, overread, nullGen, pc>>

W(p, i) == <<p, i>>               \* the i-th entry of parameter p
Comp(kind, k, j) == <<kind, k, j>> \* component j of producer k of a kind
Comps(kind, k, n) == [j \in 1..n |-> Comp(kind, k, j)]

SumOf(s) == FoldLeft(LAMBDA a, b : a + b, 0, s)

(* Components of a lexical reordering model: 2 (monotone) or 3 (msd)     *)
(* orientations, twice for a bidirectional one.                           *)
NumWeightsInTable(m) ==
  (IF m.kind = "monotone" THEN 2 ELSE 3) * (IF m.bidi THEN 2 ELSE 1)


-----------------------------------------------------------------------------
(* What moses.ini means (reference): which entry weights each component.  *)

(* The weight-i entries weight the first components of table 0 of a       *)
(* confusion-network input.                                               *)
CnInputScores(k) == IF k = 0 /\ conf.input = "cn" THEN conf.i ELSE 0

(* weight-d entries a reordering model takes: one when it asks for one    *)
(* shared weight, else one per component; the first is distance.         *)
LexUse(m) == IF m.spec = 1 THEN 1 ELSE NumWeightsInTable(m)
LexStart(k) == 1 + SumOf([m \in 1..(k - 1) |-> LexUse(conf.lex[m])])
TOff(k) == SumOf([m \in 1..k |-> conf.t[m]])    \* tables 0 .. k-1
GOff(k) == SumOf([m \in 1..k |-> conf.g[m]])

Expected(c) ==
  LET kind == c[1]  k == c[2]  j == c[3] IN
  CASE kind = "dist" -> W("d", k)
    [] kind = "unk"  -> W("unk", 1)
    [] kind = "wp"   -> W("w", k)
    [] kind = "lex"  -> W("d", LexStart(k)
                               + (IF conf.lex[k].spec = 1 THEN 1 ELSE j))
    [] kind = "lm"   -> W("l", k)
    [] kind = "tt"   -> IF j <= CnInputScores(k) THEN W("i", j)
                        ELSE W("t", TOff(k) + j - CnInputScores(k))
    [] kind = "gen"  -> W("g", GOff(k) + j)

-----------------------------------------------------------------------------

Init ==
  /\ conf \in Configs
  /\ weights = <<>>
  /\ index = <<>>
  /\ dmw = <<>>
  /\ lexPos = 0
  /\ woff = 0
  /\ gnum = 0
  /\ mapPos = 0
  /\ steps = 0
  /\ prevTrans = FALSE
  /\ numInputScores = 0
  /\ overread = FALSE
  /\ nullGen = FALSE
  /\ pc = "start"

(* LoadData up to the reordering models: no input factor is an error;    *)
(* then a DistortionScoreProducer per weight-d entry, the unknown-word    *)
(* penalty (weight 1) and a WordPenaltyProducer per weight-w entry, each  *)
(* registered as it is constructed and its weight pushed after it.        *)
LoadDataPrologue ==
  /\ pc = "start"
  /\ IF ~conf.inputFactors
     THEN /\ pc' = "failed"
          /\ UNCHANGED <<weights, index, dmw>>
     ELSE /\ weights' = [i \in 1..conf.d |-> W("d", i)] \o <<W("unk", 1)>>
                        \o [i \in 1..conf.w |-> W("w", i)]
          /\ index' = [i \in 1..conf.d |-> Comp("dist", i, 1)]
                      \o <<Comp("unk", 1, 1)>>
                      \o [i \in 1..conf.w |-> Comp("wp", i, 1)]
          /\ dmw' = [i \in 1..(conf.d - 1) |-> W("d", i + 1)]
          /\ pc' = "lexical"
  /\ UNCHANGED <<conf, lexPos, woff, gnum, mapPos, steps, prevTrans,
                 numInputScores, overread, nullGen>>

(* SetWeightsForScoreProducer(sp, ws): resize m_allWeights to the end of  *)
(* sp's range if shorter (new elements 0), then overwrite the range.      *)
SetWeightsFor(ws, idx, c1, n) ==
  LET begin == SelectInSeq(idx, LAMBDA c : c = c1) - 1
      grown == IF Len(weights) < begin + n
               THEN weights \o [i \in 1..(begin + n - Len(weights)) |-> W("zero", 0)]
               ELSE weights
  IN [i \in DOMAIN grown |->
        IF begin < i /\ i <= begin + n THEN ws[i - begin] ELSE grown[i]]

(* Mutant: the loop index advanced twice per model. *)
LoadLexicalModelSkip ==
  /\ pc = "lexical"
  /\ lexPos < Len(conf.lex)
  /\ LET k == lexPos + 1
         m == conf.lex[k]
         n == NumWeightsInTable(m)
         take == IF m.spec = 1 THEN 1 ELSE n
     IN IF ~m.fields \/ m.kind = "bad"
        THEN /\ pc' = "failed"
             /\ UNCHANGED <<weights, index, dmw, lexPos>>
        ELSE IF Len(dmw) < take
        THEN /\ pc' = "abort"
             /\ UNCHANGED <<weights, index, dmw, lexPos>>
        ELSE LET lexW == IF m.spec = 1 THEN [j \in 1..n |-> dmw[1]]
                         ELSE SubSeq(dmw, 1, n)
                 idx == index \o Comps("lex", k, n)
             IN /\ index' = idx
                /\ weights' = SetWeightsFor(lexW, idx, Comp("lex", k, 1), n)
                /\ dmw' = SubSeq(dmw, take + 1, Len(dmw))
                /\ lexPos' = k + 1
                /\ UNCHANGED pc
  /\ UNCHANGED <<conf, woff, gnum, mapPos, steps, prevTrans, numInputScores, overread, nullGen>>

(* One iteration of LoadLexicalReorderingModel's loop: a specification   *)
(* without four fields or with an unknown type token returns false; a    *)
(* declared weight count that differs from the table's only logs; the    *)
(* weights come off the front of distortionModelWeights (one shared      *)
(* weight when one is declared), asserting there are enough; the new     *)
(* LexicalReordering registers its components and sets its weights.      *)
LoadLexicalModel ==
  /\ pc = "lexical"
  /\ lexPos < Len(conf.lex)
  /\ LET k == lexPos + 1
         m == conf.lex[k]
         n == NumWeightsInTable(m)
         take == IF m.spec = 1 THEN 1 ELSE n
     IN IF ~m.fields \/ m.kind = "bad"
        THEN /\ pc' = "failed"
             /\ UNCHANGED <<weights, index, dmw, lexPos>>
        ELSE IF Len(dmw) < take
        THEN /\ pc' = "abort"
             /\ UNCHANGED <<weights, index, dmw, lexPos>>
        ELSE LET lexW == IF m.spec = 1 THEN [j \in 1..n |-> dmw[1]]
                         ELSE SubSeq(dmw, 1, n)
                 idx == index \o Comps("lex", k, n)
             IN /\ index' = idx
                /\ weights' = SetWeightsFor(lexW, idx, Comp("lex", k, 1), n)
                /\ dmw' = SubSeq(dmw, take + 1, Len(dmw))
                /\ lexPos' = k
                /\ UNCHANGED pc
  /\ UNCHANGED <<conf, woff, gnum, mapPos, steps, prevTrans, numInputScores, overread, nullGen>>

LexicalDone ==
  /\ pc = "lexical"
  /\ lexPos = Len(conf.lex)
  /\ pc' = "lm"
  /\ UNCHANGED <<conf, weights, index, dmw, lexPos, woff, gnum, mapPos,
                 steps, prevTrans, numInputScores, overread, nullGen>>

(* LoadLanguageModels: with an lmodel-file, push every weight-l entry,   *)
(* then create the LMs in order, each registering one component; the     *)
(* first that comes back NULL (fail) makes it return false.              *)
LoadLanguageModels(fail) ==
  /\ pc = "lm"
  /\ LET lms == IF fail = 0 THEN conf.lms ELSE fail - 1 IN
       /\ weights' = IF conf.lms > 0
                     THEN weights \o [i \in 1..conf.l |-> W("l", i)]
                     ELSE weights
       /\ index' = index \o [i \in 1..lms |-> Comp("lm", i, 1)]
  /\ pc' = IF fail = 0 THEN "mapping" ELSE "failed"
  /\ UNCHANGED <<conf, dmw, lexPos, woff, gnum, mapPos, steps, prevTrans,
                 numInputScores, overread, nullGen>>

(* Mutant: m_numInputScores set for table 0 but never reset to 0. *)
InputScoresNoReset(k) ==
  IF k = 0 /\ conf.input = "cn" THEN conf.i ELSE numInputScores

(* The value LoadTranslationTable(k) gives m_numInputScores: the number   *)
(* of weight-i entries for table 0 of a non-sentence input, else 0.       *)
InputScores(k) == IF k = 0 /\ conf.input = "cn" THEN conf.i ELSE 0

(* LoadTranslationTable(k) for a "T k" mapping entry, then               *)
(* m_decodeStepCollection.Add: assert enough weight-t entries from the   *)
(* static weightAllOffset; set m_numInputScores; the weights are that    *)
(* many weight-i entries then the table's weight-t slice, pushed before  *)
(* the table is loaded (the size check after the push compares the loop  *)
(* with itself and never fires); the offset advances; assert a           *)
(* word-penalty and a distortion producer for step k.  A table whose     *)
(* Load fails is returned as NULL, which LoadMapping adds and            *)
(* dereferences.                                                         *)
LoadTranslationTable(k, ok) ==
  LET n == conf.t[k + 1]
      ni == InputScores(k)
      ws == [j \in 1..ni |-> W("i", j)] \o [j \in 1..n |-> W("t", woff + j)]
  IN
  IF conf.wt < woff + n
  THEN /\ pc' = "abort"
       /\ UNCHANGED <<weights, index, woff, steps, prevTrans, mapPos,
                      numInputScores, overread>>
  ELSE /\ numInputScores' = ni
       /\ weights' = weights \o ws
       /\ woff' = woff + n
       /\ CASE conf.w <= k \/ conf.d <= k ->
                 /\ pc' = "abort"
                 /\ UNCHANGED <<index, steps, prevTrans, mapPos, overread>>
            [] ok ->
                 /\ overread' = (overread \/ conf.mt <= k)
                 /\ index' = index \o Comps("tt", k, ni + n)
                 /\ steps' = steps + 1
                 /\ prevTrans' = TRUE
                 /\ mapPos' = mapPos + 1
                 /\ UNCHANGED pc
            [] OTHER ->
                 /\ overread' = (overread \/ conf.mt <= k)
                 /\ pc' = "crash"
                 /\ UNCHANGED <<index, steps, prevTrans, mapPos>>

(* LoadGenerationTable(k) for a generation entry: load the table (it     *)
(* registers its components), or return NULL without touching the        *)
(* weights or currWeightNum; then push weight-generation entries from    *)
(* the static currWeightNum, asserting each exists.  LoadMapping attaches *)
(* the step to prevTransStep, NULL or not, and goes on.                  *)
LoadGenerationTable(k, ok) ==
  LET n == conf.g[k + 1] IN
  IF ~ok
  THEN /\ mapPos' = mapPos + 1
       /\ nullGen' = TRUE
       /\ UNCHANGED <<weights, index, gnum, pc>>
  ELSE IF conf.wg < gnum + n
  THEN /\ pc' = "abort"
       /\ UNCHANGED <<weights, index, gnum, mapPos, nullGen>>
  ELSE /\ index' = index \o Comps("gen", k, n)
       /\ weights' = weights \o [j \in 1..n |-> W("g", gnum + j)]
       /\ gnum' = gnum + n
       /\ mapPos' = mapPos + 1
       /\ UNCHANGED <<pc, nullGen>>

(* One iteration of LoadMapping's loop.  An entry that is not two tokens *)
(* ("malformed") is "Malformed mapping!" and LoadMapping returns false.  *)
(* Of a two-token entry, type "T" loads a translation table and every    *)
(* other type a generation table; a generation entry before any "T"      *)
(* dereferences the NULL prevTransStep.                                  *)
IsGeneration(e) == e.type \notin {"T", "malformed"}

LoadMappingEntry(ok) ==
  /\ pc = "mapping"
  /\ mapPos < Len(conf.mapping)
  /\ LET e == conf.mapping[mapPos + 1] IN
     CASE e.type = "T" ->
            LoadTranslationTable(e.idx, ok) /\ UNCHANGED <<gnum, nullGen>>
       [] IsGeneration(e) /\ ~prevTrans ->
            /\ pc' = "crash"
            /\ UNCHANGED <<weights, index, woff, gnum, mapPos, steps, prevTrans,
                           numInputScores, overread, nullGen>>
       [] IsGeneration(e) /\ prevTrans ->
            LoadGenerationTable(e.idx, ok)
            /\ UNCHANGED <<woff, steps, prevTrans, numInputScores, overread>>
       [] OTHER ->
            /\ pc' = "failed"
            /\ UNCHANGED <<weights, index, woff, gnum, mapPos, steps, prevTrans,
                           numInputScores, overread, nullGen>>
  /\ UNCHANGED <<conf, dmw, lexPos>>

(* Mutant: the assert on m_maxNoTransOptPerCoverage's size left out. *)
LoadDataEpilogueNoLimitAssert ==
  /\ pc = "mapping"
  /\ mapPos = Len(conf.mapping)
  /\ pc' = IF steps = conf.w /\ steps = conf.d /\ steps = conf.dl
            THEN "loaded" ELSE "abort"
  /\ UNCHANGED <<conf, weights, index, dmw, lexPos, woff, gnum, mapPos,
                 steps, prevTrans, numInputScores, overread, nullGen>>

(* LoadMapping returns true; LoadData asserts one word-penalty producer, *)
(* one distortion producer, one distortion-limit entry and one           *)
(* max-trans-opt-per-coverage entry per decode step.                     *)
LoadDataEpilogue ==
  /\ pc = "mapping"
  /\ mapPos = Len(conf.mapping)
  /\ pc' = IF steps = conf.w /\ steps = conf.d /\ steps = conf.dl /\ steps = conf.mt
            THEN "loaded" ELSE "abort"
  /\ UNCHANGED <<conf, weights, index, dmw, lexPos, woff, gnum, mapPos,
                 steps, prevTrans, numInputScores, overread, nullGen>>

Outcomes == IF LoadFailures THEN BOOLEAN ELSE {TRUE}

Next ==
  \/ LoadDataPrologue
  \/ LoadLexicalModel
  \/ LexicalDone
  \/ \E fail \in 0..(IF LoadFailures THEN conf.lms ELSE 0) :
       LoadLanguageModels(fail)
  \/ \E ok \in Outcomes : LoadMappingEntry(ok)
  \/ LoadDataEpilogue

Spec == Init /\ [][Next]_vars

-----------------------------------------------------------------------------

Halted == {"loaded", "failed", "abort", "crash"}

TypeOK ==
  /\ conf \in Configs
  /\ weights \in Seq(STRING \X Nat)
  /\ index \in Seq(STRING \X Nat \X Nat)
  /\ lexPos \in 0..Len(conf.lex)
  /\ mapPos \in 0..Len(conf.mapping)
  /\ woff \in Nat /\ gnum \in Nat /\ steps \in Nat
  /\ prevTrans \in BOOLEAN
  /\ numInputScores \in Nat
  /\ overread \in BOOLEAN
  /\ nullGen \in BOOLEAN
  /\ pc \in {"start", "lexical", "lm", "mapping"} \cup Halted

(* Unless loading has stopped with an error or has attached a NULL      *)
(* generation step, m_allWeights is aligned with the score index: it has  *)
(* one weight per registered component, and the weight of every component *)
(* is the moses.ini entry meant for it, whichever loader pushed it, in    *)
(* whatever order relative to the registration, and at whatever value the *)
(* static offsets have reached.  A NULL generation step leaves            *)
(* currWeightNum behind, so every later generation table is weighted with *)
(* the failed table's entries; LoadData returns true in that case, which  *)
(* the README records.                                                    *)
WeightsAligned ==
  pc \notin {"failed", "abort", "crash"} /\ ~nullGen =>
    weights = [i \in DOMAIN index |-> Expected(index[i])]

(* LoadTranslationTable passes m_maxNoTransOptPerCoverage[index] to the   *)
(* new DecodeStepTranslation with no bound check, so a short              *)
(* max-trans-opt-per-coverage list is read past its end while the table   *)
(* loads.  Only LoadData's closing asserts, together with the per-table   *)
(* asserts on the producers, stop such a step from being served: a load   *)
(* that completes never built a step from a value read past the vector.  *)
LimitsInBounds == pc = "loaded" => ~overread

=============================================================================
