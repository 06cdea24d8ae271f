---------------------------- MODULE MCStaticData ----------------------------
(***************************************************************************)
(* moses.ini configurations for StaticData::LoadData.  Mapping entries    *)
(* name tables in the order ttable-file and generation-file list them.    *)
(***************************************************************************)
EXTENDS StaticData

T(k) == [type |-> "T", idx |-> k]
G(k) == [type |-> "G", idx |-> k]
Lex(f, kind, bidi, spec) == [fields |-> f, kind |-> kind, bidi |-> bidi, spec |-> spec]

Base == [inputFactors |-> TRUE, d |-> 1, w |-> 1, lex |-> <<>>, l |-> 1,
         lms |-> 1, t |-> <<2>>, wt |-> 2, input |-> "text", i |-> 0,
         g |-> <<>>, wg |-> 0, mapping |-> <<T(0)>>, dl |-> 1, mt |-> 1]

(* A confusion network with input scores, two LMs, a shared-weight      *)
(* bidirectional monotone reordering model and a generation step.       *)
Factored == [Base EXCEPT !.d = 2, !.w = 2,
                         !.lex = <<Lex(TRUE, "monotone", TRUE, 1)>>,
                         !.l = 2, !.lms = 2, !.t = <<1, 2>>, !.wt = 3,
                         !.input = "cn", !.i = 2, !.g = <<1>>, !.wg = 1, !.dl = 2, !.mt = 2,
                         !.mapping = <<T(0), G(0), T(1)>>]

(* Two generation tables after one translation table, the second named   *)
(* with a type token other than "G", which LoadMapping also loads as a    *)
(* generation table: currWeightNum is 1 when it reads weight-generation.  *)
TwoGenerations == [Factored EXCEPT !.g = <<1, 2>>, !.wg = 3,
                                   !.mapping = <<T(0), G(0), [type |-> "X", idx |-> 1], T(1)>>]

(* Three decode steps, no LM, and two reordering models (one weight per *)
(* component, then a shared one) reading weight-d after distance.        *)
ThreeSteps == [Base EXCEPT !.d = 4, !.w = 4, !.l = 0, !.lms = 0,
                           !.lex = <<Lex(TRUE, "monotone", FALSE, 2),
                                     Lex(TRUE, "msd", FALSE, 1)>>,
                           !.t = <<1, 1, 2, 1>>, !.wt = 5, !.g = <<2>>, !.wg = 2, !.dl = 4, !.mt = 4,
                           !.mapping = <<T(0), T(1), G(0), T(2), T(3)>>]

(* Configurations LoadData rejects or asserts on; the last has a        *)
(* max-trans-opt-per-coverage entry for table 0 only, so table 1 reads    *)
(* past the list before the closing assert fires.                        *)
Broken ==
  { [Base EXCEPT !.inputFactors = FALSE],
    [Base EXCEPT !.lex = <<Lex(TRUE, "bad", FALSE, 2)>>],
    [Base EXCEPT !.lex = <<Lex(FALSE, "msd", FALSE, 3)>>],
    [Base EXCEPT !.mapping = <<T(0), [type |-> "malformed", idx |-> 0]>>],
    [Factored EXCEPT !.mapping = <<G(0), T(0), T(1)>>],
    [Factored EXCEPT !.wt = 2],
    [Factored EXCEPT !.w = 1],
    [Base EXCEPT !.lex = <<Lex(TRUE, "msd", FALSE, 3)>>],
    [Factored EXCEPT !.wg = 0],
    [Factored EXCEPT !.dl = 1],
    [Factored EXCEPT !.mt = 1] }

MCConfigs == {Base, Factored, TwoGenerations, ThreeSteps,
              [ThreeSteps EXCEPT !.input = "cn", !.i = 1]} \cup Broken
====
