---------------------------- MODULE FeatureStats ----------------------------
(***************************************************************************)
(* FeatureStats and SparseVector of src/mert/FeatureStats.cpp: a few       *)
(* FeatureStats objects, each a growable array of dense feature values    *)
(* (array_, available_, entries_) and a SparseVector map_ from interned    *)
(* name ids to values.  The interning tables name2id_/id2name_ are static: *)
(* one pair shared by every object of the process.                        *)
(*                                                                         *)
(* A line of text is a sequence of tokens as getNextPound cuts it at       *)
(* spaces, [name, colon, value]: a number when name is NoName, else       *)
(* "name:value" when colon is TRUE and "namevalue" when it is FALSE.  A    *)
(* name starts with a letter, so atof of a token without ':' that carries *)
(* a name is 0.                                                            *)
(*                                                                         *)
(* Next to the concrete state, absDense/absSparse hold what each object   *)
(* should contain: the values added to it, the values of the line it was  *)
(* set from, or those of the object it was copied from.                   *)
(***************************************************************************)
EXTENDS Integers, Sequences, SequencesExt, FiniteSets

CONSTANTS
  Objects,        \* the FeatureStats objects
  Names,          \* sparse feature names
  Values,         \* feature values (small integers, 0 among them)
  Lines,          \* text lines set() and loadtxt() may be given
  kAvailable,     \* AVAILABLE_, the initial capacity (8 in the code)
  MaxEntries,     \* no add(), and no saved line, beyond this many entries
  CtorSizes,      \* sizes FeatureStats(size) is called with
  Garbage,        \* what the uninitialised available_/entries_ may hold
  SelfAssign,     \* TRUE: operator= may be called with *this
  StringCtor,     \* TRUE: FeatureStats(std::string&) is used
  Undef,          \* an uninitialised array element
  NoName          \* the name part of a plain number token

ASSUME 0 \in Values /\ Undef \notin Values /\ NoName \notin Names

Token == [name : {NoName}, colon : {FALSE}, value : Values \cup {Undef}]
         \cup [name : Names, colon : BOOLEAN, value : Values]
Num(v) == [name |-> NoName, colon |-> FALSE, value |-> v]
Absent == [n \in Names |-> 0]

VARIABLES
  obj,        \* o -> [live, wild, avail, entries, data]
  fvec,       \* o -> map_.fvector_, a function from ids to values
  id2name,    \* SparseVector::id2name_; name2id_ is its inverse
  faults,     \* kinds of memory errors that have happened
  file,       \* the line the last savetxt wrote
  saved,      \* what the saved object held: [dense, sparse]
  bin,        \* the last savebin: the values written, and the entries_ and
              \* dense values of the object it was written from
  absDense,   \* o -> the dense values it should hold
  absSparse   \* o -> name -> the sparse value it should hold (0: none)

vars == <<obj, fvec, id2name, faults, file, saved, bin, absDense, absSparse>>

Dead == [live |-> FALSE, wild |-> FALSE, avail |-> 0, entries |-> 0,
         data |-> <<>>]

(* new FeatureStatsType[n]: n uninitialised elements. *)
NewArray(n) == [i \in 1..n |-> Undef]

(* SparseVector::set(name, v) against the shared tables: the name's id,  *)
(* or the next id, appended to id2name_, for a new name.                  *)
IdOf(ids, n) == SelectInSeq(ids, LAMBDA x : x = n) - 1
Intern(ids, n) == IF n \in Range(ids) THEN ids ELSE Append(ids, n)
SetSparse(f, ids, n, v) == (IdOf(Intern(ids, n), n) :> v) @@ f

(* SparseVector::get(name): 0 for an unknown name or an absent id. *)
GetIn(f, ids, n) ==
  LET i == IdOf(ids, n) IN IF i \in DOMAIN f THEN f[i] ELSE 0

(* expand(): available_ *= 2; copy the entries_ first elements to a new    *)
(* array; delete the old one.  Copying from or deleting a wild pointer is  *)
(* a fault.                                                                *)
Expand(s) ==
  LET r == s.rec
      n == 2 * r.avail
      copy == [i \in 1..n |-> IF i <= r.entries /\ ~r.wild
                              THEN r.data[i] ELSE Undef]
  IN [rec |-> [r EXCEPT !.avail = n, !.wild = FALSE, !.data = copy],
      faults |-> s.faults \cup (IF r.wild THEN {"wild_delete"} ELSE {})
                 \cup (IF r.wild /\ r.entries > 0 THEN {"wild_read"}
                       ELSE {})]

(* add(v): if (isfull()) expand(); array_[entries_++] = v.  A write past *)
(* available_ or through a wild pointer is a fault and stores nothing.    *)
AddTo(s, v) ==
  LET t == IF s.rec.entries >= s.rec.avail THEN Expand(s) ELSE s
      r == t.rec
      k == r.entries + 1
  IN [rec |-> [r EXCEPT !.entries = k,
                        !.data = IF k <= r.avail /\ ~r.wild
                                 THEN [@ EXCEPT ![k] = v] ELSE @],
      faults |-> t.faults
                 \cup (IF k > r.avail THEN {"overflow"} ELSE {})
                 \cup (IF r.wild THEN {"wild_write"} ELSE {})]

(* atof of a token that getNextPound cut without ':' in it. *)
Atof(tok) == IF tok.name = NoName THEN tok.value ELSE 0

(* set(line): reset() (entries_ = 0, map_ cleared), then each token: one *)
(* with ':' is addSparse(name, value), any other is add(atof(token)).     *)
RECURSIVE SetTokens(_, _)
SetTokens(s, toks) ==
  IF toks = <<>> THEN s
  ELSE LET tok == Head(toks) IN
       SetTokens(
         IF tok.colon
         THEN [s EXCEPT !.f = SetSparse(s.f, s.ids, tok.name, tok.value),
                        !.ids = Intern(s.ids, tok.name)]
         ELSE LET a == AddTo([rec |-> s.rec, faults |-> s.faults], Atof(tok))
              IN [s EXCEPT !.rec = a.rec, !.faults = a.faults],
         Tail(toks))

SetLine(r, line) ==
  SetTokens([rec |-> [r EXCEPT !.entries = 0], f |-> <<>>, ids |-> id2name,
             faults |-> faults], line)

(* What a line should give (reference): its dense values in order, and    *)
(* for each name the value of its last "name:value" token.                 *)
DenseOf(line) ==
  LET d == SelectSeq(line, LAMBDA t : ~t.colon)
  IN [i \in DOMAIN d |-> Atof(d[i])]
SparseOf(line) ==
  [n \in Names |->
     LET is == {i \in DOMAIN line : line[i].colon /\ line[i].name = n}
     IN IF is = {} THEN 0 ELSE line[Max(is)].value]

(* operator<<: the entries_ values, then map_.write(o, "") in id order,   *)
(* skipping values below 1e-5 in magnitude.  An element past the array or *)
(* behind a wild pointer reads as garbage.                                 *)
Format(r, f) ==
  LET ks == SelectSeq([i \in 1..Len(id2name) |-> i - 1],
                      LAMBDA k : k \in DOMAIN f /\ f[k] # 0)
  IN [i \in 1..r.entries |-> Num(IF i <= Len(r.data) THEN r.data[i] ELSE Undef)]
     \o [j \in DOMAIN ks |-> [name |-> id2name[ks[j] + 1], colon |-> FALSE,
                              value |-> f[ks[j]]]]

(* Mutant: memcpy of one element fewer than entries_. *)
CopyOfShort(src, self) ==
  [live |-> TRUE, wild |-> FALSE, avail |-> src.avail, entries |-> src.entries,
   data |-> [i \in 1..src.avail |->
               IF i < src.entries /\ ~self /\ ~src.wild THEN src.data[i]
               ELSE Undef]]

(* The array operator= and the copy constructor produce from src: a fresh *)
(* array of src.available_ elements and src's first entries_ copied over  *)
(* from src.getArray(); when src is the object itself, operator= has      *)
(* already replaced array_ by the fresh array.                            *)
CopyOf(src, self) ==
  [live |-> TRUE, wild |-> FALSE, avail |-> src.avail, entries |-> src.entries,
   data |-> [i \in 1..src.avail |->
               IF i <= src.entries /\ ~self /\ ~src.wild THEN src.data[i]
               ELSE Undef]]

-----------------------------------------------------------------------------

Init ==
  /\ obj = [o \in Objects |-> Dead]
  /\ fvec = [o \in Objects |-> <<>>]
  /\ id2name = <<>>
  /\ faults = {}
  /\ file = <<>>
  /\ saved = [dense |-> <<>>, sparse |-> Absent]
  /\ bin = [data |-> <<>>, count |-> 0, dense |-> <<>>]
  /\ absDense = [o \in Objects |-> <<>>]
  /\ absSparse = [o \in Objects |-> Absent]

(* FeatureStats(): available_ = AVAILABLE_, entries_ = 0, new array. *)
DefaultCtor(o) ==
  /\ ~obj[o].live
  /\ obj' = [obj EXCEPT ![o] = [live |-> TRUE, wild |-> FALSE,
                                avail |-> kAvailable, entries |-> 0,
                                data |-> NewArray(kAvailable)]]
  /\ fvec' = [fvec EXCEPT ![o] = <<>>]
  /\ absDense' = [absDense EXCEPT ![o] = <<>>]
  /\ absSparse' = [absSparse EXCEPT ![o] = Absent]
  /\ UNCHANGED <<id2name, faults, file, saved, bin>>

(* FeatureStats(size): size entries, memset to 0. *)
SizeCtor(o, n) ==
  /\ ~obj[o].live
  /\ obj' = [obj EXCEPT ![o] = [live |-> TRUE, wild |-> FALSE, avail |-> n,
                                entries |-> n, data |-> [i \in 1..n |-> 0]]]
  /\ fvec' = [fvec EXCEPT ![o] = <<>>]
  /\ absDense' = [absDense EXCEPT ![o] = [i \in 1..n |-> 0]]
  /\ absSparse' = [absSparse EXCEPT ![o] = Absent]
  /\ UNCHANGED <<id2name, faults, file, saved, bin>>

(* Mutant: set() without its reset(), keeping the garbage entries_. *)
StringCtorNoReset(o, line, g, e) ==
  /\ StringCtor
  /\ ~obj[o].live
  /\ LET s == SetTokens([rec |-> [live |-> TRUE, wild |-> TRUE, avail |-> g,
                                  entries |-> e, data |-> <<>>],
                         f |-> <<>>, ids |-> id2name, faults |-> faults],
                        line)
     IN /\ obj' = [obj EXCEPT ![o] = s.rec]
        /\ fvec' = [fvec EXCEPT ![o] = s.f]
        /\ id2name' = s.ids
        /\ faults' = s.faults
  /\ absDense' = [absDense EXCEPT ![o] = DenseOf(line)]
  /\ absSparse' = [absSparse EXCEPT ![o] = SparseOf(line)]
  /\ UNCHANGED <<file, saved, bin>>

(* FeatureStats(std::string&): array_, available_ and entries_ are never *)
(* initialised before set(theString) runs.                               *)
StringCtorAction(o, line, g, e) ==
  /\ StringCtor
  /\ ~obj[o].live
  /\ LET s == SetLine([live |-> TRUE, wild |-> TRUE, avail |-> g,
                       entries |-> e, data |-> <<>>], line)
     IN /\ obj' = [obj EXCEPT ![o] = s.rec]
        /\ fvec' = [fvec EXCEPT ![o] = s.f]
        /\ id2name' = s.ids
        /\ faults' = s.faults
  /\ absDense' = [absDense EXCEPT ![o] = DenseOf(line)]
  /\ absSparse' = [absSparse EXCEPT ![o] = SparseOf(line)]
  /\ UNCHANGED <<file, saved, bin>>

(* FeatureStats(const FeatureStats&). *)
CopyCtor(o, src) ==
  /\ ~obj[o].live /\ obj[src].live
  /\ obj' = [obj EXCEPT ![o] = CopyOf(obj[src], FALSE)]
  /\ faults' = faults \cup (IF obj[src].wild /\ obj[src].entries > 0
                            THEN {"wild_read"} ELSE {})
  /\ fvec' = [fvec EXCEPT ![o] = fvec[src]]
  /\ absDense' = [absDense EXCEPT ![o] = absDense[src]]
  /\ absSparse' = [absSparse EXCEPT ![o] = absSparse[src]]
  /\ UNCHANGED <<id2name, file, saved, bin>>

(* operator=(stats): delete array_, then copy as the copy constructor. *)
Assign(o, src) ==
  /\ obj[o].live /\ obj[src].live
  /\ o = src => SelfAssign
  /\ obj' = [obj EXCEPT ![o] = CopyOf(obj[src], o = src)]
  /\ faults' = faults \cup (IF obj[o].wild THEN {"wild_delete"} ELSE {})
                      \cup (IF obj[src].wild /\ obj[src].entries > 0 /\ o # src
                            THEN {"wild_read"} ELSE {})
  /\ fvec' = [fvec EXCEPT ![o] = fvec[src]]
  /\ absDense' = [absDense EXCEPT ![o] = absDense[src]]
  /\ absSparse' = [absSparse EXCEPT ![o] = absSparse[src]]
  /\ UNCHANGED <<id2name, file, saved, bin>>

(* add(v) *)
Add(o, v) ==
  /\ obj[o].live
  /\ obj[o].entries < MaxEntries
  /\ LET a == AddTo([rec |-> obj[o], faults |-> faults], v) IN
       /\ obj' = [obj EXCEPT ![o] = a.rec]
       /\ faults' = a.faults
  /\ absDense' = [absDense EXCEPT ![o] = Append(@, v)]
  /\ UNCHANGED <<fvec, id2name, file, saved, bin, absSparse>>

(* addSparse(name, v): map_.set(name, v). *)
AddSparse(o, n, v) ==
  /\ obj[o].live
  /\ fvec' = [fvec EXCEPT ![o] = SetSparse(@, id2name, n, v)]
  /\ id2name' = Intern(id2name, n)
  /\ absSparse' = [absSparse EXCEPT ![o][n] = v]
  /\ UNCHANGED <<obj, faults, file, saved, bin, absDense>>

(* loadtxt(file) / set(line) on a line of an arbitrary file. *)
LoadTxt(o, line) ==
  /\ obj[o].live
  /\ LET s == SetLine(obj[o], line) IN
       /\ obj' = [obj EXCEPT ![o] = s.rec]
       /\ fvec' = [fvec EXCEPT ![o] = s.f]
       /\ id2name' = s.ids
       /\ faults' = s.faults
  /\ absDense' = [absDense EXCEPT ![o] = DenseOf(line)]
  /\ absSparse' = [absSparse EXCEPT ![o] = SparseOf(line)]
  /\ UNCHANGED <<file, saved, bin>>

(* savetxt(file): the file holds operator<<'s line. *)
SaveTxt(o) ==
  /\ obj[o].live
  /\ Len(Format(obj[o], fvec[o])) <= MaxEntries
  /\ file' = Format(obj[o], fvec[o])
  /\ saved' = [dense |-> absDense[o], sparse |-> absSparse[o]]
  /\ UNCHANGED <<obj, fvec, id2name, faults, bin, absDense, absSparse>>

(* loadtxt(file) on the file savetxt wrote. *)
LoadSaved(o) == LoadTxt(o, file)

(* savebin(out): write the featbytes_ = entries_ * sizeof bytes of array_ *)
(* (the sparse map is not written).  Through a wild pointer the bytes are *)
(* garbage and the read a fault.                                           *)
SaveBin(o) ==
  /\ obj[o].live
  /\ LET r == obj[o] IN
       /\ bin' = [data |-> [i \in 1..r.entries |->
                              IF ~r.wild /\ i <= Len(r.data) THEN r.data[i]
                              ELSE Undef],
                  count |-> r.entries, dense |-> absDense[o]]
       /\ faults' = faults \cup (IF r.wild /\ r.entries > 0 THEN {"wild_read"}
                                ELSE {})
  /\ UNCHANGED <<obj, fvec, id2name, file, saved, absDense, absSparse>>

(* loadbin(in): read featbytes_ bytes, i.e. as many values as this        *)
(* object's own entries_, into array_, leaving map_ and entries_ as they  *)
(* are.  The caller (FeatureArray::loadbin, not under src/) reads each    *)
(* entry into a FeatureStats(n) built with the count the file's header   *)
(* gives, which is the written object's entries_.                         *)
LoadBin(o) ==
  /\ obj[o].live /\ obj[o].entries = bin.count
  /\ LET r == obj[o] IN
       /\ obj' = [obj EXCEPT ![o].data =
                    IF r.wild THEN @
                    ELSE [i \in DOMAIN @ |->
                            IF i <= r.entries /\ i <= Len(bin.data)
                            THEN bin.data[i] ELSE @[i]]]
       /\ faults' = faults \cup (IF r.wild /\ r.entries > 0 THEN {"wild_write"}
                                ELSE {})
  /\ absDense' = [absDense EXCEPT ![o] = bin.dense]
  /\ UNCHANGED <<fvec, id2name, file, saved, bin, absSparse>>

(* Mutant: -= without its second loop, so ids only rhs has are lost. *)
SubtractSparseFirstLoop(o, src) ==
  /\ obj[o].live /\ obj[src].live
  /\ \A n \in Names : absSparse[o][n] - absSparse[src][n] \in Values
  /\ fvec' = [fvec EXCEPT ![o] =
               [k \in DOMAIN fvec[o] |->
                  fvec[o][k] - (IF k \in DOMAIN fvec[src] THEN fvec[src][k]
                                ELSE 0)]]
  /\ absSparse' = [absSparse EXCEPT ![o] =
                    [n \in Names |-> absSparse[o][n] - absSparse[src][n]]]
  /\ UNCHANGED <<obj, id2name, faults, file, saved, bin, absDense>>

(* map_ -= src.map_ (SparseVector::operator-=), kept within Values. *)
SubtractSparse(o, src) ==
  /\ obj[o].live /\ obj[src].live
  /\ \A n \in Names : absSparse[o][n] - absSparse[src][n] \in Values
  /\ fvec' = [fvec EXCEPT ![o] =
               [k \in DOMAIN fvec[o] \cup DOMAIN fvec[src] |->
                  (IF k \in DOMAIN fvec[o] THEN fvec[o][k] ELSE 0)
                  - (IF k \in DOMAIN fvec[src] THEN fvec[src][k] ELSE 0)]]
  /\ absSparse' = [absSparse EXCEPT ![o] =
                    [n \in Names |-> absSparse[o][n] - absSparse[src][n]]]
  /\ UNCHANGED <<obj, id2name, faults, file, saved, bin, absDense>>

(* ~FeatureStats(): delete[] array_. *)
Destroy(o) ==
  /\ obj[o].live
  /\ obj' = [obj EXCEPT ![o] = Dead]
  /\ faults' = faults \cup (IF obj[o].wild THEN {"wild_delete"} ELSE {})
  /\ UNCHANGED <<fvec, id2name, file, saved, bin, absDense, absSparse>>

Next ==
  \E o \in Objects :
    \/ DefaultCtor(o)
    \/ \E n \in CtorSizes : SizeCtor(o, n)
    \/ \E line \in Lines, g \in Garbage, e \in Garbage :
         StringCtorAction(o, line, g, e)
    \/ \E src \in Objects : CopyCtor(o, src) \/ Assign(o, src)
                            \/ SubtractSparse(o, src)
    \/ \E v \in Values : Add(o, v)
    \/ \E n \in Names, v \in Values : AddSparse(o, n, v)
    \/ \E line \in Lines : LoadTxt(o, line)
    \/ SaveTxt(o)
    \/ LoadSaved(o)
    \/ SaveBin(o)
    \/ LoadBin(o)
    \/ Destroy(o)

Spec == Init /\ [][Next]_vars

-----------------------------------------------------------------------------

Rec == [live : BOOLEAN, wild : BOOLEAN, avail : Nat, entries : 0..MaxEntries,
        data : Seq(Values \cup {Undef})]

TypeOK ==
  /\ obj \in [Objects -> Rec]
  /\ \A o \in Objects : fvec[o] \in [DOMAIN fvec[o] -> Int]
  /\ id2name \in Seq(Names)
  /\ faults \subseteq {"overflow", "wild_write", "wild_read", "wild_delete"}
  /\ file \in Seq(Token)
  /\ bin \in [data : Seq(Values \cup {Undef}), count : 0..MaxEntries,
             dense : Seq(Values \cup {Undef})]
  /\ absDense \in [Objects -> Seq(Values \cup {Undef})]
  /\ absSparse \in [Objects -> [Names -> Int]]

(* Every live object's array holds, in its first entries_ elements, the   *)
(* dense values it was given: through add() and expand(), set(), the copy  *)
(* constructor and operator=, with entries_ within available_.            *)
DenseMatch ==
  \A o \in Objects : obj[o].live =>
    /\ ~obj[o].wild
    /\ obj[o].entries <= obj[o].avail
    /\ Len(obj[o].data) = obj[o].avail
    /\ SubSeq(obj[o].data, 1, obj[o].entries) = absDense[o]

(* Every object's get(name) is the value last set for that name, by       *)
(* addSparse, a line, a copy or -=, although all objects share the static *)
(* interning tables.                                                       *)
SparseMatch ==
  \A o \in Objects, n \in Names : obj[o].live =>
    GetIn(fvec[o], id2name, n) = absSparse[o][n]

(* loadtxt of the line savetxt wrote gives back the saved object: the same *)
(* dense values and the same sparse values.                               *)
TextRoundTrip ==
  [][\A o \in Objects :
       LoadSaved(o) => absDense'[o] = saved.dense
                       /\ absSparse'[o] = saved.sparse]_vars

=============================================================================
