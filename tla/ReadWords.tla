----------------------------- MODULE ReadWords -----------------------------
(***************************************************************************)
(* ReadWords(fd, enumerate) of src/kenlm/lm/vocab.cc: read the word stream *)
(* of a binary file in chunks of kInitialRead bytes, complete a chunk that *)
(* ends inside a word one byte at a time, then Add(index++, word) for each *)
(* null-terminated word of the chunk.                                      *)
(*                                                                         *)
(* buf is the std::string's storage, bufSize its size(): read() writes at  *)
(* &buf[0] whatever size() is (the reserve keeps the capacity above        *)
(* kInitialRead), and resize(n) beyond size() fills with '\0'.            *)
(***************************************************************************)
EXTENDS Naturals, Sequences, SequencesExt

CONSTANTS
  Letters,       \* the non-null bytes words are made of
  Nul,           \* the '\0' byte
  MaxLen,        \* longest word stream considered
  kInitialRead,  \* chunk size of the read loop
  ShortReads,    \* TRUE: read() may return fewer bytes than asked before EOF
  ReadErrors     \* TRUE: read() may fail with -1

ASSUME Nul \notin Letters
ASSUME kInitialRead \in Nat \ {0} /\ MaxLen \in Nat
ASSUME ShortReads \in BOOLEAN /\ ReadErrors \in BOOLEAN

Bytes == Letters \cup {Nul}
BufCap == MaxLen + kInitialRead

VARIABLES
  file,      \* the bytes from the descriptor's offset to end of file
  pos,       \* bytes of file consumed by read()
  buf,       \* buf's storage, positions 1 .. BufCap
  bufSize,   \* buf.size()
  index,     \* the next WordIndex to announce
  out,       \* Add(index, word) calls made on enumerate, in order
  pc         \* "start", "read", "complete", "done", "error", "ioerror"

vars == <<file, pos, buf, bufSize, index, out, pc>>

(* The words of a byte sequence: maximal runs between null bytes, the run *)
(* after the last null byte dropped (reference definition).               *)
RECURSIVE SplitWords(_, _)
SplitWords(s, cur) ==
  IF s = <<>> THEN <<>>
  ELSE IF Head(s) = Nul THEN <<cur>> \o SplitWords(Tail(s), <<>>)
       ELSE SplitWords(Tail(s), Append(cur, Head(s)))

Numbered(ws, from) == [i \in DOMAIN ws |-> <<from + i - 1, ws[i]>>]

(* Byte counts one read() call may return with `left` bytes remaining. *)
ReadSizes(left) ==
  LET full == IF left < kInitialRead THEN left ELSE kInitialRead IN
  IF ShortReads /\ full > 0 THEN 1..full ELSE {full}

Content == SubSeq(buf, 1, bufSize)

-----------------------------------------------------------------------------

(* Mutant: the buffer only reserved, never resized to kInitialRead. *)
InitNoResize ==
  /\ file \in BoundedSeq(Bytes, MaxLen)
  /\ pos = 0
  /\ buf = [i \in 1..BufCap |-> Nul]
  /\ bufSize = 0
  /\ index = 0
  /\ out = <<>>
  /\ pc \in {"start", "read"}

(* buf.reserve(kInitialRead + 100); buf.resize(kInitialRead); index = 0. *)
Init ==
  /\ file \in BoundedSeq(Bytes, MaxLen)
  /\ pos = 0
  /\ buf = [i \in 1..BufCap |-> Nul]
  /\ bufSize = kInitialRead
  /\ index = 0
  /\ out = <<>>
  /\ pc \in {"start", "read"}

(* if (!enumerate) return max: LoadedBinary was given no sink. *)
NoSink ==
  /\ pc = "start"
  /\ pc' = "done"
  /\ UNCHANGED <<file, pos, buf, bufSize, index, out>>

(* Mutant: the `if (got == 0) return index;` left out, so the loop spins *)
(* on an exhausted descriptor.                                             *)
ReadEofNoReturn ==
  /\ pc = "read"
  /\ pos = Len(file)
  /\ UNCHANGED vars

(* got = read(fd, &buf[0], kInitialRead) returned 0: return index. *)
ReadEof ==
  /\ pc = "read"
  /\ pos = Len(file)
  /\ pc' = "done"
  /\ UNCHANGED <<file, pos, buf, bufSize, index, out>>

(* read() stored got bytes at the front of buf; buf.resize(got), which    *)
(* zero-fills positions bufSize+1 .. got when the string grows.           *)
ReadChunk(got) ==
  /\ pc = "read"
  /\ got > 0
  /\ buf' = [i \in 1..BufCap |->
               CASE i <= got /\ i > bufSize -> Nul
                 [] i <= got                -> file[pos + i]
                 [] OTHER                   -> buf[i]]
  /\ bufSize' = got
  /\ pos' = pos + got
  /\ pc' = "complete"
  /\ UNCHANGED <<file, index, out>>

(* while (buf[buf.size() - 1]): read one more byte and push_back it. *)
CompleteWord ==
  /\ pc = "complete"
  /\ buf[bufSize] # Nul
  /\ pos < Len(file)
  /\ buf' = [buf EXCEPT ![bufSize + 1] = file[pos + 1]]
  /\ bufSize' = bufSize + 1
  /\ pos' = pos + 1
  /\ UNCHANGED <<file, index, out, pc>>

(* The byte-wise read hit end of file: "Missing null terminator". *)
MissingTerminator ==
  /\ pc = "complete"
  /\ buf[bufSize] # Nul
  /\ pos = Len(file)
  /\ pc' = "error"
  /\ UNCHANGED <<file, pos, buf, bufSize, index, out>>

(* Mutant: Add(index, word) without advancing index. *)
AddWordsNoIncrement ==
  /\ pc = "complete"
  /\ buf[bufSize] = Nul
  /\ out' = out \o Numbered(SplitWords(Content, <<>>), index)
  /\ pc' = "read"
  /\ UNCHANGED <<file, pos, buf, bufSize, index>>

(* The chunk ends in a null byte: Add(index++, word) for each word of it. *)
AddWords ==
  /\ pc = "complete"
  /\ buf[bufSize] = Nul
  /\ LET ws == SplitWords(Content, <<>>) IN
       /\ out' = out \o Numbered(ws, index)
       /\ index' = index + Len(ws)
  /\ pc' = "read"
  /\ UNCHANGED <<file, pos, buf, bufSize>>

(* Either read() returned -1: ErrnoException "Reading vocabulary words". *)
ReadFails ==
  /\ ReadErrors
  /\ pc = "read" \/ (pc = "complete" /\ buf[bufSize] # Nul)
  /\ pc' = "ioerror"
  /\ UNCHANGED <<file, pos, buf, bufSize, index, out>>

(* The steps of the loop itself; a failing read() is never relied on. *)
Progress ==
  \/ NoSink
  \/ ReadEof
  \/ \E got \in ReadSizes(Len(file) - pos) : ReadChunk(got)
  \/ CompleteWord
  \/ MissingTerminator
  \/ AddWords

Next == Progress \/ ReadFails

Spec == Init /\ [][Next]_vars

(* ReadWords is a plain loop of one thread: it keeps taking steps until it *)
(* returns or throws, which weak fairness on its own steps states.          *)
FairSpec == Spec /\ WF_vars(Progress)

-----------------------------------------------------------------------------

TypeOK ==
  /\ file \in BoundedSeq(Bytes, MaxLen)
  /\ pos \in 0..Len(file)
  /\ buf \in [1..BufCap -> Bytes]
  /\ bufSize \in 1..BufCap
  /\ index \in Nat
  /\ out \in Seq(Nat \X Seq(Letters))
  /\ pc \in {"start", "read", "complete", "done", "error", "ioerror"}

Terminated(s) == s # <<>> /\ Last(s) = Nul

(* Whatever sizes read() returns, the words announced so far are a prefix *)
(* of the words of the consumed bytes, numbered from 0; when ReadWords     *)
(* returns with a sink, every word of the stream has been announced once,  *)
(* in file order; it throws only for a stream whose last word has no      *)
(* terminator.                                                             *)
AnnouncesStream ==
  LET whole == Numbered(SplitWords(file, <<>>), 0) IN
  /\ IsPrefix(out, whole)
  /\ (pc = "done" /\ pos = Len(file)) => out = whole
  /\ pc = "error" => ~Terminated(file)

(* ReadWords always returns or throws: every stream is consumed, since    *)
(* each step reads at least one byte or leaves the loop.                  *)
Terminates == <>(pc \in {"done", "error", "ioerror"})

=============================================================================
