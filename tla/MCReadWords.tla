---------------------------- MODULE MCReadWords ----------------------------
(* ReadWords over every stream of up to four bytes from {a, b, '\0'}, read *)
(* in chunks of two bytes so that words straddle chunk boundaries.         *)
EXTENDS ReadWords

MCLetters == {"a", "b"}

=============================================================================
