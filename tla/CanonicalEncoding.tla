------------------------- MODULE CanonicalEncoding -------------------------
(***************************************************************************)
(* CE-v1, the encoding under every signature and every hash of the service *)
(* (canonical.rs): records of a label and a value, each preceded by its    *)
(* length in a fixed number of bytes.  Two calls of ce_v1_bytes run side   *)
(* by side, a record of each per step: the one whose bytes were signed,    *)
(* and the one of the verification.  The bytes of an ended call do not     *)
(* change, so the order of the two does not matter.                        *)
(***************************************************************************)
EXTENDS Naturals, Sequences

CONSTANTS Byte,
          LabelMax, LabelWidth, LabelLength,  \* u16 and its to_be_bytes
          ValueMax, ValueWidth, ValueLength,  \* u32 and its to_be_bytes
          Statements                          \* the lists of records considered

\* A fixed-width representation of the numbers up to max.
Representation(code, max, width) ==
  /\ max \in Nat /\ width \in Nat \ {0}
  /\ code \in [0..max -> [1..width -> Byte]]
  /\ \A m, n \in 0..max : code[m] = code[n] => m = n

Record == [label : Seq(Byte), value : Seq(Byte)]

ASSUME LengthsAssumption == /\ Representation(LabelLength, LabelMax, LabelWidth)
                            /\ Representation(ValueLength, ValueMax, ValueWidth)
ASSUME StatementsAssumption == Statements \subseteq Seq(Record)

VARIABLES
  given,    \* the records of each call
  done,     \* how many of them the calls have encoded, while they have any
  out,      \* the bytes of each call
  panicked  \* a length did not fit, and the call ended without a result
vars == <<given, done, out, panicked>>

Calls == {"signed", "shown"}

Fits(r) == Len(r.label) <= LabelMax /\ Len(r.value) <= ValueMax

\* Mutant: the label is written without its length.
EncodedBare(r) == r.label \o ValueLength[Len(r.value)] \o r.value
\* Mutant: each length is written as one number, whatever its width.
EncodedUnpacked(r) == <<Len(r.label)>> \o r.label \o <<Len(r.value)>> \o r.value
Encoded(r) ==
  LabelLength[Len(r.label)] \o r.label \o ValueLength[Len(r.value)] \o r.value

Init == /\ given \in [Calls -> Statements]
        /\ done = 0
        /\ out = [c \in Calls |-> <<>>]
        /\ panicked = FALSE

More(c) == done < Len(given[c])
Upcoming(c) == given[c][done + 1]

Advance ==
  /\ ~panicked
  /\ \E c \in Calls : More(c)
  /\ \A c \in Calls : More(c) => Fits(Upcoming(c))
  /\ out' = [c \in Calls |-> IF More(c) THEN out[c] \o Encoded(Upcoming(c)) ELSE out[c]]
  /\ done' = done + 1
  /\ UNCHANGED <<given, panicked>>

\* The expect of a length conversion.
Panic ==
  /\ ~panicked
  /\ \E c \in Calls : More(c) /\ ~Fits(Upcoming(c))
  /\ panicked' = TRUE
  /\ UNCHANGED <<given, done, out>>

Next == Advance \/ Panic
Spec == Init /\ [][Next]_vars

-----------------------------------------------------------------------------
(* Properties.                                                             *)

\* Every variable has its type; what is written are bytes.
TypeOK == /\ given \in [Calls -> Statements]
          /\ done \in Nat
          /\ out \in [Calls -> Seq(Byte)]
          /\ panicked \in BOOLEAN

Returned == ~panicked /\ \A c \in Calls : ~More(c)

\* Bytes have one reading: when the bytes that are verified are those that were signed,
\* the records are those that were signed, in number, order, labels and values, although
\* lengths, labels and values are of the same bytes.
OneReading == Returned /\ out["signed"] = out["shown"] => given["signed"] = given["shown"]
=============================================================================
