------------------------- MODULE MCServiceLifecycle -------------------------
(* Settings of the manifest and of the README, sound and not, for TLC.     *)
EXTENDS ServiceLifecycle

CONSTANTS t1, t2

MCToken == {t1, t2}

Basic == [signing |-> FALSE, legacy |-> FALSE, key |-> "absent", keyId |-> FALSE,
          raw |-> FALSE, ephemeral |-> FALSE, pin |-> "release",
          token |-> <<t1>>, tokens |-> <<>>, open |-> FALSE]

\* What the flags and the signing key may be, and every way of giving the token.
MCEnvironments ==
  {[Basic EXCEPT !.signing = s, !.legacy = l, !.key = k, !.keyId = i, !.raw = r, !.ephemeral = r] :
     s, l, i, r \in BOOLEAN, k \in {"absent", "malformed", "seed"}}
  \cup {[Basic EXCEPT !.pin = p] : p \in {"absent", "blank", "unpinned"}}
  \cup {[Basic EXCEPT !.token = a, !.tokens = b, !.open = o] :
          a \in {<<>>, <<Nothing>>, <<Nothing, t1>>}, b \in {<<>>, <<t1>>, <<Nothing, t1, Nothing>>},
          o \in BOOLEAN}
=============================================================================
