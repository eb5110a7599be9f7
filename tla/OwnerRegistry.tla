--------------------------- MODULE OwnerRegistry ---------------------------
(***************************************************************************)
(* What the owner database promises, without transactions, handlers or     *)
(* crashes: for each organisation a chain of owner keys.  The first link   *)
(* is set by a bootstrap; every later link is put in one atomic step by    *)
(* the key of the link before it.  OwnerStore implements this module.      *)
(***************************************************************************)
EXTENDS Naturals

CONSTANTS Orgs,    \* organisation ids
          Keys,    \* Ed25519 public keys
          NoKey    \* authority of a bootstrap: nobody signs it

VARIABLE chain     \* set of links [org, version, key, by]

Link == [org : Orgs, version : Nat \ {0}, key : Keys, by : Keys \cup {NoKey}]

Newest(c) == c \in chain /\ \A d \in chain : d.org = c.org => d.version <= c.version

Init == chain = {}

Bootstrap(o, k) ==
  /\ \A c \in chain : c.org # o
  /\ chain' = chain \cup {[org |-> o, version |-> 1, key |-> k, by |-> NoKey]}

Rotate(c, k) ==
  /\ Newest(c)
  /\ k # c.key
  /\ chain' = chain \cup
       {[org |-> c.org, version |-> c.version + 1, key |-> k, by |-> c.key]}

Next == \/ \E o \in Orgs, k \in Keys : Bootstrap(o, k)
        \/ \E c \in chain, k \in Keys : Rotate(c, k)

Spec == Init /\ [][Next]_chain
=============================================================================
