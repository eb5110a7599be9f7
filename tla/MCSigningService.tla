-------------------------- MODULE MCSigningService --------------------------
(***************************************************************************)
(* SigningService on a small instance: two organisations that may have the *)
(* same owners, two keys, three specs, two releases.  Requests are the     *)
(* sound ones and those with one fault, for every choice of keys and       *)
(* organisations.                                                          *)
(***************************************************************************)
EXTENDS SigningService

CONSTANTS o1, o2, k1, k2, good, ambiguous, unsafe, r1, r2

MCMembers == [Keys -> {{}, {"owner"}, {"deployer"}}]
MCKeyrings == [org : Orgs, members : MCMembers, signer : Keys, signed : BOOLEAN]

\* Nothing names an organisation or a key but the requests, so the descriptors of
\* one organisation signed by one key stand for all.
MCDescriptors ==
  {[org |-> o1, spec |-> x, schema |-> v, template |-> t,
    rego |-> [spec |-> y, template |-> t], agent |-> a, signer |-> k1, signed |-> s] :
    x \in Specs, v \in BOOLEAN, t \in Releases, y \in Specs, a \in AgentPolicy, s \in BOOLEAN}

MCDescriptorFaults(d, log) ==
  {f \in 1 .. 7 :
     CASE f = 1 -> ~d.signed           [] f = 2 -> d.spec # good
       [] f = 3 -> ~d.schema           [] f = 4 -> d.rego.spec # d.spec
       [] f = 5 -> d.agent.spec # d.spec
       [] f = 6 -> d.agent.release # d.template
       [] f = 7 -> d.agent.log # log}
MCKeyringFaults(k) ==
  {f \in 8 .. 11 :
     CASE f = 8 -> k.org # o1          [] f = 9 -> ~k.signed
       [] f = 10 -> "owner" \notin k.members[k.signer]
       [] f = 11 -> k.members[k1] = {}}

\* A descriptor, its log encryption and a keyring, without a fault and with one.
MCWith(n) == {p \in MCDescriptors \X Logs : Cardinality(MCDescriptorFaults(p[1], p[2])) = n}
MCUnder(n) == {k \in MCKeyrings : Cardinality(MCKeyringFaults(k)) = n}
MCFaultless == MCWith(0) \X MCUnder(0)
MCFaulty    == (MCWith(0) \X MCUnder(1)) \cup (MCWith(1) \X MCUnder(0))

MCRequest(op, p, named, owner, key, image) ==
  [op |-> op, descriptor |-> p[1][1], keyring |-> p[2], log |-> p[1][2], named |-> named,
   owner |-> owner, key |-> key, image |-> image]

MCSign == {MCRequest("sign", p, TRUE, k1, k1, r1) : p \in MCFaultless \cup MCFaulty}
            \cup {MCRequest("sign", p, FALSE, k1, k1, r1) : p \in MCFaultless}
MCCommand == {MCRequest("cli", p, TRUE, o, k, r1) : p \in MCFaultless, o \in Keys, k \in Keys}
               \cup {MCRequest("cli", p, TRUE, p[2].signer, k1, r1) : p \in MCFaulty}
MCPreview ==
  {[MCRequest("preview", p, TRUE, k1, k1, r1) EXCEPT !.descriptor.signed = FALSE] :
     p \in {q \in MCFaultless \cup MCFaulty : q[2] = [org |-> o1, signer |-> k1, signed |-> TRUE,
                                    members |-> [k \in Keys |-> {"owner"}]]}}
MCRequests == MCSign \cup MCCommand \cup MCPreview
=============================================================================
