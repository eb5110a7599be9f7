-------------------------- MODULE OwnerStoreProofs --------------------------
(***************************************************************************)
(* Theorems about OwnerStore, for every set of organisations, keys and     *)
(* handlers and every bound.                                               *)
(***************************************************************************)
EXTENDS OwnerStore, TLAPS

(***************************************************************************)
(* The inductive invariant.  The audit trail survives a commit only if the *)
(* committed row was computed from the row it replaces; that is what the   *)
(* write lock and the snapshot check give, and what SnapshotsFresh and     *)
(* LockHeld record.  The commit is authorised only because of what the     *)
(* handler checked before, which RotationsChecked and WritesJustified      *)
(* carry along.                                                            *)
(***************************************************************************)
LockHeld == \A h \in Handlers : pc[h] \in {"log", "commit"} <=> writer = h

RotationsChecked ==
  \A h \in Handlers : pc[h] = "authorised" =>
    /\ req[h].op = "rotate" /\ req[h].form = "signed"
    /\ current[h] \in Keys
    /\ RotationAuthority(current[h], req[h].signer, req[h].key)

SnapshotsFresh ==
  \A h \in Handlers : pc[h] \in InTransaction =>
    /\ mark[h] <= Len(events)
    /\ mark[h] = Len(events) => base[h] = Row(h)
    /\ pc[h] \in {"log", "commit"} => mark[h] = Len(events)

WritesJustified ==
  \A h \in Handlers : pc[h] \in InTransaction =>
    /\ req[h].form # "malformed"
    /\ \/ req[h].op = "bootstrap" /\ base[h] = NoRow
       \/ /\ req[h].op = "rotate" /\ req[h].form = "signed"
          /\ base[h] # NoRow /\ base[h].key = req[h].signer /\ req[h].key # req[h].signer

Transactions == LockHeld /\ RotationsChecked /\ SnapshotsFresh /\ WritesJustified

IInv == TypeOK /\ Transactions /\ AuditTrail /\ ChainAuthorised

-----------------------------------------------------------------------------
(* Type correctness.                                                       *)

\* What the four kinds of request have in common, and what the two kinds that
\* reach a transaction carry.
LEMMA RequestTypes ==
  ASSUME NEW q \in Request
  PROVE  /\ q.op \in {"bootstrap", "rotate", "status"}
         /\ q.form \in {"malformed", "unsigned", "signed"}
         /\ q.org \in Orgs
         /\ q.signer \in Keys \cup {NoKey}
         /\ q.key \in Keys \cup {NoKey}
         /\ q.form # "malformed" /\ q.op # "status" => q.key \in Keys
BY DEF Request, BootstrapRequest, RotateRequest, StatusRequest, MalformedRequest

\* The row and the event a transaction writes are well formed.
LEMMA WrittenTypes ==
  ASSUME NEW h \in Handlers, TypeOK, WritesJustified, pc[h] \in InTransaction
  PROVE  /\ NewRow(h) \in [key : Keys, version : Nat \ {0}]
         /\ NewEvent(h) \in Event
<1>1. req[h] \in Request /\ base[h] \in OwnerRow
  BY DEF TypeOK
<1>2. req[h].key \in Keys /\ req[h].org \in Orgs
  BY <1>1, RequestTypes DEF WritesJustified
<1>3. base[h].version \in Nat
  BY <1>1 DEF OwnerRow, NoRow
<1>4. NewRow(h) \in [key : Keys, version : Nat \ {0}]
  BY <1>2, <1>3 DEF NewRow
<1>5. NewEvent(h) \in Event
  BY <1>2, <1>4 DEF NewEvent, Event, Org
<1> QED BY <1>4, <1>5

\* TypeOK is preserved by every step taken where the transactions are justified.
LEMMA TypeStep ==
  ASSUME TypeOK, WritesJustified, [Next]_vars
  PROVE  TypeOK'
<1> USE DEF TypeOK, store, locals
<1> DEFINE Label == Resting \cup Running
<1>1. NoRow \in OwnerRow /\ \A h \in Handlers : Row(h) \in OwnerRow /\ Row(h).version \in Nat
                                          /\ Row(h).key \in Keys \cup {NoKey}
  BY RequestTypes DEF OwnerRow, NoRow, Row, Org
<1>2. ASSUME NEW h \in Handlers, NEW r \in Reply, Answer(h, r)
      PROVE  /\ pc' \in [Handlers -> Label] /\ reply' \in [Handlers -> Reply]
             /\ current' \in [Handlers -> Keys \cup {NoKey}]
             /\ mark' \in [Handlers -> Nat] /\ base' \in [Handlers -> OwnerRow]
  BY <1>1, <1>2 DEF Answer, Running
<1>3. ASSUME NEW h \in Handlers, BeginWrite(h)
      PROVE  /\ pc' \in [Handlers -> Label] /\ reply' \in [Handlers -> Reply]
             /\ current' \in [Handlers -> Keys \cup {NoKey}]
             /\ mark' \in [Handlers -> Nat] /\ base' \in [Handlers -> OwnerRow]
  <2>1. Len(events) \in Nat
    OBVIOUS
  <2> QED BY <1>1, <1>3, <2>1 DEF BeginWrite, Continue, Running, InTransaction
<1>4. /\ Refused \in Reply /\ Busy \in Reply /\ Failed \in Reply /\ NoReply \in Reply
      /\ \A v \in Nat, k \in Keys \cup {NoKey} : Ok(v, k) \in Reply
  BY DEF Refused, Busy, Failed, NoReply, Ok, Reply, Statuses
<1>5. ASSUME NEW h \in Handlers, NEW q \in Request, Receive(h, q)
      PROVE  TypeOK'
  BY <1>4, <1>5 DEF Receive, Running
<1>6. ASSUME NEW h \in Handlers, Reject(h)
      PROVE  TypeOK'
  BY <1>2, <1>4, <1>6 DEF Reject
<1>7. ASSUME NEW h \in Handlers, ReadStatus(h)
      PROVE  TypeOK'
  BY <1>1, <1>2, <1>4, <1>7 DEF ReadStatus
<1>8. ASSUME NEW h \in Handlers, Authorise(h)
      PROVE  TypeOK'
  <2>1. CASE Answer(h, Refused)
    BY <1>2, <1>4, <1>8, <2>1 DEF Authorise
  <2>2. CASE ~Answer(h, Refused)
    BY <1>1, <1>8, <2>2 DEF Authorise, Continue, Running
  <2> QED BY <2>1, <2>2
<1>9. ASSUME NEW h \in Handlers, BootstrapRead(h)
      PROVE  TypeOK'
  <2>1. Ok(0, req[h].key) \in Reply
    BY <1>4, RequestTypes
  <2>2. CASE BeginWrite(h)
    BY <1>3, <1>9, <2>2 DEF BootstrapRead
  <2>3. CASE Answer(h, Ok(0, req[h].key)) \/ Answer(h, Refused)
    BY <1>2, <1>4, <1>9, <2>1, <2>3 DEF BootstrapRead
  <2> QED BY <1>9, <2>2, <2>3 DEF BootstrapRead
<1>10. ASSUME NEW h \in Handlers, RotateRead(h)
       PROVE  TypeOK'
  <2>1. Ok(Row(h).version, req[h].key) \in Reply
    BY <1>1, <1>4, RequestTypes
  <2>2. CASE BeginWrite(h)
    BY <1>3, <1>10, <2>2 DEF RotateRead
  <2>3. CASE Answer(h, Ok(Row(h).version, req[h].key)) \/ Answer(h, Refused)
    BY <1>2, <1>4, <1>10, <2>1, <2>3 DEF RotateRead
  <2> QED BY <1>10, <2>2, <2>3 DEF RotateRead
<1>11. ASSUME NEW h \in Handlers, WriteOwner(h)
       PROVE  TypeOK'
  <2>1. CASE Answer(h, Busy)
    BY <1>2, <1>4, <1>11, <2>1 DEF WriteOwner
  <2>2. CASE ~Answer(h, Busy)
    BY <1>11, <2>2 DEF WriteOwner, Continue, Running, InTransaction
  <2> QED BY <2>1, <2>2
<1>12. ASSUME NEW h \in Handlers, WriteEvent(h)
       PROVE  TypeOK'
  BY <1>12 DEF WriteEvent, Continue, Running, InTransaction
<1>13. ASSUME NEW h \in Handlers, Commit(h)
       PROVE  TypeOK'
  <2>1. pc[h] \in InTransaction
    BY <1>13 DEF Commit, InTransaction
  <2>2. NewRow(h) \in [key : Keys, version : Nat \ {0}] /\ NewEvent(h) \in Event
    BY <2>1, WrittenTypes
  <2>3. /\ req[h].key \in Keys \cup {NoKey} /\ req[h].signer \in Keys \cup {NoKey}
    BY RequestTypes
  <2>4. Ok(IF req[h].op = "bootstrap" THEN 0 ELSE NewRow(h).version, req[h].key) \in Reply
    BY <1>4, <2>2, <2>3
  <2>5. owners' \in [Orgs -> OwnerRow]
    BY <1>13, <2>2 DEF Commit, OwnerRow
  <2>6. events' \in Seq(Event)
    BY <1>13, <2>2 DEF Commit
  <2>7. authority' \in Seq([key : Keys \cup {NoKey}, signed : BOOLEAN])
    BY <1>13, <2>3 DEF Commit, SignatureVerifies
  <2> QED BY <1>2, <1>13, <2>4, <2>5, <2>6, <2>7 DEF Commit
<1>14. ASSUME NEW h \in Handlers, StoreError(h)
       PROVE  TypeOK'
  BY <1>2, <1>4, <1>14 DEF StoreError
<1>15. ASSUME NEW h \in Handlers, Deliver(h)
       PROVE  TypeOK'
  BY <1>15 DEF Deliver, Resting
<1>16. CASE Crash
  BY <1>1, <1>4, <1>16 DEF Crash, Resting
<1>17. CASE UNCHANGED vars
  BY <1>17 DEF vars
<1> QED BY <1>5, <1>6, <1>7, <1>8, <1>9, <1>10, <1>11, <1>12, <1>13, <1>14, <1>15, <1>16, <1>17
        DEF Next, Progress

-----------------------------------------------------------------------------
(* Transactions.                                                           *)

\* A handler that answers without having committed frees the lock if it held it
\* and leaves every other handler's transaction as justified as it was.
LEMMA AnswerKeepsTransactions ==
  ASSUME TypeOK, Transactions, NEW h \in Handlers, NEW r, Answer(h, r),
         UNCHANGED <<store, req>>,
         writer' = IF writer = h THEN NoHandler ELSE writer
  PROVE  Transactions'
<1> USE HandlersAssumption DEF TypeOK, Answer, store
<1>1. LockHeld'
  BY DEF Transactions, LockHeld
<1>2. RotationsChecked'
  BY DEF Transactions, RotationsChecked, RotationAuthority
<1>3. SnapshotsFresh'
  BY DEF Transactions, SnapshotsFresh, InTransaction, Row, Org
<1>4. WritesJustified'
  BY DEF Transactions, WritesJustified, InTransaction, NoRow
<1> QED BY <1>1, <1>2, <1>3, <1>4 DEF Transactions

\* A transaction that reads a row it may replace is fresh and justified.
LEMMA BeginWriteKeepsTransactions ==
  ASSUME TypeOK, Transactions, NEW h \in Handlers, BeginWrite(h),
         UNCHANGED <<store, req, writer>>,
         pc[h] \in {"received", "authorised"},
         req[h].form # "malformed",
         \/ req[h].op = "bootstrap" /\ Row(h) = NoRow
         \/ /\ req[h].op = "rotate" /\ req[h].form = "signed"
            /\ Row(h) # NoRow /\ Row(h).key = req[h].signer /\ req[h].key # req[h].signer
  PROVE  Transactions'
<1> USE HandlersAssumption DEF TypeOK, BeginWrite, Continue, store
<1>1. LockHeld'
  BY DEF Transactions, LockHeld
<1>2. RotationsChecked'
  BY DEF Transactions, RotationsChecked, RotationAuthority
<1>3. SnapshotsFresh'
  <2>1. Len(events) \in Nat
    OBVIOUS
  <2> QED BY <2>1 DEF Transactions, SnapshotsFresh, InTransaction, Row, Org
<1>4. WritesJustified'
  BY DEF Transactions, WritesJustified, InTransaction
<1> QED BY <1>1, <1>2, <1>3, <1>4 DEF Transactions

\* What RotateRead may write is what the handler checked: a signer that passed only
\* because its replacement already is the owner fails the store's inequality.
LEMMA ReplacesIsJustified ==
  ASSUME RotationsChecked, NEW h \in Handlers, pc[h] = "authorised", Replaces(h)
  PROVE  /\ req[h].op = "rotate" /\ req[h].form = "signed"
         /\ Row(h) # NoRow /\ Row(h).key = req[h].signer /\ req[h].key # req[h].signer
BY DEF RotationsChecked, Replaces, RotationAuthority

\* Every step preserves Transactions; of the steps, Commit is the one that makes
\* other snapshots stale.
LEMMA TransactionsStep ==
  ASSUME TypeOK, Transactions, [Next]_vars
  PROVE  Transactions'
<1> USE HandlersAssumption
<1>1. ASSUME NEW h \in Handlers, NEW q \in Request, Receive(h, q)
      PROVE  Transactions'
  BY <1>1 DEF Receive, TypeOK, Transactions, LockHeld, RotationsChecked, RotationAuthority,
     SnapshotsFresh, WritesJustified, Resting, InTransaction, Row, Org, store, locals
<1>2. ASSUME NEW h \in Handlers, Reject(h) \/ ReadStatus(h)
      PROVE  Transactions'
  BY <1>2, AnswerKeepsTransactions DEF Reject, ReadStatus, Transactions, LockHeld
<1>3. ASSUME NEW h \in Handlers, Authorise(h)
      PROVE  Transactions'
  <2>1. CASE Answer(h, Refused)
    BY <1>3, <2>1, AnswerKeepsTransactions DEF Authorise, Transactions, LockHeld
  <2>2. CASE ~Answer(h, Refused)
    <3>1. Row(h).key \in Keys
      BY <1>3, <2>2, RequestTypes DEF Authorise, TypeOK, Row, Org, OwnerRow
    <3> QED BY <1>3, <2>2, <3>1 DEF Authorise, Continue, SignatureVerifies, TypeOK, Transactions,
            LockHeld, RotationsChecked, RotationAuthority, SnapshotsFresh, WritesJustified,
            InTransaction, Row, Org, store
  <2> QED BY <2>1, <2>2
<1>4. ASSUME NEW h \in Handlers, BootstrapRead(h)
      PROVE  Transactions'
  <2>1. CASE BeginWrite(h) /\ Row(h) = NoRow
    BY <1>4, <2>1, BeginWriteKeepsTransactions DEF BootstrapRead
  <2>2. CASE Answer(h, Ok(0, req[h].key)) \/ Answer(h, Refused)
    BY <1>4, <2>2, AnswerKeepsTransactions DEF BootstrapRead, Transactions, LockHeld
  <2> QED BY <1>4, <2>1, <2>2 DEF BootstrapRead
<1>5. ASSUME NEW h \in Handlers, RotateRead(h)
      PROVE  Transactions'
  <2>1. CASE BeginWrite(h) /\ Replaces(h)
    BY <1>5, <2>1, BeginWriteKeepsTransactions, ReplacesIsJustified DEF RotateRead, Transactions
  <2>2. CASE Answer(h, Ok(Row(h).version, req[h].key)) \/ Answer(h, Refused)
    BY <1>5, <2>2, AnswerKeepsTransactions DEF RotateRead, Transactions, LockHeld
  <2> QED BY <1>5, <2>1, <2>2 DEF RotateRead
<1>6. ASSUME NEW h \in Handlers, WriteOwner(h)
      PROVE  Transactions'
  <2>1. CASE Answer(h, Busy) /\ UNCHANGED writer
    BY <1>6, <2>1, AnswerKeepsTransactions DEF WriteOwner, Transactions, LockHeld
  <2>2. CASE CanUpgrade(h) /\ Continue(h, "log") /\ writer' = h /\ UNCHANGED locals
    BY <1>6, <2>2 DEF WriteOwner, CanUpgrade, SnapshotIsLatest, Continue, TypeOK, Transactions,
       LockHeld, RotationsChecked, RotationAuthority, SnapshotsFresh, WritesJustified,
       InTransaction, Row, Org, store, locals
  <2> QED BY <1>6, <2>1, <2>2 DEF WriteOwner
<1>7. ASSUME NEW h \in Handlers, WriteEvent(h)
      PROVE  Transactions'
  BY <1>7 DEF WriteEvent, Continue, TypeOK, Transactions, LockHeld, RotationsChecked,
     RotationAuthority, SnapshotsFresh, WritesJustified, InTransaction, Row, Org, store, locals
<1>8. ASSUME NEW h \in Handlers, Commit(h)
      PROVE  Transactions'
  <2>1. writer = h
    BY <1>8 DEF Commit, Transactions, LockHeld
  <2>2. Len(events) \in Nat /\ Len(events') = Len(events) + 1
    BY <1>8 DEF Commit, TypeOK
  <2>3. LockHeld'
    BY <1>8, <2>1 DEF Commit, Answer, TypeOK, Transactions, LockHeld
  <2>4. RotationsChecked'
    BY <1>8 DEF Commit, Answer, TypeOK, Transactions, RotationsChecked, RotationAuthority
  <2>5. SnapshotsFresh'
    BY <1>8, <2>1, <2>2 DEF Commit, Answer, TypeOK, Transactions, LockHeld, SnapshotsFresh,
       InTransaction
  <2>6. WritesJustified'
    BY <1>8 DEF Commit, Answer, TypeOK, Transactions, WritesJustified, InTransaction
  <2> QED BY <2>3, <2>4, <2>5, <2>6 DEF Transactions
<1>9. ASSUME NEW h \in Handlers, StoreError(h)
      PROVE  Transactions'
  BY <1>9, AnswerKeepsTransactions DEF StoreError
<1>10. ASSUME NEW h \in Handlers, Deliver(h)
       PROVE  Transactions'
  BY <1>10 DEF Deliver, TypeOK, Transactions, LockHeld, RotationsChecked, RotationAuthority,
     SnapshotsFresh, WritesJustified, InTransaction, Row, Org, store, locals
<1>11. CASE Crash
  BY <1>11 DEF Crash, TypeOK, Transactions, LockHeld, RotationsChecked, SnapshotsFresh,
     WritesJustified, Running, InTransaction
<1>12. CASE UNCHANGED vars
  BY <1>12 DEF vars, Transactions, LockHeld, RotationsChecked, RotationAuthority, SnapshotsFresh,
     WritesJustified, InTransaction, Row, Org
<1> QED BY <1>1, <1>2, <1>3, <1>4, <1>5, <1>6, <1>7, <1>8, <1>9, <1>10, <1>11, <1>12
        DEF Next, Progress

-----------------------------------------------------------------------------
(* The audit trail and the chain of owners.                                *)

\* What a commit does to the tables, read off the fresh snapshot it was computed
\* from: one event more, for the version after the row's.
LEMMA CommitEffect ==
  ASSUME IInv, NEW h \in Handlers, Commit(h)
  PROVE  /\ Len(events) \in Nat /\ DOMAIN events = 1 .. Len(events)
         /\ DOMAIN events' = 1 .. Len(events) + 1
         /\ Len(authority') = Len(events')
         /\ \A i \in DOMAIN events : events'[i] = events[i] /\ authority'[i] = authority[i]
         /\ events'[Len(events) + 1] = NewEvent(h)
         /\ authority'[Len(events) + 1] =
              [key |-> req[h].signer, signed |-> req[h].form = "signed"]
         /\ Org(h) \in Orgs /\ NewEvent(h).org = Org(h)
         /\ owners' = [owners EXCEPT ![Org(h)] = NewRow(h)]
         /\ NewEvent(h).version = NewRow(h).version /\ NewEvent(h).key = NewRow(h).key
         /\ owners[Org(h)].version \in Nat
         /\ NewRow(h).version = owners[Org(h)].version + 1
         /\ NewEvent(h).type = "bootstrap" <=> NewEvent(h).version = 1
         /\ req[h].op = "bootstrap" <=> owners[Org(h)].version = 0
         /\ req[h].op # "bootstrap" =>
              /\ req[h].form = "signed" /\ req[h].signer = owners[Org(h)].key
              /\ NewRow(h).key # owners[Org(h)].key
<1> USE DEF IInv
<1>1. pc[h] \in InTransaction /\ pc[h] = "commit"
  BY DEF Commit, InTransaction
<1>2. base[h] = owners[Org(h)]
  BY <1>1 DEF Transactions, SnapshotsFresh, Row
<1>3. Org(h) \in Orgs
  BY RequestTypes DEF TypeOK, Org
<1>4. owners[Org(h)] \in OwnerRow
  BY <1>3 DEF TypeOK
<1>5. owners[Org(h)].version \in Nat /\ (owners[Org(h)].version = 0 <=> owners[Org(h)] = NoRow)
  BY <1>4 DEF OwnerRow, NoRow
<1>6. events \in Seq(Event) /\ Len(events) \in Nat /\ DOMAIN events = 1 .. Len(events)
  BY DEF TypeOK
<1>7. authority \in Seq([key : Keys \cup {NoKey}, signed : BOOLEAN]) /\ Len(authority) = Len(events)
  BY DEF TypeOK, ChainAuthorised
<1>8. /\ DOMAIN events' = 1 .. Len(events) + 1
      /\ Len(authority') = Len(events')
      /\ \A i \in DOMAIN events : events'[i] = events[i] /\ authority'[i] = authority[i]
      /\ events'[Len(events) + 1] = NewEvent(h)
      /\ authority'[Len(events) + 1] =
           [key |-> req[h].signer, signed |-> req[h].form = "signed"]
  BY <1>6, <1>7 DEF Commit, SignatureVerifies
<1>9. owners' = [owners EXCEPT ![Org(h)] = NewRow(h)]
  BY DEF Commit
<1>10. /\ NewEvent(h).org = Org(h) /\ NewEvent(h).version = NewRow(h).version
       /\ NewEvent(h).key = NewRow(h).key
  BY DEF NewEvent
<1>11. \/ req[h].op = "bootstrap" /\ base[h] = NoRow
       \/ /\ req[h].op = "rotate" /\ req[h].form = "signed"
          /\ base[h] # NoRow /\ base[h].key = req[h].signer /\ req[h].key # req[h].signer
  BY <1>1 DEF Transactions, WritesJustified
<1>12. /\ NewRow(h).version = owners[Org(h)].version + 1
       /\ NewEvent(h).type = "bootstrap" <=> NewEvent(h).version = 1
       /\ req[h].op = "bootstrap" <=> owners[Org(h)].version = 0
       /\ req[h].op # "bootstrap" =>
            /\ req[h].form = "signed" /\ req[h].signer = owners[Org(h)].key
            /\ NewRow(h).key # owners[Org(h)].key
  BY <1>2, <1>5, <1>11 DEF NewRow, NewEvent, NoRow
<1> QED BY <1>3, <1>5, <1>6, <1>8, <1>9, <1>10, <1>12

\* No step but a commit touches the tables.
LEMMA OnlyCommitWrites ==
  ASSUME [Next]_vars, UNCHANGED store => FALSE
  PROVE  \E h \in Handlers : Commit(h)
BY DEF Next, Progress, Receive, Reject, ReadStatus, Authorise, BootstrapRead, RotateRead,
   WriteOwner, WriteEvent, StoreError, Deliver, Crash, vars, store

\* An event's version lies between 1 and its organisation's.
LEMMA EventTypes ==
  ASSUME TypeOK, NEW i \in DOMAIN events
  PROVE  /\ events[i].org \in Orgs /\ events[i].version \in Nat \ {0}
         /\ events[i].key \in Keys
         /\ owners[events[i].org].version \in Nat
<1>1. events[i] \in Event
  BY DEF TypeOK
<1>2. owners[events[i].org] \in OwnerRow
  BY <1>1 DEF TypeOK, Event
<1> QED BY <1>1, <1>2 DEF Event, OwnerRow, NoRow

\* The audit trail is preserved.
LEMMA TrailStep ==
  ASSUME IInv, [Next]_vars
  PROVE  AuditTrail'
<1>1. CASE UNCHANGED store
  BY <1>1 DEF IInv, store, AuditTrail, EventsWithinRow, EventsInOrder, EventsComplete,
     BootstrapIsFirst
<1>2. ASSUME NEW h \in Handlers, Commit(h)
      PROVE  AuditTrail'
  <2> DEFINE n == Len(events)
             e == NewEvent(h)
             o == Org(h)
  <2>0. TypeOK /\ AuditTrail
    BY DEF IInv
  <2>1. /\ n \in Nat /\ DOMAIN events = 1 .. n /\ DOMAIN events' = 1 .. n + 1
        /\ \A i \in DOMAIN events : events'[i] = events[i]
        /\ events'[n + 1] = e
        /\ o \in Orgs /\ e.org = o
        /\ owners' = [owners EXCEPT ![o] = NewRow(h)]
        /\ e.version = NewRow(h).version /\ e.key = NewRow(h).key
        /\ owners[o].version \in Nat /\ e.version = owners[o].version + 1
        /\ e.type = "bootstrap" <=> e.version = 1
    BY <1>2, CommitEffect
  <2>2. /\ owners'[o].version = owners[o].version + 1 /\ owners'[o].key = e.key
        /\ \A p \in Orgs : p # o => owners'[p] = owners[p]
    BY <2>0, <2>1 DEF TypeOK
  <2>3. \A i \in DOMAIN events : /\ events[i].org \in Orgs
                                 /\ events[i].version \in Nat
                                 /\ events[i].version <= owners[events[i].org].version
    BY <2>0, EventTypes DEF AuditTrail, EventsWithinRow
  <2> HIDE DEF n, e, o
  <2>4. EventsWithinRow'
    <3> SUFFICES ASSUME NEW i \in DOMAIN events'
                 PROVE  /\ events'[i].version <= owners'[events'[i].org].version
                        /\ events'[i].version = owners'[events'[i].org].version =>
                             events'[i].key = owners'[events'[i].org].key
      BY DEF EventsWithinRow
    <3>1. CASE i = n + 1
      <4>1. events'[i].org = o /\ events'[i].version = owners'[o].version
        BY <2>1, <2>2, <3>1
      <4>2. events'[i].key = owners'[o].key
        BY <2>1, <2>2, <3>1
      <4> QED BY <2>1, <2>2, <4>1, <4>2
    <3>2. CASE i \in DOMAIN events /\ events[i].org = o
      <4>1. events'[i].org = o /\ events'[i].version < owners'[o].version
        BY <2>1, <2>2, <2>3, <3>2
      <4>2. events'[i].version \in Nat /\ owners'[o].version \in Nat
        BY <2>1, <2>2, <2>3, <3>2
      <4> QED BY <4>1, <4>2
    <3>3. CASE i \in DOMAIN events /\ events[i].org # o
      BY <2>0, <2>1, <2>2, <2>3, <3>3 DEF AuditTrail, EventsWithinRow
    <3> QED BY <2>1, <3>1, <3>2, <3>3
  <2>5. EventsInOrder'
    <3> SUFFICES ASSUME NEW i \in DOMAIN events', NEW j \in DOMAIN events',
                        i < j, events'[i].org = events'[j].org
                 PROVE  events'[i].version < events'[j].version
      BY DEF EventsInOrder
    <3>1. CASE j = n + 1
      BY <2>1, <2>3, <3>1
    <3>2. CASE j # n + 1
      <4>1. i \in DOMAIN events /\ j \in DOMAIN events
        BY <2>1, <3>2
      <4> QED BY <2>0, <2>1, <4>1 DEF AuditTrail, EventsInOrder
    <3> QED BY <3>1, <3>2
  <2>6. EventsComplete'
    <3> SUFFICES ASSUME NEW p \in Orgs, NEW v \in 1 .. owners'[p].version
                 PROVE  \E i \in DOMAIN events' : events'[i].org = p /\ events'[i].version = v
      BY DEF EventsComplete
    <3>1. CASE p = o /\ v = e.version
      BY <2>1, <3>1
    <3>2. CASE ~(p = o /\ v = e.version)
      <4>1. v \in 1 .. owners[p].version
        <5>1. CASE p = o
          BY <2>1, <2>2, <3>2, <5>1
        <5>2. CASE p # o
          BY <2>2, <5>2
        <5> QED BY <5>1, <5>2
      <4>2. PICK i \in DOMAIN events : events[i].org = p /\ events[i].version = v
        BY <2>0, <4>1 DEF AuditTrail, EventsComplete
      <4> QED BY <2>1, <4>2
    <3> QED BY <3>1, <3>2
  <2>7. BootstrapIsFirst'
    BY <2>0, <2>1 DEF AuditTrail, BootstrapIsFirst
  <2> QED BY <2>4, <2>5, <2>6, <2>7 DEF AuditTrail
<1> QED BY <1>1, <1>2, OnlyCommitWrites

\* The chain of owners is preserved.
LEMMA ChainStep ==
  ASSUME IInv, [Next]_vars
  PROVE  ChainAuthorised'
<1>1. CASE UNCHANGED store
  BY <1>1 DEF IInv, store, ChainAuthorised
<1>2. ASSUME NEW h \in Handlers, Commit(h)
      PROVE  ChainAuthorised'
  <2> DEFINE n == Len(events)
             o == Org(h)
  <2>1. /\ n \in Nat /\ DOMAIN events = 1 .. n /\ DOMAIN events' = 1 .. n + 1
        /\ Len(authority') = Len(events')
        /\ \A i \in DOMAIN events : events'[i] = events[i] /\ authority'[i] = authority[i]
        /\ events'[n + 1] = NewEvent(h)
        /\ authority'[n + 1] = [key |-> req[h].signer, signed |-> req[h].form = "signed"]
        /\ o \in Orgs /\ NewEvent(h).org = o
        /\ NewEvent(h).key = NewRow(h).key
        /\ owners[o].version \in Nat /\ NewEvent(h).version = owners[o].version + 1
        /\ req[h].op = "bootstrap" <=> owners[o].version = 0
        /\ req[h].op # "bootstrap" =>
             /\ req[h].form = "signed" /\ req[h].signer = owners[o].key
             /\ NewRow(h).key # owners[o].key
    BY <1>2, CommitEffect
  <2>2. \A i \in DOMAIN events :
          /\ events[i].version \in Nat \ {0}
          /\ events[i].version <= owners[events[i].org].version
          /\ events[i].version = owners[events[i].org].version =>
               events[i].key = owners[events[i].org].key
    BY EventTypes DEF IInv, AuditTrail, EventsWithinRow
  <2> HIDE DEF n, o
  <2> SUFFICES ASSUME NEW i \in DOMAIN events', NEW j \in DOMAIN events',
                      events'[i].org = events'[j].org,
                      events'[j].version = events'[i].version + 1
               PROVE  /\ authority'[j] = [key |-> events'[i].key, signed |-> TRUE]
                      /\ events'[j].key # events'[i].key
    BY <2>1 DEF ChainAuthorised
  <2>3. CASE j = n + 1
    <3>1. i \in DOMAIN events
      BY <2>1, <2>3
    <3>2. events[i].org = o /\ events[i].version = owners[o].version
      BY <2>1, <2>2, <2>3, <3>1
    <3>3. owners[o].version # 0 /\ events[i].key = owners[o].key
      BY <2>2, <3>1, <3>2
    <3> QED BY <2>1, <2>3, <3>1, <3>3
  <2>4. CASE i = n + 1 /\ j # n + 1
    <3>1. j \in DOMAIN events /\ events[j].org = o
      BY <2>1, <2>4
    <3>2. events'[i].version = owners[o].version + 1 /\ events'[j].version = events[j].version
      BY <2>1, <2>4, <3>1
    <3>3. events[j].version <= owners[o].version
      BY <2>2, <3>1
    <3>4. FALSE
      BY <2>1, <2>2, <3>1, <3>2, <3>3
    <3> QED BY <3>4
  <2>5. CASE i # n + 1 /\ j # n + 1
    <3>1. i \in DOMAIN events /\ j \in DOMAIN events
      BY <2>1, <2>5
    <3> QED BY <2>1, <3>1 DEF IInv, ChainAuthorised
  <2> QED BY <2>3, <2>4, <2>5
<1> QED BY <1>1, <1>2, OnlyCommitWrites

-----------------------------------------------------------------------------
(* Acknowledgements.                                                       *)

\* The trail only grows, one event per changed row.
LEMMA GrowsLemma ==
  ASSUME IInv, [Next]_vars
  PROVE  GrowsStep
<1>1. CASE UNCHANGED store
  BY <1>1 DEF store, GrowsStep
<1>2. ASSUME NEW h \in Handlers, Commit(h)
      PROVE  GrowsStep
  <2>1. /\ Len(events) \in Nat /\ DOMAIN events = 1 .. Len(events)
        /\ DOMAIN events' = 1 .. Len(events) + 1
        /\ \A i \in DOMAIN events : events'[i] = events[i]
        /\ Org(h) \in Orgs /\ owners' = [owners EXCEPT ![Org(h)] = NewRow(h)]
        /\ NewRow(h).version = owners[Org(h)].version + 1
    BY <1>2, CommitEffect
  <2>2. events \in Seq(Event) /\ owners \in [Orgs -> OwnerRow]
    BY DEF IInv, TypeOK
  <2>3. Len(events') = Len(events) + 1
    BY <1>2, <2>2 DEF Commit
  <2> QED BY <2>1, <2>2, <2>3 DEF GrowsStep
<1> QED BY <1>1, <1>2, OnlyCommitWrites

\* The event of a row's version carries the row's key.
LEMMA RowInTrail ==
  ASSUME IInv, NEW o \in Orgs, owners[o] # NoRow
  PROVE  /\ owners[o].version \in Nat \ {0}
         /\ \E i \in DOMAIN events : /\ events[i].org = o /\ events[i].key = owners[o].key
                                     /\ events[i].version = owners[o].version
<1>1. owners[o].version \in Nat \ {0}
  BY DEF IInv, TypeOK, OwnerRow
<1>2. owners[o].version \in 1 .. owners[o].version
  BY <1>1
<1>3. PICK i \in DOMAIN events : events[i].org = o /\ events[i].version = owners[o].version
  BY <1>2 DEF IInv, AuditTrail, EventsComplete
<1>4. events[i].key = owners[o].key
  BY <1>3 DEF IInv, AuditTrail, EventsWithinRow
<1> QED BY <1>1, <1>3, <1>4

\* A key that KeyAt returns is in the trail: an organisation has at most one event
\* of a version, so the newest one is the one.
LEMMA KeyAtInTrail ==
  ASSUME IInv, NEW o, NEW v, KeyAt(o, v) # NoKey
  PROVE  \E i \in DOMAIN events :
           events[i].org = o /\ events[i].version = v /\ events[i].key = KeyAt(o, v)
<1> DEFINE found == {i \in DOMAIN events : events[i].org = o /\ events[i].version = v}
<1>1. found # {} /\ KeyAt(o, v) = events[CHOOSE i \in found : \A j \in found : j <= i].key
  BY DEF KeyAt
<1>2. DOMAIN events \subseteq Nat
  BY DEF IInv, TypeOK
<1>3. PICK i \in found : TRUE
  BY <1>1
<1>4. ASSUME NEW j \in found PROVE j <= i
  <2>1. i \in DOMAIN events /\ j \in DOMAIN events /\ i \in Nat /\ j \in Nat
    BY <1>2, <1>3
  <2>2. events[i].version \in Nat /\ events[j].version = events[i].version
    BY <1>3, <2>1, EventTypes DEF IInv
  <2>3. ~(i < j)
    BY <1>3, <2>1, <2>2 DEF IInv, AuditTrail, EventsInOrder
  <2> QED BY <2>1, <2>3
<1>5. (CHOOSE k \in found : \A j \in found : j <= k) \in found
  <2> HIDE DEF found
  <2> QED BY <1>3, <1>4
<1> QED BY <1>1, <1>5

\* An answer in the trail stays in it.
LEMMA AckStable ==
  ASSUME IInv, [Next]_vars, NEW h \in Handlers, AckInTrail(h),
         req'[h] = req[h], reply'[h] = reply[h]
  PROVE  AckInTrail(h)'
<1>1. \A i \in DOMAIN events : i \in DOMAIN events' /\ events'[i] = events[i]
  BY GrowsLemma DEF GrowsStep
<1>2. Org(h)' = Org(h) /\ SignatureVerifies(h)' = SignatureVerifies(h)
  BY DEF Org, SignatureVerifies
<1>3. ASSUME NEW o, NEW v, NEW k, NEW s, RotationInTrail(o, v, k, s)
      PROVE  RotationInTrail(o, v, k, s)'
  BY <1>1, <1>3 DEF RotationInTrail
<1> QED BY <1>1, <1>2, <1>3 DEF AckInTrail

\* A rotation found applied is the one the signer made: the row names the
\* replacement and the version before it named the signer.
LEMMA ReplayInTrail ==
  ASSUME IInv, NEW h \in Handlers, pc[h] = "authorised",
         Repeats(h), PreviousOwnerExpected(h)
  PROVE  /\ req[h].op = "rotate" /\ SignatureVerifies(h)
         /\ RotationInTrail(Org(h), Row(h).version, req[h].key, req[h].signer)
<1> DEFINE o == Org(h)
<1>1. o \in Orgs
  BY RequestTypes DEF IInv, TypeOK, Org
<1>2. /\ req[h].op = "rotate" /\ req[h].form = "signed"
      /\ current[h] \in Keys /\ current[h] = req[h].signer
  BY DEF IInv, Transactions, RotationsChecked, RotationAuthority, Repeats
<1>3. PICK i \in DOMAIN events : /\ events[i].org = o /\ events[i].key = req[h].key
                                 /\ events[i].version = Row(h).version
  BY <1>1, RowInTrail DEF Repeats, Row
<1>4. KeyAt(o, Row(h).version - 1) = req[h].signer /\ req[h].signer # NoKey
  BY <1>2, KeysAssumption DEF PreviousOwnerExpected
<1>5. PICK j \in DOMAIN events : /\ events[j].org = o /\ events[j].key = req[h].signer
                                 /\ events[j].version = Row(h).version - 1
  BY <1>4, KeyAtInTrail
<1>6. events[i] \in Event /\ events[j] \in Event
  BY DEF IInv, TypeOK
<1>7. events[i].version # 1 /\ events[i].type = "rotation"
  <2>1. events[i].version # 1
    BY <1>3, <1>5, <1>6 DEF Event
  <2>2. events[i].type # "bootstrap"
    BY <2>1 DEF IInv, AuditTrail, BootstrapIsFirst
  <2> QED BY <1>6, <2>1, <2>2 DEF Event
<1>8. events[i] = [org |-> o, version |-> Row(h).version, type |-> "rotation", key |-> req[h].key]
  BY <1>3, <1>6, <1>7 DEF Event
<1> QED BY <1>2, <1>5, <1>8 DEF RotationInTrail, SignatureVerifies

\* What a commit answers is in the trail it extends.
LEMMA CommitInTrail ==
  ASSUME IInv, NEW h \in Handlers, Commit(h)
  PROVE  AckInTrail(h)'
<1> DEFINE n == Len(events)
           o == Org(h)
<1>1. /\ n \in Nat /\ DOMAIN events = 1 .. n /\ DOMAIN events' = 1 .. n + 1
      /\ \A i \in DOMAIN events : events'[i] = events[i]
      /\ events'[n + 1] = NewEvent(h) /\ o \in Orgs /\ NewEvent(h).org = o
      /\ NewEvent(h).key = NewRow(h).key
      /\ owners[o].version \in Nat
      /\ NewRow(h).version = owners[o].version + 1
      /\ req[h].op = "bootstrap" <=> owners[o].version = 0
      /\ req[h].op # "bootstrap" =>
           req[h].form = "signed" /\ req[h].signer = owners[o].key
  BY CommitEffect
<1>2. /\ req' = req /\ Org(h)' = o
      /\ NewRow(h).key = req[h].key
      /\ req[h].op # "status"
  <2>1. req[h].op # "status"
    BY DEF IInv, Transactions, WritesJustified, Commit, InTransaction
  <2> QED BY <2>1 DEF Commit, Org, NewRow
<1>3. CASE req[h].op = "bootstrap"
  BY <1>1, <1>2, <1>3 DEF AckInTrail
<1>4. CASE req[h].op = "rotate"
  <2>1. owners[o] # NoRow
    BY <1>1, <1>4 DEF NoRow
  <2>2. PICK j \in DOMAIN events : /\ events[j].org = o /\ events[j].key = req[h].signer
                                   /\ events[j].version = owners[o].version
    BY <1>1, <1>4, <2>1, RowInTrail
  <2>3. reply'[h].version = NewRow(h).version
    BY <1>4 DEF Commit, Answer, Ok, IInv, TypeOK
  <2>4. events'[n + 1] = [org |-> o, version |-> NewRow(h).version, type |-> "rotation",
                          key |-> req[h].key]
    BY <1>1, <1>2, <1>4 DEF NewEvent
  <2>5. events'[j].org = o /\ events'[j].key = req[h].signer
        /\ events'[j].version = NewRow(h).version - 1
    BY <1>1, <2>2
  <2>6. n + 1 \in DOMAIN events' /\ j \in DOMAIN events'
    BY <1>1
  <2>7. SignatureVerifies(h)'
    BY <1>1, <1>2, <1>4 DEF SignatureVerifies
  <2> HIDE DEF n, o
  <2> QED BY <1>2, <1>4, <2>3, <2>4, <2>5, <2>6, <2>7 DEF AckInTrail, RotationInTrail
<1>5. req[h].op \in {"bootstrap", "rotate", "status"}
  BY RequestTypes DEF IInv, TypeOK
<1> QED BY <1>2, <1>3, <1>4, <1>5

\* Every answer given so far stays in the trail, and the ones given now are in it.
LEMMA AckStep ==
  ASSUME IInv, AckTruthful, [Next]_vars
  PROVE  AckTruthful'
<1> SUFFICES ASSUME NEW h \in Handlers, Told(h)' PROVE AckInTrail(h)'
  BY DEF AckTruthful
<1> USE DEF Told
<1>1. TypeOK /\ Row(h) = owners[Org(h)] /\ Org(h) \in Orgs
  BY RequestTypes DEF IInv, TypeOK, Row, Org
<1>2. CASE Told(h) /\ req'[h] = req[h] /\ reply'[h] = reply[h]
  BY <1>2, AckStable DEF AckTruthful
<1>3. ASSUME NEW g \in Handlers, NEW q \in Request, Receive(g, q)
      PROVE  Told(h) /\ req'[h] = req[h] /\ reply'[h] = reply[h]
  BY <1>1, <1>3 DEF Receive, TypeOK
<1>4. ASSUME NEW g \in Handlers, NEW r, Answer(g, r), req' = req, g # h \/ r.status # "ok"
      PROVE  Told(h) /\ req'[h] = req[h] /\ reply'[h] = reply[h]
  BY <1>1, <1>4 DEF Answer, TypeOK
<1>5. ASSUME NEW g \in Handlers, NEW l, Continue(g, l), req' = req,
             l \notin {"replying", "answered"}
      PROVE  Told(h) /\ req'[h] = req[h] /\ reply'[h] = reply[h]
  BY <1>1, <1>5 DEF Continue, TypeOK
<1>6. Refused.status # "ok" /\ Busy.status # "ok" /\ Failed.status # "ok"
  BY DEF Refused, Busy, Failed
<1>7. CASE Reject(h) \/ StoreError(h) \/ (\E g \in Handlers : Reject(g) \/ StoreError(g))
  BY <1>2, <1>4, <1>6, <1>7 DEF Reject, StoreError
<1>8. CASE ReadStatus(h)
  <2>1. reply'[h] = Ok(owners[Org(h)].version, owners[Org(h)].key) /\ req' = req
    BY <1>1, <1>8 DEF ReadStatus, Answer, TypeOK
  <2>2. reply'[h].version # 0 => owners[Org(h)] # NoRow
    BY <2>1 DEF Ok, NoRow
  <2>3. req[h].op = "status" /\ events' = events /\ Org(h)' = Org(h)
    BY <1>8 DEF ReadStatus, store, Org
  <2> QED BY <1>1, <2>1, <2>2, <2>3, RowInTrail DEF AckInTrail, Ok
<1>9. ASSUME NEW g \in Handlers, Authorise(g)
      PROVE  Told(h) /\ req'[h] = req[h] /\ reply'[h] = reply[h]
  BY <1>4, <1>5, <1>6, <1>9 DEF Authorise
<1>10. CASE BootstrapRead(h)
  <2>1. CASE BeginWrite(h) \/ Answer(h, Refused)
    BY <1>2, <1>4, <1>5, <1>6, <1>10, <2>1 DEF BootstrapRead, BeginWrite
  <2>2. CASE Row(h) # NoRow /\ Row(h).key = req[h].key
    <3>1. req[h].op = "bootstrap" /\ req' = req /\ events' = events /\ Org(h)' = Org(h)
      BY <1>10 DEF BootstrapRead, store, Org
    <3> QED BY <1>1, <2>2, <3>1, RowInTrail DEF AckInTrail
  <2> QED BY <1>10, <2>1, <2>2 DEF BootstrapRead
<1>11. CASE RotateRead(h)
  <2>1. CASE BeginWrite(h) \/ Answer(h, Refused)
    BY <1>2, <1>4, <1>5, <1>6, <1>11, <2>1 DEF RotateRead, BeginWrite
  <2>2. CASE /\ Repeats(h) /\ PreviousOwnerExpected(h)
             /\ Answer(h, Ok(Row(h).version, req[h].key))
    <3>1. /\ req[h].op = "rotate" /\ SignatureVerifies(h)
          /\ RotationInTrail(Org(h), Row(h).version, req[h].key, req[h].signer)
      BY <1>11, <2>2, ReplayInTrail DEF RotateRead
    <3>2. req' = req /\ events' = events /\ Org(h)' = Org(h) /\ reply'[h].version = Row(h).version
      BY <1>1, <1>11, <2>2 DEF RotateRead, store, Org, Answer, Ok, TypeOK
    <3> QED BY <3>1, <3>2 DEF AckInTrail, RotationInTrail, SignatureVerifies
  <2> QED BY <1>11, <2>1, <2>2 DEF RotateRead
<1>12. ASSUME NEW g \in Handlers, WriteOwner(g)
       PROVE  Told(h) /\ req'[h] = req[h] /\ reply'[h] = reply[h]
  BY <1>4, <1>5, <1>6, <1>12 DEF WriteOwner
<1>13. ASSUME NEW g \in Handlers, WriteEvent(g)
       PROVE  Told(h) /\ req'[h] = req[h] /\ reply'[h] = reply[h]
  BY <1>5, <1>13 DEF WriteEvent
<1>14. CASE Commit(h)
  BY <1>14, CommitInTrail
<1>15. ASSUME NEW g \in Handlers, g # h,
              ReadStatus(g) \/ BootstrapRead(g) \/ RotateRead(g) \/ Commit(g)
       PROVE  Told(h) /\ req'[h] = req[h] /\ reply'[h] = reply[h]
  <2>1. CASE BeginWrite(g)
    BY <1>5, <1>15, <2>1 DEF ReadStatus, BootstrapRead, RotateRead, Commit, BeginWrite
  <2>2. CASE ~BeginWrite(g)
    BY <1>4, <1>15, <2>2 DEF ReadStatus, BootstrapRead, RotateRead, Commit
  <2> QED BY <2>1, <2>2
<1>16. ASSUME NEW g \in Handlers, Deliver(g)
       PROVE  Told(h) /\ req'[h] = req[h] /\ reply'[h] = reply[h]
  BY <1>1, <1>16 DEF Deliver, TypeOK
<1>17. CASE Crash
  <2>1. Told(h) /\ req'[h] = req[h] /\ reply'[h] = reply[h]
    BY <1>1, <1>17 DEF Crash, TypeOK, NoReply
  <2> QED BY <1>2, <2>1
<1>18. CASE UNCHANGED vars
  BY <1>2, <1>18 DEF vars
<1> QED BY <1>2, <1>3, <1>7, <1>8, <1>9, <1>10, <1>11, <1>12, <1>13, <1>14, <1>15, <1>16, <1>17,
           <1>18 DEF Next, Progress

-----------------------------------------------------------------------------
(* Refinement.                                                             *)

\* A commit is a step of the abstract registry: it bootstraps an organisation that
\* has no link, or adds a link to the newest one, put there by that link's key.
LEMMA CommitRefines ==
  ASSUME IInv, NEW h \in Handlers, Commit(h)
  PROVE  Registry!Next
<1> DEFINE n == Len(events)
           o == Org(h)
           link(i) == [org |-> events[i].org, version |-> events[i].version,
                       key |-> events[i].key, by |-> authority[i].key]
           new == [org |-> o, version |-> owners[o].version + 1, key |-> req[h].key,
                   by |-> req[h].signer]
<1>1. /\ n \in Nat /\ DOMAIN events = 1 .. n /\ DOMAIN events' = 1 .. n + 1
      /\ \A i \in DOMAIN events : events'[i] = events[i] /\ authority'[i] = authority[i]
      /\ events'[n + 1] = NewEvent(h)
      /\ authority'[n + 1] = [key |-> req[h].signer, signed |-> req[h].form = "signed"]
      /\ o \in Orgs /\ NewEvent(h).org = o
      /\ NewEvent(h).version = NewRow(h).version /\ NewEvent(h).key = NewRow(h).key
      /\ owners[o].version \in Nat
      /\ NewRow(h).version = owners[o].version + 1
      /\ req[h].op = "bootstrap" <=> owners[o].version = 0
      /\ req[h].op # "bootstrap" =>
           req[h].signer = owners[o].key /\ NewRow(h).key # owners[o].key
  BY CommitEffect
<1>2. NewRow(h).key = req[h].key
  BY DEF NewRow
<1>3. Chain = {link(i) : i \in DOMAIN events}
  BY DEF Chain
<1>4. Chain' = Chain \cup {new}
  <2>1. Chain' = {[org |-> events'[i].org, version |-> events'[i].version,
                   key |-> events'[i].key, by |-> authority'[i].key] : i \in DOMAIN events'}
    BY DEF Chain
  <2>2. [org |-> events'[n+1].org, version |-> events'[n+1].version,
         key |-> events'[n+1].key, by |-> authority'[n+1].key] = new
    BY <1>1, <1>2
  <2>3. DOMAIN events' = DOMAIN events \cup {n + 1}
    BY <1>1
  <2> HIDE DEF new, n
  <2> QED BY <1>1, <1>3, <2>1, <2>2, <2>3
<1>5. req[h].key \in Keys
  <2>1. pc[h] \in InTransaction
    BY DEF Commit, InTransaction
  <2> QED BY <2>1, RequestTypes DEF IInv, TypeOK, Transactions, WritesJustified
<1>6. \A c \in Chain : c.org = o => c.version \in Nat \ {0} /\ c.version <= owners[o].version
  BY <1>3, EventTypes DEF IInv, AuditTrail, EventsWithinRow
<1>7. CASE owners[o].version = 0
  <2>1. req[h].signer = NoKey
    BY <1>1, <1>7 DEF IInv, TypeOK, Request, BootstrapRequest, RotateRequest, StatusRequest,
       MalformedRequest
  <2>2. \A c \in Chain : c.org # o
    BY <1>6, <1>7
  <2>3. Registry!Bootstrap(o, req[h].key)
    BY <1>4, <1>7, <2>1, <2>2 DEF Registry!Bootstrap
  <2> QED BY <1>1, <1>5, <2>3 DEF Registry!Next
<1>8. CASE owners[o].version # 0
  <2>1. PICK i \in DOMAIN events : /\ events[i].org = o /\ events[i].key = owners[o].key
                                   /\ events[i].version = owners[o].version
    BY <1>1, <1>8, RowInTrail DEF NoRow
  <2>2. link(i) \in Chain /\ link(i).org = o /\ link(i).version = owners[o].version
        /\ link(i).key = owners[o].key
    BY <1>3, <2>1
  <2> HIDE DEF link
  <2>3. Registry!Newest(link(i))
    BY <1>6, <2>2 DEF Registry!Newest
  <2>4. req[h].key # owners[o].key /\ req[h].signer = owners[o].key
    BY <1>1, <1>2, <1>8
  <2>5. Registry!Rotate(link(i), req[h].key)
    BY <1>4, <2>2, <2>3, <2>4 DEF Registry!Rotate
  <2> QED BY <1>5, <2>2, <2>5 DEF Registry!Next
<1> QED BY <1>7, <1>8

-----------------------------------------------------------------------------
(* The theorems.                                                           *)

\* IInv holds in every reachable state.
THEOREM Inductive == Spec => []IInv
<1>1. Init => IInv
  <2> SUFFICES ASSUME Init PROVE IInv
    OBVIOUS
  <2> USE HandlersAssumption DEF Init
  <2>1. TypeOK
    BY DEF TypeOK, OwnerRow, NoRow, Resting, Running, Request, Reply, NoReply, Statuses
  <2>2. Transactions
    BY DEF Transactions, LockHeld, RotationsChecked, SnapshotsFresh, WritesJustified,
       InTransaction
  <2>3. AuditTrail /\ ChainAuthorised
    BY DEF AuditTrail, EventsWithinRow, EventsInOrder, EventsComplete, BootstrapIsFirst,
       ChainAuthorised, NoRow
  <2> QED BY <2>1, <2>2, <2>3 DEF IInv
<1>2. IInv /\ [Next]_vars => IInv'
  BY TypeStep, TransactionsStep, TrailStep, ChainStep DEF IInv, Transactions
<1> QED BY <1>1, <1>2, PTL DEF Spec

\* Every variable keeps its type: rows have a key and a positive version or are
\* absent, handlers are at one of their labels.
THEOREM TypeCorrect == Spec => []TypeOK
BY Inductive, PTL DEF IInv

\* The owners table and the audit trail agree in every reachable state.
THEOREM TrailCorrect == Spec => []AuditTrail
BY Inductive, PTL DEF IInv

\* Every rotation in the trail was signed by the owner it replaced and changed the
\* key.
THEOREM ChainCorrect == Spec => []ChainAuthorised
BY Inductive, PTL DEF IInv

\* Whatever a caller was told is in the trail in every later state.
THEOREM AckCorrect == Spec => []AckTruthful
<1>1. Init => AckTruthful
  BY DEF Init, AckTruthful, Told
<1>2. IInv /\ AckTruthful /\ [Next]_vars => AckTruthful'
  BY AckStep
<1> QED BY <1>1, <1>2, Inductive, PTL DEF Spec

\* No step rewrites history or loses an update.
THEOREM HistoryCorrect == Spec => HistoryGrows
<1>1. IInv /\ [Next]_vars => [GrowsStep]_vars
  BY GrowsLemma
<1> QED BY <1>1, Inductive, PTL DEF Spec, HistoryGrows

\* The store implements the abstract registry.
THEOREM StoreRefinesRegistry == Spec => RegistrySpec
<1>1. Init => Registry!Init
  BY DEF Init, Registry!Init, Chain
<1>2. IInv /\ [Next]_vars => [Registry!Next]_Chain
  <2> SUFFICES ASSUME IInv, [Next]_vars PROVE Registry!Next \/ UNCHANGED Chain
    OBVIOUS
  <2>1. CASE UNCHANGED store
    BY <2>1 DEF store, Chain
  <2>2. CASE \E h \in Handlers : Commit(h)
    BY <2>2, CommitRefines
  <2> QED BY <2>1, <2>2, OnlyCommitWrites
<1> QED BY <1>1, <1>2, Inductive, PTL DEF Spec, RegistrySpec, Registry!Spec
=============================================================================
