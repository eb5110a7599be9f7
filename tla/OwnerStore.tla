----------------------------- MODULE OwnerStore -----------------------------
(***************************************************************************)
(* The owner database of the signing service (owner_store.rs) together     *)
(* with the HTTP handlers that read and write it (main.rs: bootstrap_org,  *)
(* rotate_owner, owner_status).                                            *)
(*                                                                         *)
(* Handlers run concurrently on the tokio worker threads and each store    *)
(* call opens its own SQLite connection, so two handlers interleave at     *)
(* every store call and inside every transaction.  A transaction is        *)
(* DEFERRED: its first SELECT fixes a snapshot of the write-ahead log, its *)
(* first write takes the database's one write lock, and that upgrade fails *)
(* at once when another connection holds the lock or has committed since   *)
(* the snapshot.  Dropping a transaction rolls it back.                    *)
(***************************************************************************)
EXTENDS Naturals, Sequences

CONSTANTS Orgs,       \* organisation ids
          Keys,       \* Ed25519 public keys
          Handlers,   \* request slots: handlers that may run at the same time
          NoKey,      \* no public key
          NoHandler,  \* nobody holds the write lock
          MaxEvents   \* bound: no request arrives once this many events exist

ASSUME KeysAssumption     == NoKey \notin Keys
ASSUME HandlersAssumption == NoHandler \notin Handlers
ASSUME BoundAssumption    == MaxEvents \in Nat

VARIABLES
  owners,     \* table owners: org -> [key, version], NoRow when absent
  events,     \* table owner_events, in the order of its AUTOINCREMENT id
  authority,  \* history variable: who signed for each event, [key, signed]
  writer,     \* the handler whose transaction holds the write lock
  pc,         \* where each handler is
  req,        \* the request each handler serves
  current,    \* the owner key rotate_owner read before its transaction
  mark,       \* the events in the snapshot of the handler's transaction
  base,       \* the owners row in that snapshot
  reply       \* the answer of each handler

store == <<owners, events, authority>>
locals == <<current, mark, base>>
vars  == <<owners, events, authority, writer, pc, req, current, mark, base, reply>>

-----------------------------------------------------------------------------
(* Data.                                                                   *)

NoRow  == [key |-> NoKey, version |-> 0]
OwnerRow == {NoRow} \cup [key : Keys, version : Nat \ {0}]

Event == [org : Orgs, version : Nat \ {0}, type : {"bootstrap", "rotation"}, key : Keys]

\* form: "signed" carries a signature that verifies under its signing key,
\* "unsigned" does not, "malformed" fails a check on the request alone (its keys
\* may not even decode).
BootstrapRequest ==
  [op : {"bootstrap"}, org : Orgs, signer : {NoKey}, key : Keys, form : {"unsigned"}]
RotateRequest ==
  [op : {"rotate"}, org : Orgs, signer : Keys, key : Keys, form : {"unsigned", "signed"}]
StatusRequest ==
  [op : {"status"}, org : Orgs, signer : {NoKey}, key : {NoKey}, form : {"unsigned"}]
MalformedRequest ==
  [op : {"bootstrap", "rotate"}, org : Orgs, signer : {NoKey}, key : {NoKey},
   form : {"malformed"}]
Request == BootstrapRequest \cup RotateRequest \cup StatusRequest \cup MalformedRequest

Statuses == {"none", "ok", "refused", "busy", "failed"}
Reply == [status : Statuses, version : Nat, key : Keys \cup {NoKey}]
NoReply  == [status |-> "none",    version |-> 0, key |-> NoKey]
Refused  == [status |-> "refused", version |-> 0, key |-> NoKey]
Busy     == [status |-> "busy",    version |-> 0, key |-> NoKey]
Failed   == [status |-> "failed",  version |-> 0, key |-> NoKey]
Ok(v, k) == [status |-> "ok",      version |-> v, key |-> k]

Resting == {"idle", "answered", "lost"}
InTransaction == {"write", "log", "commit"}
Running == {"received", "authorised", "replying"} \cup InTransaction

Org(h) == req[h].org
Row(h) == owners[Org(h)]

-----------------------------------------------------------------------------
(* The state of a fresh database.                                          *)

Init ==
  /\ owners = [o \in Orgs |-> NoRow]
  /\ events = <<>>
  /\ authority = <<>>
  /\ writer = NoHandler
  /\ pc = [h \in Handlers |-> "idle"]
  /\ req \in [Handlers -> StatusRequest]
  /\ current = [h \in Handlers |-> NoKey]
  /\ mark = [h \in Handlers |-> 0]
  /\ base = [h \in Handlers |-> NoRow]
  /\ reply = [h \in Handlers |-> NoReply]

Receive(h, q) ==
  /\ pc[h] \in Resting
  /\ Len(events) < MaxEvents
  /\ pc' = [pc EXCEPT ![h] = "received"]
  /\ req' = [req EXCEPT ![h] = q]
  /\ reply' = [reply EXCEPT ![h] = NoReply]
  /\ UNCHANGED <<store, writer, locals>>

\* The handler returns r, and its local variables go with it.
Answer(h, r) ==
  /\ pc' = [pc EXCEPT ![h] = "replying"]
  /\ reply' = [reply EXCEPT ![h] = r]
  /\ current' = [current EXCEPT ![h] = NoKey]
  /\ mark' = [mark EXCEPT ![h] = 0]
  /\ base' = [base EXCEPT ![h] = NoRow]

Continue(h, label) ==
  /\ pc' = [pc EXCEPT ![h] = label]
  /\ UNCHANGED reply

-----------------------------------------------------------------------------
(* The handlers, up to their transaction.                                  *)

\* A check on the request alone fails: no or two encodings of the key, an empty
\* reason, a field that does not decode.
Reject(h) ==
  /\ pc[h] = "received" /\ req[h].form = "malformed"
  /\ Answer(h, Refused)
  /\ UNCHANGED <<store, writer, req>>

\* owner_status: one SELECT outside any transaction.
ReadStatus(h) ==
  /\ pc[h] = "received" /\ req[h].op = "status"
  /\ Answer(h, Ok(Row(h).version, Row(h).key))
  /\ UNCHANGED <<store, writer, req>>

\* Mutant: the signer is not compared with the owner.
AnyAuthority(owner, signer, replacement) == TRUE
RotationAuthority(owner, signer, replacement) == signer = owner \/ replacement = owner

SignatureVerifies(h) == req[h].form = "signed"

\* rotate_owner (HTTP): require_owner, then the checks; the owner it read is
\* what the store will be asked to find.
Authorise(h) ==
  LET allowed == /\ Row(h) # NoRow
                 /\ RotationAuthority(Row(h).key, req[h].signer, req[h].key)
                 /\ SignatureVerifies(h)
  IN
  /\ pc[h] = "received" /\ req[h].op = "rotate" /\ req[h].form # "malformed"
  /\ \/ /\ allowed
        /\ Continue(h, "authorised")
        /\ current' = [current EXCEPT ![h] = Row(h).key]
        /\ UNCHANGED <<mark, base>>
     \/ /\ ~allowed
        /\ Answer(h, Refused)
  /\ UNCHANGED <<store, writer, req>>

-----------------------------------------------------------------------------
(* The transactions.                                                       *)

\* The SELECT that opened the transaction found something to write.
BeginWrite(h) ==
  /\ Continue(h, "write")
  /\ mark' = [mark EXCEPT ![h] = Len(events)]
  /\ base' = [base EXCEPT ![h] = Row(h)]
  /\ UNCHANGED current

\* bootstrap_owner up to its first write.
BootstrapRead(h) ==
  /\ pc[h] = "received" /\ req[h].op = "bootstrap" /\ req[h].form # "malformed"
  /\ \/ Row(h) = NoRow /\ BeginWrite(h)
     \/ Row(h) # NoRow /\ Row(h).key = req[h].key /\ Answer(h, Ok(0, req[h].key))
     \/ Row(h) # NoRow /\ Row(h).key # req[h].key /\ Answer(h, Refused)
  /\ UNCHANGED <<store, writer, req>>

\* The key of the newest event of an organisation at a version.
KeyAt(o, v) ==
  LET found == {i \in DOMAIN events : events[i].org = o /\ events[i].version = v}
  IN  IF found = {} THEN NoKey
      ELSE events[CHOOSE i \in found : \A j \in found : j <= i].key

\* The row already names the replacement, and another owner was expected.
Repeats(h) == Row(h) # NoRow /\ Row(h).key = req[h].key /\ current[h] # req[h].key

\* Mutant: the replay branch does not look the previous owner up.
PreviousOwnerUnchecked(h) == TRUE
PreviousOwnerExpected(h) == KeyAt(Org(h), Row(h).version - 1) = current[h]

\* Mutant: the replacement may be the current owner.
ReplacesAny(h) == Row(h) # NoRow /\ Row(h).key = current[h]
Replaces(h) == Row(h) # NoRow /\ Row(h).key = current[h] /\ req[h].key # current[h]

\* rotate_owner of the store up to its first write.
RotateRead(h) ==
  /\ pc[h] = "authorised"
  /\ \/ Repeats(h) /\ PreviousOwnerExpected(h) /\ Answer(h, Ok(Row(h).version, req[h].key))
     \/ Repeats(h) /\ ~PreviousOwnerExpected(h) /\ Answer(h, Refused)
     \/ Replaces(h) /\ BeginWrite(h)
     \/ ~Repeats(h) /\ ~Replaces(h) /\ Answer(h, Refused)
  /\ UNCHANGED <<store, writer, req>>

SnapshotIsLatest(h) == mark[h] = Len(events)
\* Mutant: a stale snapshot may still be written from.
CanUpgradeStale(h) == writer = NoHandler
CanUpgrade(h) == writer = NoHandler /\ SnapshotIsLatest(h)

\* Mutant: versions count from zero.
NewRowFromZero(h) == [key |-> req[h].key,
                      version |-> IF req[h].op = "bootstrap" THEN 0 ELSE base[h].version + 1]
NewRow(h) == [key |-> req[h].key,
              version |-> IF req[h].op = "bootstrap" THEN 1 ELSE base[h].version + 1]
NewEvent(h) == [org |-> Org(h), version |-> NewRow(h).version,
                type |-> IF req[h].op = "bootstrap" THEN "bootstrap" ELSE "rotation",
                key |-> NewRow(h).key]

\* Mutant: no transaction around the two writes, the row is visible at once.
WriteOwnerAutocommit(h) ==
  /\ pc[h] = "write"
  /\ \/ /\ CanUpgrade(h) /\ Continue(h, "log") /\ writer' = h /\ UNCHANGED locals
        /\ owners' = [owners EXCEPT ![Org(h)] = NewRow(h)]
     \/ ~CanUpgrade(h) /\ Answer(h, Busy) /\ UNCHANGED <<writer, owners>>
  /\ UNCHANGED <<events, authority, req>>
\* Mutant: the upgrade waits instead of failing.
WriteOwnerWaits(h) ==
  /\ pc[h] = "write"
  /\ CanUpgrade(h) /\ Continue(h, "log") /\ writer' = h
  /\ UNCHANGED <<store, req, locals>>
\* The INSERT or UPDATE on owners: it needs the write lock.
WriteOwner(h) ==
  /\ pc[h] = "write"
  /\ \/ CanUpgrade(h) /\ Continue(h, "log") /\ writer' = h /\ UNCHANGED locals
     \/ ~CanUpgrade(h) /\ Answer(h, Busy) /\ UNCHANGED writer
  /\ UNCHANGED <<store, req>>

\* The INSERT on owner_events.
WriteEvent(h) ==
  /\ pc[h] = "log"
  /\ Continue(h, "commit")
  /\ UNCHANGED <<store, writer, req, locals>>

Commit(h) ==
  /\ pc[h] = "commit"
  /\ owners' = [owners EXCEPT ![Org(h)] = NewRow(h)]
  /\ events' = Append(events, NewEvent(h))
  /\ authority' = Append(authority, [key |-> req[h].signer, signed |-> SignatureVerifies(h)])
  /\ writer' = NoHandler
  /\ Answer(h, Ok(IF req[h].op = "bootstrap" THEN 0 ELSE NewRow(h).version, req[h].key))
  /\ UNCHANGED req

\* A store call fails (disk full, I/O error, a row it cannot decode): the error
\* is returned, and the dropped transaction rolls back and frees the lock.
StoreError(h) ==
  /\ pc[h] \in Running \ {"replying"}
  /\ Answer(h, Failed)
  /\ writer' = IF writer = h THEN NoHandler ELSE writer
  /\ UNCHANGED <<store, req>>

-----------------------------------------------------------------------------
(* The response, and the process.                                          *)

Deliver(h) ==
  /\ pc[h] = "replying"
  /\ pc' = [pc EXCEPT ![h] = "answered"]
  /\ UNCHANGED <<store, writer, req, locals, reply>>

\* The process dies and restarts: every handler and open transaction is gone,
\* initialize finds both tables, and what was committed is there.
Crash ==
  /\ \E h \in Handlers : pc[h] \in Running
  /\ pc' = [h \in Handlers |-> IF pc[h] \in Running THEN "lost" ELSE pc[h]]
  /\ reply' = [h \in Handlers |-> IF pc[h] \in Running THEN NoReply ELSE reply[h]]
  /\ writer' = NoHandler
  /\ current' = [h \in Handlers |-> NoKey]
  /\ mark' = [h \in Handlers |-> 0]
  /\ base' = [h \in Handlers |-> NoRow]
  /\ UNCHANGED <<store, req>>

Progress(h) ==
  \/ Reject(h) \/ ReadStatus(h) \/ Authorise(h) \/ BootstrapRead(h) \/ RotateRead(h)
  \/ WriteOwner(h) \/ WriteEvent(h) \/ Commit(h) \/ Deliver(h)

Next ==
  \/ \E h \in Handlers, q \in Request : Receive(h, q)
  \/ \E h \in Handlers : Progress(h) \/ StoreError(h)
  \/ Crash

Spec == Init /\ [][Next]_vars

\* The worker thread that runs a handler keeps running it; store errors, crashes
\* and new requests need not happen.
Fairness == \A h \in Handlers : WF_vars(Progress(h))
FairSpec == Spec /\ Fairness

-----------------------------------------------------------------------------
(* Properties.                                                             *)

TypeOK ==
  /\ owners \in [Orgs -> OwnerRow]
  /\ events \in Seq(Event)
  /\ authority \in Seq([key : Keys \cup {NoKey}, signed : BOOLEAN])
  /\ writer \in Handlers \cup {NoHandler}
  /\ pc \in [Handlers -> Resting \cup Running]
  /\ req \in [Handlers -> Request]
  /\ current \in [Handlers -> Keys \cup {NoKey}]
  /\ mark \in [Handlers -> Nat]
  /\ base \in [Handlers -> OwnerRow]
  /\ reply \in [Handlers -> Reply]

\* The audit trail and the owners table agree, whatever was rolled back, lost in
\* a crash or raced: each organisation's events carry the versions 1, 2, ... up
\* to its row's, once each and in that order; version 1 and no other is a
\* bootstrap; and the last event names the row's key.
EventsWithinRow ==
  \A i \in DOMAIN events :
    LET row == owners[events[i].org]
    IN  /\ events[i].version <= row.version
        /\ events[i].version = row.version => events[i].key = row.key
EventsInOrder ==
  \A i, j \in DOMAIN events :
    i < j /\ events[i].org = events[j].org => events[i].version < events[j].version
EventsComplete ==
  \A o \in Orgs : \A v \in 1 .. owners[o].version :
    \E i \in DOMAIN events : events[i].org = o /\ events[i].version = v
BootstrapIsFirst ==
  \A i \in DOMAIN events : events[i].type = "bootstrap" <=> events[i].version = 1
AuditTrail == EventsWithinRow /\ EventsInOrder /\ EventsComplete /\ BootstrapIsFirst

\* Every rotation in the trail was signed by the owner it replaced and installed a
\* different key, although the handler checks the signer against a row that it
\* reads outside the transaction, and lets any signer pass whose replacement is
\* already the owner.
ChainAuthorised ==
  /\ Len(authority) = Len(events)
  /\ \A i, j \in DOMAIN events :
       events[i].org = events[j].org /\ events[j].version = events[i].version + 1 =>
         /\ authority[j] = [key |-> events[i].key, signed |-> TRUE]
         /\ events[j].key # events[i].key

\* What a handler tells its caller is in the trail, and stays there through every
\* later rotation and crash: an accepted key is the key of some version of the
\* organisation, an accepted rotation (applied now or found applied) is the one
\* its signer made from the version before.
Told(h) == pc[h] \in {"replying", "answered"} /\ reply[h].status = "ok"
RotationInTrail(o, v, key, signer) ==
  \E i, j \in DOMAIN events :
    /\ events[i] = [org |-> o, version |-> v, type |-> "rotation", key |-> key]
    /\ events[j].org = o /\ events[j].version = v - 1 /\ events[j].key = signer
AckInTrail(h) ==
  /\ req[h].op = "bootstrap" =>
       \E i \in DOMAIN events : events[i].org = Org(h) /\ events[i].key = req[h].key
  /\ req[h].op = "rotate" =>
       /\ SignatureVerifies(h)
       /\ RotationInTrail(Org(h), reply[h].version, req[h].key, req[h].signer)
  /\ req[h].op = "status" /\ reply[h].version # 0 =>
       \E i \in DOMAIN events :
         events[i].org = Org(h) /\ events[i].version = reply[h].version /\ events[i].key = reply[h].key
AckTruthful == \A h \in Handlers : Told(h) => AckInTrail(h)

\* No step rewrites or drops an event, and no step changes a row without adding the
\* event for its next version: an update computed from a stale snapshot never
\* lands on a row that moved on (no lost update).
GrowsStep ==
  /\ \A i \in DOMAIN events : i \in DOMAIN events' /\ events'[i] = events[i]
  /\ \A o \in Orgs : owners'[o] # owners[o] =>
       /\ owners'[o].version = owners[o].version + 1
       /\ Len(events') = Len(events) + 1
HistoryGrows == [][GrowsStep]_vars

\* The store implements the abstract registry: each commit is one atomic, authorised
\* step of the chain of owners, and everything else is a stutter.
Chain == {[org |-> events[i].org, version |-> events[i].version, key |-> events[i].key,
           by |-> authority[i].key] : i \in DOMAIN events}
Registry == INSTANCE OwnerRegistry WITH chain <- Chain
RegistrySpec == Registry!Spec

\* Every request is answered, or its process dies first: no handler waits on the
\* write lock or on another handler for ever.
EveryRequestAnswered ==
  \A h \in Handlers : pc[h] = "received" ~> pc[h] \in {"answered", "lost"}

-----------------------------------------------------------------------------
(* Claims of the documentation and the tests that the code does not meet.  *)

\* An exact replay of an applied rotation, signed by the previous owner for the
\* present one, is accepted: what the store's replay branch and the tests
\* owner_rotation_accepts_only_current_authority_or_exact_replacement_replay and
\* rotate_owner_updates_version say.
ReplayAccepted ==
  [][\A h \in Handlers :
       /\ pc[h] = "authorised" /\ Row(h).key = req[h].key
       /\ KeyAt(Org(h), Row(h).version - 1) = req[h].signer
       => reply'[h].status # "refused"]_vars

\* "The endpoint is idempotent for the same key": a bootstrap whose key is already
\* the owner's is not turned away because the database is busy.
BootstrapIdempotent ==
  [][\A h \in Handlers :
       pc[h] = "write" /\ req[h].op = "bootstrap" /\ Row(h).key = req[h].key
       => reply'[h].status # "busy"]_vars
=============================================================================
