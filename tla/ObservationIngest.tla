-------------------------- MODULE ObservationIngest --------------------------
(***************************************************************************)
(* The durable application of an uploaded observation batch: the request   *)
(* handler of vm/cybermap-api/src/server.mjs and applyBatch of             *)
(* postgres-store.mjs, as transactions over the tables of                  *)
(* db/migrations/0001, 0002, 0005 and 0006.                                *)
(*                                                                         *)
(* One source, the devices that upload to it, and the calls in flight, in  *)
(* any process.  The tables are sets of records; what a transaction means  *)
(* to write stays in its call until it commits.  A content stands for the  *)
(* hash of an observation with its session and classes; the hash of a      *)
(* batch is the batch.  The progress of a version 2 receipt is a function  *)
(* of the batch and is left out.  A device may post any batch at any time, *)
(* again after a lost answer included.                                     *)
(***************************************************************************)
EXTENDS Integers, FiniteSets

CONSTANTS
  Devices,    \* each with its ingest credential
  Keys, Contents, Names,   \* observation keys, contents, idempotency keys
  Calls,      \* requests that may be in flight together
  Batches,    \* the batches that devices post
  Unscoped    \* keys of old rows whose device cannot be proved

Batch ==
  [device : Devices, name : Names, version : {"v1", "v2"}, session : BOOLEAN,
   content : UNION {[K -> Contents] : K \in SUBSET Keys}]

ASSUME IngestConstants ==
  /\ Batches \subseteq Batch /\ Batches # {} /\ IsFiniteSet(Keys) /\ Unscoped \subseteq Keys
  /\ \A b \in Batches : DOMAIN b.content # {}

VARIABLES
  live,           \* devices whose credential, and its source, are enabled
  sessions,       \* devices whose session has not ended
  observations, sync_batches,   \* the tables
  step, batch, plan,   \* of each call: where it is, its batch, what it will write
  late,           \* calls whose requester already has the deadline's 503
  answers         \* history: the receipts delivered

tables == <<observations, sync_batches>>
vars == <<live, sessions, observations, sync_batches, step, batch, plan, late, answers>>

Row == [device : Devices, key : Keys, content : Contents, name : Names]
Receipts == [accepted : Nat, duplicate : Nat, preserved : Nat]
Entries == [batch : Batches, receipt : Receipts]
Plans == [receipt : Receipts, fresh : SUBSET Keys, replayed : BOOLEAN]
Steps == {"idle", "lock", "read", "commit"}

NoBatch == CHOOSE b \in Batches : TRUE   \* of an idle call
Blank == [receipt |-> [accepted |-> 0, duplicate |-> 0, preserved |-> 0],
          fresh |-> {}, replayed |-> FALSE]

\* A request is answered at most once: only a call that still runs can be late.
TypeOK ==
  /\ live \subseteq Devices /\ sessions \subseteq Devices
  /\ observations \subseteq Row /\ sync_batches \subseteq Entries
  /\ step \in [Calls -> Steps] /\ batch \in [Calls -> Batches] /\ plan \in [Calls -> Plans]
  /\ late \subseteq {c \in Calls : step[c] # "idle"}
  /\ answers \subseteq Entries

Init ==
  /\ live = Devices /\ sessions = Devices
  /\ observations = {} /\ sync_batches = {} /\ answers = {}
  /\ step = [c \in Calls |-> "idle"] /\ late = {}
  /\ batch = [c \in Calls |-> NoBatch] /\ plan = [c \in Calls |-> Blank]

-----------------------------------------------------------------------------
Move(c, s) == step' = [step EXCEPT ![c] = s]

\* Mutant: the deadline's mark outlives its call.
EndLate(c) ==
  /\ Move(c, "idle") /\ batch' = [batch EXCEPT ![c] = NoBatch]
  /\ plan' = [plan EXCEPT ![c] = Blank] /\ UNCHANGED late

\* The call is over and its connection back in the pool.
End(c) ==
  /\ Move(c, "idle") /\ batch' = [batch EXCEPT ![c] = NoBatch]
  /\ plan' = [plan EXCEPT ![c] = Blank] /\ late' = late \ {c}

\* assertLiveCredential holds the credential and the source until the transaction ends.
Holds(c) == step[c] \in {"read", "commit"}

\* Mutant: the SELECT locks nothing.
FreeAlways == TRUE

Free == \A c \in Calls : ~Holds(c)

\* The rows of the batch's keys, and what the batch is to them.
Known(b) == {o \in observations : o.device = b.device /\ o.key \in DOMAIN b.content}
Clashing(b) == {o \in Known(b) : o.content # b.content[o.key]}
Unseen(b) == {k \in DOMAIN b.content : \A o \in Known(b) : o.key # k}

Applied(b) == {r \in sync_batches : r.batch.device = b.device /\ r.batch.name = b.name}

\* Mutants: stored observations are accepted again; the session is not looked up; a
\* version 1 conflict is preserved as in version 2.
TallyAccepts(b) ==
  [accepted |-> Cardinality(DOMAIN b.content), duplicate |-> Cardinality(Known(b) \ Clashing(b)),
   preserved |-> Cardinality(Clashing(b))]
RefusedAnySession(b) ==
  DOMAIN b.content \cap Unscoped # {} \/ (b.version = "v1" /\ Clashing(b) # {})
RefusedNoConflict(b) ==
  (b.session /\ b.device \notin sessions) \/ DOMAIN b.content \cap Unscoped # {}

\* The counts of partitionBatchObservations.
Tally(b) ==
  [accepted |-> Cardinality(Unseen(b)), duplicate |-> Cardinality(Known(b) \ Clashing(b)),
   preserved |-> Cardinality(Clashing(b))]

\* session_not_owned, observation_identity_unscoped, and observation_key_reused (version 1).
Refused(b) ==
  \/ b.session /\ b.device \notin sessions
  \/ DOMAIN b.content \cap Unscoped # {}
  \/ b.version = "v1" /\ Clashing(b) # {}

-----------------------------------------------------------------------------
\* The handler has read and validated a batch; its credential is good for now.
Authenticate(c, b) ==
  /\ step[c] = "idle" /\ b.device \in live
  /\ Move(c, "lock") /\ batch' = [batch EXCEPT ![c] = b]
  /\ UNCHANGED <<live, sessions, tables, plan, late, answers>>

\* Mutant: the credential is not looked at again.
LockUnchecked(c) ==
  /\ step[c] = "lock" /\ Free
  /\ Move(c, "read")
  /\ UNCHANGED <<live, sessions, tables, batch, plan, late, answers>>

\* BEGIN and assertLiveCredential; forbidden ends the call.  The advisory locks are then
\* free: every holder of one holds the source.
Lock(c) ==
  /\ step[c] = "lock" /\ Free
  /\ \/ batch[c].device \in live /\ Move(c, "read") /\ UNCHANGED <<batch, plan, late>>
     \/ batch[c].device \notin live /\ End(c)
  /\ UNCHANGED <<live, sessions, tables, answers>>

\* Mutant: the payload hash of the stored batch is not compared.
ReplayUncompared(c) ==
  \E r \in Applied(batch[c]) :
     /\ plan' = [plan EXCEPT ![c] = [receipt |-> r.receipt, fresh |-> {}, replayed |-> TRUE]]
     /\ Move(c, "commit") /\ UNCHANGED <<batch, late>>

\* existingBatchReceipt: the stored receipt, or idempotency_key_reused.
Replay(c) ==
  \E r \in Applied(batch[c]) :
     \/ /\ r.batch = batch[c]
        /\ plan' = [plan EXCEPT ![c] = [receipt |-> r.receipt, fresh |-> {}, replayed |-> TRUE]]
        /\ Move(c, "commit") /\ UNCHANGED <<batch, late>>
     \/ r.batch # batch[c] /\ End(c)

\* The rest of applyBatch up to its COMMIT.
Partition(c) ==
  LET b == batch[c]
  IN  /\ Applied(b) = {}
      /\ \/ Refused(b) /\ End(c)
         \/ /\ ~Refused(b)
            /\ plan' = [plan EXCEPT ![c] = [receipt |-> Tally(b), fresh |-> Unseen(b), replayed |-> FALSE]]
            /\ Move(c, "commit") /\ UNCHANGED <<batch, late>>

Read(c) ==
  /\ step[c] = "read"
  /\ Replay(c) \/ Partition(c)
  /\ UNCHANGED <<live, sessions, tables, answers>>

\* The unique constraints of observations and sync_batches: idempotency_conflict.
Collides(c) ==
  /\ ~plan[c].replayed
  /\ Applied(batch[c]) # {} \/ plan[c].fresh \ Unseen(batch[c]) # {}

Inserted(c) ==
  {[device |-> batch[c].device, key |-> k, content |-> batch[c].content[k],
    name |-> batch[c].name] : k \in plan[c].fresh}

Entry(c) == [batch |-> batch[c], receipt |-> plan[c].receipt]

\* COMMIT takes effect; the answer arrives unless it is lost, comes after the deadline or
\* the process has died.
Commit(c) ==
  /\ step[c] = "commit" /\ ~Collides(c)
  /\ observations' = observations \cup Inserted(c)
  /\ sync_batches' = sync_batches \cup {e \in {Entry(c)} : ~plan[c].replayed}
  /\ \/ c \notin late /\ answers' = answers \cup {Entry(c)}
     \/ UNCHANGED answers
  /\ End(c)
  /\ UNCHANGED <<live, sessions>>

\* Lock and statement timeouts, an expired credential, a constraint, a lost connection, a
\* dead process: the transaction rolls back.
Fail(c) ==
  /\ step[c] # "idle" /\ End(c)
  /\ UNCHANGED <<live, sessions, tables, answers>>

\* withIngestDeadline answers 503; the transaction goes on.
Deadline(c) ==
  /\ step[c] # "idle" /\ c \notin late
  /\ late' = late \cup {c}
  /\ UNCHANGED <<live, sessions, tables, step, batch, plan, answers>>

-----------------------------------------------------------------------------
\* An operator disables a credential; the UPDATE waits for the row.
Disable(d) ==
  /\ d \in live /\ \A c \in Calls : Holds(c) => batch[c].device # d
  /\ live' = live \ {d}
  /\ UNCHANGED <<sessions, tables, step, batch, plan, late, answers>>

Enable(d) ==
  /\ d \notin live /\ live' = live \cup {d}
  /\ UNCHANGED <<sessions, tables, step, batch, plan, late, answers>>

\* A session ends; the UPDATE waits for the FOR SHARE lock of a batch of that session.
EndSession(d) ==
  /\ d \in sessions
  /\ \A c \in Calls : step[c] = "commit" /\ ~plan[c].replayed /\ batch[c].session => batch[c].device # d
  /\ sessions' = sessions \ {d}
  /\ UNCHANGED <<live, tables, step, batch, plan, late, answers>>

Call(c) ==
  \/ \E b \in Batches : Authenticate(c, b)
  \/ Lock(c) \/ Read(c) \/ Commit(c) \/ Fail(c) \/ Deadline(c)

Next == (\E c \in Calls : Call(c)) \/ \E d \in Devices : Disable(d) \/ Enable(d) \/ EndSession(d)

Spec == Init /\ [][Next]_vars

-----------------------------------------------------------------------------
(* Properties *)

\* The receipts and the rows agree: a receipt accepts as many observations as there are
\* rows that name its batch, and accounts for every observation of the batch.
Accounted ==
  \A r \in sync_batches :
     /\ r.receipt.accepted =
          Cardinality({o \in observations : o.device = r.batch.device /\ o.name = r.batch.name})
     /\ r.receipt.accepted + r.receipt.duplicate + r.receipt.preserved =
          Cardinality(DOMAIN r.batch.content)

\* What a device is told stays true: every observation of an answered batch has a row, and
\* the rows that differ are those the receipt calls preserved conflicts, none in version 1.
Acknowledged ==
  \A a \in answers :
     /\ Unseen(a.batch) = {}
     /\ Cardinality(Clashing(a.batch)) = a.receipt.preserved
     /\ a.batch.version = "v1" => a.receipt.preserved = 0

\* The locks make the unique constraints a backstop: no transaction reaches them, so a
\* retry that overlaps its first attempt is never told idempotency_conflict.
NeverCollides == \A c \in Calls : step[c] = "commit" => ~Collides(c)

\* After a credential is disabled no batch of its device lands, a slow transaction that
\* authenticated before included.
RevocationHolds ==
  [][\A r \in sync_batches' \ sync_batches : r.batch.device \in live]_vars

\* No batch lands in a session that has ended.
SessionHolds ==
  [][\A r \in sync_batches' \ sync_batches : r.batch.session => r.batch.device \in sessions]_vars

\* Ingest implements the ledger: whole batches, the first writer's content, one receipt.
Ledger == INSTANCE ObservationLedger
ImplementsObservationLedger == Ledger!Spec
=============================================================================
