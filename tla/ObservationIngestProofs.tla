----------------------- MODULE ObservationIngestProofs -----------------------
(***************************************************************************)
(* Proofs about ObservationIngest, for any devices, keys, contents, calls  *)
(* and batches.                                                            *)
(***************************************************************************)
EXTENDS ObservationIngest, FiniteSetTheorems, FunctionTheorems, TLAPS

\* Row locks: one transaction of the source at a time, of a live credential.
Exclusive ==
  \A c \in Calls : Holds(c) => batch[c].device \in live /\ \A d \in Calls : Holds(d) => c = d

\* What a transaction is about to write is what it would find if it looked again.
Current(c) ==
  /\ plan[c].replayed => plan[c].fresh = {} /\ Entry(c) \in sync_batches
  /\ ~plan[c].replayed =>
       /\ Applied(batch[c]) = {} /\ ~Refused(batch[c])
       /\ plan[c].receipt = Tally(batch[c]) /\ plan[c].fresh = Unseen(batch[c])
Prepared == \A c \in Calls : step[c] = "commit" => Current(c)

\* A receipt describes the rows of its batch.
Truthful(r) ==
  /\ Unseen(r.batch) = {}
  /\ Cardinality(Clashing(r.batch)) = r.receipt.preserved
  /\ r.batch.version = "v1" => r.receipt.preserved = 0
Receipted == answers \subseteq sync_batches /\ \A r \in sync_batches : Truthful(r)

IInv == TypeOK /\ IsFiniteSet(observations) /\ Exclusive /\ Prepared /\ Receipted

-----------------------------------------------------------------------------
\* The types of one call.
LEMMA CallTypes ==
  ASSUME TypeOK, NEW c \in Calls
  PROVE  /\ batch[c] \in Batches /\ batch[c] \in Batch /\ plan[c] \in Plans
         /\ step[c] \in Steps
         /\ DOMAIN batch[c].content \in SUBSET Keys
         /\ IsFiniteSet(DOMAIN batch[c].content)
         /\ batch[c].content \in [DOMAIN batch[c].content -> Contents]
<1>1. batch[c] \in Batches /\ plan[c] \in Plans /\ step[c] \in Steps
  BY DEF TypeOK
<1>2. batch[c] \in Batch
  BY <1>1, IngestConstants
<1>3. PICK K \in SUBSET Keys : batch[c].content \in [K -> Contents]
  BY <1>2 DEF Batch
<1>4. DOMAIN batch[c].content = K
  BY <1>3
<1> QED BY <1>1, <1>2, <1>3, <1>4, FS_Subset, IngestConstants

\* The rows of one batch's keys are no more than the batch's keys, when rows are unique;
\* whatever their number, what is counted is finite.
LEMMA TallyType ==
  ASSUME TypeOK, IsFiniteSet(observations), NEW b \in Batches
  PROVE  Tally(b) \in Receipts
<1>1. b \in Batch
  BY IngestConstants
<1>2. PICK K \in SUBSET Keys : b.content \in [K -> Contents]
  BY <1>1 DEF Batch
<1>3. IsFiniteSet(DOMAIN b.content)
  BY <1>2, FS_Subset, IngestConstants
<1>4. Unseen(b) \subseteq DOMAIN b.content /\ Known(b) \subseteq observations
  BY DEF Unseen, Known
<1>5. IsFiniteSet(Unseen(b)) /\ IsFiniteSet(Known(b) \ Clashing(b)) /\ IsFiniteSet(Clashing(b))
  BY <1>3, <1>4, FS_Subset DEF Clashing
<1> QED BY <1>5, FS_CardinalityType DEF Tally, Receipts

-----------------------------------------------------------------------------
LEMMA IInvInit == Init => IInv
<1> SUFFICES ASSUME Init PROVE IInv
  OBVIOUS
<1>1. NoBatch \in Batches
  BY IngestConstants DEF NoBatch
<1>2. TypeOK
  BY <1>1 DEF Init, TypeOK, Steps, Plans, Receipts, Blank, Entries
<1>3. IsFiniteSet(observations)
  BY FS_EmptySet DEF Init
<1> QED BY <1>2, <1>3 DEF Init, IInv, Exclusive, Holds, Prepared, Receipted

\* The steps that touch no table and lead no call to its commit.
LEMMA EndStep ==
  ASSUME IInv, NEW c \in Calls, End(c), UNCHANGED <<live, sessions, tables, answers>>
  PROVE  IInv'
<1>1. NoBatch \in Batches /\ Blank \in Plans
  BY IngestConstants DEF NoBatch, Plans, Blank, Receipts
<1>2. TypeOK'
  BY <1>1 DEF IInv, TypeOK, End, Move, Steps, tables
<1>3. \A d \in Calls : step'[d] # "idle" => d # c /\ step'[d] = step[d] /\ batch'[d] = batch[d] /\ plan'[d] = plan[d]
  BY DEF IInv, TypeOK, End, Move
<1>4. Exclusive'
  BY <1>3 DEF IInv, Exclusive, Holds, tables
<1>5. ASSUME NEW d \in Calls, step'[d] = "commit" PROVE Current(d)'
  <2>1. step[d] = "commit" /\ batch'[d] = batch[d] /\ plan'[d] = plan[d]
    BY <1>3, <1>5
  <2> QED BY <2>1 DEF IInv, Prepared, Current, Entry, Applied, Refused, Tally, Unseen, Clashing, Known, tables
<1> QED BY <1>2, <1>4, <1>5 DEF IInv, Prepared, Receipted, Truthful, Unseen, Clashing, Known, tables

\* Only the holder of the locks reads and commits; what the others hold does not move.
LEMMA StepFrame ==
  ASSUME IInv, NEW c \in Calls, NEW s \in Steps, Move(c, s), TypeOK',
         UNCHANGED <<live, sessions, tables, answers, batch>>,
         \A d \in Calls : d # c => plan'[d] = plan[d],
         s \in {"read", "commit"} => batch[c].device \in live /\ \A d \in Calls : Holds(d) => d = c,
         s = "commit" => Current(c)'
  PROVE  IInv'
<1>1. \A d \in Calls : d # c => step'[d] = step[d]
  BY DEF IInv, TypeOK, Move
<1>2. step'[c] = s
  BY DEF IInv, TypeOK, Move
<1>3. Exclusive'
  BY <1>1, <1>2 DEF IInv, Exclusive, Holds, tables
<1>4. ASSUME NEW d \in Calls, step'[d] = "commit" PROVE Current(d)'
  <2>1. CASE d = c
    BY <1>2, <1>4, <2>1
  <2>2. CASE d # c
    BY <1>1, <1>4, <2>2 DEF IInv, Prepared, Current, Entry, Applied, Refused, Tally, Unseen, Clashing, Known, tables
  <2> QED BY <2>1, <2>2
<1> QED BY <1>3, <1>4 DEF IInv, Prepared, Receipted, Truthful, Unseen, Clashing, Known, tables

LEMMA LockStep ==
  ASSUME IInv, NEW c \in Calls, Lock(c)
  PROVE  IInv'
<1>1. CASE batch[c].device \notin live /\ End(c)
  BY <1>1, EndStep DEF Lock
<1>2. CASE batch[c].device \in live /\ Move(c, "read") /\ UNCHANGED <<batch, plan, late>>
  <2>1. \A d \in Calls : ~Holds(d)
    BY DEF Lock, Free
  <2>2. TypeOK'
    BY <1>2 DEF Lock, IInv, TypeOK, Move, Steps, tables
  <2> QED BY <1>2, <2>1, <2>2, StepFrame DEF Lock, Steps
<1> QED BY <1>1, <1>2 DEF Lock

LEMMA ReadStep ==
  ASSUME IInv, NEW c \in Calls, Read(c)
  PROVE  IInv'
<1> USE DEF Read
<1>0. /\ batch[c].device \in live /\ \A d \in Calls : Holds(d) => d = c
  BY DEF IInv, Exclusive, Holds
<1>1. CASE End(c)
  BY <1>1, EndStep
<1>2. ASSUME NEW p \in Plans, plan' = [plan EXCEPT ![c] = p],
             Move(c, "commit"), UNCHANGED <<batch, late>>, Current(c)'
      PROVE  IInv'
  <2>1. TypeOK'
    BY <1>2 DEF IInv, TypeOK, Move, Steps, tables
  <2>2. \A d \in Calls : d # c => plan'[d] = plan[d]
    BY <1>2 DEF IInv, TypeOK
  <2> QED BY <1>0, <1>2, <2>1, <2>2, StepFrame DEF Steps
<1>3. ASSUME NEW r \in Applied(batch[c]), r.batch = batch[c],
             plan' = [plan EXCEPT ![c] = [receipt |-> r.receipt, fresh |-> {}, replayed |-> TRUE]],
             Move(c, "commit"), UNCHANGED <<batch, late>>
      PROVE  IInv'
  <2> DEFINE p == [receipt |-> r.receipt, fresh |-> {}, replayed |-> TRUE]
  <2>1. r \in sync_batches /\ r \in Entries
    BY DEF Applied, IInv, TypeOK
  <2>2. p \in Plans
    BY <2>1 DEF Plans, Entries
  <2>3. plan'[c] = p
    BY <1>3 DEF IInv, TypeOK
  <2>4. r = [batch |-> batch[c], receipt |-> r.receipt]
    BY <1>3, <2>1 DEF Entries
  <2>5. Current(c)'
    BY <1>3, <2>1, <2>3, <2>4 DEF Current, Entry, tables
  <2> QED BY <1>2, <1>3, <2>2, <2>5
<1>4. ASSUME Applied(batch[c]) = {}, ~Refused(batch[c]),
             plan' = [plan EXCEPT ![c] = [receipt |-> Tally(batch[c]), fresh |-> Unseen(batch[c]),
                                          replayed |-> FALSE]],
             Move(c, "commit"), UNCHANGED <<batch, late>>
      PROVE  IInv'
  <2> DEFINE p == [receipt |-> Tally(batch[c]), fresh |-> Unseen(batch[c]), replayed |-> FALSE]
  <2>1. Tally(batch[c]) \in Receipts
    BY CallTypes, TallyType DEF IInv
  <2>2. Unseen(batch[c]) \in SUBSET Keys
    BY CallTypes DEF IInv, Unseen
  <2>3. p \in Plans
    BY <2>1, <2>2 DEF Plans
  <2>4. plan'[c] = p /\ batch'[c] = batch[c]
    BY <1>4 DEF IInv, TypeOK
  <2>5. PICK b : b = batch[c]
    OBVIOUS
  <2>6. Applied(b)' = Applied(b) /\ Refused(b)' = Refused(b) /\ Tally(b)' = Tally(b) /\ Unseen(b)' = Unseen(b)
    BY DEF Applied, Refused, Tally, Unseen, Clashing, Known, tables
  <2>7. Current(c)'
    BY <1>4, <2>4, <2>5, <2>6 DEF Current
  <2> QED BY <1>2, <1>4, <2>3, <2>7
<1>5. CASE Replay(c)
  BY <1>1, <1>3, <1>5 DEF Replay
<1>6. CASE Partition(c)
  BY <1>1, <1>4, <1>6 DEF Partition
<1> QED BY <1>5, <1>6

-----------------------------------------------------------------------------
\* What applying a batch does to its own rows and to those of the batches before it.
LEMMA Inserting ==
  ASSUME IInv, NEW c \in Calls, Commit(c), ~plan[c].replayed, NEW b, b = batch[c]
  PROVE  /\ b \in Batches
         /\ Inserted(c) \subseteq Row /\ IsFiniteSet(Inserted(c))
         /\ Unseen(b)' = {} /\ Clashing(b)' = Clashing(b)
         /\ \A a \in Batches : Unseen(a) = {} => Known(a)' = Known(a)
<1> DEFINE fresh == plan[c].fresh
           row(k) == [device |-> b.device, key |-> k, content |-> b.content[k], name |-> b.name]
<1>1. fresh = Unseen(b) /\ observations' = observations \cup {row(k) : k \in fresh}
  BY DEF Commit, IInv, Prepared, Current, Inserted
<1>2. /\ b \in Batches /\ b \in Batch /\ fresh \subseteq DOMAIN b.content
      /\ b.content \in [DOMAIN b.content -> Contents] /\ DOMAIN b.content \in SUBSET Keys
      /\ IsFiniteSet(DOMAIN b.content)
  BY <1>1, CallTypes DEF IInv, Unseen
<1>3. Inserted(c) = {row(k) : k \in fresh}
  BY DEF Inserted
<1>4. Inserted(c) \subseteq Row
  <2>1. b.device \in Devices /\ b.name \in Names
    BY <1>2 DEF Batch
  <2>2. \A k \in fresh : k \in Keys /\ b.content[k] \in Contents
    BY <1>2
  <2> QED BY <1>3, <2>1, <2>2 DEF Row
<1>5. IsFiniteSet(Inserted(c))
  <2> DEFINE f == [k \in fresh |-> row(k)]
  <2>1. IsFiniteSet(fresh)
    BY <1>2, FS_Subset
  <2>2. f \in Surjection(fresh, Inserted(c))
    BY <1>3 DEF Surjection
  <2> QED BY <2>1, <2>2, FS_Surjection
<1>6. ASSUME NEW k \in fresh
      PROVE  row(k).device = b.device /\ row(k).key = k /\ row(k).content = b.content[k]
  OBVIOUS
<1> HIDE DEF row
<1>7. ASSUME NEW k \in DOMAIN b.content PROVE k \notin Unseen(b)'
  <2>1. CASE k \in fresh
    BY <1>1, <1>6, <2>1 DEF Unseen, Known
  <2>2. CASE k \notin fresh
    BY <1>1, <2>2 DEF Unseen, Known
  <2> QED BY <2>1, <2>2
<1>8. Unseen(b)' = {}
  BY <1>7 DEF Unseen
<1>9. Clashing(b)' = Clashing(b)
  BY <1>1, <1>6 DEF Clashing, Known
<1>10. ASSUME NEW a \in Batches, Unseen(a) = {} PROVE Known(a)' = Known(a)
  <2>1. ASSUME NEW k \in fresh, a.device = b.device, k \in DOMAIN a.content PROVE FALSE
    BY <1>1, <1>10, <2>1 DEF Unseen, Known
  <2> QED BY <1>1, <1>6, <2>1 DEF Known
<1> QED BY <1>2, <1>4, <1>5, <1>8, <1>9, <1>10

LEMMA CommitStep ==
  ASSUME IInv, NEW c \in Calls, Commit(c)
  PROVE  IInv'
<1> PICK e : e = Entry(c)
  OBVIOUS
<1>0. /\ \A d \in Calls : Holds(d) => d = c
      /\ step'[c] = "idle" /\ \A d \in Calls : d # c => step'[d] = step[d] /\ batch'[d] = batch[d]
      /\ NoBatch \in Batches /\ Blank \in Plans
  BY IngestConstants DEF IInv, TypeOK, Commit, End, Move, Exclusive, Holds, NoBatch, Plans, Blank, Receipts
<1>1. Exclusive' /\ Prepared'
  BY <1>0 DEF Exclusive, Prepared, Holds
<1>2. e \in Entries
  BY CallTypes DEF IInv, Entry, Entries, Plans
<1>3. CASE plan[c].replayed
  <2>1. Current(c)
    BY DEF Commit, IInv, Prepared
  <2>2. UNCHANGED tables /\ e \in sync_batches /\ answers' \subseteq answers \cup {e}
    BY <1>3, <2>1 DEF Commit, Current, Inserted, tables
  <2>3. TypeOK'
    BY <1>0, <1>2, <2>2 DEF IInv, TypeOK, Commit, End, Move, Steps, tables
  <2>4. Receipted'
    BY <2>2 DEF IInv, Receipted, Truthful, Unseen, Clashing, Known, tables
  <2> QED BY <1>1, <2>2, <2>3, <2>4 DEF IInv, tables
<1>4. CASE ~plan[c].replayed
  <2>1. PICK b : b = batch[c]
    OBVIOUS
  <2>2. /\ b \in Batches /\ Inserted(c) \subseteq Row /\ IsFiniteSet(Inserted(c))
        /\ Unseen(b)' = {} /\ Clashing(b)' = Clashing(b)
        /\ \A a \in Batches : Unseen(a) = {} => Known(a)' = Known(a)
    BY <1>4, <2>1, Inserting
  <2>3. observations' = observations \cup Inserted(c) /\ sync_batches' = sync_batches \cup {e}
        /\ answers' \subseteq answers \cup {e}
    BY <1>4 DEF Commit
  <2>4. TypeOK'
    BY <1>0, <1>2, <2>2, <2>3 DEF IInv, TypeOK, Commit, End, Move, Steps
  <2>5. IsFiniteSet(observations)'
    BY <2>2, <2>3, FS_Union DEF IInv
  <2>6. e.batch = b /\ e.receipt = Tally(b) /\ ~Refused(b)
    BY <1>4, <2>1 DEF Commit, IInv, Prepared, Current, Entry
  <2>7. e.receipt.preserved = Cardinality(Clashing(b))
    BY <2>6 DEF Tally
  <2>8. b.version = "v1" => e.receipt.preserved = 0
    BY <2>6, <2>7, FS_EmptySet DEF Refused
  <2>9. Truthful(e)'
    BY <2>2, <2>6, <2>7, <2>8 DEF Truthful
  <2>10. ASSUME NEW r \in sync_batches PROVE Truthful(r)'
    <3>1. Truthful(r) /\ r.batch \in Batches
      BY DEF IInv, Receipted, TypeOK, Entries
    <3>2. Known(r.batch)' = Known(r.batch)
      BY <2>2, <3>1 DEF Truthful
    <3> QED BY <3>1, <3>2 DEF Truthful, Unseen, Clashing
  <2>11. Receipted'
    BY <2>3, <2>9, <2>10 DEF IInv, Receipted
  <2> QED BY <1>1, <2>4, <2>5, <2>11 DEF IInv
<1> QED BY <1>3, <1>4

\* The operator's steps wait for the transactions they would cross.
LEMMA OperatorStep ==
  ASSUME IInv, NEW d \in Devices, Disable(d) \/ Enable(d) \/ EndSession(d)
  PROVE  IInv'
<1>1. UNCHANGED <<tables, step, batch, plan, late, answers>>
  BY DEF Disable, Enable, EndSession
<1>2. TypeOK'
  BY <1>1 DEF Disable, Enable, EndSession, IInv, TypeOK, tables
<1>3. Exclusive'
  BY <1>1 DEF Disable, Enable, EndSession, IInv, Exclusive, Holds
<1>4. ASSUME NEW c \in Calls, step'[c] = "commit" PROVE Current(c)'
  <2>1. step[c] = "commit" /\ Current(c)
    BY <1>1, <1>4 DEF IInv, Prepared
  <2>2. ~plan[c].replayed => ~Refused(batch[c])'
    BY <1>1, <2>1 DEF Current, Refused, Disable, Enable, EndSession, Clashing, Known, tables
  <2> QED BY <1>1, <2>1, <2>2 DEF Current, Entry, Applied, Tally, Unseen, Clashing, Known, tables
<1> QED BY <1>1, <1>2, <1>3, <1>4
     DEF IInv, Prepared, Receipted, Truthful, Unseen, Clashing, Known, tables

LEMMA IInvStep == IInv /\ [Next]_vars => IInv'
<1> SUFFICES ASSUME IInv, [Next]_vars PROVE IInv'
  OBVIOUS
<1>1. ASSUME NEW c \in Calls, NEW b \in Batches, Authenticate(c, b) PROVE IInv'
  <2>1. TypeOK'
    BY <1>1 DEF Authenticate, Move, IInv, TypeOK, Steps, tables
  <2>2. /\ step'[c] = "lock" /\ UNCHANGED <<live, sessions, tables, plan, answers>>
        /\ \A d \in Calls : d # c => step'[d] = step[d] /\ batch'[d] = batch[d]
    BY <1>1 DEF Authenticate, Move, IInv, TypeOK
  <2>3. Exclusive'
    BY <2>2 DEF IInv, Exclusive, Holds
  <2>4. ASSUME NEW d \in Calls, step'[d] = "commit" PROVE Current(d)'
    <3>1. d # c /\ step[d] = "commit" /\ batch'[d] = batch[d] /\ plan'[d] = plan[d]
      BY <2>2, <2>4
    <3> QED BY <2>2, <3>1
         DEF IInv, Prepared, Current, Entry, Applied, Refused, Tally, Unseen, Clashing, Known, tables
  <2> QED BY <2>1, <2>2, <2>3, <2>4
       DEF IInv, Prepared, Receipted, Truthful, Unseen, Clashing, Known, tables
<1>2. ASSUME NEW c \in Calls, Fail(c) PROVE IInv'
  BY <1>2, EndStep DEF Fail
<1>3. ASSUME NEW c \in Calls, Deadline(c) PROVE IInv'
  <2>1. TypeOK'
    BY <1>3 DEF Deadline, IInv, TypeOK, tables
  <2> QED BY <1>3, <2>1 DEF Deadline, IInv, Exclusive, Holds, Prepared, Current, Entry, Applied, Refused,
       Tally, Receipted, Truthful, Unseen, Clashing, Known, tables
<1>4. CASE UNCHANGED vars
  BY <1>4 DEF vars, IInv, TypeOK, Exclusive, Holds, Prepared, Current, Entry, Applied, Refused,
     Tally, Receipted, Truthful, Unseen, Clashing, Known, tables
<1> QED
  BY <1>1, <1>2, <1>3, <1>4, LockStep, ReadStep, CommitStep, OperatorStep DEF Next, Call

LEMMA Invariant == Spec => []IInv
BY IInvInit, IInvStep, PTL DEF Spec

-----------------------------------------------------------------------------
\* Every state is well-typed: no request is answered after its call has ended.
THEOREM IngestTypeCorrect == Spec => []TypeOK
BY Invariant, PTL DEF IInv

\* What a receipt tells a device of its batch stays true of the stored rows.
THEOREM AnswersStayTrue == Spec => []Acknowledged
<1>1. IInv => Acknowledged
  BY DEF IInv, Receipted, Truthful, Acknowledged
<1> QED BY <1>1, Invariant, PTL

\* The row locks keep every transaction away from the unique constraints.
THEOREM LocksSuffice == Spec => []NeverCollides
<1>1. IInv => NeverCollides
  BY DEF IInv, Prepared, Current, NeverCollides, Collides
<1> QED BY <1>1, Invariant, PTL

\* A batch enters the table only by the commit of a transaction that has not replayed.
LEMMA Landing ==
  ASSUME IInv, [Next]_vars, NEW r \in sync_batches' \ sync_batches
  PROVE  \E c \in Calls : /\ Commit(c) /\ Current(c) /\ ~plan[c].replayed
                          /\ r.batch = batch[c] /\ Holds(c)
<1>1. PICK c \in Calls : Commit(c)
  BY DEF Next, Call, vars, tables, Authenticate, Lock, Read, Fail, Deadline, Disable, Enable, EndSession
<1> QED BY <1>1 DEF Commit, Entry, IInv, Prepared, Holds

\* Disabling a credential ends its uploads, those in flight included.
THEOREM RevocationProved == Spec => RevocationHolds
<1>1. IInv /\ [Next]_vars =>
        [\A r \in sync_batches' \ sync_batches : r.batch.device \in live]_vars
  BY Landing DEF IInv, Exclusive
<1> QED BY <1>1, Invariant, PTL DEF Spec, RevocationHolds

\* Ending a session ends its uploads, those in flight included.
THEOREM SessionProved == Spec => SessionHolds
<1>1. IInv /\ [Next]_vars =>
        [\A r \in sync_batches' \ sync_batches : r.batch.session => r.batch.device \in sessions]_vars
  BY Landing DEF Current, Refused
<1> QED BY <1>1, Invariant, PTL DEF Spec, SessionHolds

-----------------------------------------------------------------------------
\* A key of a device has one row, and every row names a batch that has been applied.
OneRow == \A o, p \in observations : o.device = p.device /\ o.key = p.key => o = p
Named ==
  \A o \in observations :
     \E r \in sync_batches : r.batch.device = o.device /\ r.batch.name = o.name
RowsOf(b) == {o \in observations : o.device = b.device /\ o.name = b.name}

Books == OneRow /\ Named /\ Accounted

LEMMA BooksInit == Init => Books
BY DEF Init, Books, OneRow, Named, Accounted

\* A tally accounts for every observation of its batch: the rows known are as many as the
\* keys they have.
LEMMA TallySums ==
  ASSUME IInv, OneRow, NEW b \in Batches
  PROVE  Tally(b).accepted + Tally(b).duplicate + Tally(b).preserved =
           Cardinality(DOMAIN b.content)
<1> DEFINE seen == DOMAIN b.content \ Unseen(b)
           f == [o \in Known(b) |-> o.key]
<1>1. IsFiniteSet(DOMAIN b.content)
  <2>1. b \in Batch
    BY IngestConstants
  <2>2. PICK K \in SUBSET Keys : b.content \in [K -> Contents]
    BY <2>1 DEF Batch
  <2> QED BY <2>2, FS_Subset, IngestConstants
<1>2. IsFiniteSet(Known(b)) /\ Clashing(b) \subseteq Known(b)
  BY FS_Subset DEF IInv, Known, Clashing
<1>3. f \in Bijection(Known(b), seen)
  <2>1. f \in [Known(b) -> seen]
    BY DEF Known, Unseen
  <2>2. \A o, p \in Known(b) : f[o] = f[p] => o = p
    BY DEF Known, OneRow
  <2>3. \A k \in seen : \E o \in Known(b) : f[o] = k
    BY DEF Unseen
  <2> QED BY <2>1, <2>2, <2>3, Fun_IsBij
<1>4. Cardinality(seen) = Cardinality(Known(b))
  BY <1>2, <1>3, FS_Bijection DEF ExistsBijection
<1>5. Cardinality(Known(b)) = Cardinality(Known(b) \ Clashing(b)) + Cardinality(Clashing(b))
  <2> DEFINE C == Clashing(b)
             K == Known(b)
  <2>1. IsFiniteSet(C) /\ IsFiniteSet(K \ C)
    BY <1>2, FS_Subset
  <2>2. (K \ C) \cup C = K /\ (K \ C) \cap C = {}
    BY <1>2
  <2> HIDE DEF C, K
  <2>3. Cardinality((K \ C) \cup C) = Cardinality(K \ C) + Cardinality(C) - Cardinality((K \ C) \cap C)
    BY <2>1, FS_Union
  <2>4. Cardinality(K \ C) \in Nat /\ Cardinality(C) \in Nat
    BY <2>1, FS_CardinalityType
  <2>5. Cardinality((K \ C) \cap C) = 0
    BY <2>2, FS_EmptySet
  <2>6. Cardinality(K) = Cardinality(K \ C) + Cardinality(C) - Cardinality((K \ C) \cap C)
    BY <2>2, <2>3
  <2>7. Cardinality(K) = Cardinality(K \ C) + Cardinality(C)
    BY <2>4, <2>5, <2>6
  <2> QED BY <2>7 DEF C, K
<1>6. Cardinality(DOMAIN b.content) = Cardinality(Unseen(b)) + Cardinality(seen)
  <2> DEFINE D == DOMAIN b.content
             U == Unseen(b)
  <2>1. IsFiniteSet(U) /\ IsFiniteSet(D \ U) /\ U \subseteq D
    BY <1>1, FS_Subset DEF Unseen
  <2>2. U \cup (D \ U) = D /\ U \cap (D \ U) = {}
    BY <2>1
  <2> HIDE DEF D, U
  <2>3. Cardinality(U \cup (D \ U)) = Cardinality(U) + Cardinality(D \ U) - Cardinality(U \cap (D \ U))
    BY <2>1, FS_Union
  <2>4. Cardinality(U) \in Nat /\ Cardinality(D \ U) \in Nat
    BY <2>1, FS_CardinalityType
  <2>5. Cardinality(U \cap (D \ U)) = 0
    BY <2>2, FS_EmptySet
  <2>6. Cardinality(D) = Cardinality(U) + Cardinality(D \ U) - Cardinality(U \cap (D \ U))
    BY <2>2, <2>3
  <2>7. Cardinality(D) = Cardinality(U) + Cardinality(D \ U)
    BY <2>4, <2>5, <2>6
  <2> QED BY <2>7 DEF D, U
<1>7. /\ Cardinality(Unseen(b)) \in Nat /\ Cardinality(Clashing(b)) \in Nat
      /\ Cardinality(Known(b) \ Clashing(b)) \in Nat
  BY TallyType DEF IInv, Tally, Receipts
<1> QED BY <1>4, <1>5, <1>6, <1>7 DEF Tally

\* A new batch gets as many rows as it has fresh keys.
LEMMA FreshRows ==
  ASSUME IInv, Named, NEW c \in Calls, Commit(c), ~plan[c].replayed, NEW b, b = batch[c]
  PROVE  /\ RowsOf(b)' = Inserted(c)
         /\ Cardinality(Inserted(c)) = Cardinality(Unseen(b))
<1>1. Current(c) /\ b \in Batches
  BY DEF Commit, IInv, Prepared, TypeOK
<1>2. Applied(b) = {} /\ plan[c].fresh = Unseen(b)
  BY <1>1 DEF Current
<1>3. RowsOf(b) = {}
  BY <1>2 DEF RowsOf, Named, Applied
<1> DEFINE row(k) == [device |-> b.device, key |-> k, content |-> b.content[k], name |-> b.name]
           f == [k \in Unseen(b) |-> row(k)]
<1>4. Inserted(c) = {row(k) : k \in Unseen(b)}
  BY <1>2 DEF Inserted
<1>5. ASSUME NEW k PROVE row(k).device = b.device /\ row(k).name = b.name /\ row(k).key = k
  OBVIOUS
<1>6. RowsOf(b)' = Inserted(c)
  <2>1. observations' = observations \cup {row(k) : k \in Unseen(b)}
    BY <1>4 DEF Commit
  <2> HIDE DEF row
  <2> QED BY <1>3, <1>4, <1>5, <2>1 DEF RowsOf
<1>7. IsFiniteSet(Unseen(b))
  BY <1>1, CallTypes, FS_Subset DEF IInv, Unseen
<1>8. f \in Bijection(Unseen(b), Inserted(c))
  <2> HIDE DEF row
  <2>1. f \in [Unseen(b) -> Inserted(c)]
    BY <1>4
  <2>2. \A k, l \in Unseen(b) : f[k] = f[l] => k = l
    BY <1>5
  <2>3. \A o \in Inserted(c) : \E k \in Unseen(b) : f[k] = o
    BY <1>4
  <2> QED BY <2>1, <2>2, <2>3, Fun_IsBij
<1> QED BY <1>6, <1>7, <1>8, FS_Bijection DEF ExistsBijection

LEMMA BooksStep == IInv /\ Books /\ [Next]_vars => Books'
<1> SUFFICES ASSUME IInv, Books, [Next]_vars PROVE Books'
  OBVIOUS
<1>1. CASE UNCHANGED tables
  BY <1>1 DEF tables, Books, OneRow, Named, Accounted
<1>2. ASSUME NEW c \in Calls, Commit(c), plan[c].replayed PROVE UNCHANGED tables
  <2>1. Current(c)
    BY <1>2 DEF Commit, IInv, Prepared
  <2> QED BY <1>2, <2>1 DEF Commit, Current, Inserted, tables
<1>3. ASSUME NEW c \in Calls, Commit(c), ~plan[c].replayed PROVE Books'
  <2>1. PICK b : b = batch[c]
    OBVIOUS
  <2>2. PICK e : e = Entry(c)
    OBVIOUS
  <2>3. /\ b \in Batches /\ Current(c) /\ Applied(b) = {}
        /\ e.batch = b /\ e.receipt = Tally(b)
        /\ observations' = observations \cup Inserted(c) /\ sync_batches' = sync_batches \cup {e}
    BY <1>3, <2>1, <2>2 DEF Commit, IInv, Prepared, TypeOK, Current, Entry
  <2>4. RowsOf(b)' = Inserted(c) /\ Cardinality(Inserted(c)) = Cardinality(Unseen(b))
    BY <1>3, <2>1, FreshRows DEF Books
  <2>5. \A o \in Inserted(c) :
           o.device = b.device /\ o.name = b.name /\ o.key \in Unseen(b) /\ o.content = b.content[o.key]
                 /\ o \in Row
    <3>1. Inserted(c) \subseteq Row
      BY <1>3, <2>1, Inserting
    <3> QED BY <2>1, <2>3, <3>1 DEF Inserted, Current
  <2>6. OneRow'
    <3>1. ASSUME NEW o \in observations, NEW p \in Inserted(c), o.device = p.device, o.key = p.key
          PROVE  FALSE
      BY <2>5, <3>1 DEF Unseen, Known
    <3>2. ASSUME NEW o \in Inserted(c), NEW p \in Inserted(c), o.key = p.key
          PROVE  o = p
      BY <2>5, <3>2 DEF Row
    <3> QED BY <2>3, <3>1, <3>2 DEF Books, OneRow
  <2>7. Named'
    BY <2>3, <2>5 DEF Books, Named
  <2>8. e.receipt.accepted = Cardinality(RowsOf(b)')
    BY <2>3, <2>4 DEF Tally
  <2>9. e.receipt.accepted + e.receipt.duplicate + e.receipt.preserved = Cardinality(DOMAIN b.content)
    BY <2>3, TallySums DEF Books
  <2>10. ASSUME NEW r \in sync_batches PROVE RowsOf(r.batch)' = RowsOf(r.batch)
    <3>1. r.batch.device # b.device \/ r.batch.name # b.name
      BY <2>3 DEF Applied
    <3> QED BY <2>3, <2>5, <3>1 DEF RowsOf
  <2>11. Accounted'
    <3>1. ASSUME NEW r \in sync_batches
          PROVE  r.receipt.accepted = Cardinality(RowsOf(r.batch)')
      BY <2>10 DEF Books, Accounted, RowsOf
    <3> QED BY <2>3, <2>8, <2>9, <3>1 DEF Books, Accounted, RowsOf
  <2> QED BY <2>6, <2>7, <2>11 DEF Books
<1> QED
  BY <1>1, <1>2, <1>3 DEF Next, Call, vars, tables, Authenticate, Lock, Read, Fail, Deadline,
     Disable, Enable, EndSession

\* Receipts and rows agree: as many rows name a batch as its receipt accepted, and the
\* three counts cover the batch.
THEOREM ReceiptsAccount == Spec => []Accounted
<1>1. Spec => []Books
  BY BooksInit, BooksStep, Invariant, PTL DEF Spec
<1> QED BY <1>1, PTL DEF Books

-----------------------------------------------------------------------------
LEMMA SameTerms ==
  ASSUME NEW b
  PROVE  /\ Ledger!Known(b) = Known(b) /\ Ledger!Clashing(b) = Clashing(b)
         /\ Ledger!Unseen(b) = Unseen(b) /\ Ledger!Receipt(b) = Tally(b)
         /\ Ledger!Taken(b) <=> Applied(b) # {}
<1>1. Ledger!Known(b) = Known(b)
  BY DEF Ledger!Known, Known
<1>2. Ledger!Clashing(b) = Clashing(b)
  BY <1>1 DEF Ledger!Clashing, Clashing
<1>3. Ledger!Unseen(b) = Unseen(b)
  BY <1>1 DEF Ledger!Unseen, Unseen
<1>4. Ledger!Taken(b) <=> Applied(b) # {}
  BY DEF Ledger!Taken, Applied
<1>5. ASSUME NEW S PROVE Ledger!Cardinality(S) = Cardinality(S)
  BY DEF Ledger!Cardinality, Cardinality
<1>6. Ledger!Receipt(b) = Tally(b)
  BY <1>1, <1>2, <1>3, <1>5 DEF Ledger!Receipt, Tally
<1> QED BY <1>1, <1>2, <1>3, <1>4, <1>6

LEMMA LedgerStep ==
  IInv /\ [Next]_vars => [Ledger!Next]_<<observations, sync_batches, answers>>
<1> SUFFICES ASSUME IInv, [Next]_vars
             PROVE  Ledger!Next \/ UNCHANGED <<observations, sync_batches, answers>>
  OBVIOUS
<1>1. ASSUME NEW c \in Calls, Commit(c), plan[c].replayed
      PROVE  Ledger!Repeat \/ UNCHANGED <<observations, sync_batches, answers>>
  <2>1. Current(c)
    BY <1>1 DEF Commit, IInv, Prepared
  <2>2. UNCHANGED <<observations, sync_batches>> /\ Entry(c) \in sync_batches
        /\ answers' \in {answers, answers \cup {Entry(c)}}
    BY <1>1, <2>1 DEF Commit, Current, Inserted
  <2> QED BY <2>2 DEF Ledger!Repeat
<1>2. ASSUME NEW c \in Calls, Commit(c), ~plan[c].replayed
      PROVE  batch[c] \in Batches /\ Ledger!Apply(batch[c])
  <2>1. PICK b : b = batch[c]
    OBVIOUS
  <2>2. Current(c) /\ b \in Batches
    BY <1>2, <2>1 DEF Commit, IInv, Prepared, TypeOK
  <2>3. ~Ledger!Taken(b)
    BY <1>2, <2>1, <2>2, SameTerms DEF Current
  <2>4. b.version = "v2" \/ Ledger!Clashing(b) = {}
    <3>1. b.version \in {"v1", "v2"}
      BY <2>2, IngestConstants DEF Batch
    <3> QED BY <1>2, <2>1, <2>2, <3>1, SameTerms DEF Current, Refused
  <2>5. Ledger!Entry(b) = Entry(c)
    BY <1>2, <2>1, <2>2, SameTerms DEF Current, Entry, Ledger!Entry
  <2>6. Inserted(c) = {[device |-> b.device, key |-> k, content |-> b.content[k],
                        name |-> b.name] : k \in Ledger!Unseen(b)}
    BY <1>2, <2>1, <2>2, SameTerms DEF Current, Inserted
  <2> QED BY <1>2, <2>1, <2>2, <2>3, <2>4, <2>5, <2>6 DEF Commit, Ledger!Apply
<1>3. CASE UNCHANGED <<observations, sync_batches, answers>>
  BY <1>3
<1> QED BY <1>1, <1>2, <1>3 DEF Next, Call, vars, tables, Authenticate, Lock, Read, Fail, Deadline,
       Disable, Enable, EndSession, Ledger!Next

\* applyBatch implements the ledger of first writers: whole batches, one receipt each, and
\* no other answer, whatever calls overlap, fail or are answered late.
THEOREM IngestImplemented == Spec => ImplementsObservationLedger
<1>1. Init => Ledger!Init
  BY DEF Init, Ledger!Init
<1> QED BY <1>1, Invariant, LedgerStep, PTL DEF Spec, ImplementsObservationLedger, Ledger!Spec
=============================================================================
