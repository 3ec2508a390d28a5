-------------------------- MODULE ObservationLedger --------------------------
(***************************************************************************)
(* What observation ingest promises a device: a batch is applied once and  *)
(* whole, the first content stored under a key stays, a version 1 batch    *)
(* that would contradict it is not applied at all, and the only answer a   *)
(* batch ever gets is the one receipt written with it.                     *)
(***************************************************************************)
EXTENDS FiniteSets

CONSTANT Batches

VARIABLES
  observations,   \* the stored rows
  sync_batches,   \* the applied batches, each with its receipt
  answers         \* the receipts that devices have been given

Known(b) == {o \in observations : o.device = b.device /\ o.key \in DOMAIN b.content}
Clashing(b) == {o \in Known(b) : o.content # b.content[o.key]}
Unseen(b) == {k \in DOMAIN b.content : \A o \in Known(b) : o.key # k}

Taken(b) == \E r \in sync_batches : r.batch.device = b.device /\ r.batch.name = b.name

Receipt(b) ==
  [accepted |-> Cardinality(Unseen(b)),
   duplicate |-> Cardinality(Known(b) \ Clashing(b)),
   preserved |-> Cardinality(Clashing(b))]

Entry(b) == [batch |-> b, receipt |-> Receipt(b)]

Init == observations = {} /\ sync_batches = {} /\ answers = {}

Apply(b) ==
  /\ ~Taken(b)
  /\ b.version = "v2" \/ Clashing(b) = {}
  /\ observations' = observations \cup
       {[device |-> b.device, key |-> k, content |-> b.content[k], name |-> b.name] : k \in Unseen(b)}
  /\ sync_batches' = sync_batches \cup {Entry(b)}
  /\ answers' \in {answers, answers \cup {Entry(b)}}

Repeat ==
  /\ \E r \in sync_batches : answers' = answers \cup {r}
  /\ UNCHANGED <<observations, sync_batches>>

Next == Repeat \/ \E b \in Batches : Apply(b)

Spec == Init /\ [][Next]_<<observations, sync_batches, answers>>
=============================================================================
