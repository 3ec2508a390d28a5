------------------------------ MODULE WorldOrbit ------------------------------
(***************************************************************************)
(* The gate in front of the orbital elements provider: one row of          *)
(* world_orbit_source shared by every API process, claimed before the      *)
(* network is used, finished after it, and reset only by the owner         *)
(* (vm/cybermap-api/src/world-orbit-postgres-store.mjs and                 *)
(* world-orbit-service.mjs).                                               *)
(*                                                                         *)
(* Every statement on the row is atomic (a single UPDATE, or a transaction *)
(* that holds the row); its response may be lost.  An attempt's UUID is its *)
(* number.  The elements are named by the attempt that fetched them.  Time *)
(* is the database's clock, in units of which Interval make two hours.     *)
(***************************************************************************)
EXTENDS Integers, Sequences, FiniteSets

CONSTANTS
  Workers,        \* refreshes that may be in flight together, in any process
  Interval,       \* minimum time between two attempts
  MaxTime, MaxAttempts   \* bounds of the model

ASSUME OrbitConstants ==
  Interval \in Nat \ {0} /\ MaxTime \in Nat /\ MaxAttempts \in Nat

VARIABLES
  clock,
  row,      \* the source row
  resets,   \* world_orbit_resets: the attempts the owner has reviewed
  pc, id,   \* of each refresh: its step and the attempt it claimed
  ledger    \* history: when each attempt began and how it ended

vars == <<clock, row, resets, pc, id, ledger>>

Null == 0
Never == -Interval   \* a NULL attempted_at: due at any time
Codes == {"none", "acquisition_incomplete", "failed"}
Outcomes == {"open", "success", "failed", "reviewed"}
Steps == {"idle", "fetch", "save", "stop"}

\* History: what one claim, and the finish or the review of it, came to.
Attempt == [at : Nat, outcome : Outcomes]
Row == [attempt : Nat, attempted : Int, stopped : BOOLEAN, failure : Codes, elements : Nat]

\* The row never names a time that has not been.
TypeOK ==
  /\ clock \in Nat
  /\ row \in Row /\ row.attempted <= clock
  /\ resets \subseteq Nat
  /\ pc \in [Workers -> Steps] /\ id \in [Workers -> Nat]
  /\ ledger \in Seq(Attempt)

Init ==
  /\ clock = 0
  /\ row = [attempt |-> Null, attempted |-> Never, stopped |-> FALSE, failure |-> "none", elements |-> Null]
  /\ resets = {}
  /\ pc = [w \in Workers |-> "idle"] /\ id = [w \in Workers |-> Null]
  /\ ledger = <<>>

Tick == clock < MaxTime /\ clock' = clock + 1 /\ UNCHANGED <<row, resets, pc, id, ledger>>

-----------------------------------------------------------------------------
Move(w, step) == pc' = [pc EXCEPT ![w] = step]
Done(w) == Move(w, "idle") /\ id' = [id EXCEPT ![w] = Null]
Settle(a, outcome) == ledger' = [ledger EXCEPT ![a].outcome = outcome]

\* A reset leaves attempted_at alone.
Due == clock - row.attempted >= Interval

\* Mutant: the latch is not set before the network is used.
Unlatched(a) == row' = [row EXCEPT !.attempt = a, !.attempted = clock,
                                   !.failure = "acquisition_incomplete"]

\* The statement of claim; a is the fresh UUID.
Latch(a) == row' = [row EXCEPT !.attempt = a, !.attempted = clock, !.stopped = TRUE,
                               !.failure = "acquisition_incomplete"]

\* claim: the conditional UPDATE sets the stop latch before the network is used.  If its
\* response is lost the refresh gives up and the latch stays.
Claim(w) ==
  LET a == Len(ledger) + 1
  IN  /\ pc[w] = "idle" /\ a <= MaxAttempts
      /\ ~row.stopped /\ Due
      /\ Latch(a)
      /\ ledger' = Append(ledger, [at |-> clock, outcome |-> "open"])
      /\ \/ /\ Move(w, "fetch") /\ id' = [id EXCEPT ![w] = a]
         \/ UNCHANGED <<pc, id>>
      /\ UNCHANGED <<clock, resets>>

\* The provider's answer is usable, or it is anything else (status, transport, payload).
Fetch(w) ==
  /\ pc[w] = "fetch"
  /\ Move(w, "save") \/ Move(w, "stop")
  /\ UNCHANGED <<clock, row, resets, id, ledger>>

\* Mutant: a finish looks for the latch alone, whoever holds it.
HoldsAnyLatch(w) == row.stopped /\ row.failure = "acquisition_incomplete"

\* finish writes only over the latch its own claim has left.
Holds(w) == row.attempt = id[w] /\ row.stopped /\ row.failure = "acquisition_incomplete"

\* finish with elements: success and a superseded receipt both end the refresh; an error
\* (before or after the row changed) sends it to the second finish.
Save(w) ==
  /\ pc[w] = "save"
  /\ \/ /\ Holds(w)
        /\ row' = [row EXCEPT !.stopped = FALSE, !.failure = "none", !.elements = id[w]]
        /\ Settle(id[w], "success")
        /\ Done(w) \/ (Move(w, "stop") /\ UNCHANGED id)
     \/ ~Holds(w) /\ Done(w) /\ UNCHANGED <<row, ledger>>
     \/ Move(w, "stop") /\ UNCHANGED <<row, ledger, id>>
  /\ UNCHANGED <<clock, resets>>

\* finish with an error, whose own error is swallowed.
Stop(w) ==
  /\ pc[w] = "stop"
  /\ \/ /\ Holds(w)
        /\ row' = [row EXCEPT !.stopped = TRUE, !.failure = "failed"]
        /\ Settle(id[w], "failed")
     \/ UNCHANGED <<row, ledger>>
  /\ Done(w)
  /\ UNCHANGED <<clock, resets>>

\* The process dies; the latch stays.
Crash(w) ==
  /\ pc[w] # "idle" /\ Done(w)
  /\ UNCHANGED <<clock, row, resets, ledger>>

-----------------------------------------------------------------------------
\* Mutant: the review is recorded and the row left as it was.
ResetRecords(failureId) ==
  /\ row.stopped /\ row.attempt = failureId
  /\ failureId \notin resets
  /\ resets' = resets \cup {failureId}
  /\ Settle(failureId, "reviewed")
  /\ UNCHANGED <<clock, row, pc, id>>

\* reset: the owner has reviewed the attempt that the row shows, which need not have
\* ended.  failed_attempt_id is unique in the audit table.
Reset(failureId) ==
  /\ row.stopped /\ row.attempt = failureId
  /\ failureId \notin resets
  /\ resets' = resets \cup {failureId}
  /\ row' = [row EXCEPT !.stopped = FALSE, !.attempt = Null, !.failure = "none"]
  /\ Settle(failureId, "reviewed")
  /\ UNCHANGED <<clock, pc, id>>

Refresh(w) == Claim(w) \/ Fetch(w) \/ Save(w) \/ Stop(w) \/ Crash(w)

Next == Tick \/ (\E w \in Workers : Refresh(w)) \/ \E a \in 1 .. MaxAttempts : Reset(a)

Spec == Init /\ [][Next]_vars

-----------------------------------------------------------------------------
(* Properties *)

\* The latch of the row is exactly what the history of attempts calls for: after a crash,
\* a lost response or a failure it is set until the owner's review, and only a success or
\* a review clears it.
LatchTells ==
  row.stopped <=> ledger # <<>> /\ ledger[Len(ledger)].outcome \in {"open", "failed"}

\* The unique audit record never refuses the owner's review of the attempt the row shows.
ReviewPossible == row.stopped => row.attempt \in DOMAIN ledger \ resets

\* The gate implements the ledger: attempts an interval apart, even across a reset; a late
\* refresh neither reopens a reviewed attempt nor replaces the elements of a later one.
Attempts == INSTANCE AttemptLedger WITH cached <- row.elements
ImplementsLedger == Attempts!Spec
=============================================================================
