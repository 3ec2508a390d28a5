--------------------------- MODULE WorldOrbitProofs ---------------------------
(***************************************************************************)
(* Proofs about WorldOrbit, for any number of refreshes, any interval and  *)
(* any bounds on time and attempts.                                        *)
(***************************************************************************)
EXTENDS WorldOrbit, SequenceTheorems, TLAPS

\* The row speaks of the last attempt of the ledger, or, after a review, of none.
RowMatches ==
  /\ row.attempt \in {Null, Len(ledger)}
  /\ row.stopped => row.attempt = Len(ledger) /\ Len(ledger) > 0
  /\ ledger # <<>> => row.attempted = ledger[Len(ledger)].at
  /\ row.failure = "acquisition_incomplete" =>
       row.stopped /\ ledger[Len(ledger)].outcome = "open"
  /\ resets = {a \in 1 .. Len(ledger) : ledger[a].outcome = "reviewed"}

Claimed == \A w \in Workers : pc[w] # "idle" => id[w] > 0

IInv == TypeOK /\ LatchTells /\ RowMatches /\ Claimed

LEMMA IInvInit == Init => IInv
<1> SUFFICES ASSUME Init PROVE IInv
  OBVIOUS
<1>1. TypeOK
  BY OrbitConstants DEF Init, TypeOK, Row, Codes, Null, Never, Steps
<1>2. ledger = <<>> /\ Len(ledger) = 0
  BY DEF Init
<1>3. resets = {a \in 1 .. Len(ledger) : ledger[a].outcome = "reviewed"}
  BY <1>2 DEF Init
<1>4. RowMatches
  BY <1>2, <1>3 DEF Init, RowMatches, Null
<1> QED
  BY <1>1, <1>2, <1>4 DEF Init, IInv, LatchTells, Claimed

\* Settling attempt a changes its outcome and nothing else of the ledger.
LEMMA Settled ==
  ASSUME ledger \in Seq(Attempt), NEW a \in 1 .. Len(ledger),
         NEW o \in Outcomes, Settle(a, o)
  PROVE  /\ ledger' \in Seq(Attempt) /\ Len(ledger') = Len(ledger)
         /\ ledger'[a].outcome = o /\ ledger'[a].at = ledger[a].at
         /\ \A b \in 1 .. Len(ledger) : b # a => ledger'[b] = ledger[b]
<1> DEFINE e == [ledger[a] EXCEPT !.outcome = o]
<1>1. ledger[a] \in Attempt
  OBVIOUS
<1>2. e \in Attempt /\ e.outcome = o /\ e.at = ledger[a].at
  BY <1>1 DEF Attempt
<1>3. ledger' = [ledger EXCEPT ![a] = e]
  BY DEF Settle
<1> HIDE DEF e
<1> QED BY <1>2, <1>3, ExceptSeq

\* What TypeOK says, in the terms of the steps below.
LEMMA Facts ==
  ASSUME TypeOK
  PROVE  /\ Len(ledger) \in Nat /\ clock \in Nat /\ Interval \in Nat \ {0}
         /\ ledger \in Seq(Attempt) /\ DOMAIN ledger = 1 .. Len(ledger)
         /\ \A a \in 1 .. Len(ledger) : ledger[a] \in Attempt
         /\ ledger = <<>> <=> Len(ledger) = 0
<1> USE DEF TypeOK
<1>1. ledger \in Seq(Attempt) /\ clock \in Nat /\ Interval \in Nat \ {0}
  BY OrbitConstants
<1>2. Len(ledger) \in Nat /\ ledger \in [1 .. Len(ledger) -> Attempt] /\ DOMAIN ledger = 1 .. Len(ledger)
  BY <1>1, LenProperties
<1> QED BY <1>1, <1>2, EmptySeq

\* A refresh that holds the latch claimed the last attempt, which is still open.
LEMMA HoldsLast ==
  ASSUME IInv, NEW w \in Workers, Holds(w)
  PROVE  /\ id[w] = Len(ledger) /\ Len(ledger) > 0 /\ id[w] \in 1 .. Len(ledger)
         /\ ledger[id[w]].outcome = "open"
  BY Facts DEF Holds, IInv, RowMatches, TypeOK, Null

LEMMA IInvStep == IInv /\ [Next]_vars => IInv'
<1> SUFFICES ASSUME IInv, [Next]_vars PROVE IInv'
  OBVIOUS
<1> USE DEF IInv
<1>0. /\ Len(ledger) \in Nat /\ clock \in Nat /\ Interval \in Nat \ {0}
      /\ ledger \in Seq(Attempt) /\ DOMAIN ledger = 1 .. Len(ledger)
      /\ \A a \in 1 .. Len(ledger) : ledger[a] \in Attempt
      /\ ledger = <<>> <=> Len(ledger) = 0
  BY Facts
<1>1. CASE Tick
  <2>1. clock' = clock + 1 /\ UNCHANGED <<row, resets, pc, id, ledger>>
    BY <1>1 DEF Tick
  <2>2. row.attempted <= clock + 1
    BY <1>0 DEF TypeOK, Row
  <2> QED BY <1>0, <2>1, <2>2 DEF TypeOK, LatchTells, RowMatches, Claimed
<1>2. ASSUME NEW w \in Workers, Claim(w) PROVE IInv'
  <2> DEFINE a == Len(ledger) + 1
             entry == [at |-> clock, outcome |-> "open"]
  <2>1. /\ row' = [row EXCEPT !.attempt = a, !.attempted = clock, !.stopped = TRUE,
                              !.failure = "acquisition_incomplete"]
        /\ ledger' = Append(ledger, entry) /\ UNCHANGED <<clock, resets>>
        /\ pc' \in [Workers -> Steps] /\ id' \in [Workers -> Nat]
        /\ \A v \in Workers : pc'[v] # "idle" => id'[v] > 0
    <3>1. a \in Nat /\ a > 0
      BY <1>0
    <3> QED BY <1>2, <3>1 DEF Claim, Latch, Move, TypeOK, Claimed, Steps
  <2>2. /\ ledger' \in Seq(Attempt) /\ Len(ledger') = a
        /\ ledger'[a] = entry
        /\ \A b \in 1 .. Len(ledger) : ledger'[b] = ledger[b]
    BY <1>0, <2>1, AppendProperties DEF Attempt, Outcomes
  <2>3. row' \in Row /\ row'.attempted <= clock
    <3>1. row \in Row /\ a \in Nat /\ clock \in Int /\ clock <= clock
      BY <1>0 DEF TypeOK
    <3> HIDE DEF a
    <3> QED BY <2>1, <3>1 DEF Row, Codes
  <2>4. TypeOK'
    BY <1>0, <2>1, <2>2, <2>3 DEF TypeOK
  <2>5. LatchTells' /\ RowMatches'
    <3>1. /\ row'.attempt = a /\ row'.attempted = clock /\ row'.stopped
          /\ Len(ledger') > 0 /\ ledger' # <<>> /\ a \notin resets
      BY <1>0, <2>1, <2>2 DEF TypeOK, Row, RowMatches
    <3>2. resets' = {b \in 1 .. Len(ledger') : ledger'[b].outcome = "reviewed"}
      BY <1>0, <2>1, <2>2 DEF RowMatches
    <3>3. ledger'[Len(ledger')].outcome = "open" /\ ledger'[Len(ledger')].at = clock
      BY <2>2
    <3> QED BY <2>1, <2>2, <3>1, <3>2, <3>3 DEF LatchTells, RowMatches
  <2> QED BY <2>1, <2>4, <2>5 DEF Claimed
<1>3. ASSUME NEW w \in Workers, Fetch(w) PROVE IInv'
  BY <1>3 DEF Fetch, Move, TypeOK, LatchTells, RowMatches, Claimed, Steps
\* What Save, Stop and Crash do to the locals.
<1>4. ASSUME NEW w \in Workers, pc[w] # "idle", Done(w) \/ (Move(w, "stop") /\ UNCHANGED id)
      PROVE  pc' \in [Workers -> Steps] /\ id' \in [Workers -> Nat] /\ Claimed'
  <2>1. CASE Done(w)
    BY <1>0, <2>1 DEF Done, Move, TypeOK, Claimed, Steps, Null
  <2>2. CASE Move(w, "stop") /\ UNCHANGED id
    BY <1>0, <1>4, <2>2 DEF Move, TypeOK, Claimed, Steps
  <2> QED BY <1>4, <2>1, <2>2
<1>5. ASSUME NEW w \in Workers, Holds(w), NEW o \in {"success", "failed"}, Settle(id[w], o),
             row' = IF o = "success"
                    THEN [row EXCEPT !.stopped = FALSE, !.failure = "none", !.elements = id[w]]
                    ELSE [row EXCEPT !.stopped = TRUE, !.failure = "failed"],
             pc' \in [Workers -> Steps], id' \in [Workers -> Nat], Claimed',
             UNCHANGED <<clock, resets>>
      PROVE  IInv'
  <2>1. id[w] = Len(ledger) /\ Len(ledger) > 0 /\ id[w] \in 1 .. Len(ledger) /\ ledger[id[w]].outcome = "open"
    BY <1>5, HoldsLast
  <2>2. /\ ledger' \in Seq(Attempt) /\ Len(ledger') = Len(ledger)
        /\ ledger'[id[w]].outcome = o /\ ledger'[id[w]].at = ledger[id[w]].at
        /\ \A b \in 1 .. Len(ledger) : b # id[w] => ledger'[b] = ledger[b]
    BY <1>5, <2>1, Settled DEF TypeOK, Outcomes
  <2>3. TypeOK'
    BY <1>0, <1>5, <2>1, <2>2 DEF TypeOK, Row, Codes
  <2>4. LatchTells' /\ RowMatches'
    BY <1>0, <1>5, <2>1, <2>2 DEF TypeOK, LatchTells, RowMatches
  <2> QED BY <1>5, <2>3, <2>4
<1>6. ASSUME NEW w \in Workers, UNCHANGED <<clock, row, resets, ledger>>,
             pc' \in [Workers -> Steps], id' \in [Workers -> Nat], Claimed'
      PROVE  IInv'
  BY <1>6 DEF TypeOK, LatchTells, RowMatches
<1>7. ASSUME NEW w \in Workers, Save(w) PROVE IInv'
  BY <1>4, <1>5, <1>6, <1>7 DEF Save
<1>8. ASSUME NEW w \in Workers, Stop(w) PROVE IInv'
  BY <1>4, <1>5, <1>6, <1>8 DEF Stop
<1>9. ASSUME NEW w \in Workers, Crash(w) PROVE IInv'
  BY <1>4, <1>6, <1>9 DEF Crash
<1>10. ASSUME NEW a \in 1 .. MaxAttempts, Reset(a) PROVE IInv'
  <2>1. a = Len(ledger) /\ a \in 1 .. Len(ledger)
    BY <1>0, <1>10 DEF Reset, RowMatches, TypeOK
  <2>2. /\ ledger' \in Seq(Attempt) /\ Len(ledger') = Len(ledger)
        /\ ledger'[a].outcome = "reviewed" /\ ledger'[a].at = ledger[a].at
        /\ \A b \in 1 .. Len(ledger) : b # a => ledger'[b] = ledger[b]
    BY <1>10, <2>1, Settled DEF TypeOK, Outcomes, Reset
  <2>3. /\ row' = [row EXCEPT !.stopped = FALSE, !.attempt = Null, !.failure = "none"]
        /\ resets' = resets \cup {a} /\ UNCHANGED <<clock, pc, id>>
    BY <1>10 DEF Reset
  <2>4. TypeOK'
    BY <1>0, <2>1, <2>2, <2>3 DEF TypeOK, Row, Codes, Null
  <2>5. LatchTells' /\ RowMatches'
    BY <1>0, <2>1, <2>2, <2>3 DEF TypeOK, LatchTells, RowMatches, Null
  <2> QED BY <2>3, <2>4, <2>5 DEF Claimed
<1>11. CASE UNCHANGED vars
  BY <1>11 DEF vars, TypeOK, LatchTells, RowMatches, Claimed
<1> QED
  BY <1>1, <1>2, <1>3, <1>7, <1>8, <1>9, <1>10, <1>11 DEF Next, Refresh

LEMMA Invariant == Spec => []IInv
  BY IInvInit, IInvStep, PTL DEF Spec

\* The row, the audit table and the refreshes of every process stay well typed: the row
\* names an attempt that was made, at a time that has been.
THEOREM OrbitTypeCorrect == Spec => []TypeOK
  BY Invariant, PTL DEF IInv

\* The stop latch that claim commits before the network is used stays until that attempt
\* succeeds or the owner reviews it, whatever crashes, late refreshes or lost responses do.
THEOREM LatchFaithful == Spec => []LatchTells
  BY Invariant, PTL DEF IInv

\* The owner can always review the attempt that the row shows as stopped.
THEOREM ReviewNeverRefused == Spec => []ReviewPossible
<1>1. IInv => ReviewPossible
  BY DEF IInv, TypeOK, LatchTells, RowMatches, ReviewPossible
<1> QED BY <1>1, Invariant, PTL

-----------------------------------------------------------------------------
LEMMA LedgerStep == IInv /\ [Next]_vars => [Attempts!Next]_<<clock, ledger, row.elements>>
<1> SUFFICES ASSUME IInv, [Next]_vars
             PROVE  Attempts!Next \/ UNCHANGED <<clock, ledger, row.elements>>
  OBVIOUS
<1> USE DEF IInv
<1>0. /\ Len(ledger) \in Nat /\ clock \in Nat /\ Interval \in Nat \ {0}
      /\ ledger \in Seq(Attempt) /\ DOMAIN ledger = 1 .. Len(ledger)
      /\ \A a \in 1 .. Len(ledger) : ledger[a] \in Attempt
      /\ ledger = <<>> <=> Len(ledger) = 0
  BY Facts
<1>1. CASE Tick
  BY <1>0, <1>1 DEF Tick, Attempts!Next, Attempts!Pass
<1>2. ASSUME NEW w \in Workers, Claim(w) PROVE Attempts!Begin
  <2>1. Attempts!settled
    <3>1. ~row.stopped
      BY <1>2 DEF Claim
    <3>2. ledger # <<>> => ledger[Len(ledger)] \in Attempt /\ ledger[Len(ledger)].outcome \notin {"open", "failed"}
      BY <1>0, <3>1 DEF LatchTells
    <3> QED BY <3>2 DEF Attempt, Outcomes, Attempts!settled, Attempts!last
  <2>2. ledger # <<>> => clock - ledger[Len(ledger)].at >= Interval
    BY <1>2 DEF Claim, Due, RowMatches
  <2>3. row'.elements = row.elements
    BY <1>2 DEF Claim, Latch, TypeOK
  <2> QED BY <1>2, <2>1, <2>2, <2>3 DEF Claim, Attempts!Begin, Attempts!last
<1>3. ASSUME NEW w \in Workers, Save(w)
      PROVE  Attempts!Succeed \/ UNCHANGED <<clock, ledger, row.elements>>
  <2>1. CASE UNCHANGED <<row, ledger>>
    BY <1>3, <2>1 DEF Save
  <2>2. CASE /\ Holds(w) /\ Settle(id[w], "success")
             /\ row' = [row EXCEPT !.stopped = FALSE, !.failure = "none", !.elements = id[w]]
    <3>1. id[w] = Len(ledger) /\ Len(ledger) > 0 /\ ledger[id[w]].outcome = "open"
      BY <2>2, HoldsLast
    <3>2. row'.elements = id[w] /\ clock' = clock
      BY <1>3, <2>2 DEF Save, TypeOK, Row
    <3> QED BY <1>0, <2>2, <3>1, <3>2 DEF Settle, Attempts!Succeed, Attempts!last
  <2> QED BY <1>3, <2>1, <2>2 DEF Save
<1>4. ASSUME NEW w \in Workers, Stop(w)
      PROVE  Attempts!Fail \/ UNCHANGED <<clock, ledger, row.elements>>
  <2>1. CASE UNCHANGED <<row, ledger>>
    BY <1>4, <2>1 DEF Stop
  <2>2. CASE /\ Holds(w) /\ Settle(id[w], "failed")
             /\ row' = [row EXCEPT !.stopped = TRUE, !.failure = "failed"]
    <3>1. id[w] = Len(ledger) /\ Len(ledger) > 0 /\ ledger[id[w]].outcome = "open"
      BY <2>2, HoldsLast
    <3>2. row'.elements = row.elements /\ clock' = clock
      BY <1>4, <2>2 DEF Stop, TypeOK, Row
    <3> QED BY <1>0, <2>2, <3>1, <3>2 DEF Settle, Attempts!Fail, Attempts!last
  <2> QED BY <1>4, <2>1, <2>2 DEF Stop
<1>5. ASSUME NEW a \in 1 .. MaxAttempts, Reset(a) PROVE Attempts!Review
  <2>1. a = Len(ledger) /\ Len(ledger) > 0 /\ ledger[a].outcome \in {"open", "failed"}
    BY <1>5 DEF Reset, LatchTells, RowMatches
  <2>2. row'.elements = row.elements /\ clock' = clock
    BY <1>5 DEF Reset, TypeOK, Row
  <2> QED BY <1>0, <1>5, <2>1, <2>2 DEF Reset, Settle, Attempts!Review, Attempts!last
<1>6. ASSUME NEW w \in Workers, Fetch(w) \/ Crash(w) PROVE UNCHANGED <<clock, ledger, row.elements>>
  BY <1>6 DEF Fetch, Crash
<1>7. CASE UNCHANGED vars
  BY <1>7 DEF vars
<1> QED BY <1>1, <1>2, <1>3, <1>4, <1>5, <1>6, <1>7 DEF Next, Refresh, Attempts!Next

\* claim, finish and reset implement the ledger of attempts: an interval apart even across
\* a review, none before the one before it is settled, a reviewed attempt never reopened,
\* and the cached elements always those of the latest success.
THEOREM LedgerImplemented == Spec => ImplementsLedger
<1>1. Init => Attempts!Init
  BY DEF Init, Attempts!Init, Null
<1> QED BY <1>1, Invariant, LedgerStep, PTL DEF Spec, ImplementsLedger, Attempts!Spec
=============================================================================
