---------------------------- MODULE AttemptLedger ----------------------------
(***************************************************************************)
(* What the orbital source gate promises its provider and its owner:       *)
(* attempts come one at a time and an interval apart, nothing but a        *)
(* success or the owner's review lets the next one begin, a reviewed       *)
(* attempt is settled for good, and the cache holds the latest success.    *)
(***************************************************************************)
EXTENDS Integers, Sequences

CONSTANT Interval

VARIABLES clock, ledger, cached

last == ledger[Len(ledger)]
settled == ledger = <<>> \/ last.outcome \in {"success", "reviewed"}

Init == clock = 0 /\ ledger = <<>> /\ cached = 0

Pass == clock' > clock /\ clock' \in Nat /\ UNCHANGED <<ledger, cached>>

Begin ==
  /\ settled
  /\ ledger # <<>> => clock - last.at >= Interval
  /\ ledger' = Append(ledger, [at |-> clock, outcome |-> "open"])
  /\ UNCHANGED <<clock, cached>>

Succeed ==
  /\ ledger # <<>> /\ last.outcome = "open"
  /\ ledger' = [ledger EXCEPT ![Len(ledger)].outcome = "success"]
  /\ cached' = Len(ledger)
  /\ UNCHANGED clock

Fail ==
  /\ ledger # <<>> /\ last.outcome = "open"
  /\ ledger' = [ledger EXCEPT ![Len(ledger)].outcome = "failed"]
  /\ UNCHANGED <<clock, cached>>

Review ==
  /\ ledger # <<>> /\ last.outcome \in {"open", "failed"}
  /\ ledger' = [ledger EXCEPT ![Len(ledger)].outcome = "reviewed"]
  /\ UNCHANGED <<clock, cached>>

Next == Pass \/ Begin \/ Succeed \/ Fail \/ Review

Spec == Init /\ [][Next]_<<clock, ledger, cached>>
=============================================================================
