------------------------------ MODULE RosterLog ------------------------------
(***************************************************************************)
(* What the sync service promises about the signed roster: its revisions   *)
(* form an append-only log in which each entry follows legally from the    *)
(* one before, and the public copy shows one entry of it and only moves    *)
(* forward.                                                                *)
(***************************************************************************)
EXTENDS Integers, Sequences

CONSTANTS Devices, Owner, Cutoffs, Names, first

VARIABLES log, shown, board

Init == log = <<first>> /\ shown = 0 /\ board = first

newest == log[Len(log)]

Amend(roster) == log' = Append(log, roster) /\ UNCHANGED <<shown, board>>

Join(d, name) ==
  /\ newest[d].status = "absent"
  /\ Amend([newest EXCEPT ![d].status = "active", ![d].displayName = name])

Rename(d, name) ==
  /\ newest[d].status = "active"
  /\ Amend([newest EXCEPT ![d].displayName = name])

Revoke(d, cutoff) ==
  /\ d # Owner /\ newest[d].status = "active"
  /\ Amend([newest EXCEPT ![d].status = "revoked", ![d].acceptedThrough = cutoff])

\* The public copy catches up, not necessarily with the newest revision.
Show ==
  /\ \E k \in shown + 1 .. Len(log) : shown' = k /\ board' = log[k]
  /\ UNCHANGED log

Next ==
  \/ \E d \in Devices : \/ \E x \in Names : Join(d, x) \/ Rename(d, x)
                        \/ \E c \in Cutoffs : Revoke(d, c)
  \/ Show

Spec == Init /\ [][Next]_<<log, shown, board>>
=============================================================================
