--------------------------- MODULE EntityWorkbench ---------------------------
(***************************************************************************)
(* The entity workbench: an operator corrects clusters of devices that a   *)
(* model keeps proposing (vm/cybermap-api/src/entity-postgres-store.mjs    *)
(* and entity-projection.mjs, tables of db/migrations/0007).               *)
(*                                                                         *)
(* Every command is one transaction under one advisory lock, so it is one  *)
(* action here.  A command carries the revisions its author saw, which may *)
(* be any: one that was overtaken, comes with an idempotency key already   *)
(* used or as a preview, or whose transaction fails changes nothing, which *)
(* is a stuttering step.                                                   *)
(* Labels, evidence and times are left out; all devices are eligible.      *)
(***************************************************************************)
EXTENDS Integers, Sequences, FiniteSets

CONSTANTS
  Entities, Devices,
  Versions,        \* of the hypotheses about one entity
  Limit,           \* devices per entity (100)
  MaxAssertions, MaxHypotheses,   \* bound the history
  None

ASSUME WorkbenchConstants ==
  /\ Limit \in Nat /\ IsFiniteSet(Devices)
  /\ None \notin Entities /\ \A D \in SUBSET Devices : D # None

VARIABLES
  row,          \* entity_workbench_state; revision 0 where there is no row
  hypotheses,   \* entity_hypotheses
  assertions    \* entity_assertions, in the order of their transactions

vars == <<row, hypotheses, assertions>>

Actions == {"create", "label", "membership", "reject", "split", "merge", "undo"}

\* emptyOperatorState, and what the corrections make of it.
State ==
  {s \in [review : {"unreviewed", "reviewed", "needs_review", "retired"},
          override : {None} \cup SUBSET Devices, rejected : SUBSET Devices,
          merged : Entities \cup {None}, active : BOOLEAN] :
     /\ s.active <=> s.review # "retired"
     /\ s.active => s.merged = None}
Row == [revision : Nat, state : State]

\* An assertion is stored with the revisions its author saw; of a hypothesis only the
\* model remembers which one that was.
Hypothesis ==
  [entity : Entities, version : Versions, revision : Nat, expected : Nat, devices : SUBSET Devices]
Assertion(E) ==
  [action : Actions, affected : {E}, expected : [E -> Nat], before : [E -> Row], after : [E -> Row],
   compensates : Nat, added : SUBSET Devices]

TypeOK ==
  /\ row \in [Entities -> Row]
  /\ hypotheses \subseteq Hypothesis
  /\ \A i \in DOMAIN assertions :
       assertions[i].affected \subseteq Entities /\ assertions[i] \in Assertion(assertions[i].affected)

EmptyState ==
  [review |-> "unreviewed", override |-> None, rejected |-> {}, merged |-> None, active |-> TRUE]
Retired == [EmptyState EXCEPT !.active = FALSE, !.review = "retired"]

Init ==
  /\ row = [e \in Entities |-> [revision |-> 0, state |-> EmptyState]]
  /\ hypotheses = {} /\ assertions = <<>>

-----------------------------------------------------------------------------
Exists(e) == row[e].revision > 0
Active(e) == Exists(e) /\ row[e].state.active

\* The latest hypothesis.
Machine(e) ==
  UNION {h.devices : h \in {g \in hypotheses : g.entity = e /\
                              \A f \in hypotheses : f.entity = e => f.revision <= g.revision}}

\* effectiveDevices: an override stands over the model, a rejection over both.
Effective(s, machine) ==
  IF s.active THEN (IF s.override # None THEN s.override ELSE machine) \ s.rejected ELSE {}
Members(e) == Effective(row[e].state, Machine(e))

Small(n) == n <= Limit
Reviewed(e) == [row[e].state EXCEPT !.review = "reviewed"]

\* The revisions a command may name: no row gets beyond the bounds of the history.
Revisions == 0 .. MaxAssertions + MaxHypotheses

\* Mutant: a command passes although others have changed what its author saw.
Overtaken(expected) == \A e \in DOMAIN expected : expected[e] <= row[e].revision

\* loadForCommand: the rows are as the author of the command saw them (0: there is none).
Unmoved(expected) == \A e \in DOMAIN expected : expected[e] = row[e].revision

\* The frame of apply: the command names the revisions of all it affects; each affected row
\* gets a new one, and the assertion keeps what was expected, what they were and what they are.
Recorded(action, states, undone, added) ==
  LET affected == DOMAIN states
      after == [e \in affected |-> [revision |-> row[e].revision + 1, state |-> states[e]]]
  IN  \E expected \in [affected -> Revisions] :
        /\ Unmoved(expected)
        /\ row' = [e \in Entities |-> IF e \in affected THEN after[e] ELSE row[e]]
        /\ assertions' = Append(assertions,
             [action |-> action, affected |-> affected, expected |-> expected,
              before |-> [e \in affected |-> row[e]], after |-> after,
              compensates |-> undone, added |-> added])
        /\ UNCHANGED hypotheses

One(e, s) == [x \in {e} |-> s]
Two(e, s, f, t) == [x \in {e, f} |-> IF x = e THEN s ELSE t]

-----------------------------------------------------------------------------
Create(e, D) ==
  /\ ~Exists(e) /\ Small(Cardinality(D))
  /\ Recorded("create", One(e, [Reviewed(e) EXCEPT !.override = D]), 0, D)

Label(e) ==
  Active(e) /\ Recorded("label", One(e, Reviewed(e)), 0, {})

\* Mutant: only the latest removal is remembered.
MembershipForgets(e, add, remove) ==
  /\ Active(e) /\ add \cup remove # {} /\ add \cap remove = {} /\ remove \subseteq Members(e)
  /\ Small(Cardinality(Members(e) \ remove) + Cardinality(add))
  /\ Recorded("membership",
       One(e, [Reviewed(e) EXCEPT !.override = (Members(e) \ remove) \cup add,
                                  !.rejected = remove]), 0, add)

\* What is added counts against the limit even if it was a member.
Membership(e, add, remove) ==
  /\ Active(e) /\ add \cup remove # {} /\ add \cap remove = {} /\ remove \subseteq Members(e)
  /\ Small(Cardinality(Members(e) \ remove) + Cardinality(add))
  /\ LET rejected == (row[e].state.rejected \cup remove) \ add
     IN  /\ Small(Cardinality(rejected))
         /\ Recorded("membership",
              One(e, [Reviewed(e) EXCEPT !.override = (Members(e) \ remove) \cup add,
                                         !.rejected = rejected]), 0, add)

Reject(e, D) ==
  /\ Active(e) /\ D # {}
  /\ Small(Cardinality(row[e].state.rejected \cup D))
  /\ Recorded("reject", One(e, [Reviewed(e) EXCEPT !.rejected = @ \cup D]), 0, {})

Split(e, new, D) ==
  /\ Active(e) /\ ~Exists(new) /\ new # e
  /\ D # {} /\ D \subseteq Members(e) /\ D # Members(e)
  /\ Small(Cardinality(Members(e) \ D)) /\ Small(Cardinality(D))
  /\ Recorded("split",
       Two(e, [Reviewed(e) EXCEPT !.override = Members(e) \ D],
           new, [Reviewed(new) EXCEPT !.override = D]), 0, {})

\* Mutants: rejections are not compared; the limit is not; the source may be retired.
Merged(e, source, combined, rejected) ==
  Recorded("merge",
    Two(e, [Reviewed(e) EXCEPT !.override = combined, !.rejected = rejected],
        source, [row[source].state EXCEPT !.active = FALSE, !.merged = e, !.review = "retired"]), 0, {})
MergeOverrides(e, source) ==
  LET combined == Members(e) \cup Members(source)
      rejected == row[e].state.rejected \cup row[source].state.rejected
  IN  /\ Active(e) /\ Active(source) /\ source # e
      /\ Small(Cardinality(combined)) /\ Small(Cardinality(rejected))
      /\ Merged(e, source, combined, rejected)
MergeUnbounded(e, source) ==
  LET combined == Members(e) \cup Members(source)
      rejected == row[e].state.rejected \cup row[source].state.rejected
  IN  /\ Active(e) /\ Active(source) /\ source # e /\ combined \cap rejected = {}
      /\ Merged(e, source, combined, rejected)
MergeRetired(e, source) ==
  LET combined == Members(e) \cup Members(source)
      rejected == row[e].state.rejected \cup row[source].state.rejected
  IN  /\ Exists(e) /\ Active(source) /\ source # e /\ combined \cap rejected = {}
      /\ Small(Cardinality(combined)) /\ Small(Cardinality(rejected))
      /\ Merged(e, source, combined, rejected)

\* The source becomes a tombstone that names the entity it went into.
Merge(e, source) ==
  LET combined == Members(e) \cup Members(source)
      rejected == row[e].state.rejected \cup row[source].state.rejected
  IN  /\ Active(e) /\ Active(source) /\ source # e /\ combined \cap rejected = {}
      /\ Small(Cardinality(combined)) /\ Small(Cardinality(rejected))
      /\ Merged(e, source, combined, rejected)

\* Mutant: what was made since is overwritten.
UndoAnyRevision(i) ==
  LET was == assertions[i].before
  IN  /\ \A e \in assertions[i].affected : row[e].revision >= assertions[i].after[e].revision
      /\ Recorded("undo",
           [e \in assertions[i].affected |-> IF was[e].revision = 0 THEN Retired ELSE was[e].state], i, {})

\* compensate: only while the revisions the assertion made are current.  An entity it
\* created is retired.
Undo(i) ==
  LET was == assertions[i].before
  IN  /\ \A e \in assertions[i].affected : row[e].revision = assertions[i].after[e].revision
      /\ Recorded("undo",
           [e \in assertions[i].affected |-> IF was[e].revision = 0 THEN Retired ELSE was[e].state], i, {})

\* What publishHypothesis checks of a version and writes: the hypothesis takes the revision
\* after the one its model had read, and what an operator had reviewed needs it again.
Hypothesized(e, version, D) ==
  /\ Small(Cardinality(D))
  /\ \A h \in hypotheses : h.entity = e => h.version # version
  /\ \E expected \in Revisions :
       /\ Unmoved(One(e, expected))
       /\ row' = [row EXCEPT ![e].revision = @ + 1,
                             ![e].state.review = IF @ = "unreviewed" THEN @ ELSE "needs_review"]
       /\ hypotheses' = hypotheses \cup
            {[entity |-> e, version |-> version, revision |-> row[e].revision + 1,
              expected |-> expected, devices |-> D]}
       /\ UNCHANGED assertions

\* Mutant: the entity may be retired.
PublishRetired(e, version, D) ==
  Hypothesized(e, version, D)

\* publishHypothesis, with the row created when there is none.
PublishHypothesis(e, version, D) ==
  /\ Exists(e) => Active(e)
  /\ Hypothesized(e, version, D)

Correct(e) ==
  \/ Label(e)
  \/ \E D \in SUBSET Devices : Create(e, D) \/ Reject(e, D)
  \/ \E add, remove \in SUBSET Devices : Membership(e, add, remove)
  \/ \E f \in Entities : Merge(e, f) \/ \E D \in SUBSET Devices : Split(e, f, D)

Next ==
  \/ /\ Len(assertions) < MaxAssertions
     /\ (\E e \in Entities : Correct(e)) \/ (\E i \in DOMAIN assertions : Undo(i))
  \/ /\ Cardinality(hypotheses) < MaxHypotheses
     /\ \E e \in Entities, version \in Versions, D \in SUBSET Devices : PublishHypothesis(e, version, D)

Spec == Init /\ [][Next]_vars

-----------------------------------------------------------------------------
(* Properties *)

\* The history accounts for every revision of every entity, once; and nobody made one
\* without having seen the one before it, a command with those of all that it affects.
HistoryTells ==
  \A e \in Entities :
    LET A == {i \in DOMAIN assertions : e \in assertions[i].affected}
        H == {h \in hypotheses : h.entity = e}
    IN  /\ {assertions[i].after[e].revision : i \in A} \cup {h.revision : h \in H} = 1 .. row[e].revision
        /\ Cardinality(A) + Cardinality(H) = row[e].revision
        /\ \A i \in A : assertions[i].expected[e] = assertions[i].before[e].revision
        /\ \A h \in H : h.expected + 1 = h.revision

\* Nothing is undone twice, and undoing an undo brings back exactly what the first
\* assertion had made.
UndoExact ==
  \A j \in DOMAIN assertions : assertions[j].compensates # 0 =>
    LET i == assertions[j].compensates
        h == assertions[i].compensates
    IN  /\ \A k \in DOMAIN assertions : k # j => assertions[k].compensates # i
        /\ h # 0 => \A e \in assertions[j].affected :
                      assertions[j].after[e].state = assertions[h].after[e].state

\* A merged identifier always leads to an entity: its target is active or was merged in
\* its turn, and no chain of them comes back on itself, whatever was undone.
AliasesResolve ==
  LET target(e) == row[e].state.merged
  IN  /\ \A e \in Entities : target(e) # None =>
           Exists(target(e)) /\ (Active(target(e)) \/ target(target(e)) # None)
      /\ \A S \in SUBSET Entities : S # {} => \E e \in S : target(e) \notin S

\* No entity, current or kept under a rejection, exceeds the limit.
LimitHeld ==
  \A e \in Entities : Small(Cardinality(Members(e))) /\ Small(Cardinality(row[e].state.rejected))

\* The operator's no to a device outlasts models, merges and splits: only adding that
\* device, or an undo, takes it back.
RejectionsKept ==
  [][LET last == assertions'[Len(assertions')]
         taken(d) == assertions' # assertions /\ (last.action = "undo" \/ d \in last.added)
     IN  \A e \in Entities : Active(e) =>
           \A d \in row[e].state.rejected :
             \/ taken(d)
             \/ d \in row'[IF row'[e].state.active THEN e ELSE row'[e].state.merged].state.rejected]_vars

\* Splitting and merging move devices between entities and lose none.
DevicesConserved ==
  [][LET last == assertions'[Len(assertions')]
     IN  assertions' # assertions /\ last.action \in {"split", "merge"} =>
           UNION {Members(e)' : e \in last.affected} = UNION {Members(e) : e \in last.affected}]_vars
=============================================================================
