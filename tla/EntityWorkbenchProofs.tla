------------------------ MODULE EntityWorkbenchProofs ------------------------
(***************************************************************************)
(* Proofs about EntityWorkbench, for any entities, devices, versions,      *)
(* limit and length of the history.                                        *)
(***************************************************************************)
EXTENDS EntityWorkbench, FiniteSetTheorems, TLAPS

AnyAssertion == UNION {Assertion(E) : E \in SUBSET Entities}
Typed == TypeOK /\ assertions \in Seq(AnyAssertion) /\ IsFiniteSet(hypotheses)

\* An entity without a row is untouched.
Unborn == \A e \in Entities : ~Exists(e) => row[e].state = EmptyState

\* The model: each hypothesis has a revision of its own, and is within the limit.
Proposed ==
  /\ \A h \in hypotheses :
        0 < h.revision /\ h.revision <= row[h.entity].revision /\ Small(Cardinality(h.devices))
  /\ \A g, h \in hypotheses : g.entity = h.entity /\ g.revision = h.revision => g = h

\* What the operator has set is within the limit, now and where an undo finds it.
Modest(s) ==
  (s.override # None => Small(Cardinality(s.override))) /\ Small(Cardinality(s.rejected))
Moderate ==
  /\ \A e \in Entities : Modest(row[e].state)
  /\ \A i \in DOMAIN assertions : \A e \in assertions[i].affected : Modest(assertions[i].before[e].state)

\* An assertion that is still the last word on an entity says what the entity is.
Latest ==
  \A i \in DOMAIN assertions : \A e \in assertions[i].affected :
     /\ 0 < assertions[i].after[e].revision /\ assertions[i].after[e].revision <= row[e].revision
     /\ assertions[i].after[e].revision = row[e].revision => row[e] = assertions[i].after[e]

\* An undo starts where its assertion had ended and ends where it had started.
Restored(i, e) ==
  IF assertions[i].before[e].revision = 0 THEN Retired ELSE assertions[i].before[e].state
Undoes(j, i) ==
  /\ i \in DOMAIN assertions /\ assertions[i].affected = assertions[j].affected
  /\ \A e \in assertions[j].affected :
       /\ assertions[j].before[e] = assertions[i].after[e]
       /\ assertions[j].after[e].revision > assertions[i].after[e].revision
       /\ assertions[j].after[e].state = Restored(i, e)
Traced ==
  /\ \A j \in DOMAIN assertions :
       /\ assertions[j].affected # {}
       /\ assertions[j].compensates # 0 => Undoes(j, assertions[j].compensates)
  /\ \A j, k \in DOMAIN assertions :
       assertions[j].compensates # 0 /\ assertions[j].compensates = assertions[k].compensates => j = k

\* A merged entity and the one it went into are written together.
Joined(f) ==
  \A e \in DOMAIN f : f[e].state.merged # None =>
     LET t == f[e].state.merged IN t \in DOMAIN f /\ f[t].state.active /\ f[t].revision > 0
Together ==
  \A i \in DOMAIN assertions : Joined(assertions[i].before) /\ Joined(assertions[i].after)

\* Nothing leads to an entity that the undo of a current assertion would leave gone.
Gone(r) == r.revision = 0 \/ (~r.state.active /\ r.state.merged = None)
Unneeded ==
  \A i \in DOMAIN assertions : \A t \in assertions[i].affected :
     row[t].revision = assertions[i].after[t].revision /\ Gone(assertions[i].before[t]) =>
       \A e \in Entities \ assertions[i].affected : row[e].state.merged # t

IInv ==
  /\ Typed /\ Unborn /\ Proposed /\ Moderate /\ Latest /\ Traced /\ Together /\ Unneeded
  /\ HistoryTells /\ AliasesResolve

-----------------------------------------------------------------------------
\* What every correction hands to Recorded.
UndoOf(i, states) ==
  /\ i \in DOMAIN assertions /\ assertions[i].affected = DOMAIN states
  /\ \A e \in DOMAIN states :
       row[e].revision = assertions[i].after[e].revision /\ states[e] = Restored(i, e)
Proper(action, states, undone, added) ==
  /\ action \in Actions /\ added \in SUBSET Devices
  /\ undone # 0 => UndoOf(undone, states)
  /\ undone \in Nat
  /\ DOMAIN states \in SUBSET Entities /\ DOMAIN states # {} /\ states \in [DOMAIN states -> State]
  /\ \A e \in DOMAIN states :
       /\ Modest(states[e])
       /\ states[e].merged # None =>
            states[e].merged \in DOMAIN states /\ states[states[e].merged].active
       /\ row[e].state.merged # None =>
            row[e].state.merged \in DOMAIN states /\ Active(row[e].state.merged)
       /\ ~states[e].active /\ states[e].merged = None =>
            \A f \in Entities \ DOMAIN states : row[f].state.merged # e

\* What Recorded makes of the variables: n is the new assertion.
Writes(action, states, undone, added, n) ==
  /\ hypotheses' = hypotheses
  /\ \A e \in DOMAIN states : row'[e].revision = row[e].revision + 1 /\ row'[e].state = states[e]
  /\ \A e \in Entities \ DOMAIN states : row'[e] = row[e]
  /\ n = Len(assertions') /\ assertions' # assertions
  /\ n \notin DOMAIN assertions /\ DOMAIN assertions' = DOMAIN assertions \cup {n}
  /\ \A i \in DOMAIN assertions : assertions'[i] = assertions[i]
  /\ assertions'[n].affected = DOMAIN states /\ assertions'[n].compensates = undone
  /\ assertions'[n].action = action /\ assertions'[n].added = added
  /\ \A e \in DOMAIN states : assertions'[n].expected[e] = row[e].revision
  /\ assertions'[n].before = [e \in DOMAIN states |-> row[e]]
  /\ assertions'[n].after = [e \in DOMAIN states |-> row'[e]]

LEMMA Recording ==
  ASSUME Typed, NEW action, NEW states, NEW undone, NEW added,
         Proper(action, states, undone, added), Recorded(action, states, undone, added)
  PROVE  Typed' /\ \E n \in Nat : Writes(action, states, undone, added, n)
<1> PICK n : n = Len(assertions) + 1
  OBVIOUS
<1> PICK E : E = DOMAIN states
  OBVIOUS
<1>0. PICK seen \in [E -> Revisions] :
      /\ Unmoved(seen)
      /\ row' = [e \in Entities |->
                  IF e \in E THEN [f \in E |-> [revision |-> row[f].revision + 1, state |-> states[f]]][e]
                  ELSE row[e]]
      /\ assertions' = Append(assertions,
           [action |-> action, affected |-> E, expected |-> seen, before |-> [e \in E |-> row[e]],
            after |-> [e \in E |-> [revision |-> row[e].revision + 1, state |-> states[e]]],
            compensates |-> undone, added |-> added])
      /\ hypotheses' = hypotheses
  BY DEF Recorded
<1> DEFINE after == [e \in E |-> [revision |-> row[e].revision + 1, state |-> states[e]]]
           a == [action |-> action, affected |-> E, expected |-> seen,
                 before |-> [e \in E |-> row[e]], after |-> after,
                 compensates |-> undone, added |-> added]
<1>1. /\ row' = [e \in Entities |-> IF e \in E THEN after[e] ELSE row[e]]
      /\ assertions' = Append(assertions, a) /\ hypotheses' = hypotheses
  BY <1>0
<1>2. E \in SUBSET Entities /\ row \in [Entities -> Row] /\ states \in [E -> State]
  BY DEF Proper, Typed, TypeOK
<1>3. after \in [E -> Row]
  BY <1>2 DEF Row
<1>4. [e \in E |-> row[e]] \in [E -> Row]
  BY <1>2
<1>5. seen \in [E -> Nat] /\ a \in Assertion(E)
  <2>1. \A e \in E : seen[e] = row[e].revision /\ row[e].revision \in Nat
    BY <1>0, <1>2 DEF Unmoved, Row
  <2>2. seen \in [E -> Nat]
    BY <2>1
  <2> QED BY <1>3, <1>4, <2>2 DEF Proper, Assertion
<1>6. a \in AnyAssertion
  BY <1>2, <1>5 DEF AnyAssertion
<1>7. row' \in [Entities -> Row]
  BY <1>1, <1>2, <1>3
<1>8. assertions \in Seq(AnyAssertion) /\ Len(assertions) \in Nat
  BY DEF Typed
<1> HIDE DEF a, after
<1>9. /\ assertions' \in Seq(AnyAssertion) /\ Len(assertions') = n /\ assertions'[n] = a
      /\ \A i \in 1 .. Len(assertions) : assertions'[i] = assertions[i]
  <2>1. assertions' \in Seq(AnyAssertion) /\ Len(assertions') = n
    BY <1>1, <1>6, <1>8
  <2>2. assertions'[n] = a
    BY <1>1, <1>6, <1>8
  <2>3. ASSUME NEW i \in 1 .. Len(assertions) PROVE assertions'[i] = assertions[i]
    BY <1>1, <1>6, <1>8
  <2> QED BY <2>1, <2>2, <2>3
<1>10. n \notin DOMAIN assertions /\ DOMAIN assertions' = DOMAIN assertions \cup {n} /\ assertions' # assertions
  <2>1. DOMAIN assertions = 1 .. Len(assertions) /\ DOMAIN assertions' = 1 .. n
    BY <1>8, <1>9
  <2>2. Len(assertions') # Len(assertions)
    BY <1>8, <1>9
  <2>3. n \notin 1 .. Len(assertions) /\ 1 .. n = 1 .. Len(assertions) \cup {n}
    BY <1>8
  <2> QED BY <2>1, <2>2, <2>3
<1>11. \A i \in DOMAIN assertions' :
         assertions'[i].affected \subseteq Entities /\ assertions'[i] \in Assertion(assertions'[i].affected)
  <2>1. a.affected = E
    BY DEF a
  <2>2. assertions'[n].affected \subseteq Entities
        /\ assertions'[n] \in Assertion(assertions'[n].affected)
    BY <1>2, <1>5, <1>9, <2>1
  <2>3. ASSUME NEW i \in DOMAIN assertions
        PROVE  assertions'[i].affected \subseteq Entities
               /\ assertions'[i] \in Assertion(assertions'[i].affected)
    <3>1. assertions'[i] = assertions[i]
      BY <1>8, <1>9
    <3> QED BY <3>1 DEF Typed, TypeOK
  <2> QED BY <1>10, <2>2, <2>3
<1>12. Typed'
  BY <1>1, <1>7, <1>9, <1>11 DEF Typed, TypeOK
<1>13. \A e \in E : row'[e] = after[e]
  BY <1>1, <1>2
<1>14. after = [e \in E |-> row'[e]]
  BY <1>13 DEF after
<1>15. \A e \in Entities \ E : row'[e] = row[e]
  BY <1>1
<1>16. \A e \in E : after[e].revision = row[e].revision + 1 /\ after[e].state = states[e]
  BY DEF after
<1>17. /\ a.affected = E /\ a.compensates = undone /\ a.before = [e \in E |-> row[e]]
       /\ a.after = after /\ a.action = action /\ a.added = added /\ a.expected = seen
  BY DEF a
<1>18. \A e \in E : row'[e].revision = row[e].revision + 1 /\ row'[e].state = states[e]
  BY <1>13, <1>16
<1>19. \A i \in DOMAIN assertions : assertions'[i] = assertions[i]
  <2>1. DOMAIN assertions = 1 .. Len(assertions)
    BY <1>8
  <2> QED BY <1>9, <2>1
<1>20. n \in Nat /\ assertions'[n] = a /\ n = Len(assertions')
  BY <1>8, <1>9
<1>21. Writes(action, states, undone, added, n)
  <2>1. hypotheses' = hypotheses
    BY <1>1
  <2>2. /\ assertions'[n].affected = E /\ assertions'[n].compensates = undone
        /\ assertions'[n].action = action /\ assertions'[n].added = added
    BY <1>17, <1>20
  <2>3. assertions'[n].before = [e \in E |-> row[e]]
    BY <1>17, <1>20
  <2>4. assertions'[n].after = [e \in E |-> row'[e]]
    BY <1>14, <1>17, <1>20
  <2>5. \A e \in E : assertions'[n].expected[e] = row[e].revision
    BY <1>0, <1>17, <1>20 DEF Unmoved
  <2> QED BY <2>1, <2>2, <2>3, <2>4, <2>5, <1>10, <1>15, <1>18, <1>19, <1>20 DEF Writes
<1> QED BY <1>12, <1>20, <1>21

-----------------------------------------------------------------------------
\* The revisions of an entity, by its assertions and its hypotheses, and what their authors saw.
Affecting(e) == {i \in DOMAIN assertions : e \in assertions[i].affected}
About(e) == {h \in hypotheses : h.entity = e}
Asserted(e) == {assertions[i].after[e].revision : i \in Affecting(e)}
Guessed(e) == {h.revision : h \in About(e)}
Foreseen(e) ==
  /\ \A i \in Affecting(e) : assertions[i].expected[e] = assertions[i].before[e].revision
  /\ \A h \in About(e) : h.expected + 1 = h.revision
Told(e) ==
  /\ Asserted(e) \cup Guessed(e) = 1 .. row[e].revision
  /\ Cardinality(Affecting(e)) + Cardinality(About(e)) = row[e].revision
  /\ Foreseen(e)

LEMMA Telling == HistoryTells <=> \A e \in Entities : Told(e)
BY DEF HistoryTells, Told, Foreseen, Asserted, Guessed, Affecting, About

LEMMA TellingNext == HistoryTells' <=> \A e \in Entities : Told(e)'
BY DEF HistoryTells, Told, Foreseen, Asserted, Guessed, Affecting, About

LEMMA Counted ==
  ASSUME Typed, NEW e
  PROVE  /\ IsFiniteSet(Affecting(e)) /\ Cardinality(Affecting(e)) \in Nat
         /\ IsFiniteSet(About(e)) /\ Cardinality(About(e)) \in Nat
<1>1. IsFiniteSet(1 .. Len(assertions)) /\ DOMAIN assertions = 1 .. Len(assertions)
  BY FS_Interval DEF Typed
<1>2. IsFiniteSet(Affecting(e)) /\ IsFiniteSet(About(e))
  BY <1>1, FS_Subset DEF Typed, Affecting, About
<1> QED BY <1>2, FS_CardinalityType

LEMMA RecordedTells ==
  ASSUME Typed, HistoryTells, NEW action, NEW states, NEW undone, NEW added,
         Proper(action, states, undone, added), Recorded(action, states, undone, added)
  PROVE  HistoryTells'
<1> PICK E : E = DOMAIN states
  OBVIOUS
<1>0. PICK n \in Nat : Writes(action, states, undone, added, n)
  BY Recording
<1>1. /\ hypotheses' = hypotheses
      /\ \A e \in E : row'[e].revision = row[e].revision + 1 /\ row'[e].state = states[e]
      /\ \A e \in Entities \ E : row'[e] = row[e]
      /\ n \notin DOMAIN assertions /\ DOMAIN assertions' = DOMAIN assertions \cup {n}
      /\ \A i \in DOMAIN assertions : assertions'[i] = assertions[i]
      /\ assertions'[n].affected = E /\ assertions'[n].after = [e \in E |-> row'[e]]
      /\ assertions'[n].before = [e \in E |-> row[e]]
      /\ \A e \in E : assertions'[n].expected[e] = row[e].revision
  BY <1>0 DEF Writes
<1>2. ASSUME NEW e \in E, e \in Entities PROVE Told(e)'
  <2>1. Affecting(e)' = Affecting(e) \cup {n} /\ n \notin Affecting(e) /\ About(e)' = About(e)
    BY <1>1, <1>2 DEF Affecting, About
  <2>2. \A i \in Affecting(e) : assertions'[i] = assertions[i]
    BY <1>1 DEF Affecting
  <2>3. PICK r \in Nat : r = row[e].revision
    BY <1>2 DEF Typed, TypeOK, Row
  <2>4. row'[e].revision = r + 1 /\ assertions'[n].after[e].revision = r + 1
    BY <1>1, <1>2, <2>3
  <2>5. Asserted(e)' = Asserted(e) \cup {r + 1}
    <3> DEFINE R(i) == assertions'[i].after[e].revision
    <3>1. Asserted(e)' = {R(i) : i \in Affecting(e) \cup {n}}
      BY <2>1 DEF Asserted
    <3>2. Asserted(e) = {R(i) : i \in Affecting(e)}
      BY <2>2 DEF Asserted
    <3>3. R(n) = r + 1
      BY <2>4
    <3> HIDE DEF R
    <3> QED BY <3>1, <3>2, <3>3
  <2>6. Guessed(e)' = Guessed(e)
    BY <2>1 DEF Guessed
  <2>7. Told(e)
    BY <1>2, Telling
  <2>8. 1 .. r \cup {r + 1} = 1 .. (r + 1)
    OBVIOUS
  <2>9. Asserted(e)' \cup Guessed(e)' = 1 .. row'[e].revision
    BY <2>3, <2>4, <2>5, <2>6, <2>7, <2>8 DEF Told
  <2>10. Cardinality(Affecting(e)') = Cardinality(Affecting(e)) + 1
    BY <2>1, Counted, FS_AddElement
  <2>11. Cardinality(Affecting(e)') + Cardinality(About(e)') = row'[e].revision
    BY <2>1, <2>3, <2>4, <2>7, <2>10, Counted DEF Told
  <2>12. assertions'[n].expected[e] = assertions'[n].before[e].revision
    BY <1>1, <1>2
  <2>13. Foreseen(e)'
    BY <2>1, <2>2, <2>7, <2>12 DEF Told, Foreseen
  <2> QED BY <2>9, <2>11, <2>13 DEF Told
<1>3. ASSUME NEW e \in Entities \ E PROVE Told(e)'
  <2>1. Affecting(e)' = Affecting(e) /\ About(e)' = About(e) /\ row'[e] = row[e]
    BY <1>1, <1>3 DEF Affecting, About
  <2>2. \A i \in Affecting(e) : assertions'[i] = assertions[i]
    BY <1>1 DEF Affecting
  <2>3. Asserted(e)' = Asserted(e) /\ Guessed(e)' = Guessed(e)
    BY <2>1, <2>2 DEF Asserted, Guessed
  <2>4. Told(e)
    BY <1>3, Telling
  <2>5. Foreseen(e)'
    BY <2>1, <2>2, <2>4 DEF Told, Foreseen
  <2> QED BY <2>1, <2>3, <2>4, <2>5 DEF Told
<1> QED BY <1>2, <1>3, TellingNext

-----------------------------------------------------------------------------
\* Merges, and the undos that bring them back, keep every identifier resolvable.
LEMMA RecordedResolves ==
  ASSUME Typed, AliasesResolve, NEW action, NEW states, NEW undone, NEW added,
         Proper(action, states, undone, added), Recorded(action, states, undone, added)
  PROVE  AliasesResolve'
<1> PICK E : E = DOMAIN states
  OBVIOUS
<1>0. PICK n \in Nat : Writes(action, states, undone, added, n)
  BY Recording
<1>1. /\ \A e \in E : row'[e].revision = row[e].revision + 1 /\ row'[e].state = states[e]
      /\ \A e \in Entities \ E : row'[e] = row[e]
  BY <1>0 DEF Writes
<1>2. E \subseteq Entities /\ \A e \in E : row[e].revision \in Nat /\ states[e] \in State
  BY DEF Proper, Typed, TypeOK, Row
<1>3. ASSUME NEW e \in E, states[e].merged # None
      PROVE  LET t == states[e].merged IN t \in E /\ states[t].active /\ states[t].merged = None
  BY <1>2, <1>3 DEF Proper, State
<1>4. \A e \in E : Exists(e)' /\ row'[e].state = states[e]
  BY <1>1, <1>2 DEF Exists
<1>5. ASSUME NEW e \in Entities, row'[e].state.merged # None, NEW t, t = row'[e].state.merged
      PROVE  Exists(t)' /\ (Active(t)' \/ row'[t].state.merged # None)
  <2>1. CASE e \in E
    BY <1>3, <1>4, <1>5, <2>1 DEF Active
  <2>2. CASE e \notin E
    <3>1. row[e].state.merged = t /\ Exists(t) /\ (Active(t) \/ row[t].state.merged # None)
      BY <1>1, <1>5, <2>2 DEF AliasesResolve
    <3>2. CASE t \in E
      <4>1. states[t].active \/ states[t].merged # None
        BY <1>5, <2>2, <3>1, <3>2 DEF Proper
      <4> QED BY <1>4, <3>2, <4>1 DEF Active
    <3>3. CASE t \notin E
      <4>1. t \in Entities
        BY <1>5, <3>1 DEF Typed, TypeOK, Row, State
      <4> QED BY <1>1, <3>1, <3>3, <4>1 DEF Exists, Active
    <3> QED BY <3>2, <3>3
  <2> QED BY <2>1, <2>2
<1>6. ASSUME NEW S \in SUBSET Entities, S # {} PROVE \E e \in S : row'[e].state.merged \notin S
  <2>1. CASE S \cap E = {}
    <3>1. PICK e \in S : row[e].state.merged \notin S
      BY <1>6 DEF AliasesResolve
    <3> QED BY <1>1, <2>1, <3>1
  <2>2. ASSUME NEW e \in S \cap E, row'[e].state.merged \in S PROVE \E f \in S : row'[f].state.merged \notin S
    <3>1. states[e].merged \in S /\ None \notin S
      BY <1>4, <2>2, WorkbenchConstants
    <3>2. PICK t \in S \cap E : states[t].merged = None
      BY <1>3, <3>1
    <3> QED BY <1>4, <3>1, <3>2
  <2> QED BY <1>6, <2>1, <2>2
<1> QED BY <1>5, <1>6 DEF AliasesResolve

-----------------------------------------------------------------------------
\* The rest of the invariant, after a correction.
LEMMA RecordedInv ==
  ASSUME IInv, NEW action, NEW states, NEW undone, NEW added,
         Proper(action, states, undone, added), Recorded(action, states, undone, added)
  PROVE  IInv'
<1> PICK E : E = DOMAIN states
  OBVIOUS
<1>0. PICK n \in Nat : Writes(action, states, undone, added, n)
  BY Recording DEF IInv
<1>1. /\ hypotheses' = hypotheses
      /\ \A e \in E : row'[e].revision = row[e].revision + 1 /\ row'[e].state = states[e]
      /\ \A e \in Entities \ E : row'[e] = row[e]
      /\ n \notin DOMAIN assertions /\ DOMAIN assertions' = DOMAIN assertions \cup {n}
      /\ \A i \in DOMAIN assertions : assertions'[i] = assertions[i]
      /\ assertions'[n].affected = E /\ assertions'[n].compensates = undone
      /\ assertions'[n].before = [e \in E |-> row[e]]
      /\ assertions'[n].after = [e \in E |-> row'[e]]
  BY <1>0 DEF Writes
<1>2. Typed' /\ HistoryTells' /\ AliasesResolve'
  BY Recording, RecordedTells, RecordedResolves DEF IInv
<1>3. E \subseteq Entities /\ E # {} /\ \A e \in Entities : row[e].revision \in Nat
  BY DEF Proper, IInv, Typed, TypeOK, Row
<1>4. \A e \in E : assertions'[n].before[e] = row[e] /\ assertions'[n].after[e] = row'[e]
  BY <1>1
<1>5. \A e \in Entities : row'[e].revision \in Nat /\ row[e].revision <= row'[e].revision
  BY <1>1, <1>3
<1>6. \A i \in DOMAIN assertions : assertions[i].affected \subseteq Entities
  BY DEF IInv, Typed, TypeOK
<1>7. \A i \in DOMAIN assertions : \A e \in assertions[i].affected :
        assertions[i].after[e].revision \in Nat
  BY DEF IInv, Typed, TypeOK, Assertion, Row
<1>8. Unborn'
  BY <1>1, <1>3 DEF IInv, Unborn, Exists
<1>9. Proposed'
  <2>1. \A h \in hypotheses : h.entity \in Entities /\ h.revision \in Nat
    BY DEF IInv, Typed, TypeOK, Hypothesis
  <2> QED BY <1>1, <1>3, <1>5, <2>1 DEF IInv, Proposed
<1>10. Moderate'
  <2>1. ASSUME NEW e \in Entities PROVE Modest(row'[e].state)
    <3>1. CASE e \in E
      BY <1>1, <3>1 DEF Proper
    <3>2. CASE e \notin E
      BY <1>1, <3>2 DEF IInv, Moderate
    <3> QED BY <3>1, <3>2
  <2>2. \A e \in E : Modest(assertions'[n].before[e].state)
    BY <1>3, <1>4 DEF IInv, Moderate
  <2> QED BY <1>1, <2>1, <2>2 DEF IInv, Moderate, Modest
<1>11. Latest'
  <2>1. ASSUME NEW i \in DOMAIN assertions, NEW e \in assertions[i].affected
        PROVE  /\ 0 < assertions[i].after[e].revision /\ assertions[i].after[e].revision <= row'[e].revision
               /\ assertions[i].after[e].revision = row'[e].revision => row'[e] = assertions[i].after[e]
    <3>1. /\ 0 < assertions[i].after[e].revision /\ assertions[i].after[e].revision <= row[e].revision
          /\ assertions[i].after[e].revision = row[e].revision => row[e] = assertions[i].after[e]
      BY DEF IInv, Latest
    <3>2. CASE e \in E
      BY <1>1, <1>3, <1>7, <3>1, <3>2
    <3>3. CASE e \notin E
      BY <1>1, <1>6, <3>1, <3>3
    <3> QED BY <3>2, <3>3
  <2>2. \A e \in E : 0 < row'[e].revision
    BY <1>1, <1>3
  <2> QED BY <1>1, <1>3, <1>4, <1>5, <2>1, <2>2 DEF Latest
<1>12. Traced'
  <2>1. undone # 0 => UndoOf(undone, states)
    BY DEF Proper
  <2>2. ASSUME undone # 0 PROVE Undoes(n, undone)'
    <3>1. /\ undone \in DOMAIN assertions /\ assertions[undone].affected = E
          /\ \A e \in E : row[e].revision = assertions[undone].after[e].revision
                          /\ states[e] = Restored(undone, e)
      BY <2>1, <2>2 DEF UndoOf
    <3>2. assertions'[undone] = assertions[undone]
      BY <1>1, <3>1
    <3>3. ASSUME NEW e \in E
          PROVE  /\ assertions'[n].before[e] = assertions[undone].after[e]
                 /\ assertions'[n].after[e].revision > assertions[undone].after[e].revision
                 /\ assertions'[n].after[e].state = Restored(undone, e)
      <4>1. row[e] = assertions[undone].after[e]
        BY <3>1 DEF IInv, Latest
      <4> QED BY <1>1, <1>3, <1>4, <3>1, <4>1
    <3>4. \A e \in E : Restored(undone, e)' = Restored(undone, e)
      BY <3>2 DEF Restored
    <3> QED BY <1>1, <3>1, <3>2, <3>3, <3>4 DEF Undoes
  <2>3. ASSUME NEW j \in DOMAIN assertions, assertions[j].compensates # 0
        PROVE  Undoes(j, assertions[j].compensates)'
    <3>1. PICK i : i = assertions[j].compensates
      OBVIOUS
    <3>2. Undoes(j, i) /\ i \in DOMAIN assertions
      BY <2>3, <3>1 DEF IInv, Traced, Undoes
    <3>3. assertions'[i] = assertions[i] /\ assertions'[j] = assertions[j]
      BY <1>1, <3>2
    <3>4. i \in DOMAIN assertions'
      BY <1>1, <3>2
    <3> QED BY <3>1, <3>2, <3>3, <3>4 DEF Undoes, Restored
  <2>4. ASSUME undone # 0, NEW j \in DOMAIN assertions PROVE assertions[j].compensates # undone
    <3> SUFFICES ASSUME assertions[j].compensates = undone PROVE FALSE
      OBVIOUS
    <3>1. Undoes(j, undone) /\ assertions[j].affected # {}
      BY <2>4 DEF IInv, Traced
    <3>2. assertions[undone].affected = E /\ \A e \in E : row[e].revision = assertions[undone].after[e].revision
      BY <2>1, <2>4 DEF UndoOf
    <3>3. PICK e \in E : assertions[j].after[e].revision > row[e].revision /\ e \in assertions[j].affected
      BY <3>1, <3>2 DEF Undoes
    <3>4. assertions[j].after[e].revision <= row[e].revision
      BY <3>3 DEF IInv, Latest
    <3> QED BY <1>3, <1>7, <3>3, <3>4
  <2>5. \A j \in DOMAIN assertions' : assertions'[j].affected # {}
    BY <1>1, <1>3 DEF IInv, Traced
  <2>6. \A j \in DOMAIN assertions' : assertions'[j].compensates # 0 => Undoes(j, assertions[j].compensates)'
    <3>1. ASSUME NEW j \in DOMAIN assertions' PROVE assertions'[j].compensates # 0 => Undoes(j, assertions[j].compensates)'
      <4>1. CASE j = n
        BY <1>1, <2>2, <4>1 DEF Undoes
      <4>2. CASE j # n
        BY <1>1, <2>3, <4>2
      <4> QED BY <4>1, <4>2
    <3> QED BY <3>1
  <2>7. ASSUME NEW j \in DOMAIN assertions', NEW k \in DOMAIN assertions',
               assertions'[j].compensates # 0, assertions'[j].compensates = assertions'[k].compensates
        PROVE  j = k
    <3>1. CASE j # n /\ k # n
      BY <1>1, <2>7, <3>1 DEF IInv, Traced
    <3>2. CASE j = n \/ k = n
      BY <1>1, <2>4, <2>7, <3>2
    <3> QED BY <3>1, <3>2
  <2> QED BY <2>5, <2>6, <2>7 DEF Traced
<1>13. Together'
  <2>1. ASSUME NEW e \in E, row[e].state.merged # None, NEW t, t = row[e].state.merged
        PROVE  t \in E /\ row[t].state.active /\ row[t].revision > 0
    BY <2>1 DEF Proper, Active, Exists
  <2>2. ASSUME NEW e \in E, row'[e].state.merged # None, NEW t, t = row'[e].state.merged
        PROVE  t \in E /\ row'[t].state.active /\ row'[t].revision > 0
    <3>1. t \in E /\ states[t].active
      BY <1>1, <2>2 DEF Proper
    <3> QED BY <1>1, <1>3, <3>1
  <2>3. Joined(assertions'[n].before)
    BY <1>1, <1>4, <2>1 DEF Joined
  <2>4. Joined(assertions'[n].after)
    BY <1>1, <1>4, <2>2 DEF Joined
  <2>5. \A i \in DOMAIN assertions : Joined(assertions'[i].before) /\ Joined(assertions'[i].after)
    BY <1>1 DEF IInv, Together
  <2>6. \A i \in DOMAIN assertions' : Joined(assertions'[i].before) /\ Joined(assertions'[i].after)
    BY <1>1, <2>3, <2>4, <2>5
  <2> QED BY <2>6 DEF Together, Joined
<1>14. Unneeded'
  <2>1. ASSUME NEW i \in DOMAIN assertions, NEW t \in assertions[i].affected,
               row'[t].revision = assertions[i].after[t].revision, Gone(assertions[i].before[t]),
               NEW e \in Entities \ assertions[i].affected, row'[e].state.merged = t
        PROVE  FALSE
    <3>1. t \notin E
      BY <1>1, <1>3, <1>7, <2>1 DEF IInv, Latest
    <3>2. row'[t] = row[t]
      BY <1>1, <1>6, <3>1
    <3>3. CASE e \in E
      <4>1. states[e].merged = t /\ t # None
        BY <1>1, <1>6, <2>1, <3>3, WorkbenchConstants
      <4> QED BY <3>1, <3>3, <4>1 DEF Proper
    <3>4. CASE e \notin E
      BY <1>1, <2>1, <3>2, <3>4 DEF IInv, Unneeded
    <3> QED BY <3>3, <3>4
  <2>2. ASSUME NEW t \in E, Gone(row[t]), NEW e \in Entities \ E, row'[e].state.merged = t
        PROVE  FALSE
    <3>1. row[e].state.merged = t /\ t # None
      BY <1>1, <1>3, <2>2, WorkbenchConstants
    <3>2. Exists(t) /\ (Active(t) \/ row[t].state.merged # None)
      BY <3>1 DEF IInv, AliasesResolve
    <3> QED BY <2>2, <3>2 DEF Gone, Exists, Active
  <2>3. ASSUME NEW i \in DOMAIN assertions', NEW t \in assertions'[i].affected,
               row'[t].revision = assertions'[i].after[t].revision, Gone(assertions'[i].before[t]),
               NEW e \in Entities \ assertions'[i].affected
        PROVE  row'[e].state.merged # t
    <3>1. CASE i = n
      BY <1>1, <1>4, <2>2, <2>3, <3>1
    <3>2. CASE i # n
      BY <1>1, <2>1, <2>3, <3>2
    <3> QED BY <3>1, <3>2
  <2> QED BY <2>3 DEF Unneeded, Gone
<1> QED BY <1>2, <1>8, <1>9, <1>10, <1>11, <1>12, <1>13, <1>14 DEF IInv

-----------------------------------------------------------------------------
\* The model's devices are those of one hypothesis, and nobody's are too many.
LEMMA MachineSmall ==
  ASSUME IInv, NEW e \in Entities
  PROVE  Machine(e) \in SUBSET Devices /\ Small(Cardinality(Machine(e)))
<1> DEFINE latest == {g \in hypotheses : g.entity = e /\
                        \A f \in hypotheses : f.entity = e => f.revision <= g.revision}
<1>1. Machine(e) = UNION {h.devices : h \in latest}
  BY DEF Machine
<1>2. \A h \in hypotheses : h.revision \in Nat /\ h.devices \in SUBSET Devices
  BY DEF IInv, Typed, TypeOK, Hypothesis
<1>3. CASE latest = {}
  <2>1. Machine(e) = {}
    BY <1>1, <1>3
  <2>2. Cardinality({}) = 0
    BY FS_EmptySet
  <2> QED BY <2>1, <2>2, WorkbenchConstants DEF Small
<1>4. ASSUME NEW h \in latest PROVE Machine(e) \in SUBSET Devices /\ Small(Cardinality(Machine(e)))
  <2>1. ASSUME NEW g \in latest PROVE g = h
    <3>1. g.revision <= h.revision /\ h.revision <= g.revision
      OBVIOUS
    <3>2. g.revision = h.revision
      BY <1>2, <3>1
    <3> QED BY <3>2 DEF IInv, Proposed
  <2>2. Machine(e) = h.devices
    BY <1>1, <2>1
  <2> QED BY <1>2, <2>2 DEF IInv, Proposed
<1> QED BY <1>3, <1>4

\* Fewer devices than few are few.
LEMMA SmallSubset ==
  ASSUME NEW D \in SUBSET Devices, Small(Cardinality(D)), NEW S \in SUBSET D
  PROVE  Small(Cardinality(S))
<1>1. IsFiniteSet(D)
  BY FS_Subset, WorkbenchConstants
<1>2. Cardinality(S) <= Cardinality(D) /\ IsFiniteSet(S)
  BY <1>1, FS_Subset
<1>3. Cardinality(S) \in Nat /\ Cardinality(D) \in Nat
  BY <1>1, <1>2, FS_CardinalityType
<1> QED BY <1>2, <1>3, WorkbenchConstants DEF Small

LEMMA MembersSmall ==
  ASSUME IInv, NEW e \in Entities
  PROVE  /\ Members(e) \in SUBSET Devices /\ Small(Cardinality(Members(e)))
         /\ Members(e) \cap row[e].state.rejected = {}
<1> DEFINE s == row[e].state
           D == IF s.override # None THEN s.override ELSE Machine(e)
<1>1. s \in State
  BY DEF IInv, Typed, TypeOK, Row
<1>2. s.override \in {None} \cup SUBSET Devices
  BY <1>1 DEF State
<1>3. D \in SUBSET Devices /\ Small(Cardinality(D))
  BY <1>2, MachineSmall DEF IInv, Moderate, Modest
<1>4. Members(e) = IF s.active THEN D \ s.rejected ELSE {}
  BY DEF Members, Effective
<1>5. Members(e) \in SUBSET D /\ Members(e) \cap s.rejected = {}
  BY <1>4
<1> HIDE DEF D
<1> QED BY <1>3, <1>5, SmallSubset

-----------------------------------------------------------------------------
\* An entity a correction may start from.
Open(e) == Active(e) \/ ~Exists(e)

LEMMA OpenState ==
  ASSUME IInv, NEW e \in Entities, Open(e)
  PROVE  /\ row[e].state \in State /\ row[e].state.active /\ row[e].state.merged = None
         /\ row[e].state.rejected \in SUBSET Devices /\ Small(Cardinality(row[e].state.rejected))
         /\ row[e].state.override \in {None} \cup SUBSET Devices
         /\ Reviewed(e) \in State /\ Modest(Reviewed(e))
<1> DEFINE s == row[e].state
<1>1. s \in State /\ Modest(s)
  BY DEF IInv, Typed, TypeOK, Row, Moderate
<1>2. s.active
  BY DEF Open, Active, IInv, Unborn, EmptyState
<1>3. Reviewed(e) \in State
  BY <1>1, <1>2 DEF Reviewed, State
<1>4. Reviewed(e).override = s.override /\ Reviewed(e).rejected = s.rejected
  BY <1>1 DEF Reviewed, State
<1> QED BY <1>1, <1>2, <1>3, <1>4 DEF State, Modest

\* What an operator may set an open entity to.
Setting(e, D, R) == [Reviewed(e) EXCEPT !.override = D, !.rejected = R]

LEMMA SetState ==
  ASSUME IInv, NEW e \in Entities, Open(e),
         NEW D \in {None} \cup SUBSET Devices, D # None => Small(Cardinality(D)),
         NEW R \in SUBSET Devices, Small(Cardinality(R))
  PROVE  /\ Setting(e, D, R) \in State /\ Setting(e, D, R).active /\ Setting(e, D, R).merged = None
         /\ Setting(e, D, R).override = D /\ Setting(e, D, R).rejected = R
         /\ Modest(Setting(e, D, R))
<1> DEFINE s == Setting(e, D, R)
<1>1. row[e].state \in State /\ row[e].state.active
  BY OpenState
<1>2. s \in State
  BY <1>1 DEF Setting, Reviewed, State
<1>3. s.override = D /\ s.rejected = R /\ s.active
  BY <1>1 DEF Setting, Reviewed, State
<1> HIDE DEF s
<1>4. s.merged = None /\ Modest(s)
  BY <1>2, <1>3 DEF State, Modest
<1> QED BY <1>2, <1>3, <1>4 DEF s

LEMMA ProperOne ==
  ASSUME IInv, NEW e \in Entities, Open(e), NEW action \in Actions, NEW added \in SUBSET Devices,
         NEW s \in State, s.active, s.merged = None, Modest(s)
  PROVE  Proper(action, One(e, s), 0, added)
<1> DEFINE states == One(e, s)
<1>1. DOMAIN states = {e} /\ states[e] = s /\ states \in [{e} -> State]
  BY DEF One
<1>2. row[e].state.merged = None
  BY OpenState
<1> HIDE DEF states
<1>3. Proper(action, states, 0, added)
  BY <1>1, <1>2 DEF Proper
<1> QED BY <1>3 DEF states

LEMMA ProperTwo ==
  ASSUME IInv, NEW e \in Entities, NEW f \in Entities, e # f, Open(e), Open(f), NEW action \in Actions,
         NEW s \in State, s.active, s.merged = None, Modest(s),
         NEW t \in State, t.active \/ t.merged = e, t.merged \in {None, e}, Modest(t)
  PROVE  Proper(action, Two(e, s, f, t), 0, {})
<1> DEFINE states == Two(e, s, f, t)
<1>1. DOMAIN states = {e, f} /\ states[e] = s /\ states[f] = t /\ states \in [{e, f} -> State]
  BY DEF Two
<1>2. row[e].state.merged = None /\ row[f].state.merged = None
  BY OpenState
<1>3. None # e
  BY WorkbenchConstants
<1> HIDE DEF states
<1>4. Proper(action, states, 0, {})
  BY <1>1, <1>2, <1>3 DEF Proper
<1> QED BY <1>4 DEF states

-----------------------------------------------------------------------------
LEMMA CreateProper ==
  ASSUME IInv, NEW e \in Entities, NEW D \in SUBSET Devices, Create(e, D)
  PROVE  Proper("create", One(e, [Reviewed(e) EXCEPT !.override = D]), 0, D)
<1> PICK s : s = [Reviewed(e) EXCEPT !.override = D]
  OBVIOUS
<1>1. Open(e) /\ Small(Cardinality(D))
  BY DEF Create, Open
<1>2. row[e].state \in State
  BY <1>1, OpenState
<1>3. s = Setting(e, D, row[e].state.rejected)
  BY <1>2 DEF Setting, Reviewed, State
<1>4. s \in State /\ s.active /\ s.merged = None /\ Modest(s)
  <2> PICK R : R = row[e].state.rejected
    OBVIOUS
  <2>1. R \in SUBSET Devices /\ Small(Cardinality(R)) /\ s = Setting(e, D, R)
    BY <1>1, <1>3, OpenState
  <2>2. D \in {None} \cup SUBSET Devices
    OBVIOUS
  <2>3. /\ Setting(e, D, R) \in State /\ Setting(e, D, R).active
        /\ Setting(e, D, R).merged = None /\ Modest(Setting(e, D, R))
    BY <1>1, <2>1, <2>2, SetState
  <2> QED BY <2>1, <2>3
<1> QED BY <1>1, <1>4, ProperOne DEF Actions

LEMMA LabelProper ==
  ASSUME IInv, NEW e \in Entities, Label(e)
  PROVE  Proper("label", One(e, Reviewed(e)), 0, {})
<1>1. Open(e)
  BY DEF Label, Open
<1>2. Reviewed(e) \in State /\ Modest(Reviewed(e)) /\ row[e].state \in State /\ row[e].state.active
  BY <1>1, OpenState
<1>3. Reviewed(e).active /\ Reviewed(e).merged = None
  BY <1>2 DEF Reviewed, State
<1> QED BY <1>1, <1>2, <1>3, ProperOne DEF Actions

LEMMA MembershipProper ==
  ASSUME IInv, NEW e \in Entities, NEW add \in SUBSET Devices, NEW remove \in SUBSET Devices,
         Membership(e, add, remove),
         NEW rejected, rejected = (row[e].state.rejected \cup remove) \ add
  PROVE  Proper("membership", One(e, [Reviewed(e) EXCEPT !.override = (Members(e) \ remove) \cup add,
                                                         !.rejected = rejected]), 0, add)
<1> PICK D : D = (Members(e) \ remove) \cup add
  OBVIOUS
<1> PICK s : s = [Reviewed(e) EXCEPT !.override = D, !.rejected = rejected]
  OBVIOUS
<1>1. Open(e) /\ Small(Cardinality(rejected))
  BY DEF Membership, Open
<1>2. Small(Cardinality(Members(e) \ remove) + Cardinality(add)) /\ Members(e) \in SUBSET Devices
  BY MembersSmall DEF Membership
<1>3. Small(Cardinality(D))
  <2> DEFINE M == Members(e) \ remove
  <2>1. IsFiniteSet(M) /\ IsFiniteSet(add) /\ IsFiniteSet(M \cap add)
    BY <1>2, FS_Subset, WorkbenchConstants
  <2>2. Cardinality(M \cup add) = Cardinality(M) + Cardinality(add) - Cardinality(M \cap add)
    BY <2>1, FS_Union
  <2>3. Cardinality(M) \in Nat /\ Cardinality(add) \in Nat /\ Cardinality(M \cap add) \in Nat
    BY <2>1, FS_CardinalityType
  <2>4. Small(Cardinality(M) + Cardinality(add))
    BY <1>2
  <2> HIDE DEF M
  <2>5. Small(Cardinality(M \cup add))
    BY <2>2, <2>3, <2>4, WorkbenchConstants DEF Small
  <2> QED BY <2>5 DEF M
<1>4. rejected \in SUBSET Devices /\ D \in SUBSET Devices
  BY <1>1, <1>2, OpenState
<1>5. s \in State /\ s.active /\ s.merged = None /\ Modest(s)
  <2>1. s = Setting(e, D, rejected)
    BY DEF Setting
  <2>2. D \in {None} \cup SUBSET Devices
    BY <1>4
  <2>3. /\ Setting(e, D, rejected) \in State /\ Setting(e, D, rejected).active
        /\ Setting(e, D, rejected).merged = None /\ Modest(Setting(e, D, rejected))
    BY <1>1, <1>3, <1>4, <2>2, SetState
  <2> QED BY <2>1, <2>3
<1>6. Proper("membership", One(e, s), 0, add)
  BY <1>1, <1>5, ProperOne DEF Actions
<1> QED BY <1>6

LEMMA RejectProper ==
  ASSUME IInv, NEW e \in Entities, NEW D \in SUBSET Devices, Reject(e, D)
  PROVE  Proper("reject", One(e, [Reviewed(e) EXCEPT !.rejected = @ \cup D]), 0, {})
<1> PICK s : s = [Reviewed(e) EXCEPT !.rejected = @ \cup D]
  OBVIOUS
<1> PICK o : o = row[e].state
  OBVIOUS
<1>1. Open(e) /\ Small(Cardinality(o.rejected \cup D))
  BY DEF Reject, Open
<1>2. o \in State /\ Modest(o)
  BY <1>1, OpenState DEF IInv, Moderate
<1>3. s = Setting(e, o.override, o.rejected \cup D)
  BY <1>2 DEF Setting, Reviewed, State
<1>4. o.override \in {None} \cup SUBSET Devices /\ o.rejected \cup D \in SUBSET Devices
  BY <1>2 DEF State
<1>5. s \in State /\ s.active /\ s.merged = None /\ Modest(s)
  <2> PICK R : R = o.rejected \cup D
    OBVIOUS
  <2>1. /\ Setting(e, o.override, R) \in State /\ Setting(e, o.override, R).active
        /\ Setting(e, o.override, R).merged = None /\ Modest(Setting(e, o.override, R))
    <3>1. o.override # None => Small(Cardinality(o.override))
      BY <1>2 DEF Modest
    <3> QED BY <1>1, <1>4, <3>1, SetState
  <2> QED BY <1>3, <2>1
<1>6. Proper("reject", One(e, s), 0, {})
  BY <1>1, <1>5, ProperOne DEF Actions
<1> QED BY <1>6

LEMMA SplitProper ==
  ASSUME IInv, NEW e \in Entities, NEW new \in Entities, NEW D \in SUBSET Devices, Split(e, new, D)
  PROVE  Proper("split", Two(e, [Reviewed(e) EXCEPT !.override = Members(e) \ D],
                             new, [Reviewed(new) EXCEPT !.override = D]), 0, {})
<1> PICK s : s = [Reviewed(e) EXCEPT !.override = Members(e) \ D]
  OBVIOUS
<1> PICK t : t = [Reviewed(new) EXCEPT !.override = D]
  OBVIOUS
<1> PICK K : K = Members(e) \ D
  OBVIOUS
<1>1. /\ Open(e) /\ Open(new) /\ e # new
      /\ Small(Cardinality(K)) /\ Small(Cardinality(D))
  BY DEF Split, Open
<1>2. K \in {None} \cup SUBSET Devices /\ D \in {None} \cup SUBSET Devices
  BY MembersSmall
<1>3. row[e].state \in State /\ row[new].state \in State
  BY <1>1, OpenState
<1>4. s = Setting(e, K, row[e].state.rejected) /\ t = Setting(new, D, row[new].state.rejected)
  BY <1>3 DEF Setting, Reviewed, State
<1>5. s \in State /\ s.active /\ s.merged = None /\ Modest(s)
  <2> PICK R : R = row[e].state.rejected
    OBVIOUS
  <2>1. R \in SUBSET Devices /\ Small(Cardinality(R))
    BY <1>1, OpenState
  <2>2. /\ Setting(e, K, R) \in State /\ Setting(e, K, R).active
        /\ Setting(e, K, R).merged = None /\ Modest(Setting(e, K, R))
    BY <1>1, <1>2, <2>1, SetState
  <2> QED BY <1>4, <2>2
<1>6. t \in State /\ t.active /\ t.merged = None /\ Modest(t)
  <2> PICK R : R = row[new].state.rejected
    OBVIOUS
  <2>1. R \in SUBSET Devices /\ Small(Cardinality(R))
    BY <1>1, OpenState
  <2>2. /\ Setting(new, D, R) \in State /\ Setting(new, D, R).active
        /\ Setting(new, D, R).merged = None /\ Modest(Setting(new, D, R))
    BY <1>1, <1>2, <2>1, SetState
  <2> QED BY <1>4, <2>2
<1>7. Proper("split", Two(e, s, new, t), 0, {})
  BY <1>1, <1>5, <1>6, ProperTwo DEF Actions
<1> QED BY <1>7

LEMMA MergeProper ==
  ASSUME IInv, NEW e \in Entities, NEW source \in Entities, Merge(e, source),
         NEW combined, combined = Members(e) \cup Members(source),
         NEW rejected, rejected = row[e].state.rejected \cup row[source].state.rejected
  PROVE  Proper("merge", Two(e, [Reviewed(e) EXCEPT !.override = combined, !.rejected = rejected],
                             source, [row[source].state EXCEPT !.active = FALSE, !.merged = e,
                                                               !.review = "retired"]), 0, {})
<1> PICK s : s = Setting(e, combined, rejected)
  OBVIOUS
<1> PICK t : t = [row[source].state EXCEPT !.active = FALSE, !.merged = e, !.review = "retired"]
  OBVIOUS
<1>1. /\ Open(e) /\ Open(source) /\ e # source
      /\ Small(Cardinality(combined)) /\ Small(Cardinality(rejected))
  BY DEF Merge, Open
<1>2. /\ combined \in {None} \cup SUBSET Devices /\ rejected \in SUBSET Devices
      /\ row[source].state \in State /\ Modest(row[source].state)
  BY <1>1, MembersSmall, OpenState DEF IInv, Moderate
<1>3. s \in State /\ s.active /\ s.merged = None /\ Modest(s)
  <2>1. /\ Setting(e, combined, rejected) \in State /\ Setting(e, combined, rejected).active
        /\ Setting(e, combined, rejected).merged = None /\ Modest(Setting(e, combined, rejected))
    BY <1>1, <1>2, SetState
  <2> QED BY <2>1
<1>4. t \in State /\ t.merged = e
  BY <1>2 DEF State
<1>5. Modest(t)
  BY <1>2 DEF State, Modest
<1>6. Proper("merge", Two(e, s, source, t), 0, {})
  BY <1>1, <1>3, <1>4, <1>5, ProperTwo DEF Actions
<1> QED BY <1>6 DEF Setting

LEMMA UndoProper ==
  ASSUME IInv, NEW i \in DOMAIN assertions, Undo(i),
         NEW states, states = [e \in assertions[i].affected |-> Restored(i, e)]
  PROVE  Proper("undo", states, i, {})
<1> PICK E : E = assertions[i].affected
  OBVIOUS
<1> PICK was : was = assertions[i].before
  OBVIOUS
<1>1. /\ i \in Nat /\ i # 0 /\ E \subseteq Entities /\ E # {}
      /\ was \in [E -> Row] /\ assertions[i].after \in [E -> Row]
  <2>1. assertions[i] \in Assertion(E) /\ E \subseteq Entities
    BY DEF IInv, Typed, TypeOK
  <2>2. i \in 1 .. Len(assertions)
    BY DEF IInv, Typed
  <2>3. i \in Nat /\ i # 0
    BY <2>2
  <2> QED BY <2>1, <2>3 DEF Assertion, IInv, Traced
<1>2. /\ DOMAIN states = E
      /\ \A e \in E : states[e] = IF was[e].revision = 0 THEN Retired ELSE was[e].state
  BY DEF Restored
<1>3. Retired \in State /\ Modest(Retired) /\ Retired.merged = None
  <2>1. Retired.override = None /\ Retired.rejected = {} /\ Retired.merged = None
    BY DEF Retired, EmptyState
  <2>2. Retired \in State
    BY DEF Retired, EmptyState, State
  <2>3. Small(Cardinality({}))
    BY FS_EmptySet, WorkbenchConstants DEF Small
  <2> QED BY <2>1, <2>2, <2>3 DEF Modest
<1>4. ASSUME NEW e \in E PROVE states[e] \in State /\ Modest(states[e])
  <2>1. was[e].state \in State /\ Modest(was[e].state)
    BY <1>1 DEF Row, IInv, Moderate
  <2> QED BY <1>2, <1>3, <2>1
<1>5. states \in [E -> State]
  BY <1>2, <1>4
<1>6. ASSUME NEW e \in E
      PROVE  row[e].revision = assertions[i].after[e].revision /\ row[e] = assertions[i].after[e]
  BY DEF Undo, IInv, Latest
<1>7. ASSUME NEW e \in E, states[e].merged # None
      PROVE  states[e].merged \in E /\ states[states[e].merged].active
  <2>1. was[e].revision # 0 /\ states[e] = was[e].state
    BY <1>2, <1>3, <1>7
  <2>2. PICK t : t = was[e].state.merged
    OBVIOUS
  <2>3. t \in E /\ was[t].state.active /\ was[t].revision > 0
    BY <1>1, <1>7, <2>1, <2>2 DEF IInv, Together, Joined
  <2>4. states[t] = was[t].state
    BY <1>2, <2>3
  <2> QED BY <2>1, <2>2, <2>3, <2>4
<1>8. ASSUME NEW e \in E, row[e].state.merged # None
      PROVE  row[e].state.merged \in E /\ Active(row[e].state.merged)
  <2>1. PICK t : t = row[e].state.merged
    OBVIOUS
  <2>2. t \in E /\ assertions[i].after[t].state.active /\ assertions[i].after[t].revision > 0
    BY <1>1, <1>6, <1>8, <2>1 DEF IInv, Together, Joined
  <2> QED BY <1>6, <2>1, <2>2 DEF Active, Exists
<1>9. ASSUME NEW e \in E, ~states[e].active, states[e].merged = None
      PROVE  \A f \in Entities \ E : row[f].state.merged # e
  <2>1. Gone(was[e])
    BY <1>2, <1>9 DEF Gone
  <2> QED BY <1>6, <2>1 DEF IInv, Unneeded
<1>10. UndoOf(i, states)
  BY <1>2, <1>6 DEF UndoOf
<1> QED BY <1>1, <1>2, <1>4, <1>5, <1>7, <1>8, <1>9, <1>10 DEF Proper, Actions

-----------------------------------------------------------------------------
\* A new hypothesis takes a revision and changes nothing that the operator has set.
LEMMA PublishInv ==
  ASSUME IInv, NEW e \in Entities, NEW version \in Versions, NEW D \in SUBSET Devices,
         PublishHypothesis(e, version, D)
  PROVE  IInv'
<1> PICK r : r = row[e].revision
  OBVIOUS
<1> PICK h : h = [entity |-> e, version |-> version, revision |-> r + 1, expected |-> r, devices |-> D]
  OBVIOUS
<1>1. /\ hypotheses' = hypotheses \cup {h} /\ assertions' = assertions /\ Small(Cardinality(D))
      /\ h.entity = e /\ h.revision = r + 1 /\ h.expected = r /\ h.devices = D
  BY DEF PublishHypothesis, Hypothesized, Unmoved, One
<1>2. row \in [Entities -> Row] /\ r \in Nat /\ Open(e) /\ row[e].state \in State
  BY DEF IInv, Typed, TypeOK, Row, PublishHypothesis, Hypothesized, Open
<1>3. /\ \A f \in Entities : f # e => row'[f] = row[f]
      /\ row'[e] = [[row[e] EXCEPT !.revision = @ + 1] EXCEPT
                      !.state.review = IF @ = "unreviewed" THEN @ ELSE "needs_review"]
      /\ DOMAIN row' = Entities /\ row' = [f \in Entities |-> row'[f]]
  BY <1>2 DEF PublishHypothesis, Hypothesized
<1>4. row[e].state.active /\ row[e].state.merged = None
  BY <1>2, OpenState
<1>5. /\ row'[e] \in Row /\ row'[e].revision = r + 1
      /\ row'[e].state.active = row[e].state.active /\ row'[e].state.merged = row[e].state.merged
      /\ row'[e].state.override = row[e].state.override
      /\ row'[e].state.rejected = row[e].state.rejected
  <2> PICK s : s = [row[e].state EXCEPT !.review = IF @ = "unreviewed" THEN @ ELSE "needs_review"]
    OBVIOUS
  <2>1. s \in State
    BY <1>2, <1>4 DEF State
  <2>2. s.active = row[e].state.active /\ s.merged = row[e].state.merged
        /\ s.override = row[e].state.override /\ s.rejected = row[e].state.rejected
    BY <1>2 DEF State
  <2>3. row'[e] = [revision |-> r + 1, state |-> s]
    <3> PICK x : x = [row[e] EXCEPT !.revision = @ + 1]
      OBVIOUS
    <3>1. x = [revision |-> r + 1, state |-> row[e].state]
      BY <1>2 DEF Row
    <3> QED BY <1>3, <3>1
  <2>4. row'[e].revision = r + 1 /\ row'[e].state = s
    BY <2>3
  <2>5. row'[e] \in Row
    BY <1>2, <2>1, <2>3 DEF Row
  <2> QED BY <2>2, <2>4, <2>5
<1>6. row' \in [Entities -> Row]
  <2>1. ASSUME NEW f \in Entities PROVE row'[f] \in Row
    BY <1>2, <1>3, <1>5
  <2> QED BY <1>3, <2>1
<1>7. h \in Hypothesis
  BY <1>2 DEF Hypothesis
<1>8. Typed'
  <2>1. IsFiniteSet(hypotheses \cup {h})
    BY FS_AddElement DEF IInv, Typed
  <2> QED BY <1>1, <1>6, <1>7, <2>1 DEF IInv, Typed, TypeOK
<1>9. \A f \in Entities : /\ row[f].revision \in Nat /\ row'[f].revision \in Nat
                          /\ row[f].revision <= row'[f].revision
                          /\ row'[f].state.merged = row[f].state.merged
                          /\ row'[f].state.active = row[f].state.active
                          /\ Exists(f) => Exists(f)'
  <2>1. ASSUME NEW f \in Entities, f # e
        PROVE  row[f].revision \in Nat /\ row'[f] = row[f] /\ (Exists(f) => Exists(f)')
    BY <1>2, <1>3, <2>1 DEF Row, Exists
  <2>2. Exists(e)' /\ r + 1 \in Nat /\ r <= r + 1
    BY <1>2, <1>5 DEF Exists
  <2> QED BY <1>2, <1>5, <2>1, <2>2
<1>10. Unborn'
  <2>1. ASSUME NEW f \in Entities, ~Exists(f)' PROVE row'[f].state = EmptyState
    <3>1. f # e
      BY <1>2, <1>5, <2>1 DEF Exists
    <3> QED BY <1>3, <2>1, <3>1 DEF IInv, Unborn, Exists
  <2> QED BY <2>1 DEF Unborn
<1>11. Proposed'
  <2>1. \A g \in hypotheses : g.entity \in Entities /\ g.revision \in Nat
    BY DEF IInv, Typed, TypeOK, Hypothesis
  <2>2. ASSUME NEW g \in hypotheses'
        PROVE  0 < g.revision /\ g.revision <= row'[g.entity].revision /\ Small(Cardinality(g.devices))
    BY <1>1, <1>2, <1>5, <1>9, <2>1 DEF IInv, Proposed
  <2>3. ASSUME NEW g \in hypotheses, g.entity = e PROVE g.revision # r + 1
    BY <1>2, <2>1, <2>3 DEF IInv, Proposed
  <2>4. ASSUME NEW f \in hypotheses', NEW g \in hypotheses', f.entity = g.entity, f.revision = g.revision
        PROVE  f = g
    BY <1>1, <2>3, <2>4 DEF IInv, Proposed
  <2> QED BY <2>2, <2>4 DEF Proposed
<1>12. Moderate'
  <2>1. ASSUME NEW f \in Entities PROVE Modest(row'[f].state)
    BY <1>3, <1>5 DEF IInv, Moderate, Modest
  <2> QED BY <1>1, <2>1 DEF IInv, Moderate, Modest
<1>13. \A i \in DOMAIN assertions : assertions[i].affected \subseteq Entities /\
         \A f \in assertions[i].affected : assertions[i].after[f].revision \in Nat
  BY DEF IInv, Typed, TypeOK, Assertion, Row
<1>14. ASSUME NEW i \in DOMAIN assertions, NEW f \in assertions[i].affected,
              assertions[i].after[f].revision = row'[f].revision
       PROVE  f # e /\ row'[f] = row[f]
  <2>1. assertions[i].after[f].revision <= row[f].revision /\ f \in Entities
    BY <1>13 DEF IInv, Latest
  <2>2. f # e
    BY <1>2, <1>5, <1>14, <2>1
  <2> QED BY <1>3, <2>1, <2>2
<1>15. Latest'
  <2>1. ASSUME NEW i \in DOMAIN assertions, NEW f \in assertions[i].affected
        PROVE  /\ 0 < assertions[i].after[f].revision /\ assertions[i].after[f].revision <= row'[f].revision
               /\ assertions[i].after[f].revision = row'[f].revision => row'[f] = assertions[i].after[f]
    <3>1. 0 < assertions[i].after[f].revision /\ assertions[i].after[f].revision <= row[f].revision
      BY DEF IInv, Latest
    <3>2. assertions[i].after[f].revision <= row'[f].revision
      BY <1>9, <1>13, <3>1
    <3> QED BY <1>14, <3>1, <3>2 DEF IInv, Latest
  <2> QED BY <1>1, <2>1 DEF Latest
<1>16. Traced' /\ Together'
  <2>1. assertions' = assertions
    BY <1>1
  <2>2. Traced'
    BY <2>1 DEF IInv, Traced, Undoes, Restored
  <2>3. Together'
    BY <2>1 DEF IInv, Together, Joined
  <2> QED BY <2>2, <2>3
<1>17. Unneeded'
  <2>1. ASSUME NEW i \in DOMAIN assertions, NEW t \in assertions[i].affected,
               row'[t].revision = assertions[i].after[t].revision, Gone(assertions[i].before[t]),
               NEW f \in Entities \ assertions[i].affected
        PROVE  row'[f].state.merged # t
    BY <1>9, <1>14, <2>1 DEF IInv, Unneeded
  <2> QED BY <1>1, <2>1 DEF Unneeded, Gone
<1>18. HistoryTells'
  <2>1. ASSUME NEW f \in Entities, f # e PROVE Told(f)'
    <3>1. About(f)' = About(f) /\ Affecting(f)' = Affecting(f)
      BY <1>1, <2>1 DEF About, Affecting
    <3>2. Asserted(f)' = Asserted(f) /\ Guessed(f)' = Guessed(f)
      BY <1>1, <3>1 DEF Asserted, Guessed
    <3>3. Told(f)
      BY Telling DEF IInv
    <3>4. Foreseen(f)'
      BY <1>1, <3>1, <3>3 DEF Told, Foreseen
    <3> QED BY <1>3, <2>1, <3>1, <3>2, <3>3, <3>4 DEF Told
  <2>2. Told(e)'
    <3>1. About(e)' = About(e) \cup {h} /\ Affecting(e)' = Affecting(e)
      BY <1>1 DEF About, Affecting
    <3>2. h \notin About(e)
      <4>1. \A g \in About(e) : g.revision \in Nat /\ g.revision <= r
        BY <1>2 DEF About, IInv, Proposed, Typed, TypeOK, Hypothesis
      <4> QED BY <1>1, <1>2, <4>1
    <3>3. Asserted(e)' = Asserted(e) /\ Guessed(e)' = Guessed(e) \cup {r + 1}
      BY <1>1, <3>1 DEF Asserted, Guessed
    <3>4. Told(e) /\ 1 .. r \cup {r + 1} = 1 .. (r + 1)
      BY <1>2, Telling DEF IInv
    <3>5. Asserted(e)' \cup Guessed(e)' = 1 .. row'[e].revision
      BY <1>5, <3>3, <3>4 DEF Told
    <3>6. Cardinality(About(e)') = Cardinality(About(e)) + 1
      <4>1. IsFiniteSet(About(e))
        BY Counted DEF IInv
      <4>2. \A x, S : IsFiniteSet(S) /\ x \notin S => Cardinality(S \cup {x}) = Cardinality(S) + 1
        BY FS_AddElement
      <4> QED BY <3>1, <3>2, <4>1, <4>2
    <3>7. Cardinality(Affecting(e)') + Cardinality(About(e)') = row'[e].revision
      BY <1>2, <1>5, <3>1, <3>4, <3>6, Counted DEF IInv, Told
    <3>8. Foreseen(e)'
      BY <1>1, <3>1, <3>4 DEF Told, Foreseen
    <3> QED BY <3>5, <3>7, <3>8 DEF Told
  <2> QED BY <2>1, <2>2, TellingNext
<1>19. AliasesResolve'
  <2>1. ASSUME NEW f \in Entities, row'[f].state.merged # None, NEW t, t = row'[f].state.merged
        PROVE  Exists(t)' /\ (Active(t)' \/ row'[t].state.merged # None)
    <3>1. t = row[f].state.merged /\ t # None
      BY <1>9, <2>1
    <3>2. Exists(t) /\ (Active(t) \/ row[t].state.merged # None)
      BY <3>1 DEF IInv, AliasesResolve
    <3>3. t \in Entities
      BY <1>2, <3>1 DEF Row, State
    <3> QED BY <1>9, <3>2, <3>3 DEF Active
  <2>2. ASSUME NEW S \in SUBSET Entities, S # {} PROVE \E f \in S : row'[f].state.merged \notin S
    <3>1. PICK f \in S : row[f].state.merged \notin S
      BY <2>2 DEF IInv, AliasesResolve
    <3> QED BY <1>9, <3>1
  <2> QED BY <2>1, <2>2 DEF AliasesResolve
<1> QED BY <1>8, <1>10, <1>11, <1>12, <1>15, <1>16, <1>17, <1>18, <1>19 DEF IInv

LEMMA IInvInit == Init => IInv
<1> SUFFICES ASSUME Init PROVE IInv
  OBVIOUS
<1>1. EmptyState \in State /\ EmptyState.merged = None /\ EmptyState.override = None
      /\ EmptyState.rejected = {}
  BY DEF EmptyState, State
<1>2. /\ hypotheses = {} /\ assertions = <<>>
      /\ \A e \in Entities : row[e].revision = 0 /\ row[e].state = EmptyState
  BY DEF Init
<1>3. row \in [Entities -> Row]
  BY <1>1 DEF Init, Row
<1>4. DOMAIN assertions = {} /\ assertions \in Seq(AnyAssertion)
  BY <1>2
<1>5. Typed
  BY <1>2, <1>3, <1>4, FS_EmptySet DEF Typed, TypeOK
<1>6. Small(Cardinality({})) /\ Cardinality({}) = 0
  BY FS_EmptySet, WorkbenchConstants DEF Small
<1>7. Unborn /\ Proposed /\ Moderate /\ Latest /\ Traced /\ Together /\ Unneeded
  BY <1>1, <1>2, <1>4, <1>6 DEF Unborn, Proposed, Moderate, Modest, Latest, Traced, Together, Unneeded
<1>8. ASSUME NEW e \in Entities PROVE Told(e)
  <2>1. Affecting(e) = {} /\ About(e) = {} /\ row[e].revision = 0
    BY <1>2, <1>4 DEF Affecting, About
  <2>2. Asserted(e) = {} /\ Guessed(e) = {}
    BY <2>1 DEF Asserted, Guessed
  <2> QED BY <1>6, <2>1, <2>2 DEF Told, Foreseen
<1>9. AliasesResolve
  BY <1>1, <1>2, WorkbenchConstants DEF AliasesResolve
<1> QED BY <1>5, <1>7, <1>8, <1>9, Telling DEF IInv

-----------------------------------------------------------------------------
\* Every step is a correction, a new hypothesis or a stutter.
LEMMA Correction ==
  ASSUME IInv, NEW e \in Entities, Correct(e)
  PROVE  \E action, states, added :
           Proper(action, states, 0, added) /\ Recorded(action, states, 0, added)
<1>1. CASE Label(e)
  BY <1>1, LabelProper DEF Label
<1>2. ASSUME NEW D \in SUBSET Devices, Create(e, D)
      PROVE  \E action, states, added : Proper(action, states, 0, added) /\ Recorded(action, states, 0, added)
  BY <1>2, CreateProper DEF Create
<1>3. ASSUME NEW D \in SUBSET Devices, Reject(e, D)
      PROVE  \E action, states, added : Proper(action, states, 0, added) /\ Recorded(action, states, 0, added)
  BY <1>3, RejectProper DEF Reject
<1>4. ASSUME NEW add \in SUBSET Devices, NEW remove \in SUBSET Devices, Membership(e, add, remove)
      PROVE  \E action, states, added : Proper(action, states, 0, added) /\ Recorded(action, states, 0, added)
  BY <1>4, MembershipProper DEF Membership
<1>5. ASSUME NEW f \in Entities, Merge(e, f)
      PROVE  \E action, states, added : Proper(action, states, 0, added) /\ Recorded(action, states, 0, added)
  BY <1>5, MergeProper DEF Merge, Merged
<1>6. ASSUME NEW f \in Entities, NEW D \in SUBSET Devices, Split(e, f, D)
      PROVE  \E action, states, added : Proper(action, states, 0, added) /\ Recorded(action, states, 0, added)
  BY <1>6, SplitProper DEF Split
<1> QED BY <1>1, <1>2, <1>3, <1>4, <1>5, <1>6 DEF Correct

LEMMA UndoRecorded ==
  ASSUME IInv, NEW i \in DOMAIN assertions, Undo(i)
  PROVE  \E states : Proper("undo", states, i, {}) /\ Recorded("undo", states, i, {})
<1> PICK states : states = [e \in assertions[i].affected |-> Restored(i, e)]
  OBVIOUS
<1>1. Proper("undo", states, i, {})
  BY UndoProper
<1>2. Recorded("undo", states, i, {})
  BY DEF Undo, Restored
<1> QED BY <1>1, <1>2

LEMMA IInvStep == IInv /\ [Next]_vars => IInv'
<1> SUFFICES ASSUME IInv, [Next]_vars PROVE IInv'
  OBVIOUS
<1>1. ASSUME NEW e \in Entities, Correct(e) PROVE IInv'
  BY <1>1, Correction, RecordedInv
<1>2. ASSUME NEW i \in DOMAIN assertions, Undo(i) PROVE IInv'
  BY <1>2, UndoRecorded, RecordedInv
<1>3. ASSUME NEW e \in Entities, NEW version \in Versions, NEW D \in SUBSET Devices,
             PublishHypothesis(e, version, D)
      PROVE  IInv'
  BY <1>3, PublishInv
<1>4. CASE UNCHANGED vars
  <2>1. Typed' /\ Unborn' /\ Proposed' /\ Moderate' /\ Latest' /\ Together' /\ Unneeded'
    BY <1>4 DEF vars, IInv, Typed, TypeOK, Unborn, Exists, Proposed, Moderate, Latest, Together, Unneeded
  <2>2. Traced'
    BY <1>4 DEF vars, IInv, Traced, Undoes, Restored
  <2>3. HistoryTells'
    BY <1>4 DEF vars, IInv, HistoryTells
  <2>4. AliasesResolve'
    BY <1>4 DEF vars, IInv, AliasesResolve, Active, Exists
  <2> QED BY <2>1, <2>2, <2>3, <2>4 DEF IInv
<1> QED BY <1>1, <1>2, <1>3, <1>4 DEF Next

LEMMA Invariant == Spec => []IInv
BY IInvInit, IInvStep, PTL DEF Spec

-----------------------------------------------------------------------------
\* Every state is well-typed; an entity that is not retired leads nowhere else.
THEOREM WorkbenchTypeCorrect == Spec => []TypeOK
BY Invariant, PTL DEF IInv, Typed

\* Every revision of every entity is that of one assertion or one hypothesis, whose author
\* had seen the revision before it: a command or model that was overtaken makes none.
THEOREM HistoryComplete == Spec => []HistoryTells
BY Invariant, PTL DEF IInv

\* Whatever was merged and undone, an identifier leads to an entity, and not in a circle.
THEOREM IdentifiersResolve == Spec => []AliasesResolve
BY Invariant, PTL DEF IInv

\* An assertion is undone at most once, and undoing the undo restores what it had made.
THEOREM UndoProved == Spec => []UndoExact
<1>1. IInv => UndoExact
  <2> SUFFICES ASSUME IInv, NEW j \in DOMAIN assertions, assertions[j].compensates # 0,
                      NEW i, i = assertions[j].compensates, NEW h, h = assertions[i].compensates
               PROVE  /\ \A k \in DOMAIN assertions : k # j => assertions[k].compensates # i
                      /\ h # 0 => \A e \in assertions[j].affected :
                                    assertions[j].after[e].state = assertions[h].after[e].state
    BY DEF UndoExact
  <2>1. \A k \in DOMAIN assertions : k # j => assertions[k].compensates # i
    BY DEF IInv, Traced
  <2>2. ASSUME h # 0, NEW e \in assertions[j].affected
        PROVE  assertions[j].after[e].state = assertions[h].after[e].state
    <3>1. i \in DOMAIN assertions /\ e \in assertions[i].affected
          /\ assertions[j].after[e].state = Restored(i, e)
      BY <2>2 DEF IInv, Traced, Undoes
    <3>2. h \in DOMAIN assertions /\ e \in assertions[h].affected
          /\ assertions[i].before[e] = assertions[h].after[e]
      BY <2>2, <3>1 DEF IInv, Traced, Undoes
    <3>3. 0 < assertions[h].after[e].revision
      BY <3>2 DEF IInv, Latest
    <3> QED BY <3>1, <3>2, <3>3 DEF Restored
  <2> QED BY <2>1, <2>2
<1> QED BY <1>1, Invariant, PTL

\* No entity ever has more devices, or more rejected devices, than the limit.
THEOREM LimitProved == Spec => []LimitHeld
<1>1. IInv => LimitHeld
  BY MembersSmall DEF IInv, Moderate, Modest, LimitHeld
<1> QED BY <1>1, Invariant, PTL

-----------------------------------------------------------------------------
\* What one step keeps of the rejections.
Kept ==
  LET last == assertions'[Len(assertions')]
      taken(d) == assertions' # assertions /\ (last.action = "undo" \/ d \in last.added)
  IN  \A e \in Entities : Active(e) =>
        \A d \in row[e].state.rejected :
          \/ taken(d)
          \/ d \in row'[IF row'[e].state.active THEN e ELSE row'[e].state.merged].state.rejected

\* A correction keeps them if the states it writes do.
Keeps(states, added) ==
  \A e \in DOMAIN states : Active(e) =>
    \A d \in row[e].state.rejected :
      \/ d \in added
      \/ states[e].active /\ d \in states[e].rejected
      \/ ~states[e].active /\ states[e].merged \in DOMAIN states /\ d \in states[states[e].merged].rejected

LEMMA KeptIfKeeps ==
  ASSUME IInv, NEW action, NEW states, NEW undone, NEW added, action = "undo" \/ Keeps(states, added),
         Proper(action, states, undone, added), Recorded(action, states, undone, added)
  PROVE  Kept
<1>1. PICK n \in Nat : Writes(action, states, undone, added, n)
  BY Recording DEF IInv
<1>2. /\ assertions'[Len(assertions')].action = action /\ assertions'[Len(assertions')].added = added
      /\ assertions' # assertions
  BY <1>1 DEF Writes
<1>3. ASSUME action # "undo", NEW e \in Entities, Active(e), NEW d \in row[e].state.rejected, d \notin added
      PROVE  d \in row'[IF row'[e].state.active THEN e ELSE row'[e].state.merged].state.rejected
  <2>1. CASE e \notin DOMAIN states
    <3>1. row'[e] = row[e]
      BY <1>1, <2>1 DEF Writes
    <3> QED BY <1>3, <3>1 DEF Active
  <2>2. CASE e \in DOMAIN states
    <3>1. \A f \in DOMAIN states : row'[f].state = states[f]
      BY <1>1 DEF Writes
    <3> QED BY <1>3, <2>2, <3>1 DEF Keeps
  <2> QED BY <2>1, <2>2
<1> QED BY <1>2, <1>3 DEF Kept

\* The operator's no to a device outlasts models, merges and splits.
THEOREM RejectionsOutlast == Spec => RejectionsKept
<1>1. ASSUME IInv, NEW e \in Entities, Open(e)
      PROVE  /\ Reviewed(e).active /\ Reviewed(e).rejected = row[e].state.rejected
             /\ \A D : [Reviewed(e) EXCEPT !.override = D].active
                       /\ [Reviewed(e) EXCEPT !.override = D].rejected = row[e].state.rejected
             /\ \A R : [Reviewed(e) EXCEPT !.rejected = R].active
                       /\ [Reviewed(e) EXCEPT !.rejected = R].rejected = R
             /\ \A D, R : [Reviewed(e) EXCEPT !.override = D, !.rejected = R].active
                          /\ [Reviewed(e) EXCEPT !.override = D, !.rejected = R].rejected = R
  <2>1. row[e].state \in State /\ row[e].state.active
    BY <1>1, OpenState
  <2> QED BY <2>1 DEF Reviewed, State
<1>2. ASSUME IInv, NEW e \in Entities, Label(e) PROVE Kept
  <2>1. Open(e)
    BY <1>2 DEF Label, Open
  <2>2. Keeps(One(e, Reviewed(e)), {})
    BY <1>1, <1>2, <2>1 DEF Keeps, One
  <2> QED BY <1>2, <2>2, LabelProper, KeptIfKeeps DEF Label
<1>3. ASSUME IInv, NEW e \in Entities, NEW D \in SUBSET Devices, Create(e, D) PROVE Kept
  <2>1. Keeps(One(e, [Reviewed(e) EXCEPT !.override = D]), D)
    BY <1>3 DEF Keeps, One, Create, Active
  <2> QED BY <1>3, <2>1, CreateProper, KeptIfKeeps DEF Create
<1>4. ASSUME IInv, NEW e \in Entities, NEW D \in SUBSET Devices, Reject(e, D) PROVE Kept
  <2>1. Open(e) /\ row[e].state \in State
    BY <1>4, OpenState DEF Reject, Open
  <2>2. PICK s : s = [Reviewed(e) EXCEPT !.rejected = @ \cup D]
    OBVIOUS
  <2>3. s.active /\ s.rejected = row[e].state.rejected \cup D
    BY <1>1, <1>4, <2>1, <2>2, OpenState DEF Reviewed, State
  <2>4. Keeps(One(e, s), {})
    BY <2>3 DEF Keeps, One
  <2> QED BY <1>4, <2>2, <2>4, RejectProper, KeptIfKeeps DEF Reject
<1>5. ASSUME IInv, NEW e \in Entities, NEW add \in SUBSET Devices, NEW remove \in SUBSET Devices,
             Membership(e, add, remove)
      PROVE  Kept
  <2>1. Open(e)
    BY <1>5 DEF Membership, Open
  <2> PICK R : R = (row[e].state.rejected \cup remove) \ add
    OBVIOUS
  <2> PICK s : s = [Reviewed(e) EXCEPT !.override = (Members(e) \ remove) \cup add, !.rejected = R]
    OBVIOUS
  <2>2. s.active /\ s.rejected = R
    BY <1>1, <1>5, <2>1
  <2>3. Keeps(One(e, s), add)
    BY <2>2 DEF Keeps, One
  <2>4. Proper("membership", One(e, s), 0, add) /\ Recorded("membership", One(e, s), 0, add)
    BY <1>5, MembershipProper DEF Membership
  <2> QED BY <1>5, <2>3, <2>4, KeptIfKeeps
<1>6. ASSUME IInv, NEW e \in Entities, NEW f \in Entities, NEW D \in SUBSET Devices, Split(e, f, D) PROVE Kept
  <2> PICK s : s = [Reviewed(e) EXCEPT !.override = Members(e) \ D]
    OBVIOUS
  <2> PICK t : t = [Reviewed(f) EXCEPT !.override = D]
    OBVIOUS
  <2>1. Open(e) /\ ~Exists(f) /\ e # f
    BY <1>6 DEF Split, Open
  <2>2. s.active /\ s.rejected = row[e].state.rejected
    BY <1>1, <1>6, <2>1
  <2>3. Keeps(Two(e, s, f, t), {})
    BY <2>1, <2>2 DEF Keeps, Two, Active
  <2>4. Proper("split", Two(e, s, f, t), 0, {}) /\ Recorded("split", Two(e, s, f, t), 0, {})
    BY <1>6, SplitProper DEF Split
  <2> QED BY <1>6, <2>3, <2>4, KeptIfKeeps
<1>7. ASSUME IInv, NEW e \in Entities, NEW f \in Entities, Merge(e, f) PROVE Kept
  <2> PICK C : C = Members(e) \cup Members(f)
    OBVIOUS
  <2> PICK R : R = row[e].state.rejected \cup row[f].state.rejected
    OBVIOUS
  <2> PICK s : s = [Reviewed(e) EXCEPT !.override = C, !.rejected = R]
    OBVIOUS
  <2> PICK t : t = [row[f].state EXCEPT !.active = FALSE, !.merged = e, !.review = "retired"]
    OBVIOUS
  <2>1. Open(e) /\ Open(f) /\ e # f
    BY <1>7 DEF Merge, Open
  <2>2. s.active /\ s.rejected = R
    BY <1>1, <1>7, <2>1
  <2>3. ~t.active /\ t.merged = e
    <3>1. row[f].state \in State
      BY <1>7, <2>1, OpenState
    <3> QED BY <3>1 DEF State
  <2>4. Keeps(Two(e, s, f, t), {})
    BY <2>1, <2>2, <2>3 DEF Keeps, Two
  <2>5. Proper("merge", Two(e, s, f, t), 0, {}) /\ Recorded("merge", Two(e, s, f, t), 0, {})
    BY <1>7, MergeProper DEF Merge, Merged
  <2> QED BY <1>7, <2>4, <2>5, KeptIfKeeps
<1>8. ASSUME IInv, NEW i \in DOMAIN assertions, Undo(i) PROVE Kept
  BY <1>8, UndoRecorded, KeptIfKeeps
<1>9. ASSUME IInv, NEW e \in Entities, NEW version \in Versions, NEW D \in SUBSET Devices,
             PublishHypothesis(e, version, D)
      PROVE  Kept
  <2>1. row \in [Entities -> Row]
    BY <1>9 DEF IInv, Typed, TypeOK
  <2>2. ASSUME NEW f \in Entities
        PROVE  row'[f].state.active = row[f].state.active /\ row'[f].state.rejected = row[f].state.rejected
    <3>1. row[f].state \in State /\ row[f] \in Row
      BY <2>1 DEF Row
    <3> QED BY <1>9, <2>1, <3>1 DEF PublishHypothesis, Hypothesized, Row, State
  <2> QED BY <2>2 DEF Kept, Active
<1>10. IInv /\ [Next]_vars => [Kept]_vars
  BY <1>2, <1>3, <1>4, <1>5, <1>6, <1>7, <1>8, <1>9 DEF Next, Correct
<1> QED BY <1>10, Invariant, PTL DEF Spec, RejectionsKept, Kept

-----------------------------------------------------------------------------
\* What one step does to the devices of split and merged entities.
Conserved ==
  LET last == assertions'[Len(assertions')]
  IN  assertions' # assertions /\ last.action \in {"split", "merge"} =>
        UNION {Members(e)' : e \in last.affected} = UNION {Members(e) : e \in last.affected}

\* The members a correction of two entities leaves them.
LEMMA TwoMembers ==
  ASSUME IInv, NEW action, NEW e \in Entities, NEW s, NEW f \in Entities, NEW t, e # f,
         Proper(action, Two(e, s, f, t), 0, {}), Recorded(action, Two(e, s, f, t), 0, {}),
         Effective(s, Machine(e)) \cup Effective(t, Machine(f)) = Members(e) \cup Members(f)
  PROVE  Conserved
<1> DEFINE states == Two(e, s, f, t)
<1>1. PICK n \in Nat : Writes(action, states, 0, {}, n)
  BY Recording DEF IInv
<1>2. DOMAIN states = {e, f} /\ states[e] = s /\ states[f] = t
  BY DEF Two
<1> HIDE DEF states
<1>3. /\ assertions'[Len(assertions')].affected = {e, f} /\ hypotheses' = hypotheses
      /\ row'[e].state = s /\ row'[f].state = t
  BY <1>1, <1>2 DEF Writes
<1>4. Machine(e)' = Machine(e) /\ Machine(f)' = Machine(f)
  BY <1>3 DEF Machine
<1>5. Members(e)' = Effective(s, Machine(e)) /\ Members(f)' = Effective(t, Machine(f))
  BY <1>3, <1>4 DEF Members, Effective
<1>6. UNION {Members(x)' : x \in {e, f}} = Members(e)' \cup Members(f)'
  OBVIOUS
<1>7. UNION {Members(x) : x \in {e, f}} = Members(e) \cup Members(f)
  OBVIOUS
<1> QED BY <1>3, <1>5, <1>6, <1>7 DEF Conserved

\* Splits and merges move devices and lose none.
THEOREM DevicesStay == Spec => DevicesConserved
<1>1. ASSUME IInv, NEW e \in Entities, NEW f \in Entities, NEW D \in SUBSET Devices, Split(e, f, D)
      PROVE  Conserved
  <2> PICK s : s = [Reviewed(e) EXCEPT !.override = Members(e) \ D]
    OBVIOUS
  <2> PICK t : t = [Reviewed(f) EXCEPT !.override = D]
    OBVIOUS
  <2>1. Open(e) /\ Open(f) /\ ~Exists(f) /\ e # f /\ D \subseteq Members(e)
    BY <1>1 DEF Split, Open
  <2>2. row[e].state \in State /\ row[e].state.active /\ row[f].state = EmptyState
        /\ Members(e) \in SUBSET Devices /\ Members(e) \cap row[e].state.rejected = {}
    BY <1>1, <2>1, OpenState, MembersSmall DEF IInv, Unborn
  <2>3. s.active /\ s.override = Members(e) \ D /\ s.rejected = row[e].state.rejected
    BY <2>2 DEF Reviewed, State
  <2>4. t.active /\ t.override = D /\ t.rejected = {}
    BY <2>2 DEF Reviewed, EmptyState
  <2>5. Members(e) \ D # None /\ D # None
    BY <2>2, WorkbenchConstants
  <2>6. Effective(s, Machine(e)) = Members(e) \ D
    BY <2>2, <2>3, <2>5 DEF Effective
  <2>7. Effective(t, Machine(f)) = D
    BY <2>4, <2>5 DEF Effective
  <2>8. Members(f) = {}
    <3>1. \A h \in hypotheses : h.entity # f
      <4>1. \A h \in hypotheses : h.revision \in Nat /\ 0 < h.revision /\ h.revision <= row[h.entity].revision
        BY <1>1 DEF IInv, Proposed, Typed, TypeOK, Hypothesis
      <4>2. row[f].revision = 0
        <5>1. row[f].revision \in Nat
          BY <1>1 DEF IInv, Typed, TypeOK, Row
        <5> QED BY <2>1, <5>1 DEF Exists
      <4> QED BY <4>1, <4>2
    <3>2. Machine(f) = {}
      BY <3>1 DEF Machine
    <3> QED BY <2>2, <3>2 DEF Members, Effective, EmptyState
  <2>9. Effective(s, Machine(e)) \cup Effective(t, Machine(f)) = Members(e) \cup Members(f)
    BY <2>1, <2>6, <2>7, <2>8
  <2>10. Proper("split", Two(e, s, f, t), 0, {}) /\ Recorded("split", Two(e, s, f, t), 0, {})
    BY <1>1, SplitProper DEF Split
  <2> QED BY <1>1, <2>1, <2>9, <2>10, TwoMembers
<1>2. ASSUME IInv, NEW e \in Entities, NEW f \in Entities, Merge(e, f) PROVE Conserved
  <2> PICK C : C = Members(e) \cup Members(f)
    OBVIOUS
  <2> PICK R : R = row[e].state.rejected \cup row[f].state.rejected
    OBVIOUS
  <2> PICK s : s = [Reviewed(e) EXCEPT !.override = C, !.rejected = R]
    OBVIOUS
  <2> PICK t : t = [row[f].state EXCEPT !.active = FALSE, !.merged = e, !.review = "retired"]
    OBVIOUS
  <2>1. Open(e) /\ Open(f) /\ e # f /\ C \cap R = {}
    BY <1>2 DEF Merge, Open
  <2>2. row[e].state \in State /\ row[e].state.active /\ row[f].state \in State
        /\ C \in SUBSET Devices
    BY <1>2, <2>1, OpenState, MembersSmall
  <2>3. s.active /\ s.override = C /\ s.rejected = R
    BY <2>2 DEF Reviewed, State
  <2>4. ~t.active
    BY <2>2 DEF State
  <2>5. Effective(s, Machine(e)) = C /\ Effective(t, Machine(f)) = {}
    BY <2>1, <2>2, <2>3, <2>4, WorkbenchConstants DEF Effective
  <2>6. Effective(s, Machine(e)) \cup Effective(t, Machine(f)) = Members(e) \cup Members(f)
    BY <2>5
  <2>7. Proper("merge", Two(e, s, f, t), 0, {}) /\ Recorded("merge", Two(e, s, f, t), 0, {})
    BY <1>2, MergeProper DEF Merge, Merged
  <2> QED BY <1>2, <2>1, <2>6, <2>7, TwoMembers
<1>3. ASSUME IInv, NEW action, NEW states, NEW undone, NEW added, action \notin {"split", "merge"},
             Proper(action, states, undone, added), Recorded(action, states, undone, added)
      PROVE  Conserved
  <2>1. PICK n \in Nat : Writes(action, states, undone, added, n)
    BY <1>3, Recording DEF IInv
  <2> QED BY <1>3, <2>1 DEF Writes, Conserved
<1>4. ASSUME IInv, NEW e \in Entities, Label(e) PROVE Conserved
  BY <1>3, <1>4, LabelProper DEF Label
<1>5. ASSUME IInv, NEW e \in Entities, NEW D \in SUBSET Devices, Create(e, D) PROVE Conserved
  BY <1>3, <1>5, CreateProper DEF Create
<1>6. ASSUME IInv, NEW e \in Entities, NEW D \in SUBSET Devices, Reject(e, D) PROVE Conserved
  BY <1>3, <1>6, RejectProper DEF Reject
<1>7. ASSUME IInv, NEW e \in Entities, NEW add \in SUBSET Devices, NEW remove \in SUBSET Devices,
             Membership(e, add, remove)
      PROVE  Conserved
  BY <1>3, <1>7, MembershipProper DEF Membership
<1>8. ASSUME IInv, NEW i \in DOMAIN assertions, Undo(i) PROVE Conserved
  BY <1>3, <1>8, UndoRecorded
<1>9. IInv /\ [Next]_vars => [Conserved]_vars
  BY <1>1, <1>2, <1>4, <1>5, <1>6, <1>7, <1>8 DEF Next, Correct, PublishHypothesis, Hypothesized, Conserved
<1> QED BY <1>9, Invariant, PTL DEF Spec, DevicesConserved, Conserved
=============================================================================
