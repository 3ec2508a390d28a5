------------------------ MODULE CorrectionPanelProofs ------------------------
(***************************************************************************)
(* Proofs about CorrectionPanel, for any entities, any number of previews, *)
(* confirmations and changes from elsewhere.                               *)
(***************************************************************************)
EXTENDS CorrectionPanel, SequenceTheorems, TLAPS

-----------------------------------------------------------------------------
(* Type correctness *)

LEMMA Grown ==
  ASSUME NEW s \in Seq(Changes), NEW x \in Changes
  PROVE  /\ Append(s, x) \in Seq(Changes) /\ Append(s, x) # <<>>
         /\ Len(s) \in Nat /\ Len(Append(s, x)) = Len(s) + 1
         /\ DOMAIN s = 1 .. Len(s) /\ DOMAIN Append(s, x) = 1 .. (Len(s) + 1)
         /\ \A i \in 1 .. Len(s) : Append(s, x)[i] = s[i]
         /\ Append(s, x)[Len(s) + 1] = x
BY AppendProperties, LenProperties

LEMMA AfterType ==
  ASSUME TypeOK, NEW k \in Keys
  PROVE  After(k) \in [Entities -> Seq(Changes)]
BY Grown DEF TypeOK, After, Changes

LEMMA RevisionType ==
  ASSUME TypeOK, NEW e \in Entities
  PROVE  Revision(e) \in Nat /\ row[e] \in Seq(Changes) /\ DOMAIN row[e] = 1 .. Revision(e)
BY LenProperties DEF TypeOK, Revision

LEMMA NothingType == Nothing \in [Entities -> Seq(Changes)]
BY EmptySeq DEF Nothing

LEMMA InitType == Init => TypeOK
<1> SUFFICES ASSUME Init PROVE TypeOK
  OBVIOUS
<1>1. \A e \in Entities : row[e] = <<>> /\ <<>> \in Seq(Changes)
  BY EmptySeq DEF Init
<1>2. Unused \in Preview
  BY NothingType DEF Unused, Command, Preview
<1> QED BY <1>1, <1>2 DEF Init, TypeOK

LEMMA AskType ==
  ASSUME TypeOK, NEW k \in Keys, NEW command \in Preview, Ask(k, command)
  PROVE  TypeOK'
BY DEF TypeOK, Ask

LEMMA AsSelectedType ==
  ASSUME TypeOK, selected # None
  PROVE  selected.id \in Entities /\ AsSelected \in [Entities -> Nat]
BY DEF TypeOK, AsSelected, Detail

LEMMA CommandType ==
  ASSUME NEW pc \in {"reading", "asked"}, NEW e \in Entities, NEW o \in Entities \cup {None},
         NEW A \in SUBSET Entities, NEW x \in [Entities -> Nat]
  PROVE  Command(pc, e, o, A, x) \in Preview
BY NothingType DEF Command, Preview

LEMMA OverType ==
  ASSUME TypeOK, NEW k \in Keys
  PROVE  [preview EXCEPT ![k].pc = "over"] \in [Keys -> Preview]
<1>1. preview[k] \in Preview
  BY DEF TypeOK
<1>2. [preview[k] EXCEPT !.pc = "over"] \in Preview
  BY <1>1 DEF Preview
<1> QED BY <1>2 DEF TypeOK

LEMMA NetType ==
  ASSUME TypeOK, NEW s \in Sends, post[s] # None, NEW net \in {"receipt", "changed", "error"}
  PROVE  [post EXCEPT ![s].net = net] \in [Sends -> Post \cup {None}]
<1>1. post[s] \in Post
  BY DEF TypeOK
<1>2. [post[s] EXCEPT !.net = net] \in Post
  BY <1>1 DEF Post
<1> QED BY <1>2 DEF TypeOK

LEMMA ToldType ==
  ASSUME TypeOK, NEW k \in Keys, NEW w \in {"recorded", "changed"}
  PROVE  told \cup {<<k, w>>} \subseteq Keys \X {"recorded", "changed"}
BY DEF TypeOK

LEMMA OperateType ==
  ASSUME TypeOK, Operate
  PROVE  TypeOK'
<1>1. CASE Edit
  BY <1>1 DEF Edit, Invalidate, TypeOK
<1>2. CASE Mount
  <2>1. \A k \in Keys : [preview[k] EXCEPT !.pc = "over"] \in Preview
    BY DEF TypeOK, Preview
  <2>2. preview' \in [Keys -> Preview]
    BY <1>2, <2>1 DEF Mount, TypeOK
  <2>3. \A s \in Sends : Waits(s) => [post[s] EXCEPT !.waits = FALSE] \in Post
    BY DEF TypeOK, Post, Waits
  <2>4. post' \in [Sends -> Post \cup {None}]
    BY <1>2, <2>3 DEF Mount, TypeOK
  <2> QED BY <1>2, <2>2, <2>4 DEF Mount, Invalidate, TypeOK
<1>3. ASSUME NEW e \in Entities, Load(e) PROVE TypeOK'
  <2>1. [id |-> e, revision |-> 0] \in Detail
    BY DEF Detail
  <2> QED BY <1>3, <2>1 DEF Load, Invalidate, TypeOK
<1>4. ASSUME NEW k \in Keys, AskCreate(k) PROVE TypeOK'
  <2>1. PICK e \in Entities : Ask(k, Command("asked", e, None, {e}, [x \in Entities |-> 0]))
    BY <1>4 DEF AskCreate
  <2>2. Command("asked", e, None, {e}, [x \in Entities |-> 0]) \in Preview
    BY CommandType
  <2> QED BY <2>1, <2>2, AskType
<1>5. ASSUME NEW k \in Keys, AskOne(k) PROVE TypeOK'
  <2>1. selected # None /\ Ask(k, Command("asked", selected.id, None, {selected.id}, AsSelected))
    BY <1>5 DEF AskOne
  <2>2. Command("asked", selected.id, None, {selected.id}, AsSelected) \in Preview
    BY <2>1, CommandType, AsSelectedType
  <2> QED BY <2>1, <2>2, AskType
<1>6. ASSUME NEW k \in Keys, AskSplit(k) PROVE TypeOK'
  <2>1. PICK e \in Entities :
          selected # None /\ Ask(k, Command("asked", selected.id, None, {selected.id, e}, AsSelected))
    BY <1>6 DEF AskSplit
  <2>2. Command("asked", selected.id, None, {selected.id, e}, AsSelected) \in Preview
    BY <2>1, CommandType, AsSelectedType
  <2> QED BY <2>1, <2>2, AskType
<1>7. ASSUME NEW k \in Keys, AskTwo(k) PROVE TypeOK'
  <2>1. PICK e \in Entities :
          selected # None /\ Ask(k, Command("reading", selected.id, e, {selected.id}, AsSelected))
    BY <1>7 DEF AskTwo
  <2>2. Command("reading", selected.id, e, {selected.id}, AsSelected) \in Preview
    BY <2>1, CommandType, AsSelectedType
  <2> QED BY <2>1, <2>2, AskType
<1>8. ASSUME NEW s \in Sends, Confirm(s) PROVE TypeOK'
  BY <1>8 DEF Confirm, TypeOK, Post
<1> QED BY <1>1, <1>2, <1>3, <1>4, <1>5, <1>6, <1>7, <1>8 DEF Operate

LEMMA HeardType ==
  ASSUME TypeOK, NEW s \in Sends, Waits(s), Heard(s)
  PROVE  post' \in [Sends -> Post \cup {None}] /\ post[s] \in Post /\ post[s].key \in Keys
BY DEF TypeOK, Post, Waits, Heard

LEMMA HearType ==
  ASSUME TypeOK, Hear, \A k \in Keys : preview[k].pc = "reading" => preview[k].other \in Entities,
         \A s \in Sends : post[s] # None => preview[post[s].key].entity \in Entities
  PROVE  TypeOK'
<1>1. CASE ShowDetail
  BY <1>1 DEF ShowDetail, TypeOK
<1>2. ASSUME NEW k \in Keys, ReadOther(k) PROVE TypeOK'
  <2>1. preview[k].other \in Entities /\ preview[k] \in Preview
    BY <1>2 DEF ReadOther, TypeOK
  <2>2. Revision(preview[k].other) \in Nat
    BY <2>1, RevisionType
  <2>3. preview' \in [Keys -> Preview]
    BY <1>2, <2>1, <2>2 DEF ReadOther, TypeOK, Preview
  <2> QED BY <1>2, <2>3 DEF ReadOther, TypeOK
<1>3. ASSUME NEW k \in Keys, ShowPreview(k) PROVE TypeOK'
  <2>1. preview' \in [Keys -> Preview]
    BY <1>3, OverType DEF ShowPreview
  <2> QED BY <1>3, <2>1 DEF ShowPreview, TypeOK
<1>4. ASSUME NEW s \in Sends, Receipt(s) PROVE TypeOK'
  <2>1. post' \in [Sends -> Post \cup {None}] /\ post[s].key \in Keys /\ post[s] # None
    BY <1>4, HeardType DEF Receipt, Waits
  <2>2. loading' \in Detail
    BY <1>4, <2>1 DEF Receipt, Detail
  <2>3. told' \subseteq Keys \X {"recorded", "changed"}
    BY <1>4, <2>1, ToldType DEF Receipt
  <2> QED BY <1>4, <2>1, <2>2, <2>3 DEF Receipt, Invalidate, TypeOK
<1>5. ASSUME NEW s \in Sends, Changed(s) PROVE TypeOK'
  <2>1. post' \in [Sends -> Post \cup {None}] /\ post[s].key \in Keys
    BY <1>5, HeardType DEF Changed
  <2>2. told' \subseteq Keys \X {"recorded", "changed"}
    BY <1>5, <2>1, ToldType DEF Changed
  <2> QED BY <1>5, <2>1, <2>2 DEF Changed, Invalidate, TypeOK
<1> QED BY <1>1, <1>2, <1>3, <1>4, <1>5 DEF Hear

LEMMA MissType ==
  ASSUME TypeOK, Miss
  PROVE  TypeOK'
<1>0. CASE ReadDenied
  BY <1>0 DEF ReadDenied, Fail, Invalidate, TypeOK
<1>1. ASSUME NEW denied \in BOOLEAN, LoadFails(denied) PROVE TypeOK'
  BY <1>1 DEF LoadFails, Fail, Invalidate, TypeOK
<1>2. ASSUME NEW denied \in BOOLEAN, NEW k \in Keys, PreviewFails(k, denied) PROVE TypeOK'
  <2>1. preview' \in [Keys -> Preview]
    BY <1>2, OverType DEF PreviewFails
  <2> QED BY <1>2, <2>1 DEF PreviewFails, Fail, Invalidate, TypeOK
<1>3. ASSUME NEW denied \in BOOLEAN, NEW s \in Sends, Unsure(s, denied) PROVE TypeOK'
  <2>1. post' \in [Sends -> Post \cup {None}]
    BY <1>3, HeardType DEF Unsure
  <2> QED BY <1>3, <2>1 DEF Unsure, Invalidate, TypeOK
<1> QED BY <1>0, <1>1, <1>2, <1>3 DEF Miss

LEMMA ServeType ==
  ASSUME TypeOK, Serve
  PROVE  TypeOK'
<1>1. CASE ReadDetail
  <2>1. loading \in Detail
    BY <1>1 DEF ReadDetail, TypeOK
  <2>2. Revision(loading.id) \in Nat
    BY <2>1, RevisionType DEF Detail
  <2> QED BY <1>1, <2>1, <2>2 DEF ReadDetail, TypeOK, Detail
<1>2. ASSUME NEW k \in Keys, Rehearse(k) PROVE TypeOK'
  <2>1. [e \in Entities |-> IF e \in Affected(k) THEN After(k)[e] ELSE <<>>] \in [Entities -> Seq(Changes)]
    BY AfterType, EmptySeq
  <2>2. preview' \in [Keys -> Preview]
    <3> DEFINE sh == [e \in Entities |-> IF e \in Affected(k) THEN After(k)[e] ELSE <<>>]
    <3>1. preview[k] \in Preview
      BY DEF TypeOK
    <3>2. [preview[k] EXCEPT !.pc = "answered", !.shown = sh] \in Preview
      BY <2>1, <3>1 DEF Preview
    <3>3. preview' = [preview EXCEPT ![k] = [preview[k] EXCEPT !.pc = "answered", !.shown = sh]]
      BY <1>2 DEF Rehearse, TypeOK
    <3> QED BY <3>2, <3>3 DEF TypeOK
  <2> QED BY <1>2, <2>2 DEF Rehearse, TypeOK
<1>3. ASSUME NEW s \in Sends, Apply(s) PROVE TypeOK'
  <2>1. post[s] \in Post /\ post[s].key \in Keys
    BY <1>3 DEF Apply, Arrived, TypeOK, Post
  <2>2. After(post[s].key) \in [Entities -> Seq(Changes)]
    BY <2>1, AfterType
  <2>3. post' \in [Sends -> Post \cup {None}]
    BY <1>3, NetType DEF Apply, Answer, Arrived
  <2>4. row' \in [Entities -> Seq(Changes)]
    BY <1>3, <2>2 DEF Apply, TypeOK
  <2> QED BY <1>3, <2>3, <2>4 DEF Apply, panel, TypeOK
<1>4. ASSUME NEW s \in Sends, Rollback(s) PROVE TypeOK'
  <2>1. post' \in [Sends -> Post \cup {None}]
    BY <1>4, NetType DEF Rollback, Arrived, Answer
  <2> QED BY <1>4, <2>1 DEF Rollback, panel, TypeOK
<1>5. ASSUME NEW e \in Entities, ChangeElsewhere(e) PROVE TypeOK'
  <2>1. row' \in [Entities -> Seq(Changes)]
    BY <1>5, Grown DEF ChangeElsewhere, TypeOK, Changes
  <2> QED BY <1>5, <2>1 DEF ChangeElsewhere, panel, TypeOK
<1> QED BY <1>1, <1>2, <1>3, <1>4, <1>5 DEF Serve

-----------------------------------------------------------------------------
(* The invariant *)

\* The command was rehearsed and its preview shown: it changes no more.
Reviewed(k) ==
  /\ preview[k].pc = "over" /\ preview[k].entity \in Entities \cap Affected(k)
  /\ \A e \in Affected(k) : preview[k].shown[e] # <<>>

\* What a preview shows of an entity is what the entity was at the revision the command
\* expects, followed by the correction.
Front(k, e) ==
  /\ e \in Affected(k)
  /\ Len(preview[k].shown[e]) = preview[k].expected[e] + 1
  /\ preview[k].shown[e][preview[k].expected[e] + 1] = k
  /\ preview[k].expected[e] <= Revision(e)
  /\ \A i \in 1 .. preview[k].expected[e] : preview[k].shown[e][i] = row[e][i]

Rehearsed(k) ==
  /\ preview[k].pc # "unused" => preview[k].entity \in Entities \cap Affected(k)
  /\ preview[k].pc = "reading" => preview[k].other \in Entities
  /\ preview[k].pc \in {"unused", "reading", "asked"} => \A e \in Entities : preview[k].shown[e] = <<>>
  /\ preview[k].pc = "answered" => \A e \in Affected(k) : preview[k].shown[e] # <<>>
  /\ \A e \in Entities : preview[k].shown[e] # <<>> => Front(k, e)

\* A correction that is in the store stands where its command expected to put it.
Placed(k) ==
  Asserted(k) =>
    /\ Reviewed(k)
    /\ \A e \in Entities :
         /\ \A i \in 1 .. Revision(e) : row[e][i] = k =>
              preview[k].shown[e] # <<>> /\ i = preview[k].expected[e] + 1
         /\ preview[k].shown[e] # <<>> =>
              preview[k].expected[e] < Revision(e) /\ row[e][preview[k].expected[e] + 1] = k

\* An entity has moved past what the command expects.
Stale(k) == \E e \in Affected(k) : preview[k].expected[e] < Revision(e)
Refused(k) == Reviewed(k) /\ Stale(k) /\ ~Asserted(k)

Truthful(k) ==
  /\ <<k, "recorded">> \in told => Asserted(k)
  /\ <<k, "changed">> \in told => Refused(k)
Heeded(s) ==
  post[s] # None =>
    /\ Reviewed(post[s].key)
    /\ post[s].net = "receipt" => Asserted(post[s].key)
    /\ post[s].net = "changed" => Refused(post[s].key)

IInv ==
  /\ TypeOK
  /\ \A k \in Keys : Rehearsed(k) /\ Placed(k) /\ Truthful(k)
  /\ \A s \in Sends : Heeded(s)
  /\ pending # None => Reviewed(pending)

-----------------------------------------------------------------------------
(* What a step does to the rows and to a preview *)

Writes(s) ==
  /\ Arrived(s) /\ ~Asserted(post[s].key) /\ Current(post[s].key)
  /\ row' = After(post[s].key) /\ Answer(s, "receipt") /\ UNCHANGED <<preview, panel, told>>

LEMMA RowStep ==
  ASSUME Next
  PROVE  \/ UNCHANGED row
         \/ \E s \in Sends : Writes(s)
         \/ \E e \in Entities : ChangeElsewhere(e)
<1>1. Operate => UNCHANGED row
  BY DEF Operate, Edit, Mount, Load, AskCreate, AskOne, AskSplit, AskTwo, Ask, Confirm
<1>2. Hear => UNCHANGED row
  BY DEF Hear, ShowDetail, ReadOther, ShowPreview, Receipt, Changed
<1>3. Miss => UNCHANGED row
  BY DEF Miss, ReadDenied, LoadFails, PreviewFails, Unsure
<1>4. ASSUME NEW s \in Sends, Apply(s) PROVE UNCHANGED row \/ Writes(s)
  BY <1>4 DEF Apply, Writes
<1>5. Serve => UNCHANGED row \/ (\E s \in Sends : Writes(s)) \/ \E e \in Entities : ChangeElsewhere(e)
  BY <1>4 DEF Serve, ReadDetail, Rehearse, Rollback
<1> QED BY <1>1, <1>2, <1>3, <1>5 DEF Next

LEMMA RowsGrow ==
  ASSUME TypeOK, Next, NEW e \in Entities
  PROVE  /\ Revision(e) \in Nat /\ Revision(e)' \in Nat /\ Revision(e) <= Revision(e)'
         /\ \A i \in 1 .. Revision(e) : row'[e][i] = row[e][i]
<1>1. Revision(e) \in Nat /\ row[e] \in Seq(Changes)
  BY RevisionType
<1>2. CASE UNCHANGED row
  BY <1>1, <1>2 DEF Revision
<1>3. ASSUME NEW s \in Sends, Writes(s)
      PROVE  row'[e] = row[e] \/ \E k \in Keys : row'[e] = Append(row[e], k)
  <2>1. post[s].key \in Keys
    BY <1>3 DEF Writes, Arrived, TypeOK, Post
  <2> QED BY <1>3, <2>1 DEF Writes, After
<1>4. ASSUME NEW f \in Entities, ChangeElsewhere(f)
      PROVE  row'[e] = row[e] \/ row'[e] = Append(row[e], Elsewhere)
  BY <1>4 DEF ChangeElsewhere, TypeOK
<1>5. row'[e] = row[e] \/ \E x \in Changes : row'[e] = Append(row[e], x)
  BY <1>2, <1>3, <1>4, RowStep DEF Changes
<1> QED BY <1>1, <1>5, Grown DEF Revision

LEMMA RowType ==
  ASSUME TypeOK, Next
  PROVE  row' \in [Entities -> Seq(Changes)]
<1>1. CASE UNCHANGED row
  BY <1>1 DEF TypeOK
<1>2. ASSUME NEW s \in Sends, Writes(s) PROVE row' \in [Entities -> Seq(Changes)]
  BY <1>2, AfterType DEF Writes, Arrived, TypeOK, Post
<1>3. ASSUME NEW e \in Entities, ChangeElsewhere(e) PROVE row' \in [Entities -> Seq(Changes)]
  BY <1>3, Grown DEF ChangeElsewhere, TypeOK, Changes
<1> QED BY <1>1, <1>2, <1>3, RowStep

\* Asserted after a step, with the place.
LEMMA AssertedThen ==
  ASSUME TypeOK, Next, NEW k \in Keys
  PROVE  Asserted(k)' <=> \E e \in Entities : \E i \in 1 .. Revision(e)' : row'[e][i] = k
<1>1. \A e \in Entities : DOMAIN row'[e] = 1 .. Revision(e)'
  BY RowType, LenProperties DEF Revision
<1>2. Asserted(k)' <=> \E e \in Entities : \E i \in DOMAIN row'[e] : row'[e][i] = k
  BY DEF Asserted
<1> QED BY <1>1, <1>2

LEMMA AssertedStays ==
  ASSUME TypeOK, Next, NEW k \in Keys, Asserted(k)
  PROVE  Asserted(k)'
<1>1. PICK e \in Entities : \E i \in DOMAIN row[e] : row[e][i] = k
  BY DEF Asserted
<1>2. PICK i \in 1 .. Revision(e) : row[e][i] = k
  BY <1>1, RevisionType
<1>3. Revision(e) <= Revision(e)' /\ row'[e][i] = k /\ Revision(e) \in Nat /\ Revision(e)' \in Nat
  BY <1>2, RowsGrow
<1>4. i \in 1 .. Revision(e)'
  BY <1>3
<1> QED BY <1>3, <1>4, AssertedThen

\* Only a command that is written appears.
LEMMA Appears ==
  ASSUME TypeOK, Next, NEW k \in Keys, NEW e \in Entities,
         NEW i \in 1 .. Revision(e)', row'[e][i] = k
  PROVE  \/ i \in 1 .. Revision(e) /\ row[e][i] = k
         \/ /\ \E s \in Sends : Writes(s) /\ post[s].key = k
            /\ e \in Affected(k) /\ i = Revision(e) + 1
<1>1. Revision(e) \in Nat /\ row[e] \in Seq(Changes)
  BY RevisionType
<1>2. CASE UNCHANGED row
  BY <1>2 DEF Revision
<1>3. ASSUME NEW s \in Sends, Writes(s)
      PROVE  \/ i \in 1 .. Revision(e) /\ row[e][i] = k
             \/ post[s].key = k /\ e \in Affected(k) /\ i = Revision(e) + 1
  <2> DEFINE j == post[s].key
  <2>1. j \in Keys /\ j \in Changes
    BY <1>3 DEF Writes, Arrived, TypeOK, Post, Changes
  <2>2. CASE e \notin Affected(j)
    BY <1>3, <2>1, <2>2 DEF Writes, After, Revision
  <2>3. CASE e \in Affected(j)
    <3>1. row'[e] = Append(row[e], j)
      BY <1>3, <2>1, <2>3 DEF Writes, After
    <3>2. Revision(e)' = Revision(e) + 1 /\ row'[e][Revision(e) + 1] = j
          /\ \A n \in 1 .. Revision(e) : row'[e][n] = row[e][n]
      BY <1>1, <2>1, <3>1, Grown DEF Revision
    <3> QED BY <1>1, <2>3, <3>2
  <2> QED BY <2>2, <2>3
<1>4. ASSUME NEW f \in Entities, ChangeElsewhere(f)
      PROVE  i \in 1 .. Revision(e) /\ row[e][i] = k
  <2>1. CASE f # e
    BY <1>4, <2>1 DEF ChangeElsewhere, TypeOK, Revision
  <2>2. CASE f = e
    <3>1. row'[e] = Append(row[e], Elsewhere) /\ Elsewhere \in Changes
      BY <1>4, <2>2 DEF ChangeElsewhere, TypeOK, Changes
    <3>2. Revision(e)' = Revision(e) + 1 /\ row'[e][Revision(e) + 1] = Elsewhere
          /\ \A n \in 1 .. Revision(e) : row'[e][n] = row[e][n]
      BY <1>1, <3>1, Grown DEF Revision
    <3> QED BY <1>1, <3>2, PanelConstants
  <2> QED BY <2>1, <2>2
<1> QED BY <1>2, <1>3, <1>4, RowStep

Begun(k) ==
  /\ preview[k].pc = "unused"
  /\ preview'[k].pc \in {"reading", "asked"} /\ preview'[k].entity \in Entities \cap preview'[k].affected
  /\ preview'[k].pc = "reading" => preview'[k].other \in Entities
  /\ preview'[k].shown = Nothing
Closed(k) == Asking(k) /\ preview'[k] = [preview[k] EXCEPT !.pc = "over"]

LEMMA AskStep ==
  ASSUME TypeOK, NEW j \in Keys, NEW command, Ask(j, command), NEW k \in Keys,
         command.pc \in {"reading", "asked"}, command.shown = Nothing,
         command.entity \in Entities \cap command.affected,
         command.pc = "reading" => command.other \in Entities
  PROVE  preview'[k] = preview[k] \/ Begun(k)
BY DEF Ask, Begun, TypeOK

LEMMA PreviewStep ==
  ASSUME TypeOK, Next, NEW k \in Keys
  PROVE  \/ preview'[k] = preview[k]
         \/ Begun(k) \/ Closed(k) \/ ReadOther(k) \/ Rehearse(k)
<1>1. CASE Operate
  <2>1. Edit \/ (\E e \in Entities : Load(e)) \/ (\E s \in Sends : Confirm(s)) => preview' = preview
    BY DEF Edit, Load, Confirm
  <2>2. Mount => preview'[k] = preview[k] \/ Closed(k)
    BY DEF Mount, Closed
  <2>3. ASSUME NEW j \in Keys, AskCreate(j) PROVE preview'[k] = preview[k] \/ Begun(k)
    BY <2>3, AskStep DEF AskCreate, Command
  <2>4. ASSUME NEW j \in Keys, AskOne(j) PROVE preview'[k] = preview[k] \/ Begun(k)
    <3>1. selected.id \in Entities
      BY <2>4, AsSelectedType DEF AskOne
    <3> QED BY <2>4, <3>1, AskStep DEF AskOne, Command
  <2>5. ASSUME NEW j \in Keys, AskSplit(j) PROVE preview'[k] = preview[k] \/ Begun(k)
    <3>1. selected.id \in Entities
      BY <2>5, AsSelectedType DEF AskSplit
    <3> QED BY <2>5, <3>1, AskStep DEF AskSplit, Command
  <2>6. ASSUME NEW j \in Keys, AskTwo(j) PROVE preview'[k] = preview[k] \/ Begun(k)
    <3>1. selected.id \in Entities
      BY <2>6, AsSelectedType DEF AskTwo
    <3> QED BY <2>6, <3>1, AskStep DEF AskTwo, Command
  <2> QED BY <1>1, <2>1, <2>2, <2>3, <2>4, <2>5, <2>6 DEF Operate
<1>2. CASE Hear
  <2>1. ShowDetail \/ (\E s \in Sends : Receipt(s) \/ Changed(s)) => preview' = preview
    BY DEF ShowDetail, Receipt, Changed
  <2>2. ASSUME NEW j \in Keys, ReadOther(j) PROVE preview'[k] = preview[k] \/ ReadOther(k)
    BY <2>2 DEF ReadOther, TypeOK
  <2>3. ASSUME NEW j \in Keys, ShowPreview(j) PROVE preview'[k] = preview[k] \/ Closed(k)
    BY <2>3 DEF ShowPreview, Closed, Asking, TypeOK
  <2> QED BY <1>2, <2>1, <2>2, <2>3 DEF Hear
<1>3. CASE Miss
  <2>1. ASSUME NEW j \in Keys, NEW denied \in BOOLEAN, PreviewFails(j, denied)
        PROVE  preview'[k] = preview[k] \/ Closed(k)
    BY <2>1 DEF PreviewFails, Closed, TypeOK
  <2> QED BY <1>3, <2>1 DEF Miss, ReadDenied, LoadFails, Unsure
<1>4. CASE Serve
  <2>1. ASSUME NEW j \in Keys, Rehearse(j) PROVE preview'[k] = preview[k] \/ Rehearse(k)
    BY <2>1 DEF Rehearse, TypeOK
  <2> QED BY <1>4, <2>1 DEF Serve, ReadDetail, Apply, Rollback, ChangeElsewhere
<1> QED BY <1>1, <1>2, <1>3, <1>4 DEF Next

LEMMA ReviewedStays ==
  ASSUME TypeOK, Next, NEW k \in Keys, Reviewed(k)
  PROVE  preview'[k] = preview[k] /\ Reviewed(k)'
<1>1. preview'[k] = preview[k]
  BY PreviewStep DEF Reviewed, Begun, Closed, Asking, ReadOther, Rehearse
<1> QED BY <1>1 DEF Reviewed, Affected

-----------------------------------------------------------------------------
(* The invariant is preserved *)

LEMMA FrontStays ==
  ASSUME TypeOK, Next, NEW k \in Keys, NEW e \in Entities, Front(k, e),
         preview'[k].affected = preview[k].affected, preview'[k].expected = preview[k].expected,
         preview'[k].shown = preview[k].shown
  PROVE  Front(k, e)'
<1>1. preview[k].expected[e] \in Nat
  BY DEF TypeOK, Preview
<1>2. Revision(e) \in Nat /\ Revision(e)' \in Nat /\ Revision(e) <= Revision(e)'
      /\ \A i \in 1 .. Revision(e) : row'[e][i] = row[e][i]
  BY RowsGrow
<1>3. \A i \in 1 .. preview[k].expected[e] : i \in 1 .. Revision(e)
  BY <1>1, <1>2 DEF Front
<1> QED BY <1>1, <1>2, <1>3 DEF Front, Affected

LEMMA RehearsedStep ==
  ASSUME TypeOK, Next, NEW k \in Keys, Rehearsed(k)
  PROVE  Rehearsed(k)'
<1>1. CASE preview'[k] = preview[k]
  BY <1>1, FrontStays DEF Rehearsed, Affected
<1>2. CASE Begun(k)
  BY <1>2 DEF Begun, Rehearsed, Nothing, Affected
<1>3. CASE Closed(k)
  <2>1. /\ preview'[k].pc = "over" /\ preview'[k].entity = preview[k].entity
        /\ preview'[k].affected = preview[k].affected /\ preview'[k].shown = preview[k].shown
        /\ preview'[k].expected = preview[k].expected /\ preview[k].pc # "unused"
    BY <1>3 DEF Closed, Asking, TypeOK, Preview
  <2> QED BY <2>1, FrontStays DEF Rehearsed, Affected
<1>4. CASE ReadOther(k)
  <2>1. preview[k].pc = "reading" /\ preview[k] \in Preview
    BY <1>4 DEF ReadOther, TypeOK
  <2>2. /\ preview'[k].pc = "asked" /\ preview'[k].shown = preview[k].shown
        /\ preview'[k].entity = preview[k].entity
        /\ preview[k].affected \subseteq preview'[k].affected
    BY <1>4, <2>1 DEF ReadOther, TypeOK, Preview
  <2> QED BY <2>1, <2>2 DEF Rehearsed, Affected
<1>5. CASE Rehearse(k)
  <2> DEFINE sh == [e \in Entities |-> IF e \in Affected(k) THEN After(k)[e] ELSE <<>>]
  <2>1. preview[k].pc = "asked" /\ preview[k] \in Preview /\ Current(k) /\ UNCHANGED row
    BY <1>5 DEF Rehearse, TypeOK
  <2>2. /\ preview'[k].pc = "answered" /\ preview'[k].shown = sh
        /\ preview'[k].entity = preview[k].entity
        /\ preview'[k].affected = preview[k].affected
        /\ preview'[k].expected = preview[k].expected
    BY <1>5, <2>1 DEF Rehearse, TypeOK, Preview
  <2>3. \A e \in Affected(k) : e \in Entities /\ sh[e] = Append(row[e], k)
    BY <2>1 DEF After, Affected, Preview
  <2>4. ASSUME NEW e \in Affected(k) PROVE sh[e] # <<>> /\ Front(k, e)'
    <3> HIDE DEF sh
    <3>1. row[e] \in Seq(Changes) /\ k \in Changes /\ preview[k].expected[e] = Revision(e)
      BY <2>1, <2>3 DEF TypeOK, Current, Changes
    <3>2. sh[e] = Append(row[e], k)
      BY <2>3
    <3>3. /\ sh[e] # <<>> /\ Len(sh[e]) = Revision(e) + 1 /\ sh[e][Revision(e) + 1] = k
          /\ Revision(e) \in Nat /\ \A i \in 1 .. Revision(e) : sh[e][i] = row[e][i]
      BY <3>1, <3>2, Grown DEF Revision
    <3>4. Revision(e)' = Revision(e) /\ row'[e] = row[e]
      BY <2>1 DEF Revision
    <3> QED BY <2>2, <3>1, <3>3, <3>4 DEF Front, Affected
  <2>5. \A e \in Entities : e \notin Affected(k) => sh[e] = <<>>
    OBVIOUS
  <2> HIDE DEF sh
  <2> QED BY <2>1, <2>2, <2>4, <2>5 DEF Rehearsed, Affected
<1> QED BY <1>1, <1>2, <1>3, <1>4, <1>5, PreviewStep

\* A command that is written was reviewed, and finds what its preview found.
LEMMA PlacedStep ==
  ASSUME IInv, Next, NEW k \in Keys
  PROVE  Placed(k)'
<1> USE DEF IInv
<1> SUFFICES ASSUME Asserted(k)'
    PROVE  /\ Reviewed(k)'
           /\ \A e \in Entities :
                /\ \A i \in 1 .. Revision(e)' : row'[e][i] = k =>
                     preview'[k].shown[e] # <<>> /\ i = preview'[k].expected[e] + 1
                /\ preview'[k].shown[e] # <<>> =>
                     /\ preview'[k].expected[e] < Revision(e)'
                     /\ row'[e][preview'[k].expected[e] + 1] = k
  BY DEF Placed
<1>1. CASE Asserted(k)
  <2>1. Reviewed(k) /\ Reviewed(k)' /\ preview'[k] = preview[k]
    BY <1>1, ReviewedStays DEF Placed
  <2>2. \A s \in Sends : Writes(s) => post[s].key # k
    BY <1>1 DEF Writes
  <2>3. ASSUME NEW e \in Entities, NEW i \in 1 .. Revision(e)', row'[e][i] = k
        PROVE  preview'[k].shown[e] # <<>> /\ i = preview'[k].expected[e] + 1
    <3>1. i \in 1 .. Revision(e) /\ row[e][i] = k
      BY <2>2, <2>3, Appears
    <3> QED BY <1>1, <2>1, <3>1 DEF Placed
  <2>4. ASSUME NEW e \in Entities, preview'[k].shown[e] # <<>>
        PROVE  preview'[k].expected[e] < Revision(e)' /\ row'[e][preview'[k].expected[e] + 1] = k
    <3>1. preview[k].expected[e] < Revision(e) /\ row[e][preview[k].expected[e] + 1] = k
      BY <1>1, <2>1, <2>4 DEF Placed
    <3>2. preview[k].expected[e] \in Nat
      BY DEF TypeOK, Preview
    <3>3. Revision(e) \in Nat /\ Revision(e)' \in Nat /\ Revision(e) <= Revision(e)'
          /\ \A i \in 1 .. Revision(e) : row'[e][i] = row[e][i]
      BY RowsGrow
    <3>4. preview[k].expected[e] + 1 \in 1 .. Revision(e)
      BY <3>1, <3>2, <3>3
    <3> QED BY <2>1, <3>1, <3>2, <3>3, <3>4
  <2> QED BY <2>1, <2>3, <2>4
<1>2. CASE ~Asserted(k)
  <2>1. \A e \in Entities : \A i \in 1 .. Revision(e) : row[e][i] # k
    BY <1>2, RevisionType DEF Asserted
  <2>2. PICK f \in Entities : \E i \in 1 .. Revision(f)' : row'[f][i] = k
    BY AssertedThen
  <2>3. PICK s \in Sends : Writes(s) /\ post[s].key = k
    BY <2>1, <2>2, Appears
  <2>4. Reviewed(k) /\ Reviewed(k)' /\ preview'[k] = preview[k]
    BY <2>3, ReviewedStays DEF Heeded, Writes, Arrived
  <2>5. \A e \in Entities : preview[k].shown[e] # <<>> <=> e \in Affected(k)
    BY <2>4 DEF Reviewed, Rehearsed, Front
  <2>6. ASSUME NEW e \in Entities, e \in Affected(k)
        PROVE  /\ preview[k].expected[e] = Revision(e) /\ Revision(e)' = Revision(e) + 1
               /\ row'[e][Revision(e) + 1] = k /\ Revision(e) \in Nat
    <3>1. row'[e] = Append(row[e], k) /\ k \in Changes /\ row[e] \in Seq(Changes)
      BY <2>3, <2>6 DEF Writes, After, TypeOK, Changes
    <3> QED BY <2>3, <2>6, <3>1, Grown DEF Writes, Current, Revision
  <2>7. ASSUME NEW e \in Entities, NEW i \in 1 .. Revision(e)', row'[e][i] = k
        PROVE  preview'[k].shown[e] # <<>> /\ i = preview'[k].expected[e] + 1
    <3>1. e \in Affected(k) /\ i = Revision(e) + 1
      BY <2>1, <2>7, Appears
    <3> QED BY <2>4, <2>5, <2>6, <3>1
  <2>8. ASSUME NEW e \in Entities, preview'[k].shown[e] # <<>>
        PROVE  preview'[k].expected[e] < Revision(e)' /\ row'[e][preview'[k].expected[e] + 1] = k
    BY <2>4, <2>5, <2>6, <2>8
  <2> QED BY <2>4, <2>7, <2>8
<1> QED BY <1>1, <1>2

LEMMA RefusedStays ==
  ASSUME IInv, Next, NEW k \in Keys, Refused(k)
  PROVE  Refused(k)'
<1> USE DEF IInv
<1>1. preview'[k] = preview[k] /\ Reviewed(k)'
  BY ReviewedStays DEF Refused
<1>2. PICK e \in Affected(k) : preview[k].expected[e] < Revision(e)
  BY DEF Refused, Stale
<1>3. e \in Entities /\ preview[k].expected[e] \in Nat
  BY DEF TypeOK, Preview, Affected
<1>4. Revision(e) \in Nat /\ Revision(e)' \in Nat /\ Revision(e) <= Revision(e)'
  BY <1>3, RowsGrow
<1>5. Stale(k)'
  BY <1>1, <1>2, <1>3, <1>4 DEF Stale, Affected
<1>6. \A s \in Sends : Writes(s) => post[s].key # k
  BY <1>2, <1>3, <1>4 DEF Writes, Current
<1>7. ~Asserted(k)'
  <2> SUFFICES ASSUME Asserted(k)' PROVE FALSE
    OBVIOUS
  <2>1. PICK f \in Entities : \E i \in 1 .. Revision(f)' : row'[f][i] = k
    BY AssertedThen
  <2>2. PICK i \in 1 .. Revision(f)' : row'[f][i] = k
    BY <2>1
  <2>3. i \in 1 .. Revision(f) /\ row[f][i] = k
    BY <1>6, <2>2, Appears
  <2> QED BY <2>3, RevisionType DEF Refused, Asserted
<1> QED BY <1>1, <1>5, <1>7 DEF Refused

\* What a step does to the requests, to what is told and to what is pending.
Sent(s) == post[s] = None /\ pending # None /\ post'[s] = [key |-> pending, net |-> "sent", waits |-> TRUE]

LEMMA PostStep ==
  ASSUME TypeOK, Next, NEW s \in Sends
  PROVE  \/ post'[s] = post[s]
         \/ post[s] # None /\ post'[s] # None /\ post'[s].key = post[s].key /\ post'[s].net = post[s].net
         \/ Sent(s) \/ Apply(s) \/ Rollback(s)
<1>0. post[s] # None => post[s] \in Post /\ [post[s] EXCEPT !.waits = FALSE] \in Post
  BY DEF TypeOK, Post
<1>1. \A r \in Sends : Waits(r) /\ Heard(r) =>
        \/ post'[s] = post[s]
        \/ post[s] # None /\ post'[s] = [post[s] EXCEPT !.waits = FALSE]
  BY DEF Heard, Waits, TypeOK
<1>2. CASE Operate
  <2>1. Edit \/ (\E e \in Entities : Load(e)) => post' = post
    BY DEF Edit, Load
  <2>2. (\E k \in Keys : AskCreate(k) \/ AskOne(k) \/ AskSplit(k) \/ AskTwo(k)) => post' = post
    BY DEF AskCreate, AskOne, AskSplit, AskTwo, Ask
  <2>3. Mount => post'[s] = post[s] \/ (post[s] # None /\ post'[s] = [post[s] EXCEPT !.waits = FALSE])
    BY DEF Mount, Waits
  <2>4. ASSUME NEW r \in Sends, Confirm(r) PROVE post'[s] = post[s] \/ Sent(s)
    BY <2>4 DEF Confirm, Sent, TypeOK
  <2> QED BY <1>0, <1>2, <2>1, <2>2, <2>3, <2>4, PanelConstants DEF Operate, Post
<1>3. CASE Hear
  <2>1. ShowDetail \/ (\E k \in Keys : ReadOther(k) \/ ShowPreview(k)) => post' = post
    BY DEF ShowDetail, ReadOther, ShowPreview
  <2> QED BY <1>0, <1>1, <1>3, <2>1, PanelConstants DEF Hear, Receipt, Changed, Post
<1>4. CASE Miss
  BY <1>0, <1>1, <1>4, PanelConstants DEF Miss, ReadDenied, LoadFails, PreviewFails, Unsure, Post
<1>5. CASE Serve
  <2>1. ASSUME NEW r \in Sends, Apply(r) \/ Rollback(r)
        PROVE  post'[s] = post[s] \/ Apply(s) \/ Rollback(s)
    BY <2>1 DEF Apply, Rollback, Answer, TypeOK
  <2> QED BY <1>5, <2>1 DEF Serve, ReadDetail, Rehearse, ChangeElsewhere
<1> QED BY <1>2, <1>3, <1>4, <1>5 DEF Next

LEMMA ToldStep ==
  ASSUME Next
  PROVE  \/ UNCHANGED told
         \/ \E s \in Sends : Receipt(s) \/ Changed(s)
<1>1. Operate => UNCHANGED told
  BY DEF Operate, Edit, Mount, Load, AskCreate, AskOne, AskSplit, AskTwo, Ask, Confirm
<1>2. Hear => UNCHANGED told \/ \E s \in Sends : Receipt(s) \/ Changed(s)
  BY DEF Hear, ShowDetail, ReadOther, ShowPreview
<1>3. Miss => UNCHANGED told
  BY DEF Miss, ReadDenied, LoadFails, PreviewFails, Unsure
<1>4. Serve => UNCHANGED told
  BY DEF Serve, ReadDetail, Rehearse, Apply, Rollback, ChangeElsewhere
<1> QED BY <1>1, <1>2, <1>3, <1>4 DEF Next

LEMMA PendingStep ==
  ASSUME Next
  PROVE  \/ pending' \in {None, pending}
         \/ \E k \in Keys : ShowPreview(k) /\ pending' = k
<1>1. Operate => pending' \in {None, pending}
  BY DEF Operate, Edit, Mount, Load, AskCreate, AskOne, AskSplit, AskTwo, Ask, Confirm, Invalidate
<1>2. Hear => pending' \in {None, pending} \/ \E k \in Keys : ShowPreview(k) /\ pending' = k
  BY DEF Hear, ShowDetail, ReadOther, ShowPreview, Receipt, Changed, Invalidate
<1>3. Miss => pending' \in {None, pending}
  BY DEF Miss, ReadDenied, LoadFails, PreviewFails, Unsure, Fail, Invalidate
<1>4. Serve => pending' \in {None, pending}
  BY DEF Serve, ReadDetail, Rehearse, Apply, Rollback, ChangeElsewhere, panel
<1> QED BY <1>1, <1>2, <1>3, <1>4 DEF Next

\* The store answers "changed" only to a command that nothing will put in any more.
LEMMA HeededStep ==
  ASSUME IInv, Next, NEW s \in Sends
  PROVE  Heeded(s)'
<1> USE DEF IInv
<1>1. CASE post'[s] = post[s] \/
           (post[s] # None /\ post'[s] # None /\ post'[s].key = post[s].key /\ post'[s].net = post[s].net)
  <2>1. CASE post[s] = None
    BY <1>1, <2>1 DEF Heeded
  <2>2. CASE post[s] # None
    <3>1. post[s].key \in Keys /\ post'[s].key = post[s].key /\ post'[s].net = post[s].net
      BY <1>1, <2>2 DEF TypeOK, Post
    <3>3. post[s].net = "receipt" => \A k \in Keys : k = post[s].key => Asserted(k)'
      BY <2>2, AssertedStays DEF Heeded
    <3>4. post[s].net = "changed" => \A k \in Keys : k = post[s].key => Refused(k)'
      BY <2>2, RefusedStays DEF Heeded
    <3>5. \A k \in Keys : k = post[s].key => Reviewed(k)'
      BY <2>2, ReviewedStays DEF Heeded
    <3> QED BY <3>1, <3>3, <3>4, <3>5 DEF Heeded
  <2> QED BY <2>1, <2>2
<1>2. CASE Sent(s)
  <2>1. pending \in Keys /\ post'[s].key = pending /\ post'[s].net = "sent"
    BY <1>2 DEF Sent, TypeOK
  <2>2. Reviewed(pending) /\ \A k \in Keys : k = pending => Reviewed(k)'
    BY <1>2, <2>1, ReviewedStays DEF Sent
  <2> QED BY <2>1, <2>2 DEF Heeded
<1>3. CASE Apply(s)
  <2> DEFINE k == post[s].key
  <2>1. post[s] # None /\ post[s] \in Post /\ k \in Keys /\ Reviewed(k) /\ post'[s].key = k
    BY <1>3 DEF Apply, Arrived, Answer, TypeOK, Post, Heeded
  <2>2. Reviewed(k)' /\ preview'[k] = preview[k]
    BY <2>1, ReviewedStays
  <2>3. CASE Asserted(k) /\ Answer(s, "receipt")
    <3>1. Asserted(k)' /\ post'[s].net = "receipt"
      BY <2>1, <2>3, AssertedStays DEF Answer, TypeOK, Post
    <3> QED BY <2>1, <2>2, <3>1 DEF Heeded
  <2>4. CASE ~Asserted(k) /\ ~Current(k) /\ Answer(s, "changed")
    <3>1. PICK e \in Affected(k) : preview[k].expected[e] # Revision(e)
      BY <2>4 DEF Current
    <3>2. e \in Entities /\ preview[k].expected[e] \in Nat
      BY <2>1 DEF TypeOK, Preview, Affected
    <3>3. preview[k].expected[e] <= Revision(e) /\ Revision(e) \in Nat
      BY <2>1, <3>2, RevisionType DEF Reviewed, Rehearsed, Front
    <3>4. Refused(k)
      BY <2>1, <2>4, <3>1, <3>2, <3>3 DEF Refused, Stale
    <3>5. Refused(k)' /\ post'[s].net = "changed"
      BY <2>1, <2>4, <3>4, RefusedStays DEF Answer, TypeOK, Post
    <3> QED BY <2>1, <2>2, <3>5 DEF Heeded
  <2>5. CASE Writes(s)
    <3>1. PICK e \in Affected(k) : e \in Entities
      BY <2>1 DEF Reviewed
    <3>2. row'[e] = Append(row[e], k) /\ k \in Changes /\ row[e] \in Seq(Changes)
      BY <2>1, <2>5, <3>1 DEF Writes, After, TypeOK, Changes
    <3>3. Revision(e)' = Revision(e) + 1 /\ Revision(e) \in Nat /\ row'[e][Revision(e) + 1] = k
      BY <3>2, Grown DEF Revision
    <3>4. Asserted(k)'
      BY <2>1, <3>1, <3>3, AssertedThen
    <3>5. post'[s].net = "receipt"
      BY <2>1, <2>5 DEF Writes, Answer, TypeOK, Post
    <3> QED BY <2>1, <2>2, <3>4, <3>5 DEF Heeded
  <2> QED BY <1>3, <2>3, <2>4, <2>5 DEF Apply, Writes
<1>4. CASE Rollback(s)
  <2>1. /\ post[s] # None /\ post[s].key \in Keys /\ post'[s].key = post[s].key
        /\ post'[s].net = "error"
    BY <1>4 DEF Rollback, Arrived, Answer, TypeOK, Post
  <2>2. \A k \in Keys : k = post[s].key => Reviewed(k)'
    BY <2>1, ReviewedStays DEF Heeded
  <2> QED BY <2>1, <2>2 DEF Heeded
<1> QED BY <1>1, <1>2, <1>3, <1>4, PostStep

LEMMA TruthfulStep ==
  ASSUME IInv, Next, NEW k \in Keys
  PROVE  Truthful(k)'
<1> USE DEF IInv
<1>1. <<k, "recorded">> \in told' =>
        <<k, "recorded">> \in told \/ \E s \in Sends : Receipt(s) /\ post[s].key = k
  BY ToldStep DEF Receipt, Changed
<1>2. <<k, "changed">> \in told' =>
        <<k, "changed">> \in told \/ \E s \in Sends : Changed(s) /\ post[s].key = k
  BY ToldStep DEF Receipt, Changed
<1>3. <<k, "recorded">> \in told' => Asserted(k)
  BY <1>1 DEF Truthful, Heeded, Receipt, Waits
<1>4. <<k, "changed">> \in told' => Refused(k)
  BY <1>2 DEF Truthful, Heeded, Changed, Waits
<1> QED BY <1>3, <1>4, AssertedStays, RefusedStays DEF Truthful

LEMMA TypeStep ==
  ASSUME IInv, Next
  PROVE  TypeOK'
<1>1. \A k \in Keys : preview[k].pc = "reading" => preview[k].other \in Entities
  BY DEF IInv, Rehearsed
<1>2. \A s \in Sends : post[s] # None => preview[post[s].key].entity \in Entities
  BY DEF IInv, Heeded, Reviewed
<1> QED BY <1>1, <1>2, OperateType, HearType, MissType, ServeType DEF IInv, Next

LEMMA InitHolds == Init => IInv
<1> SUFFICES ASSUME Init PROVE IInv
  OBVIOUS
<1>1. TypeOK
  BY InitType
<1>2. \A k \in Keys : ~Asserted(k)
  BY EmptySeq DEF Init, Asserted
<1>3. \A k \in Keys : Rehearsed(k)
  BY DEF Init, Unused, Command, Nothing, Rehearsed
<1> QED BY <1>1, <1>2, <1>3 DEF Init, IInv, Placed, Truthful, Heeded

LEMMA Inductive == IInv /\ [Next]_vars => IInv'
<1>1. ASSUME IInv, Next PROVE IInv'
  <2>1. \A k \in Keys : Rehearsed(k)' /\ Placed(k)' /\ Truthful(k)'
    BY <1>1, RehearsedStep, PlacedStep, TruthfulStep DEF IInv
  <2>2. \A s \in Sends : Heeded(s)'
    BY <1>1, HeededStep
  <2>3. ASSUME pending' # None PROVE Reviewed(pending)'
    <3>1. CASE pending' = pending
      <4>1. pending \in Keys /\ Reviewed(pending)
        BY <1>1, <2>3, <3>1 DEF IInv, TypeOK
      <4>2. \A k \in Keys : k = pending => Reviewed(k)'
        BY <1>1, <4>1, ReviewedStays DEF IInv
      <4> QED BY <3>1, <4>1, <4>2
    <3>2. ASSUME NEW k \in Keys, ShowPreview(k), pending' = k PROVE Reviewed(k)'
      <4>1. /\ preview[k].pc = "answered" /\ preview'[k].pc = "over"
            /\ preview'[k].shown = preview[k].shown /\ preview'[k].affected = preview[k].affected
            /\ preview'[k].entity = preview[k].entity
        BY <1>1, <3>2 DEF ShowPreview, IInv, TypeOK, Preview
      <4> QED BY <1>1, <4>1 DEF IInv, Rehearsed, Reviewed, Affected
    <3>3. \A k \in Keys : k = pending' => (Reviewed(k)' => Reviewed(pending)')
      OBVIOUS
    <3> QED BY <1>1, <2>3, <3>1, <3>2, <3>3, PendingStep
  <2> QED BY <1>1, <2>1, <2>2, <2>3, TypeStep DEF IInv
<1>2. ASSUME IInv, UNCHANGED vars PROVE IInv'
  BY <1>2 DEF IInv, vars, TypeOK, Rehearsed, Placed, Truthful, Heeded, Reviewed, Front, Asserted,
       Refused, Stale, Affected, Revision
<1> QED BY <1>1, <1>2

THEOREM Invariance == Spec => []IInv
BY InitHolds, Inductive, PTL DEF Spec

-----------------------------------------------------------------------------
(* Theorems *)

\* The panel and the store keep to their types.
THEOREM PanelTypeCorrect == Spec => []TypeOK
<1>1. IInv => TypeOK
  BY DEF IInv
<1> QED BY <1>1, Invariance, PTL

\* What a preview showed is what its confirmation puts in the store, once.
THEOREM PreviewsHonoured == Spec => []AppliedAsShown
<1>1. IInv => AppliedAsShown
  <2> SUFFICES ASSUME IInv, NEW k \in Keys, Asserted(k), NEW e \in Entities
      PROVE  LET at == {i \in DOMAIN row[e] : row[e][i] = k} IN
             IF preview[k].shown[e] = <<>>
             THEN at = {}
             ELSE \E i \in at : at = {i} /\ SubSeq(row[e], 1, i) = preview[k].shown[e]
    BY DEF AppliedAsShown
  <2> DEFINE at == {i \in DOMAIN row[e] : row[e][i] = k}
             sh == preview[k].shown[e]
             n == preview[k].expected[e] + 1
  <2>1. /\ Revision(e) \in Nat /\ row[e] \in Seq(Changes) /\ DOMAIN row[e] = 1 .. Revision(e)
        /\ sh \in Seq(Changes) /\ preview[k].expected[e] \in Nat
    BY RevisionType DEF IInv, TypeOK, Preview
  <2>2. CASE sh = <<>>
    BY <2>1, <2>2 DEF IInv, Placed
  <2>3. CASE sh # <<>>
    <3>1. n \in 1 .. Revision(e) /\ row[e][n] = k /\ \A i \in 1 .. Revision(e) : row[e][i] = k => i = n
      BY <2>1, <2>3 DEF IInv, Placed
    <3>2. at = {n}
      BY <2>1, <3>1
    <3>3. Len(sh) = n /\ \A i \in 1 .. n : sh[i] = row[e][i]
      BY <2>1, <2>3, <3>1 DEF IInv, Rehearsed, Front
    <3>4. \A i \in 1 .. n : row[e][i] \in Changes
      BY <2>1, <3>1, ElementOfSeq DEF Revision
    <3>5. /\ SubSeq(row[e], 1, n) \in Seq(Changes) /\ Len(SubSeq(row[e], 1, n)) = n
          /\ \A i \in 1 .. n : SubSeq(row[e], 1, n)[i] = row[e][i]
      BY <2>1, <3>1, <3>4, SubSeqProperties
    <3>6. SubSeq(row[e], 1, n) = sh
      BY <2>1, <3>3, <3>5, SeqEqual
    <3> QED BY <2>3, <3>2, <3>6
  <2> QED BY <2>2, <2>3
<1> QED BY <1>1, Invariance, PTL

\* What the panel has told of a confirmation is so, and stays so.
THEOREM PanelHonest == Spec => []AnswersTrue
<1>1. IInv => AnswersTrue
  BY DEF IInv, Truthful, Refused, AnswersTrue
<1> QED BY <1>1, Invariance, PTL
=============================================================================
