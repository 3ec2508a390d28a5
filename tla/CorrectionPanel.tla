--------------------------- MODULE CorrectionPanel ---------------------------
(***************************************************************************)
(* The browser panel that corrects entities (EntityWorkbench in            *)
(* api/_private/operator/assets/entity-workbench.mjs) talking to the store *)
(* (apply in vm/cybermap-api/src/entity-postgres-store.mjs) through a      *)
(* proxy whose answers may be late or lost.                                *)
(*                                                                         *)
(* EntityWorkbench.tla is about what a correction does; here a correction  *)
(* is only its idempotency key, and an entity is the sequence of changes   *)
(* it has had, so that its revision is their number and two histories are  *)
(* the same rows only if they are equal.                                   *)
(***************************************************************************)
EXTENDS Integers, Sequences

CONSTANTS
  Entities,
  Keys,          \* idempotency keys, a new one for each preview: bounds the previews
  Sends,         \* mutate requests: bounds the confirmations
  Elsewhere,     \* a change made by a model or another session
  MaxRevision,   \* bounds the changes made elsewhere
  None

Detail == [id : Entities, revision : Nat]
Post == [key : Keys, net : {"sent", "receipt", "changed", "error"}, waits : BOOLEAN]

ASSUME PanelConstants ==
  /\ None \notin Keys /\ Elsewhere \notin Keys
  /\ None \notin Detail /\ None \notin Post

VARIABLES
  row,           \* the store: the changes of each entity, <<>> where there is no row
  preview,       \* what has become of the preview of each key, with its command
  post,          \* the mutate requests, their way to the store and their answer
  selected,      \* the entity shown with the revision it was read at, or None
  loading,       \* the last load; revision 0 until the store has been read
  previewing,    \* the key whose preview still has the current token
  pending,       \* the key of the command that waits for a confirmation
  confirmable,   \* the confirm button is enabled
  canEdit,
  told           \* history: what the panel has told the operator of which key

panel == <<selected, loading, previewing, pending, confirmable, canEdit>>
vars == <<row, preview, post, selected, loading, previewing, pending, confirmable, canEdit, told>>

Changes == Keys \cup {Elsewhere}
Preview ==
  [pc : {"unused", "reading", "asked", "answered", "over"},
   entity : Entities \cup {None}, other : Entities \cup {None},
   affected : SUBSET Entities,         \* the keys of expected_revisions
   expected : [Entities -> Nat],       \* 0 for the others
   shown : [Entities -> Seq(Changes)]] \* <<>> for what the answer does not show

TypeOK ==
  /\ row \in [Entities -> Seq(Changes)]
  /\ preview \in [Keys -> Preview]
  /\ post \in [Sends -> Post \cup {None}]
  /\ selected \in Detail \cup {None} /\ loading \in Detail \cup {None}
  /\ previewing \in Keys \cup {None} /\ pending \in Keys \cup {None}
  /\ confirmable \in BOOLEAN /\ canEdit \in BOOLEAN
  /\ told \subseteq Keys \X {"recorded", "changed"}

Nothing == [e \in Entities |-> <<>>]
Command(pc, entity, other, affected, expected) ==
  [pc |-> pc, entity |-> entity, other |-> other, affected |-> affected,
   expected |-> expected, shown |-> Nothing]
Unused == Command("unused", None, None, {}, [e \in Entities |-> 0])

Init ==
  /\ row = [e \in Entities |-> <<>>]
  /\ preview = [k \in Keys |-> Unused]
  /\ post = [s \in Sends |-> None]
  /\ selected = None /\ loading = None /\ previewing = None /\ pending = None
  /\ confirmable = FALSE /\ canEdit = TRUE
  /\ told = {}

Revision(e) == Len(row[e])
Exists(e) == row[e] # <<>>
Affected(k) == preview[k].affected

\* A UUID nobody has used yet.
Fresh(e) == ~Exists(e) /\ \A k \in Keys : e \notin Affected(k)

-----------------------------------------------------------------------------
(* The panel *)

Invalidate == previewing' = None /\ pending' = None /\ confirmable' = FALSE

\* fail: a 401 or 403 ends the editing of this panel.
Fail(denied) ==
  IF denied THEN canEdit' = FALSE /\ Invalidate
            ELSE UNCHANGED <<canEdit, previewing, pending, confirmable>>

\* An edit of the form, or a page of the details whose revision is not the one shown.
Edit == Invalidate /\ UNCHANGED <<row, preview, post, selected, loading, canEdit, told>>

Load(e) ==
  /\ Exists(e)
  /\ Invalidate /\ loading' = [id |-> e, revision |-> 0]
  /\ UNCHANGED <<row, preview, post, selected, canEdit, told>>

ReadDetail ==
  /\ loading # None /\ loading.revision = 0
  /\ loading' = [loading EXCEPT !.revision = Revision(loading.id)]
  /\ UNCHANGED <<row, preview, post, selected, previewing, pending, confirmable, canEdit, told>>

\* The answer of the last load; those of earlier loads are dropped.  A preview that was
\* asked for meanwhile is not.
ShowDetail ==
  /\ loading # None /\ loading.revision # 0
  /\ selected' = loading /\ loading' = None
  /\ UNCHANGED <<row, preview, post, previewing, pending, confirmable, canEdit, told>>

LoadFails(denied) ==
  /\ loading # None /\ loading' = None
  /\ Fail(denied)
  /\ UNCHANGED <<row, preview, post, selected, told>>

\* A list, a page or a load that was dropped is refused: fail is called whoever asked.
ReadDenied == Fail(TRUE) /\ UNCHANGED <<row, preview, post, selected, loading, told>>

\* The preview button stays disabled until the preview before has ended.
Asking(k) == preview[k].pc \in {"reading", "asked", "answered"}

\* previewCorrection, and buildCommand up to its first request.
Ask(k, command) ==
  /\ canEdit /\ preview[k].pc = "unused" /\ \A j \in Keys : ~Asking(j)
  /\ preview' = [preview EXCEPT ![k] = command]
  /\ previewing' = k /\ pending' = None /\ confirmable' = FALSE
  /\ UNCHANGED <<row, post, selected, loading, canEdit, told>>

\* The revision the operator has been shown of the selected entity.
AsSelected == [e \in Entities |-> IF e = selected.id THEN selected.revision ELSE 0]

AskCreate(k) ==
  \E e \in Entities : Fresh(e) /\ Ask(k, Command("asked", e, None, {e}, [x \in Entities |-> 0]))
\* label, membership, reject, and an undo of any of them
AskOne(k) ==
  /\ selected # None
  /\ Ask(k, Command("asked", selected.id, None, {selected.id}, AsSelected))
AskSplit(k) ==
  /\ selected # None
  /\ \E e \in Entities : Fresh(e) /\
       Ask(k, Command("asked", selected.id, None, {selected.id, e}, AsSelected))
\* merge, and an undo of a merge or a split: the other entity's revision is asked for.
AskTwo(k) ==
  /\ selected # None
  /\ \E e \in Entities \ {selected.id} : Exists(e) /\
       Ask(k, Command("reading", selected.id, e, {selected.id}, AsSelected))

ReadOther(k) ==
  /\ preview[k].pc = "reading"
  /\ LET e == preview[k].other IN
     preview' = [preview EXCEPT ![k].pc = "asked", ![k].affected = @ \cup {e},
                                ![k].expected[e] = Revision(e)]
  /\ UNCHANGED <<row, post, selected, loading, previewing, pending, confirmable, canEdit, told>>

ShowPreview(k) ==
  /\ preview[k].pc = "answered"
  /\ preview' = [preview EXCEPT ![k].pc = "over"]
  /\ IF previewing = k THEN pending' = k /\ confirmable' = TRUE
                       ELSE UNCHANGED <<pending, confirmable>>
  /\ UNCHANGED <<row, post, selected, loading, previewing, canEdit, told>>

\* Refused by the store, or its answer lost.
PreviewFails(k, denied) ==
  /\ Asking(k)
  /\ preview' = [preview EXCEPT ![k].pc = "over"]
  /\ Fail(denied)
  /\ UNCHANGED <<row, post, selected, loading, told>>

\* confirmCorrection, up to its request: the command and its key are kept.
Confirm(s) ==
  /\ canEdit /\ pending # None /\ confirmable
  /\ post[s] = None
  /\ post' = [post EXCEPT ![s] = [key |-> pending, net |-> "sent", waits |-> TRUE]]
  /\ confirmable' = FALSE
  /\ UNCHANGED <<row, preview, selected, loading, previewing, pending, canEdit, told>>

Waits(s) == post[s] # None /\ post[s].waits
Heard(s) == post' = [post EXCEPT ![s].waits = FALSE]

Receipt(s) ==
  /\ Waits(s) /\ post[s].net = "receipt"
  /\ Heard(s) /\ Invalidate
  /\ loading' = [id |-> preview[post[s].key].entity, revision |-> 0]
  /\ told' = told \cup {<<post[s].key, "recorded">>}
  /\ UNCHANGED <<row, preview, selected, canEdit>>

Changed(s) ==
  /\ Waits(s) /\ post[s].net = "changed"
  /\ Heard(s) /\ Invalidate
  /\ told' = told \cup {<<post[s].key, "changed">>}
  /\ UNCHANGED <<row, preview, selected, loading, canEdit>>

\* Any other failure, and an answer that is lost or late: the command may be confirmed
\* again.  The button is enabled whatever is pending by now.
Unsure(s, denied) ==
  /\ Waits(s) /\ Heard(s)
  /\ IF denied THEN canEdit' = FALSE /\ Invalidate
               ELSE confirmable' = TRUE /\ UNCHANGED <<canEdit, previewing, pending>>
  /\ UNCHANGED <<row, preview, selected, loading, told>>

\* destroy, and a panel mounted anew: requests under way go on, nobody hears their answers.
Mount ==
  /\ selected' = None /\ loading' = None /\ Invalidate /\ canEdit' \in BOOLEAN
  /\ preview' = [k \in Keys |-> IF Asking(k) THEN [preview[k] EXCEPT !.pc = "over"] ELSE preview[k]]
  /\ post' = [s \in Sends |-> IF Waits(s) THEN [post[s] EXCEPT !.waits = FALSE] ELSE post[s]]
  /\ UNCHANGED <<row, told>>

-----------------------------------------------------------------------------
(* The store *)

\* loadForCommand: every affected entity is at the revision the command expects.
CurrentOfOne(k) == preview[k].expected[preview[k].entity] = Revision(preview[k].entity)
Current(k) == \A e \in Affected(k) : preview[k].expected[e] = Revision(e)

\* What the correction makes of the entities it affects.
After(k) == [e \in Entities |-> IF e \in Affected(k) THEN Append(row[e], k) ELSE row[e]]

\* entity_assertions has the key.
Asserted(k) == \E e \in Entities : \E i \in DOMAIN row[e] : row[e][i] = k

\* apply, rolled back.
Rehearse(k) ==
  /\ preview[k].pc = "asked" /\ Current(k)
  /\ preview' = [preview EXCEPT ![k].pc = "answered", ![k].shown =
       [e \in Entities |-> IF e \in Affected(k) THEN After(k)[e] ELSE <<>>]]
  /\ UNCHANGED <<row, post, selected, loading, previewing, pending, confirmable, canEdit, told>>

Answer(s, net) == post' = [post EXCEPT ![s].net = net]
Arrived(s) == post[s] # None /\ post[s].net = "sent"

\* Mutant: the revisions are compared before the key is looked up.
ApplyRevisionsFirst(s) ==
  LET k == post[s].key IN
  /\ Arrived(s)
  /\ \/ ~Current(k) /\ Answer(s, "changed") /\ UNCHANGED row
     \/ Current(k) /\ Asserted(k) /\ Answer(s, "receipt") /\ UNCHANGED row
     \/ Current(k) /\ ~Asserted(k) /\ Answer(s, "receipt") /\ row' = After(k)
  /\ UNCHANGED <<preview, panel, told>>

\* apply.
Apply(s) ==
  LET k == post[s].key IN
  /\ Arrived(s)
  /\ \/ Asserted(k) /\ Answer(s, "receipt") /\ UNCHANGED row
     \/ ~Asserted(k) /\ ~Current(k) /\ Answer(s, "changed") /\ UNCHANGED row
     \/ ~Asserted(k) /\ Current(k) /\ Answer(s, "receipt") /\ row' = After(k)
  /\ UNCHANGED <<preview, panel, told>>

\* The transaction is rolled back: a lock or a statement timed out, evidence is gone.
Rollback(s) ==
  /\ Arrived(s) /\ Answer(s, "error")
  /\ UNCHANGED <<row, preview, panel, told>>

\* publishHypothesis, or a correction from another session.
ChangeElsewhere(e) ==
  /\ Exists(e) \/ Fresh(e)
  /\ Revision(e) < MaxRevision
  /\ row' = [row EXCEPT ![e] = Append(@, Elsewhere)]
  /\ UNCHANGED <<preview, post, panel, told>>

-----------------------------------------------------------------------------
Operate ==
  \/ Edit \/ Mount
  \/ \E e \in Entities : Load(e)
  \/ \E k \in Keys : AskCreate(k) \/ AskOne(k) \/ AskSplit(k) \/ AskTwo(k)
  \/ \E s \in Sends : Confirm(s)
Hear ==
  \/ ShowDetail
  \/ \E k \in Keys : ReadOther(k) \/ ShowPreview(k)
  \/ \E s \in Sends : Receipt(s) \/ Changed(s)
Miss ==
  \/ ReadDenied
  \/ \E denied \in BOOLEAN :
       \/ LoadFails(denied)
       \/ \E k \in Keys : PreviewFails(k, denied)
       \/ \E s \in Sends : Unsure(s, denied)
Serve ==
  \/ ReadDetail
  \/ \E k \in Keys : Rehearse(k)
  \/ \E s \in Sends : Apply(s) \/ Rollback(s)
  \/ \E e \in Entities : ChangeElsewhere(e)

Next == Operate \/ Hear \/ Miss \/ Serve

Spec == Init /\ [][Next]_vars

-----------------------------------------------------------------------------
\* A correction is in the store exactly as its preview showed it, and only once: on every
\* entity that the preview showed and on no other, after the very changes the preview
\* started from.  Between the two lie other corrections, model refreshes, lost answers and
\* repeated confirmations.
AppliedAsShown ==
  \A k \in Keys : Asserted(k) =>
    \A e \in Entities :
      LET at == {i \in DOMAIN row[e] : row[e][i] = k} IN
      IF preview[k].shown[e] = <<>>
      THEN at = {}
      ELSE \E i \in at : at = {i} /\ SubSeq(row[e], 1, i) = preview[k].shown[e]

\* What the panel says of a confirmed correction stays true: "recorded" means it is in the
\* store, and "this entity changed" that it is not and that no copy of the request still
\* on its way will put it there.
AnswersTrue ==
  \A k \in Keys :
    /\ <<k, "recorded">> \in told => Asserted(k)
    /\ <<k, "changed">> \in told => ~Asserted(k)
=============================================================================
