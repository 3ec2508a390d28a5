---------------------------- MODULE WardriverSync ----------------------------
(***************************************************************************)
(* Wardriver device sync: concurrent Function invocations that serve       *)
(* signed device requests over two blobs, the private control state and    *)
(* the public signed roster, each written under an ETag condition          *)
(* (api/wardriver-sync/index.js, api/_lib/wardriver-sync-store.js).        *)
(*                                                                         *)
(* An invocation runs transact (read the control blob, decide, write it)   *)
(* and publishRoster (read the roster, read the control state, write the   *)
(* roster).  It may be cut off anywhere.  A conditional write may land     *)
(* while its response is lost; the storage SDK then repeats it and reports *)
(* the conflict of the repeat, or gives up with an error.                  *)
(*                                                                         *)
(* ETags are abstracted to who still holds a current one: every write of a *)
(* blob makes all of them stale.                                           *)
(***************************************************************************)
EXTENDS SyncState, Sequences

CONSTANTS
  Handlers,            \* Function invocations that may be in flight together
  Actions,             \* the actions clients ask for
  MaxCasAttempts

ASSUME HandlerConstants ==
  /\ MaxCasAttempts \in Nat \ {0}
  /\ Actions \subseteq {"enroll", "grants", "invite", "rename", "revoke"}

VARIABLES
  stored,      \* the control blob exists
  control,     \* its content (InitialState until it exists)
  published,   \* the roster blob: NoRoster or [revision, devices]
  controlTag,  \* invocations whose ETag of the control blob is current
  rosterTag,   \* invocations whose ETag of the roster blob is current
  ticket,      \* nonce -> the device its signed challenge names
  lapsed,      \* nonces and tokens whose expiresAt has passed
  pc, req, snap, seen, tries,   \* of each invocation
  log,         \* history: every roster the control state has defined, by revision
  since,       \* history: the revision the invocation's answer has to cover
  spent        \* history: how many transactions each nonce has authorized

blobs == <<stored, control, published, controlTag, rosterTag>>
clients == <<ticket, lapsed>>
invocation == <<pc, req, snap, seen, tries>>
vars == <<stored, control, published, controlTag, rosterTag, ticket, lapsed,
          pc, req, snap, seen, tries, log, since, spent>>

NoRoster == [revision |-> 0, devices |-> RosterPayload(InitialState)]
Blank(action, d, n) ==
  [action |-> action, device |-> d, nonce |-> n, token |-> None, name |-> None,
   target |-> None, cutoff |-> None]
NoRequest == Blank("grants", Owner, None)

\* "transact" and "publish" are the heads of the two retry loops, "respond" holds a
\* success on its way to the client, "corrupt" a 503 because a stored blob contradicts
\* the service's own rules.
Steps == {"idle", "transact", "commit", "publish", "state", "sign", "respond", "corrupt"}

TypeOK ==
  /\ stored \in BOOLEAN
  /\ control \in State
  /\ published \in [revision : Nat, devices : Roster]
  /\ controlTag \subseteq Handlers /\ rosterTag \subseteq Handlers
  /\ ticket \in [Nonces -> Devices \cup {None}]
  /\ lapsed \subseteq Nonces \cup Tokens
  /\ pc \in [Handlers -> Steps]
  /\ req \in [Handlers -> Request]
  /\ snap \in [Handlers -> State]
  /\ seen \in [Handlers -> [revision : Nat, devices : Roster]]
  /\ tries \in [Handlers -> Nat]
  /\ log \in Seq(Roster)
  /\ since \in [Handlers -> Nat]
  /\ spent \in [Nonces -> Nat]

Init ==
  /\ stored = FALSE
  /\ control = InitialState
  /\ published = NoRoster
  /\ controlTag = {} /\ rosterTag = {}
  /\ ticket = [n \in Nonces |-> None]
  /\ lapsed = {}
  /\ pc = [h \in Handlers |-> "idle"]
  /\ req = [h \in Handlers |-> NoRequest]
  /\ snap = [h \in Handlers |-> InitialState]
  /\ seen = [h \in Handlers |-> NoRoster]
  /\ tries = [h \in Handlers |-> 0]
  /\ log = <<RosterPayload(InitialState)>>
  /\ since = [h \in Handlers |-> 0]
  /\ spent = [n \in Nonces |-> 0]

-----------------------------------------------------------------------------
(* Clients and the clock *)

Goto(h, step) == pc' = [pc EXCEPT ![h] = step]

InFlight == {h \in Handlers : pc[h] # "idle"}
TokenFree(t) ==
  /\ control.invitations[t] = "none"
  /\ \A d \in Devices : control.devices[d].invitationHash # t
  /\ \A h \in InFlight : req[h].token # t

\* The clock passes the expiresAt of a challenge or of a stored invitation.
Lapse(x) ==
  /\ x \notin lapsed
  /\ \/ x \in Nonces /\ ticket[x] # None
     \/ x \in Tokens /\ control.invitations[x] # "none"
  /\ lapsed' = lapsed \cup {x}
  /\ UNCHANGED <<blobs, ticket, invocation, log, since, spent>>

\* verifyProof accepts a request.  Its signed challenge is new (issuing one keeps no
\* state, so it is recorded here) or one its device has used before.
Begin(h, r) ==
  /\ pc[h] = "idle" /\ r.action \in Actions
  /\ ticket[r.nonce] \in {None, r.device} /\ r.nonce \notin lapsed
  /\ ticket' = [ticket EXCEPT ![r.nonce] = r.device]
  /\ req' = [req EXCEPT ![h] = r]
  /\ lapsed' = IF r.action = "invite" THEN lapsed \ {r.token} ELSE lapsed
  /\ Goto(h, "transact")
  /\ since' = [since EXCEPT ![h] = control.rosterRevision]
  /\ UNCHANGED <<blobs, snap, seen, tries, log, spent>>

\* The requests a device can sign; an invitation draws a fresh token.
Ask(h, d, n) ==
  \/ Begin(h, Blank("grants", d, n))
  \/ \E t \in Tokens, x \in Names :
       Begin(h, [Blank("enroll", d, n) EXCEPT !.token = t, !.name = x])
  \/ \E t \in Tokens : TokenFree(t) /\ Begin(h, [Blank("invite", d, n) EXCEPT !.token = t])
  \/ \E x \in Names : Begin(h, [Blank("rename", d, n) EXCEPT !.name = x])
  \/ \E e \in Devices, c \in Cutoffs :
       Begin(h, [Blank("revoke", d, n) EXCEPT !.target = e, !.cutoff = c])

-----------------------------------------------------------------------------
(* How an invocation leaves a step *)

\* The invocation is over, or cut off; its locals and ETags are gone.
End(h) ==
  /\ Goto(h, "idle")
  /\ req' = [req EXCEPT ![h] = NoRequest]
  /\ snap' = [snap EXCEPT ![h] = InitialState]
  /\ seen' = [seen EXCEPT ![h] = NoRoster]
  /\ tries' = [tries EXCEPT ![h] = 0]
  /\ since' = [since EXCEPT ![h] = 0]

\* A conflict sends the loop round again until its attempts are used up (503);
\* what an attempt read is gone.
Retry(h, head) ==
  IF tries[h] + 1 = MaxCasAttempts
  THEN End(h)
  ELSE /\ Goto(h, head)
       /\ tries' = [tries EXCEPT ![h] = @ + 1]
       /\ snap' = [snap EXCEPT ![h] = InitialState]
       /\ seen' = [seen EXCEPT ![h] = NoRoster]
       /\ UNCHANGED <<req, since>>

-----------------------------------------------------------------------------
(* transact *)

\* The control blob is read, then the clock, and the request is decided on both.  A
\* refusal (4xx, or 503 at the last revision) depends on nothing that happens later.
Accepted(h) ==
  LET p == Prune(control, lapsed)
      r == req[h]
  IN  /\ ChallengeAccepted(p, r, ticket, lapsed)
      /\ Allowed(p, r)
      /\ Changes(p, r) => p.rosterRevision < MaxRevision

Decide(h) ==
  LET next == Transacted(Prune(control, lapsed), req[h])
  IN  /\ pc[h] = "transact" /\ Accepted(h)
      /\ snap' = [snap EXCEPT ![h] = next]
      /\ controlTag' = controlTag \cup {h}
      /\ Goto(h, IF ValidState(control) /\ ValidState(next) THEN "commit" ELSE "corrupt")
      /\ UNCHANGED <<stored, control, published, rosterTag, clients, req, seen, tries, log, since, spent>>

Refuse(h) ==
  /\ pc[h] = "transact" /\ ~Accepted(h)
  /\ IF ValidState(control) THEN End(h) ELSE Goto(h, "corrupt") /\ UNCHANGED <<req, snap, seen, tries, since>>
  /\ UNCHANGED <<blobs, clients, log, spent>>

\* Mutant: a transaction that left the roster alone has nothing to publish.
CommittedUnpublished(h) ==
  /\ Goto(h, IF snap[h].rosterRevision = control.rosterRevision THEN "respond" ELSE "publish")
  /\ since' = [since EXCEPT ![h] = snap[h].rosterRevision]
  /\ snap' = [snap EXCEPT ![h] = InitialState]
  /\ tries' = [tries EXCEPT ![h] = 0]
  /\ UNCHANGED <<req, seen>>

\* transact returns; execute goes on to publish, with a new count of attempts.
Committed(h) ==
  /\ Goto(h, "publish")
  /\ since' = [since EXCEPT ![h] = snap[h].rosterRevision]
  /\ snap' = [snap EXCEPT ![h] = InitialState]
  /\ tries' = [tries EXCEPT ![h] = 0]
  /\ UNCHANGED <<req, seen>>

WriteControl(h) ==
  /\ stored' = TRUE
  /\ control' = snap[h]
  /\ controlTag' = {}
  /\ log' = IF snap[h].rosterRevision > Len(log) THEN Append(log, RosterPayload(snap[h])) ELSE log
  /\ spent' = [spent EXCEPT ![req[h].nonce] = @ + 1]
  /\ UNCHANGED <<published, rosterTag, clients>>

\* The conditional write lands.  What the invocation learns of it: success, the
\* conflict of the SDK's own repeat, or an error.
Commit(h) ==
  /\ pc[h] = "commit" /\ h \in controlTag
  /\ WriteControl(h)
  /\ Committed(h) \/ Retry(h, "transact") \/ End(h)

CommitConflict(h) ==
  /\ pc[h] = "commit" /\ h \notin controlTag
  /\ Retry(h, "transact")
  /\ UNCHANGED <<blobs, clients, log, spent>>

-----------------------------------------------------------------------------
(* publishRoster *)

\* The public ETag is read first ...
ReadRoster(h) ==
  /\ pc[h] = "publish"
  /\ seen' = [seen EXCEPT ![h] = published]
  /\ rosterTag' = rosterTag \cup {h}
  /\ Goto(h, "state")
  /\ UNCHANGED <<stored, control, published, controlTag, clients, req, snap, tries, log, since, spent>>

\* Mutant: whoever asked is answered.
AnswerAnyone(h, s) ==
  /\ Goto(h, "respond")
  /\ snap' = [snap EXCEPT ![h] = s]
  /\ UNCHANGED <<req, seen, tries, since>>

\* The published state is answered from, unless the requester was revoked meanwhile.
Answer(h, s) ==
  IF IsMember(s, req[h].device)
  THEN /\ Goto(h, "respond")
       /\ snap' = [snap EXCEPT ![h] = s]
       /\ UNCHANGED <<req, seen, tries, since>>
  ELSE End(h)

\* ... then the state it is compared with.
Contradicts(roster) ==
  \/ ~stored \/ ~ValidState(control)
  \/ roster.revision > control.rosterRevision
  \/ roster.revision = control.rosterRevision /\ roster.devices # RosterPayload(control)

ReadState(h) ==
  /\ pc[h] = "state"
  /\ \/ /\ Contradicts(seen[h])
        /\ Goto(h, "corrupt") /\ UNCHANGED <<req, snap, seen, tries, since>>
        /\ UNCHANGED rosterTag
     \/ /\ ~Contradicts(seen[h]) /\ seen[h].revision = control.rosterRevision
        /\ Answer(h, control)
        /\ rosterTag' = rosterTag \ {h}
     \/ /\ ~Contradicts(seen[h]) /\ seen[h].revision < control.rosterRevision
        /\ Goto(h, "sign") /\ snap' = [snap EXCEPT ![h] = control]
        /\ UNCHANGED <<req, seen, tries, since, rosterTag>>
  /\ UNCHANGED <<stored, control, published, controlTag, clients, log, spent>>

WriteRoster(h) ==
  /\ published' = [revision |-> snap[h].rosterRevision, devices |-> RosterPayload(snap[h])]
  /\ rosterTag' = {}
  /\ UNCHANGED <<stored, control, controlTag, clients, log, spent>>

\* Mutant: the write is not conditional.
PublishBlindly(h) ==
  /\ pc[h] = "sign"
  /\ WriteRoster(h)
  /\ Answer(h, snap[h])

\* The signed roster lands; the invocation learns of it as in Commit.
Publish(h) ==
  /\ pc[h] = "sign" /\ h \in rosterTag
  /\ WriteRoster(h)
  /\ Answer(h, snap[h]) \/ Retry(h, "publish") \/ End(h)

PublishConflict(h) ==
  /\ pc[h] = "sign" /\ h \notin rosterTag
  /\ Retry(h, "publish")
  /\ UNCHANGED <<blobs, clients, log, spent>>

\* The response leaves; or a storage or signing error, a crash or a host restart ends
\* the invocation wherever it is.
Leave(h) ==
  /\ pc[h] # "idle"
  /\ End(h)
  /\ controlTag' = controlTag \ {h} /\ rosterTag' = rosterTag \ {h}
  /\ UNCHANGED <<stored, control, published, clients, log, spent>>

-----------------------------------------------------------------------------
Transact(h) == Decide(h) \/ Refuse(h) \/ Commit(h) \/ CommitConflict(h)
PublishRoster(h) == ReadRoster(h) \/ ReadState(h) \/ Publish(h) \/ PublishConflict(h)

Next ==
  \/ \E x \in Nonces \cup Tokens : Lapse(x)
  \/ \E h \in Handlers : \/ \E d \in Devices, n \in Nonces : Ask(h, d, n)
                         \/ Transact(h) \/ PublishRoster(h) \/ Leave(h)

Spec == Init /\ [][Next]_vars

-----------------------------------------------------------------------------
(* Properties *)

\* A challenge authorizes at most one transaction, whatever is repeated, retried or
\* left without an answer, although receipts are pruned when they lapse.
ChallengeOnce == \A n \in Nonces : spent[n] <= 1

\* The service never meets a stored blob that its own rules reject: it never builds a
\* state validateState refuses, the published roster never runs ahead of the control
\* state, and at the same revision the two agree.  (Each of these is a permanent 503.)
NeverCorrupt == \A h \in Handlers : pc[h] # "corrupt"

\* A success covers the request's own transaction and everything committed before the
\* request began, is a roster that revision really had and in which the requester is an
\* active member (not one revoked while it was served), and has been published.
AnswerCovers ==
  \A h \in Handlers : pc[h] = "respond" =>
    /\ IsMember(snap[h], req[h].device)
    /\ snap[h].rosterRevision \in since[h] .. published.revision
    /\ RosterPayload(snap[h]) = log[snap[h].rosterRevision]

\* An invitation admits one device, even after it lapsed and was pruned.
InvitationSingleUse ==
  \A d, e \in Devices : d # e /\ control.devices[d].invitationHash # None
    => control.devices[d].invitationHash # control.devices[e].invitationHash

\* Racing admissions never exceed the configured number of active devices.
ActiveCap == Cardinality(ActiveOf(control)) <= MaxDevices

\* Every later roster revision keeps a revocation and its cutoff.
RevocationFinal ==
  \A i, j \in DOMAIN log : \A d \in Devices :
    i < j /\ log[i][d].status = "revoked" => log[j][d] = log[i][d]

\* The pair of blobs implements an append-only log of rosters with a public copy of
\* one entry that only moves forward.
RosterLog == INSTANCE RosterLog WITH shown <- published.revision, board <- published.devices,
                                     first <- RosterPayload(InitialState)
ImplementsRosterLog == RosterLog!Spec

-----------------------------------------------------------------------------
(* Fairness: the owner's phone keeps renewing its grants, no step of an invocation    *)
(* fails forever, and a challenge outlives the request that carries it (120 s against *)
(* I/O bounded by 10 s a call).                                                       *)

OwnerRenews(h) ==
  \E n \in Nonces : ticket[n] = None /\ Ask(h, Owner, n) /\ req'[h].action = "grants"

\* The supply of nonces is endless; the model's is not: a lapsed nonce that nobody
\* carries any more is taken back, with the dead receipt every transaction prunes.
Recycle(n) ==
  /\ n \in lapsed
  /\ \A h \in InFlight : req[h].nonce # n /\ n \notin snap[h].requests
  /\ ticket' = [ticket EXCEPT ![n] = None]
  /\ lapsed' = lapsed \ {n}
  /\ control' = [control EXCEPT !.requests = @ \ {n}]
  /\ spent' = [spent EXCEPT ![n] = 0]
  /\ UNCHANGED <<stored, published, controlTag, rosterTag, invocation, log, since>>

PromptNext ==
  /\ Next
  /\ \A n \in Nonces \cap (lapsed' \ lapsed) : \A h \in InFlight : req[h].nonce # n

Fairness ==
  /\ \A n \in Nonces : SF_vars(Recycle(n)) /\ SF_vars(Lapse(n) /\ \A h \in InFlight : req[h].nonce # n)
  /\ \A h \in Handlers :
       /\ WF_vars(Leave(h)) /\ SF_vars(OwnerRenews(h))
       /\ SF_vars(Decide(h))
       /\ SF_vars(Commit(h) /\ pc'[h] = "publish")
       /\ SF_vars(ReadRoster(h)) /\ SF_vars(ReadState(h)) /\ SF_vars(Publish(h))

FairSpec == Init /\ [][PromptNext \/ \E n \in Nonces : Recycle(n)]_vars /\ Fairness

\* A change whose publication was interrupted is published by a later request.
RosterRepaired ==
  \A k \in 1 .. MaxRevision :
    stored /\ control.rosterRevision = k ~> published.revision >= k
=============================================================================
