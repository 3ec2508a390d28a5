------------------------- MODULE WardriverSyncProofs -------------------------
(***************************************************************************)
(* Proofs about WardriverSync, for every number of devices, invocations,   *)
(* nonces and attempts: first its types, how blobs are read and written,   *)
(* and RosterLog; then who gets in, who stays out and what is spent.       *)
(***************************************************************************)
EXTENDS WardriverSync, FiniteSetTheorems, TLAPS

(* What the operators on the control state return *)

LEMMA PruneType ==
  ASSUME NEW s \in State, NEW l
  PROVE  /\ Prune(s, l) \in State
         /\ Prune(s, l).rosterRevision = s.rosterRevision
         /\ Prune(s, l).devices = s.devices
         /\ Prune(s, l).requests = s.requests \ l
         /\ \A t \in Tokens : Prune(s, l).invitations[t] \in {"none", s.invitations[t]}
  BY DEF Prune, State

LEMMA InitialStateType == InitialState \in State
  BY SyncConstants DEF InitialState, State, Member, Active, Absent

LEMMA PayloadType ==
  ASSUME NEW s \in State
  PROVE  RosterPayload(s) \in Roster
  BY DEF RosterPayload, State, Member, Roster

LEMMA AppliedType ==
  ASSUME NEW p \in State, NEW r \in Request
  PROVE  /\ Applied(p, r) \in State
         /\ Applied(p, r).rosterRevision = p.rosterRevision
         /\ Applied(p, r).requests = p.requests
<1>1. CASE r.action = "enroll"
  <2>1. Active(r.name, r.token) \in Member
    BY <1>1 DEF Active, Member, Request
  <2>2. Enroll(p, r) \in State
    BY <1>1, <2>1 DEF Enroll, State, Request
  <2> QED BY <1>1, <2>2 DEF Applied, Enroll, State
<1>2. CASE r.action = "grants"
  BY <1>2 DEF Applied
<1>3. CASE r.action = "rename"
  <2>1. [p.devices[r.device] EXCEPT !.displayName = r.name] \in Member
    BY <1>3 DEF Member, State, Request
  <2> QED BY <1>3, <2>1 DEF Applied, State, Request
<1>4. CASE r.action = "invite"
  BY <1>4 DEF Applied, State, Request
<1>5. CASE r.action = "revoke"
  <2>0. p.devices[r.target] \in Member /\ r.cutoff \in Cutoffs /\ r.target \in Devices
    BY <1>5 DEF State, Request
  <2>1. [p.devices[r.target] EXCEPT !.status = "revoked", !.acceptedThrough = r.cutoff] \in Member
    BY <2>0 DEF Member
  <2>2. Revoke(p, r) = [p EXCEPT !.devices = [p.devices EXCEPT ![r.target] =
            [p.devices[r.target] EXCEPT !.status = "revoked", !.acceptedThrough = r.cutoff]]]
    BY <2>0 DEF Revoke, State, Member
  <2>3. Applied(p, r) = Revoke(p, r)
    BY <1>5 DEF Applied
  <2> QED BY <2>0, <2>1, <2>2, <2>3 DEF State
<1> QED BY <1>1, <1>2, <1>3, <1>4, <1>5 DEF Request

LEMMA TransactedType ==
  ASSUME NEW p \in State, NEW r \in Request, r.nonce \in Nonces
  PROVE  /\ Transacted(p, r) \in State
         /\ Transacted(p, r).devices = Applied(p, r).devices
         /\ Transacted(p, r).invitations = Applied(p, r).invitations
         /\ Transacted(p, r).requests = p.requests \cup {r.nonce}
         /\ Transacted(p, r).rosterRevision =
              IF Changes(p, r) THEN p.rosterRevision + 1 ELSE p.rosterRevision
<1> DEFINE s == Applied(p, r)
           rev == IF Changes(p, r) THEN p.rosterRevision + 1 ELSE p.rosterRevision
<1>1. s \in State /\ s.rosterRevision = p.rosterRevision /\ s.requests = p.requests
  BY AppliedType
<1>2. Transacted(p, r) = [s EXCEPT !.rosterRevision = rev, !.requests = s.requests \cup {r.nonce}]
  BY <1>1 DEF Transacted
<1>3. rev \in Nat
  BY DEF State
<1> HIDE DEF s, rev
<1>4. /\ Transacted(p, r) \in State
      /\ Transacted(p, r).devices = s.devices
      /\ Transacted(p, r).invitations = s.invitations
      /\ Transacted(p, r).requests = p.requests \cup {r.nonce}
      /\ Transacted(p, r).rosterRevision = rev
  <2>1. s = [devices |-> s.devices, invitations |-> s.invitations, requests |-> s.requests,
             rosterRevision |-> s.rosterRevision]
    BY <1>1 DEF State
  <2>2. Transacted(p, r) = [devices |-> s.devices, invitations |-> s.invitations,
             requests |-> s.requests \cup {r.nonce}, rosterRevision |-> rev]
    BY <1>2, <2>1
  <2> QED BY <1>1, <1>3, <2>2 DEF State
<1> QED BY <1>4 DEF s, rev

LEMMA AskType ==
  ASSUME NEW h \in Handlers, NEW d \in Devices, NEW n \in Nonces, Ask(h, d, n)
  PROVE  \E r \in Request : /\ r.nonce = n /\ r.device = d
                            /\ r.action = "invite" => TokenFree(r.token)
                            /\ Begin(h, r)
<1>1. CASE Begin(h, Blank("grants", d, n))
  BY <1>1 DEF Blank, Request
<1>2. ASSUME NEW t \in Tokens, NEW x \in Names,
             Begin(h, [Blank("enroll", d, n) EXCEPT !.token = t, !.name = x])
      PROVE  \E r \in Request : /\ r.nonce = n /\ r.device = d /\ r.action = "enroll"
                                /\ Begin(h, r)
  BY <1>2 DEF Blank, Request
<1>3. ASSUME NEW t \in Tokens, TokenFree(t), Begin(h, [Blank("invite", d, n) EXCEPT !.token = t])
      PROVE  \E r \in Request : /\ r.nonce = n /\ r.device = d /\ r.token = t
                                /\ Begin(h, r)
  BY <1>3 DEF Blank, Request
<1>4. ASSUME NEW x \in Names, Begin(h, [Blank("rename", d, n) EXCEPT !.name = x])
      PROVE  \E r \in Request : /\ r.nonce = n /\ r.device = d /\ r.action = "rename"
                                /\ Begin(h, r)
  BY <1>4 DEF Blank, Request
<1>5. ASSUME NEW e \in Devices, NEW c \in Cutoffs,
             Begin(h, [Blank("revoke", d, n) EXCEPT !.target = e, !.cutoff = c])
      PROVE  \E r \in Request : /\ r.nonce = n /\ r.device = d /\ r.action = "revoke"
                                /\ Begin(h, r)
  BY <1>5 DEF Blank, Request
<1> QED
  BY <1>1, <1>2, <1>3, <1>4, <1>5 DEF Ask, Blank, Request

LEMMA NoRequestType == NoRequest \in Request
  BY SyncConstants DEF NoRequest, Blank, Request

LEMMA NoRosterType == NoRoster \in [revision : Nat, devices : Roster]
  BY InitialStateType, PayloadType DEF NoRoster

-----------------------------------------------------------------------------
(* Type correctness *)

\* The locals of the invocations, and the blobs, apart.
LocalsOK ==
  /\ pc \in [Handlers -> Steps]
  /\ req \in [Handlers -> Request]
  /\ snap \in [Handlers -> State]
  /\ seen \in [Handlers -> [revision : Nat, devices : Roster]]
  /\ tries \in [Handlers -> Nat]
  /\ since \in [Handlers -> Nat]

\* An invocation in flight carries a nonce.
Carried == \A h \in Handlers : pc[h] # "idle" => req[h].nonce \in Nonces

TInv == TypeOK /\ Carried

LEMMA EndLocals ==
  ASSUME TInv, NEW h \in Handlers, End(h)
  PROVE  LocalsOK' /\ Carried'
  BY NoRequestType, InitialStateType, NoRosterType
     DEF TInv, TypeOK, Carried, LocalsOK, End, Goto, Steps

LEMMA RetryLocals ==
  ASSUME TInv, NEW h \in Handlers, NEW head \in Steps, pc[h] # "idle", Retry(h, head)
  PROVE  LocalsOK' /\ Carried'
<1>1. CASE tries[h] + 1 = MaxCasAttempts
  BY <1>1, EndLocals DEF Retry
<1>2. CASE tries[h] + 1 # MaxCasAttempts
  <2>1. /\ pc' = [pc EXCEPT ![h] = head]
        /\ tries' = [tries EXCEPT ![h] = tries[h] + 1]
        /\ snap' = [snap EXCEPT ![h] = InitialState]
        /\ seen' = [seen EXCEPT ![h] = NoRoster]
        /\ UNCHANGED <<req, since>>
    BY <1>2 DEF Retry, Goto
  <2> QED
    BY <2>1, InitialStateType, NoRosterType DEF TInv, TypeOK, Carried, LocalsOK
<1> QED BY <1>1, <1>2

LEMMA TypeInit == Init => TInv
<1> SUFFICES ASSUME Init PROVE TInv
  OBVIOUS
<1>1. RosterPayload(InitialState) \in Roster
  BY InitialStateType, PayloadType
<1>2. <<RosterPayload(InitialState)>> \in Seq(Roster)
  BY <1>1
<1> QED
  BY <1>2, InitialStateType, NoRequestType, NoRosterType DEF Init, TInv, TypeOK, Carried, Steps

LEMMA TypeStep == TInv /\ [Next]_vars => TInv'
<1> SUFFICES ASSUME TInv, [Next]_vars PROVE TInv'
  OBVIOUS
<1> USE DEF TInv
<1>1. ASSUME NEW x \in Nonces \cup Tokens, Lapse(x) PROVE TInv'
  BY <1>1 DEF TypeOK, Carried, Lapse, blobs, invocation
<1>2. ASSUME NEW h \in Handlers, NEW d \in Devices, NEW n \in Nonces, Ask(h, d, n) PROVE TInv'
  <2>1. PICK r \in Request : r.nonce = n /\ r.device = d /\ Begin(h, r)
    BY <1>2, AskType
  <2>2. control.rosterRevision \in Nat
    BY DEF TypeOK, State
  <2> QED
    BY <2>1, <2>2 DEF TypeOK, Carried, Begin, Goto, Steps, blobs
<1>3. ASSUME NEW h \in Handlers, Decide(h) PROVE TInv'
  <2>1. Prune(control, lapsed) \in State
    BY PruneType DEF TypeOK
  <2>2. req[h] \in Request /\ req[h].nonce \in Nonces
    BY <1>3 DEF TypeOK, Carried, Decide
  <2>3. Transacted(Prune(control, lapsed), req[h]) \in State
    BY <2>1, <2>2, TransactedType
  <2> QED
    BY <1>3, <2>2, <2>3 DEF TypeOK, Carried, Decide, Goto, Steps, clients
<1>4. ASSUME NEW h \in Handlers, Refuse(h) PROVE TInv'
  <2>1. LocalsOK' /\ Carried'
    <3>1. CASE End(h)
      BY <3>1, EndLocals
    <3>2. CASE Goto(h, "corrupt") /\ UNCHANGED <<req, snap, seen, tries, since>>
      BY <1>4, <3>2 DEF TypeOK, Carried, LocalsOK, Goto, Steps, Refuse
    <3> QED BY <1>4, <3>1, <3>2 DEF Refuse
  <2> QED
    BY <1>4, <2>1 DEF TypeOK, LocalsOK, Refuse, blobs, clients
<1>5. ASSUME NEW h \in Handlers, Commit(h) PROVE TInv'
  <2>1. LocalsOK' /\ Carried'
    <3>1. CASE Committed(h)
      <4>1. snap[h].rosterRevision \in Nat
        BY DEF TypeOK, State
      <4> QED
        BY <1>5, <3>1, <4>1, InitialStateType DEF TypeOK, Carried, LocalsOK, Goto, Steps, Committed, Commit
    <3>2. CASE Retry(h, "transact")
      BY <1>5, <3>2, RetryLocals DEF Commit, Steps
    <3>3. CASE End(h)
      BY <3>3, EndLocals
    <3> QED BY <1>5, <3>1, <3>2, <3>3 DEF Commit
  <2>2. log' \in Seq(Roster)
    BY <1>5, PayloadType DEF TypeOK, Commit, WriteControl
  <2> QED
    BY SMTT(30), <1>5, <2>1, <2>2 DEF TypeOK, LocalsOK, Commit, WriteControl, Carried, clients
<1>6. ASSUME NEW h \in Handlers, CommitConflict(h) PROVE TInv'
  BY <1>6, RetryLocals DEF TypeOK, LocalsOK, CommitConflict, blobs, clients, Steps
<1>7. ASSUME NEW h \in Handlers, ReadRoster(h) PROVE TInv'
  BY <1>7 DEF TypeOK, Carried, ReadRoster, Goto, Steps, clients
<1>8. ASSUME NEW h \in Handlers, ReadState(h) PROVE TInv'
  <2>1. LocalsOK' /\ Carried'
    <3>1. CASE Goto(h, "corrupt") /\ UNCHANGED <<req, snap, seen, tries, since>>
      BY <1>8, <3>1 DEF TypeOK, Carried, LocalsOK, Goto, Steps, ReadState
    <3>2. CASE Answer(h, control)
      <4>1. CASE End(h)
        BY <4>1, EndLocals
      <4>2. CASE /\ Goto(h, "respond") /\ snap' = [snap EXCEPT ![h] = control]
                 /\ UNCHANGED <<req, seen, tries, since>>
        BY <1>8, <4>2 DEF TypeOK, Carried, LocalsOK, Goto, Steps, ReadState
      <4> QED BY <3>2, <4>1, <4>2 DEF Answer
    <3>3. CASE /\ Goto(h, "sign") /\ snap' = [snap EXCEPT ![h] = control]
               /\ UNCHANGED <<req, seen, tries, since>>
      BY <1>8, <3>3 DEF TypeOK, Carried, LocalsOK, Goto, Steps, ReadState
    <3> QED BY <1>8, <3>1, <3>2, <3>3 DEF ReadState
  <2>2. rosterTag' \subseteq Handlers
    BY <1>8 DEF TypeOK, ReadState
  <2> QED
    BY <1>8, <2>1, <2>2 DEF TypeOK, LocalsOK, ReadState, clients
<1>9. ASSUME NEW h \in Handlers, Publish(h) PROVE TInv'
  <2>1. LocalsOK' /\ Carried'
    <3>1. CASE Answer(h, snap[h])
      <4>1. CASE End(h)
        BY <4>1, EndLocals
      <4>2. CASE /\ Goto(h, "respond") /\ snap' = [snap EXCEPT ![h] = snap[h]]
                 /\ UNCHANGED <<req, seen, tries, since>>
        BY <1>9, <4>2 DEF TypeOK, Carried, LocalsOK, Goto, Steps, Publish
      <4> QED BY <3>1, <4>1, <4>2 DEF Answer
    <3>2. CASE Retry(h, "publish")
      BY <1>9, <3>2, RetryLocals DEF Publish, Steps
    <3>3. CASE End(h)
      BY <3>3, EndLocals
    <3> QED BY <1>9, <3>1, <3>2, <3>3 DEF Publish
  <2>2. RosterPayload(snap[h]) \in Roster /\ snap[h].rosterRevision \in Nat
    BY PayloadType DEF TypeOK, State
  <2> QED
    BY <1>9, <2>1, <2>2 DEF TypeOK, LocalsOK, Publish, WriteRoster, clients
<1>10. ASSUME NEW h \in Handlers, PublishConflict(h) PROVE TInv'
  BY <1>10, RetryLocals DEF TypeOK, LocalsOK, PublishConflict, blobs, clients, Steps
<1>11. ASSUME NEW h \in Handlers, Leave(h) PROVE TInv'
  BY <1>11, EndLocals DEF TypeOK, LocalsOK, Leave, clients
<1>12. CASE UNCHANGED vars
  BY <1>12 DEF TypeOK, Carried, vars
<1> QED
  BY <1>1, <1>2, <1>3, <1>4, <1>5, <1>6, <1>7, <1>8, <1>9, <1>10, <1>11, <1>12
     DEF Next, Transact, PublishRoster

\* TypeOK holds in every reachable state: no invocation, whatever it reads, retries or
\* loses, writes a blob that is not a control state or a roster.
THEOREM TypeCorrect == Spec => []TypeOK
<1>1. TInv => TypeOK
  BY DEF TInv
<1> QED
  BY TypeInit, TypeStep, <1>1, PTL DEF Spec

-----------------------------------------------------------------------------
(* What a transaction does to the roster *)

\* Only a revoked member has a cutoff.
CutoffsOK(s) == \A d \in Devices : s.devices[d].status # "revoked" => s.devices[d].acceptedThrough = None

\* Roster b comes from a by one change of one member.
Amends(a, b) ==
  \E d \in Devices :
    \/ \E x \in Names : /\ a[d].status = "absent"
                        /\ b = [a EXCEPT ![d].status = "active", ![d].displayName = x]
    \/ \E x \in Names : /\ a[d].status = "active"
                        /\ b = [a EXCEPT ![d].displayName = x]
    \/ \E c \in Cutoffs : /\ d # Owner /\ a[d].status = "active"
                          /\ b = [a EXCEPT ![d].status = "revoked", ![d].acceptedThrough = c]

\* Control state t may be written over s.
Follows(s, t) ==
  /\ CutoffsOK(t)
  /\ \/ /\ t.rosterRevision = s.rosterRevision
        /\ RosterPayload(t) = RosterPayload(s)
     \/ /\ t.rosterRevision = s.rosterRevision + 1
        /\ Amends(RosterPayload(s), RosterPayload(t))

LEMMA AppliedAmends ==
  ASSUME NEW p \in State, NEW r \in Request, Allowed(p, r), CutoffsOK(p)
  PROVE  /\ CutoffsOK(Applied(p, r))
         /\ Changes(p, r) => Amends(RosterPayload(p), RosterPayload(Applied(p, r)))
<1> DEFINE a == RosterPayload(p)
           b == RosterPayload(Applied(p, r))
<1>1. CASE r.action = "enroll"
  <2>1. CASE Recovers(p, r)
    BY <1>1, <2>1 DEF Applied, Changes
  <2>2. CASE ~Recovers(p, r)
    <3>1. p.devices[r.device].status = "absent" /\ r.name \in Names /\ r.device \in Devices
      BY <1>1, <2>2 DEF Allowed, Admits, Request
    <3>2. Applied(p, r).devices = [p.devices EXCEPT ![r.device] = Active(r.name, r.token)]
      BY <1>1, <2>2 DEF Applied, Enroll, State
    <3>3. CutoffsOK(Applied(p, r))
      BY <3>1, <3>2 DEF CutoffsOK, Active, State
    <3>4. p.devices[r.device].acceptedThrough = None
      BY <3>1 DEF CutoffsOK
    <3>5. b = [a EXCEPT ![r.device].status = "active", ![r.device].displayName = r.name]
      <4> DEFINE c == [a EXCEPT ![r.device].status = "active", ![r.device].displayName = r.name]
      <4>1. a[r.device] = [status |-> "absent", displayName |-> p.devices[r.device].displayName,
                           acceptedThrough |-> None]
        BY <3>1, <3>4 DEF RosterPayload
      <4>2. c[r.device] = [status |-> "active", displayName |-> r.name, acceptedThrough |-> None]
        BY <3>1, <4>1 DEF RosterPayload
      <4>3. b[r.device] = c[r.device]
        BY <3>1, <3>2, <4>2 DEF RosterPayload, Active, State
      <4>4. \A e \in Devices \ {r.device} : b[e] = c[e]
        BY <3>1, <3>2 DEF RosterPayload, State
      <4> QED BY <4>3, <4>4 DEF RosterPayload
    <3> QED BY <3>1, <3>3, <3>5 DEF Amends, RosterPayload
  <2> QED BY <2>1, <2>2
<1>2. CASE r.action \in {"grants", "invite"}
  BY <1>2 DEF Applied, Changes, CutoffsOK, State
<1>3. CASE r.action = "rename"
  <2>1. p.devices[r.device].status = "active" /\ r.name \in Names /\ r.device \in Devices
    BY <1>3 DEF Allowed, IsMember, Request
  <2>2. Applied(p, r).devices = [p.devices EXCEPT ![r.device].displayName = r.name]
    BY <1>3 DEF Applied, State
  <2>3. CutoffsOK(Applied(p, r))
    BY <2>1, <2>2 DEF CutoffsOK, State, Member
  <2>4. b = [a EXCEPT ![r.device].displayName = r.name]
    BY <2>1, <2>2 DEF RosterPayload, State, Member
  <2> QED BY <2>1, <2>3, <2>4 DEF Amends, RosterPayload
<1>4. CASE r.action = "revoke"
  <2>1. r.cutoff \in Cutoffs /\ r.target \in Devices \ {Owner}
    BY <1>4 DEF Allowed, MayRevoke, Request
  <2>2. Applied(p, r).devices =
          [p.devices EXCEPT ![r.target].status = "revoked", ![r.target].acceptedThrough = r.cutoff]
    BY <1>4 DEF Applied, Revoke, State
  <2>3. CutoffsOK(Applied(p, r))
    BY <2>1, <2>2 DEF CutoffsOK, State, Member
  <2>4. b = [a EXCEPT ![r.target].status = "revoked", ![r.target].acceptedThrough = r.cutoff]
    <3> DEFINE c == [a EXCEPT ![r.target].status = "revoked", ![r.target].acceptedThrough = r.cutoff]
    <3>1. a[r.target] = [status |-> p.devices[r.target].status,
                         displayName |-> p.devices[r.target].displayName,
                         acceptedThrough |-> p.devices[r.target].acceptedThrough]
      BY <2>1 DEF RosterPayload
    <3>2. c[r.target] = [status |-> "revoked", displayName |-> p.devices[r.target].displayName,
                         acceptedThrough |-> r.cutoff]
      BY <2>1, <3>1 DEF RosterPayload
    <3>3. p.devices[r.target] \in Member
      BY <2>1 DEF State
    <3>4. /\ Applied(p, r).devices[r.target].status = "revoked"
          /\ Applied(p, r).devices[r.target].displayName = p.devices[r.target].displayName
          /\ Applied(p, r).devices[r.target].acceptedThrough = r.cutoff
      BY <2>1, <2>2, <3>3 DEF State, Member
    <3>5. b[r.target] = c[r.target]
      BY <2>1, <3>2, <3>4 DEF RosterPayload
    <3>6. \A e \in Devices \ {r.target} : b[e] = c[e]
      BY <2>1, <2>2 DEF RosterPayload, State
    <3> QED BY <3>5, <3>6 DEF RosterPayload
  <2>5. CASE p.devices[r.target].status = "active"
    BY <2>1, <2>3, <2>4, <2>5 DEF Amends, RosterPayload
  <2>6. CASE p.devices[r.target].status # "active"
    <3>1. p.devices[r.target].status = "revoked" /\ p.devices[r.target].acceptedThrough = r.cutoff
      BY <1>4, <2>6 DEF Allowed, MayRevoke
    <3>2. Applied(p, r).devices = p.devices
      BY <2>1, <2>2, <3>1 DEF State, Member
    <3> QED BY <2>3, <3>2 DEF Changes
  <2> QED BY <2>5, <2>6
<1> QED BY <1>1, <1>2, <1>3, <1>4 DEF Request

LEMMA TransactedFollows ==
  ASSUME NEW s \in State, NEW l, NEW r \in Request, r.nonce \in Nonces,
         Allowed(Prune(s, l), r), CutoffsOK(s)
  PROVE  Follows(s, Transacted(Prune(s, l), r))
<1> DEFINE p == Prune(s, l)
           t == Transacted(p, r)
<1>1. p \in State /\ p.rosterRevision = s.rosterRevision /\ p.devices = s.devices
  BY PruneType
<1>2. CutoffsOK(p) /\ RosterPayload(p) = RosterPayload(s)
  BY <1>1 DEF CutoffsOK, RosterPayload
<1>3. /\ t.devices = Applied(p, r).devices
      /\ t.rosterRevision = IF Changes(p, r) THEN p.rosterRevision + 1 ELSE p.rosterRevision
  BY <1>1, TransactedType
<1>4. RosterPayload(t) = RosterPayload(Applied(p, r)) /\ (CutoffsOK(Applied(p, r)) => CutoffsOK(t))
  BY <1>3 DEF RosterPayload, CutoffsOK
<1>5. CutoffsOK(t) /\ (Changes(p, r) => Amends(RosterPayload(p), RosterPayload(t)))
  BY <1>1, <1>2, <1>4, AppliedAmends
<1>6. ~Changes(p, r) => RosterPayload(t) = RosterPayload(p)
  BY <1>3 DEF Changes, RosterPayload
<1> QED
  BY <1>1, <1>2, <1>3, <1>5, <1>6 DEF Follows

-----------------------------------------------------------------------------
(* The inductive invariant behind the roster log: every snapshot anyone holds is an   *)
(* entry of the log, and a current ETag means the blob is still the one that was read *)

LogMatches ==
  /\ Len(log) = control.rosterRevision
  /\ Len(log) >= 1
  /\ log[Len(log)] = RosterPayload(control)
  /\ CutoffsOK(control)

PublishedMatches ==
  /\ published.revision <= Len(log)
  /\ published.revision > 0 => published.devices = log[published.revision]

LocalMatches(h) ==
  /\ since[h] <= Len(log)
  /\ pc[h] = "commit" /\ h \in controlTag => Follows(control, snap[h])
  /\ pc[h] = "state" =>
       /\ seen[h].revision <= published.revision
       /\ seen[h].revision > 0 => seen[h].devices = log[seen[h].revision]
       /\ h \in rosterTag => seen[h] = published
  /\ pc[h] \in {"sign", "respond"} =>
       /\ snap[h].rosterRevision \in 1 .. Len(log) /\ snap[h].rosterRevision >= since[h]
       /\ RosterPayload(snap[h]) = log[snap[h].rosterRevision]
  /\ pc[h] = "sign" /\ h \in rosterTag => snap[h].rosterRevision > published.revision
  /\ pc[h] = "respond" => snap[h].rosterRevision <= published.revision

LogInv == LogMatches /\ PublishedMatches /\ \A h \in Handlers : LocalMatches(h)

\* The locals of every invocation but h stay.
Others(h) ==
  \A g \in Handlers \ {h} : /\ pc'[g] = pc[g] /\ snap'[g] = snap[g]
                            /\ seen'[g] = seen[g] /\ since'[g] = since[g]

LEMMA EndOthers ==
  ASSUME TInv, NEW h \in Handlers, End(h)
  PROVE  Others(h) /\ pc'[h] = "idle" /\ since'[h] = 0
  BY DEF TInv, TypeOK, End, Goto, Others

LEMMA RetryOthers ==
  ASSUME TInv, NEW h \in Handlers, NEW head, Retry(h, head)
  PROVE  Others(h) /\ pc'[h] \in {"idle", head} /\ since'[h] \in {0, since[h]}
<1>1. CASE tries[h] + 1 = MaxCasAttempts
  BY <1>1, EndOthers DEF Retry
<1>2. CASE tries[h] + 1 # MaxCasAttempts
  BY <1>2 DEF Retry, TInv, TypeOK, Goto, Others
<1> QED BY <1>1, <1>2

\* An invocation whose locals stay keeps its part when nothing is written.
LEMMA LocalKept ==
  ASSUME NEW g \in Handlers, LocalMatches(g), UNCHANGED <<control, published, log>>,
         pc'[g] = pc[g], snap'[g] = snap[g], seen'[g] = seen[g], since'[g] = since[g],
         g \in controlTag' => g \in controlTag, g \in rosterTag' => g \in rosterTag
  PROVE  LocalMatches(g)'
<1>1. Follows(control, snap[g]) => Follows(control, snap[g])'
  BY DEF Follows, CutoffsOK, RosterPayload
<1>2. RosterPayload(snap[g])' = RosterPayload(snap[g])
  BY DEF RosterPayload
<1> QED BY <1>1, <1>2 DEF LocalMatches

\* Nothing is written and h is at no step that LogInv speaks of.
LEMMA QuietStep ==
  ASSUME TInv, LogInv, NEW h \in Handlers, Others(h), UNCHANGED <<control, published, log>>,
         controlTag' \subseteq controlTag, rosterTag' \subseteq rosterTag,
         pc'[h] \in {"idle", "transact", "publish", "corrupt"}, since'[h] <= Len(log)
  PROVE  LogInv'
<1>1. LogMatches' /\ PublishedMatches'
  BY DEF LogInv, LogMatches, PublishedMatches, CutoffsOK, RosterPayload
<1>2. LocalMatches(h)'
  BY DEF LogInv, LocalMatches
<1>3. ASSUME NEW g \in Handlers \ {h} PROVE LocalMatches(g)'
  BY LocalKept DEF LogInv, Others
<1> QED BY <1>1, <1>2, <1>3 DEF LogInv

LEMMA LogInit == Init => LogInv
<1> SUFFICES ASSUME Init PROVE LogInv
  OBVIOUS
<1>1. LogMatches
  BY DEF Init, LogMatches, InitialState, CutoffsOK, Active, Absent
<1> QED
  BY <1>1 DEF Init, LogInv, PublishedMatches, LocalMatches, NoRoster

\* The control blob is only ever replaced by a state that follows it.
LEMMA CommitLog ==
  ASSUME TInv, LogInv, NEW h \in Handlers, Commit(h)
  PROVE  /\ LogInv'
         /\ \/ log' = log
            \/ \E b \in Roster : log' = Append(log, b) /\ Amends(log[Len(log)], b)
<1> DEFINE s == snap[h]
           b == RosterPayload(s)
<1>1. /\ s \in State /\ Follows(control, s) /\ LogMatches /\ PublishedMatches
      /\ b \in Roster /\ log \in Seq(Roster) /\ published.revision \in Nat
  BY PayloadType DEF Commit, LogInv, LocalMatches, TInv, TypeOK
<1>2. /\ control' = s /\ controlTag' = {} /\ published' = published /\ rosterTag' = rosterTag
      /\ log' = IF s.rosterRevision > Len(log) THEN Append(log, b) ELSE log
  BY DEF Commit, WriteControl
<1>3. /\ Others(h) /\ pc'[h] \in {"publish", "transact", "idle"}
      /\ since'[h] \in {0, since[h], s.rosterRevision}
  <2>1. CASE Committed(h)
    BY <2>1 DEF Committed, Goto, Others, TInv, TypeOK
  <2>2. CASE Retry(h, "transact")
    BY <2>2, RetryOthers
  <2>3. CASE End(h)
    BY <2>3, EndOthers
  <2> QED BY <2>1, <2>2, <2>3 DEF Commit
<1>4. \/ log' = log /\ s.rosterRevision = Len(log) /\ b = log[Len(log)]
      \/ log' = Append(log, b) /\ s.rosterRevision = Len(log) + 1 /\ Amends(log[Len(log)], b)
  BY <1>1, <1>2 DEF Follows, LogMatches
<1>5. /\ Len(log') = s.rosterRevision /\ Len(log') >= Len(log) /\ log'[Len(log')] = b
      /\ \A k \in 1 .. Len(log) : log'[k] = log[k]
  <2>1. CASE log' = log /\ s.rosterRevision = Len(log) /\ b = log[Len(log)]
    BY <1>1, <2>1
  <2>2. CASE log' = Append(log, b) /\ s.rosterRevision = Len(log) + 1
    <3> HIDE DEF b
    <3>1. /\ Len(log') = Len(log) + 1 /\ Len(log) \in Nat /\ log'[Len(log) + 1] = b
          /\ \A k \in 1 .. Len(log) : log'[k] = log[k]
      BY <1>1, <2>2
    <3> QED BY <2>2, <3>1
  <2> QED BY <1>4, <2>1, <2>2
<1>6. LogMatches'
  <2>1. CutoffsOK(control)'
    BY <1>1, <1>2 DEF Follows, CutoffsOK
  <2>2. RosterPayload(control)' = b
    BY <1>2 DEF RosterPayload
  <2>3. Len(log') = control'.rosterRevision /\ Len(log') >= 1
    BY <1>1, <1>2, <1>5 DEF LogMatches
  <2> QED BY <1>5, <2>1, <2>2, <2>3 DEF LogMatches
<1>7. PublishedMatches'
  BY <1>1, <1>2, <1>5 DEF PublishedMatches
<1>8. LocalMatches(h)'
  <2>1. since[h] <= Len(log) /\ Len(log) \in Nat /\ since[h] \in Nat /\ s.rosterRevision \in Nat
    BY <1>1 DEF LogInv, LocalMatches, TInv, TypeOK, State
  <2>2. since'[h] <= Len(log')
    BY <1>3, <1>5, <2>1
  <2> QED BY <1>3, <2>2 DEF LocalMatches
<1>9. ASSUME NEW g \in Handlers \ {h} PROVE LocalMatches(g)'
  <2>1. LocalMatches(g) /\ pc'[g] = pc[g] /\ snap'[g] = snap[g] /\ seen'[g] = seen[g] /\ since'[g] = since[g]
    BY <1>3 DEF LogInv, Others
  <2>2. since[g] \in Nat /\ seen[g].revision \in Nat /\ Len(log) \in Nat
    BY <1>1 DEF TInv, TypeOK
  <2>3. pc[g] = "state" => seen[g].revision <= Len(log)
    BY <1>1, <2>1, <2>2 DEF LocalMatches, PublishedMatches
  <2> QED
    BY SMTT(30), <1>1, <1>2, <1>5, <2>1, <2>2, <2>3 DEF LocalMatches, RosterPayload
<1> QED BY <1>1, <1>4, <1>6, <1>7, <1>8, <1>9 DEF LogInv

\* The public roster is only ever replaced by a later entry of the log.
LEMMA PublishLog ==
  ASSUME TInv, LogInv, NEW h \in Handlers, Publish(h)
  PROVE  /\ LogInv'
         /\ log' = log
         /\ published'.revision \in published.revision + 1 .. Len(log)
         /\ published'.devices = log[published'.revision]
<1> DEFINE s == snap[h]
<1>1. /\ s \in State /\ LogMatches /\ PublishedMatches /\ LocalMatches(h)
      /\ log \in Seq(Roster) /\ published.revision \in Nat
  BY DEF Publish, LogInv, TInv, TypeOK
<1>2. /\ s.rosterRevision \in 1 .. Len(log) /\ s.rosterRevision > published.revision
      /\ RosterPayload(s) = log[s.rosterRevision]
  BY <1>1 DEF Publish, LocalMatches
<1>3. /\ control' = control /\ controlTag' = controlTag /\ log' = log /\ rosterTag' = {}
      /\ published' = [revision |-> s.rosterRevision, devices |-> RosterPayload(s)]
  BY DEF Publish, WriteRoster
<1>4. /\ Others(h)
      /\ \/ pc'[h] \in {"publish", "idle"} /\ since'[h] \in {0, since[h]}
         \/ pc'[h] = "respond" /\ snap'[h] = s /\ since'[h] = since[h]
  <2>1. CASE Answer(h, snap[h])
    <3>1. CASE End(h)
      BY <3>1, EndOthers
    <3>2. CASE ~End(h)
      BY <2>1, <3>2 DEF Answer, Goto, Others, TInv, TypeOK
    <3> QED BY <3>1, <3>2
  <2>2. CASE Retry(h, "publish")
    BY <2>2, RetryOthers
  <2>3. CASE End(h)
    BY <2>3, EndOthers
  <2> QED BY <2>1, <2>2, <2>3 DEF Publish
<1>5. LogMatches' /\ PublishedMatches'
  BY <1>1, <1>2, <1>3 DEF LogMatches, PublishedMatches, CutoffsOK, RosterPayload
<1>6. LocalMatches(h)'
  <2>1. since[h] \in Nat /\ since[h] <= Len(log) /\ since[h] <= s.rosterRevision /\ Len(log) \in Nat
    BY <1>1 DEF TInv, TypeOK, LocalMatches, Publish
  <2>2. CASE pc'[h] \in {"publish", "idle"} /\ since'[h] \in {0, since[h]}
    BY <1>3, <2>1, <2>2 DEF LocalMatches
  <2>3. CASE pc'[h] = "respond" /\ snap'[h] = s /\ since'[h] = since[h]
    <3>1. RosterPayload(snap[h])' = RosterPayload(s)
      BY <2>3 DEF RosterPayload
    <3> QED BY <1>2, <1>3, <2>1, <2>3, <3>1 DEF LocalMatches
  <2> QED BY <1>4, <2>2, <2>3
<1>7. ASSUME NEW g \in Handlers \ {h} PROVE LocalMatches(g)'
  <2>1. LocalMatches(g) /\ pc'[g] = pc[g] /\ snap'[g] = snap[g] /\ seen'[g] = seen[g] /\ since'[g] = since[g]
    BY <1>4 DEF LogInv, Others
  <2>2. seen[g].revision \in Nat /\ snap[g] \in State
    BY DEF TInv, TypeOK
  <2>3. Follows(control, snap[g]) => Follows(control, snap[g])'
    BY <1>3, <2>1 DEF Follows, CutoffsOK, RosterPayload
  <2> QED
    BY <1>1, <1>2, <1>3, <2>1, <2>2, <2>3 DEF LocalMatches, RosterPayload, State
<1> QED BY <1>1, <1>2, <1>3, <1>5, <1>6, <1>7 DEF LogInv

LEMMA LogStep == TInv /\ LogInv /\ [Next]_vars => LogInv'
<1> SUFFICES ASSUME TInv, LogInv, [Next]_vars PROVE LogInv'
  OBVIOUS
<1>0. /\ LogMatches /\ PublishedMatches /\ control \in State
      /\ \A h \in Handlers : LocalMatches(h) /\ since[h] \in Nat /\ seen[h].revision \in Nat
      /\ published.revision \in Nat /\ log \in Seq(Roster)
  BY DEF LogInv, TInv, TypeOK
<1>1. ASSUME NEW x \in Nonces \cup Tokens, Lapse(x) PROVE LogInv'
  <2>1. UNCHANGED <<control, published, controlTag, rosterTag, pc, snap, seen, log, since>>
    BY <1>1 DEF Lapse, blobs, invocation
  <2> QED BY <1>0, <2>1, LocalKept DEF LogInv, LogMatches, PublishedMatches, CutoffsOK, RosterPayload
<1>2. ASSUME NEW h \in Handlers, NEW d \in Devices, NEW n \in Nonces, Ask(h, d, n) PROVE LogInv'
  <2>1. PICK r \in Request : Begin(h, r)
    BY <1>2, AskType
  <2>2. Others(h) /\ pc'[h] = "transact" /\ since'[h] = control.rosterRevision
    BY <2>1 DEF Begin, Goto, Others, TInv, TypeOK
  <2>3. UNCHANGED <<control, published, log, controlTag, rosterTag>>
    BY <2>1 DEF Begin, blobs
  <2> QED BY <1>0, <2>2, <2>3, QuietStep DEF LogMatches
<1>3. ASSUME NEW h \in Handlers, Decide(h) PROVE LogInv'
  <2> DEFINE t == Transacted(Prune(control, lapsed), req[h])
  <2>1. req[h] \in Request /\ req[h].nonce \in Nonces
    BY <1>3 DEF TInv, TypeOK, Carried, Decide
  <2>2. Follows(control, t)
    BY <1>0, <1>3, <2>1, TransactedFollows DEF LogMatches, Decide, Accepted
  <2>3. /\ Others(h) /\ snap'[h] = t /\ since'[h] = since[h] /\ pc'[h] \in {"commit", "corrupt"}
        /\ controlTag' = controlTag \cup {h}
        /\ UNCHANGED <<control, published, rosterTag, log>>
    BY <1>3 DEF Decide, Goto, Others, TInv, TypeOK
  <2>4. LogMatches' /\ PublishedMatches'
    BY <1>0, <2>3 DEF LogMatches, PublishedMatches, CutoffsOK, RosterPayload
  <2>5. Follows(control, snap[h])'
    BY <2>2, <2>3 DEF Follows, CutoffsOK, RosterPayload
  <2>6. LocalMatches(h)'
    BY <1>0, <2>3, <2>5 DEF LocalMatches
  <2>7. ASSUME NEW g \in Handlers \ {h} PROVE LocalMatches(g)'
    BY <1>0, <2>3, LocalKept DEF Others
  <2> QED BY <2>4, <2>6, <2>7 DEF LogInv
<1>4. ASSUME NEW h \in Handlers, Refuse(h) PROVE LogInv'
  <2>1. Others(h) /\ pc'[h] \in {"idle", "corrupt"} /\ since'[h] \in {0, since[h]}
    <3>1. CASE End(h)
      BY <3>1, EndOthers
    <3>2. CASE Goto(h, "corrupt") /\ UNCHANGED <<req, snap, seen, tries, since>>
      BY <3>2 DEF Goto, Others, TInv, TypeOK
    <3> QED BY <1>4, <3>1, <3>2 DEF Refuse
  <2>2. UNCHANGED <<control, published, log, controlTag, rosterTag>>
    BY <1>4 DEF Refuse, blobs
  <2>3. since'[h] <= Len(log)
    BY <1>0, <2>1 DEF LocalMatches, LogMatches
  <2> QED BY <2>1, <2>2, <2>3, QuietStep
<1>5. ASSUME NEW h \in Handlers, Commit(h) PROVE LogInv'
  BY <1>5, CommitLog
<1>6. ASSUME NEW h \in Handlers, NEW head \in {"transact", "publish"}, Retry(h, head),
             UNCHANGED <<blobs, log>>
      PROVE LogInv'
  <2>1. Others(h) /\ pc'[h] \in {"idle", head} /\ since'[h] \in {0, since[h]}
    BY <1>6, RetryOthers
  <2>2. since'[h] <= Len(log)
    BY <1>0, <2>1 DEF LocalMatches, LogMatches
  <2>3. UNCHANGED <<control, published, log, controlTag, rosterTag>>
    BY <1>6 DEF blobs
  <2> QED BY <2>1, <2>2, <2>3, QuietStep
<1>7. ASSUME NEW h \in Handlers, ReadRoster(h) PROVE LogInv'
  <2>1. /\ Others(h) /\ pc'[h] = "state" /\ seen'[h] = published /\ since'[h] = since[h]
        /\ rosterTag' = rosterTag \cup {h}
        /\ UNCHANGED <<control, published, controlTag, log>>
    BY <1>7 DEF ReadRoster, Goto, Others, TInv, TypeOK
  <2>2. LogMatches' /\ PublishedMatches'
    BY <1>0, <2>1 DEF LogMatches, PublishedMatches, CutoffsOK, RosterPayload
  <2>3. LocalMatches(h)'
    BY <1>0, <2>1 DEF LocalMatches, PublishedMatches
  <2>4. ASSUME NEW g \in Handlers \ {h} PROVE LocalMatches(g)'
    BY <1>0, <2>1, LocalKept DEF Others
  <2> QED BY <2>2, <2>3, <2>4 DEF LogInv
<1>8. ASSUME NEW h \in Handlers, ReadState(h) PROVE LogInv'
  <2>1. UNCHANGED <<control, published, controlTag, log>> /\ rosterTag' \subseteq rosterTag
    BY <1>8 DEF ReadState
  <2>2. LogMatches' /\ PublishedMatches'
    BY <1>0, <2>1 DEF LogMatches, PublishedMatches, CutoffsOK, RosterPayload
  <2>3. /\ pc[h] = "state" /\ since[h] <= Len(log) /\ seen[h].revision <= published.revision
        /\ h \in rosterTag => seen[h] = published
    BY <1>0, <1>8 DEF ReadState, LocalMatches
  <2>4. control.rosterRevision = Len(log) /\ Len(log) \in Nat /\ Len(log) >= 1
        /\ RosterPayload(control) = log[Len(log)]
    BY <1>0 DEF LogMatches
  <2>5. Others(h) /\ LocalMatches(h)'
    <3>1. CASE End(h)
      BY <2>4, <3>1, EndOthers DEF LocalMatches
    <3>2. CASE pc' = [pc EXCEPT ![h] = "corrupt"] /\ UNCHANGED <<snap, seen, since>>
      BY <2>1, <2>3, <3>2 DEF LocalMatches, Others, TInv, TypeOK
    <3>3. CASE /\ pc' = [pc EXCEPT ![h] = "respond"] /\ snap' = [snap EXCEPT ![h] = control]
               /\ UNCHANGED <<seen, since>> /\ seen[h].revision = control.rosterRevision
      <4>1. snap'[h] = control /\ pc'[h] = "respond" /\ since'[h] = since[h]
        BY <3>3 DEF TInv, TypeOK
      <4>2. control.rosterRevision <= published.revision
        BY <2>3, <2>4, <3>3
      <4>3. RosterPayload(snap[h])' = RosterPayload(control)
        BY <4>1 DEF RosterPayload
      <4>4. LocalMatches(h)'
        BY <2>1, <2>3, <2>4, <4>1, <4>2, <4>3 DEF LocalMatches
      <4> QED BY <3>3, <4>4 DEF Others, TInv, TypeOK
    <3>4. CASE /\ pc' = [pc EXCEPT ![h] = "sign"] /\ snap' = [snap EXCEPT ![h] = control]
               /\ UNCHANGED <<seen, since>> /\ seen[h].revision < control.rosterRevision
      <4>1. snap'[h] = control /\ pc'[h] = "sign" /\ since'[h] = since[h]
        BY <3>4 DEF TInv, TypeOK
      <4>2. h \in rosterTag' => control.rosterRevision > published.revision
        BY <2>1, <2>3, <3>4
      <4>3. RosterPayload(snap[h])' = RosterPayload(control)
        BY <4>1 DEF RosterPayload
      <4>4. LocalMatches(h)'
        BY <2>1, <2>3, <2>4, <4>1, <4>2, <4>3 DEF LocalMatches
      <4> QED BY <3>4, <4>4 DEF Others, TInv, TypeOK
    <3> QED BY <1>8, <3>1, <3>2, <3>3, <3>4 DEF ReadState, Answer, Goto
  <2>6. ASSUME NEW g \in Handlers \ {h} PROVE LocalMatches(g)'
    BY <1>0, <2>1, <2>5, LocalKept DEF Others
  <2> QED BY <2>2, <2>5, <2>6 DEF LogInv
<1>9. ASSUME NEW h \in Handlers, Publish(h) PROVE LogInv'
  BY <1>9, PublishLog
<1>10. ASSUME NEW h \in Handlers, Leave(h) PROVE LogInv'
  <2>1. Others(h) /\ pc'[h] = "idle" /\ since'[h] = 0
    BY <1>10, EndOthers DEF Leave
  <2>2. UNCHANGED <<control, published, log>> /\ controlTag' \subseteq controlTag
        /\ rosterTag' \subseteq rosterTag
    BY <1>10 DEF Leave
  <2>3. 0 <= Len(log)
    BY <1>0
  <2> QED BY <2>1, <2>2, <2>3, QuietStep
<1>11. CASE UNCHANGED vars
  <2>1. UNCHANGED <<control, published, controlTag, rosterTag, pc, snap, seen, log, since>>
    BY <1>11 DEF vars
  <2> QED BY <1>0, <2>1, LocalKept DEF LogInv, LogMatches, PublishedMatches, CutoffsOK, RosterPayload
<1> QED
  BY <1>1, <1>2, <1>3, <1>4, <1>5, <1>6, <1>7, <1>8, <1>9, <1>10, <1>11
     DEF Next, Transact, PublishRoster, CommitConflict, PublishConflict

LEMMA LogInvariant == Spec => [](TInv /\ LogInv)
<1>1. Init => TInv /\ LogInv
  BY TypeInit, LogInit
<1>2. TInv /\ LogInv /\ [Next]_vars => (TInv /\ LogInv)'
  BY TypeStep, LogStep
<1> QED BY <1>1, <1>2, PTL DEF Spec

\* An answer under way goes to a member of the state it was taken from.
Answerable(h) == pc[h] = "respond" => IsMember(snap[h], req[h].device)

\* Only Answer makes one, and nobody touches what another invocation carries.
LEMMA AnswerStep ==
  ASSUME TInv, [Next]_vars, NEW g \in Handlers, Answerable(g)
  PROVE  Answerable(g)'
<1>0. /\ pc \in [Handlers -> Steps] /\ req \in [Handlers -> Request]
      /\ snap \in [Handlers -> State]
  BY DEF TInv, TypeOK
<1>1. CASE pc'[g] = pc[g] /\ req'[g] = req[g] /\ snap'[g] = snap[g]
  BY <1>1 DEF Answerable, IsMember
<1>2. CASE pc'[g] # "respond"
  BY <1>2 DEF Answerable
<1>3. ASSUME NEW h \in Handlers, NEW s \in State, Answer(h, s) PROVE Answerable(g)'
  <2>1. CASE End(h)
    BY <1>0, <1>1, <1>2, <2>1 DEF End, Goto
  <2>2. CASE ~End(h)
    <3>1. /\ IsMember(s, req[h].device) /\ req' = req
          /\ pc' = [pc EXCEPT ![h] = "respond"] /\ snap' = [snap EXCEPT ![h] = s]
      BY <1>3, <2>2 DEF Answer, Goto
    <3>2. CASE g = h
      BY <1>0, <3>1, <3>2 DEF Answerable, IsMember
    <3>3. CASE g # h
      BY <1>0, <1>1, <3>1, <3>3
    <3> QED BY <3>2, <3>3
  <2> QED BY <2>1, <2>2
<1>4. ASSUME NEW h \in Handlers, NEW step \in Steps \ {"respond"}, Goto(h, step),
             \A k \in Handlers \ {h} : req'[k] = req[k] /\ snap'[k] = snap[k]
      PROVE  Answerable(g)'
  BY <1>0, <1>1, <1>2, <1>4 DEF Goto
<1>5. ASSUME NEW h \in Handlers, NEW head \in {"transact", "publish"}, Retry(h, head)
      PROVE  Answerable(g)'
  BY <1>0, <1>4, <1>5 DEF Retry, End, Steps
<1>6. ASSUME NEW h \in Handlers, End(h) PROVE Answerable(g)'
  BY <1>0, <1>4, <1>6 DEF End, Steps
<1>7. ASSUME NEW x \in Nonces \cup Tokens, Lapse(x) PROVE Answerable(g)'
  BY <1>1, <1>7 DEF Lapse, invocation
<1>8. ASSUME NEW h \in Handlers, NEW d \in Devices, NEW n \in Nonces, Ask(h, d, n)
      PROVE  Answerable(g)'
  <2>1. PICK r \in Request : Begin(h, r)
    BY <1>8, AskType
  <2> QED BY <1>0, <1>4, <2>1 DEF Begin, Steps
<1>9. ASSUME NEW h \in Handlers, Transact(h) PROVE Answerable(g)'
  <2>1. CASE Decide(h)
    BY <1>0, <1>4, <2>1 DEF Decide, Steps
  <2>2. CASE Refuse(h)
    BY <1>0, <1>4, <1>6, <2>2 DEF Refuse, Steps
  <2>3. CASE Commit(h)
    BY <1>0, <1>4, <1>5, <1>6, <2>3 DEF Commit, Committed, Steps
  <2>4. CASE CommitConflict(h)
    BY <1>5, <2>4 DEF CommitConflict
  <2> QED BY <1>9, <2>1, <2>2, <2>3, <2>4 DEF Transact
<1>10. ASSUME NEW h \in Handlers, PublishRoster(h) PROVE Answerable(g)'
  <2>1. CASE ReadRoster(h)
    BY <1>0, <1>4, <2>1 DEF ReadRoster, Steps
  <2>2. CASE ReadState(h)
    <3>1. control \in State
      BY DEF TInv, TypeOK
    <3> QED BY <1>0, <1>3, <1>4, <2>2, <3>1 DEF ReadState, Steps
  <2>3. CASE Publish(h)
    BY <1>0, <1>3, <1>5, <1>6, <2>3 DEF Publish
  <2>4. CASE PublishConflict(h)
    BY <1>5, <2>4 DEF PublishConflict
  <2> QED BY <1>10, <2>1, <2>2, <2>3, <2>4 DEF PublishRoster
<1>11. ASSUME NEW h \in Handlers, Leave(h) PROVE Answerable(g)'
  BY <1>6, <1>11 DEF Leave
<1>12. CASE UNCHANGED vars
  BY <1>1, <1>12 DEF vars
<1> QED BY <1>7, <1>8, <1>9, <1>10, <1>11, <1>12 DEF Next

\* A success answered after publishRoster covers the request's own transaction and all
\* that was committed before it began, goes to a member, and shows a roster that has been
\* published.
THEOREM AnswersCover == Spec => []AnswerCovers
<1> DEFINE Served == \A h \in Handlers : Answerable(h)
<1>1. TInv /\ LogInv /\ Served => AnswerCovers
  <2> SUFFICES ASSUME TInv, LogInv, Served, NEW h \in Handlers, pc[h] = "respond"
               PROVE  /\ IsMember(snap[h], req[h].device)
                      /\ snap[h].rosterRevision \in since[h] .. published.revision
                      /\ RosterPayload(snap[h]) = log[snap[h].rosterRevision]
    BY DEF AnswerCovers
  <2>1. LocalMatches(h) /\ since[h] \in Nat /\ published.revision \in Nat /\ log \in Seq(Roster)
    BY DEF LogInv, TInv, TypeOK
  <2> QED BY <2>1 DEF LocalMatches, Answerable
<1>2. Init => Served
  BY DEF Init, Answerable
<1>3. TInv /\ Served /\ [Next]_vars => Served'
  BY AnswerStep
<1> HIDE DEF Served
<1> QED BY <1>1, <1>2, <1>3, LogInvariant, PTL DEF Spec

-----------------------------------------------------------------------------
(* The refinement *)

LEMMA LogAction ==
  TInv /\ LogInv /\ [Next]_vars => [RosterLog!Next]_<<log, published.revision, published.devices>>
<1> SUFFICES ASSUME TInv, LogInv, [Next]_vars, UNCHANGED <<log, published>> => FALSE
             PROVE  RosterLog!Next
  OBVIOUS
<1>1. ASSUME NEW h \in Handlers, Commit(h) PROVE RosterLog!Next
  <2>1. published' = published
    BY <1>1 DEF Commit, WriteControl
  <2>2. PICK b \in Roster : log' = Append(log, b) /\ Amends(log[Len(log)], b)
    BY <1>1, <2>1, CommitLog
  <2>3. PICK d \in Devices :
          \/ \E x \in Names : /\ log[Len(log)][d].status = "absent"
                              /\ b = [log[Len(log)] EXCEPT ![d].status = "active", ![d].displayName = x]
          \/ \E x \in Names : /\ log[Len(log)][d].status = "active"
                              /\ b = [log[Len(log)] EXCEPT ![d].displayName = x]
          \/ \E c \in Cutoffs : /\ d # Owner /\ log[Len(log)][d].status = "active"
                                /\ b = [log[Len(log)] EXCEPT ![d].status = "revoked",
                                                             ![d].acceptedThrough = c]
    BY <2>2 DEF Amends
  <2>4. \/ \E x \in Names : RosterLog!Join(d, x)
        \/ \E x \in Names : RosterLog!Rename(d, x)
        \/ \E c \in Cutoffs : RosterLog!Revoke(d, c)
    BY <2>1, <2>2, <2>3 DEF RosterLog!Join, RosterLog!Rename, RosterLog!Revoke, RosterLog!Amend,
                            RosterLog!newest
  <2> QED BY <2>4 DEF RosterLog!Next
<1>2. ASSUME NEW h \in Handlers, Publish(h) PROVE RosterLog!Next
  BY <1>2, PublishLog DEF RosterLog!Next, RosterLog!Show
<1>3. ASSUME NEW x \in Nonces \cup Tokens, Lapse(x) PROVE FALSE
  BY <1>3 DEF Lapse, blobs
<1>4. ASSUME NEW h \in Handlers, NEW d \in Devices, NEW n \in Nonces, Ask(h, d, n) PROVE FALSE
  BY <1>4, AskType DEF Begin, blobs
<1>5. ASSUME NEW h \in Handlers,
             \/ Decide(h) \/ Refuse(h) \/ CommitConflict(h)
             \/ ReadRoster(h) \/ ReadState(h) \/ PublishConflict(h) \/ Leave(h)
      PROVE  FALSE
  BY <1>5 DEF Decide, Refuse, CommitConflict, ReadRoster, ReadState, PublishConflict, Leave, blobs
<1>6. CASE UNCHANGED vars
  BY <1>6 DEF vars
<1> QED BY <1>1, <1>2, <1>3, <1>4, <1>5, <1>6 DEF Next, Transact, PublishRoster

\* The two blobs implement RosterLog: revisions grow one legal amendment at a time (a
\* member once revoked stays revoked), and the public roster only moves forward along them.
THEOREM RosterLogImplemented == Spec => ImplementsRosterLog
<1>1. Init => RosterLog!Init
  BY DEF Init, RosterLog!Init, NoRoster
<1> QED
  BY <1>1, LogInvariant, LogAction, PTL DEF Spec, ImplementsRosterLog, RosterLog!Spec

-----------------------------------------------------------------------------
(* The control state as data *)

HashOf(s, d) == s.devices[d].invitationHash

\* No device was admitted by the invitation t, and nobody can be.
Unused(s, t) == s.invitations[t] = "none" /\ \A d \in Devices : HashOf(s, d) # t

\* What every control state satisfies, besides what validateState looks at.
Good(s) ==
  /\ ValidState(s)
  /\ Cardinality(ActiveOf(s)) <= MaxDevices
  /\ \A d \in Devices : s.devices[d].status = "absent" => s.devices[d] = Absent
  /\ \A d, e \in Devices : d # e /\ HashOf(s, d) # None => HashOf(s, d) # HashOf(s, e)
  /\ \A t \in Tokens : s.invitations[t] = "open" => \A d \in Devices : HashOf(s, d) # t

LEMMA StateSets ==
  ASSUME NEW s \in State
  PROVE  /\ IsFiniteSet(MembersOf(s)) /\ Cardinality(MembersOf(s)) \in Nat
         /\ IsFiniteSet(ActiveOf(s)) /\ Cardinality(ActiveOf(s)) \in Nat
         /\ IsFiniteSet(InvitationsOf(s)) /\ Cardinality(InvitationsOf(s)) \in Nat
         /\ IsFiniteSet(s.requests) /\ Cardinality(s.requests) \in Nat
<1>1. /\ MembersOf(s) \in SUBSET Devices /\ ActiveOf(s) \in SUBSET Devices
      /\ InvitationsOf(s) \in SUBSET Tokens /\ s.requests \in SUBSET Nonces
  BY DEF MembersOf, ActiveOf, InvitationsOf, State
<1>2. IsFiniteSet(Devices) /\ IsFiniteSet(Tokens) /\ IsFiniteSet(Nonces)
  BY SyncConstants
<1> QED BY <1>1, <1>2, FS_Subset, FS_CardinalityType

LEMMA SmallerSet ==
  ASSUME NEW S, NEW T, IsFiniteSet(T), S \subseteq T, NEW n \in Nat, Cardinality(T) <= n
  PROVE  Cardinality(S) <= n
<1>1. S \in SUBSET T
  OBVIOUS
<1>2. Cardinality(S) <= Cardinality(T) /\ Cardinality(S) \in Nat /\ Cardinality(T) \in Nat
  BY <1>1, FS_Subset, FS_CardinalityType
<1> QED BY <1>2

LEMMA OneMore ==
  ASSUME NEW S, NEW x, IsFiniteSet(S), NEW n \in Nat, Cardinality(S) < n
  PROVE  Cardinality(S \cup {x}) <= n
<1>1. Cardinality(S) \in Nat /\ Cardinality(S \cup {x}) \in {Cardinality(S), Cardinality(S) + 1}
  BY FS_AddElement, FS_CardinalityType
<1> QED BY <1>1

LEMMA Limits ==
  /\ MaxDevices \in Nat /\ MaxMembers \in Nat /\ MaxInvitations \in Nat /\ MaxNonces \in Nat
  /\ MaxDevices >= 1 /\ MaxMembers >= 1
  BY SyncConstants

LEMMA InitialGood == Good(InitialState)
<1> DEFINE s == InitialState
<1>1. /\ s.rosterRevision = 1 /\ s.requests = {}
      /\ \A d \in Devices : s.devices[d] = IF d = Owner THEN Active(OwnerName, None) ELSE Absent
      /\ \A t \in Tokens : s.invitations[t] = "none"
  BY DEF InitialState
<1>2. MembersOf(s) = {Owner} /\ ActiveOf(s) = {Owner} /\ InvitationsOf(s) = {}
  BY <1>1, SyncConstants DEF MembersOf, ActiveOf, InvitationsOf, Active, Absent
<1>3. Cardinality({Owner}) = 1 /\ Cardinality({}) = 0
  BY FS_Singleton, FS_EmptySet
<1>4. \A d \in Devices : s.devices[d].acceptedThrough = None /\ s.devices[d].status # "revoked"
                         /\ HashOf(s, d) = None
  BY <1>1 DEF Active, Absent, HashOf
<1>5. s.devices[Owner].status = "active" /\ \A d \in Devices : s.devices[d].status = "absent" => s.devices[d] = Absent
  BY <1>1, SyncConstants DEF Active
<1>6. \A t \in Tokens : s.invitations[t] \notin Devices /\ s.invitations[t] # "open"
  BY <1>1, SyncConstants
<1> HIDE DEF s
<1>7. ValidState(s)
  BY <1>1, <1>2, <1>3, <1>4, <1>5, <1>6, Limits DEF ValidState
<1>8. Good(s)
  BY <1>2, <1>3, <1>4, <1>5, <1>6, <1>7, Limits DEF Good
<1> QED BY <1>8 DEF s

LEMMA PruneGood ==
  ASSUME NEW s \in State, NEW l, Good(s)
  PROVE  Good(Prune(s, l))
<1> DEFINE p == Prune(s, l)
<1>1. /\ p \in State /\ p.rosterRevision = s.rosterRevision /\ p.devices = s.devices
      /\ p.requests = s.requests \ l
      /\ \A t \in Tokens : p.invitations[t] \in {"none", s.invitations[t]}
  BY PruneType
<1> HIDE DEF p
<1>2. MembersOf(p) = MembersOf(s) /\ ActiveOf(p) = ActiveOf(s)
      /\ InvitationsOf(p) \subseteq InvitationsOf(s) /\ p.requests \subseteq s.requests
  BY <1>1 DEF MembersOf, ActiveOf, InvitationsOf
<1>3. Cardinality(InvitationsOf(p)) <= MaxInvitations /\ Cardinality(p.requests) <= MaxNonces
  BY <1>2, StateSets, SmallerSet, Limits DEF Good, ValidState
<1>4. \A t \in Tokens : p.invitations[t] # "none" => p.invitations[t] = s.invitations[t]
  BY <1>1
<1>5. ValidState(p)
  BY <1>1, <1>2, <1>3, <1>4, SyncConstants DEF Good, ValidState
<1> QED BY <1>1, <1>2, <1>4, <1>5 DEF Good, HashOf, p

\* What a request makes of the members and invitations, in three kinds.
Edited(p, t) ==
  /\ t.invitations = p.invitations
  /\ t.devices[Owner].status = p.devices[Owner].status
  /\ \A d \in Devices :
       /\ HashOf(t, d) = HashOf(p, d)
       /\ p.devices[d].status = "absent" => t.devices[d] = p.devices[d]
       /\ t.devices[d].status = "absent" => p.devices[d].status = "absent"
       /\ t.devices[d].status = "active" => p.devices[d].status = "active"
       /\ (t.devices[d].acceptedThrough # None) <=> (t.devices[d].status = "revoked")

Admitted(p, t, r) ==
  /\ Admits(p, r) /\ r.token \in Tokens /\ r.device \in Devices
  /\ t.devices = [p.devices EXCEPT ![r.device] = Active(r.name, r.token)]
  /\ t.invitations = [p.invitations EXCEPT ![r.token] = r.device]

Invited(p, t, r) ==
  /\ r.action = "invite" /\ r.token \in Tokens /\ Cardinality(InvitationsOf(p)) < MaxInvitations
  /\ t.devices = p.devices
  /\ t.invitations = [p.invitations EXCEPT ![r.token] = "open"]

LEMMA AppliedKinds ==
  ASSUME NEW p \in State, NEW r \in Request, Good(p), Allowed(p, r), NEW t, t = Applied(p, r)
  PROVE  Edited(p, t) \/ Admitted(p, t, r) \/ Invited(p, t, r)
<1>0. \A d \in Devices : (p.devices[d].acceptedThrough # None) <=> (p.devices[d].status = "revoked")
  BY DEF Good, ValidState
<1>1. CASE r.action = "enroll"
  <2>1. CASE Recovers(p, r)
    BY <1>0, <1>1, <2>1 DEF Applied, Edited
  <2>2. CASE ~Recovers(p, r)
    <3>1. Admits(p, r) /\ r.token \in Tokens /\ r.device \in Devices
      BY <1>1, <2>2 DEF Allowed, Request
    <3>2. t = [p EXCEPT !.invitations = [p.invitations EXCEPT ![r.token] = r.device],
                        !.devices = [p.devices EXCEPT ![r.device] = Active(r.name, r.token)]]
      BY <1>1, <2>2 DEF Applied, Enroll
    <3> QED BY <3>1, <3>2 DEF Admitted, State
  <2> QED BY <2>1, <2>2
<1>2. CASE r.action = "grants"
  BY <1>0, <1>2 DEF Applied, Edited
<1>3. CASE r.action = "rename"
  <2>1. p.devices[r.device].status = "active" /\ r.device \in Devices /\ p.devices[r.device] \in Member
    BY <1>3 DEF Allowed, IsMember, Request, State
  <2>2. t = [p EXCEPT !.devices = [p.devices EXCEPT ![r.device] =
                                     [p.devices[r.device] EXCEPT !.displayName = r.name]]]
    BY <1>3 DEF Applied
  <2>3. t.invitations = p.invitations
        /\ \A d \in Devices : d # r.device => t.devices[d] = p.devices[d]
    BY <2>2 DEF State
  <2>4. /\ t.devices[r.device].status = "active"
        /\ t.devices[r.device].invitationHash = p.devices[r.device].invitationHash
        /\ t.devices[r.device].acceptedThrough = p.devices[r.device].acceptedThrough
    BY <2>1, <2>2 DEF State, Member
  <2>5. Owner \in Devices
    BY SyncConstants
  <2> QED BY <1>0, <2>1, <2>3, <2>4, <2>5 DEF Edited, HashOf
<1>4. CASE r.action = "invite"
  <2>1. t = [p EXCEPT !.invitations = [p.invitations EXCEPT ![r.token] = "open"]]
    BY <1>4 DEF Applied
  <2> QED BY <1>4, <2>1 DEF Allowed, Invited, Request, State
<1>5. CASE r.action = "revoke"
  <2>1. /\ r.cutoff \in Cutoffs /\ r.target \in Devices /\ r.target # Owner
        /\ p.devices[r.target].status \in {"active", "revoked"} /\ p.devices[r.target] \in Member
    BY <1>5 DEF Allowed, MayRevoke, Request, State
  <2>2. t = [p EXCEPT !.devices = [p.devices EXCEPT ![r.target] =
               [p.devices[r.target] EXCEPT !.status = "revoked", !.acceptedThrough = r.cutoff]]]
    <3>1. t = Revoke(p, r)
      BY <1>5 DEF Applied
    <3> QED BY <2>1, <3>1 DEF Revoke, State, Member
  <2>3. t.invitations = p.invitations
        /\ \A d \in Devices : d # r.target => t.devices[d] = p.devices[d]
    BY <2>2 DEF State
  <2>4. /\ t.devices[r.target].status = "revoked" /\ t.devices[r.target].acceptedThrough = r.cutoff
        /\ t.devices[r.target].invitationHash = p.devices[r.target].invitationHash
    BY <2>1, <2>2 DEF State, Member
  <2>5. Owner \in Devices /\ r.cutoff # None
    BY <2>1, SyncConstants
  <2> QED BY <1>0, <2>1, <2>3, <2>4, <2>5 DEF Edited, HashOf
<1> QED BY <1>1, <1>2, <1>3, <1>4, <1>5 DEF Request

\* The parts of Good that are about members and invitations.
Membership(s) ==
  /\ Cardinality(MembersOf(s)) <= MaxMembers /\ Cardinality(ActiveOf(s)) <= MaxDevices
  /\ Cardinality(InvitationsOf(s)) <= MaxInvitations
  /\ s.devices[Owner].status = "active"
  /\ \A d \in Devices :
       /\ (s.devices[d].acceptedThrough # None) <=> (s.devices[d].status = "revoked")
       /\ s.devices[d].status = "absent" => s.devices[d] = Absent
  /\ \A t \in Tokens : s.invitations[t] \in Devices => HashOf(s, s.invitations[t]) = t
  /\ \A d, e \in Devices : d # e /\ HashOf(s, d) # None => HashOf(s, d) # HashOf(s, e)
  /\ \A t \in Tokens : s.invitations[t] = "open" => \A d \in Devices : HashOf(s, d) # t

LEMMA EditedKeeps ==
  ASSUME NEW p \in State, NEW t, Membership(p), Edited(p, t)
  PROVE  Membership(t)
<1>1. MembersOf(t) \subseteq MembersOf(p) /\ ActiveOf(t) \subseteq ActiveOf(p)
  BY DEF Edited, MembersOf, ActiveOf
<1>2. InvitationsOf(t) = InvitationsOf(p)
  BY DEF Edited, InvitationsOf
<1>3. Cardinality(MembersOf(t)) <= MaxMembers /\ Cardinality(ActiveOf(t)) <= MaxDevices
  BY <1>1, StateSets, SmallerSet, Limits DEF Membership
<1>4. \A d \in Devices : t.devices[d].status = "absent" => t.devices[d] = Absent
  BY DEF Edited, Membership
<1> QED BY <1>2, <1>3, <1>4 DEF Membership, Edited

LEMMA AdmittedKeeps ==
  ASSUME NEW p \in State, NEW t, NEW r, Membership(p), Admitted(p, t, r)
  PROVE  Membership(t)
<1> DEFINE d == r.device
           k == r.token
<1>1. /\ d \in Devices /\ k \in Tokens /\ p.devices[d].status = "absent" /\ p.invitations[k] = "open"
      /\ Cardinality(MembersOf(p)) < MaxMembers /\ Cardinality(ActiveOf(p)) < MaxDevices
      /\ t.devices[d] = Active(r.name, k) /\ t.invitations[k] = d
      /\ \A e \in Devices : e # d => t.devices[e] = p.devices[e]
      /\ \A u \in Tokens : u # k => t.invitations[u] = p.invitations[u]
  BY DEF Admitted, Admits, State
<1>2. None \notin Tokens /\ "open" \notin Devices /\ "none" \notin Devices
  BY SyncConstants
<1>3. /\ t.devices[d].status = "active" /\ HashOf(t, d) = k /\ t.devices[d].acceptedThrough = None
      /\ HashOf(p, d) = None
  BY <1>1 DEF HashOf, Active, Membership, Absent
<1>4. MembersOf(t) = MembersOf(p) \cup {d} /\ ActiveOf(t) = ActiveOf(p) \cup {d}
  BY <1>1, <1>3 DEF MembersOf, ActiveOf
<1>5. Cardinality(MembersOf(t)) <= MaxMembers /\ Cardinality(ActiveOf(t)) <= MaxDevices
  BY <1>1, <1>4, StateSets, OneMore, Limits
<1>6. InvitationsOf(t) \subseteq InvitationsOf(p)
  BY <1>1 DEF InvitationsOf
<1>7. Cardinality(InvitationsOf(t)) <= MaxInvitations
  BY <1>6, StateSets, SmallerSet, Limits DEF Membership
<1>8. t.devices[Owner].status = "active"
  <2>1. Owner \in Devices /\ p.devices[Owner].status = "active"
    BY SyncConstants DEF Membership
  <2> QED BY <1>1, <2>1
<1>9. \A e \in Devices : e # d => HashOf(t, e) = HashOf(p, e) /\ HashOf(t, e) # k
  BY <1>1 DEF HashOf, Membership
<1>10. \A e \in Devices :
         /\ (t.devices[e].acceptedThrough # None) <=> (t.devices[e].status = "revoked")
         /\ t.devices[e].status = "absent" => t.devices[e] = Absent
  BY <1>1, <1>3 DEF Membership
<1> HIDE DEF d, k
<1>11. \A u \in Tokens : t.invitations[u] \in Devices => HashOf(t, t.invitations[u]) = u
  <2> SUFFICES ASSUME NEW u \in Tokens, t.invitations[u] \in Devices, u # k
               PROVE  HashOf(t, t.invitations[u]) = u
    BY <1>1, <1>3
  <2>1. HashOf(p, p.invitations[u]) = u /\ t.invitations[u] = p.invitations[u]
    BY <1>1 DEF Membership
  <2> QED BY <1>2, <1>3, <1>9, <2>1
<1>12. \A e, f \in Devices : e # f /\ HashOf(t, e) # None => HashOf(t, e) # HashOf(t, f)
  BY <1>3, <1>9 DEF Membership
<1>13. \A u \in Tokens : t.invitations[u] = "open" => \A e \in Devices : HashOf(t, e) # u
  BY <1>1, <1>2, <1>3, <1>9 DEF Membership
<1> QED BY <1>5, <1>7, <1>8, <1>10, <1>11, <1>12, <1>13 DEF Membership

LEMMA InvitedKeeps ==
  ASSUME NEW p \in State, NEW t, NEW r, Membership(p), Invited(p, t, r),
         \A d \in Devices : HashOf(p, d) # r.token
  PROVE  Membership(t)
<1>1. /\ r.token \in Tokens /\ t.devices = p.devices /\ t.invitations[r.token] = "open"
      /\ \A u \in Tokens : u # r.token => t.invitations[u] = p.invitations[u]
      /\ Cardinality(InvitationsOf(p)) < MaxInvitations
  BY DEF Invited, State
<1>2. MembersOf(t) = MembersOf(p) /\ ActiveOf(t) = ActiveOf(p)
      /\ InvitationsOf(t) = InvitationsOf(p) \cup {r.token}
  BY <1>1 DEF MembersOf, ActiveOf, InvitationsOf
<1>3. Cardinality(InvitationsOf(t)) <= MaxInvitations
  BY <1>1, <1>2, StateSets, OneMore, Limits
<1>4. "open" \notin Devices
  BY SyncConstants
<1>5. \A d \in Devices : HashOf(t, d) = HashOf(p, d)
  BY <1>1 DEF HashOf
<1>6. \A u \in Tokens : t.invitations[u] \in Devices => HashOf(t, t.invitations[u]) = u
  BY <1>1, <1>4, <1>5 DEF Membership
<1> QED BY <1>1, <1>2, <1>3, <1>5, <1>6 DEF Membership

\* A request that is allowed, whose receipt fits and whose invitation is new, leaves a state
\* that validateState accepts, with no member too many and no invitation used twice.
LEMMA TransactedGood ==
  ASSUME NEW p \in State, NEW r \in Request, r.nonce \in Nonces, Good(p), Allowed(p, r),
         Cardinality(p.requests) < MaxNonces,
         r.action = "invite" => \A d \in Devices : HashOf(p, d) # r.token
  PROVE  Good(Transacted(p, r))
<1> DEFINE a == Applied(p, r)
           t == Transacted(p, r)
<1>1. /\ t \in State /\ t.devices = a.devices /\ t.invitations = a.invitations
      /\ t.requests = p.requests \cup {r.nonce}
      /\ t.rosterRevision = IF Changes(p, r) THEN p.rosterRevision + 1 ELSE p.rosterRevision
  BY TransactedType
<1>2. Edited(p, a) \/ Admitted(p, a, r) \/ Invited(p, a, r)
  BY AppliedKinds
<1>3. Membership(p) /\ p.rosterRevision \in Nat /\ p.rosterRevision >= 1
  BY DEF Good, ValidState, Membership, HashOf, State
<1> HIDE DEF a, t
<1>4. Membership(a)
  <2>1. CASE Edited(p, a)
    BY <1>3, <2>1, EditedKeeps
  <2>2. CASE Admitted(p, a, r)
    BY <1>3, <2>2, AdmittedKeeps
  <2>3. CASE Invited(p, a, r)
    <3>1. \A d \in Devices : HashOf(p, d) # r.token
      BY <2>3 DEF Invited
    <3> QED BY <1>3, <2>3, <3>1, InvitedKeeps
  <2> QED BY <1>2, <2>1, <2>2, <2>3
<1>5. Membership(t)
  BY <1>1, <1>4 DEF Membership, MembersOf, ActiveOf, InvitationsOf, HashOf
<1>6. Cardinality(t.requests) <= MaxNonces
  BY <1>1, StateSets, OneMore, Limits
<1>7. t.rosterRevision >= 1
  BY <1>1, <1>3
<1> QED BY <1>5, <1>6, <1>7 DEF Good, ValidState, Membership, HashOf, t

-----------------------------------------------------------------------------
(* The inductive invariant: what an invocation has decided, on an ETag that is still  *)
(* current, is what its request makes of the present control state                    *)

Decided(h) ==
  pc[h] = "commit" /\ h \in controlTag =>
    /\ spent[req[h].nonce] = 0 /\ ValidState(snap[h])
    /\ \E l \in SUBSET (Nonces \cup Tokens) :
         /\ l \cap Nonces \subseteq lapsed
         /\ Allowed(Prune(control, l), req[h])
         /\ Cardinality(Prune(control, l).requests) < MaxNonces
         /\ snap[h] = Transacted(Prune(control, l), req[h])

\* An invitation that is asked for is new until its challenge is spent.
Inviting(h) ==
  pc[h] # "idle" /\ req[h].action = "invite" =>
    req[h].token \in Tokens /\ (spent[req[h].nonce] = 0 => Unused(control, req[h].token))

Published(h) == pc[h] \in {"publish", "state", "sign", "respond"} => stored

LocalSafe(h) == Decided(h) /\ Inviting(h) /\ Published(h) /\ pc[h] # "corrupt"

Receipts ==
  \A n \in Nonces : spent[n] <= 1 /\ (spent[n] # 0 => n \in control.requests \cup lapsed)

\* No two invocations ask for the same new invitation.
Distinct ==
  \A g, h \in InFlight :
    g # h /\ req[g].action = "invite" /\ req[h].action = "invite" => req[g].token # req[h].token

SafeInv == Good(control) /\ Receipts /\ Distinct /\ \A h \in Handlers : LocalSafe(h)

\* The request and snapshot of every invocation but h stay.
Apart(h) ==
  \A g \in Handlers \ {h} : pc'[g] = pc[g] /\ req'[g] = req[g] /\ snap'[g] = snap[g]

LEMMA EndApart ==
  ASSUME TInv, NEW h \in Handlers, End(h)
  PROVE  Apart(h) /\ pc'[h] = "idle"
  BY DEF TInv, TypeOK, End, Goto, Apart

LEMMA RetryApart ==
  ASSUME TInv, NEW h \in Handlers, NEW head, Retry(h, head)
  PROVE  Apart(h) /\ (pc'[h] = "idle" \/ (pc'[h] = head /\ req'[h] = req[h]))
<1>1. CASE tries[h] + 1 = MaxCasAttempts
  BY <1>1, EndApart DEF Retry
<1>2. CASE tries[h] + 1 # MaxCasAttempts
  BY <1>2 DEF Retry, TInv, TypeOK, Goto, Apart
<1> QED BY <1>1, <1>2

\* Nothing is written: an invocation whose request and snapshot stay keeps its part.
LEMMA SafeKept ==
  ASSUME NEW g \in Handlers, LocalSafe(g), UNCHANGED <<control, stored, spent>>,
         pc'[g] = pc[g], req'[g] = req[g], snap'[g] = snap[g],
         g \in controlTag' => g \in controlTag, lapsed \cap Nonces \subseteq lapsed'
  PROVE  LocalSafe(g)'
<1>1. Decided(g)'
  <2> SUFFICES ASSUME pc[g] = "commit", g \in controlTag
               PROVE  /\ spent[req[g].nonce] = 0 /\ ValidState(snap[g])'
                      /\ \E l \in SUBSET (Nonces \cup Tokens) :
                           /\ l \cap Nonces \subseteq lapsed'
                           /\ Allowed(Prune(control, l), req[g])
                           /\ Cardinality(Prune(control, l).requests) < MaxNonces
                           /\ snap[g] = Transacted(Prune(control, l), req[g])
    BY DEF Decided
  <2>1. PICK l \in SUBSET (Nonces \cup Tokens) :
          /\ l \cap Nonces \subseteq lapsed
          /\ Allowed(Prune(control, l), req[g])
          /\ Cardinality(Prune(control, l).requests) < MaxNonces
          /\ snap[g] = Transacted(Prune(control, l), req[g])
    BY DEF LocalSafe, Decided
  <2>2. ValidState(snap[g])' = ValidState(snap[g])
    BY DEF ValidState, MembersOf, InvitationsOf
  <2> QED BY <2>1, <2>2 DEF LocalSafe, Decided
<1>2. Inviting(g)' /\ Published(g)' /\ pc'[g] # "corrupt"
  BY DEF LocalSafe, Inviting, Published, Unused, HashOf
<1> QED BY <1>1, <1>2 DEF LocalSafe

\* Nothing is written, and h goes on with its request, or ends.
LEMMA QuietSafe ==
  ASSUME TInv, SafeInv, NEW h \in Handlers, Apart(h), UNCHANGED <<control, stored, spent>>,
         \A g \in Handlers \ {h} : g \in controlTag' => g \in controlTag,
         lapsed \cap Nonces \subseteq lapsed',
         pc'[h] = "idle" \/ (pc[h] # "idle" /\ req'[h] = req[h]),
         LocalSafe(h)'
  PROVE  SafeInv'
<1>1. Good(control)'
  BY DEF SafeInv, Good, ValidState, MembersOf, ActiveOf, InvitationsOf, HashOf
<1>2. Receipts'
  BY DEF SafeInv, Receipts
<1>3. Distinct'
  BY DEF SafeInv, Distinct, InFlight, Apart
<1>4. ASSUME NEW g \in Handlers \ {h} PROVE LocalSafe(g)'
  BY SafeKept DEF SafeInv, Apart
<1> QED BY <1>1, <1>2, <1>3, <1>4 DEF SafeInv

\* h comes to a step that promises nothing about the control blob.
LEMMA GoesOn ==
  ASSUME TInv, SafeInv, NEW h \in Handlers, UNCHANGED <<control, stored, spent>>,
         \/ pc'[h] = "idle"
         \/ /\ pc[h] # "idle" /\ req'[h] = req[h] /\ pc'[h] \notin {"commit", "corrupt"}
            /\ pc'[h] \in {"publish", "state", "sign", "respond"} =>
                 pc[h] \in {"publish", "state", "sign", "respond"}
  PROVE  LocalSafe(h)'
<1>1. LocalSafe(h)
  BY DEF SafeInv
<1> QED
  BY <1>1 DEF LocalSafe, Decided, Inviting, Published, Unused, HashOf

LEMMA UnusedKept ==
  ASSUME NEW s \in State, NEW l, NEW r \in Request, r.nonce \in Nonces, NEW u \in Tokens,
         Good(s), Unused(s, u), Allowed(Prune(s, l), r), r.action = "invite" => r.token # u
  PROVE  Unused(Transacted(Prune(s, l), r), u)
<1> DEFINE p == Prune(s, l)
           a == Applied(p, r)
           t == Transacted(p, r)
<1>1. /\ p \in State /\ p.devices = s.devices
      /\ \A v \in Tokens : p.invitations[v] \in {"none", s.invitations[v]}
  BY PruneType
<1>2. t.devices = a.devices /\ t.invitations = a.invitations
  BY <1>1, TransactedType
<1>3. Edited(p, a) \/ Admitted(p, a, r) \/ Invited(p, a, r)
  BY <1>1, PruneGood, AppliedKinds
<1> HIDE DEF p, a, t
<1>4. p.invitations[u] = "none" /\ \A d \in Devices : HashOf(p, d) # u
  BY <1>1 DEF Unused, HashOf
<1>5. a.invitations[u] = "none" /\ \A d \in Devices : HashOf(a, d) # u
  <2>1. CASE Edited(p, a)
    BY <1>4, <2>1 DEF Edited
  <2>2. CASE Admitted(p, a, r)
    <3>1. r.token # u /\ r.token \in Tokens /\ r.device \in Devices
      BY <1>4, <2>2 DEF Admitted, Admits
    <3>2. a.invitations[u] = "none"
      BY <1>1, <1>4, <2>2, <3>1 DEF Admitted, State
    <3>3. ASSUME NEW d \in Devices PROVE HashOf(a, d) # u
      BY <1>1, <1>4, <2>2, <3>1 DEF Admitted, Active, HashOf, State
    <3> QED BY <3>2, <3>3
  <2>3. CASE Invited(p, a, r)
    BY <1>1, <1>4, <2>3 DEF Invited, HashOf, State
  <2> QED BY <1>3, <2>1, <2>2, <2>3
<1> QED BY <1>2, <1>5 DEF Unused, HashOf, p, a, t

LEMMA SafeInit == Init => SafeInv
<1> SUFFICES ASSUME Init PROVE SafeInv
  OBVIOUS
<1>1. Good(control)
  BY InitialGood DEF Init
<1> QED
  BY <1>1 DEF Init, SafeInv, Receipts, Distinct, InFlight, LocalSafe, Decided, Inviting, Published

LEMMA SafeAsk ==
  ASSUME TInv, SafeInv, NEW h \in Handlers, NEW d \in Devices, NEW n \in Nonces, Ask(h, d, n)
  PROVE  SafeInv'
<1>1. PICK r \in Request : /\ r.nonce = n /\ r.device = d
                           /\ r.action = "invite" => TokenFree(r.token)
                           /\ Begin(h, r)
  BY AskType
<1>2. /\ Apart(h) /\ pc[h] = "idle" /\ pc'[h] = "transact" /\ req'[h] = r
      /\ UNCHANGED <<control, stored, spent, controlTag>>
  BY <1>1 DEF Begin, Goto, blobs, Apart, TInv, TypeOK
<1>3. r.action = "invite" => r.token \in Tokens
  BY DEF Request
<1>4. lapsed \cap Nonces \subseteq lapsed'
  BY <1>1, <1>3, SyncConstants DEF Begin
<1>5. Good(control)' /\ Receipts'
  BY <1>2, <1>4 DEF SafeInv, Good, ValidState, MembersOf, ActiveOf, InvitationsOf, HashOf, Receipts
<1>6. Distinct'
  BY <1>1, <1>2 DEF SafeInv, Distinct, InFlight, Apart, TokenFree
<1>7. LocalSafe(h)'
  BY <1>1, <1>2, <1>3 DEF LocalSafe, Decided, Inviting, Published, Unused, HashOf, TokenFree
<1>8. ASSUME NEW g \in Handlers \ {h} PROVE LocalSafe(g)'
  BY <1>2, <1>4, SafeKept DEF SafeInv, Apart
<1> QED BY <1>5, <1>6, <1>7, <1>8 DEF SafeInv

LEMMA SafeDecide ==
  ASSUME TInv, SafeInv, NEW h \in Handlers, Decide(h)
  PROVE  SafeInv'
<1> DEFINE p == Prune(control, lapsed)
           r == req[h]
           t == Transacted(p, r)
<1>1. /\ pc[h] = "transact" /\ Allowed(p, r) /\ ChallengeAccepted(p, r, ticket, lapsed)
      /\ control \in State /\ r \in Request /\ r.nonce \in Nonces /\ Good(control)
      /\ lapsed \in SUBSET (Nonces \cup Tokens)
  BY DEF Decide, Accepted, TInv, TypeOK, Carried, SafeInv
<1>2. p \in State /\ p.devices = control.devices /\ p.requests = control.requests \ lapsed /\ Good(p)
  BY <1>1, PruneType, PruneGood
<1>3. spent[r.nonce] = 0 /\ Cardinality(p.requests) < MaxNonces
  BY <1>1, <1>2 DEF ChallengeAccepted, SafeInv, Receipts
<1>4. r.action = "invite" => \A d \in Devices : HashOf(p, d) # r.token
  BY <1>1, <1>2, <1>3 DEF SafeInv, LocalSafe, Inviting, Unused, HashOf
<1>5. ValidState(control) /\ ValidState(t)
  BY <1>1, <1>2, <1>3, <1>4, TransactedGood DEF Good
<1>6. /\ Apart(h) /\ snap'[h] = t /\ pc'[h] = "commit" /\ req'[h] = r
      /\ controlTag' = controlTag \cup {h} /\ UNCHANGED <<control, stored, spent, lapsed>>
  BY <1>5 DEF Decide, Goto, clients, Apart, TInv, TypeOK
<1> HIDE DEF t
<1>7. ValidState(snap[h])'
  BY <1>5, <1>6 DEF ValidState, MembersOf, InvitationsOf
<1>8. Decided(h)'
  BY <1>1, <1>3, <1>6, <1>7 DEF Decided, t
<1>9. Inviting(h)' /\ Published(h)'
  BY <1>1, <1>6 DEF SafeInv, LocalSafe, Inviting, Published, Unused, HashOf
<1>10. LocalSafe(h)'
  BY <1>6, <1>8, <1>9 DEF LocalSafe
<1> QED BY <1>1, <1>6, <1>10, QuietSafe

LEMMA SafeCommit ==
  ASSUME TInv, SafeInv, NEW h \in Handlers, Commit(h)
  PROVE  SafeInv'
<1> DEFINE r == req[h]
<1>1. /\ control \in State /\ r \in Request /\ r.nonce \in Nonces /\ Good(control)
      /\ spent[r.nonce] = 0 /\ spent \in [Nonces -> Nat]
  BY DEF Commit, TInv, TypeOK, Carried, SafeInv, LocalSafe, Decided
<1>2. PICK l \in SUBSET (Nonces \cup Tokens) :
        /\ l \cap Nonces \subseteq lapsed
        /\ Allowed(Prune(control, l), r)
        /\ Cardinality(Prune(control, l).requests) < MaxNonces
        /\ snap[h] = Transacted(Prune(control, l), r)
  BY DEF Commit, SafeInv, LocalSafe, Decided
<1> DEFINE p == Prune(control, l)
           t == Transacted(p, r)
<1>3. p \in State /\ p.devices = control.devices /\ p.requests = control.requests \ l /\ Good(p)
  BY <1>1, PruneType, PruneGood
<1>4. r.action = "invite" => r.token \in Tokens /\ \A d \in Devices : HashOf(p, d) # r.token
  BY <1>1, <1>3 DEF Commit, SafeInv, LocalSafe, Inviting, Unused, HashOf
<1>5. Good(t) /\ t.requests = p.requests \cup {r.nonce}
  BY <1>1, <1>2, <1>3, <1>4, TransactedGood, TransactedType
<1>6. /\ control' = t /\ controlTag' = {} /\ stored' = TRUE /\ UNCHANGED lapsed
      /\ spent' = [spent EXCEPT ![r.nonce] = spent[r.nonce] + 1]
  BY <1>2 DEF Commit, WriteControl, clients
<1>7. /\ Apart(h)
      /\ pc'[h] = "idle" \/ (pc'[h] \in {"publish", "transact"} /\ req'[h] = r)
  <2>1. CASE Committed(h)
    BY <2>1 DEF Committed, Goto, Apart, TInv, TypeOK
  <2>2. CASE Retry(h, "transact")
    BY <2>2, RetryApart
  <2>3. CASE End(h)
    BY <2>3, EndApart
  <2> QED BY <2>1, <2>2, <2>3 DEF Commit
<1>8. spent'[r.nonce] = 1 /\ \A n \in Nonces : n # r.nonce => spent'[n] = spent[n]
  BY <1>1, <1>6
<1>9. Receipts'
  <2> SUFFICES ASSUME NEW n \in Nonces
               PROVE  spent'[n] <= 1 /\ (spent'[n] # 0 => n \in control'.requests \cup lapsed')
    BY DEF Receipts
  <2>1. CASE n = r.nonce
    BY <1>5, <1>6, <1>8, <2>1
  <2>2. CASE n # r.nonce
    BY <1>2, <1>3, <1>5, <1>6, <1>8, <2>2 DEF SafeInv, Receipts
  <2> QED BY <2>1, <2>2
<1>10. Distinct'
  BY <1>7 DEF Commit, SafeInv, Distinct, InFlight, Apart
<1>11. Good(control)'
  <2> HIDE DEF t
  <2> QED BY <1>5, <1>6 DEF Good, ValidState, MembersOf, ActiveOf, InvitationsOf, HashOf
<1>12. LocalSafe(h)'
  BY <1>4, <1>6, <1>7, <1>8 DEF LocalSafe, Decided, Inviting, Published
<1>13. ASSUME NEW g \in Handlers \ {h} PROVE LocalSafe(g)'
  <2>1. /\ pc'[g] = pc[g] /\ req'[g] = req[g] /\ LocalSafe(g)
        /\ pc[g] # "idle" => req[g].nonce \in Nonces
    BY <1>7 DEF Apart, SafeInv, TInv, Carried
  <2>2. ASSUME pc[g] # "idle", req[g].action = "invite", spent'[req[g].nonce] = 0
        PROVE  Unused(t, req[g].token)
    <3>1. req[g].token \in Tokens /\ Unused(control, req[g].token)
      BY <1>8, <2>1, <2>2 DEF LocalSafe, Inviting
    <3>2. r.action = "invite" => r.token # req[g].token
      BY <2>2 DEF SafeInv, Distinct, InFlight, Commit
    <3> QED BY <1>1, <1>2, <3>1, <3>2, UnusedKept
  <2>3. Inviting(g)'
    <3> HIDE DEF t
    <3> QED BY <1>6, <2>1, <2>2 DEF LocalSafe, Inviting, Unused, HashOf
  <2>4. Decided(g)' /\ Published(g)' /\ pc'[g] # "corrupt"
    BY <1>6, <2>1 DEF Decided, Published, LocalSafe
  <2> QED BY <2>3, <2>4 DEF LocalSafe
<1> QED BY <1>9, <1>10, <1>11, <1>12, <1>13 DEF SafeInv

LEMMA SafeReadState ==
  ASSUME TInv, LogInv, SafeInv, NEW h \in Handlers, ReadState(h)
  PROVE  SafeInv'
<1>1. stored /\ ValidState(control)
  BY DEF ReadState, SafeInv, LocalSafe, Published, Good
<1>2. /\ seen[h].revision \in Nat /\ published.revision \in Nat /\ Len(log) \in Nat
      /\ seen[h].revision <= published.revision /\ published.revision <= Len(log)
      /\ Len(log) = control.rosterRevision /\ Len(log) >= 1
      /\ log[Len(log)] = RosterPayload(control)
      /\ seen[h].revision > 0 => seen[h].devices = log[seen[h].revision]
  BY DEF ReadState, TInv, TypeOK, LogInv, LogMatches, PublishedMatches, LocalMatches
<1>3. ~Contradicts(seen[h])
  BY <1>1, <1>2 DEF Contradicts
<1>4. /\ UNCHANGED <<control, stored, spent, controlTag, lapsed>> /\ pc[h] = "state"
      /\ Apart(h) /\ (pc'[h] = "idle" \/ (pc'[h] \in {"respond", "sign"} /\ req'[h] = req[h]))
  <2>1. CASE Answer(h, control)
    <3>1. CASE End(h)
      BY <3>1, EndApart DEF ReadState, clients
    <3>2. CASE ~End(h)
      BY <2>1, <3>2 DEF Answer, Goto, ReadState, clients, Apart, TInv, TypeOK
    <3> QED BY <3>1, <3>2
  <2>2. CASE /\ Goto(h, "sign") /\ snap' = [snap EXCEPT ![h] = control]
             /\ UNCHANGED <<req, seen, tries, since, rosterTag>>
    BY <2>2 DEF Goto, ReadState, clients, Apart, TInv, TypeOK
  <2> QED BY <1>3, <2>1, <2>2 DEF ReadState
<1>5. LocalSafe(h)'
  BY <1>4, GoesOn
<1> QED BY <1>4, <1>5, QuietSafe

LEMMA SafeStep == TInv /\ LogInv /\ SafeInv /\ [Next]_vars => SafeInv'
<1> SUFFICES ASSUME TInv, LogInv, SafeInv, [Next]_vars PROVE SafeInv'
  OBVIOUS
<1>1. ASSUME NEW x \in Nonces \cup Tokens, Lapse(x) PROVE SafeInv'
  <2>1. UNCHANGED <<control, stored, controlTag, pc, req, snap, spent>> /\ lapsed \subseteq lapsed'
    BY <1>1 DEF Lapse, blobs, invocation
  <2>2. Good(control)' /\ Receipts' /\ Distinct'
    BY <2>1 DEF SafeInv, Good, ValidState, MembersOf, ActiveOf, InvitationsOf, HashOf, Receipts,
                Distinct, InFlight
  <2>3. ASSUME NEW g \in Handlers PROVE LocalSafe(g)'
    BY <2>1, SafeKept DEF SafeInv
  <2> QED BY <2>2, <2>3 DEF SafeInv
<1>2. ASSUME NEW h \in Handlers, UNCHANGED <<control, stored, spent, lapsed>>, controlTag' \subseteq controlTag,
             pc[h] # "idle", Apart(h),
             \/ pc'[h] = "idle"
             \/ /\ req'[h] = req[h]
                /\ \/ pc'[h] \in {"transact"}
                   \/ /\ pc[h] \in {"publish", "state", "sign", "respond"}
                      /\ pc'[h] \in {"publish", "state", "sign", "respond"}
      PROVE  SafeInv'
  <2>1. LocalSafe(h)'
    BY <1>2, GoesOn
  <2> QED BY <1>2, <2>1, QuietSafe
<1>3. ASSUME NEW h \in Handlers, Refuse(h) PROVE SafeInv'
  <2>1. End(h)
    BY <1>3 DEF Refuse, SafeInv, Good
  <2>2. Apart(h) /\ pc'[h] = "idle"
    BY <2>1, EndApart
  <2> QED BY <1>2, <1>3, <2>2 DEF Refuse, blobs, clients
<1>4. ASSUME NEW h \in Handlers, CommitConflict(h) \/ PublishConflict(h) PROVE SafeInv'
  <2>1. \/ pc[h] = "commit" /\ Retry(h, "transact")
        \/ pc[h] = "sign" /\ Retry(h, "publish")
    BY <1>4 DEF CommitConflict, PublishConflict
  <2>2. UNCHANGED <<control, stored, spent, lapsed, controlTag>>
    BY <1>4 DEF CommitConflict, PublishConflict, blobs, clients
  <2> QED BY <1>2, <2>1, <2>2, RetryApart
<1>5. ASSUME NEW h \in Handlers, ReadRoster(h) PROVE SafeInv'
  <2>1. /\ Apart(h) /\ pc[h] = "publish" /\ pc'[h] = "state" /\ req'[h] = req[h]
        /\ UNCHANGED <<control, stored, spent, lapsed, controlTag>>
    BY <1>5 DEF ReadRoster, Goto, clients, Apart, TInv, TypeOK
  <2> QED BY <1>2, <2>1
<1>6. ASSUME NEW h \in Handlers, Publish(h) PROVE SafeInv'
  <2>1. UNCHANGED <<control, stored, spent, lapsed, controlTag>> /\ pc[h] = "sign"
    BY <1>6 DEF Publish, WriteRoster, clients
  <2>2. Apart(h) /\ (pc'[h] = "idle" \/ (pc'[h] \in {"respond", "publish"} /\ req'[h] = req[h]))
    <3>1. CASE End(h)
      BY <3>1, EndApart
    <3>2. CASE Retry(h, "publish")
      BY <3>2, RetryApart
    <3>3. CASE Answer(h, snap[h]) /\ ~End(h)
      BY <3>3 DEF Answer, Goto, Apart, TInv, TypeOK
    <3> QED BY <1>6, <3>1, <3>2, <3>3 DEF Publish
  <2> QED BY <1>2, <2>1, <2>2
<1>7. ASSUME NEW h \in Handlers, Leave(h) PROVE SafeInv'
  <2>1. Apart(h) /\ pc'[h] = "idle"
    BY <1>7, EndApart DEF Leave
  <2> QED BY <1>2, <1>7, <2>1 DEF Leave, clients
<1>8. CASE UNCHANGED vars
  <2>1. UNCHANGED <<control, stored, controlTag, pc, req, snap, spent, lapsed>>
    BY <1>8 DEF vars
  <2>2. Good(control)' /\ Receipts' /\ Distinct'
    BY <2>1 DEF SafeInv, Good, ValidState, MembersOf, ActiveOf, InvitationsOf, HashOf, Receipts,
                Distinct, InFlight
  <2>3. ASSUME NEW g \in Handlers PROVE LocalSafe(g)'
    BY <2>1, SafeKept DEF SafeInv
  <2> QED BY <2>2, <2>3 DEF SafeInv
<1> QED
  BY <1>1, <1>3, <1>4, <1>5, <1>6, <1>7, <1>8, SafeAsk, SafeDecide, SafeCommit, SafeReadState
     DEF Next, Transact, PublishRoster

LEMMA SafeInvariant == Spec => [](TInv /\ LogInv /\ SafeInv)
BY LogInvariant, SafeInit, SafeStep, PTL DEF Spec

-----------------------------------------------------------------------------
(* The properties *)

\* A challenge authorizes one transaction, although its receipt is pruned when it lapses and
\* the transaction may be repeated, retried or left without an answer.
THEOREM ChallengesSpentOnce == Spec => []ChallengeOnce
<1>1. SafeInv => ChallengeOnce
  BY DEF SafeInv, Receipts, ChallengeOnce
<1> QED BY <1>1, SafeInvariant, PTL

\* The service never builds a control state that validateState refuses, never finds the public
\* roster ahead of it, and never finds the two apart at one revision.
THEOREM NothingCorrupt == Spec => []NeverCorrupt
<1>1. SafeInv => NeverCorrupt
  BY DEF SafeInv, LocalSafe, NeverCorrupt
<1> QED BY <1>1, SafeInvariant, PTL

\* No two members ever carry the same invitation, pruned ones included.
THEOREM InvitationsSingleUse == Spec => []InvitationSingleUse
<1>1. SafeInv => InvitationSingleUse
  BY DEF SafeInv, Good, HashOf, InvitationSingleUse
<1> QED BY <1>1, SafeInvariant, PTL

\* Racing admissions never pass the configured number of active devices.
THEOREM CapHeld == Spec => []ActiveCap
<1>1. SafeInv => ActiveCap
  BY DEF SafeInv, Good, ActiveCap
<1> QED BY <1>1, SafeInvariant, PTL

LEMMA AmendsKeepRevoked ==
  ASSUME NEW a \in Roster, NEW b, Amends(a, b), NEW d \in Devices, a[d].status = "revoked"
  PROVE  b[d] = a[d]
  BY DEF Amends, Roster

LEMMA RevocationStep == TInv /\ LogInv /\ RevocationFinal /\ [Next]_vars => RevocationFinal'
<1> SUFFICES ASSUME TInv, LogInv, RevocationFinal, [Next]_vars PROVE RevocationFinal'
  OBVIOUS
<1>1. log \in Seq(Roster) /\ Len(log) >= 1 /\ Len(log) \in Nat
  BY DEF TInv, TypeOK, LogInv, LogMatches
<1>2. CASE log' = log
  BY <1>2 DEF RevocationFinal
<1>3. ASSUME NEW b \in Roster, log' = Append(log, b), Amends(log[Len(log)], b) PROVE RevocationFinal'
  <2> PICK n \in Nat : n = Len(log)
    BY <1>1
  <2>1. /\ DOMAIN log' = 1 .. n + 1 /\ DOMAIN log = 1 .. n /\ log'[n + 1] = b /\ log[n] \in Roster
        /\ \A k \in 1 .. n : log'[k] = log[k]
    BY <1>1, <1>3
  <2>2. ASSUME NEW i \in 1 .. n + 1, NEW j \in 1 .. n + 1, NEW d \in Devices,
               i < j, log'[i][d].status = "revoked"
        PROVE  log'[j][d] = log'[i][d]
    <3>1. i \in 1 .. n /\ log'[i] = log[i]
      BY <2>1, <2>2
    <3>2. CASE j \in 1 .. n
      BY <2>1, <2>2, <3>1, <3>2 DEF RevocationFinal
    <3>3. CASE j = n + 1
      <4>1. log[n][d] = log[i][d]
        BY <1>1, <2>1, <2>2, <3>1 DEF RevocationFinal
      <4>2. b[d] = log[n][d]
        BY <1>3, <2>1, <2>2, <3>1, <4>1, AmendsKeepRevoked
      <4> QED BY <2>1, <3>1, <3>3, <4>1, <4>2
    <3> QED BY <3>2, <3>3
  <2> QED BY <2>1, <2>2 DEF RevocationFinal
<1>4. ASSUME NEW h \in Handlers, Commit(h) PROVE RevocationFinal'
  BY <1>2, <1>3, <1>4, CommitLog
<1>5. ASSUME NEW h \in Handlers, NEW d \in Devices, NEW n \in Nonces, Ask(h, d, n) PROVE log' = log
  BY <1>5, AskType DEF Begin
<1>6. CASE UNCHANGED vars
  BY <1>2, <1>6 DEF vars
<1> QED
  BY <1>2, <1>4, <1>5, <1>6
     DEF Next, Transact, PublishRoster, Lapse, Decide, Refuse, CommitConflict, ReadRoster, ReadState,
         Publish, WriteRoster, PublishConflict, Leave

\* Every later revision of the roster keeps a revocation and its cutoff.
THEOREM RevocationsFinal == Spec => []RevocationFinal
<1>1. Init => RevocationFinal
  BY DEF Init, RevocationFinal
<1> QED BY <1>1, LogInvariant, RevocationStep, PTL DEF Spec
=============================================================================
