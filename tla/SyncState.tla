------------------------------ MODULE SyncState ------------------------------
(***************************************************************************)
(* The Wardriver control state as data: what one signed request does to    *)
(* _control/wardriver-sync-state.json (api/_lib/wardriver-sync-store.js).  *)
(*                                                                         *)
(* A clock reading is abstracted to the set `lapsed` of nonces and         *)
(* invitation tokens whose expiresAt it has passed.  A token stands for    *)
(* its SHA-256 hash.  A device identifier is the hash of the device's      *)
(* public key, so comparing keys adds nothing to comparing identifiers.    *)
(***************************************************************************)
EXTENDS Integers, FiniteSets

CONSTANTS
  Devices, Owner,      \* device identifiers; the configured owner
  Tokens, Nonces,      \* invitation tokens; challenge nonces
  Names, OwnerName,    \* display names; config.ownerDisplayName
  Cutoffs,             \* acceptedThrough values of a revocation
  None,                \* an absent field
  MaxDevices,          \* config.maxDevices, the cap on active members
  MaxMembers, MaxInvitations, MaxNonces, MaxDeviceNonces,
  MaxRevision          \* Number.MAX_SAFE_INTEGER

ASSUME SyncConstants ==
  /\ IsFiniteSet(Devices) /\ IsFiniteSet(Tokens) /\ IsFiniteSet(Nonces)
  /\ Owner \in Devices /\ OwnerName \in Names
  /\ None \notin Devices \cup Tokens \cup Nonces \cup Names \cup Cutoffs
  /\ "none" \notin Devices /\ "open" \notin Devices /\ Nonces \cap Tokens = {}
  /\ MaxDevices \in Nat \ {0} /\ MaxMembers \in Nat \ {0}
  /\ MaxInvitations \in Nat \ {0} /\ MaxNonces \in Nat \ {0}
  /\ MaxDeviceNonces \in Nat \ {0} /\ MaxRevision \in Nat \ {0}

Member == [status : {"absent", "active", "revoked"}, displayName : Names \cup {None},
           invitationHash : Tokens \cup {None}, acceptedThrough : Cutoffs \cup {None}]

\* invitations[t]: "none" (no entry), "open", or the device that consumed it.
State == [rosterRevision : Nat, devices : [Devices -> Member],
          invitations : [Tokens -> {"none", "open"} \cup Devices], requests : SUBSET Nonces]

\* A verified request: the fields its action needs are there (validateFields).
Request ==
  {r \in [action : {"enroll", "grants", "invite", "rename", "revoke"}, device : Devices,
          nonce : Nonces \cup {None}, token : Tokens \cup {None}, name : Names \cup {None},
          target : Devices \cup {None}, cutoff : Cutoffs \cup {None}] :
     /\ r.action \in {"enroll", "invite"} => r.token \in Tokens
     /\ r.action \in {"enroll", "rename"} => r.name \in Names
     /\ r.action = "revoke" => r.target \in Devices /\ r.cutoff \in Cutoffs}

Roster == [Devices -> [status : {"absent", "active", "revoked"}, displayName : Names \cup {None},
                       acceptedThrough : Cutoffs \cup {None}]]

-----------------------------------------------------------------------------
Absent == [status |-> "absent", displayName |-> None, invitationHash |-> None,
           acceptedThrough |-> None]

Active(name, token) == [status |-> "active", displayName |-> name, invitationHash |-> token,
                        acceptedThrough |-> None]

InitialState ==
  [rosterRevision |-> 1,
   devices |-> [d \in Devices |-> IF d = Owner THEN Active(OwnerName, None) ELSE Absent],
   invitations |-> [t \in Tokens |-> "none"], requests |-> {}]

MembersOf(s) == {d \in Devices : s.devices[d].status # "absent"}
ActiveOf(s) == {d \in Devices : s.devices[d].status = "active"}
InvitationsOf(s) == {t \in Tokens : s.invitations[t] # "none"}

\* The devices part of the signed roster; its revision is s.rosterRevision.
RosterPayload(s) ==
  [d \in Devices |-> [status |-> s.devices[d].status, displayName |-> s.devices[d].displayName,
                      acceptedThrough |-> s.devices[d].acceptedThrough]]

ValidState(s) ==
  /\ s.rosterRevision >= 1
  /\ Cardinality(MembersOf(s)) <= MaxMembers
  /\ Cardinality(InvitationsOf(s)) <= MaxInvitations
  /\ Cardinality(s.requests) <= MaxNonces
  /\ \A d \in Devices : (s.devices[d].acceptedThrough # None) <=> (s.devices[d].status = "revoked")
  /\ s.devices[Owner].status = "active"
  /\ \A t \in Tokens : s.invitations[t] \in Devices => s.devices[s.invitations[t]].invitationHash = t

-----------------------------------------------------------------------------
\* What transact drops before it applies a request: lapsed receipts and invitations.
Prune(s, lapsed) ==
  [s EXCEPT !.requests = @ \ lapsed,
            !.invitations = [t \in Tokens |-> IF t \in lapsed THEN "none" ELSE @[t]]]

\* Mutant: trusts the receipts alone, although lapsed ones have been pruned.
ChallengeUnspent(p, r, ticket, lapsed) ==
  /\ r.nonce \notin p.requests
  /\ Cardinality(p.requests) < MaxNonces
  /\ Cardinality({n \in p.requests : ticket[n] = r.device}) < MaxDeviceNonces

\* The challenge is unexpired and unused, and its receipt still fits; ticket maps a
\* nonce to the device it was issued to.
ChallengeAccepted(p, r, ticket, lapsed) ==
  /\ r.nonce \notin lapsed
  /\ r.nonce \notin p.requests
  /\ Cardinality(p.requests) < MaxNonces
  /\ Cardinality({n \in p.requests : ticket[n] = r.device}) < MaxDeviceNonces

\* enrollMember: an earlier admission with the same invitation ...
Recovers(p, r) ==
  /\ p.devices[r.device].status = "active"
  /\ p.devices[r.device].invitationHash = r.token

\* Mutants: the invitation may be consumed; the cap is off by one; a revoked device
\* may come back with another invitation.
AdmitsConsumed(p, r) ==
  /\ p.devices[r.device].status = "absent"
  /\ p.invitations[r.token] # "none"
  /\ Cardinality(MembersOf(p)) < MaxMembers /\ Cardinality(ActiveOf(p)) < MaxDevices
AdmitsOneMore(p, r) ==
  /\ p.devices[r.device].status = "absent" /\ p.invitations[r.token] = "open"
  /\ Cardinality(MembersOf(p)) < MaxMembers /\ Cardinality(ActiveOf(p)) <= MaxDevices
AdmitsRevoked(p, r) ==
  /\ p.devices[r.device].status # "active" /\ p.invitations[r.token] = "open"
  /\ Cardinality(MembersOf(p)) <= MaxMembers /\ Cardinality(ActiveOf(p)) < MaxDevices

\* ... or a first admission.  (A lapsed invitation was pruned above.)
Admits(p, r) ==
  /\ p.devices[r.device].status = "absent"
  /\ p.invitations[r.token] = "open"
  /\ Cardinality(MembersOf(p)) < MaxMembers
  /\ Cardinality(ActiveOf(p)) < MaxDevices

Enroll(p, r) ==
  [p EXCEPT !.invitations[r.token] = r.device,
            !.devices[r.device] = Active(r.name, r.token)]

\* requireMember
IsMember(s, d) == s.devices[d].status = "active"

\* revokeMember: a repeated revocation must carry the recorded cutoff.
MayRevoke(p, r) ==
  /\ r.target # Owner
  /\ \/ p.devices[r.target].status = "active"
     \/ /\ p.devices[r.target].status = "revoked"
        /\ p.devices[r.target].acceptedThrough = r.cutoff

Revoke(p, r) ==
  [p EXCEPT !.devices[r.target].status = "revoked",
            !.devices[r.target].acceptedThrough = r.cutoff]

\* applyAction's early returns, as the condition under which none of them fires.
Allowed(p, r) ==
  CASE r.action = "enroll" -> Recovers(p, r) \/ Admits(p, r)
    [] r.action = "grants" -> IsMember(p, r.device)
    [] r.action = "rename" -> IsMember(p, r.device)
    [] r.action = "invite" -> /\ IsMember(p, r.device) /\ r.device = Owner
                              /\ Cardinality(InvitationsOf(p)) < MaxInvitations
    [] r.action = "revoke" -> IsMember(p, r.device) /\ r.device = Owner /\ MayRevoke(p, r)

\* The state without the revision: what the handler of the action assigns.
Applied(p, r) ==
  CASE r.action = "enroll" -> IF Recovers(p, r) THEN p ELSE Enroll(p, r)
    [] r.action = "grants" -> p
    [] r.action = "rename" -> [p EXCEPT !.devices[r.device].displayName = r.name]
    [] r.action = "invite" -> [p EXCEPT !.invitations[r.token] = "open"]
    [] r.action = "revoke" -> Revoke(p, r)

\* Mutant: a rename does not count as a change of the roster.
ChangesStatus(p, r) == \E d \in Devices : Applied(p, r).devices[d].status # p.devices[d].status

\* The value each handler returns: does the roster's content change?
Changes(p, r) == Applied(p, r).devices # p.devices

\* applyAction, then the receipt of the challenge.
Transacted(p, r) ==
  LET s == Applied(p, r)
  IN  [s EXCEPT !.rosterRevision = IF Changes(p, r) THEN @ + 1 ELSE @,
                !.requests = @ \cup {r.nonce}]
=============================================================================
