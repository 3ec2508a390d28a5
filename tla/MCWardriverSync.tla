--------------------------- MODULE MCWardriverSync ---------------------------
(***************************************************************************)
(* Instances of WardriverSync.  Besides the empty group of Init, one run   *)
(* starts from groups that earlier requests (their receipts long pruned)    *)
(* have built with the same operators.                                     *)
(***************************************************************************)
EXTENDS WardriverSync, TLC

Interchangeable == Permutations(Handlers) \cup Permutations(Tokens) \cup Permutations(Nonces)
PeersToo == Interchangeable \cup Permutations(Devices \ {Owner})

Asked(s, r) == [Transacted(s, r) EXCEPT !.requests = {}]

\* The control states a sequence of requests goes through.
RECURSIVE Built(_)
Built(rs) ==
  IF rs = <<>> THEN <<InitialState>>
  ELSE LET before == Built(SubSeq(rs, 1, Len(rs) - 1))
       IN  Append(before, Asked(before[Len(before)], rs[Len(rs)]))

\* Every revision is in the log and the newest, or the one before it, is public.
StartFrom(rs) ==
  LET states == Built(rs)
      latest == states[Len(states)]
      rosters == [k \in 1 .. latest.rosterRevision |->
                    RosterPayload(CHOOSE s \in {states[i] : i \in DOMAIN states} : s.rosterRevision = k)]
  IN  /\ stored = TRUE
      /\ control = latest
      /\ log = rosters
      /\ \E k \in {latest.rosterRevision, latest.rosterRevision - 1} \cap DOMAIN rosters :
           published = [revision |-> k, devices |-> rosters[k]]
      /\ controlTag = {} /\ rosterTag = {}
      /\ ticket = [n \in Nonces |-> None]
      /\ lapsed = {}
      /\ pc = [h \in Handlers |-> "idle"]
      /\ req = [h \in Handlers |-> NoRequest]
      /\ snap = [h \in Handlers |-> InitialState]
      /\ seen = [h \in Handlers |-> NoRoster]
      /\ tries = [h \in Handlers |-> 0]
      /\ since = [h \in Handlers |-> 0]
      /\ spent = [n \in Nonces |-> 0]

InviteAsked(t) == [Blank("invite", Owner, None) EXCEPT !.token = t]
EnrollAsked(d, t, x) == [Blank("enroll", d, None) EXCEPT !.token = t, !.name = x]

\* A group with a member and an invitation open, or with two invitations open.
Forming ==
  \E t, u \in Tokens : t # u /\
    \/ StartFrom(<<InviteAsked(t), InviteAsked(u)>>)
    \/ \E d \in Devices \ {Owner} :
         StartFrom(<<InviteAsked(t), EnrollAsked(d, t, OwnerName), InviteAsked(u)>>)

FormingSpec == Forming /\ [][Next]_vars
=============================================================================
