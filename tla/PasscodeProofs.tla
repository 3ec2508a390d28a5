---------------------------- MODULE PasscodeProofs ----------------------------
(***************************************************************************)
(* Proofs about PasscodeRateLimit, for any finite number of calls, any     *)
(* limit, window and number of retries.                                    *)
(***************************************************************************)
EXTENDS PasscodeRateLimit, FiniteSetTheorems, TLAPS

\* The calls let through in a life of the record that have not verified their guess yet.
Pending(w) == {c \in Calls : pc[c] = "verify" /\ place[c].window = w}

\* Verified and pending guesses of a life are within the limit; those of the life under way
\* are all on record.
Counted ==
  /\ \A w \in DOMAIN windows : windows[w] + Cardinality(Pending(w)) <= MaxAttempts
  /\ Exists => /\ Len(windows) >= 1
               /\ windows[Len(windows)] + Cardinality(Pending(Len(windows))) <= record.attempts

Placed ==
  \A c \in Calls : /\ pc[c] = "verify" => place[c].window \in 1 .. Len(windows)
                   /\ pc[c] = "reset" => right[c]

\* What a call knows while its ETag is current.
Holds(c) ==
  /\ pc[c] \in {"delete", "update", "verify", "reset"}
  /\ pc[c] = "delete" => record.expiresAt <= now[c]
  /\ pc[c] = "update" => snap[c] = record /\ record.attempts < MaxAttempts
  /\ pc[c] \in {"verify", "reset"} =>
       place[c] = [window |-> Len(windows), rank |-> record.attempts]

IInv == TypeOK /\ Counted /\ Placed /\ \A c \in etag : Holds(c)

-----------------------------------------------------------------------------
(* Calls and their steps *)

CallTypes ==
  /\ pc \in [Calls -> Steps] /\ right \in [Calls -> BOOLEAN] /\ now \in [Calls -> 0 .. clock]
  /\ snap \in [Calls -> Record] /\ tries \in [Calls -> 0 .. MaxRetries - 1]
  /\ place \in [Calls -> [window : 0 .. Len(windows), rank : Nat]]

\* Nothing changes for the calls other than c.
Elsewhere(c) ==
  \A d \in Calls \ {c} :
    /\ pc'[d] = pc[d] /\ right'[d] = right[d] /\ now'[d] = now[d]
    /\ snap'[d] = snap[d] /\ place'[d] = place[d]

LEMMA PendingFinite ==
  ASSUME NEW w
  PROVE  IsFiniteSet(Pending(w)) /\ Cardinality(Pending(w)) \in Nat
<1>1. IsFiniteSet(Calls) /\ Pending(w) \in SUBSET Calls
  BY LimiterConstants DEF Pending
<1> QED BY <1>1, FS_Subset, FS_CardinalityType

LEMMA EndStep ==
  ASSUME TypeOK, NEW c \in Calls, End(c), UNCHANGED clock, Len(windows') >= Len(windows),
         Len(windows') \in Nat
  PROVE  CallTypes' /\ Elsewhere(c) /\ pc'[c] = "idle"
<1>1. Absent \in Record /\ Nowhere \in [window : 0 .. Len(windows'), rank : Nat] /\ 0 \in 0 .. MaxRetries - 1
  BY LimiterConstants DEF Absent, Record, Nowhere
<1>2. place \in [Calls -> [window : 0 .. Len(windows'), rank : Nat]]
  BY DEF TypeOK
<1> QED
  BY <1>1, <1>2 DEF End, Goto, TypeOK, CallTypes, Elsewhere, Steps

LEMMA RetryStep ==
  ASSUME TypeOK, NEW c \in Calls, Retry(c), UNCHANGED clock, Len(windows') >= Len(windows),
         Len(windows') \in Nat
  PROVE  CallTypes' /\ Elsewhere(c) /\ pc'[c] \in {"idle", "read"}
<1>1. CASE tries[c] + 1 = MaxRetries
  BY <1>1, EndStep DEF Retry
<1>2. CASE tries[c] + 1 # MaxRetries
  <2>1. Absent \in Record
    BY DEF Absent, Record
  <2>2. place \in [Calls -> [window : 0 .. Len(windows'), rank : Nat]]
    BY DEF TypeOK
  <2>3. tries[c] + 1 \in 0 .. MaxRetries - 1
    <3>1. tries[c] \in 0 .. MaxRetries - 1 /\ MaxRetries \in Nat
      BY LimiterConstants DEF TypeOK
    <3> QED BY <1>2, <3>1
  <2>4. /\ pc' = [pc EXCEPT ![c] = "read"] /\ tries' = [tries EXCEPT ![c] = tries[c] + 1]
        /\ snap' = [snap EXCEPT ![c] = Absent] /\ UNCHANGED <<right, now, place>>
    BY <1>2 DEF Retry, Goto
  <2>5. pc'[c] = "read" /\ Elsewhere(c)
    BY <2>4 DEF TypeOK, Elsewhere
  <2>6. CallTypes'
    BY <2>1, <2>2, <2>3, <2>4 DEF TypeOK, CallTypes, Steps
  <2> QED BY <2>5, <2>6
<1> QED BY <1>1, <1>2

\* A call that does not come to verification, nor leaves it, disturbs no count.
LEMMA PendingKept ==
  ASSUME NEW c \in Calls, Elsewhere(c), NEW w, pc[c] # "verify", pc'[c] # "verify"
  PROVE  Pending(w)' = Pending(w)
  BY DEF Pending, Elsewhere

LEMMA PendingShrinks ==
  ASSUME NEW c \in Calls, Elsewhere(c), NEW w, pc'[c] # "verify"
  PROVE  Cardinality(Pending(w)') <= Cardinality(Pending(w))
<1>1. Pending(w)' \in SUBSET Pending(w)
  BY DEF Pending, Elsewhere
<1> QED BY <1>1, PendingFinite, FS_Subset

\* The record and the lives stay, and so does what holders of the ETag know.
LEMMA HoldsKept ==
  ASSUME NEW c, NEW d \in Calls \ {c}, Elsewhere(c), Holds(d), UNCHANGED <<record, windows>>
  PROVE  Holds(d)'
  BY DEF Holds, Elsewhere

\* A step of one call that ends it, or sends it round, and leaves the counts alone.
LEMMA QuietStep ==
  ASSUME IInv, NEW c \in Calls, CallTypes', Elsewhere(c), pc'[c] \notin {"verify", "reset"},
         UNCHANGED <<clock, windows>>,
         \/ UNCHANGED record /\ etag' \subseteq etag \ {c}
         \/ record' = Absent /\ etag' = {}
  PROVE  IInv'
<1>1. TypeOK'
  <2>1. record' \in Record /\ record'.attempts <= MaxAttempts /\ etag' \subseteq Calls
    BY LimiterConstants DEF IInv, TypeOK, Absent, Record
  <2>2. record'.attempts = 0 => etag' = {}
    BY DEF IInv, TypeOK
  <2>3. clock' \in Nat /\ windows' \in Seq(Nat)
    BY DEF IInv, TypeOK
  <2> QED BY <2>1, <2>2, <2>3 DEF TypeOK, CallTypes
<1>2. \A w : Cardinality(Pending(w)') <= Cardinality(Pending(w))
  BY PendingShrinks
<1>3. \A w : Cardinality(Pending(w)') \in Nat /\ Cardinality(Pending(w)) \in Nat
  <2> TAKE w
  <2>1. Cardinality(Pending(w)) \in Nat
    BY PendingFinite
  <2>2. Pending(w)' \in SUBSET Calls /\ IsFiniteSet(Calls)
    BY LimiterConstants DEF Pending
  <2> QED BY <2>1, <2>2, FS_Subset, FS_CardinalityType
<1>4. Counted'
  <2>1. ASSUME NEW w \in DOMAIN windows PROVE windows[w] \in Nat
    BY DEF IInv, TypeOK
  <2>2. ASSUME NEW w \in DOMAIN windows'
        PROVE  windows'[w] + Cardinality(Pending(w)') <= MaxAttempts
    <3>1. windows[w] + Cardinality(Pending(w)) <= MaxAttempts
      BY <2>2 DEF IInv, Counted
    <3> QED BY <1>2, <1>3, <2>1, <2>2, <3>1, LimiterConstants
  <2>3. ASSUME Exists' PROVE UNCHANGED record /\ Exists
    BY <2>3 DEF Exists, Absent
  <2>4. ASSUME Exists'
        PROVE  /\ Len(windows) >= 1
               /\ windows[Len(windows)] + Cardinality(Pending(Len(windows))') <= record.attempts
    <3>1. /\ Len(windows) >= 1
          /\ windows[Len(windows)] + Cardinality(Pending(Len(windows))) <= record.attempts
      BY <2>3, <2>4 DEF IInv, Counted
    <3>2. windows[Len(windows)] \in Nat /\ record.attempts \in Nat
      BY <3>1 DEF IInv, TypeOK, Record
    <3> QED BY <1>2, <1>3, <3>1, <3>2
  <2> QED BY <2>2, <2>3, <2>4 DEF Counted, Pending
<1>5. Placed'
  BY DEF IInv, Placed, Elsewhere
<1>6. \A d \in etag' : Holds(d)'
  BY HoldsKept DEF IInv, TypeOK
<1> QED BY <1>1, <1>4, <1>5, <1>6 DEF IInv

LEMMA Started == Init => IInv
<1> SUFFICES ASSUME Init PROVE IInv
  OBVIOUS
<1>1. Absent \in Record /\ Nowhere \in [window : 0 .. 0, rank : Nat] /\ 0 \in 0 .. MaxRetries - 1
  BY LimiterConstants DEF Absent, Record, Nowhere
<1>2. TypeOK
  <2>1. windows \in Seq(Nat) /\ Len(windows) = 0 /\ clock = 0 /\ record.attempts = 0
    BY DEF Init, Absent
  <2> QED BY <1>1, <2>1, LimiterConstants DEF Init, TypeOK, Steps
<1>3. Counted /\ Placed
  BY DEF Init, Counted, Placed, Exists, Absent
<1> QED BY <1>2, <1>3 DEF Init, IInv

LEMMA StepTick == ASSUME IInv, Tick PROVE IInv'
<1>1. clock' = clock + 1 /\ clock \in Nat /\ UNCHANGED <<record, etag, call, windows>>
  BY DEF Tick, IInv, TypeOK
<1>2. TypeOK'
  BY <1>1 DEF IInv, TypeOK, call
<1> QED
  BY <1>1, <1>2 DEF IInv, Counted, Placed, Pending, Exists, Holds, call

LEMMA StepArrive ==
  ASSUME IInv, NEW c \in Calls, NEW isRight \in BOOLEAN, Arrive(c, isRight)
  PROVE  IInv'
<1>1. c \notin etag
  BY DEF IInv, Holds, Arrive
<1>2. Elsewhere(c) /\ pc'[c] = "read" /\ CallTypes'
  BY DEF Arrive, Goto, Elsewhere, CallTypes, IInv, TypeOK, Steps
<1> QED BY <1>1, <1>2, QuietStep DEF Arrive

LEMMA StepRead == ASSUME IInv, NEW c \in Calls, Read(c) PROVE IInv'
<1>1. c \notin etag /\ pc[c] = "read" /\ UNCHANGED <<clock, record, windows>>
  BY DEF IInv, Holds, Read
<1>2. CASE Goto(c, "create") /\ UNCHANGED <<etag, right, now, snap, tries, place>>
  <2>1. Elsewhere(c) /\ pc'[c] = "create" /\ CallTypes'
    BY <1>1, <1>2 DEF Goto, Elsewhere, CallTypes, IInv, TypeOK, Steps
  <2> QED BY <1>1, <1>2, <2>1, QuietStep
<1>3. CASE End(c) /\ UNCHANGED etag
  <2>1. CallTypes' /\ Elsewhere(c) /\ pc'[c] = "idle"
    BY <1>1, <1>3, EndStep DEF IInv, TypeOK
  <2> QED BY <1>1, <1>3, <2>1, QuietStep
<1>4. ASSUME Exists, NEW step \in {"delete", "update"}, Goto(c, step), etag' = etag \cup {c},
             snap' \in {snap, [snap EXCEPT ![c] = record]}, UNCHANGED <<right, now, tries, place>>,
             step = "delete" => Expired(c),
             step = "update" => ~Limited /\ snap' = [snap EXCEPT ![c] = record]
      PROVE  IInv'
  <2>1. Elsewhere(c) /\ pc'[c] = step
    BY <1>4 DEF Goto, Elsewhere, IInv, TypeOK
  <2>2. TypeOK'
    <3>1. pc' \in [Calls -> Steps] /\ snap' \in [Calls -> Record]
      BY <1>4 DEF Goto, IInv, TypeOK, Steps
    <3>2. record.attempts # 0
      BY <1>4 DEF Exists
    <3> QED BY <1>1, <1>4, <3>1, <3>2 DEF IInv, TypeOK
  <2>3. \A w : Pending(w)' = Pending(w)
    BY <1>1, <1>4, <2>1, PendingKept
  <2>4. Counted'
    BY <1>1, <2>3 DEF IInv, Counted, Exists, Pending
  <2>5. Placed'
    BY <1>1, <1>4, <2>1 DEF IInv, Placed, Elsewhere
  <2>6. Holds(c)'
    <3>1. record.attempts \in Nat /\ MaxAttempts \in Nat
      BY LimiterConstants DEF IInv, TypeOK, Record
    <3>2. step = "update" => snap'[c] = record /\ record.attempts < MaxAttempts
      BY <1>4, <3>1 DEF Limited, IInv, TypeOK
    <3>3. step = "delete" => record.expiresAt <= now[c]
      BY <1>4 DEF Expired
    <3> QED BY <1>1, <1>4, <2>1, <3>2, <3>3 DEF Holds
  <2>7. \A d \in etag \ {c} : Holds(d)'
    BY <1>1, <2>1, HoldsKept DEF IInv, TypeOK
  <2> QED BY <1>4, <2>2, <2>4, <2>5, <2>6, <2>7 DEF IInv
<1>5. CASE /\ Exists /\ Expired(c) /\ Goto(c, "delete") /\ etag' = etag \cup {c}
           /\ UNCHANGED <<right, now, snap, tries, place>>
  BY <1>4, <1>5
<1>6. CASE /\ Exists /\ ~Limited /\ Goto(c, "update") /\ etag' = etag \cup {c}
           /\ snap' = [snap EXCEPT ![c] = record] /\ UNCHANGED <<right, now, tries, place>>
  BY <1>4, <1>6
<1> QED
  BY <1>2, <1>3, <1>5, <1>6 DEF Read

LEMMA StepDeleteExpired == ASSUME IInv, NEW c \in Calls, DeleteExpired(c) PROVE IInv'
<1>1. CallTypes' /\ Elsewhere(c) /\ pc'[c] \in {"idle", "read"} /\ UNCHANGED <<clock, windows>>
  BY RetryStep DEF DeleteExpired, IInv, TypeOK
<1> QED BY <1>1, QuietStep DEF DeleteExpired

LEMMA StepReset == ASSUME IInv, NEW c \in Calls, Reset(c) PROVE IInv'
<1>1. CallTypes' /\ Elsewhere(c) /\ pc'[c] = "idle" /\ UNCHANGED <<clock, windows>>
  BY EndStep DEF Reset, IInv, TypeOK
<1> QED BY <1>1, QuietStep DEF Reset

LEMMA StepLeave == ASSUME IInv, NEW c \in Calls, Leave(c) PROVE IInv'
<1>1. CallTypes' /\ Elsewhere(c) /\ pc'[c] = "idle" /\ UNCHANGED <<clock, windows>>
  BY EndStep DEF Leave, IInv, TypeOK
<1> QED BY <1>1, QuietStep DEF Leave

\* The write of a reservation has landed: c is the newest of the life w.
LEMMA ReservedStep ==
  ASSUME IInv, NEW c \in Calls, NEW w, Reserved(c, w), UNCHANGED clock,
         record' \in Record, w \in 0 .. Len(windows'),
         Len(windows') \in Nat, Len(windows') >= Len(windows)
  PROVE  /\ CallTypes' /\ Elsewhere(c) /\ pc'[c] = "verify"
         /\ place'[c] = [window |-> w, rank |-> record'.attempts]
<1> DEFINE mine == [window |-> w, rank |-> record'.attempts]
<1>1. /\ pc' = [pc EXCEPT ![c] = "verify"] /\ place' = [place EXCEPT ![c] = mine]
      /\ UNCHANGED <<right, now, snap, tries>>
  BY DEF Reserved, Goto
<1>2. mine \in [window : 0 .. Len(windows'), rank : Nat]
  BY DEF Record
<1>3. place \in [Calls -> [window : 0 .. Len(windows'), rank : Nat]]
  BY DEF IInv, TypeOK
<1> HIDE DEF mine
<1>4. Elsewhere(c) /\ pc'[c] = "verify" /\ place'[c] = mine
  BY <1>1 DEF Elsewhere, IInv, TypeOK
<1>5. CallTypes'
  BY <1>1, <1>2, <1>3 DEF CallTypes, IInv, TypeOK, Steps
<1> QED BY <1>4, <1>5 DEF mine

LEMMA StepCreate == ASSUME IInv, NEW c \in Calls, Create(c) PROVE IInv'
<1>0. c \notin etag /\ pc[c] = "create" /\ UNCHANGED clock
  BY DEF IInv, Holds, Create
<1>1. CASE Exists /\ Retry(c) /\ UNCHANGED <<record, etag, windows>>
  <2>1. CallTypes' /\ Elsewhere(c) /\ pc'[c] \in {"idle", "read"}
    BY <1>0, <1>1, RetryStep DEF IInv, TypeOK
  <2> QED BY <1>0, <1>1, <2>1, QuietStep
<1>2. ASSUME ~Exists, record' = [attempts |-> 1, expiresAt |-> now[c] + Window],
             windows' = Append(windows, 0),
             \/ Reserved(c, Len(windows) + 1) /\ etag' = {c}
             \/ Retry(c) /\ etag' = {}
      PROVE  IInv'
  <2>0. PICK n \in Nat : n = Len(windows)
    BY DEF IInv, TypeOK
  <2>1. /\ windows' \in Seq(Nat) /\ Len(windows') = n + 1 /\ windows'[n + 1] = 0
        /\ \A w \in 1 .. n : windows'[w] = windows[w] /\ windows[w] \in Nat
    BY <1>2, <2>0 DEF IInv, TypeOK
  <2>2. record' \in Record /\ record'.attempts = 1 /\ 1 <= MaxAttempts
    <3>1. now[c] \in Nat /\ Window \in Nat
      BY LimiterConstants DEF IInv, TypeOK
    <3> QED BY <1>2, <3>1, LimiterConstants DEF Record
  <2>3. /\ CallTypes' /\ Elsewhere(c)
        /\ pc'[c] = "verify" => place'[c] = [window |-> n + 1, rank |-> 1]
        /\ pc'[c] \in {"idle", "read", "verify"}
        /\ c \in etag' => pc'[c] = "verify"
    <3>1. CASE Reserved(c, n + 1) /\ etag' = {c}
      BY <1>0, <2>0, <2>1, <2>2, <3>1, ReservedStep
    <3>2. CASE Retry(c) /\ etag' = {}
      BY <1>0, <2>0, <2>1, <3>2, RetryStep DEF IInv
    <3> QED BY <1>2, <2>0, <3>1, <3>2
  <2>4. TypeOK'
    BY <1>0, <1>2, <2>1, <2>2, <2>3 DEF IInv, TypeOK, CallTypes
  <2>5. \A w \in 1 .. n : Pending(w)' = Pending(w)
    BY <1>0, <2>1, <2>3 DEF Pending, Elsewhere
  <2>6. Pending(n + 1)' \in SUBSET {c}
    <3>1. \A d \in Calls : place[d].window # n + 1
      BY <2>0 DEF IInv, TypeOK
    <3> QED BY <3>1, <2>3 DEF Pending, Elsewhere
  <2>7. Cardinality(Pending(n + 1)') \in Nat /\ Cardinality(Pending(n + 1)') <= 1
    <3>1. Pending(n + 1)' = {} \/ Pending(n + 1)' = {c}
      BY <2>6
    <3>2. IsFiniteSet({}) /\ Cardinality({}) = 0 /\ IsFiniteSet({c}) /\ Cardinality({c}) = 1
      BY FS_EmptySet, FS_Singleton
    <3>3. CASE Pending(n + 1)' = {}
      BY <3>2, <3>3
    <3>4. CASE Pending(n + 1)' = {c}
      BY <3>2, <3>4
    <3> QED BY <3>1, <3>3, <3>4
  <2>8. Counted'
    <3>1. ASSUME NEW w \in 1 .. n PROVE windows'[w] + Cardinality(Pending(w)') <= MaxAttempts
      BY <2>0, <2>1, <2>5, <3>1 DEF IInv, Counted
    <3>2. windows'[n + 1] + Cardinality(Pending(n + 1)') <= 1
      BY <2>1, <2>7
    <3>3. windows'[n + 1] + Cardinality(Pending(n + 1)') <= MaxAttempts
      BY <2>1, <2>2, <2>7, <3>2, LimiterConstants
    <3>4. DOMAIN windows' = 1 .. n + 1
      BY <2>1
    <3>5. \A w \in 1 .. n + 1 : w \in 1 .. n \/ w = n + 1
      BY <2>0
    <3>6. \A w \in DOMAIN windows' : windows'[w] + Cardinality(Pending(w)') <= MaxAttempts
      BY <3>1, <3>3, <3>4, <3>5
    <3>7. Len(windows') >= 1
      BY <2>0, <2>1
    <3> QED BY <2>1, <2>2, <3>2, <3>6, <3>7 DEF Counted, Pending
  <2>9. Placed'
    BY <2>0, <2>1, <2>3 DEF IInv, Placed, Elsewhere
  <2>10. \A d \in etag' : Holds(d)'
    BY <1>2, <2>1, <2>2, <2>3 DEF Holds
  <2> QED BY <2>4, <2>8, <2>9, <2>10 DEF IInv
<1> QED BY <1>1, <1>2 DEF Create

LEMMA StepUpdate == ASSUME IInv, NEW c \in Calls, Update(c) PROVE IInv'
<1>0. pc[c] = "update" /\ UNCHANGED <<clock, windows>> /\ Len(windows) \in Nat
  BY DEF Update, IInv, TypeOK
<1>1. CASE c \notin etag /\ Exists /\ Retry(c) /\ UNCHANGED <<record, etag>>
  <2>1. CallTypes' /\ Elsewhere(c) /\ pc'[c] \in {"idle", "read"}
    BY <1>0, <1>1, RetryStep DEF IInv, TypeOK
  <2> QED BY <1>0, <1>1, <2>1, QuietStep
<1>2. CASE ~Exists /\ End(c) /\ UNCHANGED <<record, etag>>
  <2>1. CallTypes' /\ Elsewhere(c) /\ pc'[c] = "idle"
    BY <1>0, <1>2, EndStep DEF IInv, TypeOK
  <2>2. c \notin etag
    <3>1. record.attempts \in Nat
      BY DEF IInv, TypeOK, Record
    <3> QED BY <1>2, <3>1 DEF IInv, TypeOK, Exists
  <2> QED BY <1>0, <1>2, <2>1, <2>2, QuietStep
<1>3. ASSUME c \in etag, record' = [snap[c] EXCEPT !.attempts = @ + 1],
             \/ Reserved(c, Len(windows)) /\ etag' = {c}
             \/ Retry(c) /\ etag' = {}
      PROVE  IInv'
  <2>0. PICK n \in Nat, k \in Nat : n = Len(windows) /\ k = record.attempts
    BY <1>0 DEF IInv, TypeOK, Record
  <2>1. snap[c] = record /\ k < MaxAttempts /\ MaxAttempts \in Nat
    BY <1>0, <1>3, <2>0, LimiterConstants DEF IInv, Holds, TypeOK, Record
  <2>2. record' \in Record /\ record'.attempts = k + 1
    <3>1. record = [attempts |-> k, expiresAt |-> record.expiresAt] /\ record.expiresAt \in Nat
      BY <2>0 DEF IInv, TypeOK, Record
    <3>2. record' = [attempts |-> k + 1, expiresAt |-> record.expiresAt]
      BY <1>3, <2>1, <3>1
    <3> QED BY <3>1, <3>2 DEF Record
  <2>3. Exists /\ n >= 1
    BY <1>3, <2>0, <2>1 DEF IInv, TypeOK, Exists, Counted
  <2>4. /\ CallTypes' /\ Elsewhere(c)
        /\ pc'[c] = "verify" => place'[c] = [window |-> n, rank |-> k + 1]
        /\ pc'[c] \in {"idle", "read", "verify"}
        /\ c \in etag' => pc'[c] = "verify"
    <3>1. CASE Reserved(c, n) /\ etag' = {c}
      BY <1>0, <2>0, <2>2, <3>1, ReservedStep
    <3>2. CASE Retry(c) /\ etag' = {}
      BY <1>0, <3>2, RetryStep DEF IInv
    <3> QED BY <1>3, <2>0, <3>1, <3>2
  <2>5. TypeOK'
    <3>1. k + 1 # 0 /\ k + 1 <= MaxAttempts
      BY <2>0, <2>1
    <3> QED BY <1>0, <1>3, <2>2, <2>4, <3>1 DEF IInv, TypeOK, CallTypes
  <2>6. \A w : w # n => Pending(w)' = Pending(w)
    BY <1>0, <2>4 DEF Pending, Elsewhere
  <2>7. Pending(n)' \in {Pending(n), Pending(n) \cup {c}}
    BY <1>0, <2>4 DEF Pending, Elsewhere
  <2>8. /\ Cardinality(Pending(n)) \in Nat /\ Cardinality(Pending(n)') \in Nat
        /\ Cardinality(Pending(n)') <= Cardinality(Pending(n)) + 1
    <3>1. IsFiniteSet(Pending(n)) /\ Cardinality(Pending(n)) \in Nat
      BY PendingFinite
    <3>2. Cardinality(Pending(n) \cup {c}) \in {Cardinality(Pending(n)), Cardinality(Pending(n)) + 1}
      BY <3>1, FS_AddElement
    <3>3. CASE Pending(n)' = Pending(n)
      BY <3>1, <3>3
    <3>4. CASE Pending(n)' = Pending(n) \cup {c}
      BY <3>1, <3>2, <3>4
    <3> QED BY <2>7, <3>3, <3>4
  <2>9. /\ windows[n] \in Nat
        /\ windows[n] + Cardinality(Pending(n)) <= k
    BY <2>0, <2>3 DEF IInv, TypeOK, Counted
  <2>10. windows[n] + Cardinality(Pending(n)') <= k + 1
    BY <2>0, <2>1, <2>8, <2>9
  <2>11. windows[n] + Cardinality(Pending(n)') <= MaxAttempts
    BY <2>0, <2>1, <2>8, <2>9
  <2>12. Counted'
    <3>1. ASSUME NEW w \in DOMAIN windows PROVE windows[w] + Cardinality(Pending(w)') <= MaxAttempts
      BY <2>6, <2>11 DEF IInv, Counted
    <3> QED BY <1>0, <2>0, <2>2, <2>3, <2>10, <3>1 DEF Counted, Pending
  <2>13. Placed'
    BY <1>0, <2>0, <2>3, <2>4 DEF IInv, Placed, Elsewhere
  <2>14. \A d \in etag' : Holds(d)'
    BY <1>0, <1>3, <2>0, <2>2, <2>4 DEF Holds
  <2> QED BY <2>5, <2>12, <2>13, <2>14 DEF IInv
<1> QED BY <1>1, <1>2, <1>3 DEF Update

LEMMA StepVerify == ASSUME IInv, NEW c \in Calls, Verify(c) PROVE IInv'
<1> PICK n : n = place[c].window
  OBVIOUS
<1>0. /\ pc[c] = "verify" /\ UNCHANGED <<clock, record>> /\ n \in 1 .. Len(windows)
      /\ Len(windows) \in Nat /\ windows' = [windows EXCEPT ![n] = windows[n] + 1]
  BY DEF Verify, IInv, Placed, TypeOK
<1>1. /\ windows' \in Seq(Nat) /\ Len(windows') = Len(windows) /\ DOMAIN windows' = DOMAIN windows
      /\ windows'[n] = windows[n] + 1 /\ \A w \in DOMAIN windows : w # n => windows'[w] = windows[w]
      /\ \A w \in DOMAIN windows : windows[w] \in Nat
  BY <1>0 DEF IInv, TypeOK
<1>2. /\ CallTypes' /\ Elsewhere(c) /\ pc'[c] \in {"reset", "idle"} /\ etag' \subseteq etag
      /\ pc'[c] = "reset" => right'[c] /\ place'[c] = place[c]
      /\ c \in etag' => pc'[c] = "reset"
  <2>1. CASE right[c] /\ Goto(c, "reset") /\ UNCHANGED <<etag, right, now, snap, tries, place>>
    BY <1>0, <1>1, <2>1 DEF Goto, Elsewhere, CallTypes, IInv, TypeOK, Steps
  <2>2. CASE ~right[c] /\ End(c) /\ etag' = etag \ {c}
    BY <1>0, <1>1, <2>2, EndStep DEF IInv
  <2> QED BY <2>1, <2>2 DEF Verify
<1>3. TypeOK'
  BY <1>0, <1>1, <1>2 DEF IInv, TypeOK, CallTypes
<1>4. c \in Pending(n) /\ Pending(n)' = Pending(n) \ {c} /\ \A w : w # n => Pending(w)' = Pending(w)
  BY <1>0, <1>2 DEF Pending, Elsewhere
<1>5. Cardinality(Pending(n)') = Cardinality(Pending(n)) - 1 /\ Cardinality(Pending(n)) \in Nat
  BY <1>4, PendingFinite, FS_RemoveElement
<1>6. \A w \in DOMAIN windows :
        windows'[w] + Cardinality(Pending(w)') = windows[w] + Cardinality(Pending(w))
  <2> TAKE w \in DOMAIN windows
  <2>1. CASE w = n
    BY <1>0, <1>1, <1>5, <2>1
  <2>2. CASE w # n
    BY <1>1, <1>4, <2>2
  <2> QED BY <2>1, <2>2
<1>7. Counted'
  <2>1. ASSUME NEW w \in DOMAIN windows' PROVE windows'[w] + Cardinality(Pending(w)') <= MaxAttempts
    BY <1>1, <1>6 DEF IInv, Counted
  <2>2. ASSUME Exists'
        PROVE  /\ Len(windows) >= 1 /\ Len(windows) \in DOMAIN windows
               /\ windows'[Len(windows)] + Cardinality(Pending(Len(windows))') <= record.attempts
    BY <1>0, <1>1, <1>6, <2>2 DEF IInv, Counted, Exists
  <2> QED BY <1>0, <1>1, <2>1, <2>2 DEF Counted, Pending
<1>8. Placed'
  BY <1>0, <1>1, <1>2 DEF IInv, Placed, Elsewhere
<1>9. \A d \in etag' : Holds(d)'
  <2> TAKE d \in etag'
  <2>1. d \in Calls /\ Holds(d)
    BY <1>2 DEF IInv, TypeOK
  <2> QED BY <1>0, <1>1, <1>2, <2>1 DEF Holds, Elsewhere
<1> QED BY <1>3, <1>7, <1>8, <1>9 DEF IInv

LEMMA IInvStep == IInv /\ [Next]_vars => IInv'
<1> SUFFICES ASSUME IInv, [Next]_vars PROVE IInv'
  OBVIOUS
<1>1. CASE UNCHANGED vars
  BY <1>1 DEF vars, call, IInv, TypeOK, Counted, Placed, Pending, Exists, Holds
<1> QED
  BY <1>1, StepTick, StepArrive, StepRead, StepDeleteExpired, StepCreate, StepUpdate, StepVerify,
     StepReset, StepLeave DEF Next, Reserve

LEMMA Inductive == Spec => []IInv
BY Started, IInvStep, PTL DEF Spec

-----------------------------------------------------------------------------
\* The entity exists exactly while a life of it is under way, and its count never passes the
\* limit, however many calls race for it.
THEOREM TypeCorrect == Spec => []TypeOK
<1>1. IInv => TypeOK
  BY DEF IInv
<1> QED BY <1>1, Inductive, PTL

\* No life of the record lets more than MaxAttempts guesses through to verification.
THEOREM BudgetKept == Spec => []Budget
<1>1. IInv => Budget
  <2> SUFFICES ASSUME IInv PROVE Budget
    OBVIOUS
  <2>1. \A w : Cardinality(Pending(w)) \in Nat
    BY PendingFinite
  <2>2. \A w \in DOMAIN windows : windows[w] \in Nat
    BY DEF IInv, TypeOK
  <2>3. Exists => record.attempts \in Nat /\ Len(windows) \in DOMAIN windows
    BY DEF IInv, TypeOK, Record, Counted
  <2>4. \A w \in DOMAIN windows : windows[w] <= MaxAttempts
    BY <2>1, <2>2, LimiterConstants DEF IInv, Counted
  <2>5. Exists => windows[Len(windows)] <= record.attempts
    BY <2>1, <2>2, <2>3 DEF IInv, Counted
  <2> QED BY <2>4, <2>5 DEF Budget
<1> QED BY <1>1, Inductive, PTL

LEMMA WindowStep ==
  IInv /\ [Next]_vars =>
    [record' # record /\ Exists =>
       \/ record' = [record EXCEPT !.attempts = @ + 1]
       \/ record.expiresAt <= clock
       \/ \E c \in Calls : pc[c] = "reset" /\ right[c]
                           /\ place[c] = [window |-> Len(windows), rank |-> record.attempts]]_vars
<1> SUFFICES ASSUME IInv, [Next]_vars, record' # record, Exists
             PROVE  \/ record' = [record EXCEPT !.attempts = @ + 1]
                    \/ record.expiresAt <= clock
                    \/ \E c \in Calls : pc[c] = "reset" /\ right[c]
                          /\ place[c] = [window |-> Len(windows), rank |-> record.attempts]
  OBVIOUS
<1>1. PICK c \in Calls : DeleteExpired(c) \/ Create(c) \/ Update(c) \/ Reset(c)
  BY DEF Next, vars, Tick, Arrive, Reserve, Read, Verify, Leave
<1>2. CASE DeleteExpired(c)
  <2>1. c \in etag /\ record.expiresAt <= now[c]
    BY <1>2 DEF DeleteExpired, IInv, Holds
  <2>2. now[c] \in 0 .. clock /\ clock \in Nat /\ record.expiresAt \in Nat
    BY DEF IInv, TypeOK, Record
  <2> QED BY <2>1, <2>2
<1>3. CASE Create(c)
  BY <1>3 DEF Create
<1>4. CASE Update(c)
  <2>1. c \in etag /\ record' = [snap[c] EXCEPT !.attempts = @ + 1] /\ snap[c] = record
    BY <1>4 DEF Update, IInv, Holds
  <2> QED BY <2>1
<1>5. CASE Reset(c)
  <2>1. c \in etag /\ pc[c] = "reset"
    BY <1>5 DEF Reset
  <2> QED BY <2>1 DEF IInv, Holds, Placed
<1> QED BY <1>1, <1>2, <1>3, <1>4, <1>5

\* A limited caller's record goes back only when it has expired, or when the last guess
\* counted was right.
THEOREM WindowKept == Spec => WindowStands
BY Inductive, WindowStep, PTL DEF WindowStands, Spec
=============================================================================
