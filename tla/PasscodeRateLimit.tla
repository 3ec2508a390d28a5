-------------------------- MODULE PasscodeRateLimit --------------------------
(***************************************************************************)
(* Guesses of the passcode by one caller, counted in one table entity that *)
(* every Function instance shares (api/_lib/passcode-rate-limit.js and     *)
(* api/validate-passcode/index.js).                                        *)
(*                                                                         *)
(* An ETag is abstracted to who holds a current one: every write of the    *)
(* entity takes it from all others.  A write may land while its response   *)
(* is lost: the SDK repeats it and reports the conflict of the repeat      *)
(* (Retry), or gives up with an error (then Leave).  Instances share one   *)
(* clock, which a guess reads once, when it arrives.                       *)
(***************************************************************************)
EXTENDS Integers, Sequences, FiniteSets

CONSTANTS
  Calls,                        \* requests that may be in flight together
  MaxAttempts, Window,          \* maxAttempts, and windowMs in units of the clock
  MaxRetries,                   \* MAX_MUTATION_RETRIES
  MaxTime, MaxWindows           \* bounds of the model

ASSUME LimiterConstants ==
  /\ IsFiniteSet(Calls)
  /\ MaxAttempts \in Nat \ {0} /\ Window \in Nat \ {0} /\ MaxRetries \in Nat \ {0}
  /\ MaxTime \in Nat /\ MaxWindows \in Nat

VARIABLES
  clock,
  record,    \* the entity: attempts 0 where there is none
  etag,      \* calls whose ETag of the entity is current
  pc, right, now, snap, tries,   \* of each call: its step, whether its guess is right, ...
  windows,   \* history: the guesses let through to verification, by life of the entity
  place      \* history: of each call with a reservation, the life it counts in and its rank

call == <<pc, right, now, snap, tries, place>>
vars == <<clock, record, etag, pc, right, now, snap, tries, windows, place>>

Record == [attempts : Nat, expiresAt : Nat]
Absent == [attempts |-> 0, expiresAt |-> 0]
Nowhere == [window |-> 0, rank |-> 0]
Steps == {"idle", "read", "delete", "create", "update", "verify", "reset"}

\* The entity exists exactly while a life of it is under way, and counts a guess at least.
TypeOK ==
  /\ clock \in Nat /\ record \in Record /\ etag \subseteq Calls
  /\ pc \in [Calls -> Steps] /\ right \in [Calls -> BOOLEAN] /\ now \in [Calls -> 0 .. clock]
  /\ snap \in [Calls -> Record] /\ tries \in [Calls -> 0 .. MaxRetries - 1]
  /\ windows \in Seq(Nat)
  /\ place \in [Calls -> [window : 0 .. Len(windows), rank : Nat]]
  /\ record.attempts = 0 => etag = {}
  /\ record.attempts <= MaxAttempts

Init ==
  /\ clock = 0 /\ record = Absent /\ etag = {}
  /\ pc = [c \in Calls |-> "idle"] /\ right = [c \in Calls |-> FALSE]
  /\ now = [c \in Calls |-> 0] /\ snap = [c \in Calls |-> Absent]
  /\ tries = [c \in Calls |-> 0]
  /\ windows = <<>> /\ place = [c \in Calls |-> Nowhere]

Tick == clock < MaxTime /\ clock' = clock + 1 /\ UNCHANGED <<record, etag, call, windows>>

-----------------------------------------------------------------------------
Goto(c, step) == pc' = [pc EXCEPT ![c] = step]

\* The answer leaves; what the invocation knew is gone.
End(c) ==
  /\ Goto(c, "idle")
  /\ right' = [right EXCEPT ![c] = FALSE] /\ now' = [now EXCEPT ![c] = 0]
  /\ snap' = [snap EXCEPT ![c] = Absent] /\ tries' = [tries EXCEPT ![c] = 0]
  /\ place' = [place EXCEPT ![c] = Nowhere]

\* The loop goes round until its retries are used up (503).
Retry(c) ==
  IF tries[c] + 1 = MaxRetries
  THEN End(c)
  ELSE /\ Goto(c, "read")
       /\ tries' = [tries EXCEPT ![c] = @ + 1] /\ snap' = [snap EXCEPT ![c] = Absent]
       /\ UNCHANGED <<right, now, place>>

Exists == record.attempts > 0
Expired(c) == record.expiresAt <= now[c]

Limited == record.attempts >= MaxAttempts

-----------------------------------------------------------------------------
(* reserveAttempt *)

Arrive(c, isRight) ==
  /\ pc[c] = "idle"
  /\ Goto(c, "read")
  /\ right' = [right EXCEPT ![c] = isRight] /\ now' = [now EXCEPT ![c] = clock]
  /\ UNCHANGED <<clock, record, etag, snap, tries, windows, place>>

Read(c) ==
  /\ pc[c] = "read"
  /\ \/ ~Exists /\ Goto(c, "create") /\ UNCHANGED <<etag, right, now, snap, tries, place>>
     \/ /\ Exists /\ Expired(c)
        /\ Goto(c, "delete") /\ etag' = etag \cup {c}
        /\ UNCHANGED <<right, now, snap, tries, place>>
     \/ /\ Exists /\ ~Expired(c) /\ ~Limited
        /\ Goto(c, "update") /\ etag' = etag \cup {c}
        /\ snap' = [snap EXCEPT ![c] = record]
        /\ UNCHANGED <<right, now, tries, place>>
     \/ Exists /\ ~Expired(c) /\ Limited /\ End(c) /\ UNCHANGED etag
  /\ UNCHANGED <<clock, record, windows>>

\* Mutant: the expired record is deleted whatever it has become.
DeleteAny(c) ==
  /\ pc[c] = "delete"
  /\ record' = Absent /\ etag' = {}
  /\ Retry(c)
  /\ UNCHANGED <<clock, windows>>

\* deleteExpired: gone, replaced or deleted now, the loop goes round.
DeleteExpired(c) ==
  /\ pc[c] = "delete"
  /\ \/ c \in etag /\ record' = Absent /\ etag' = {}
     \/ c \notin etag /\ UNCHANGED <<record, etag>>
  /\ Retry(c)
  /\ UNCHANGED <<clock, windows>>

\* The write has landed as the last of the entity's current life.
Reserved(c, window) ==
  /\ Goto(c, "verify")
  /\ place' = [place EXCEPT ![c] = [window |-> window, rank |-> record'.attempts]]
  /\ UNCHANGED <<right, now, snap, tries>>

Create(c) ==
  /\ pc[c] = "create"
  /\ \/ /\ ~Exists /\ Len(windows) < MaxWindows
        /\ record' = [attempts |-> 1, expiresAt |-> now[c] + Window]
        /\ windows' = Append(windows, 0)
        /\ \/ Reserved(c, Len(windows) + 1) /\ etag' = {c}
           \/ Retry(c) /\ etag' = {}
     \/ Exists /\ Retry(c) /\ UNCHANGED <<record, etag, windows>>
  /\ UNCHANGED clock

\* Mutant: the update is not conditional.
UpdateAny(c) ==
  /\ pc[c] = "update" /\ Exists
  /\ record' = [snap[c] EXCEPT !.attempts = @ + 1]
  /\ Reserved(c, Len(windows)) /\ etag' = {c}
  /\ UNCHANGED <<clock, windows>>

\* A record that is gone answers 404, which is no conflict: 503.
Update(c) ==
  /\ pc[c] = "update"
  /\ \/ /\ c \in etag
        /\ record' = [snap[c] EXCEPT !.attempts = @ + 1]
        /\ \/ Reserved(c, Len(windows)) /\ etag' = {c}
           \/ Retry(c) /\ etag' = {}
     \/ c \notin etag /\ Exists /\ Retry(c) /\ UNCHANGED <<record, etag>>
     \/ ~Exists /\ End(c) /\ UNCHANGED <<record, etag>>
  /\ UNCHANGED <<clock, windows>>

-----------------------------------------------------------------------------
(* validatePasscode *)

\* A wrong guess is answered 401; a right one goes on to the reset.
Verify(c) ==
  /\ pc[c] = "verify"
  /\ windows' = [windows EXCEPT ![place[c].window] = @ + 1]
  /\ \/ right[c] /\ Goto(c, "reset") /\ UNCHANGED <<etag, right, now, snap, tries, place>>
     \/ ~right[c] /\ End(c) /\ etag' = etag \ {c}
  /\ UNCHANGED <<clock, record>>

\* reset: what was written after the reservation stays; the session is granted all the same.
Reset(c) ==
  /\ pc[c] = "reset"
  /\ \/ c \in etag /\ record' = Absent /\ etag' = {}
     \/ c \notin etag /\ UNCHANGED <<record, etag>>
  /\ End(c)
  /\ UNCHANGED <<clock, windows>>

\* A storage error (503), a crash or a host restart.
Leave(c) ==
  /\ pc[c] # "idle" /\ End(c) /\ etag' = etag \ {c}
  /\ UNCHANGED <<clock, record, windows>>

-----------------------------------------------------------------------------
Reserve(c) == Read(c) \/ DeleteExpired(c) \/ Create(c) \/ Update(c)

Next ==
  \/ Tick
  \/ \E c \in Calls : \/ \E isRight \in BOOLEAN : Arrive(c, isRight)
                      \/ Reserve(c) \/ Verify(c) \/ Reset(c) \/ Leave(c)

Spec == Init /\ [][Next]_vars

-----------------------------------------------------------------------------
(* Properties *)

\* Whatever is in flight together, lost or repeated, no life of the record lets more than
\* MaxAttempts guesses through to verification, and the count on record covers those of
\* its life, the reserved ones included.
Budget ==
  /\ \A w \in DOMAIN windows : windows[w] <= MaxAttempts
  /\ Exists => windows[Len(windows)] <= record.attempts

\* A caller who ran into the limit waits it out: the record goes away, and its count or
\* its expiry goes back, only once it has expired or when a right guess that was the last
\* to be counted forgives those before it.
WindowStands ==
  [][record' # record /\ Exists =>
       \/ record' = [record EXCEPT !.attempts = @ + 1]
       \/ record.expiresAt <= clock
       \/ \E c \in Calls : pc[c] = "reset" /\ right[c]
                           /\ place[c] = [window |-> Len(windows), rank |-> record.attempts]]_vars
=============================================================================
