------------------------------ MODULE PaperState ------------------------------
(***************************************************************************)
(* What the API keeps for the paper engine and the morning brief           *)
(* (vm/cybermap-api/src/postgres-store.mjs): every paper state it has      *)
(* accepted under its idempotency key, the one it serves, and one package  *)
(* per morning brief run.  Each operator is one transaction, serialised by *)
(* an advisory lock.                                                       *)
(*                                                                         *)
(* A tick of the engine is its idempotency key and the time it ran.  A     *)
(* paper state is abstracted to its generated_at, the ticks its ledger has *)
(* processed and the ticks whose fills it shows; equal states are equal    *)
(* payload hashes.                                                         *)
(***************************************************************************)
EXTENDS Integers

CONSTANTS
  Keys,    \* idempotency keys of engine ticks
  Runs,    \* morning brief run ids, one per day
  None

Tick == [key : Keys, at : Nat]
PaperStates == [at : Nat, ledger : SUBSET Tick, recent : SUBSET Tick]

\* A rendered package: the paper state it is bound to and the second it was validated.
Package == [state : PaperStates, validated : Nat]

ASSUME PaperConstants == None \notin Keys \cup PaperStates \cup Package

Database == [updates : [Keys -> {None} \cup PaperStates], current : {None} \cup Keys]
EmptyDatabase == [updates |-> [k \in Keys |-> None], current |-> None]

-----------------------------------------------------------------------------
\* getPaperState
Served(db) == IF db.current = None THEN None ELSE db.updates[db.current]

\* A new key may neither bring an older state nor change the one of the same time.
Newer(db, state) ==
  \/ db.current = None
  \/ state.at > Served(db).at
  \/ state.at = Served(db).at /\ state = Served(db)

Store(db, key, state) ==
  [updates |-> [db.updates EXCEPT ![key] = state], current |-> key]

\* Mutant: the order of the states is not looked at.
AnyOrder(db, key, state) == db.updates[key] = None

\* putPaperState: an exact replay, a fresh update, or a refusal (409).
Replayed(db, key, state) == db.updates[key] # None /\ db.updates[key] = state
Fresh(db, key, state) == db.updates[key] = None /\ Newer(db, state)
Accepts(db, key, state) == Replayed(db, key, state) \/ Fresh(db, key, state)
PutPaperState(db, key, state) == IF Fresh(db, key, state) THEN Store(db, key, state) ELSE db

\* Mutant: the package of a later render takes the place of the archived one.
LastPackage(archive, run, package) == TRUE

\* putMorningBrief: the first package of a run stays; any other is refused (409).
ArchiveAccepts(archive, run, package) == archive[run] = None \/ archive[run] = package
=============================================================================
