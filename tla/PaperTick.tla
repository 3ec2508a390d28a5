------------------------------ MODULE PaperTick ------------------------------
(***************************************************************************)
(* One tick of the paper memory loop and the publication of its state      *)
(* (scripts/mosaic-murmurs-paper-memory-loop.py run_tick,                  *)
(* scripts/mosaic_murmurs_paper_sync.py sync_paper_state).                 *)
(*                                                                         *)
(* Ticks are serialised by a file lock the kernel drops with the process.  *)
(* Each durable write is atomic (write, fsync, rename) and the process may *)
(* die between any two of them.  The nine JSONL files are one, the ledger  *)
(* events; a tick's events stand or fall together, and their identities    *)
(* derive from the tick's key.  The state is sent once: a request may be   *)
(* lost, be answered, or still be on its way when the tick has given up.   *)
(* A dry run writes nothing and is left out; a sync URL is configured.     *)
(***************************************************************************)
EXTENDS PaperState, Sequences

CONSTANT MaxTime   \* bound of the model

VARIABLES
  clock,      \* seconds of the host, never set back
  ledger,     \* paper-ledger.json: the ticks it has processed
  replay,     \* the replay record of each key
  journal,    \* paper_ledger_events: the ticks whose events it holds, in order
  torn,       \* a crash has cut its last line short
  latest,     \* latest_state.json
  receipt,    \* wake-brief-receipt.json
  job,        \* the tick in progress
  requests,   \* PUT requests on their way
  db          \* the API's tables

tickVars == <<clock, ledger, replay, journal, torn, latest, receipt, job, requests, db>>
files == <<ledger, replay, journal, torn, latest, receipt>>

Record == [state : PaperStates, committed : BOOLEAN]
Receipt == [ok : BOOLEAN, state : PaperStates]

ASSUME TickConstants == None \notin Record \cup Receipt /\ MaxTime \in Nat

Request == [key : Keys, state : PaperStates]
Steps == {"idle", "record", "ledger", "append", "sync", "await", "receipt", "commit"}
Job == [step : Steps, key : {None} \cup Keys, wake : BOOLEAN, ledger : SUBSET Tick,
        state : {None} \cup PaperStates, ok : BOOLEAN]
NoJob == [step |-> "idle", key |-> None, wake |-> FALSE, ledger |-> {}, state |-> None, ok |-> FALSE]

\* Mutant: the events are appended before the ledger is written.
AppendFirst ==
  [record |-> "append", append |-> "ledger", ledger |-> "sync", sync |-> "await",
   await |-> "receipt", receipt |-> "commit"]

\* The order of the durable writes.
Following ==
  [record |-> "ledger", ledger |-> "append", append |-> "sync", sync |-> "await",
   await |-> "receipt", receipt |-> "commit"]

TickTypeOK ==
  /\ clock \in Nat
  /\ ledger \in SUBSET Tick
  /\ replay \in [Keys -> {None} \cup Record]
  /\ journal \in Seq(Tick) /\ torn \in BOOLEAN
  /\ latest \in {None} \cup PaperStates
  /\ receipt \in {None} \cup Receipt
  /\ job \in Job
  /\ requests \subseteq Request
  /\ db \in Database

TickInit ==
  /\ clock = 0
  /\ ledger = {} /\ replay = [k \in Keys |-> None]
  /\ journal = <<>> /\ torn = FALSE
  /\ latest = None /\ receipt = None
  /\ job = NoJob
  /\ requests = {} /\ db = EmptyDatabase

-----------------------------------------------------------------------------
Processed(k) == \E t \in ledger : t.key = k
Journaled == {journal[i] : i \in DOMAIN journal}

\* build_paper_state over the ledger the engine returns and recent_paper_fills.
NewState(k) ==
  LET tick == [key |-> k, at |-> clock]
  IN  [at |-> clock, ledger |-> ledger \cup {tick}, recent |-> Journaled \cup {tick}]

\* process_tick on a new key.  The key is derived from the cadence and the window, or given.
Begin(k, wake) ==
  /\ job.step = "idle" /\ ~Processed(k)
  /\ job' = [step |-> "record", key |-> k, wake |-> wake, ledger |-> NewState(k).ledger,
             state |-> NewState(k), ok |-> FALSE]
  /\ UNCHANGED <<clock, files, requests, db>>

\* Mutant: the replay record is taken without comparing its ledger digest.
AnyReplayable(k) == replay[k] # None

\* The digest in the replay record, of the ledger its state was built over, must be that
\* of the ledger on disk.
Replayable(k) == replay[k] # None /\ replay[k].state.ledger = ledger

\* process_tick on a processed key returns the ledger as it was loaded; everything else
\* comes from the replay record, which is not written again.
BeginReplay(k, wake) ==
  /\ job.step = "idle" /\ Processed(k) /\ Replayable(k)
  /\ job' = [step |-> Following["record"], key |-> k, wake |-> wake, ledger |-> ledger,
             state |-> replay[k].state, ok |-> FALSE]
  /\ UNCHANGED <<clock, files, requests, db>>

Onward == job' = [job EXCEPT !.step = Following[@]]

WriteReplay ==
  /\ job.step = "record" /\ Onward
  /\ replay' = [replay EXCEPT ![job.key] = [state |-> job.state, committed |-> FALSE]]
  /\ UNCHANGED <<clock, ledger, journal, torn, latest, receipt, requests, db>>

WriteLedger ==
  /\ job.step = "ledger" /\ Onward
  /\ ledger' = job.ledger
  /\ UNCHANGED <<clock, replay, journal, torn, latest, receipt, requests, db>>

\* append_jsonl of a tick whose identities are there already appends nothing.
Appended(tick) == IF tick \in Journaled THEN journal ELSE Append(journal, tick)

\* append_jsonl.  The tick's events carry its time; a torn line, or an identity there with
\* other content, raises and ends the tick.
AppendEvents ==
  LET tick == [key |-> job.key, at |-> job.state.at]
  IN  /\ job.step = "append"
      /\ IF torn \/ \E t \in Journaled : t.key = job.key /\ t # tick
         THEN job' = NoJob /\ UNCHANGED journal
         ELSE Onward /\ journal' = Appended(tick)
      /\ UNCHANGED <<clock, ledger, replay, torn, latest, receipt, requests, db>>

\* latest_state.json is written and the PUT leaves.
Sync ==
  /\ job.step = "sync" /\ Onward
  /\ latest' = job.state
  /\ requests' = requests \cup {[key |-> job.key, state |-> job.state]}
  /\ UNCHANGED <<clock, ledger, replay, journal, torn, receipt, db>>

-----------------------------------------------------------------------------
Awaited(r) == job.step = "await" /\ r = [key |-> job.key, state |-> job.state]

\* The API serves a request.  The tick that still waits for it gets the answer.
Handle(r) ==
  /\ r \in requests
  /\ requests' = requests \ {r}
  /\ db' = PutPaperState(db, r.key, r.state)
  /\ \/ /\ Awaited(r)
        /\ job' = [job EXCEPT !.step = Following[@], !.ok = Accepts(db, r.key, r.state)]
     \/ UNCHANGED job
  /\ UNCHANGED <<clock, files>>

Lose(r) ==
  /\ r \in requests
  /\ requests' = requests \ {r}
  /\ UNCHANGED <<clock, files, job, db>>

\* PaperSyncError: no answer, or none that can be used.
GiveUp ==
  /\ job.step = "await" /\ Onward
  /\ UNCHANGED <<clock, files, requests, db>>

\* Mutant: the receipt says the state was synchronised because it was sent.
Attempted == job.step = "receipt"

SyncOk == job.ok

WriteReceipt ==
  /\ job.step = "receipt" /\ Onward
  /\ receipt' = IF job.wake THEN [ok |-> SyncOk, state |-> job.state] ELSE receipt
  /\ UNCHANGED <<clock, ledger, replay, journal, torn, latest, requests, db>>

Commit ==
  /\ job.step = "commit" /\ job' = NoJob
  /\ replay' = [replay EXCEPT ![job.key].committed = TRUE]
  /\ UNCHANGED <<clock, ledger, journal, torn, latest, receipt, requests, db>>

\* The process dies.  Only the append is not atomic.
Crash ==
  /\ job.step # "idle" /\ job' = NoJob
  /\ torn' \in {torn, torn \/ job.step = "append"}
  /\ UNCHANGED <<clock, ledger, replay, journal, latest, receipt, requests, db>>

Second ==
  /\ clock < MaxTime /\ clock' = clock + 1
  /\ UNCHANGED <<files, job, requests, db>>

TickNext ==
  \/ \E k \in Keys, wake \in BOOLEAN : Begin(k, wake) \/ BeginReplay(k, wake)
  \/ WriteReplay \/ WriteLedger \/ AppendEvents \/ Sync \/ GiveUp \/ WriteReceipt \/ Commit
  \/ \E r \in requests : Handle(r) \/ Lose(r)
  \/ Crash \/ Second

-----------------------------------------------------------------------------
\* Nothing the outside can read, in a file or at the API, tells of a tick the durable ledger
\* does not have: a tick that dies before its ledger is written leaves no trace, whatever is
\* retried under its key, and no event is journaled twice.
NoPhantom ==
  /\ \A s \in {latest} \cup {Served(db)} : s # None => s.ledger \cup s.recent \subseteq ledger
  /\ receipt # None => receipt.state.ledger \subseteq ledger
  /\ Journaled \subseteq ledger
  /\ \A i, j \in DOMAIN journal : journal[i] = journal[j] => i = j

\* latest_state.json never loses a tick it has shown, whatever key is replayed and however
\* long ago it ran.
LatestGrows ==
  [][latest # None => latest.ledger \subseteq latest'.ledger]_latest

\* The paper state the API serves never loses a tick it has shown, whatever the order in
\* which late, repeated and retried requests reach it.
ServedGrows ==
  [][Served(db) # None => Served(db).ledger \subseteq Served(db)'.ledger]_<<db>>

\* A wake receipt that reports success is about a state the API has accepted.
ReceiptTrue ==
  receipt # None /\ receipt.ok => \E k \in Keys : db.updates[k] = receipt.state
=============================================================================
