# Verification of Blue Swallow Society

TLA+ models of the parts of this repository where several actors share state, checked by
TLC on small instances, and theorems about them checked by TLAPS for every value of the
constants. `PROJECT.json` lists the components, the runs, the mutants that show each
property can fail, the source lines of every definition, the hazards and the theorems.

## 1. The system

A browser companion (`app/`, `api/_private/operator/assets/`) talks to Azure Functions
(`api/`), which keep a little state in Azure Blob and Table storage and forward the rest
to a VM API (`vm/cybermap-api/src/`) over PostgreSQL (`vm/cybermap-api/db/migrations/`).
Phones running Wardriver upload observations and agree on a device roster. Scripts
(`scripts/`) run the paper-trading engine and the morning brief and push their results.

| Component | State | Operations | What is hard |
|---|---|---|---|
| Wardriver device sync (`api/_lib/wardriver-sync-store.js`) | a private control blob, a public signed roster blob, each under an ETag | enroll, grants, invite, rename, revoke, each a signed request with a one-time challenge | invocations interleave over two blobs; conditional writes land with their response lost; invocations die between the blobs; receipts and invitations lapse and are pruned |
| Observation ingest (`postgres-store.mjs`, `server.mjs`) | observations, sync_batches, credentials, sessions | a device posts a batch, again after any doubt | overlapping transactions of one device; 503 at a deadline while the transaction goes on; a credential or a session ends meanwhile |
| World orbit gate (`world-orbit-postgres-store.mjs`, `world-orbit-service.mjs`) | one source row with a stop latch, an audit table | claim, finish, reset by the owner | crashes and lost responses around a network call; a reset overtakes a running attempt |
| Entity workbench (`entity-postgres-store.mjs`, `entity-projection.mjs`) | a revisioned row per entity, hypotheses, assertions | seven operator corrections, model refresh | long sequences of legal corrections, undo of undo, merge chains, three sources of membership and one limit |
| Paper engine tick and paper state (`scripts/mosaic-murmurs-paper-memory-loop.py`, `scripts/mosaic_murmurs_paper_sync.py`, `postgres-store.mjs`) | replay records, ledger, event files, latest state and receipt on the engine's disk; accepted states and the served one in the API | tick, replay of a key, put, get | a crash between any two durable writes, a PUT that lands after the tick gave it up, old keys replayed |
| Morning brief (`scripts/mosaic-murmurs-morning-brief-*.py`) | one archived package per run, delivery receipts | validate, render, archive, send in batches | stopped and run again while ticks go on |
| Paper books (`scripts/mosaic_murmurs_paper_engine.py`) | cash and positions of 24 books | mark, settle, crash, seed, rebalance | cents, rounded one by one, over a long sequence of trades; marks that are missing |
| Passcode rate limit (`api/_lib/passcode-rate-limit.js`) | one table entity per caller | reserve, reset | ETag races at the window's end; a success racing a failure |
| Owner sessions (`api/_lib/owner-*.js`) | in-memory token cache, cookies | login, enable editing, logout | two tabs, a callback after a logout, the cache at its limit |
| World context, Greenfeed, DeFlock (`world-service.mjs`, `greenfeed-worker.mjs`) | process-local snapshots, cells, run records | refresh, timer, source job | single flight, a late answer after a stop, cells replaced and their record lost |
| Entity workbench panel (`api/_private/operator/assets/entity-workbench.mjs`) | generation tokens, the entity shown, a pending command with its idempotency key | load, preview, confirm | answers late, lost or out of order; the same command confirmed again; the entity changes meanwhile |
| Other browser views (`world-view.mjs`, `travels-view.mjs`, dashboards) | what they draw | load, draw, leave | |
| Releases, access checks, read APIs, proxies, parsers | none shared, or read only | | pure functions and I/O |

How they interact: the Functions call the VM API with a forwarded credential and keep no
state of their own for it; the only shared state is a database row, a blob or a table
entity, each changed by a conditional write or a transaction. That is why one module per
store, with all its callers as concurrent actors, is the natural cut. Two flows cross
stores and are composed: a tick goes from the engine's disk through the network to the API
and on to the brief (`PaperState`, `PaperTick`, `MorningBrief`), and a correction from the
operator's panel through the proxy to the workbench rows (`CorrectionPanel`).

What makes each one correct: the roster is an append-only log and no challenge, invitation
or revocation can be got round (sync); receipts tell the truth for ever and the first
content stays (ingest); attempts are serial, spaced, and reviewed after any doubt (orbit);
nothing an operator decided is lost by a model, a merge or an undo (workbench); nothing is
published of a tick that never was, and neither the latest state nor what is served goes
back (paper); the readers
of a brief get one package; the books balance; guesses are never under-counted (passcode);
what is stored is what the operator confirmed, and what the panel says of it stays true.

## 2. The plan

Done:

1. `SyncState`, `WardriverSync`, `RosterLog`, with proofs of the protocol and of who gets in
   and stays out.
2. `WorldOrbit`, `AttemptLedger`, with proofs.
3. `ObservationIngest`, `ObservationLedger`, with proofs, the counts of receipts included.
4. `EntityWorkbench`, with proofs of all its properties.
5. `PasscodeRateLimit`, with proofs.
6. `PaperState`, `PaperTick`, `MorningBrief`, with proofs.
7. `PaperBook`, with proofs of all its properties.
8. `CorrectionPanel`, with proofs.

Left, in this order:

9. `OwnerEditing`: token cache, login, edit callback and logout of two tabs.
10. `WorldService` with its single flight, and the run records of the Greenfeed job.
11. The other panels, if they ever write: today they only draw what they read.

## 3. Modules and the code

### Wardriver sync: `SyncState`, `WardriverSync`, `RosterLog`, `MCWardriverSync`

`SyncState` is the control blob as data: `Transacted(Prune(s, lapsed), r)` is what one
verified request makes of it, with `Allowed` for the refusals and `ValidState` for
validateState. Time is the set `lapsed` of nonces and tokens whose expiry has passed. A
token stands for its hash; a device is its public key.

`WardriverSync` runs invocations over the two blobs. `Ask` is a verified request
(index.js, verifyProof); `Decide`/`Refuse`, `Commit`, `CommitConflict` are the loop of
transact; `ReadRoster`, `ReadState`, `Publish`, `PublishConflict` that of publishRoster, in
the order of its reads; `Leave` ends an invocation anywhere. An ETag is abstracted to who
still holds a current one. A conditional write that lands is learned as a success, as the
conflict of the SDK's own repeat, or as an error. `log`, `since` and `spent` are history.
`pc = "corrupt"` is every 503 the code gives because stored data contradicts its rules.

`RosterLog` is the promise: revisions form a log of legal amendments and the public copy
shows an entry of it and only moves forward.

### World orbit: `WorldOrbit`, `AttemptLedger`, `MCWorldOrbit`

One row, claimed by one UPDATE (`Claim`), finished by another guarded on the claim's UUID
(`Save`, `Stop`), reset in a transaction (`Reset`). Each may take effect with its response
lost. `AttemptLedger` is the promise: attempts one at a time, an interval apart, the next
only after a success or a review, and a cache that holds the latest success.

### Observation ingest: `ObservationIngest`, `ObservationLedger`, `MCObservationIngest`

A call is `Authenticate` (handler), `Lock` (BEGIN and the credential FOR NO KEY UPDATE, which
every other lock of the transaction follows), `Read` (the stored receipt, or the session,
the known rows and the partition), `Commit` or `Fail`. What a transaction means to write
stays in its call until COMMIT, when the unique constraints (`Collides`) are tested.
`Deadline` answers 503 and leaves the transaction running. Operators disable and enable
credentials and end sessions, waiting for the row locks the code takes. `ObservationLedger`
is the promise: whole batches, once, first content wins, one receipt.

### Entity workbench: `EntityWorkbench`, `MCEntityWorkbench`

Every command and every hypothesis is one transaction under one advisory lock, hence one
action: `Create`, `Label`, `Membership`, `Reject`, `Split`, `Merge`, `Undo` (the switch of
applyCorrection and compensate, each ending in `Recorded`, the loop of apply that raises the
revisions and appends the assertion) and `PublishHypothesis`. A command and a hypothesis
name the revisions their author saw, any up to the bound of the history; `Unmoved`
(loadForCommand) lets through only what is still current, and the assertion keeps what was
expected beside what was there. A command that is stale, replayed, previewed or fails changes
nothing and is a stuttering step. An undo also compares what its assertion made with what is
there.

### Passcode rate limit: `PasscodeRateLimit`, `MCPasscodeRateLimit`

The guesses of one caller over its one table entity, a storage call a step: `Read` (the
loop's head in reserveAttempt), `DeleteExpired`, `Create`, `Update` (a conditional write,
which may land unseen and then sends the loop round), `Verify` and `Reset`
(validatePasscode). As in the sync, an ETag is who holds a current one. A *life* of the
entity is what lies between its creation and its deletion; `windows` counts what each life
let through and `place` says which count a call holds. An update of an entity that is gone
is answered 404 by the service and hence ends in 503, where a conflict would go round. `now`
is read once by each call, so calls disagree about what has expired.

### Paper state, tick and brief: `PaperState`, `PaperTick`, `MorningBrief`, `MCMorningBrief`

`PaperState` is the database: `PutPaperState` (one transaction under an advisory lock: the
idempotency log first, then what is `Fresh` is stored, and served if it is `Newer`) and
`ArchiveAccepts`. A tick is its key and its time; a state is its time, the ticks of its
ledger and the ticks whose fills it shows.

`PaperTick` is run_tick in the order of its durable writes: `Begin` or `BeginReplay`,
`WriteReplay`, `WriteLedger`, `AppendEvents`, `Sync` (the latest state, and the PUT leaves),
`GiveUp`, `WriteReceipt`, `Commit`; `Following` is their order. A replay takes everything from
its record except the ledger: it writes back the one it loaded, whose digest it has compared
with the record's (`Replayable`). `Crash` may strike before any write and cut a line of the
event file. A request is on its way until `Handle` serves it or `Lose` drops it,
whether or not the tick still waits. `Second` advances the host's clock.

`MorningBrief` composes the ticks with the publisher: `PubStart` (validate_run on the wake
receipt), `PubRender` (the served state compared, the package stamped with the time),
`PubArchive`, `PubSend` and `PubNote` for each batch, `PubStop` anywhere.

### Paper books: `PaperBook`, `MCPaperBook`

process_tick for one book as arithmetic in cents, of the fifteen whose instruments are all
prediction contracts, all crypto or all equities. The nine cross_asset books hold crypto and
equities together and cost each instrument by its own type; a book of the model has one cost
model, so nothing here is about them. The steps are `Marked`, `Settled` (a fold of `Closed` over
the instruments), the crash, `Seeded` (`Leg` by `Leg`), `Targets` (`Given` along the
ranking), `Rebalanced` (`Lowered`, then `Raised`) with `Buy` and `SellFor`, each amount
rounded where the engine rounds it. Python rounds a tie to the even cent, the model up; no
property tells the two apart (BooksBalance allows the cent either way, although the model
itself only drifts upwards). The snapshot and the ranking are inputs; a tick whose state the
validation rejects (`Valid`: cash, quantities and costs are not negative) keeps nothing, and
`offered` remembers what the engine had returned. A fill of nothing that opens a position
divides by zero outside a prediction market, and the whole tick fails: the quantity -1
stands for it (`Filled`), which `Valid` rejects.

Three assumptions bound the constants. `BookConstants` gives their types. `QuotesMarked` is
instrument_fresh: a mark of nothing is only fresh with its settlement. `SeedScale` says that
every leg of the seed gets a cent at least and buys a fraction at least: the engine seeds a
thousand dollars over at most five legs, in quantities of ten digits.

### Entity workbench panel: `CorrectionPanel`, `MCCorrectionPanel`

`EntityWorkbench` says what a correction does; here a correction is only its idempotency
key and an entity is the sequence of changes it has had, so its revision is their number and
two rows are the same only if the same changes made them in the same order. The actions are
the handlers of the panel cut at each await: `Load` / `ReadDetail` / `ShowDetail`; the four
forms of `Ask`, `ReadOther`, `Rehearse` / `ShowPreview`; `Confirm` / `Apply` / `Receipt`,
`Changed`, `Unsure`. A generation token is abstracted to who still holds the current one.
Previews are serial because their button is disabled until the last one ended; loads and
confirmations are not. `Unsure` covers every other failure: the answer may be lost while the
request is still on its way to `Apply`. `ChangeElsewhere` is a model or another session,
`Mount` a panel destroyed and mounted anew with its requests still under way.

## 4. The runs

| Run | Instance | Shows |
|---|---|---|
| sync_publish | the owner renames; 2 invocations, 3 challenges, 4 revisions, 2 attempts | the two-blob protocol: ChallengeOnce, NeverCorrupt, AnswerCovers, and the refinement of RosterLog |
| sync_admission | 3 devices, 2 invitations, 2 challenges, 2 invocations, cap 2, from groups already formed | who gets in and stays out: InvitationSingleUse, ActiveCap, RevocationFinal; AnswerCovers again, where a requester may be revoked while it is served |
| sync_repair | the owner alone, 1 invocation, fair | an interrupted publication is repaired: RosterRepaired |
| world_orbit | 3 refreshes, 4 attempts, 6 time units, interval 2 | LatchTells, ReviewPossible, the refinement of AttemptLedger |
| observation_ingest | 2 devices, 2 calls, 3 keys, six chosen batches | Accounted, Acknowledged, NeverCollides, RevocationHolds, SessionHolds, the refinement of ObservationLedger |
| entity_history | 3 entities, 3 devices with a limit of 2, 3 assertions, 2 hypotheses of 2 versions | TypeOK, HistoryTells, UndoExact, AliasesResolve, LimitHeld, DevicesConserved, RejectionsKept |
| correction_panel | 2 entities, 2 previews, 2 confirmations, changes elsewhere up to revision 2 | AppliedAsShown, AnswersTrue |
| paper_publish | 2 keys, 1 run of 2 batches, 3 clock values, a brief up to 1 unit old | NoPhantom, ReceiptTrue, OnePackage, ServedGrows, LatestGrows |
| paper_book | 2 instruments, each kind and profile, 6 quotes, 2 rankings, 4 ticks | BooksBalance, SeedOnce, TradesGuarded |
| paper_negative_cash | a prediction book, 3 quotes, 3 ticks | NoNegativeCash fails |
| brief_rerun | 1 key, 1 run | DeterministicDossier fails |
| passcode_limit | 3 calls, limit 2, window 1, 3 clock values, 2 lives of the entity, 2 rounds | Budget, WindowStands |

Why these bounds are enough to meet the interesting cases:

- Two invocations make every race of a compare-and-swap: a third one only loses to the
  first two. Two attempts per loop give a conflict, a repeat and a giving up. Three
  challenges let one be pruned, one be in flight and one be asked for. The admission run
  starts from groups built by earlier requests with the module's own operators, because
  reaching a second member from the empty group would need more challenges than a run
  affords; its cap of two is reached and its second invitation contested.
- Three refreshes and four attempts give a stalled one, a reset, a later attempt and its
  own successor. Six units with an interval of two leave room for an attempt that is early.
- Six batches are the least that repeat a name, change content under it, correct a key in
  both versions, use a key of unprovable ownership and share keys between devices. Calls
  come back to idle and post again, so a history has more than two calls.
- Expected revisions run from none to the last that the bounds allow, so every command has
  its stale twins. Three corrections are an undo of an undo; three entities a chain of merges. One device
  more than the limit is what a merge, a split or a membership change needs to break it.

- Three calls and a limit of two are one guess too many at once; a window of one unit in a
  clock of three values has it expire while calls of the first unit are still under way; two
  lives are an old and a new record, and two rounds a conflict and a giving up. Calls come
  back to idle, so a life sees more guesses than there are calls.
- Two keys are a tick and a newer one that overtakes it, each begun again after any crash;
  the clock has a tick come back at another time. Two batches are a brief stopped between
  them, which is then run again, perhaps on a newer state.
- Four ticks are the seed, a rebalance, a settlement or a vanished mark, and what follows;
  the quotes hold one of each sort the code tells apart, the profiles are the code's own.
- Two confirmations are one and its repetition, or one each of two commands; two previews
  are one that is confirmed and one that is abandoned or competes with it. Two revisions
  from elsewhere change an entity before and after it has been read.

The theorems of section 6 cover what these bounds leave out: they hold for any number of
entities, assertions, keys, calls and requests.

Symmetry is used on sets whose members nothing tells apart, and only with safety
properties; sync_repair has none. Deadlock is checked in observation_ingest and
correction_panel, whose actors can always go on. In the other runs the number of challenges,
revisions, attempts, assertions, seconds or ticks is bounded, so the instance really stops.

The two runs that are expected to fail are disagreements between the code and what is
written about it:

- `NoNegativeCash` (docs/mosaic-and-murmurs-autonomous-paper-engine.md:71, "no ... negative
  cash"). The cash a buy may use is computed from the sum of the cost rates, the four costs
  of a prediction trade are rounded to cents one by one. A hyper-aggressive book that buys
  one outcome with everything ends at minus one cent; the state is then rejected, and with it
  the tick of all 24 books.
- `DeterministicDossier` (scripts/mosaic-murmurs-morning-brief-publish.py:7, "render the
  deterministic Field Dossier"). The package holds the time of its validation, so a publisher
  that stopped after archiving makes another package from the same inputs, the archive
  answers 409, and the remaining batches are never sent.

## 5. Fairness

Only RosterRepaired needs it (`FairSpec`). It assumes that the owner's phone keeps
renewing its grants (they last five minutes: docs/wardriver-device-sync-access.md),
that no step of an invocation fails every time it is tried (strong fairness on the success
of each storage call, weak fairness on an invocation's end), and that a challenge
outlives the request that carries it (120 s against calls of at most 10 s). `Recycle`
gives a lapsed nonce back so that a finite set stands for the endless supply. Nothing is
assumed of any other client, and no other property uses fairness.

## 6. What is proved

Eight proof modules, each for every value of the constants allowed by the ASSUMEs of its
component (finite sets where a cardinality is taken, positive limits, a `None` that is not
one of the values it stands beside, for the paper books what section 3 says; nothing else).

- `WardriverSyncProofs`. TypeCorrect; AnswersCover; RosterLogImplemented. (The types of the
  sync and of the orbit gate are proved here and checked by no run.) The argument is
  one inductive invariant that relates, for every invocation, what it carries to the log: the
  log has as many entries as the control state has revisions and its last one is the
  control state's roster; the public roster is an entry of it; an invocation that still
  holds a current ETag carries exactly one legal amendment of the current state (commit) or
  a logged roster newer than the public one (sign). The ETag condition is what makes the
  steps of other invocations harmless: every write takes the ETag from all of them.
  ChallengesSpentOnce, NothingCorrupt, InvitationsSingleUse, CapHeld, RevocationsFinal: on
  top of that invariant a second one carries four parts. The control state is `Good` (valid,
  within the cap, each device admitted by an invitation of its own, an open invitation
  nobody's), every challenge that was spent has left a receipt or has lapsed, invitations
  under way are distinct, and what an invocation is about to write on a current ETag is what
  its request makes of the present state (`LocalSafe`).
- `WorldOrbitProofs`. OrbitTypeCorrect, LatchFaithful, ReviewNeverRefused,
  LedgerImplemented. The invariant ties the row to the last entry of the ledger (attempt,
  time, latch, failure code), or after a review to none, makes the audit table the set of
  reviewed attempts, and has every running refresh carry an attempt. A finish of an earlier
  attempt is then a stutter.
- `ObservationIngestProofs`. IngestTypeCorrect, AnswersStayTrue, LocksSuffice,
  RevocationProved, SessionProved, IngestImplemented. The invariant says at most one call
  holds the locks and its credential is live, that a call about to commit would read again
  what it has read (its plan is the partition of the present rows, or a stored receipt), and
  that every stored receipt is true of the present rows. Inserting the rows of one batch
  leaves the receipts of the others true because their keys all have rows already.
  `ReceiptsAccount` adds the counts: the rows that name a stored batch are as many as its
  receipt accepts, by a bijection between the fresh keys and the rows that were inserted.
- `PasscodeProofs`. TypeCorrect, BudgetKept, WindowKept. In each life of the record, verified
  and pending guesses together are within the limit and on record; a call that holds a
  current ETag knows what it read is still there.
- `EntityWorkbenchProofs`. All seven properties of the run. The invariant adds to the history
  and the aliases that a row is what the latest assertion left of it, that hypotheses and
  whatever an undo can find are within the limit, that assertions and their undos share
  what they affect, and that an entity whose creation may still be undone is nobody's target.
  The last part is what makes AliasesResolve survive the undo of a creation or a split.
- `MorningBriefProofs`. TypeCorrect, NothingInvented, NothingWithdrawn, LatestNeverBack,
  ReceiptsHonest, ReadersSeeOne. Every state in sight (latest file, request, accepted update, receipt) tells
  of the durable ledger and of all of it up to its own time; the tick in progress is ahead of
  the ledger only before `WriteLedger`; a replay record is only followed when it tells of the
  ledger on disk; what was sent of a run is its archived package.
- `CorrectionPanelProofs`. PanelTypeCorrect, PreviewsHonoured, PanelHonest. What a preview
  shows is the rows at the revisions its command expects followed by the correction; an
  asserted correction stands exactly at those revisions; requests carry only commands whose
  preview was shown; and an answer "changed" was given when the command was not asserted and
  some expected revision was already passed, so that no copy of it can be accepted later
  (rows only grow).
- `PaperBookProofs`. BookInvariant, BooksBalanced, SeededOnce, TradingGuarded, and
  EquityNeverOverdrawn: of the engine's books the ones of equities alone, at the default costs,
  do keep the promise that prediction books break (NoNegativeCash, section 4); of the mixed
  books it says nothing. The inductive invariant says that the
  book in the ledger is valid, that its drift (cash and cost less the starting balance and
  the realised result) is at most a cent for each sale, that a book that is not seeded is a
  new one, and that an equity book is never offered overdrawn. Its three supports are
  lemmas on the folds the engine's loops are (what every step of a fold keeps, the fold
  keeps: the library's induction theorems are out of reach, so it is shown by a smallest
  counterexample among the subsets of a finite set), on sums (a change of one element changes
  the sum by as much) and on the rounding: `Share` is the rounded product in spite of its
  detour through 32 bits, the shares of the two parts of a split add up to the whole or a cent
  more (`ShareSplit`, the reason for BooksBalance's cent), the costs of a sale never exceed
  what it brings, those of the seed never one per cent of it, and an equity's single
  cost never the cash that `Affordable` set aside for it.

Only model-checked: RosterRepaired (liveness under fairness is out of the prover's reach,
as is ENABLED); the two violations are counterexamples and need no proof.
`MCWardriverSync` builds its groups with a recursive operator and therefore carries no
theorem; nothing proved depends on it.

## 7. What is not modelled

- Cryptography: a verified request is one its device made. Signatures, hashes and tokens
  are the values they stand for, equal when they are equal.
- Clock skew between Function instances (one set `lapsed`, one `clock`), and the size limit
  of the control blob.
- Sensor health, several sources, and the progress of version 2 receipts in ingest; labels,
  evidence and device eligibility in the workbench.
- The paper engine: the host's clock is never set back; one tick and one publisher at a time
  (a file lock and a timer see to it); the nine event files are one; the nine cross_asset books
  and their costs by instrument are left out; a sync URL is
  configured and dry runs are left out; books share nothing, and where the engine rounds the
  sum of two products the model rounds each. Old brief runs are never pruned in the model.
- The panel: a UUID is new when it is made; the list, and the pages of details, only in that
  they may be refused or found changed. The confirmation is never sent by two panels.
- Owner sessions (a cache in memory whose loss costs a sign-in) and the world, Greenfeed and
  DeFlock services (process-local snapshots, one refresh at a time, one job per timer): their
  state is read by nobody else, and their hazards are few and repaired by the next run.
- Everything PROJECT.json lists as not modelled, with its reason: stateless checks and
  proxies, read-only queries, rendering, floating-point statistics, deployment and
  vendored code.

Measured in lines this is most of the repository: a bundled globe library alone has over
18000 lines, the dashboards, proxies, parsers and SQL reads most of the rest. They keep no
state that two actors share, and a model of them would have one action.

Hazards no property covers, besides the one PROJECT.json lists with its reason: clocks of
two Function instances apart by more than a challenge lasts (`wardriver-sync-store.js:205`);
an invite's answer lost, whose invitation stays open until it lapses (`:139`); an orbit
worker stalled between its claim and its request (`world-orbit-service.mjs:16`); a receipt's
two clocks of different precision (`postgres-store.mjs:413`); an event file torn by a crash,
after which every tick fails at the append until somebody repairs it
(`mosaic-murmurs-paper-memory-loop.py:223`), and the events of a tick that died before its
append and was overtaken (`:802`); a batch sent again because the publisher died before
writing its receipt (`mosaic-murmurs-morning-brief-publish.py:354`); a late failure of an
abandoned load overwriting the panel's status line (`entity-workbench.mjs:124`); Greenfeed
cells replaced and their run recorded as failed (`greenfeed-worker.mjs:256`).

## 8. Running

In this directory: `tlc -config SyncPublish.cfg MCWardriverSync` and so on for each pair of
configuration and module in PROJECT.json (none needs more than five minutes), and
`tlapm WardriverSyncProofs.tla` for each proof module. An operator commented as a mutant is
a plausible bug of the definition that follows it; replacing the definition by it makes the
property PROJECT.json pairs it with fail.
