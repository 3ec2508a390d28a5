-------------------------- MODULE MorningBriefProofs --------------------------
(***************************************************************************)
(* Proofs about MorningBrief and the ticks beside it, for any keys, runs   *)
(* and batches, any maximal age and any bound on time.                     *)
(***************************************************************************)
EXTENDS MorningBrief, SequenceTheorems, TLAPS

\* A paper state that the tick k has made.
Whole(k, s) ==
  /\ s \in PaperStates /\ s.at <= clock
  /\ [key |-> k, at |-> s.at] \in s.ledger /\ s.recent \subseteq s.ledger
  /\ \A x \in s.ledger : x.at <= s.at

\* What a reader may see tells of the durable ledger, and of all of it up to its own time.
Current(s) ==
  /\ s \in PaperStates /\ s.at <= clock
  /\ s.ledger \subseteq ledger /\ s.recent \subseteq s.ledger
  /\ \A x \in s.ledger : x.at <= s.at
  /\ \A x \in ledger : x.at < s.at => x \in s.ledger

\* The paper states that are, or may yet be, in sight.
Seen ==
  {latest} \cup {r.state : r \in requests} \cup {db.updates[k] : k \in Keys}
  \cup (IF receipt = None THEN {} ELSE {receipt.state})

SeenCurrent == \A s \in Seen : s # None => Current(s)

JournalInv ==
  /\ \A x \in ledger : x.at <= clock
  /\ Journaled \subseteq ledger
  /\ \A i, j \in DOMAIN journal : journal[i] = journal[j] => i = j

ReplayInv == \A k \in Keys : replay[k] \in Record => Whole(k, replay[k].state)

\* Before its ledger is written a tick adds itself, later than all in sight, or nothing.
Pending ==
  job.step \in {"record", "ledger"} =>
    /\ job.key \in Keys /\ Whole(job.key, job.state) /\ job.ledger = job.state.ledger
    /\ \/ job.state.ledger = ledger
       \/ /\ job.state.ledger = ledger \cup {[key |-> job.key, at |-> job.state.at]}
          /\ \A s \in Seen : s # None => s.at <= job.state.at

Settled ==
  job.step \in {"append", "sync", "await", "receipt", "commit"} =>
    job.key \in Keys /\ Whole(job.key, job.state) /\ job.state.ledger = ledger

Recorded ==
  job.step \notin {"idle", "record"} => job.key \in Keys /\ replay[job.key] \in Record

ServedThere == db.current # None => db.updates[db.current] # None

Accepted(s) == \E k \in Keys : db.updates[k] = s

JobOk == job.ok => job.state \in PaperStates /\ Accepted(job.state)

TickInv ==
  /\ TickTypeOK /\ SeenCurrent /\ JournalInv /\ ReplayInv /\ Pending /\ Settled /\ Recorded
  /\ ServedThere /\ JobOk /\ ReceiptTrue

\* The publisher's part.
PubInv ==
  /\ pub.step = "fetch" => pub.run \in Runs /\ pub.state \in PaperStates
  /\ pub.step \in {"archive", "dispatch", "note"} =>
       pub.run \in Runs /\ pub.package \in Package /\ Accepted(pub.package.state)
  /\ pub.step \in {"dispatch", "note"} => archive[pub.run] = pub.package
  /\ pub.step = "note" => pub.batch \in Batches /\ Letter(pub.batch) \in sent

IInv == TypeOK /\ TickInv /\ PubInv /\ OnePackage

-----------------------------------------------------------------------------
LEMMA NoneIsNoState == None \notin Keys /\ None \notin PaperStates /\ None \notin Package
  BY PaperConstants

LEMMA JournalType ==
  ASSUME journal \in Seq(Tick)
  PROVE  Journaled \subseteq Tick
  BY DEF Journaled

\* The state a new tick makes.
LEMMA NewStateWhole ==
  ASSUME TickTypeOK, JournalInv, NEW k \in Keys
  PROVE  /\ Whole(k, NewState(k)) /\ NewState(k).at = clock
         /\ NewState(k).ledger = ledger \cup {[key |-> k, at |-> clock]}
<1> DEFINE tick == [key |-> k, at |-> clock]
<1>1. clock \in Nat /\ ledger \subseteq Tick /\ Journaled \subseteq Tick
  BY JournalType DEF TickTypeOK
<1>2. tick \in Tick /\ tick.at = clock
  BY <1>1 DEF Tick
<1>3. NewState(k) = [at |-> clock, ledger |-> ledger \cup {tick}, recent |-> Journaled \cup {tick}]
  BY DEF NewState
<1>4. NewState(k) \in PaperStates
  BY <1>1, <1>2, <1>3 DEF PaperStates
<1> QED BY <1>1, <1>2, <1>3, <1>4 DEF Whole, JournalInv

LEMMA ReplayedType ==
  ASSUME TickTypeOK, NEW k \in Keys, replay[k] # None
  PROVE  replay[k] \in Record /\ replay[k].state \in PaperStates
  BY DEF TickTypeOK, Record

LEMMA NoJobType == NoJob \in Job /\ NoJob.step = "idle" /\ NoJob.ok = FALSE
  BY DEF NoJob, Job, Steps

LEMMA Order ==
  /\ Following["record"] = "ledger" /\ Following["ledger"] = "append"
  /\ Following["append"] = "sync" /\ Following["sync"] = "await"
  /\ Following["await"] = "receipt" /\ Following["receipt"] = "commit"
  BY DEF Following

\* The job on its way to its next step.
LEMMA OnwardStep ==
  ASSUME job \in Job, Onward, job.step \in {"record", "ledger", "append", "sync", "await", "receipt"}
  PROVE  /\ job' \in Job /\ job'.step = Following[job.step] /\ job'.key = job.key
         /\ job'.state = job.state /\ job'.ledger = job.ledger
         /\ job'.ok = job.ok /\ job'.wake = job.wake
<1> PICK s : s = Following[job.step]
  OBVIOUS
<1>1. s \in Steps
  BY Order DEF Steps
<1>2. job' = [job EXCEPT !.step = s]
  BY DEF Onward, Job
<1> QED BY <1>1, <1>2 DEF Job

\* Serving a request keeps what the tables hold.
LEMMA PutKeeps ==
  ASSUME db \in Database, ServedThere, NEW k \in Keys, NEW s \in PaperStates,
         db' = PutPaperState(db, k, s)
  PROVE  /\ db' \in Database /\ ServedThere'
         /\ \A l \in Keys : db.updates[l] # None => db'.updates[l] = db.updates[l]
         /\ \A l \in Keys : db'.updates[l] \in {s, db.updates[l]}
         /\ Accepts(db, k, s) => db'.updates[k] = s
<1>1. CASE Fresh(db, k, s)
  <2>1. db' = [updates |-> [db.updates EXCEPT ![k] = s], current |-> k]
    BY <1>1 DEF PutPaperState, Store
  <2>2. db.updates \in [Keys -> {None} \cup PaperStates] /\ db.updates[k] = None
    BY <1>1 DEF Database, Fresh
  <2>3. db' \in Database
    BY <2>1, <2>2 DEF Database
  <2>4. db'.updates[k] = s /\ db'.current = k /\ s # None
    BY <2>1, <2>2, NoneIsNoState
  <2> QED BY <2>1, <2>2, <2>3, <2>4 DEF ServedThere
<1>2. CASE ~Fresh(db, k, s)
  BY <1>2 DEF PutPaperState, Accepts, Replayed, ServedThere
<1> QED BY <1>1, <1>2

\* Nothing comes into sight that was not there, but the state of a settled job.
LEMMA SeenUnchanged ==
  ASSUME UNCHANGED <<latest, requests, receipt, db>>
  PROVE  Seen' = Seen
  BY DEF Seen

LEMMA SettledCurrent ==
  ASSUME TickInv, job.step \in {"append", "sync", "await", "receipt", "commit"}
  PROVE  Current(job.state)
  BY DEF TickInv, Settled, Whole, Current

\* What is in sight stays current while ledger and clock do as a tick and time make them.
LEMMA CurrentKept ==
  ASSUME NEW s, Current(s), clock \in Nat, clock' \in Nat, clock' >= clock, ledger' = ledger
  PROVE  Current(s)'
<1>1. s.at \in Nat
  BY DEF Current, PaperStates
<1> QED BY <1>1 DEF Current

LEMMA WholeKept ==
  ASSUME NEW k, NEW s, Whole(k, s), clock \in Nat, clock' \in Nat, clock' >= clock
  PROVE  Whole(k, s)'
<1>1. s.at \in Nat
  BY DEF Whole, PaperStates
<1> QED BY <1>1 DEF Whole

\* Steps that touch neither the ledger, the clock, the journal nor what is in sight.
LEMMA QuietStep ==
  ASSUME TickInv, UNCHANGED <<clock, ledger, journal, latest, receipt, requests, db>>
  PROVE  SeenCurrent' /\ JournalInv' /\ ServedThere' /\ ReceiptTrue'
<1>1. Seen' = Seen
  BY SeenUnchanged
<1>2. SeenCurrent'
  BY <1>1 DEF TickInv, SeenCurrent, Current
<1> QED BY <1>2 DEF TickInv, JournalInv, ServedThere, ReceiptTrue, Journaled

LEMMA StepBegin ==
  ASSUME TickInv, NEW k \in Keys, NEW wake \in BOOLEAN, Begin(k, wake)
  PROVE  TickInv'
<1> USE DEF TickInv
<1>1. /\ job' = [step |-> "record", key |-> k, wake |-> wake, ledger |-> NewState(k).ledger,
                 state |-> NewState(k), ok |-> FALSE]
      /\ UNCHANGED <<clock, ledger, replay, journal, torn, latest, receipt, requests, db>>
  BY DEF Begin, files
<1>2. /\ Whole(k, NewState(k)) /\ NewState(k).at = clock
      /\ NewState(k).ledger = ledger \cup {[key |-> k, at |-> clock]}
  BY NewStateWhole
<1>3. NewState(k) \in PaperStates
  BY <1>2 DEF Whole
<1>4. TickTypeOK'
  <2>1. NewState(k).ledger \in SUBSET Tick
    BY <1>3 DEF PaperStates
  <2>2. job' \in Job
    BY <1>1, <1>3, <2>1 DEF Job, Steps
  <2> QED BY <1>1, <2>2 DEF TickTypeOK
<1>5. SeenCurrent' /\ JournalInv' /\ ServedThere' /\ ReceiptTrue'
  BY <1>1, QuietStep
<1>6. Pending'
  <2>1. Seen' = Seen
    BY <1>1, SeenUnchanged
  <2>2. Whole(k, NewState(k))'
    BY <1>1, <1>2 DEF Whole, NewState, Journaled
  <2>3. /\ job'.key = k /\ job'.state = NewState(k) /\ job'.ledger = NewState(k).ledger
    BY <1>1
  <2>4. \A s \in Seen : s # None => s.at <= clock
    BY DEF SeenCurrent, Current
  <2>5. /\ job'.key \in Keys /\ Whole(job.key, job.state)' /\ job'.ledger = job'.state.ledger
        /\ job'.state.ledger = ledger' \cup {[key |-> job'.key, at |-> job'.state.at]}
        /\ \A s \in Seen' : s # None => s.at <= job'.state.at
    BY <1>1, <1>2, <2>1, <2>3, <2>4 DEF Whole
  <2> QED BY <2>5 DEF Pending
<1>7. ReplayInv'
  BY <1>1 DEF ReplayInv, Whole
<1>8. Settled' /\ Recorded' /\ JobOk'
  BY <1>1 DEF Settled, Recorded, JobOk, Accepted
<1> QED BY <1>4, <1>5, <1>6, <1>7, <1>8

LEMMA StepBeginReplay ==
  ASSUME TickInv, NEW k \in Keys, NEW wake \in BOOLEAN, BeginReplay(k, wake)
  PROVE  TickInv'
<1> USE DEF TickInv
<1>1. /\ job' = [step |-> "ledger", key |-> k, wake |-> wake, ledger |-> ledger,
                 state |-> replay[k].state, ok |-> FALSE]
      /\ UNCHANGED <<clock, ledger, replay, journal, torn, latest, receipt, requests, db>>
      /\ replay[k] # None /\ replay[k].state.ledger = ledger
  BY Order DEF BeginReplay, files, Replayable
<1>2. /\ replay[k] \in Record /\ replay[k].state \in PaperStates /\ Whole(k, replay[k].state)
  BY <1>1, ReplayedType DEF ReplayInv
<1>3. TickTypeOK'
  <2>1. job' \in Job
    BY <1>1, <1>2 DEF Job, Steps, TickTypeOK
  <2> QED BY <1>1, <2>1 DEF TickTypeOK
<1>4. SeenCurrent' /\ JournalInv' /\ ServedThere' /\ ReceiptTrue'
  BY <1>1, QuietStep
<1>5. Pending' /\ Recorded'
  BY <1>1, <1>2 DEF Pending, Recorded, Whole
<1>6. ReplayInv'
  BY <1>1 DEF ReplayInv, Whole
<1>7. Settled' /\ JobOk'
  BY <1>1 DEF Settled, JobOk, Accepted
<1> QED BY <1>3, <1>4, <1>5, <1>6, <1>7

LEMMA StepWriteReplay ==
  ASSUME TickInv, WriteReplay
  PROVE  TickInv'
<1> USE DEF TickInv
<1> DEFINE entry == [state |-> job.state, committed |-> FALSE]
<1>1. /\ job.step = "record" /\ Onward
      /\ replay' = [replay EXCEPT ![job.key] = entry]
      /\ UNCHANGED <<clock, ledger, journal, torn, latest, receipt, requests, db>>
  BY DEF WriteReplay
<1>2. /\ job' \in Job /\ job'.step = "ledger" /\ job'.key = job.key /\ job'.state = job.state
      /\ job'.ledger = job.ledger /\ job'.ok = job.ok
  BY <1>1, OnwardStep, Order DEF TickTypeOK, Steps
<1>3. job.key \in Keys /\ Whole(job.key, job.state) /\ job.state \in PaperStates
  BY <1>1 DEF Pending, Whole
<1>4. entry \in Record /\ entry.state = job.state
  BY <1>3 DEF Record
<1>5. replay' \in [Keys -> {None} \cup Record] /\ replay'[job.key] = entry
  BY <1>1, <1>3, <1>4 DEF TickTypeOK
<1>6. TickTypeOK'
  BY <1>1, <1>2, <1>5 DEF TickTypeOK
<1>7. SeenCurrent' /\ JournalInv' /\ ServedThere' /\ ReceiptTrue'
  BY <1>1, QuietStep
<1>8. Pending' /\ Recorded'
  <2>1. Seen' = Seen
    BY <1>1, SeenUnchanged
  <2>2. Recorded'
    BY <1>2, <1>3, <1>4, <1>5 DEF Recorded
  <2> QED BY <1>1, <1>2, <2>1, <2>2 DEF Pending, Whole
<1>9. ReplayInv'
  <2> SUFFICES ASSUME NEW k \in Keys, replay'[k] \in Record PROVE Whole(k, replay[k].state)'
    BY DEF ReplayInv
  <2>1. CASE k = job.key
    BY <1>1, <1>3, <1>4, <1>5, <2>1 DEF Whole
  <2>2. CASE k # job.key
    <3>1. replay'[k] = replay[k]
      BY <1>1, <2>2 DEF TickTypeOK
    <3> QED BY <1>1, <3>1 DEF ReplayInv, Whole
  <2> QED BY <2>1, <2>2
<1>10. Settled' /\ JobOk'
  BY <1>1, <1>2 DEF Settled, JobOk, Accepted
<1> QED BY <1>6, <1>7, <1>8, <1>9, <1>10

LEMMA StepWriteLedger ==
  ASSUME TickInv, WriteLedger
  PROVE  TickInv'
<1> USE DEF TickInv
<1>1. /\ job.step = "ledger" /\ Onward /\ ledger' = job.state.ledger
      /\ UNCHANGED <<clock, replay, journal, torn, latest, receipt, requests, db>>
  BY DEF WriteLedger, Pending
<1>2. /\ job' \in Job /\ job'.step = "append" /\ job'.key = job.key /\ job'.state = job.state
      /\ job'.ok = job.ok
  BY <1>1, OnwardStep, Order DEF TickTypeOK, Steps
<1>3. job.key \in Keys /\ Whole(job.key, job.state) /\ job.state \in PaperStates
  BY <1>1 DEF Pending, Whole
<1>4. /\ clock \in Nat /\ job.state.at \in Nat /\ job.state.at <= clock
      /\ \A x \in job.state.ledger : x \in Tick /\ x.at <= job.state.at
  BY <1>3 DEF TickTypeOK, Whole, PaperStates
<1>5. ledger \subseteq ledger' /\ \A x \in ledger' : x \in Tick /\ x.at <= clock
  <2>1. ledger \subseteq ledger'
    BY <1>1 DEF Pending
  <2>2. \A x \in ledger' : x.at \in Nat
    BY <1>1, <1>4 DEF Tick
  <2> QED BY <1>1, <1>4, <2>1, <2>2
<1>6. TickTypeOK'
  BY <1>1, <1>2, <1>5 DEF TickTypeOK
<1>7. SeenCurrent'
  <2> SUFFICES ASSUME NEW s \in Seen, s # None PROVE Current(s)'
    BY <1>1, SeenUnchanged DEF SeenCurrent
  <2>1. Current(s) /\ s.at \in Nat
    BY DEF SeenCurrent, Current, PaperStates
  <2>2. ASSUME NEW x \in ledger', x.at < s.at PROVE x \in s.ledger
    <3>1. CASE x \in ledger
      BY <2>1, <2>2, <3>1 DEF Current
    <3>2. CASE x \notin ledger
      <4>1. x.at = job.state.at /\ s.at <= job.state.at
        BY <1>1, <3>2 DEF Pending
      <4> QED BY <1>4, <2>1, <2>2, <4>1
    <3> QED BY <3>1, <3>2
  <2> QED BY <1>1, <1>5, <2>1, <2>2 DEF Current
<1>8. JournalInv'
  BY <1>1, <1>5 DEF JournalInv, Journaled
<1>9. ReplayInv'
  BY <1>1 DEF ReplayInv, Whole
<1>10. Settled'
  BY <1>1, <1>2, <1>3 DEF Settled, Whole
<1>11. Pending' /\ Recorded' /\ JobOk' /\ ServedThere' /\ ReceiptTrue'
  BY <1>1, <1>2 DEF Pending, Recorded, JobOk, Accepted, ServedThere, ReceiptTrue
<1> QED BY <1>6, <1>7, <1>8, <1>9, <1>10, <1>11

\* A step that ends the job, whatever becomes of the journal and its last line.
LEMMA EndedJob ==
  ASSUME TickInv, job' = NoJob, torn' \in BOOLEAN,
         UNCHANGED <<clock, ledger, replay, journal, latest, receipt, requests, db>>
  PROVE  TickInv'
<1> USE DEF TickInv
<1>1. TickTypeOK'
  BY NoJobType DEF TickTypeOK
<1>2. SeenCurrent' /\ JournalInv' /\ ServedThere' /\ ReceiptTrue'
  BY QuietStep
<1>3. ReplayInv'
  BY DEF ReplayInv, Whole
<1>4. Pending' /\ Settled' /\ Recorded' /\ JobOk'
  BY NoJobType DEF Pending, Settled, Recorded, JobOk, Accepted
<1> QED BY <1>1, <1>2, <1>3, <1>4

\* A settled job that goes on to its next step, nothing else of the tick changing.
LEMMA JobMoves ==
  ASSUME TickInv, NEW s \in Steps \ {"idle", "record", "ledger"},
         job.step \in {"append", "sync", "await", "receipt", "commit"},
         job' \in Job, job'.step = s, job'.key = job.key, job'.state = job.state,
         UNCHANGED <<clock, ledger, replay>>
  PROVE  ReplayInv' /\ Pending' /\ Settled' /\ Recorded'
<1> USE DEF TickInv
<1>1. ReplayInv'
  BY DEF ReplayInv, Whole
<1>2. Settled' /\ Recorded'
  BY DEF Settled, Recorded, Whole
<1>3. Pending'
  BY DEF Pending
<1> QED BY <1>1, <1>2, <1>3

LEMMA StepAppendEvents ==
  ASSUME TickInv, AppendEvents
  PROVE  TickInv'
<1> USE DEF TickInv
<1> DEFINE tick == [key |-> job.key, at |-> job.state.at]
<1>1. /\ job.step = "append"
      /\ UNCHANGED <<clock, ledger, replay, torn, latest, receipt, requests, db>>
  BY DEF AppendEvents
<1>2. CASE job' = NoJob /\ UNCHANGED journal
  BY <1>1, <1>2, EndedJob DEF TickTypeOK
<1>3. CASE Onward /\ journal' = Appended(tick)
  <2>1. /\ job' \in Job /\ job'.step = "sync" /\ job'.key = job.key /\ job'.state = job.state
        /\ job'.ok = job.ok
    BY <1>1, <1>3, OnwardStep, Order DEF TickTypeOK, Steps
  <2>2. ReplayInv' /\ Pending' /\ Settled' /\ Recorded'
    BY <1>1, <2>1, JobMoves DEF Steps
  <2>3. tick \in ledger /\ tick \in Tick
    BY <1>1 DEF Settled, Whole, TickTypeOK
  <2>4. journal' \in Seq(Tick) /\ JournalInv'
    <3>1. CASE tick \in Journaled
      BY <1>1, <1>3, <3>1 DEF Appended, JournalInv, Journaled, TickTypeOK
    <3>2. CASE tick \notin Journaled
      <4> HIDE DEF tick
      <4>1. journal' = Append(journal, tick) /\ journal \in Seq(Tick)
        BY <1>3, <3>2 DEF Appended, TickTypeOK
      <4>2. /\ journal' \in Seq(Tick) /\ Len(journal) \in Nat
            /\ DOMAIN journal = 1 .. Len(journal) /\ DOMAIN journal' = 1 .. Len(journal) + 1
            /\ journal'[Len(journal) + 1] = tick
            /\ \A i \in 1 .. Len(journal) : journal'[i] = journal[i]
        BY <2>3, <4>1, AppendProperties
      <4>3. Journaled' = Journaled \cup {tick}
        BY <4>2 DEF Journaled
      <4>4. \A i, j \in DOMAIN journal' : journal'[i] = journal'[j] => i = j
        <5>1. \A i \in 1 .. Len(journal) : journal[i] # tick
          BY <3>2, <4>2 DEF Journaled
        <5> QED BY <4>2, <5>1 DEF JournalInv
      <4> QED BY <1>1, <2>3, <4>2, <4>3, <4>4 DEF JournalInv
    <3> QED BY <3>1, <3>2
  <2>5. TickTypeOK'
    BY <1>1, <2>1, <2>4 DEF TickTypeOK
  <2>6. SeenCurrent'
    BY <1>1, SeenUnchanged DEF SeenCurrent, Current
  <2>7. ServedThere' /\ ReceiptTrue' /\ JobOk'
    BY <1>1, <2>1 DEF ServedThere, ReceiptTrue, JobOk, Accepted
  <2> QED BY <2>2, <2>4, <2>5, <2>6, <2>7
<1> QED BY <1>2, <1>3 DEF AppendEvents

LEMMA StepSync ==
  ASSUME TickInv, Sync
  PROVE  TickInv'
<1> USE DEF TickInv
<1> DEFINE r == [key |-> job.key, state |-> job.state]
<1>1. /\ job.step = "sync" /\ Onward /\ latest' = job.state
      /\ requests' = requests \cup {r}
      /\ UNCHANGED <<clock, ledger, replay, journal, torn, receipt, db>>
  BY DEF Sync
<1>2. /\ job' \in Job /\ job'.step = "await" /\ job'.key = job.key /\ job'.state = job.state
      /\ job'.ok = job.ok
  BY <1>1, OnwardStep, Order DEF TickTypeOK, Steps
<1>3. ReplayInv' /\ Pending' /\ Settled' /\ Recorded'
  BY <1>1, <1>2, JobMoves DEF Steps
<1>4. Current(job.state) /\ job.state \in PaperStates /\ job.key \in Keys
  BY <1>1, SettledCurrent DEF Current, Settled
<1>5. TickTypeOK'
  BY <1>1, <1>2, <1>4 DEF TickTypeOK, Request
<1>6. SeenCurrent'
  <2>1. Seen' \subseteq Seen \cup {job.state}
    BY <1>1 DEF Seen
  <2> QED BY <1>1, <1>4, <2>1 DEF SeenCurrent, Current
<1>7. JournalInv' /\ ServedThere' /\ ReceiptTrue' /\ JobOk'
  BY <1>1, <1>2 DEF JournalInv, Journaled, ServedThere, ReceiptTrue, JobOk, Accepted
<1> QED BY <1>3, <1>5, <1>6, <1>7

\* Once there, an update stays.
UpdatesKept == \A k \in Keys : db.updates[k] # None => db'.updates[k] = db.updates[k]

LEMMA AcceptedKept ==
  ASSUME UpdatesKept, NEW s \in PaperStates, Accepted(s)
  PROVE  Accepted(s)'
  BY NoneIsNoState DEF UpdatesKept, Accepted

LEMMA HandledType ==
  ASSUME TickInv, NEW r, Handle(r)
  PROVE  /\ r \in Request /\ r.key \in Keys /\ r.state \in PaperStates
         /\ Current(r.state) /\ UpdatesKept /\ db' \in Database /\ ServedThere'
         /\ \A l \in Keys : db'.updates[l] \in {r.state, db.updates[l]}
         /\ Accepts(db, r.key, r.state) => db'.updates[r.key] = r.state
<1> USE DEF TickInv
<1>1. r \in requests /\ db' = PutPaperState(db, r.key, r.state)
  BY DEF Handle
<1>2. r \in Request /\ r.key \in Keys /\ r.state \in PaperStates
  BY <1>1 DEF TickTypeOK, Request
<1>3. Current(r.state)
  BY <1>1, <1>2, NoneIsNoState DEF SeenCurrent, Seen
<1> QED BY <1>1, <1>2, <1>3, PutKeeps DEF UpdatesKept, TickTypeOK

LEMMA StepHandle ==
  ASSUME TickInv, NEW r, Handle(r)
  PROVE  TickInv'
<1> USE DEF TickInv
<1>1. /\ r \in requests /\ requests' = requests \ {r}
      /\ UNCHANGED <<clock, ledger, replay, journal, torn, latest, receipt>>
      /\ \/ /\ Awaited(r)
            /\ job' = [job EXCEPT !.step = "receipt", !.ok = Accepts(db, r.key, r.state)]
         \/ UNCHANGED job
  <2>1. job \in Job /\ (Awaited(r) => job.step = "await")
    BY DEF TickTypeOK, Awaited
  <2>2. Awaited(r) => [job EXCEPT !.step = Following[@], !.ok = Accepts(db, r.key, r.state)]
                      = [job EXCEPT !.step = "receipt", !.ok = Accepts(db, r.key, r.state)]
    BY <2>1, Order DEF Job
  <2> QED BY <2>2 DEF Handle, files
<1>2. /\ r \in Request /\ r.key \in Keys /\ r.state \in PaperStates
      /\ Current(r.state) /\ UpdatesKept /\ db' \in Database /\ ServedThere'
      /\ \A l \in Keys : db'.updates[l] \in {r.state, db.updates[l]}
      /\ Accepts(db, r.key, r.state) => db'.updates[r.key] = r.state
  BY HandledType
<1>3. Accepts(db, r.key, r.state) \in BOOLEAN
  BY DEF Accepts, Replayed, Fresh
<1>4. /\ job' \in Job /\ job'.key = job.key /\ job'.state = job.state
      /\ \/ job' = job
         \/ /\ job.step = "await" /\ job'.step = "receipt"
            /\ job'.ok => job.state \in PaperStates /\ \E k \in Keys : db'.updates[k] = job.state
  <2>1. CASE UNCHANGED job
    BY <2>1 DEF TickTypeOK
  <2>2. CASE Awaited(r) /\ job' = [job EXCEPT !.step = "receipt", !.ok = Accepts(db, r.key, r.state)]
    <3> DEFINE ok == Accepts(db, r.key, r.state)
    <3>1. job.step = "await" /\ r.state = job.state /\ ok \in BOOLEAN /\ job \in Job
      BY <1>3, <2>2 DEF Awaited, TickTypeOK
    <3>2. ok => \E k \in Keys : db'.updates[k] = job.state
      BY <1>2, <3>1
    <3> HIDE DEF ok
    <3>3. job' = [job EXCEPT !.step = "receipt", !.ok = ok]
      BY <2>2 DEF ok
    <3>4. job'.ok = ok /\ job'.step = "receipt" /\ job'.key = job.key /\ job'.state = job.state
      BY <3>1, <3>3 DEF Job
    <3>5. job' \in Job
      BY <3>1, <3>3 DEF Job, Steps
    <3> QED BY <1>2, <3>1, <3>2, <3>4, <3>5
  <2> QED BY <1>1, <2>1, <2>2
<1>5. TickTypeOK'
  BY <1>1, <1>2, <1>4 DEF TickTypeOK
<1>6. Seen' \subseteq Seen
  BY <1>1, <1>2 DEF Seen
<1>7. SeenCurrent' /\ JournalInv' /\ ReplayInv'
  BY <1>1, <1>6 DEF SeenCurrent, Current, JournalInv, Journaled, ReplayInv, Whole
<1>8. Pending'
  BY <1>1, <1>4, <1>6 DEF Pending, Whole
<1>9. Settled' /\ Recorded'
  BY <1>1, <1>4 DEF Settled, Recorded, Whole
<1>10. JobOk'
  <2>1. CASE job' = job
    BY <1>2, <2>1, AcceptedKept DEF JobOk, Accepted
  <2>2. CASE job'.ok => job.state \in PaperStates /\ \E k \in Keys : db'.updates[k] = job.state
    BY <1>4, <2>2 DEF JobOk, Accepted
  <2> QED BY <1>4, <2>1, <2>2
<1>11. ReceiptTrue'
  BY <1>1, <1>2, NoneIsNoState DEF ReceiptTrue, TickTypeOK, Receipt, UpdatesKept
<1> QED BY <1>2, <1>5, <1>7, <1>8, <1>9, <1>10, <1>11

LEMMA StepLose ==
  ASSUME TickInv, NEW r, Lose(r)
  PROVE  TickInv'
<1> USE DEF TickInv
<1>1. /\ requests' = requests \ {r}
      /\ UNCHANGED <<clock, ledger, replay, journal, torn, latest, receipt, job, db>>
  BY DEF Lose, files
<1>2. Seen' \subseteq Seen
  BY <1>1 DEF Seen
<1>3. TickTypeOK'
  BY <1>1 DEF TickTypeOK
<1>4. SeenCurrent' /\ JournalInv' /\ ReplayInv'
  BY <1>1, <1>2 DEF SeenCurrent, Current, JournalInv, Journaled, ReplayInv, Whole
<1>5. Pending' /\ Settled' /\ Recorded'
  BY <1>1, <1>2 DEF Pending, Settled, Recorded, Whole
<1>6. ServedThere' /\ JobOk' /\ ReceiptTrue'
  BY <1>1 DEF ServedThere, JobOk, Accepted, ReceiptTrue
<1> QED BY <1>3, <1>4, <1>5, <1>6

LEMMA StepGiveUp ==
  ASSUME TickInv, GiveUp
  PROVE  TickInv'
<1> USE DEF TickInv
<1>1. /\ job.step = "await" /\ Onward
      /\ UNCHANGED <<clock, ledger, replay, journal, torn, latest, receipt, requests, db>>
  BY DEF GiveUp, files
<1>2. /\ job' \in Job /\ job'.step = "receipt" /\ job'.key = job.key /\ job'.state = job.state
      /\ job'.ok = job.ok
  BY <1>1, OnwardStep, Order DEF TickTypeOK, Steps
<1>3. ReplayInv' /\ Pending' /\ Settled' /\ Recorded'
  BY <1>1, <1>2, JobMoves DEF Steps
<1>4. SeenCurrent' /\ JournalInv' /\ ServedThere' /\ ReceiptTrue'
  BY <1>1, QuietStep
<1>5. TickTypeOK' /\ JobOk'
  BY <1>1, <1>2 DEF TickTypeOK, JobOk, Accepted
<1> QED BY <1>3, <1>4, <1>5

LEMMA StepWriteReceipt ==
  ASSUME TickInv, WriteReceipt
  PROVE  TickInv'
<1> USE DEF TickInv
<1> DEFINE entry == [ok |-> job.ok, state |-> job.state]
<1>1. /\ job.step = "receipt" /\ Onward
      /\ receipt' = IF job.wake THEN entry ELSE receipt
      /\ UNCHANGED <<clock, ledger, replay, journal, torn, latest, requests, db>>
  BY DEF WriteReceipt, SyncOk
<1>2. /\ job' \in Job /\ job'.step = "commit" /\ job'.key = job.key /\ job'.state = job.state
      /\ job'.ok = job.ok
  BY <1>1, OnwardStep, Order DEF TickTypeOK, Steps
<1>3. ReplayInv' /\ Pending' /\ Settled' /\ Recorded'
  BY <1>1, <1>2, JobMoves DEF Steps
<1>4. Current(job.state) /\ job.state \in PaperStates
  BY <1>1, SettledCurrent DEF Current
<1>5. entry \in Receipt /\ entry.state = job.state /\ entry.ok = job.ok
  BY <1>4 DEF TickTypeOK, Job, Receipt
<1> HIDE DEF entry
<1>6. TickTypeOK'
  BY <1>1, <1>2, <1>5 DEF TickTypeOK
<1>7. SeenCurrent'
  <2>1. Seen' \subseteq Seen \cup {job.state}
    BY <1>1, <1>5 DEF Seen
  <2> QED BY <1>1, <1>4, <2>1 DEF SeenCurrent, Current
<1>8. JournalInv' /\ ServedThere' /\ JobOk'
  BY <1>1, <1>2 DEF JournalInv, Journaled, ServedThere, JobOk, Accepted
<1>9. ReceiptTrue'
  <2>1. CASE job.wake
    BY <1>1, <1>5, <2>1 DEF ReceiptTrue, JobOk, Accepted
  <2>2. CASE ~job.wake
    BY <1>1, <2>2 DEF ReceiptTrue
  <2> QED BY <2>1, <2>2
<1> QED BY <1>3, <1>6, <1>7, <1>8, <1>9

LEMMA StepCommit ==
  ASSUME TickInv, Commit
  PROVE  TickInv'
<1> USE DEF TickInv
<1> DEFINE k == job.key
           entry == [replay[k] EXCEPT !.committed = TRUE]
<1>1. /\ job.step = "commit" /\ job' = NoJob
      /\ replay' = [replay EXCEPT ![k] = entry]
      /\ UNCHANGED <<clock, ledger, journal, torn, latest, receipt, requests, db>>
  BY DEF Commit
<1>2. k \in Keys /\ replay[k] \in Record
  BY <1>1 DEF Recorded
<1>3. entry \in Record /\ entry.state = replay[k].state
  BY <1>2 DEF Record
<1> HIDE DEF entry
<1>4. TickTypeOK'
  BY <1>1, <1>2, <1>3, NoJobType DEF TickTypeOK
<1>5. SeenCurrent' /\ JournalInv' /\ ServedThere' /\ ReceiptTrue'
  BY <1>1, QuietStep
<1>6. ReplayInv'
  <2> SUFFICES ASSUME NEW l \in Keys, replay'[l] \in Record PROVE Whole(l, replay[l].state)'
    BY DEF ReplayInv
  <2>1. CASE l # k
    <3>1. replay'[l] = replay[l]
      BY <1>1, <2>1 DEF TickTypeOK
    <3> QED BY <1>1, <3>1 DEF ReplayInv, Whole
  <2>2. CASE l = k
    <3>1. replay'[l].state = replay[l].state
      BY <1>1, <1>2, <1>3, <2>2 DEF TickTypeOK
    <3>2. Whole(l, replay[l].state)
      BY <1>2, <2>2 DEF ReplayInv
    <3> QED BY <1>1, <3>1, <3>2 DEF Whole
  <2> QED BY <2>1, <2>2
<1>7. Pending' /\ Settled' /\ Recorded' /\ JobOk'
  BY <1>1, NoJobType DEF Pending, Settled, Recorded, JobOk
<1> QED BY <1>4, <1>5, <1>6, <1>7

LEMMA StepCrash ==
  ASSUME TickInv, Crash
  PROVE  TickInv'
<1>1. torn' \in BOOLEAN
  BY DEF Crash, TickInv, TickTypeOK
<1> QED BY <1>1, EndedJob DEF Crash

LEMMA StepSecond ==
  ASSUME TickInv, Second
  PROVE  TickInv'
<1> USE DEF TickInv
<1>1. /\ clock' = clock + 1 /\ clock \in Nat
      /\ UNCHANGED <<ledger, replay, journal, torn, latest, receipt, job, requests, db>>
  BY DEF Second, files, TickTypeOK
<1>2. clock' \in Nat /\ clock' >= clock
  BY <1>1
<1>3. TickTypeOK'
  BY <1>1, <1>2 DEF TickTypeOK
<1>4. Seen' = Seen
  BY <1>1, SeenUnchanged
<1>5. SeenCurrent'
  BY <1>1, <1>2, <1>4, CurrentKept DEF SeenCurrent
<1>6. JournalInv'
  <2>1. \A x \in ledger : x.at \in Nat
    BY DEF TickTypeOK, Tick
  <2> QED BY <1>1, <2>1 DEF JournalInv, Journaled
<1>7. ReplayInv'
  BY <1>1, <1>2, WholeKept DEF ReplayInv, Whole
<1>8. Pending' /\ Settled' /\ Recorded'
  BY <1>1, <1>4, <1>2 DEF Pending, Settled, Recorded, Whole, PaperStates
<1>9. ServedThere' /\ JobOk' /\ ReceiptTrue'
  BY <1>1 DEF ServedThere, JobOk, Accepted, ReceiptTrue
<1> QED BY <1>3, <1>5, <1>6, <1>7, <1>8, <1>9

LEMMA TickInvInit == TickInit => TickInv
<1> SUFFICES ASSUME TickInit PROVE TickInv
  OBVIOUS
<1> USE DEF TickInit
<1>1. \A k \in Keys : db.updates[k] = None /\ replay[k] = None
  BY DEF EmptyDatabase
<1>2. journal = <<>> /\ journal \in Seq(Tick) /\ DOMAIN journal = {} /\ Journaled = {}
  <2>1. journal = <<>> /\ journal \in Seq(Tick) /\ Len(journal) = 0
    OBVIOUS
  <2>2. DOMAIN journal = {}
    BY <2>1
  <2> QED BY <2>1, <2>2 DEF Journaled
<1>3. TickTypeOK
  BY <1>2, NoJobType DEF TickTypeOK, EmptyDatabase, Database
<1>4. SeenCurrent
  BY <1>1 DEF SeenCurrent, Seen
<1>5. JournalInv
  BY <1>2 DEF JournalInv
<1>6. ReplayInv
  BY <1>1, TickConstants DEF ReplayInv
<1>7. Pending /\ Settled /\ Recorded /\ ServedThere /\ JobOk /\ ReceiptTrue
  BY NoJobType DEF Pending, Settled, Recorded, ServedThere, JobOk, ReceiptTrue, EmptyDatabase
<1> QED BY <1>3, <1>4, <1>5, <1>6, <1>7 DEF TickInv

LEMMA TickInvStep == TickInv /\ TickNext => TickInv'
<1> SUFFICES ASSUME TickInv, TickNext PROVE TickInv'
  OBVIOUS
<1>1. CASE \E k \in Keys, wake \in BOOLEAN : Begin(k, wake) \/ BeginReplay(k, wake)
  BY <1>1, StepBegin, StepBeginReplay
<1>2. CASE WriteReplay
  BY <1>2, StepWriteReplay
<1>3. CASE WriteLedger
  BY <1>3, StepWriteLedger
<1>4. CASE AppendEvents
  BY <1>4, StepAppendEvents
<1>5. CASE Sync
  BY <1>5, StepSync
<1>6. CASE GiveUp
  BY <1>6, StepGiveUp
<1>7. CASE WriteReceipt
  BY <1>7, StepWriteReceipt
<1>8. CASE Commit
  BY <1>8, StepCommit
<1>9. CASE \E r \in requests : Handle(r) \/ Lose(r)
  BY <1>9, StepHandle, StepLose
<1>10. CASE Crash
  BY <1>10, StepCrash
<1>11. CASE Second
  BY <1>11, StepSecond
<1> QED
  BY <1>1, <1>2, <1>3, <1>4, <1>5, <1>6, <1>7, <1>8, <1>9, <1>10, <1>11 DEF TickNext

\* What has come to the API stays.
LEMMA UpdatesKeptByTick == TickInv /\ TickNext => UpdatesKept
<1> SUFFICES ASSUME TickInv, TickNext PROVE UpdatesKept
  OBVIOUS
<1>1. CASE UNCHANGED db
  BY <1>1 DEF UpdatesKept
<1>2. ASSUME NEW r \in requests, Handle(r) PROVE UpdatesKept
  BY <1>2, HandledType
<1>3. UNCHANGED db \/ \E r \in requests : Handle(r)
  BY DEF TickNext, Begin, BeginReplay, WriteReplay, WriteLedger, AppendEvents, Sync, GiveUp,
         WriteReceipt, Commit, Lose, Crash, Second
<1> QED BY <1>1, <1>2, <1>3

-----------------------------------------------------------------------------
(* The publisher *)

LEMMA NoPubType == NoPub \in Publisher /\ NoPub.step = "idle"
  BY DEF NoPub, Publisher, PubSteps

\* The ticks leave what the publisher relies on.
LEMMA PubBesideTick ==
  ASSUME IInv, TickNext, UNCHANGED briefVars
  PROVE  IInv'
<1> USE DEF IInv
<1>1. TickInv' /\ UpdatesKept
  BY TickInvStep, UpdatesKeptByTick
<1>2. UNCHANGED <<pub, archive, sent, delivered, refused>>
  BY DEF briefVars
<1>3. TypeOK'
  BY <1>1, <1>2 DEF TickInv, TypeOK
<1>4. \A p \in Package : p.state \in PaperStates
  BY DEF Package
<1>5. \A s \in PaperStates : Accepted(s) => Accepted(s)'
  BY <1>1, AcceptedKept
<1>6. PubInv'
  BY <1>2, <1>4, <1>5 DEF PubInv, Letter, Accepted
<1>7. OnePackage'
  <2>1. \A m \in sent : m.package \in Package
    BY DEF TypeOK, Message
  <2> QED BY <1>2, <1>4, <1>5, <2>1 DEF OnePackage, Accepted
<1> QED BY <1>1, <1>3, <1>6, <1>7

\* A step of the publisher leaves everything of the ticks.
LEMMA TickBesidePub ==
  ASSUME TickInv, UNCHANGED tickVars
  PROVE  TickInv'
<1> USE DEF TickInv, tickVars
<1>1. SeenCurrent' /\ JournalInv' /\ ServedThere' /\ ReceiptTrue'
  BY QuietStep
<1>2. Seen' = Seen
  BY SeenUnchanged
<1>3. ReplayInv' /\ Pending' /\ Settled' /\ Recorded' /\ JobOk'
  BY <1>2 DEF ReplayInv, Pending, Settled, Recorded, JobOk, Accepted, Whole
<1>4. TickTypeOK'
  BY DEF TickTypeOK
<1> QED BY <1>1, <1>3, <1>4

LEMMA StepPubStart ==
  ASSUME IInv, NEW r \in Runs, PubStart(r)
  PROVE  TypeOK' /\ PubInv' /\ OnePackage'
<1>1. /\ receipt # None
      /\ pub' = [NoPub EXCEPT !.step = "fetch", !.run = r, !.state = receipt.state]
      /\ UNCHANGED <<tickVars, archive, sent, delivered, refused>>
  BY DEF PubStart
<1>2. receipt.state \in PaperStates
  BY <1>1 DEF IInv, TypeOK, TickTypeOK, Receipt
<1>3. pub' = [step |-> "fetch", run |-> r, state |-> receipt.state, package |-> None, batch |-> None]
  BY <1>1 DEF NoPub
<1>4. pub' \in Publisher
  BY <1>2, <1>3 DEF Publisher, PubSteps
<1>5. TypeOK'
  BY <1>1, <1>4 DEF IInv, TypeOK, TickTypeOK, tickVars
<1>6. PubInv'
  BY <1>2, <1>3 DEF PubInv
<1>7. OnePackage'
  BY <1>1 DEF IInv, OnePackage, tickVars
<1> QED BY <1>5, <1>6, <1>7

LEMMA StepPubRender ==
  ASSUME IInv, PubRender
  PROVE  TypeOK' /\ PubInv' /\ OnePackage'
<1> DEFINE p == [state |-> pub.state, validated |-> clock]
<1>1. /\ pub.step = "fetch" /\ Served(db) = pub.state
      /\ pub' = [pub EXCEPT !.step = "archive", !.package = p]
      /\ UNCHANGED <<tickVars, archive, sent, delivered, refused>>
  BY DEF PubRender
<1>2. pub.run \in Runs /\ pub.state \in PaperStates
  BY <1>1 DEF IInv, PubInv
<1>3. p \in Package /\ p.state = pub.state
  BY <1>2 DEF IInv, TypeOK, TickTypeOK, Package
<1>4. Accepted(p.state)
  <2>1. db.current # None /\ db.current \in Keys /\ db.updates[db.current] = pub.state
    BY <1>1, <1>2, NoneIsNoState DEF Served, IInv, TypeOK, TickTypeOK, Database
  <2> QED BY <1>3, <2>1 DEF Accepted
<1> HIDE DEF p
<1>5. /\ pub' \in Publisher /\ pub'.step = "archive" /\ pub'.package = p /\ pub'.run = pub.run
  BY <1>1, <1>3 DEF IInv, TypeOK, Publisher, PubSteps
<1>6. TypeOK'
  BY <1>1, <1>5 DEF IInv, TypeOK, TickTypeOK, tickVars
<1>7. PubInv'
  BY <1>1, <1>2, <1>3, <1>4, <1>5 DEF PubInv, Accepted, tickVars
<1>8. OnePackage'
  BY <1>1 DEF IInv, OnePackage, tickVars
<1> QED BY <1>6, <1>7, <1>8

LEMMA StepPubArchive ==
  ASSUME IInv, PubArchive
  PROVE  TypeOK' /\ PubInv' /\ OnePackage'
<1> DEFINE r == pub.run
           p == pub.package
<1>1. pub.step = "archive" /\ UNCHANGED <<tickVars, sent, delivered>>
  BY DEF PubArchive
<1>2. r \in Runs /\ p \in Package /\ Accepted(p.state) /\ p # None
  BY <1>1, NoneIsNoState DEF IInv, PubInv
<1>3. CASE /\ ArchiveAccepts(archive, r, p)
           /\ archive' = [archive EXCEPT ![r] = p]
           /\ pub' = [pub EXCEPT !.step = "dispatch"] /\ UNCHANGED refused
  <2>1. /\ pub' \in Publisher /\ pub'.step = "dispatch" /\ pub'.run = r /\ pub'.package = p
    BY <1>3 DEF IInv, TypeOK, Publisher, PubSteps
  <2>2. archive' \in [Runs -> {None} \cup Package] /\ archive'[r] = p
    BY <1>2, <1>3 DEF IInv, TypeOK
  <2>3. TypeOK'
    BY <1>1, <1>3, <2>1, <2>2 DEF IInv, TypeOK, TickTypeOK, tickVars
  <2>4. PubInv'
    BY <1>1, <1>2, <2>1, <2>2 DEF PubInv, Accepted, tickVars
  <2>5. \A m \in sent : m.package = archive[m.run] => archive'[m.run] = archive[m.run]
    <3> SUFFICES ASSUME NEW m \in sent, m.package = archive[m.run], m.run = r
                 PROVE  archive'[m.run] = archive[m.run]
      BY <1>3 DEF IInv, TypeOK, Message
    <3>1. archive[r] # None
      BY NoneIsNoState DEF IInv, TypeOK, Message
    <3> QED BY <1>3, <2>2, <3>1 DEF ArchiveAccepts
  <2>6. OnePackage'
    BY <1>1, <2>5 DEF IInv, OnePackage, tickVars
  <2> QED BY <2>3, <2>4, <2>6
<1>4. CASE /\ refused' = refused \cup {[run |-> r, package |-> p]}
           /\ pub' = NoPub /\ UNCHANGED archive
  <2>1. TypeOK'
    BY <1>1, <1>2, <1>4, NoPubType DEF IInv, TypeOK, TickTypeOK, tickVars
  <2>2. PubInv' /\ OnePackage'
    BY <1>1, <1>4, NoPubType DEF IInv, PubInv, OnePackage, tickVars
  <2> QED BY <2>1, <2>2
<1> QED BY <1>3, <1>4 DEF PubArchive

LEMMA StepPubSend ==
  ASSUME IInv, NEW b \in Batches, PubSend(b)
  PROVE  TypeOK' /\ PubInv' /\ OnePackage'
<1>1. /\ pub.step = "dispatch" /\ sent' = sent \cup {Letter(b)}
      /\ pub' = [pub EXCEPT !.step = "note", !.batch = b]
      /\ UNCHANGED <<tickVars, archive, delivered, refused>>
  BY DEF PubSend
<1>2. /\ pub.run \in Runs /\ pub.package \in Package /\ Accepted(pub.package.state)
      /\ archive[pub.run] = pub.package
  BY <1>1 DEF IInv, PubInv
<1>3. /\ pub' \in Publisher /\ pub'.step = "note" /\ pub'.run = pub.run
      /\ pub'.package = pub.package /\ pub'.batch = b
  BY <1>1 DEF IInv, TypeOK, Publisher, PubSteps
<1>4. Letter(b) \in Message /\ Letter(b).run = pub.run /\ Letter(b).package = pub.package
  BY <1>2 DEF Letter, Message
<1>5. TypeOK'
  BY <1>1, <1>3, <1>4 DEF IInv, TypeOK, TickTypeOK, tickVars
<1>6. PubInv'
  BY <1>1, <1>2, <1>3 DEF PubInv, Accepted, tickVars, Letter
<1>7. OnePackage'
  BY <1>1, <1>2, <1>4 DEF IInv, OnePackage, Accepted, tickVars
<1> QED BY <1>5, <1>6, <1>7

LEMMA StepPubNote ==
  ASSUME IInv, PubNote
  PROVE  TypeOK' /\ PubInv' /\ OnePackage'
<1>1. /\ pub.step = "note" /\ delivered' = delivered \cup {Letter(pub.batch)}
      /\ pub' = [pub EXCEPT !.step = "dispatch", !.batch = None]
      /\ UNCHANGED <<tickVars, archive, sent, refused>>
  BY DEF PubNote
<1>2. Letter(pub.batch) \in sent
  BY <1>1 DEF IInv, PubInv
<1>3. /\ pub' \in Publisher /\ pub'.step = "dispatch" /\ pub'.run = pub.run
      /\ pub'.package = pub.package
  BY <1>1 DEF IInv, TypeOK, Publisher, PubSteps
<1>4. TypeOK'
  BY <1>1, <1>2, <1>3 DEF IInv, TypeOK, TickTypeOK, tickVars
<1>5. PubInv'
  BY <1>1, <1>3 DEF IInv, PubInv, Accepted, tickVars
<1>6. OnePackage'
  BY <1>1, <1>2 DEF IInv, OnePackage, tickVars
<1> QED BY <1>4, <1>5, <1>6

\* The publisher has done, or has stopped.
LEMMA StepPubEnd ==
  ASSUME IInv, PubDone \/ PubStop
  PROVE  TypeOK' /\ PubInv' /\ OnePackage'
<1>1. pub' = NoPub /\ UNCHANGED <<tickVars, archive, sent, delivered, refused>>
  BY DEF PubDone, PubStop
<1>2. TypeOK'
  BY <1>1, NoPubType DEF IInv, TypeOK, TickTypeOK, tickVars
<1>3. PubInv' /\ OnePackage'
  BY <1>1, NoPubType DEF IInv, PubInv, OnePackage, tickVars
<1> QED BY <1>2, <1>3

LEMMA IInvInit == Init => IInv
<1> SUFFICES ASSUME Init PROVE IInv
  OBVIOUS
<1>1. TickInv
  BY TickInvInit DEF Init
<1>2. TypeOK
  BY <1>1, NoPubType DEF Init, TypeOK, TickInv
<1>3. PubInv /\ OnePackage
  BY NoPubType DEF Init, PubInv, OnePackage
<1> QED BY <1>1, <1>2, <1>3 DEF IInv

LEMMA IInvStep == IInv /\ [Next]_vars => IInv'
<1> SUFFICES ASSUME IInv, [Next]_vars PROVE IInv'
  OBVIOUS
<1>1. CASE TickNext /\ UNCHANGED briefVars
  BY <1>1, PubBesideTick
<1>2. CASE PubNext
  <2>1. UNCHANGED tickVars
    BY <1>2 DEF PubNext, PubStart, PubRender, PubArchive, PubSend, PubNote, PubDone, PubStop
  <2>2. TypeOK' /\ PubInv' /\ OnePackage'
    BY <1>2, StepPubStart, StepPubRender, StepPubArchive, StepPubSend, StepPubNote, StepPubEnd
       DEF PubNext
  <2> QED BY <2>1, <2>2, TickBesidePub DEF IInv
<1>3. CASE UNCHANGED vars
  <2>1. UNCHANGED tickVars /\ UNCHANGED <<pub, archive, sent, delivered, refused>>
    BY <1>3 DEF vars, briefVars
  <2>2. TickInv'
    BY <2>1, TickBesidePub DEF IInv
  <2>3. TypeOK'
    BY <2>1, <2>2 DEF IInv, TickInv, TypeOK
  <2>4. PubInv' /\ OnePackage'
    BY <2>1 DEF IInv, PubInv, OnePackage, Accepted, Letter, tickVars
  <2> QED BY <2>2, <2>3, <2>4 DEF IInv
<1> QED BY <1>1, <1>2, <1>3 DEF Next

LEMMA Inductive == Spec => []IInv
  BY IInvInit, IInvStep, PTL DEF Spec

\* The variables keep their types, of the ticks and of the publisher.
THEOREM TypeCorrect == Spec => []TypeOK
  BY Inductive, PTL DEF IInv

LEMMA NoPhantomHolds == IInv => NoPhantom
<1> SUFFICES ASSUME IInv PROVE NoPhantom
  OBVIOUS
<1> USE DEF IInv, TickInv
<1>1. \A s \in Seen : s # None => s.ledger \subseteq ledger /\ s.recent \subseteq ledger
  BY DEF SeenCurrent, Current
<1>2. latest \in Seen
  BY DEF Seen
<1>3. Served(db) # None => Served(db) \in Seen
  BY DEF Served, Seen, TickTypeOK, Database
<1>4. receipt # None => receipt.state \in Seen /\ receipt.state # None
  BY NoneIsNoState DEF Seen, TickTypeOK, Receipt
<1> QED BY <1>1, <1>2, <1>3, <1>4 DEF NoPhantom, JournalInv

\* Whatever dies, is lost or is repeated: no file and no answer of the API tells of a tick
\* the durable ledger does not have.
THEOREM NothingInvented == Spec => []NoPhantom
  BY Inductive, NoPhantomHolds, PTL

LEMMA LatestGrowsStep ==
  ASSUME IInv, [Next]_vars, latest # None
  PROVE  latest.ledger \subseteq latest'.ledger
<1> USE DEF IInv, TickInv
<1>1. CASE UNCHANGED latest
  BY <1>1
<1>2. CASE Sync
  <2>1. job.step = "sync" /\ latest' = job.state
    BY <1>2 DEF Sync
  <2>2. job.state.ledger = ledger
    BY <2>1 DEF Settled
  <2>3. Current(latest)
    BY DEF SeenCurrent, Seen
  <2> QED BY <2>1, <2>2, <2>3 DEF Current
<1>3. UNCHANGED latest \/ Sync
  BY DEF Next, TickNext, Begin, BeginReplay, WriteReplay, WriteLedger, AppendEvents, GiveUp, Handle,
         WriteReceipt, Commit, Lose, Crash, Second, PubNext, PubStart, PubRender, PubArchive,
         PubSend, PubNote, PubDone, PubStop, tickVars, vars, files
<1> QED BY <1>1, <1>2, <1>3

\* latest_state.json never loses a tick it has shown, whatever is replayed.
THEOREM LatestNeverBack == Spec => LatestGrows
<1>1. IInv /\ [Next]_vars => [latest # None => latest.ledger \subseteq latest'.ledger]_latest
  BY LatestGrowsStep
<1> QED BY <1>1, Inductive, PTL DEF Spec, LatestGrows

LEMMA ServedGrowsStep ==
  ASSUME IInv, [Next]_vars, Served(db) # None
  PROVE  Served(db).ledger \subseteq Served(db)'.ledger
<1> USE DEF IInv, TickInv
<1>1. CASE UNCHANGED db
  BY <1>1 DEF Served
<1>2. ASSUME NEW r \in requests, Handle(r) PROVE Served(db).ledger \subseteq Served(db)'.ledger
  <2> DEFINE k == r.key
             s == r.state
  <2>1. db' = PutPaperState(db, k, s)
    BY <1>2 DEF Handle
  <2>2. k \in Keys /\ Current(s) /\ s \in PaperStates
    BY <1>2, HandledType
  <2>3. CASE ~Fresh(db, k, s)
    BY <1>1, <2>1, <2>3 DEF PutPaperState
  <2>4. CASE Fresh(db, k, s)
    <3>1. db'.updates = [db.updates EXCEPT ![k] = s] /\ db'.current = k
      BY <2>1, <2>4 DEF PutPaperState, Store
    <3>2. Served(db)' = s
      BY <2>2, <3>1, NoneIsNoState DEF Served, TickTypeOK, Database
    <3>3. Current(Served(db))
      BY DEF Served, SeenCurrent, Seen, TickTypeOK, Database
    <3>4. Served(db).at <= s.at /\ (Served(db).at = s.at => Served(db) = s)
      <4>1. Served(db).at \in Nat /\ s.at \in Nat
        BY <2>2, <3>3 DEF Current, PaperStates
      <4>2. db.current # None
        BY DEF Served
      <4> QED BY <2>4, <4>1, <4>2 DEF Fresh, Newer
    <3>5. Served(db).at < s.at => Served(db).ledger \subseteq s.ledger
      <4> SUFFICES ASSUME Served(db).at < s.at, NEW x \in Served(db).ledger PROVE x \in s.ledger
        OBVIOUS
      <4>1. x \in ledger /\ x.at <= Served(db).at /\ x.at \in Nat
        BY <3>3 DEF Current, TickTypeOK, Tick
      <4>2. Served(db).at \in Nat /\ s.at \in Nat
        BY <2>2, <3>3 DEF Current, PaperStates
      <4> QED BY <2>2, <4>1, <4>2 DEF Current
    <3>6. Served(db).at \in Nat /\ s.at \in Nat
      BY <2>2, <3>3 DEF Current, PaperStates
    <3> QED BY <3>2, <3>4, <3>5, <3>6
  <2> QED BY <2>3, <2>4
<1>3. UNCHANGED db \/ \E r \in requests : Handle(r)
  BY DEF Next, TickNext, Begin, BeginReplay, WriteReplay, WriteLedger, AppendEvents, Sync, GiveUp,
         WriteReceipt, Commit, Lose, Crash, Second, PubNext, PubStart, PubRender, PubArchive,
         PubSend, PubNote, PubDone, PubStop, tickVars, vars
<1> QED BY <1>1, <1>2, <1>3

\* The paper state the API serves never loses a tick it has shown.
THEOREM NothingWithdrawn == Spec => ServedGrows
<1>1. IInv /\ [Next]_vars =>
        [Served(db) # None => Served(db).ledger \subseteq Served(db)'.ledger]_<<db>>
  BY ServedGrowsStep
<1> QED BY <1>1, Inductive, PTL DEF Spec, ServedGrows

\* A wake receipt that reports success is about a state the API has accepted.
THEOREM ReceiptsHonest == Spec => []ReceiptTrue
  BY Inductive, PTL DEF IInv, TickInv

\* The readers of a run see one package, the archived one, of a state the API accepted.
THEOREM ReadersSeeOne == Spec => []OnePackage
  BY Inductive, PTL DEF IInv
=============================================================================
