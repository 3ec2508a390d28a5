----------------------------- MODULE MorningBrief -----------------------------
(***************************************************************************)
(* The morning brief publisher beside the engine's ticks                   *)
(* (scripts/mosaic-murmurs-morning-brief-publish.py publish and            *)
(* dispatch_packet, scripts/mosaic-murmurs-morning-brief-render.py         *)
(* validate_run and render_field_dossier).                                 *)
(*                                                                         *)
(* It reads the wake receipt, compares it with the paper state the API     *)
(* serves, renders, archives, reads back and sends the pages in batches.   *)
(* It may stop between any two steps (a refusal, an error, a crash) and be *)
(* run again.  The manifest and the text of a run do not change; one       *)
(* publisher runs at a time.                                               *)
(***************************************************************************)
EXTENDS PaperTick

CONSTANTS
  Batches,   \* 1 .. n, the Discord messages of one package
  MaxAge     \* MAX_CANONICAL_AGE

ASSUME BriefConstants == Batches \subseteq Nat /\ MaxAge \in Nat

VARIABLES
  pub,        \* the publisher in progress
  archive,    \* morning_brief_runs: the package archived for each run
  sent,       \* history: the batches handed to Discord
  delivered,  \* the "delivered" receipts on disk
  refused     \* history: the packages the archive has refused

briefVars == <<pub, archive, sent, delivered, refused>>
vars == <<tickVars, briefVars>>

PubSteps == {"idle", "fetch", "archive", "dispatch", "note"}
Publisher == [step : PubSteps, run : {None} \cup Runs, state : {None} \cup PaperStates,
              package : {None} \cup Package, batch : {None} \cup Batches]
NoPub == [step |-> "idle", run |-> None, state |-> None, package |-> None, batch |-> None]
Message == [run : Runs, package : Package, batch : Batches]

TypeOK ==
  /\ TickTypeOK
  /\ pub \in Publisher
  /\ archive \in [Runs -> {None} \cup Package]
  /\ sent \subseteq Message /\ delivered \subseteq Message
  /\ refused \subseteq [run : Runs, package : Package]

Init ==
  /\ TickInit
  /\ pub = NoPub /\ archive = [r \in Runs |-> None]
  /\ sent = {} /\ delivered = {} /\ refused = {}

-----------------------------------------------------------------------------
Recent(state) == clock - state.at <= MaxAge

\* validate_run on the wake receipt; anything else is withheld.
PubStart(r) ==
  /\ pub.step = "idle"
  /\ receipt # None /\ receipt.ok /\ Recent(receipt.state)
  /\ pub' = [NoPub EXCEPT !.step = "fetch", !.run = r, !.state = receipt.state]
  /\ UNCHANGED <<tickVars, archive, sent, delivered, refused>>

\* fetch_canonical_paper_state, the comparison of digests, and render_field_dossier, which
\* validates again and writes the time into package.json (validated_at).
PubRender ==
  /\ pub.step = "fetch"
  /\ Served(db) = pub.state /\ Recent(pub.state)
  /\ pub' = [pub EXCEPT !.step = "archive",
                        !.package = [state |-> pub.state, validated |-> clock]]
  /\ UNCHANGED <<tickVars, archive, sent, delivered, refused>>

\* archive_and_readback: the POST and the comparison of what it stored.  A refusal (409) raises.
PubArchive ==
  LET r == pub.run
      p == pub.package
  IN  /\ pub.step = "archive"
      /\ \/ /\ ArchiveAccepts(archive, r, p)
            /\ archive' = [archive EXCEPT ![r] = p]
            /\ pub' = [pub EXCEPT !.step = "dispatch"]
            /\ UNCHANGED refused
         \/ /\ ~ArchiveAccepts(archive, r, p)
            /\ refused' = refused \cup {[run |-> r, package |-> p]}
            /\ pub' = NoPub
            /\ UNCHANGED archive
      /\ UNCHANGED <<tickVars, sent, delivered>>

Letter(b) == [run |-> pub.run, package |-> pub.package, batch |-> b]
Undelivered == {b \in Batches : Letter(b) \notin delivered}

\* dispatch_packet: the first batch without a "delivered" receipt of this very package.
PubSend(b) ==
  /\ pub.step = "dispatch"
  /\ b \in Undelivered /\ \A c \in Undelivered : b <= c
  /\ sent' = sent \cup {Letter(b)}
  /\ pub' = [pub EXCEPT !.step = "note", !.batch = b]
  /\ UNCHANGED <<tickVars, archive, delivered, refused>>

PubNote ==
  /\ pub.step = "note"
  /\ delivered' = delivered \cup {Letter(pub.batch)}
  /\ pub' = [pub EXCEPT !.step = "dispatch", !.batch = None]
  /\ UNCHANGED <<tickVars, archive, sent, refused>>

PubDone ==
  /\ pub.step = "dispatch" /\ Undelivered = {}
  /\ pub' = NoPub
  /\ UNCHANGED <<tickVars, archive, sent, delivered, refused>>

\* Withheld, failed, a batch rejected by the sender, or dead.
PubStop ==
  /\ pub.step # "idle" /\ pub' = NoPub
  /\ UNCHANGED <<tickVars, archive, sent, delivered, refused>>

PubNext ==
  \/ \E r \in Runs : PubStart(r)
  \/ PubRender \/ PubArchive
  \/ \E b \in Batches : PubSend(b)
  \/ PubNote \/ PubDone \/ PubStop

Next == (TickNext /\ UNCHANGED briefVars) \/ PubNext

Spec == Init /\ [][Next]_vars

-----------------------------------------------------------------------------
\* What reaches the readers of a run is one package, the archived one, bound to a paper state
\* the API accepted, however often the publisher stops and starts again; and no batch counts
\* as delivered that was not sent.
OnePackage ==
  /\ \A m \in sent : /\ m.package = archive[m.run]
                     /\ \E k \in Keys : db.updates[k] = m.package.state
  /\ delivered \subseteq sent

\* scripts/mosaic-murmurs-morning-brief-publish.py:7 "render the deterministic Field Dossier":
\* the archive never refuses a package made from the inputs of the one it holds.
DeterministicDossier ==
  \A x \in refused : x.package.state # archive[x.run].state
=============================================================================
