----------------------------- MODULE HiringPlay -----------------------------
(***************************************************************************)
(* The hiring play, app/gtm_os/plays/hiring.py: run_play_b senses job      *)
(* postings, ingests companies as gtm_leads rows, judges them, looks for a *)
(* contact, writes the opportunity and drafts a message.  The rows move    *)
(* through the states of plays/lead.py.  A play run is one call of         *)
(* run_play_b with a database session of its own; the daily job and the    *)
(* trigger route may overlap (IntelligenceRun), so a run's reads, paid     *)
(* calls and commits are actions of their own.  The sense stage is the     *)
(* HarvestAPI one.  A company is its leads, contacts and drafts: one lead, *)
(* one contact that matters, one draft per strategy version.               *)
(***************************************************************************)
EXTENDS Naturals, Sequences, FiniteSets

CONSTANTS
  Companies,
  PlayRuns,       \* calls of run_play_b
  InOutreach,     \* companies with a CampaignPush already
  NoCompany,
  MaxPlayFaults   \* bound: failed commits, crashes and exceptions that end a run

ASSUME HiringAssumption ==
  NoCompany \notin Companies /\ InOutreach \subseteq Companies /\ MaxPlayFaults \in Nat

VARIABLES
  leadState,     \* gtm_leads.state, "absent" without a row
  checkedNote,   \* the Parameter hiring_play_checked_companies
  companyRow,    \* companies with a row of their own
  jobSignal,     \* companies with a linkedin_job signal
  contactRow,    \* companies with a contact reachable over the channels
  drafts,        \* drafts[c][v]: the draft of c's strategy version v
  linkedinOnly,  \* the outreach channels are ["linkedin"]
  playPc,        \* where each run is
  todo,          \* the rest of the list its stage read
  ownNote,       \* its own copy of checkedNote
  at,            \* the company it is working on
  version,       \* the strategy version it drafts for
  harvested,     \* what the batched people search returned: contact or nobody
  factsPaid,     \* history: company lookups bought
  contactPaid,   \* history: people bought
  refused,       \* history: the last contact lookup was refused for budget
  overlapped,    \* history: two runs were once active together
  playFaults,
  died           \* history: a run died

leadRows == <<leadState, checkedNote, companyRow, jobSignal, contactRow, drafts>>
playLocals == <<todo, ownNote, at, version, harvested>>
playHistory == <<factsPaid, contactPaid, refused, overlapped, playFaults, died>>
hiringVars == <<leadRows, linkedinOnly, playPc, playLocals, playHistory>>

LeadStates == {"absent", "signal", "rejected", "qualified", "contact_found",
               "contact_missing", "drafted", "failed"}
Stages == {"idle", "search", "check", "note", "keep", "postings", "save", "ingest", "insert",
           "qualify", "judge", "lookup", "batch", "contact", "bought", "write", "advance",
           "found", "draft", "compose", "link", "done"}

HiringTypeOK ==
  /\ leadState \in [Companies -> LeadStates]
  /\ checkedNote \in [Companies -> {"none", "kept", "rejected"}]
  /\ companyRow \subseteq Companies /\ jobSignal \subseteq companyRow /\ contactRow \subseteq Companies
  /\ drafts \in [Companies -> Seq({"none", "empty", "text"})]
  /\ linkedinOnly \in BOOLEAN
  /\ playPc \in [PlayRuns -> Stages]
  /\ todo \in [PlayRuns -> SUBSET Companies]
  /\ ownNote \in [PlayRuns -> [Companies -> {"none", "kept", "rejected"}]]
  /\ at \in [PlayRuns -> Companies \cup {NoCompany}]
  /\ version \in [PlayRuns -> Nat]
  /\ harvested \in [PlayRuns -> [Companies -> {"not_asked", "contact", "nobody"}]]
  /\ factsPaid \in [Companies -> Nat] /\ contactPaid \in [Companies -> Nat]
  /\ refused \subseteq Companies /\ overlapped \in BOOLEAN /\ died \in BOOLEAN
  /\ playFaults \in 0..MaxPlayFaults

NoNote == [c \in Companies |-> "none"]
NotAsked == [c \in Companies |-> "not_asked"]

HiringInit ==
  /\ leadState = [c \in Companies |-> "absent"]
  /\ checkedNote = NoNote
  /\ companyRow = {} /\ jobSignal = {} /\ contactRow = {}
  /\ drafts = [c \in Companies |-> <<>>]
  /\ linkedinOnly \in BOOLEAN
  /\ playPc = [r \in PlayRuns |-> "idle"]
  /\ todo = [r \in PlayRuns |-> {}]
  /\ ownNote = [r \in PlayRuns |-> NoNote]
  /\ at = [r \in PlayRuns |-> NoCompany]
  /\ version = [r \in PlayRuns |-> 0]
  /\ harvested = [r \in PlayRuns |-> NotAsked]
  /\ factsPaid = [c \in Companies |-> 0] /\ contactPaid = [c \in Companies |-> 0]
  /\ refused = {} /\ overlapped = FALSE /\ playFaults = 0 /\ died = FALSE

Stage(r, from, to) == playPc[r] = from /\ playPc' = [playPc EXCEPT ![r] = to]
Take(r, c) == at' = [at EXCEPT ![r] = c]
Drop(r, c) == todo' = [todo EXCEPT ![r] = @ \ {c}]
Release(r) == Drop(r, at[r]) /\ Take(r, NoCompany)
Move(c, s) == leadState' = [leadState EXCEPT ![c] = s]
Fault == playFaults < MaxPlayFaults /\ playFaults' = playFaults + 1
Active(r) == playPc[r] \notin {"idle", "done"}

-----------------------------------------------------------------------------
(* run_play_b starts, unless the control plane halts it.                   *)
StartPlay(r) ==
  /\ Stage(r, "idle", "search")
  /\ overlapped' = (overlapped \/ \E q \in PlayRuns : Active(q))
  /\ UNCHANGED <<leadRows, linkedinOnly, playLocals, factsPaid, contactPaid, refused, playFaults, died>>

PlayHalted(r) ==
  /\ Stage(r, "idle", "done")
  /\ UNCHANGED <<leadRows, linkedinOnly, playLocals, playHistory>>

(* A bug: companies that were checked before are checked again.            *)
BugSearchJobs(r) ==
  /\ \E hits \in SUBSET Companies : todo' = [todo EXCEPT ![r] = hits \ companyRow]
  /\ ownNote' = [ownNote EXCEPT ![r] = checkedNote]
  /\ \E next \in {"check", "save"} : Stage(r, "search", next)
  /\ UNCHANGED <<leadRows, linkedinOnly, at, version, harvested, playHistory>>

(* The job search returns some companies; those noted or known already are *)
(* left out.  A refused or failed search ends the stage with what it has.  *)
SearchJobs(r) ==
  /\ \E hits \in SUBSET Companies :
       todo' = [todo EXCEPT ![r] = {c \in hits : c \notin companyRow /\ checkedNote[c] = "none"}]
  /\ ownNote' = [ownNote EXCEPT ![r] = checkedNote]
  /\ \E next \in {"check", "save"} : Stage(r, "search", next)
  /\ UNCHANGED <<leadRows, linkedinOnly, at, version, harvested, playHistory>>

(* The company's facts are bought, and judged by size, country, industry.  *)
BuyFacts(r, c) ==
  /\ c \in todo[r]
  /\ Stage(r, "check", "note")
  /\ factsPaid' = [factsPaid EXCEPT ![c] = @ + 1]
  /\ \E verdict \in {"kept", "rejected"} : ownNote' = [ownNote EXCEPT ![r][c] = verdict]
  /\ Take(r, c)
  /\ UNCHANGED <<leadRows, linkedinOnly, todo, version, harvested, contactPaid, refused, overlapped, playFaults, died>>

FactsFail(r, c) ==
  /\ c \in todo[r]
  /\ Stage(r, "check", "check")
  /\ Drop(r, c)
  /\ UNCHANGED <<leadRows, linkedinOnly, ownNote, at, version, harvested, playHistory>>

(* The list is done, or a call was refused: the loop ends.                 *)
SenseEnds(r) ==
  /\ Stage(r, "check", "save")
  /\ UNCHANGED <<leadRows, linkedinOnly, playLocals, playHistory>>

AfterNote(r) ==
  \/ playPc[r] = "note" /\ ownNote[r][at[r]] = "kept"
     /\ Stage(r, "note", "keep") /\ UNCHANGED <<todo, at>>
  \/ playPc[r] = "note" /\ ownNote[r][at[r]] = "rejected"
     /\ Stage(r, "note", "check") /\ Release(r)

(* The whole note is written from the run's own copy, company by company.  *)
SaveNote(r) ==
  /\ checkedNote' = ownNote[r]
  /\ AfterNote(r)
  /\ UNCHANGED <<leadState, companyRow, jobSignal, contactRow, drafts, linkedinOnly, ownNote, version, harvested, playHistory>>

SaveNoteFails(r) ==
  /\ Fault
  /\ AfterNote(r)
  /\ UNCHANGED <<leadRows, linkedinOnly, ownNote, version, harvested, factsPaid, contactPaid, refused, overlapped, died>>

KeepCompany(r) ==
  /\ Stage(r, "keep", "postings")
  /\ companyRow' = companyRow \cup {at[r]}
  /\ UNCHANGED <<leadState, checkedNote, jobSignal, contactRow, drafts, linkedinOnly, playLocals, playHistory>>

KeepPostings(r) ==
  /\ Stage(r, "postings", "check")
  /\ jobSignal' = jobSignal \cup {at[r]}
  /\ Release(r)
  /\ UNCHANGED <<leadState, checkedNote, companyRow, contactRow, drafts, linkedinOnly, ownNote, version, harvested, playHistory>>

(* A bug: the failed company keeps its note.                               *)
BugKeepFails(r) ==
  /\ \E s \in {"keep", "postings"} : Stage(r, s, "check")
  /\ Fault
  /\ Release(r)
  /\ UNCHANGED <<leadRows, linkedinOnly, ownNote, version, harvested, factsPaid, contactPaid, refused, overlapped, died>>

(* Either commit of _keep_company fails: the note is taken back.           *)
KeepFails(r) ==
  /\ \E s \in {"keep", "postings"} : Stage(r, s, "check")
  /\ Fault
  /\ ownNote' = [ownNote EXCEPT ![r][at[r]] = "none"]
  /\ Release(r)
  /\ UNCHANGED <<leadRows, linkedinOnly, version, harvested, factsPaid, contactPaid, refused, overlapped, died>>

SaveSense(r) ==
  /\ Stage(r, "save", "ingest")
  /\ checkedNote' = ownNote[r]
  /\ todo' = [todo EXCEPT ![r] = {}]
  /\ UNCHANGED <<leadState, companyRow, jobSignal, contactRow, drafts, linkedinOnly, ownNote, at, version, harvested, playHistory>>

SaveSenseFails(r) ==
  /\ Stage(r, "save", "ingest")
  /\ Fault
  /\ todo' = [todo EXCEPT ![r] = {}]
  /\ UNCHANGED <<leadRows, linkedinOnly, ownNote, at, version, harvested, factsPaid, contactPaid, refused, overlapped, died>>

-----------------------------------------------------------------------------
(* A stage reads the list it will work through.                            *)
Reads(r, from, to, list) ==
  /\ Stage(r, from, to)
  /\ todo' = [todo EXCEPT ![r] = list]
  /\ UNCHANGED <<leadRows, linkedinOnly, ownNote, at, version, harvested, playHistory>>

(* A stage ends early or at the end of its list; the run goes on.          *)
Leaves(r, from, to) ==
  /\ Stage(r, from, to)
  /\ todo' = [todo EXCEPT ![r] = {}]
  /\ UNCHANGED <<leadRows, linkedinOnly, ownNote, at, version, harvested, playHistory>>

ReadNewSignals(r) ==
  Reads(r, "ingest", "insert", {c \in jobSignal \ InOutreach : leadState[c] = "absent"})

(* All leads are inserted by one commit, under the unique key of a company *)
(* within the play: a key another run has inserted meanwhile fails it all. *)
InsertLeads(r) ==
  /\ \A c \in todo[r] : leadState[c] = "absent"
  /\ Stage(r, "insert", "qualify")
  /\ leadState' = [c \in Companies |-> IF c \in todo[r] THEN "signal" ELSE leadState[c]]
  /\ todo' = [todo EXCEPT ![r] = {}]
  /\ UNCHANGED <<checkedNote, companyRow, jobSignal, contactRow, drafts, linkedinOnly, ownNote, at, version, harvested, playHistory>>

InsertConflicts(r) ==
  /\ \E c \in todo[r] : leadState[c] # "absent"
  /\ Leaves(r, "insert", "done")

WithState(s) == {c \in Companies : leadState[c] = s}

ReadSignals(r) == Reads(r, "qualify", "judge", WithState("signal"))

(* The Qualifier's verdict is written whatever the row's state is by now.  *)
Judge(r, c) ==
  /\ c \in todo[r]
  /\ Stage(r, "judge", "judge")
  /\ \E verdict \in {"qualified", "rejected"} : Move(c, verdict)
  /\ Drop(r, c)
  /\ UNCHANGED <<checkedNote, companyRow, jobSignal, contactRow, drafts, linkedinOnly, ownNote, at, version, harvested, playHistory>>

JudgeFails(r, c) ==
  /\ c \in todo[r]
  /\ Reads(r, "judge", "judge", todo[r] \ {c})

(* The list is done, or the budget refused the call.                       *)
JudgeEnds(r) == Leaves(r, "judge", "lookup")

-----------------------------------------------------------------------------
Batchable(r) == IF linkedinOnly THEN todo[r] \ contactRow ELSE {}

(* A bug: the stage also takes leads that are past it.                     *)
BugReadQualified(r) ==
  Reads(r, "lookup", "batch", {c \in Companies : leadState[c] \in {"qualified", "contact_found", "drafted"}})

ReadQualified(r) == Reads(r, "lookup", "batch", WithState("qualified"))

(* One batched people search for the leads without a known contact.  A     *)
(* refused page ends the search; who is not found by then counts as        *)
(* "nobody", whether the pages said so or were never bought.               *)
SearchPeople(r) ==
  /\ Stage(r, "batch", "contact")
  /\ \E got \in SUBSET Batchable(r), budgetStopped \in BOOLEAN :
       /\ harvested' = [harvested EXCEPT ![r] =
            [c \in Companies |-> IF c \in got THEN "contact"
                                 ELSE IF c \in Batchable(r) THEN "nobody" ELSE "not_asked"]]
       /\ contactRow' = contactRow \cup got
       /\ contactPaid' = [c \in Companies |-> contactPaid[c] + (IF c \in got THEN 1 ELSE 0)]
       /\ refused' = IF budgetStopped THEN refused \cup (Batchable(r) \ got)
                                      ELSE refused \ Batchable(r)
  /\ UNCHANGED <<leadState, checkedNote, companyRow, jobSignal, drafts, linkedinOnly, todo, ownNote, at, version,
                 factsPaid, overlapped, playFaults, died>>

(* A contact found by the batch, or one already known, costs nothing more. *)
Reuse(r, c) ==
  /\ c \in todo[r]
  /\ harvested[r][c] = "contact" \/ (harvested[r][c] = "not_asked" /\ c \in contactRow)
  /\ Stage(r, "contact", "write")
  /\ Take(r, c)
  /\ UNCHANGED <<leadRows, linkedinOnly, todo, ownNote, version, harvested, playHistory>>

MarkMissing(r, c) ==
  /\ c \in todo[r]
  /\ harvested[r][c] = "nobody"
  /\ Stage(r, "contact", "contact")
  /\ Move(c, "contact_missing")
  /\ Drop(r, c)
  /\ UNCHANGED <<checkedNote, companyRow, jobSignal, contactRow, drafts, linkedinOnly, ownNote, at, version, harvested, playHistory>>

NeedsFinder(r, c) == c \in todo[r] /\ harvested[r][c] = "not_asked" /\ c \notin contactRow

(* find_decision_makers buys a person; the contact row is a later commit.  *)
FinderBuys(r, c) ==
  /\ NeedsFinder(r, c)
  /\ Stage(r, "contact", "bought")
  /\ contactPaid' = [contactPaid EXCEPT ![c] = @ + 1]
  /\ refused' = refused \ {c}
  /\ Take(r, c)
  /\ UNCHANGED <<leadRows, linkedinOnly, todo, ownNote, version, harvested, factsPaid, overlapped, playFaults, died>>

MakeContact(r) ==
  /\ Stage(r, "bought", "write")
  /\ contactRow' = contactRow \cup {at[r]}
  /\ UNCHANGED <<leadState, checkedNote, companyRow, jobSignal, drafts, linkedinOnly, playLocals, playHistory>>

FinderFindsNobody(r, c) ==
  /\ NeedsFinder(r, c)
  /\ Stage(r, "contact", "contact")
  /\ Move(c, "contact_missing")
  /\ refused' = refused \ {c}
  /\ Drop(r, c)
  /\ UNCHANGED <<checkedNote, companyRow, jobSignal, contactRow, drafts, linkedinOnly, ownNote, at, version, harvested,
                 factsPaid, contactPaid, overlapped, playFaults, died>>

(* A bug: a refused call is taken for "nobody found".                      *)
BugFinderRefused(r, c) ==
  /\ NeedsFinder(r, c)
  /\ Stage(r, "contact", "contact")
  /\ Move(c, "contact_missing")
  /\ refused' = refused \cup {c}
  /\ Drop(r, c)
  /\ UNCHANGED <<checkedNote, companyRow, jobSignal, contactRow, drafts, linkedinOnly, ownNote, at, version, harvested,
                 factsPaid, contactPaid, overlapped, playFaults, died>>

(* Nobody was found and the scope counted a refused call: the lead waits.  *)
FinderRefused(r, c) ==
  /\ NeedsFinder(r, c)
  /\ Stage(r, "contact", "found")
  /\ refused' = refused \cup {c}
  /\ todo' = [todo EXCEPT ![r] = {}]
  /\ UNCHANGED <<leadRows, linkedinOnly, ownNote, at, version, harvested, factsPaid, contactPaid, overlapped, playFaults, died>>

FinderRaises(r, c) ==
  /\ NeedsFinder(r, c)
  /\ Reads(r, "contact", "contact", todo[r] \ {c})

(* Problem, demand and opportunity rows are reused, a strategy version is  *)
(* added: one commit.  The lead follows in the next commit.                *)
WriteOpportunity(r) ==
  /\ Stage(r, "write", "advance")
  /\ drafts' = [drafts EXCEPT ![at[r]] = Append(@, "none")]
  /\ UNCHANGED <<leadState, checkedNote, companyRow, jobSignal, contactRow, linkedinOnly, playLocals, playHistory>>

WriteFails(r) ==
  /\ Stage(r, "write", "contact")
  /\ Fault
  /\ Move(at[r], "failed")
  /\ Release(r)
  /\ UNCHANGED <<checkedNote, companyRow, jobSignal, contactRow, drafts, linkedinOnly, ownNote, version, harvested,
                 factsPaid, contactPaid, refused, overlapped, died>>

LeadFound(r) ==
  /\ Stage(r, "advance", "contact")
  /\ Move(at[r], "contact_found")
  /\ Release(r)
  /\ UNCHANGED <<checkedNote, companyRow, jobSignal, contactRow, drafts, linkedinOnly, ownNote, version, harvested, playHistory>>

ContactsEnd(r) == todo[r] = {} /\ Leaves(r, "contact", "found")

-----------------------------------------------------------------------------
ReadFound(r) == Reads(r, "found", "draft", WithState("contact_found"))

(* The draft of the latest strategy version; an existing one is reused,    *)
(* whatever it holds.                                                      *)
StartDraft(r, c) ==
  /\ c \in todo[r]
  /\ Stage(r, "draft", IF drafts[c][Len(drafts[c])] = "none" THEN "compose" ELSE "link")
  /\ Take(r, c)
  /\ version' = [version EXCEPT ![r] = Len(drafts[c])]
  /\ UNCHANGED <<leadRows, linkedinOnly, todo, ownNote, harvested, playHistory>>

(* The LLM writes a text, or declines, fails or is refused for budget: all *)
(* of these leave a row without a text.                                    *)
Compose(r) ==
  /\ Stage(r, "compose", "link")
  /\ drafts[at[r]][version[r]] = "none"
  /\ \E content \in {"text", "empty"} : drafts' = [drafts EXCEPT ![at[r]][version[r]] = content]
  /\ UNCHANGED <<leadState, checkedNote, companyRow, jobSignal, contactRow, linkedinOnly, playLocals, playHistory>>

(* Another run inserted the draft first: the unique index refuses this one *)
(* and the lead keeps its state.                                           *)
ComposeConflicts(r) ==
  /\ Stage(r, "compose", "draft")
  /\ drafts[at[r]][version[r]] # "none"
  /\ Release(r)
  /\ UNCHANGED <<leadRows, linkedinOnly, ownNote, version, harvested, playHistory>>

(* A bug: the lead is drafted whatever the draft holds.                    *)
BugLinkDraft(r) ==
  /\ Stage(r, "link", "draft")
  /\ Move(at[r], "drafted")
  /\ Release(r)
  /\ UNCHANGED <<checkedNote, companyRow, jobSignal, contactRow, drafts, linkedinOnly, ownNote, version, harvested, playHistory>>

LinkDraft(r) ==
  /\ Stage(r, "link", "draft")
  /\ IF drafts[at[r]][version[r]] = "text" THEN Move(at[r], "drafted") ELSE UNCHANGED leadState
  /\ Release(r)
  /\ UNCHANGED <<checkedNote, companyRow, jobSignal, contactRow, drafts, linkedinOnly, ownNote, version, harvested, playHistory>>

PlayEnds(r) == todo[r] = {} /\ Leaves(r, "draft", "done")

(* The process dies, or an exception nobody catches ends the run.          *)
PlayDies(r) ==
  /\ Active(r)
  /\ Fault
  /\ died' = TRUE
  /\ playPc' = [playPc EXCEPT ![r] = "done"]
  /\ todo' = [todo EXCEPT ![r] = {}]
  /\ Take(r, NoCompany)
  /\ UNCHANGED <<leadRows, linkedinOnly, ownNote, version, harvested, factsPaid, contactPaid, refused, overlapped>>

Sense(r) ==
  \/ SearchJobs(r) \/ SenseEnds(r) \/ SaveNote(r) \/ SaveNoteFails(r)
  \/ KeepCompany(r) \/ KeepPostings(r) \/ KeepFails(r) \/ SaveSense(r) \/ SaveSenseFails(r)
  \/ \E c \in Companies : BuyFacts(r, c) \/ FactsFail(r, c)
IngestAndQualify(r) ==
  \/ ReadNewSignals(r) \/ InsertLeads(r) \/ InsertConflicts(r) \/ ReadSignals(r) \/ JudgeEnds(r)
  \/ \E c \in Companies : Judge(r, c) \/ JudgeFails(r, c)
FindContacts(r) ==
  \/ ReadQualified(r) \/ SearchPeople(r) \/ MakeContact(r) \/ WriteOpportunity(r) \/ WriteFails(r)
  \/ LeadFound(r) \/ ContactsEnd(r)
  \/ \E c \in Companies : Reuse(r, c) \/ MarkMissing(r, c) \/ FinderBuys(r, c) \/ FinderFindsNobody(r, c)
                          \/ FinderRefused(r, c) \/ FinderRaises(r, c)
DraftMessages(r) ==
  \/ ReadFound(r) \/ Compose(r) \/ ComposeConflicts(r) \/ LinkDraft(r) \/ PlayEnds(r)
  \/ \E c \in Companies : StartDraft(r, c)

HiringNext ==
  \E r \in PlayRuns :
    \/ StartPlay(r) \/ PlayHalted(r) \/ PlayDies(r)
    \/ Sense(r) \/ IngestAndQualify(r) \/ FindContacts(r) \/ DraftMessages(r)

HiringSpec == HiringInit /\ [][HiringNext]_hiringVars

-----------------------------------------------------------------------------
Rank(s) == CASE s = "absent" -> 0 [] s = "signal" -> 1 [] s = "qualified" -> 2
             [] s = "contact_found" -> 3 [] OTHER -> 4

(* A lead moves forward only, and its last state is final, as long as no   *)
(* two runs overlap.                                                       *)
LeadMovesForward ==
  [][\A c \in Companies :
       leadState'[c] # leadState[c] => Rank(leadState[c]) < Rank(leadState'[c]) \/ overlapped]_hiringVars

(* A refused lookup leaves the lead waiting when email is a channel.       *)
RefusalWaits ==
  \A c \in refused : leadState[c] = "contact_missing" => linkedinOnly \/ overlapped

(* Without faults and without overlapping runs nothing is bought twice: no *)
(* company's facts, nobody at a company.                                   *)
BoughtOnce ==
  playFaults = 0 /\ ~overlapped => \A c \in Companies : factsPaid[c] <= 1 /\ contactPaid[c] <= 1

(* A company noted as kept has its postings on record, or is in the hands  *)
(* of a run; it takes two failed commits, a crash or an overlap to lose it. *)
KeptIsSaved ==
  \A c \in Companies :
    checkedNote[c] = "kept" /\ c \notin jobSignal =>
      \/ overlapped \/ died \/ playFaults > 1
      \/ \E r \in PlayRuns : playPc[r] \in {"check", "note", "keep", "postings", "save"}

(* One text per contact: a second strategy version is drafted only after   *)
(* overlapping runs moved the lead back.                                   *)
OneTextPerContact ==
  \A c \in Companies :
    Cardinality({v \in DOMAIN drafts[c] : drafts[c][v] = "text"}) > 1 => overlapped

(* A draft that came back empty, as it does when the budget refuses the    *)
(* call, is never composed again: its lead is not drafted by any later run *)
(* of the play.                                                            *)
EmptyDraftIsFinal ==
  [][\A c \in Companies :
       drafts[c] # <<>> /\ drafts[c][Len(drafts[c])] = "empty" /\ ~overlapped
         => leadState'[c] # "drafted"]_hiringVars

(* The rules of the hiring play: leads only move forward, a refusal leaves *)
(* them waiting, nothing is bought twice, what is noted as kept is saved,  *)
(* a contact gets one text, and an empty draft is never composed again.    *)
(* Each of these rules comes with the types of its variables.              *)
HiringRules ==
  /\ LeadMovesForward /\ EmptyDraftIsFinal
  /\ [](HiringTypeOK /\ RefusalWaits /\ BoughtOnce /\ KeptIsSaved /\ OneTextPerContact)
=============================================================================
