-------------------------- MODULE OutreachSequence --------------------------
(***************************************************************************)
(* Who at a company is written to, and who next: message_draft.py drafts   *)
(* for the best-ranked eligible contact, outreach_sequencing.py drafts for *)
(* the next one when the earlier ones failed or stayed silent,             *)
(* contact_discovery.py keeps adding contacts, and a human excludes them.  *)
(* One opportunity with one strategy version; a contact is its rank, 1 is  *)
(* the best.  The message sweep, the sequencing sweep, the routes that call *)
(* them and threads abandoned by a stage timeout are writers alike: a call *)
(* to the language model lies between what a writer reads and what it      *)
(* writes.  DraftSend models the sending and the approval in full.         *)
(***************************************************************************)
EXTENDS Naturals, FiniteSets

CONSTANTS
  Ranks,         \* the ranks contacts of the company can have, from 1
  Sequencers,
  MaxContacts    \* MAX_CONTACTS_PER_COMPANY

ASSUME SequenceAssumption == Ranks \subseteq Nat \ {0} /\ MaxContacts \in Nat

VARIABLES
  known,       \* contacts with a row
  suppressed,  \* contacts.excluded_from_push
  rowOf,       \* per contact and kind of draft, where the draft stands
  orphan,      \* the draft without a contact exists
  replied,     \* contacts with a SalesOutcome
  meeting,     \* a booking is linked to the opportunity
  cooling,     \* the company was written to within company_cooldown_days
  writer,      \* per writer: what it writes next, for which contact (0: nobody)
  reshuffled   \* history: the eligible contacts changed once drafting had begun

sequenceVars == <<known, suppressed, rowOf, orphan, replied, meeting, cooling, writer, reshuffled>>

Kinds == {"primary", "other"}  \* other: a second channel, or the follow-up
Eligible == known \ suppressed
Drafted(c) == \E k \in Kinds : rowOf[<<c, k>>] # "none"
Over(c) == \E k \in Kinds : rowOf[<<c, k>>] \in {"waited", "failed"}
Begun == orphan \/ (\E c \in Ranks : Drafted(c)) \/ (\E w \in Sequencers : writer[w].next # "nothing")

SequenceTypeOK ==
  /\ known \subseteq Ranks /\ suppressed \subseteq known
  /\ rowOf \in [Ranks \X Kinds ->
       {"none", "empty", "unsent", "sent", "waited", "failed"}]
  /\ writer \in [Sequencers -> [next : {"nothing", "primary", "other"}, contact : Ranks \cup {0}]]
  /\ replied \subseteq {c \in known : \E k \in Kinds : rowOf[<<c, k>>] \in {"sent", "waited"}}
  /\ {orphan, meeting, cooling, reshuffled} \subseteq BOOLEAN

SequenceInit ==
  /\ known = {} /\ suppressed = {} /\ replied = {}
  /\ rowOf = [x \in Ranks \X Kinds |-> "none"]
  /\ writer = [w \in Sequencers |-> [next |-> "nothing", contact |-> 0]]
  /\ orphan = FALSE /\ meeting = FALSE /\ cooling = FALSE /\ reshuffled = FALSE

-----------------------------------------------------------------------------
(* What happens around the writers.                                        *)

(* discover_contacts_for_opportunity, where is_contact_discovery_eligible  *)
DiscoverContact(c) ==
  /\ c \notin known
  /\ Cardinality(Eligible) < MaxContacts
  /\ (known = {} \/ Eligible # {})
  /\ known' = known \cup {c}
  /\ reshuffled' = (reshuffled \/ Begun)
  /\ UNCHANGED <<suppressed, rowOf, orphan, replied, meeting, cooling, writer>>

SetSuppressed(c) ==
  /\ c \in known
  /\ suppressed' = IF c \in suppressed THEN suppressed \ {c} ELSE suppressed \cup {c}
  /\ reshuffled' = (reshuffled \/ Begun)
  /\ UNCHANGED <<known, rowOf, orphan, replied, meeting, cooling, writer>>

RowTo(c, k, to) == rowOf' = [rowOf EXCEPT ![<<c, k>>] = to]

(* Approved, then sent; a retryable failure changes nothing here.          *)
SendRow(c, k, result) ==
  /\ rowOf[<<c, k>>] = "unsent" /\ c \notin suppressed /\ ~cooling
  /\ RowTo(c, k, result)
  /\ cooling' = (result = "sent")
  /\ UNCHANGED <<known, suppressed, orphan, replied, meeting, writer, reshuffled>>

FallbackDelayPasses(c, k) ==
  /\ rowOf[<<c, k>>] = "sent" /\ RowTo(c, k, "waited")
  /\ UNCHANGED <<known, suppressed, orphan, replied, meeting, cooling, writer, reshuffled>>

CoolingEnds ==
  /\ cooling /\ cooling' = FALSE
  /\ UNCHANGED <<known, suppressed, rowOf, orphan, replied, meeting, writer, reshuffled>>

(* A bug: a reply is taken from any contact that was drafted.              *)
BugRecordReply(c) ==
  /\ \E k \in Kinds : rowOf[<<c, k>>] # "none"
  /\ replied' = replied \cup {c}
  /\ UNCHANGED <<known, suppressed, rowOf, orphan, meeting, cooling, writer, reshuffled>>

RecordReply(c) ==
  /\ \E k \in Kinds : rowOf[<<c, k>>] \in {"sent", "waited"}
  /\ replied' = replied \cup {c}
  /\ UNCHANGED <<known, suppressed, rowOf, orphan, meeting, cooling, writer, reshuffled>>

RecordMeeting ==
  /\ replied # {} /\ meeting' = TRUE
  /\ UNCHANGED <<known, suppressed, rowOf, orphan, replied, cooling, writer, reshuffled>>

-----------------------------------------------------------------------------
(* The writers.                                                            *)
SequenceFrame == UNCHANGED <<known, suppressed, replied, meeting, cooling, reshuffled>>
Free(w) == writer[w].next = "nothing"
Writes(w, kind, c) == writer' = [writer EXCEPT ![w] = [next |-> kind, contact |-> c]]
BestOf(S) == IF S = {} THEN 0 ELSE CHOOSE c \in S : \A b \in S : c <= b

(* run_message_generation_sweep: only where the strategy has no draft.     *)
StartPrimary(w) ==
  /\ Free(w) /\ ~orphan /\ ~\E c \in Ranks : Drafted(c)
  /\ Writes(w, "primary", BestOf(Eligible))
  /\ UNCHANGED <<rowOf, orphan>> /\ SequenceFrame

(* recover_message_draft_if_unblocked: the draft without a contact goes.   *)
RecoverOrphan(w) ==
  /\ Free(w) /\ orphan /\ Eligible # {}
  /\ orphan' = FALSE
  /\ Writes(w, "primary", BestOf(Eligible))
  /\ UNCHANGED rowOf /\ SequenceFrame

BugTried(b) == Over(b) /\ ~meeting

(* evaluate_contact_outcome says to move on.  Which draft of the contact it *)
(* reads is the database's choice: any that is over will do.               *)
Tried(b) == Over(b) /\ ~meeting /\ b \notin replied

(* evaluate_sequence_state                                                 *)
IsFallback(c) ==
  /\ c \in Eligible /\ ~Drafted(c)
  /\ \E b \in Eligible : b < c
  /\ \A b \in Eligible : b < c => Tried(b)

(* advance_outreach_sequence                                               *)
StartFallback(w, c) ==
  /\ Free(w) /\ IsFallback(c)
  /\ Writes(w, "primary", c)
  /\ UNCHANGED <<rowOf, orphan>> /\ SequenceFrame

(* _draft_message_for_channel.  A row that is there by now is kept when it *)
(* was there before the call, and refused by the unique index otherwise.   *)
WritePrimary(w) ==
  /\ writer[w].next = "primary"
  /\ LET c == writer[w].contact IN
       \/ /\ c = 0 /\ orphan' = TRUE /\ Writes(w, "nothing", 0) /\ UNCHANGED rowOf
       \/ /\ c # 0 /\ UNCHANGED orphan
          /\ \/ /\ rowOf[<<c, "primary">>] = "none"
                /\ \E to \in {"unsent", "empty"} : RowTo(c, "primary", to)
                /\ Writes(w, "other", c)
             \/ /\ rowOf[<<c, "primary">>] # "none" /\ UNCHANGED rowOf
                /\ (Writes(w, "other", c) \/ Writes(w, "nothing", 0))
  /\ SequenceFrame

(* The extra channel and the follow-up: a failure never affects the primary. *)
WriteOther(w) ==
  /\ writer[w].next = "other"
  /\ LET c == writer[w].contact IN
       \/ rowOf[<<c, "other">>] = "none" /\ \E to \in {"unsent", "empty"} : RowTo(c, "other", to)
       \/ UNCHANGED rowOf
  /\ Writes(w, "nothing", 0)
  /\ UNCHANGED orphan /\ SequenceFrame

(* The model fails in a way the code lets out, or the process dies.        *)
WriterFails(w) ==
  /\ ~Free(w) /\ Writes(w, "nothing", 0)
  /\ UNCHANGED <<rowOf, orphan>> /\ SequenceFrame

SequenceNext ==
  \/ \E c \in Ranks :
       \/ DiscoverContact(c) \/ SetSuppressed(c) \/ RecordReply(c)
       \/ \E k \in Kinds :
            \/ FallbackDelayPasses(c, k)
            \/ \E result \in {"sent", "failed"} : SendRow(c, k, result)
       \/ \E w \in Sequencers : StartFallback(w, c)
  \/ CoolingEnds \/ RecordMeeting
  \/ \E w \in Sequencers :
       StartPrimary(w) \/ RecoverOrphan(w) \/ WritePrimary(w) \/ WriteOther(w) \/ WriterFails(w)

SequenceSpec == SequenceInit /\ [][SequenceNext]_sequenceVars

-----------------------------------------------------------------------------
(* Unless the eligible contacts changed once drafting had begun, a contact *)
(* is drafted, or about to be, only when every better-ranked one was: a    *)
(* draft of each failed for good or outlived the fallback delay.  Two      *)
(* writers that evaluate the same company at once do not get ahead of it.  *)
FallbackComesLast ==
  ~reshuffled =>
    \A c \in Ranks :
      (Drafted(c) \/ \E w \in Sequencers : writer[w].contact = c)
        => \A b \in Eligible : b < c => Over(b)

(* Unless the eligible contacts changed, no fallback is begun once a       *)
(* contact of the company replied: outreach_sequencing.py:32-37.           *)
EngagedHolds ==
  [][\A w \in Sequencers :
       (Free(w) /\ writer'[w].contact # 0 /\ ~reshuffled /\ \E c \in Ranks : Drafted(c))
         => replied = {}]_sequenceVars

(* A fallback comes after the better-ranked contacts, and none is begun    *)
(* once the company replied; the variables have their types.               *)
SequenceHolds == [](SequenceTypeOK /\ FallbackComesLast) /\ EngagedHolds
=============================================================================
