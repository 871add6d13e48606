-------------------------- MODULE PartnerReferrals --------------------------
(***************************************************************************)
(* Companies recommended to partners: the sweep that proposes them, the    *)
(* operator's verdict on each, the message drafted when one is approved,   *)
(* its review, and the direct message on Slack.  gtm_partner_matching.py,  *)
(* gtm_partner_classification.py, gtm_partner_messaging.py and their       *)
(* routes.                                                                 *)
(*                                                                         *)
(* Every step here looks, asks a model or Slack, and writes: nothing is    *)
(* locked in between, and the statuses may be set to anything at any time. *)
(***************************************************************************)
EXTENDS Naturals, Sequences, FiniteSets

CONSTANTS
  Clerks,            \* requests and sweeps under way
  Partners,          \* profiles that may be classified
  Prospects,         \* companies that may be recommended
  MatchCap,          \* companies proposed to a partner at a time
  MaxRecs,           \* bound: rows of partner_company_recommendations
  MaxLetters,        \* bound: rows of partner_recommendation_messages
  MaxVerdicts,       \* bound: statuses an operator sets, requests other than that, and faults
  NoPartner

ASSUME ReferralAssumption ==
  IsFiniteSet(Prospects) /\ MatchCap \in Nat \ {0} /\ MaxRecs \in Nat /\ MaxLetters \in Nat /\ MaxVerdicts \in Nat

VARIABLES
  classified,   \* partners whose classification_status is "classified"
  recs,         \* partner_company_recommendations, deleted ones too
  letters,      \* partner_recommendation_messages
  clerk,        \* what a request or sweep is at
  verdicts,     \* how many of what MaxVerdicts bounds there were
  lostDrafts    \* of them, drafts that crashed or raised

referralVars == <<classified, recs, letters, clerk, verdicts, lostDrafts>>

Verdict == {"proposed", "approved", "rejected"}
LetterStatus == {"draft", "approved", "rejected", "sent"}

(* `looked` is how many rows there were when its sweep, or its draft, last *)
(* read them; `back`, that it was set to proposed again; `refused`, that   *)
(* it was rejected once; `dms`, how often it was delivered.                *)
PartnerCompanyRecommendation ==
  [partner : Partners, company : Prospects, status : Verdict \cup {"deleted"}, looked : Nat, scheduled : BOOLEAN, back : BOOLEAN]
PartnerRecommendationMessage ==
  [partner : Partners, names : SUBSET (1..MaxRecs), status : LetterStatus, text : BOOLEAN, looked : Nat, refused : BOOLEAN, dms : 0..2]

Free == [pc |-> "off", scheduled |-> FALSE, left |-> {}, looked |-> 0, partner |-> NoPartner, picks |-> {}, letter |-> 0]

ReferralInit ==
  /\ classified = Partners /\ recs = <<>> /\ letters = <<>>
  /\ clerk = [k \in Clerks |-> Free] /\ verdicts = 0 /\ lostDrafts = 0

Of(p) == {i \in DOMAIN recs : recs[i].partner = p /\ recs[i].status # "deleted"}
Pending(p) == {i \in Of(p) : recs[i].status = "proposed"}
Act == verdicts < MaxVerdicts /\ verdicts' = verdicts + 1
Stands(k, pc) == clerk[k].pc = pc
Leave(k) == clerk' = [clerk EXCEPT ![k] = Free]

-----------------------------------------------------------------------------
(* classify_and_save_profile: whatever the model says is written over what *)
(* there was, "classifier unavailable" as insufficient evidence.           *)
Classify(p) ==
  /\ Act
  /\ classified' \in {classified \cup {p}, classified \ {p}} /\ classified' # classified
  /\ UNCHANGED <<recs, letters, clerk, lostDrafts>>

(* As the sweep would without its look at the pending proposals.           *)
BugDueForMatch(p) == TRUE

(* The scheduled sweep leaves out a partner with a proposal pending; which *)
(* ones are is read once, for all partners.                                *)
DueForMatch(p) == Pending(p) = {}

StartMatch(k) ==
  /\ Stands(k, "off")
  /\ LET due == {p \in classified : DueForMatch(p)}
     IN due # {} /\ clerk' = [clerk EXCEPT ![k] = [Free EXCEPT !.pc = "match", !.scheduled = TRUE, !.left = due, !.looked = Len(recs)]]
  /\ UNCHANGED <<classified, recs, letters, verdicts, lostDrafts>>

(* A request asks for one partner, whatever is pending, and may have what  *)
(* is pending deleted first, which is committed.                           *)
AskMatch(k, p, replace) ==
  /\ Stands(k, "off") /\ Act
  /\ recs' = [i \in DOMAIN recs |-> IF replace /\ i \in Pending(p) THEN [recs[i] EXCEPT !.status = "deleted"] ELSE recs[i]]
  /\ IF p \in classified
     THEN clerk' = [clerk EXCEPT ![k] = [Free EXCEPT !.pc = "match", !.left = {p}, !.looked = Len(recs)]]
     ELSE UNCHANGED clerk
  /\ UNCHANGED <<classified, letters, lostDrafts>>

(* The model picks companies, none when it fails; those the partner was    *)
(* ever recommended are left out, rejected ones too.                       *)
MatchCompanies(k) ==
  /\ Stands(k, "match")
  /\ IF clerk[k].left = {} THEN Leave(k)
     ELSE \E p \in clerk[k].left, chosen \in SUBSET Prospects :
            /\ Cardinality(chosen) <= MatchCap
            /\ clerk' = [clerk EXCEPT ![k].left = @ \ {p}, ![k].partner = p, ![k].pc = "propose",
                                      ![k].picks = chosen \ {recs[i].company : i \in Of(p)}]
  /\ UNCHANGED <<classified, recs, letters, verdicts, lostDrafts>>

(* One commit for the partner.  The unique constraint refuses it when      *)
(* another sweep proposed one of them meanwhile: the sweep ends.           *)
Propose(k) ==
  LET p == clerk[k].partner
      row(c) == [partner |-> p, company |-> c, status |-> "proposed", looked |-> clerk[k].looked,
                 scheduled |-> clerk[k].scheduled, back |-> FALSE]
  IN /\ Stands(k, "propose")
     /\ IF \E i \in Of(p) : recs[i].company \in clerk[k].picks THEN Leave(k) /\ UNCHANGED recs
        ELSE /\ Len(recs) + Cardinality(clerk[k].picks) <= MaxRecs
             /\ \E order \in [1..Cardinality(clerk[k].picks) -> clerk[k].picks] :
                  /\ \A c \in clerk[k].picks : \E n \in DOMAIN order : order[n] = c
                  /\ recs' = recs \o [n \in DOMAIN order |-> row(order[n])]
             /\ clerk' = [clerk EXCEPT ![k].pc = "match", ![k].partner = NoPartner, ![k].picks = {}]
     /\ UNCHANGED <<classified, letters, verdicts, lostDrafts>>

-----------------------------------------------------------------------------
(* update_recommendation_status: any status, from any.  An approval drafts *)
(* a message in the same request, after its commit.                        *)
UpdateRecommendation(k, i, status) ==
  /\ Stands(k, "off") /\ Act /\ recs[i].status # "deleted"
  /\ recs' = [recs EXCEPT ![i].status = status, ![i].back = @ \/ (status = "proposed" /\ recs[i].status # "proposed")]
  /\ IF status = "approved" THEN clerk' = [clerk EXCEPT ![k] = [Free EXCEPT !.pc = "draft", !.partner = recs[i].partner]]
     ELSE UNCHANGED clerk
  /\ UNCHANGED <<classified, letters, lostDrafts>>

(* The route that drafts what is approved and in no message yet.           *)
AskLetter(k, p) ==
  /\ Stands(k, "off") /\ Act
  /\ clerk' = [clerk EXCEPT ![k] = [Free EXCEPT !.pc = "draft", !.partner = p]]
  /\ UNCHANGED <<classified, recs, letters, lostDrafts>>

(* As generate_recommendation_message would if only what was sent counted. *)
BugCovered(p) == UNION {letters[n].names : n \in {l \in DOMAIN letters : letters[l].partner = p /\ letters[l].status = "sent"}}

Covered(p) == UNION {letters[n].names : n \in {l \in DOMAIN letters : letters[l].partner = p /\ letters[l].status # "rejected"}}

LookApproved(k) ==
  LET p == clerk[k].partner
      fresh == {i \in Of(p) : recs[i].status = "approved"} \ Covered(p)
  IN /\ Stands(k, "draft")
     /\ clerk' = [clerk EXCEPT ![k] = IF fresh = {} THEN Free ELSE [@ EXCEPT !.pc = "write", !.picks = fresh, !.looked = Len(letters)]]
     /\ UNCHANGED <<classified, recs, letters, verdicts, lostDrafts>>

(* A model that failed leaves a row too, rejected and without a text.      *)
WriteLetter(k, text) ==
  /\ Stands(k, "write") /\ Len(letters) < MaxLetters
  /\ letters' = Append(letters, [partner |-> clerk[k].partner, names |-> clerk[k].picks, text |-> text,
                                 status |-> IF text THEN "draft" ELSE "rejected", looked |-> clerk[k].looked, refused |-> ~text, dms |-> 0])
  /\ Leave(k)
  /\ UNCHANGED <<classified, recs, verdicts, lostDrafts>>

(* The request dies, or drafting raises, which an approval survives.       *)
LoseDraft(k) ==
  /\ ~Stands(k, "off") /\ Act /\ Leave(k)
  /\ lostDrafts' = IF clerk[k].pc \in {"draft", "write"} THEN lostDrafts + 1 ELSE lostDrafts
  /\ UNCHANGED <<classified, recs, letters>>

-----------------------------------------------------------------------------
(* update_message_status: any status but sent, from any, sent too.         *)
UpdateLetter(n, status) ==
  /\ Act /\ status # "sent" /\ status # letters[n].status
  /\ letters' = [letters EXCEPT ![n].status = status, ![n].refused = @ \/ status = "rejected"]
  /\ UNCHANGED <<classified, recs, clerk, lostDrafts>>

(* mark_message_sent: of a message in any status, on any channel.  On      *)
(* Slack the message goes out, then the row is written; a message that     *)
(* goes out whose answer is lost leaves the row as it was.                 *)
MarkSent(k, n) ==
  /\ Stands(k, "off") /\ Act
  /\ clerk' = [clerk EXCEPT ![k] = [Free EXCEPT !.pc = "dm", !.letter = n]]
  /\ UNCHANGED <<classified, recs, letters, lostDrafts>>

SendDm(k) ==
  /\ Stands(k, "dm")
  /\ LET n == clerk[k].letter
     IN letters' = IF letters[n].text /\ letters[n].dms < 2 THEN [letters EXCEPT ![n].dms = @ + 1] ELSE letters
  /\ clerk' = [clerk EXCEPT ![k].pc = "sent"]
  /\ UNCHANGED <<classified, recs, verdicts, lostDrafts>>

StoreSent(k) ==
  /\ \/ Stands(k, "sent")
     \/ Stands(k, "dm")             \* another channel, or no Slack id on the profile
  /\ letters' = [letters EXCEPT ![clerk[k].letter].status = "sent"]
  /\ Leave(k)
  /\ UNCHANGED <<classified, recs, verdicts, lostDrafts>>

MatchStep ==
  \E k \in Clerks :
    \/ StartMatch(k) \/ MatchCompanies(k) \/ Propose(k)
    \/ \E p \in Partners, replace \in BOOLEAN : AskMatch(k, p, replace)

RecommendStep ==
  \/ \E p \in Partners : Classify(p)
  \/ \E k \in Clerks :
       \/ \E i \in DOMAIN recs, status \in Verdict : UpdateRecommendation(k, i, status)
       \/ \E p \in Partners : AskLetter(k, p)
       \/ LookApproved(k) \/ WriteLetter(k, TRUE) \/ WriteLetter(k, FALSE) \/ LoseDraft(k)

LetterStep ==
  \/ \E n \in DOMAIN letters, status \in LetterStatus : UpdateLetter(n, status)
  \/ \E k \in Clerks : SendDm(k) \/ StoreSent(k) \/ \E n \in DOMAIN letters : MarkSent(k, n)

ReferralNext == MatchStep \/ RecommendStep \/ LetterStep

ReferralSpec == ReferralInit /\ [][ReferralNext]_referralVars

-----------------------------------------------------------------------------
ReferralTypeOK ==
  /\ classified \subseteq Partners
  /\ recs \in Seq(PartnerCompanyRecommendation) /\ Len(recs) <= MaxRecs
  /\ letters \in Seq(PartnerRecommendationMessage) /\ Len(letters) <= MaxLetters
  /\ verdicts <= MaxVerdicts /\ lostDrafts <= verdicts

(* Two messages to a partner name the same recommendation only when the    *)
(* later one was drafted beside the earlier, or the earlier was rejected   *)
(* once: a recommendation is not told twice otherwise.                     *)
ToldOnce ==
  \A n, l \in DOMAIN letters :
    n < l /\ letters[n].names \cap letters[l].names # {} => letters[l].looked < n \/ letters[n].refused

(* What is approved is in a message, once nobody drafts for the partner,   *)
(* unless a draft was lost.                                                *)
ApprovedNamed ==
  \A i \in DOMAIN recs :
    \/ recs[i].status # "approved" \/ lostDrafts > 0
    \/ \E n \in DOMAIN letters : i \in letters[n].names
    \/ \E k \in Clerks : clerk[k].pc \in {"draft", "write"} /\ clerk[k].partner = recs[i].partner

(* The scheduled sweep adds to what is pending for a partner only when the *)
(* earlier proposal was not pending as the sweep began: it came later, or  *)
(* it was set back since.                                                  *)
PendingBounded ==
  \A i, j \in DOMAIN recs :
    /\ i < j /\ recs[i].partner = recs[j].partner /\ recs[j].scheduled
    /\ recs[i].status = "proposed" /\ recs[j].status = "proposed"
    => recs[i].back \/ recs[j].looked < i

(* The rules of the recommendations: what is approved is told, and once.   *)
ReferralHolds == ReferralTypeOK /\ ToldOnce /\ ApprovedNamed /\ PendingBounded
=============================================================================
