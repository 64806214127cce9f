---------------------------- MODULE EvidenceCases ----------------------------
(***************************************************************************)
(* Evidence cases of the reference-game authority.  A source opens a case  *)
(* about an item with an envelope of its signed message chain ("place");   *)
(* an arbiter upholds the case (CommitDecision of ReferenceGame) or        *)
(* dismisses it; either leaves a resolution notice.  The source answers a  *)
(* notice with its next envelope ("resolve").                              *)
(*                                                                         *)
(* A message of the chain commits to the messages before it: an envelope   *)
(* is a message with the chain it continues (after).  A case id commits to *)
(* the proposal, the chain before it included.                             *)
(***************************************************************************)
EXTENDS ReferenceGame

VARIABLE dismissals \* reference_game_evidence_case_dismissals

caseVars == <<gameVars, dismissals>>

CasesInit == GameInit /\ dismissals = {}

Message(kind, case) == [kind |-> kind, case |-> case]

(* Faulty variant: the cursor of the source is not compared.               *)
CursorIgnored(source, after) == TRUE

(* The envelope continues the chain of the source.                         *)
CursorMatches(source, after) == after = inbox[source]

-----------------------------------------------------------------------------
(* Opening a case.                                                         *)
StartCase(c) ==
  /\ Start(c, "open", GoOnIf(c, calls[c].request.signed, "admit", Nothing))
  /\ UNCHANGED dismissals

(* The proposal names the creation of the item: its owner, its checkpoint. *)
AdmissionAllowed(k) ==
  /\ receipts[k.asset] # Nothing
  /\ k.ancestor = Origin
  /\ k.owner = receipts[k.asset].owner
  /\ k.checkpoint = receipts[k.asset].checkpoint

HoldIsFree(k) ==
  \A other \in Cases :
    other.source = k.source /\ other.hold = k.hold => cases[other].status = "none"

AdmitCase(c) ==
  LET k == calls[c].request.case IN
  /\ Continue(c, "open", "admit")
  /\ IF AdmissionAllowed(k) /\ HoldIsFree(k) /\ CursorMatches(k.source, k.after)
       THEN /\ End(c)
            /\ cases' = [cases EXCEPT ![k].status = "open"]
            /\ inbox' = [inbox EXCEPT ![k.source] = Append(@, Message("place", k))]
            /\ UNCHANGED <<checkpoints, receipts, heads, transfers, listings,
                           lineage, decisions, notices>>
       ELSE Refuse(c)
  /\ UNCHANGED dismissals

-----------------------------------------------------------------------------
(* Dismissing a case.                                                      *)
VerifyDismissal(d, now) ==
  /\ d.signed
  /\ d.issued <= d.expires
  /\ d.issued <= now + ClockSkew
  /\ d.expires >= now - ClockSkew

StartDismissal(c) ==
  /\ At(c, "dismiss", "new")
  /\ GoOnIf(c, VerifyDismissal(calls[c].request, clock), "commit", Nothing)
  /\ UNCHANGED <<clock, window, dismissals>>

(* Faulty variant: a decided case is dismissed too.                        *)
DismissalStandsDecided(d) == d \notin dismissals /\ cases[d.case].status # "none"

DismissalStands(d) == d \notin dismissals /\ cases[d.case].status = "open"

CommitDismissal(c) ==
  LET d == calls[c].request IN
  /\ Continue(c, "dismiss", "commit")
  /\ IF DismissalStands(d)
       THEN /\ End(c)
            /\ dismissals' = dismissals \cup {d}
            /\ Resolve(d.case, "dismissed", d)
            /\ UNCHANGED <<checkpoints, receipts, heads, transfers, listings,
                           lineage, decisions, inbox>>
       ELSE Refuse(c) /\ UNCHANGED dismissals

-----------------------------------------------------------------------------
(* Publishing a resolution.  Every check made before the transaction is    *)
(* made again in it, and a decided case never changes: one step.  Only the *)
(* answer to a request that was overtaken differs (OvertakenAnswers).      *)
NoticesOf(case) ==
  {n \in DOMAIN notices[case.source] : notices[case.source][n].case = case}

DeliveredAs(case) ==
  {notices[case.source][n].delivered : n \in NoticesOf(case)} \ {Nothing}

(* Faulty variant: an earlier delivery is not looked for.                  *)
PublishAnswerAgain(e) ==
  IF NoticesOf(e.case) = {} THEN "evidence_case_not_resolved"
  ELSE IF CursorMatches(e.case.source, e.after) THEN "published"
  ELSE "evidence_source_cursor_mismatch"

PublishAnswer(e) ==
  IF NoticesOf(e.case) = {}
    THEN "evidence_case_not_resolved"
  ELSE IF \/ e.disposition # cases[e.case].disposition
          \/ e.resolution # cases[e.case].resolution
    THEN "evidence_resolution_binding_mismatch"
  ELSE IF DeliveredAs(e.case) # {}
    THEN IF e.after \in DeliveredAs(e.case) THEN "duplicate"
         ELSE "evidence_resolution_already_delivered"
  ELSE IF CursorMatches(e.case.source, e.after)
    THEN "published"
  ELSE "evidence_source_cursor_mismatch"

(* Before the transaction the cursor is checked without looking again for  *)
(* a delivery: if the notice was read as undelivered, and the delivery     *)
(* comes while the envelope is verified, the cursor no longer matches.     *)
OvertakenAnswers(e) ==
  {a \in {"evidence_source_cursor_mismatch"} :
     PublishAnswer(e) \in {"duplicate", "evidence_resolution_already_delivered"}}

ApplyPublish(e) ==
  LET source == e.case.source IN
  IF PublishAnswer(e) = "published"
    THEN /\ inbox' = [inbox EXCEPT ![source] =
                        Append(@, Message("resolve", e.case))]
         /\ notices' = [notices EXCEPT ![source] =
              [n \in DOMAIN notices[source] |->
                 [notices[source][n] EXCEPT
                    !.delivered = IF n \in NoticesOf(e.case) THEN e.after ELSE @]]]
         /\ UNCHANGED <<checkpoints, receipts, heads, transfers, listings,
                        lineage, decisions, cases>>
    ELSE UNCHANGED tables

PublishResolution(c) ==
  LET e == calls[c].request IN
  /\ Start(c, "publish",
           /\ End(c)
           /\ IF e.signed THEN ApplyPublish(e) ELSE UNCHANGED tables)
  /\ UNCHANGED dismissals

CaseStep(c) ==
  \/ StartCase(c) \/ AdmitCase(c)
  \/ StartDismissal(c) \/ CommitDismissal(c)
  \/ PublishResolution(c)

-----------------------------------------------------------------------------
(* However a dismissal races a decision about the same case, a case is     *)
(* decided once: every decided case has exactly one notice, and the        *)
(* certificate behind it is the one the case and the notice name.          *)
CaseDecidedOnce ==
  \A k \in Cases :
    LET upheld == {d \in decisions : d.case = k}
        dismissed == {d \in dismissals : d.case = k}
    IN /\ Cardinality(upheld \cup dismissed) =
            (IF cases[k].status = "decided" THEN 1 ELSE 0)
       /\ Cardinality(NoticesOf(k)) = Cardinality(upheld \cup dismissed)
       /\ \A n \in NoticesOf(k) :
            /\ notices[k.source][n].resolution = cases[k].resolution
            /\ notices[k.source][n].disposition = cases[k].disposition
            /\ cases[k].resolution \in
                 (IF cases[k].disposition = "upheld" THEN upheld ELSE dismissed)

(* The inbox of a source is one chain: the place and the resolve message   *)
(* of a case appear at most once each, in this order, exactly when the     *)
(* case is stored and its notice delivered, and each continues the chain   *)
(* its envelope was built on.                                              *)
InboxIsOneChain ==
  \A s \in Sources :
    LET at(kind, k) == {i \in DOMAIN inbox[s] : inbox[s][i] = Message(kind, k)}
    IN /\ \A i \in DOMAIN inbox[s] : inbox[s][i].case.source = s
       /\ \A k \in {j \in Cases : j.source = s} :
            /\ Cardinality(at("place", k)) = (IF cases[k].status = "none" THEN 0 ELSE 1)
            /\ Cardinality(at("resolve", k)) = Cardinality(DeliveredAs(k))
            /\ \A i \in at("place", k) : k.after = SubSeq(inbox[s], 1, i - 1)
            /\ \A i \in at("resolve", k) :
                 /\ DeliveredAs(k) = {SubSeq(inbox[s], 1, i - 1)}
                 /\ \E j \in at("place", k) : j < i

(* A case is settled once, and the player hears of it once: one decision,  *)
(* one notice, and in the inbox of its source one place and at most one    *)
(* resolve message.                                                        *)
CasesSettleOnce == CaseDecidedOnce /\ InboxIsOneChain

=============================================================================
