----------------------------- MODULE MCWorkspace -----------------------------
(* Five components that share no row the properties are about, each with the  *)
(* state space to itself.                                                     *)
EXTENDS TLC, PageSections, SubscriberSites, IntakeAutomation, AIDrafts, Documents

CONSTANTS u1, u2

VARIABLE part

MCMaxPosts == (u1 :> 2) @@ (u2 :> 0)

MCFormRows == {[open |-> TRUE, link |-> TRUE, long |-> FALSE],
               [open |-> TRUE, link |-> FALSE, long |-> TRUE],
               [open |-> FALSE, link |-> TRUE, long |-> FALSE]}

OtherRule == [trigger |-> "FORM_SUBMITTED", form |-> "OTHER", action |-> "CREATE_TASK",
              active |-> TRUE, long |-> FALSE]
TagRule == [OtherRule EXCEPT !.form = "THIS", !.action = "ADD_CONTACT_TAG"]
LongRule == [OtherRule EXCEPT !.form = "ANY", !.action = "RECORD_ACTIVITY", !.long = TRUE]
MCRuleRows == {OtherRule, TagRule, LongRule, [TagRule EXCEPT !.active = FALSE],
               [LongRule EXCEPT !.trigger = "MANUAL"]}

MCInit ==
    /\ SectionsInit /\ SubscribersInit /\ IntakeInit /\ DraftInit /\ DocInit
    /\ part \in {"page", "sites", "intake", "drafts", "documents"}
    /\ form.link /\ person # "NAMED"
    /\ rules[1] \in {OtherRule, TagRule} /\ rules[2] \in {TagRule, LongRule}
    /\ part # "intake" => person = "NONE" /\ rules = <<OtherRule, TagRule>>
    /\ part # "documents" => backend = "clamav"

MCNext ==
    /\ UNCHANGED part
    /\ \/ part = "page" /\ SectionsNext /\ UNCHANGED <<siteVars, intakeVars, draftVars, docVars>>
       \/ part = "sites" /\ SubscribersNext
          /\ UNCHANGED <<sectionVars, intakeVars, draftVars, docVars>>
       \/ part = "intake" /\ IntakeNext /\ UNCHANGED <<sectionVars, siteVars, draftVars, docVars>>
       \/ part = "drafts" /\ DraftNext /\ UNCHANGED <<sectionVars, siteVars, intakeVars, docVars>>
       \/ part = "documents" /\ DocNext
          /\ UNCHANGED <<sectionVars, siteVars, intakeVars, draftVars>>

MCSpec == MCInit /\ [][MCNext]_<<part, sectionVars, siteVars, intakeVars, draftVars, docVars>>

TypeOK == SectionsTypeOK /\ SubscribersTypeOK /\ IntakeTypeOK /\ DraftTypeOK /\ DocTypeOK

=============================================================================
