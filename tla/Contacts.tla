------------------------------ MODULE Contacts ------------------------------
(***************************************************************************)
(* ONE email address of a site: its contact, the contact's email consent   *)
(* and its member row.  Managers create, edit and archive the contact, the *)
(* person signs up for the newsletter or opts out, and the mail provider   *)
(* reports bounces, complaints and opt-outs.                               *)
(*                                                                         *)
(* Sources: contacts/models.py, services.py, views.py, forms.py; the       *)
(* consent part of communications/callbacks.py and campaigns.unsubscribe.  *)
(* A visit stands for the request that has read the contact without a lock *)
(* and will save what it has read; unsubscribe locks the row and is one    *)
(* step.  Names, tags, notes and the second channel are left out.          *)
(***************************************************************************)
EXTENDS Naturals

Consents == {"UNKNOWN", "GRANTED", "WITHDRAWN", "SUPPRESSED"}
Trackings == {"NONE", "ACTIVE", "INACTIVE"}     \* the member row; NONE is "contact only"

VARIABLES
    contact,    \* Contact: does it exist, is it archived, its email consent
    member,     \* Member.administrative_status, NONE without a row
    visit       \* a request between reading the contact and saving it

contactVars == <<contact, member, visit>>

NoContact == [exists |-> FALSE, archived |-> FALSE, consent |-> "UNKNOWN"]

\* subscribed: the member had subscriptions when the form was validated;
\* wish: the consent the request will record, NONE for a manager's form.
NoVisit == [kind |-> "none", archived |-> FALSE, consent |-> "UNKNOWN",
            subscribed |-> FALSE, wish |-> "NONE"]

ContactInit ==
    /\ contact = NoContact
    /\ member = "NONE"
    /\ visit = NoVisit

-----------------------------------------------------------------------------
(* Helpers *)

\* _record_consent: what is recorded when `wish` meets the consent as it was read.
\* Mutant: a suppression gives way.
RecordedAlways(read, wish) == wish
Recorded(read, wish) == IF read = "SUPPRESSED" /\ wish # "SUPPRESSED" THEN read ELSE wish

Wish(granted) == IF granted THEN "GRANTED" ELSE "WITHDRAWN"

\* The end of save_contact_from_form.  Mutant: the member row goes whatever hangs on it.
MemberSavedOrGone(tracking, subscribed) == tracking
MemberSaved(tracking, subscribed) ==
    IF tracking # "NONE" THEN tracking
    ELSE IF member # "NONE" /\ subscribed THEN "INACTIVE" ELSE "NONE"

-----------------------------------------------------------------------------
(* Managers.  `subscribed` says whether the member has subscriptions now. *)

\* contact_create; an address is used once per site.
ContactCreate(granted, tracking) ==
    /\ ~contact.exists
    /\ contact' = [exists |-> TRUE, archived |-> FALSE,
                   consent |-> IF granted THEN "GRANTED" ELSE "UNKNOWN"]
    /\ member' = tracking
    /\ UNCHANGED visit

\* contact_edit reads the contact and validates the form ...
EditContact(subscribed) ==
    /\ contact.exists /\ visit.kind = "none"
    /\ visit' = [kind |-> "edit", archived |-> contact.archived, consent |-> contact.consent,
                 subscribed |-> subscribed, wish |-> "NONE"]
    /\ UNCHANGED <<contact, member>>

\* ... and contact.save() writes every column as it was read, before the consent of
\* the form is recorded and the member row follows the form.
SaveContact(granted, tracking, subscribed) ==
    /\ visit.kind = "edit"
    /\ tracking = "NONE" => ~(member # "NONE" /\ visit.subscribed)
    /\ contact' = [exists |-> TRUE, archived |-> visit.archived,
                   consent |-> Recorded(visit.consent, Wish(granted))]
    /\ member' = MemberSaved(tracking, subscribed)
    /\ visit' = NoVisit

\* The form is invalid or the page is left.
VisitEnds ==
    /\ visit.kind # "none"
    /\ visit' = NoVisit
    /\ UNCHANGED <<contact, member>>

\* contact_archive; consent is kept.
ArchiveContact ==
    /\ contact.exists
    /\ contact' = [contact EXCEPT !.archived = TRUE]
    /\ UNCHANGED <<member, visit>>

-----------------------------------------------------------------------------
(* The person and the mail provider *)

\* subscribe_to_newsletter of an unknown address
NewsletterCreates ==
    /\ ~contact.exists
    /\ contact' = [exists |-> TRUE, archived |-> FALSE, consent |-> "GRANTED"]
    /\ UNCHANGED <<member, visit>>

\* A newsletter sign-up (GRANTED) or the provider's "unsubscribed" (WITHDRAWN) reads
\* the contact ...
ConsentRead(wish) ==
    /\ contact.exists /\ visit.kind = "none"
    /\ visit' = [kind |-> "consent", archived |-> contact.archived, consent |-> contact.consent,
                 subscribed |-> FALSE, wish |-> wish]
    /\ UNCHANGED <<contact, member>>

\* ... and writes the consent column alone, if it decided to; a sign-up also takes
\* the contact out of the archive.
ConsentSave ==
    /\ visit.kind = "consent"
    /\ contact' = [contact EXCEPT
          !.archived = @ /\ ~(visit.wish = "GRANTED" /\ visit.archived),
          !.consent = IF Recorded(visit.consent, visit.wish) = visit.consent
                      THEN @ ELSE visit.wish]
    /\ visit' = NoVisit
    /\ UNCHANGED member

\* campaigns.unsubscribe locks the contact with the capability.
Unsubscribe ==
    /\ contact.exists
    /\ contact' = [contact EXCEPT !.consent = Recorded(@, "WITHDRAWN")]
    /\ UNCHANGED <<member, visit>>

\* A bounce, a complaint or the provider's own suppression.
Suppressed ==
    /\ contact.exists
    /\ contact' = [contact EXCEPT !.consent = "SUPPRESSED"]
    /\ UNCHANGED <<member, visit>>

\* Everything above; subscribed is a state function of the module that composes.
ContactStep(subscribed) ==
    \/ \E granted \in BOOLEAN, tracking \in Trackings :
          ContactCreate(granted, tracking) \/ SaveContact(granted, tracking, subscribed)
    \/ EditContact(subscribed) \/ VisitEnds \/ ArchiveContact
    \/ NewsletterCreates
    \/ \E wish \in {"GRANTED", "WITHDRAWN"} : ConsentRead(wish)
    \/ ConsentSave \/ Unsubscribe \/ Suppressed

-----------------------------------------------------------------------------
(* Properties *)

ContactTypeOK ==
    /\ contact \in [exists : BOOLEAN, archived : BOOLEAN, consent : Consents]
    /\ member \in Trackings
    /\ visit \in [kind : {"none", "edit", "consent"}, archived : BOOLEAN, consent : Consents,
                  subscribed : BOOLEAN, wish : {"NONE", "GRANTED", "WITHDRAWN"}]

\* "Preserve suppression records when contacts are archived so they are not
\* accidentally re-subscribed": no sign-up, opt-out, archiving or edit ends a
\* suppression, except a request that read the contact before it was suppressed.
SuppressionKept ==
    [][contact.consent = "SUPPRESSED" /\ contact'.consent # "SUPPRESSED"
          => visit.kind # "none" /\ visit.consent # "SUPPRESSED"]_contactVars

=============================================================================
