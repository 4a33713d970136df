---------------------------- MODULE EventSeries ----------------------------
(***************************************************************************)
(* ONE event of a site: the dates materialized from its recurrence, the    *)
(* managers who cancel, restore and move them, the people who are invited  *)
(* and respond, and the mail they get about it.                            *)
(*                                                                         *)
(* Sources: events/models.py, services.py, forms.py, views.py,             *)
(* registration.py, messaging.py.  The views run in autocommit: a request  *)
(* saves the event, lists its dates, saves each and queues its notices in  *)
(* separate steps, others in between, and may die after any of them; a     *)
(* response is saved in one transaction and confirmed in another.          *)
(* update_occurrences_from and create_invitations are transactions that    *)
(* lock the rows they write.  Time is counted in days; titles, venues and  *)
(* visibility are left out, capacity and payment are TicketCommerce's.     *)
(***************************************************************************)
EXTENDS Naturals, Integers, FiniteSets

CONSTANTS
    MaxOccurrences,     \* MAX_MATERIALIZED_OCCURRENCES
    People,             \* contacts with an email address
    Organizers,         \* requests that may run at a time
    Horizon,            \* bound: the last day
    Edits,              \* bound: requests of the managers
    Responses,          \* bound: responses of the people
    Plans,              \* bound: what an event may be created as
    Forms               \* bound: what is entered in an occurrence form

Dates == 1..MaxOccurrences
Days == 1..Horizon
EventStatus == {"DRAFT", "PUBLISHED", "CANCELED", "ARCHIVED"}
DateStatus == {"SCHEDULED", "CANCELED", "ARCHIVED"}
Scopes == {"one", "future", "all"}

ASSUME SeriesAssumption ==
    /\ MaxOccurrences \in Nat /\ Horizon \in Nat \ {0} /\ Edits \in Nat /\ Responses \in Nat
    /\ Plans \subseteq [status : EventStatus, first : Days, gap : Nat \ {0}, until : Days]
    /\ Forms \subseteq [by : Int, scope : Scopes, status : DateStatus]

VARIABLES
    event,      \* Event.status, NONE before it is created
    date,       \* EventOccurrence: day (0: no row), status, canceled_by_event
    today,
    response,   \* Registration.response of each person for each date
    invitation, \* Invitation: the current token (0: none), the day it expires
    links,      \* the tokens in the invitations queued for a person
    mail,       \* the last thing a person was told about a date
    confirming, \* responses that are saved, their confirmation not queued yet
    req,        \* the requests of the managers
    requests,   \* requests so far (bound)
    answers,    \* responses so far (bound)
    \* For the properties only:
    crossed,    \* the last a person heard of a date is a confirmation that came after it was
                \* canceled, or its cancellation, the confirmation of a later response being lost
    clashed,    \* two requests that write the event or its dates overlapped
    died,       \* a request died between its steps
    detour,     \* a canceled event was saved as a draft or archived
    edited,     \* dates an occurrence_edit has written
    deliberate  \* dates a manager has canceled on their own, the event standing

history == <<clashed, died, detour, edited, deliberate>>
seriesVars == <<event, date, today, response, invitation, links, mail, confirming, crossed,
                req, requests, answers, history>>

NoDate == [day |-> 0, status |-> "SCHEDULED", byEvent |-> FALSE]
NoTask == [step |-> "idle",                                      \* what comes next
         from |-> "NONE", to |-> "NONE", changed |-> FALSE,     \* the status read, the form
         date |-> 0, seen |-> 0, by |-> 0, scope |-> "one",
         saves |-> FALSE, says |-> "ON", todo |-> {},           \* dates still to save and to tell
         token |-> 0, people |-> {}]                            \* invitations still to queue

SeriesInit ==
    /\ event = "NONE"
    /\ date = [d \in Dates |-> NoDate]
    /\ today = 1
    /\ response = [p \in People |-> [d \in Dates |-> "NONE"]]
    /\ invitation = [p \in People |-> [d \in Dates |-> [token |-> 0, expires |-> 0]]]
    /\ links = [p \in People |-> [d \in Dates |-> {}]]
    /\ mail = [p \in People |-> [d \in Dates |-> "NONE"]]
    /\ confirming = {} /\ crossed = {}
    /\ req = [m \in Organizers |-> NoTask]
    /\ requests = 0 /\ answers = 0
    /\ clashed = FALSE /\ died = FALSE /\ detour = FALSE /\ edited = {} /\ deliberate = {}

Rows == {d \in Dates : date[d].day # 0}
Ended(d) == date[d].day < today
Writing(m) == req[m].step \notin {"idle", "invite"}

\* A request begins; it clashes with the ones that are under way.
Begin(m, request) ==
    /\ req[m] = NoTask /\ requests < Edits
    /\ requests' = requests + 1
    /\ req' = [req EXCEPT ![m] = request]
    /\ clashed' = (clashed \/ \E n \in Organizers : Writing(n))
Continue(m, request) == req' = [req EXCEPT ![m] = request] /\ UNCHANGED <<requests, clashed>>

\* What is left of a request that has dates to go through.
GoOn(request, dates) ==
    IF dates = {} THEN NoTask
    ELSE [request EXCEPT !.todo = dates, !.step = IF request.saves THEN "save" ELSE "tell"]

-----------------------------------------------------------------------------
(* create_event_series *)

\* occurrence_starts: first, first + gap, ... until the last day.  A recurring series
\* is refused once it has produced MaxOccurrences dates, even if none is left to come.
Starts(first, gap, until) == {day \in first..until : (day - first) % gap = 0}

CreateEvent(plan) ==
    /\ event = "NONE"
    /\ plan.first # plan.until =>
          Cardinality(Starts(plan.first, plan.gap, plan.until)) < MaxOccurrences
    /\ event' = plan.status
    /\ date' = [d \in Dates |->
          LET day == plan.first + (d - 1) * plan.gap
          IN  IF day <= plan.until THEN [NoDate EXCEPT !.day = day] ELSE NoDate]
    /\ UNCHANGED <<today, response, confirming, answers, invitation, links, mail, crossed, req,
                   requests, history>>

-----------------------------------------------------------------------------
(* event_edit and cancel_event *)

\* The event is read and the form validated; `changed`: the status or a detail differs.
EditRead(m, to, changed) ==
    /\ event # "NONE" /\ (to # event => changed)
    /\ Begin(m, [NoTask EXCEPT !.step = "edit", !.from = event, !.to = to, !.changed = changed])
    /\ UNCHANGED <<event, date, today, response, confirming, answers, invitation, links, mail,
                   crossed, died, detour, edited, deliberate>>

EditSave(m) ==
    /\ req[m].step = "edit"
    /\ event' = req[m].to
    /\ detour' = (detour \/ (event = "CANCELED" /\ event' \in {"DRAFT", "ARCHIVED"}))
    /\ Continue(m, [req[m] EXCEPT !.step = "list"])
    /\ UNCHANGED <<date, today, response, confirming, answers, invitation, links, mail, crossed,
                   died, edited, deliberate>>

\* cancel_event saves the status whatever it was.
CancelEvent(m) ==
    /\ event # "NONE"
    /\ event' = "CANCELED"
    /\ Begin(m, [NoTask EXCEPT !.step = "list", !.to = "CANCELED"])
    /\ UNCHANGED <<date, today, response, confirming, answers, invitation, links, mail, crossed,
                   died, detour, edited, deliberate>>

\* The dates an event that is published again takes back.  Mutant: scheduled ones.
TakenBackNot == {d \in Rows : date[d].status = "SCHEDULED" /\ date[d].byEvent /\ ~Ended(d)}
TakenBack == {d \in Rows : date[d].status = "CANCELED" /\ date[d].byEvent /\ ~Ended(d)}

\* The branch taken after the save, and the dates it goes through.
ListDates(m) ==
    /\ req[m].step = "list"
    /\ LET from == req[m].from
           to == req[m].to
       IN  Continue(m,
              CASE to = "CANCELED" /\ from # "CANCELED" ->
                      GoOn([req[m] EXCEPT !.saves = TRUE, !.says = "CANCELED"],
                           {d \in Rows : date[d].status # "CANCELED"})
                [] to = "PUBLISHED" /\ from = "CANCELED" ->
                      GoOn([req[m] EXCEPT !.saves = TRUE], TakenBack)
                [] to = "PUBLISHED" /\ from # "CANCELED" /\ req[m].changed ->
                      GoOn(req[m], {d \in Rows : date[d].status = "SCHEDULED" /\ ~Ended(d)})
                [] OTHER -> NoTask)
    /\ UNCHANGED <<event, date, today, response, confirming, answers, invitation, links, mail,
                   crossed, died, detour, edited, deliberate>>

NextDate(m) == CHOOSE d \in req[m].todo : \A e \in req[m].todo : d <= e

\* Two columns of the date are saved, whatever they are by now.
SaveDate(m) ==
    /\ req[m].step = "save"
    /\ date' = [date EXCEPT
          ![NextDate(m)].status = IF req[m].says = "CANCELED" THEN "CANCELED" ELSE "SCHEDULED",
          ![NextDate(m)].byEvent = (req[m].says = "CANCELED")]
    /\ Continue(m, [req[m] EXCEPT !.step = "tell"])
    /\ UNCHANGED <<event, today, response, confirming, answers, invitation, links, mail, crossed,
                   died, detour, edited, deliberate>>

\* queue_occurrence_notice.  Mutant: only those who are going hear of it.
WhoHearGoing(d) == {p \in People : response[p][d] = "GOING"}
WhoHear(d) == {p \in People : response[p][d] \in {"GOING", "MAYBE"}}

TellDate(m) ==
    /\ req[m].step = "tell"
    /\ mail' = [p \in People |->
          IF p \in WhoHear(NextDate(m)) THEN [mail[p] EXCEPT ![NextDate(m)] = req[m].says] ELSE mail[p]]
    /\ crossed' = crossed \ (WhoHear(NextDate(m)) \X {NextDate(m)})
    /\ Continue(m, GoOn(req[m], req[m].todo \ {NextDate(m)}))
    /\ UNCHANGED <<event, date, today, response, confirming, answers, invitation, links, died,
                   detour, edited, deliberate>>

-----------------------------------------------------------------------------
(* occurrence_edit *)

DatesRead(m, d, form) ==
    /\ d \in Rows
    /\ Begin(m, [NoTask EXCEPT !.step = "dates", !.date = d, !.seen = date[d].day, !.by = form.by,
                             !.scope = form.scope, !.to = form.status])
    /\ UNCHANGED <<event, date, today, response, confirming, answers, invitation, links, mail,
                   crossed, died, detour, edited, deliberate>>

\* The dates update_occurrences_from writes: those of the scope, found by the day the
\* request has read.
InScope(m) ==
    {d \in Rows : CASE req[m].scope = "one" -> d = req[m].date
                    [] req[m].scope = "future" -> date[d].day >= req[m].seen
                    [] OTHER -> TRUE}

\* Each moves by as many days as the selected one was to move.
Moved(m, d) == IF d \in InScope(m) THEN date[d].day + req[m].by ELSE date[d].day

\* Two dates of an event never begin together, at the end of the update or, in the
\* order PostgreSQL happens to write the rows, on the way.
Collides(m) == \E c, d \in Rows : c # d /\ Moved(m, c) = Moved(m, d)
MayCollide(m) == \E c, d \in InScope(m) : c # d /\ Moved(m, c) = date[d].day

UpdateDates(m) ==
    /\ req[m].step = "dates"
    /\ \A d \in InScope(m) : Moved(m, d) \in Days
    /\ ~Collides(m)
    /\ date' = [d \in Dates |->
          IF d \in InScope(m) THEN [date[d] EXCEPT !.day = Moved(m, d), !.status = req[m].to] ELSE date[d]]
    /\ edited' = edited \union InScope(m)
    /\ deliberate' = IF req[m].to # "CANCELED" THEN deliberate \ InScope(m)
                     ELSE deliberate \union {d \in InScope(m) :
                                                  event # "CANCELED" /\ date[d].status = "SCHEDULED"}
    /\ Continue(m, GoOn([req[m] EXCEPT !.says = IF req[m].to = "CANCELED" THEN "CANCELED" ELSE "ON"],
                        InScope(m)))
    /\ UNCHANGED <<event, today, response, confirming, answers, invitation, links, mail, crossed,
                   died, detour>>

\* The unique constraint is violated; the transaction rolls back.
UpdateFails(m) ==
    /\ req[m].step = "dates" /\ (Collides(m) \/ MayCollide(m))
    /\ Continue(m, NoTask)
    /\ UNCHANGED <<event, date, today, response, confirming, answers, invitation, links, mail,
                   crossed, died, detour, edited, deliberate>>

\* The process ends between two steps of a request.
OrganizerDies(m) ==
    /\ req[m] # NoTask
    /\ died' = TRUE
    /\ Continue(m, NoTask)
    /\ UNCHANGED <<event, date, today, response, confirming, answers, invitation, links, mail,
                   crossed, detour, edited, deliberate>>

-----------------------------------------------------------------------------
(* Invitations, responses and reminders *)

\* create_invitations: who was invited before gets a new token, and the old one is dead.
CreateInvitations(m, d, people) ==
    /\ d \in Rows /\ people # {}
    /\ req[m] = NoTask /\ requests < Edits
    /\ requests' = requests + 1
    /\ invitation' = [p \in People |->
          IF p \in people THEN [invitation[p] EXCEPT ![d] = [token |-> requests', expires |-> date[d].day]]
          ELSE invitation[p]]
    /\ req' = [req EXCEPT ![m] =
          [NoTask EXCEPT !.step = "invite", !.date = d, !.people = people, !.token = requests']]
    /\ UNCHANGED <<event, date, today, response, confirming, answers, links, mail, crossed,
                   history>>

\* queue_invitation.  Mutant: nobody is sent a second link.
LinkOnce(p, d, token) == IF links[p][d] = {} THEN {token} ELSE links[p][d]
LinkAdded(p, d, token) == links[p][d] \union {token}

QueueInvitation(m, p) ==
    /\ req[m].step = "invite" /\ p \in req[m].people
    /\ links' = [links EXCEPT ![p][req[m].date] = LinkAdded(p, req[m].date, req[m].token)]
    /\ Continue(m, IF req[m].people = {p} THEN NoTask ELSE [req[m] EXCEPT !.people = @ \ {p}])
    /\ UNCHANGED <<event, date, today, response, confirming, answers, invitation, mail, crossed,
                   died, detour, edited, deliberate>>

\* save_response locks the date and its event.  The public pages close when the date is
\* over, an invitation when it expires, and a manager may respond at any time.  Of a
\* person about a date, one request at a time.
Respond(p, d, answer) ==
    /\ d \in Rows /\ <<p, d>> \notin confirming /\ answers < Responses
    /\ answers' = answers + 1
    /\ date[d].status = "SCHEDULED" /\ event = "PUBLISHED"
    /\ response' = [response EXCEPT ![p][d] = answer]
    /\ confirming' = confirming \union {<<p, d>>}
    /\ UNCHANGED <<event, date, today, invitation, links, mail, crossed, req, requests, history>>

\* queue_confirmation, which the view calls once the response is committed, whatever has
\* become of the date.
Confirm(p, d) ==
    /\ <<p, d>> \in confirming
    /\ confirming' = confirming \ {<<p, d>>}
    /\ mail' = [mail EXCEPT ![p][d] = "ON"]
    /\ crossed' = IF date[d].status = "CANCELED" THEN crossed \union {<<p, d>>} ELSE crossed \ {<<p, d>>}
    /\ UNCHANGED <<event, date, today, response, answers, invitation, links, req, requests,
                   history>>

\* The request dies between the two.
ConfirmationLost(p, d) ==
    /\ <<p, d>> \in confirming
    /\ confirming' = confirming \ {<<p, d>>}
    /\ crossed' = IF date[d].status = "SCHEDULED" /\ mail[p][d] = "CANCELED"
                  THEN crossed \union {<<p, d>>} ELSE crossed
    /\ UNCHANGED <<event, date, today, response, answers, invitation, links, mail, req, requests,
                   history>>

\* queue_due_reminders: the day before, whatever the status of the date.
Remind(p, d) ==
    /\ d \in Rows /\ date[d].day = today + 1
    /\ response[p][d] = "GOING" /\ mail[p][d] # "REMINDER"
    /\ mail' = [mail EXCEPT ![p][d] = "REMINDER"]
    /\ UNCHANGED <<event, date, today, response, confirming, answers, invitation, links, crossed,
                   req, requests, history>>

DayPasses ==
    /\ today < Horizon
    /\ today' = today + 1
    /\ UNCHANGED <<event, date, response, confirming, answers, invitation, links, mail, crossed,
                   req, requests, history>>

SeriesNext ==
    \/ \E plan \in Plans : CreateEvent(plan)
    \/ \E m \in Organizers :
          \/ \E to \in EventStatus, changed \in BOOLEAN : EditRead(m, to, changed)
          \/ EditSave(m) \/ CancelEvent(m) \/ ListDates(m) \/ SaveDate(m) \/ TellDate(m)
          \/ \E d \in Dates, form \in Forms : DatesRead(m, d, form)
          \/ UpdateDates(m) \/ UpdateFails(m) \/ OrganizerDies(m)
          \/ \E d \in Dates, people \in SUBSET People : CreateInvitations(m, d, people)
          \/ \E p \in People : QueueInvitation(m, p)
    \/ \E p \in People, d \in Dates :
          \/ \E answer \in {"GOING", "MAYBE", "NOT_GOING"} : Respond(p, d, answer)
          \/ Confirm(p, d) \/ ConfirmationLost(p, d) \/ Remind(p, d)
    \/ DayPasses

SeriesSpec == SeriesInit /\ [][SeriesNext]_seriesVars

-----------------------------------------------------------------------------
(* Properties *)

SeriesTypeOK ==
    /\ event \in EventStatus \union {"NONE"}
    /\ date \in [Dates -> [day : 0..Horizon, status : DateStatus, byEvent : BOOLEAN]]
    /\ today \in Days /\ requests \in 0..Edits /\ answers \in 0..Responses
    /\ response \in [People -> [Dates -> {"NONE", "GOING", "MAYBE", "NOT_GOING"}]]
    /\ invitation \in [People -> [Dates -> [token : 0..Edits, expires : 0..Horizon]]]
    /\ links \in [People -> [Dates -> SUBSET (1..Edits)]]
    /\ mail \in [People -> [Dates -> {"NONE", "ON", "CANCELED", "REMINDER"}]]
    /\ confirming \subseteq People \X Dates /\ crossed \subseteq People \X Dates
    /\ DOMAIN req = Organizers
    /\ clashed \in BOOLEAN /\ died \in BOOLEAN /\ detour \in BOOLEAN
    /\ edited \subseteq Dates /\ deliberate \subseteq Dates

SeriesQuiet == ~clashed /\ ~died /\ \A m \in Organizers : ~Writing(m)

\* "Cancellation notifies affected registrants": when no request is under way, was cut
\* short or overlapped another, whoever may come has last been told what is true of the
\* date - but for a reminder, which is sent for a canceled date as well, and for those
\* whose own response is still to be confirmed, or was confirmed too late or never.
ToldTheTruth ==
    SeriesQuiet => \A p \in People, d \in Rows :
      response[p][d] \in {"GOING", "MAYBE"} /\ <<p, d>> \notin crossed =>
        /\ date[d].status = "CANCELED" => mail[p][d] \in {"CANCELED", "REMINDER"}
        /\ date[d].status = "SCHEDULED" /\ mail[p][d] = "CANCELED" => <<p, d>> \in confirming

\* An event that is published again has all the dates its cancellation took down, except
\* those that were over or were edited, and unless it was a draft in between.
DatesRestored ==
    SeriesQuiet /\ ~detour /\ event = "PUBLISHED" =>
        \A d \in Rows \ edited : date[d].status = "CANCELED" => Ended(d)

\* The newest link of an invitation, the only one that works, has been queued, unless the
\* request that made it is still at it or died.
InviteeHasLink ==
    \A p \in People, d \in Dates : invitation[p][d].token # 0 /\ ~died =>
        \/ invitation[p][d].token \in links[p][d]
        \/ \E m \in Organizers : req[m].step = "invite" /\ p \in req[m].people
                               /\ req[m].date = d /\ req[m].token = invitation[p][d].token

\* "Lets un-canceling the event restore exactly the dates it took down, without reviving
\* a date someone deliberately canceled beforehand."
NotRevived == ~clashed /\ ~died => \A d \in deliberate : date[d].status = "CANCELED"

=============================================================================
