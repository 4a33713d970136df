-------------------------- MODULE IntakeAutomation --------------------------
(***************************************************************************)
(* Responses to one public form and the automation rules they trigger.     *)
(* intake_public runs without a transaction: it looks the visitor's        *)
(* contact up, writes it, stores the response, reads the rules once, and   *)
(* runs them one by one, each with an effect, a verdict and an activity    *)
(* entry committed on their own.  Managers edit the form and the rules     *)
(* meanwhile, and run rules by hand.                                       *)
(*                                                                         *)
(* Sources: workspace/views.py, services.py, forms.py, models.py.  The     *)
(* form's own fields, templates, last_run_at and the contact's columns     *)
(* other than its name are left out.                                       *)
(***************************************************************************)
EXTENDS Naturals, FiniteSets, FiniteSetsExt

CONSTANTS
    Visitors,       \* responses, each posted once and all with the same address
    Staff,          \* managers who may run a rule by hand
    Rules,          \* 1..n, in the order of their names
    RuleRows,       \* what managers save a rule as: [trigger, form, action, active, long]
    FormRows,       \* what they save the form as: [open, link, long]
    MaxChanges      \* edits of the form and the rules (bound)

Triggers == {"FORM_SUBMITTED", "MANUAL"}    \* the other triggers are never dispatched
FormIds == {"ANY", "THIS", "OTHER"}         \* trigger_config's form_id; ANY when it is blank
Actions == {"CREATE_TASK", "ADD_CONTACT_TAG", "RECORD_ACTIVITY"}

ASSUME IntakeAssumption ==
    /\ Rules \subseteq Nat /\ MaxChanges \in Nat /\ Visitors \intersect Staff = {}
    /\ RuleRows \subseteq [trigger : Triggers, form : FormIds, action : Actions,
                           active : BOOLEAN, long : BOOLEAN]
    /\ FormRows \subseteq [open : BOOLEAN, link : BOOLEAN, long : BOOLEAN]

VARIABLES
    form,       \* IntakeForm: accepts_responses, create_or_update_contact, and whether the
                \* activity entry with its title exceeds the column's 180 characters
    rules,      \* AutomationRule rows, one not created yet like a paused one; long: likewise for
                \* the entry with the rule's name
    person,     \* the contact with the visitors' address: NONE, UNNAMED or NAMED
    posting,    \* of each visitor and manager: its step, and what it has read
    stored,     \* visitors with an IntakeSubmission
    effects,    \* [by, rule]: tasks created, tags added, activities recorded
    runs,       \* AutomationRun rows: [by, rule, status]
    changes,    \* edits so far
    always,     \* for the property, of each visitor: rules for it that were active ever since,
    ever        \* and rules for it that were active at some time, since its request began

intakeVars == <<form, rules, person, posting, stored, effects, runs, changes, always, ever>>

Actors == Visitors \union Staff
Away == [step |-> "away"]

IntakeInit ==
    /\ form \in FormRows /\ form.open
    /\ rules \in [Rules -> RuleRows]
    /\ person \in {"NONE", "UNNAMED", "NAMED"}
    /\ posting = [a \in Actors |-> Away]
    /\ stored = {} /\ effects = {} /\ runs = {} /\ changes = 0
    /\ always = [v \in Visitors |-> {}] /\ ever = [v \in Visitors |-> {}]

-----------------------------------------------------------------------------
(* Managers *)

\* dispatch_automation_trigger's query, and the form_id it skips a rule by
ForThisForm(row) == row.form \in {"ANY", "THIS"}
Active(row) == row.active /\ row.trigger = "FORM_SUBMITTED"
Triggered(table) == {r \in DOMAIN table : Active(table[r]) /\ ForThisForm(table[r])}

\* automation_create and automation_detail: the form saves the rule's whole row.
SaveRule(r, row) ==
    /\ changes < MaxChanges
    /\ rules' = [rules EXCEPT ![r] = row]
    /\ changes' = changes + 1
    /\ always' = [v \in Visitors |-> always[v] \intersect Triggered(rules')]
    /\ ever' = [v \in Visitors |->
                    IF posting[v] = Away THEN {} ELSE ever[v] \union Triggered(rules')]
    /\ UNCHANGED <<form, person, posting, stored, effects, runs>>

\* intake_form_detail; closes_at passing closes the form like a manager does.
SaveForm(row) ==
    /\ changes < MaxChanges
    /\ form' = row
    /\ changes' = changes + 1
    /\ UNCHANGED <<rules, person, posting, stored, effects, runs, always, ever>>

\* automation_run: whatever the rule's trigger is, active or not, and without a contact
RunByHand(m, r) ==
    /\ posting[m] = Away
    /\ posting' = [posting EXCEPT ![m] =
            [step |-> "run", contact |-> FALSE, queue |-> {r}, rows |-> rules]]
    /\ UNCHANGED <<form, rules, person, stored, effects, runs, changes, always, ever>>

-----------------------------------------------------------------------------
(* A visitor's response, up to the rules *)

Turns(a, next) == posting' = [posting EXCEPT ![a] = next]

\* The form is read and found open, reCAPTCHA passed, and the contact looked up when the form
\* asks for contacts; one that needs no name is not written.
Post(v) ==
    /\ posting[v] = Away
    /\ form.open
    /\ Turns(v, [step |-> IF form.link /\ person # "NAMED" THEN "matched" ELSE "linked",
                 form |-> form, contact |-> form.link, found |-> person])
    /\ always' = [always EXCEPT ![v] = Triggered(rules)]
    /\ ever' = [ever EXCEPT ![v] = Triggered(rules)]
    /\ UNCHANGED <<form, rules, person, stored, effects, runs, changes>>

\* The same person signs up for the newsletter, or a manager enters the contact.
ContactFromElsewhere ==
    /\ person = "NONE"
    /\ person' \in {"UNNAMED", "NAMED"}
    /\ UNCHANGED <<form, rules, posting, stored, effects, runs, changes, always, ever>>

\* contact.save() or Contact.create(): another request may have created the contact since,
\* and the unique index then ends the request with an IntegrityError.
SaveContact(v) ==
    /\ posting[v].step = "matched"
    /\ IF posting[v].found = "NONE" /\ person # "NONE"
       THEN Turns(v, [step |-> "lost"]) /\ UNCHANGED person
       ELSE Turns(v, [posting[v] EXCEPT !.step = "linked"]) /\ person' = "NAMED"
    /\ UNCHANGED <<form, rules, stored, effects, runs, changes, always, ever>>

\* submission.full_clean() and save(); a number is answered by a Decimal, which response_data's
\* JSON refuses.
Store(v) ==
    /\ posting[v].step = "linked"
    /\ \/ /\ stored' = stored \union {v}
          /\ Turns(v, [posting[v] EXCEPT !.step = "stored"])
       \/ UNCHANGED stored /\ Turns(v, [step |-> "lost"])
    /\ UNCHANGED <<form, rules, person, effects, runs, changes, always, ever>>

-----------------------------------------------------------------------------
(* Rules *)

\* What a `break` for the loop's `continue` would run
UpToTheFirstOther(table) ==
    {r \in Triggered(table) :
        \A q \in DOMAIN table : q < r /\ Active(table[q]) => ForThisForm(table[q])}

\* The rules are read once; later edits do not change what the request runs.
Chosen(table) == Triggered(table)
Dispatch(v) ==
    /\ posting[v].step = "stored"
    /\ Turns(v, [step |-> "run", contact |-> posting[v].contact, queue |-> Chosen(rules),
                rows |-> rules, long |-> posting[v].form.long])
    /\ UNCHANGED <<form, rules, person, stored, effects, runs, changes, always, ever>>

ThisRule(a) == Min(posting[a].queue)
RunRow(a, status) == [by |-> a, rule |-> ThisRule(a), status |-> status]
Rest(a) == [posting[a] EXCEPT !.step = "run", !.queue = @ \ {ThisRule(a)}]

\* A tag rule without a contact is recorded as skipped.
Skip(a) ==
    /\ posting[a].step = "run" /\ posting[a].queue # {}
    /\ posting[a].rows[ThisRule(a)].action = "ADD_CONTACT_TAG" /\ ~posting[a].contact
    /\ runs' = runs \union {RunRow(a, "SKIPPED")}
    /\ Turns(a, Rest(a))
    /\ UNCHANGED <<form, rules, person, stored, effects, changes, always, ever>>

\* The action's effect is committed, or raises (a priority longer than its column, say).
Act(a) ==
    /\ posting[a].step = "run" /\ posting[a].queue # {}
    /\ posting[a].rows[ThisRule(a)].action = "ADD_CONTACT_TAG" => posting[a].contact
    /\ \/ /\ effects' = effects \union {[by |-> a, rule |-> ThisRule(a)]}
          /\ Turns(a, [posting[a] EXCEPT !.step = "acted"])
          /\ UNCHANGED runs
       \/ /\ runs' = runs \union {RunRow(a, "FAILED")}
          /\ Turns(a, Rest(a))
          /\ UNCHANGED effects
    /\ UNCHANGED <<form, rules, person, stored, changes, always, ever>>

\* last_run_at, the SUCCEEDED run and its activity entry; the handler that records a failure
\* encloses all three, so an entry that is too long adds a FAILED run to the SUCCEEDED one.
Verdicts(row) == IF row.long THEN {"SUCCEEDED", "FAILED"} ELSE {"SUCCEEDED"}
Record(a) ==
    /\ posting[a].step = "acted"
    /\ \/ runs' = runs \union {RunRow(a, status) : status \in Verdicts(posting[a].rows[ThisRule(a)])}
       \/ runs' = runs \union {RunRow(a, "FAILED")}     \* the first two writes failed
    /\ Turns(a, Rest(a))
    /\ UNCHANGED <<form, rules, person, stored, effects, changes, always, ever>>

\* The response's own activity entry, then the page that thanks the visitor
Thank(v) ==
    /\ posting[v].step = "run" /\ posting[v].queue = {}
    /\ Turns(v, [step |-> IF posting[v].long THEN "lost" ELSE "thanked"])
    /\ UNCHANGED <<form, rules, person, stored, effects, runs, changes, always, ever>>

HandDone(m) ==
    /\ posting[m].step = "run" /\ posting[m].queue = {}
    /\ Turns(m, [step |-> "done"])
    /\ UNCHANGED <<form, rules, person, stored, effects, runs, changes, always, ever>>

\* The process dies, or the database refuses a write no handler covers.
PostingDies(a) ==
    /\ posting[a].step \in {"matched", "linked", "stored", "run", "acted"}
    /\ Turns(a, [step |-> "lost"])
    /\ UNCHANGED <<form, rules, person, stored, effects, runs, changes, always, ever>>

IntakeNext ==
    \/ \E r \in Rules, row \in RuleRows : SaveRule(r, row)
    \/ \E row \in FormRows : SaveForm(row)
    \/ ContactFromElsewhere
    \/ \E m \in Staff : HandDone(m) \/ \E r \in Rules : RunByHand(m, r)
    \/ \E v \in Visitors :
        Post(v) \/ SaveContact(v) \/ Store(v) \/ Dispatch(v) \/ Thank(v)
    \/ \E a \in Actors : Skip(a) \/ Act(a) \/ Record(a) \/ PostingDies(a)

IntakeSpec == IntakeInit /\ [][IntakeNext]_intakeVars

-----------------------------------------------------------------------------
(* Properties *)

IntakeTypeOK ==
    /\ form \in FormRows
    /\ rules \in [Rules -> RuleRows]
    /\ person \in {"NONE", "UNNAMED", "NAMED"}
    /\ stored \subseteq Visitors /\ changes \in 0..MaxChanges
    /\ effects \subseteq [by : Actors, rule : Rules]
    /\ runs \subseteq [by : Actors, rule : Rules, status : {"SUCCEEDED", "SKIPPED", "FAILED"}]
    /\ \A v \in Visitors : always[v] \subseteq ever[v] /\ ever[v] \subseteq Rules

\* "Form trigger and every enabled action execute once ... Paused rules do not run": a visitor
\* who was thanked has a stored response; every rule that was active for the form all the
\* while has a verdict for that response, and no rule that was paused all the while has one.
\* A verdict of success comes with its effect, and an effect without one was recorded as a
\* failure.  Whatever happens to requests that are not thanked, and whatever managers do
\* meanwhile.
RulesAnswered ==
    \A v \in Visitors : posting[v].step = "thanked" =>
        LET status(r) == {run.status : run \in {q \in runs : q.by = v /\ q.rule = r}}
            acted == {f.rule : f \in {f \in effects : f.by = v}}
        IN  /\ v \in stored
            /\ \A r \in always[v] : status(r) # {}
            /\ \A r \in Rules : status(r) # {} => r \in ever[v]
            /\ \A r \in Rules : "SUCCEEDED" \in status(r) => r \in acted
            /\ \A r \in acted : status(r) \intersect {"SUCCEEDED", "FAILED"} # {}

=============================================================================
