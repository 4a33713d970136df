------------------------------ MODULE AIDrafts ------------------------------
(***************************************************************************)
(* One AI content draft.  A request saves the manager's instructions and   *)
(* then asks the provider, for up to 45 seconds and without a transaction; *)
(* the row keeps its previous text and status until the answer is saved.   *)
(*                                                                         *)
(* Sources: workspace/views.py, ai_services.py, models.py.  The title, the *)
(* context and the kind of content count as part of the instructions.      *)
(***************************************************************************)
CONSTANTS
    Writers,        \* requests at a time
    Instructions    \* what managers ask for

VARIABLES
    draft,      \* AIContentDraft: asked, output (the instructions it was written from), status
    writing,    \* of each request: its step, what it asks for, the row it has read, and
                \* whether it has been alone so far
    muddled     \* for the property: requests have overlapped, or one ended without a saved
                \* answer, since the last answer to a request that ran alone

draftVars == <<draft, writing, muddled>>

Nothing == "nothing"
AtRest == [step |-> "rest"]
DraftRow == [asked : Instructions, output : Instructions \union {Nothing},
             status : {"DRAFT", "GENERATED", "FAILED"}]

DraftInit ==
    /\ draft = AtRest
    /\ writing = [w \in Writers |-> AtRest]
    /\ muddled = FALSE

Undisturbed(w) == \A u \in Writers \ {w} : writing[u] = AtRest

\* ai_draft_create: the row is saved before the provider is asked.
DraftCreate(w, i) ==
    /\ draft = AtRest
    /\ draft' = [asked |-> i, output |-> Nothing, status |-> "DRAFT"]
    /\ writing' = [writing EXCEPT ![w] = [step |-> "ask", asked |-> i, alone |-> TRUE]]
    /\ UNCHANGED muddled

\* ai_draft_detail reads the row, and its form then saves every column of it.
DraftRead(w, i) ==
    /\ draft # AtRest /\ writing[w] = AtRest
    /\ writing' = [u \in Writers |->
            IF u = w THEN [step |-> "save", asked |-> i, row |-> draft, alone |-> Undisturbed(w)]
            ELSE IF writing[u] = AtRest THEN AtRest ELSE [writing[u] EXCEPT !.alone = FALSE]]
    /\ muddled' = (muddled \/ ~Undisturbed(w))
    /\ UNCHANGED draft

DraftSave(w) ==
    /\ writing[w].step = "save"
    /\ draft' = [writing[w].row EXCEPT !.asked = writing[w].asked]
    /\ writing' = [writing EXCEPT ![w] =
            [step |-> "ask", asked |-> writing[w].asked, alone |-> writing[w].alone]]
    /\ UNCHANGED muddled

\* generate_content returns a text, the provider's or the local template's.
Generated(w) ==
    /\ writing[w].step = "ask"
    /\ draft' = [draft EXCEPT !.output = writing[w].asked, !.status = "GENERATED"]
    /\ writing' = [writing EXCEPT ![w] = AtRest]
    /\ muddled' = (muddled /\ ~writing[w].alone)

\* It raises RuntimeError: no answer, a timeout, or no usable content.  The previous text stays.
FailedKeepsStatus(row) == row
Failing(row) == [row EXCEPT !.status = "FAILED"]
GenerationFails(w) ==
    /\ writing[w].step = "ask"
    /\ draft' = Failing(draft)
    /\ writing' = [writing EXCEPT ![w] = AtRest]
    /\ muddled' = (muddled /\ ~writing[w].alone)

\* The process dies, or an answer that generate_content does not expect raises another error.
WriterDies(w) ==
    /\ writing[w] # AtRest
    /\ writing' = [writing EXCEPT ![w] = AtRest]
    /\ muddled' = TRUE
    /\ UNCHANGED draft

DraftNext ==
    \E w \in Writers :
        \/ \E i \in Instructions : DraftCreate(w, i) \/ DraftRead(w, i)
        \/ DraftSave(w) \/ Generated(w) \/ GenerationFails(w) \/ WriterDies(w)

DraftSpec == DraftInit /\ [][DraftNext]_draftVars

-----------------------------------------------------------------------------
(* Properties *)

DraftTypeOK ==
    /\ draft \in DraftRow \union {AtRest}
    /\ \A w \in Writers : writing[w].step \in {"rest", "save", "ask"}
    /\ muddled \in BOOLEAN

\* A text is shown as generated for instructions it was not written from only while a request
\* is under way, or after requests overlapped or one of them died; the next request that runs
\* alone heals the draft, whether the provider answers it or fails.
DraftMatches ==
    (\A w \in Writers : writing[w] = AtRest) /\ ~muddled /\ draft # AtRest =>
        /\ draft.status # "DRAFT"
        /\ draft.status = "GENERATED" => draft.output = draft.asked

=============================================================================
