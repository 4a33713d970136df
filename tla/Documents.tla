------------------------------ MODULE Documents ------------------------------
(***************************************************************************)
(* A site's documents: rows in the database and files in storage, which no *)
(* transaction joins.  An upload is scanned while the form is validated,   *)
(* its file is stored and then its row; a deletion removes the file first. *)
(*                                                                         *)
(* Sources: workspace/views.py, forms.py, file_scanning.py.  Titles, links *)
(* to events, contacts and tasks, and storage keys are left out.           *)
(***************************************************************************)
EXTENDS FiniteSets

CONSTANTS
    Admins,     \* requests of the subscriber's administrator
    Managers,   \* requests of site managers
    DocIds,     \* documents ever uploaded (bound)
    Backends    \* DOCUMENT_UPLOAD_SCAN_BACKEND, as deployments set it

VARIABLES
    backend,    \* the setting of this deployment
    docs,       \* Document rows: who may see them
    files,     \* files in storage: TRUE when malware is in them
    used,       \* ids used so far
    handling,   \* of each request: its step and its document
    cut         \* for the property: documents whose deletion died between file and row

docVars == <<backend, docs, files, used, handling, cut>>

Colleagues == Admins \union Managers
Free == [step |-> "free"]

DocInit ==
    /\ backend \in Backends
    /\ docs = <<>> /\ files = <<>> /\ used = {}
    /\ handling = [c \in Colleagues |-> Free]
    /\ cut = {}

Does(c, what) == handling' = [handling EXCEPT ![c] = what]

\* What the scanner may answer: External, it knows malware when it answers at all.
Answers(infected) ==
    CASE backend = "disabled" -> {"clean"}
      [] backend \in {"clamav", "cloudmersive"} ->
            {"unavailable", IF infected THEN "detected" ELSE "clean"}
      [] OTHER -> {"unavailable"}

\* scan_upload raises for a detection, and for every answer that is not a clean one.
UnlessDetected(answer) == answer # "detected"
Accepted(answer) == answer = "clean"

\* document_upload: the form's choices leave "admin" to the administrator.
Scan(c, d, infected, visibility) ==
    /\ handling[c] = Free /\ d \notin used
    /\ visibility = "admin" => c \in Admins
    /\ \E answer \in Answers(infected) : Accepted(answer)
    /\ used' = used \union {d}
    /\ Does(c, [step |-> "scanned", doc |-> d, infected |-> infected, visibility |-> visibility])
    /\ UNCHANGED <<backend, docs, files, cut>>

StoreFile(c) ==
    /\ handling[c].step = "scanned"
    /\ files' = [d \in DOMAIN files \union {handling[c].doc} |->
                    IF d = handling[c].doc THEN handling[c].infected ELSE files[d]]
    /\ Does(c, [handling[c] EXCEPT !.step = "stored"])
    /\ UNCHANGED <<backend, docs, used, cut>>

InsertRow(c) ==
    /\ handling[c].step = "stored"
    /\ docs' = [d \in DOMAIN docs \union {handling[c].doc} |->
                    IF d = handling[c].doc THEN handling[c].visibility ELSE docs[d]]
    /\ Does(c, Free)
    /\ UNCHANGED <<backend, files, used, cut>>

Without(f, d) == [e \in DOMAIN f \ {d} |-> f[e]]

\* document_delete: the file, then the row it read before; two deletions of a document both
\* succeed.
MayHandle(c, d) == docs[d] = "admin" => c \in Admins
DeleteRead(c, d) ==
    /\ handling[c] = Free
    /\ MayHandle(c, d)
    /\ Does(c, [step |-> "delete", doc |-> d])
    /\ UNCHANGED <<backend, docs, files, used, cut>>

DeleteFile(c) ==
    /\ handling[c].step = "delete"
    /\ files' = Without(files, handling[c].doc)
    /\ Does(c, [handling[c] EXCEPT !.step = "row"])
    /\ UNCHANGED <<backend, docs, used, cut>>

DeleteRow(c) ==
    /\ handling[c].step = "row"
    /\ docs' = Without(docs, handling[c].doc)
    /\ cut' = cut \ {handling[c].doc}
    /\ Does(c, Free)
    /\ UNCHANGED <<backend, files, used>>

\* The process dies, or storage or the database refuses a step: nothing is undone.
HandlingDies(c) ==
    /\ handling[c] # Free
    /\ Does(c, Free)
    /\ cut' = IF handling[c].step = "row" THEN cut \union {handling[c].doc} ELSE cut
    /\ UNCHANGED <<backend, docs, files, used>>

DocNext ==
    \E c \in Colleagues :
        \/ \E d \in DocIds, infected \in BOOLEAN, visibility \in {"staff", "admin", "public"} :
                Scan(c, d, infected, visibility)
        \/ \E d \in DOMAIN docs : DeleteRead(c, d)
        \/ StoreFile(c) \/ InsertRow(c) \/ DeleteFile(c) \/ DeleteRow(c) \/ HandlingDies(c)

DocSpec == DocInit /\ [][DocNext]_docVars

-----------------------------------------------------------------------------
(* Properties *)

DocTypeOK ==
    /\ backend \in Backends
    /\ DOMAIN docs \subseteq used /\ DOMAIN files \subseteq used /\ used \subseteq DocIds
    /\ \A d \in DOMAIN files : files[d] \in BOOLEAN
    /\ cut \subseteq DocIds

\* A listed document can be downloaded, unless it is being deleted or its deletion died
\* half-way; and nothing malicious is in storage, listed or orphaned, where a scanner is
\* configured, whatever answers the scanner gives.
DocumentSound ==
    /\ \A d \in DOMAIN docs :
        \/ d \in DOMAIN files \/ d \in cut
        \/ \E c \in Colleagues : handling[c].step = "row" /\ handling[c].doc = d
    /\ \A d \in DOMAIN files : files[d] => backend = "disabled"

=============================================================================
