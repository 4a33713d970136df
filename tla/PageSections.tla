--------------------------- MODULE PageSections ---------------------------
(***************************************************************************)
(* The sections of one page of a website.  Managers add, move, save and    *)
(* delete sections, fill photo strips and save the page itself, whose body *)
(* is mirrored into a legacy section.  page_edit runs without a            *)
(* transaction: each request reads rows first and writes what follows from *)
(* them later, every write committed on its own.                           *)
(*                                                                         *)
(* Sources: content/views.py, services.py, models.py.  Texts, whether a    *)
(* section is enabled, image files and the order of a strip's images are   *)
(* left out.                                                               *)
(***************************************************************************)
EXTENDS Integers, FiniteSets, Functions

CONSTANTS
    Editors,        \* requests of page_edit at a time
    MaxSections,    \* sections ever created on the page (bound)
    MaxRequests,    \* requests made of the page (bound)
    StripMax        \* images a strip may have: 6

ASSUME SectionsAssumption ==
    /\ IsFiniteSet(Editors) /\ Editors # {}
    /\ MaxSections \in Nat /\ MaxRequests \in Nat /\ StripMax \in Nat \ {0}

VARIABLES
    sections,   \* PageSection rows: kind, position, legacy, images, age
    made,       \* rows created so far
    begun,      \* requests begun so far
    body,       \* SitePage.body is not blank
    request,    \* of each editor: what it does next, and what it has read
    untidy      \* for the properties: requests have overlapped, or one died, since the last
                \* resequencing that ran alone

sectionVars == <<sections, made, begun, body, request, untidy>>

Ids == 1..MaxSections
Kinds == {"CONTENT", "STRIP"}      \* a HERO is handled like a CONTENT
Section == [kind : Kinds, position : Int, legacy : BOOLEAN, images : Nat, age : Nat]
NewSection(kind, position, legacy) ==
    [kind |-> kind, position |-> position, legacy |-> legacy, images |-> 0, age |-> made + 1]

\* What a request holds: rows as it read them, and new values for the rows it will write.
Idle == [step |-> "idle"]

\* order_by("position", "created_at")
Before(s, t) ==
    \/ sections[s].position < sections[t].position
    \/ sections[s].position = sections[t].position /\ sections[s].age < sections[t].age
First(S) == {s \in S : \A t \in S \ {s} : Before(s, t)}
Rank(s) == Cardinality({t \in DOMAIN sections : t = s \/ Before(t, s)})
Custom == {s \in DOMAIN sections : ~sections[s].legacy}

\* bulk_update: rows that are gone are passed over.
Placed(places) ==
    [s \in DOMAIN sections |->
        IF s \in DOMAIN places THEN [sections[s] EXCEPT !.position = places[s]] ELSE sections[s]]

SectionsInit ==
    /\ sections = <<>> /\ made = 0 /\ begun = 0 /\ body = FALSE
    /\ request = [e \in Editors |-> Idle]
    /\ untidy = FALSE

Alone(e) == \A f \in Editors \ {e} : request[f] = Idle

Begins(e, what) ==
    /\ request[e] = Idle /\ begun < MaxRequests
    /\ request' = [request EXCEPT ![e] = what]
    /\ begun' = begun + 1
    /\ untidy' = (untidy \/ ~Alone(e))

Goes(e, what) ==
    /\ request' = [request EXCEPT ![e] = what]
    /\ UNCHANGED begun

\* INSERT of a row created now
Create(id, row) ==
    /\ sections' = [s \in DOMAIN sections \union {id} |-> IF s = id THEN row ELSE sections[s]]
    /\ made' = made + 1

-----------------------------------------------------------------------------
(* section_action *)

\* Mutant: a section is put at the position the last one has.
CountOnly == Cardinality(DOMAIN sections)
NextPosition == Cardinality(DOMAIN sections) + 1

\* "add": the position is one more than the sections there are ...
AddRead(e, kind) ==
    /\ made < MaxSections
    /\ Begins(e, [step |-> "add", kind |-> kind, position |-> NextPosition])
    /\ UNCHANGED <<sections, made, body>>

\* ... when it is created, a strip without images.
AddCreate(e) ==
    /\ request[e].step = "add" /\ made < MaxSections
    /\ Create(made + 1, NewSection(request[e].kind, request[e].position, FALSE))
    /\ Goes(e, Idle)
    /\ UNCHANGED <<body, untidy>>

\* "move" reads the section and the first at the next position up or down ...
MoveRead(e, s, delta) ==
    \E t \in First({u \in DOMAIN sections : sections[u].position = sections[s].position + delta}) :
        /\ Begins(e, [step |-> "swap",
                      places |-> [u \in {s, t} |-> sections[IF u = s THEN t ELSE s].position]])
        /\ UNCHANGED <<sections, made, body>>

\* ... and exchanges the positions that it read.
MoveSwap(e) ==
    /\ request[e].step = "swap"
    /\ sections' = Placed(request[e].places)
    /\ Goes(e, [step |-> "tidy"])
    /\ UNCHANGED <<made, body, untidy>>

\* "delete"; the images go with the section.
DeleteSection(e, s) ==
    /\ Begins(e, [step |-> "tidy"])
    /\ sections' = Restrict(sections, DOMAIN sections \ {s})
    /\ UNCHANGED <<made, body>>

\* resequence_sections numbers the rows as it reads them ...
ResequenceRead(e) ==
    /\ request[e].step = "tidy"
    /\ LET moved == {s \in DOMAIN sections : sections[s].position # Rank(s)}
       IN  Goes(e, [step |-> "number", places |-> [s \in moved |-> Rank(s)]])
    /\ untidy' = (untidy /\ ~Alone(e))
    /\ UNCHANGED <<sections, made, body>>

\* ... and updates those whose number was another.
ResequenceWrite(e) ==
    /\ request[e].step = "number"
    /\ sections' = Placed(request[e].places)
    /\ Goes(e, Idle)
    /\ UNCHANGED <<made, body, untidy>>

\* "save" reads the section ...
SaveRead(e, s) ==
    /\ Begins(e, [step |-> "save", id |-> s, row |-> sections[s]])
    /\ UNCHANGED <<sections, made, body>>

\* ... and writes every column, its position too; save() inserts again a row that was deleted meanwhile.
SaveRow(e) ==
    /\ request[e].step = "save"
    /\ LET id == request[e].id
           row == request[e].row
       IN  IF id \in DOMAIN sections
           THEN /\ sections' = [sections EXCEPT ![id] =
                                    [row EXCEPT !.images = sections[id].images, !.age = sections[id].age]]
                /\ UNCHANGED made
           ELSE /\ made < MaxSections
                /\ Create(id, [row EXCEPT !.images = 0, !.age = made + 1])
    /\ Goes(e, Idle)
    /\ UNCHANGED <<body, untidy>>

\* Mutant: the images of a strip are not counted.
RoomAlways(s) == TRUE
Room(s) == sections[s].images < StripMax

\* "add_strip_image" counts the images ...
ImageRead(e, s) ==
    /\ sections[s].kind = "STRIP" /\ Room(s)
    /\ Begins(e, [step |-> "image", id |-> s])
    /\ UNCHANGED <<sections, made, body>>

\* ... and saves one more, unless the section is gone (foreign key).
ImageSave(e) ==
    /\ request[e].step = "image"
    /\ sections' = IF request[e].id \in DOMAIN sections
                   THEN [sections EXCEPT ![request[e].id].images = @ + 1] ELSE sections
    /\ Goes(e, Idle)
    /\ UNCHANGED <<made, body, untidy>>

\* "delete_strip_image"
ImageDelete(s) ==
    /\ sections[s].images > 0
    /\ sections' = [sections EXCEPT ![s].images = @ - 1]
    /\ UNCHANGED <<made, begun, body, request, untidy>>

-----------------------------------------------------------------------------
(* The page's own form *)

\* page_edit reads the page; beside sections of its own the body cannot be changed ...
PageRead(e, text) ==
    /\ Begins(e, [step |-> "page", body |-> IF Custom # {} THEN body ELSE text])
    /\ UNCHANGED <<sections, made, body>>

\* ... saves it, and sync_legacy_body_section looks for the legacy section ...
PageSave(e) ==
    /\ request[e].step = "page"
    /\ body' = request[e].body
    /\ Goes(e, [step |-> "legacy", body |-> request[e].body,
                ids |-> First({s \in DOMAIN sections : sections[s].legacy})])
    /\ UNCHANGED <<sections, made, untidy>>

\* ... to put it first again, create it, or hide it when the body is blank; updating one
\* that was deleted meanwhile is an error.
LegacySync(e) ==
    /\ request[e].step = "legacy"
    /\ LET found == request[e].ids
           here == found \intersect DOMAIN sections
       IN  IF found = {} /\ request[e].body
           THEN /\ made < MaxSections
                /\ Create(made + 1, NewSection("CONTENT", 1, TRUE))
           ELSE /\ sections' = [s \in DOMAIN sections |->
                      IF s \in here /\ request[e].body
                      THEN [sections[s] EXCEPT !.kind = "CONTENT", !.position = 1] ELSE sections[s]]
                /\ UNCHANGED made
    /\ Goes(e, Idle)
    /\ UNCHANGED <<body, untidy>>

RequestDies(e) ==
    /\ request[e] # Idle
    /\ Goes(e, Idle)
    /\ untidy' = TRUE
    /\ UNCHANGED <<sections, made, body>>

SectionsNext ==
    \/ \E e \in Editors :
        \/ \E kind \in Kinds : AddRead(e, kind)
        \/ \E s \in DOMAIN sections :
            \/ \E delta \in {-1, 1} : MoveRead(e, s, delta)
            \/ DeleteSection(e, s) \/ ImageRead(e, s) \/ SaveRead(e, s)
        \/ \E text \in BOOLEAN : PageRead(e, text)
        \/ AddCreate(e) \/ MoveSwap(e) \/ ResequenceRead(e) \/ ResequenceWrite(e)
        \/ SaveRow(e) \/ ImageSave(e) \/ PageSave(e) \/ LegacySync(e) \/ RequestDies(e)
    \/ \E s \in DOMAIN sections : ImageDelete(s)

SectionsSpec == SectionsInit /\ [][SectionsNext]_sectionVars

-----------------------------------------------------------------------------
(* Properties *)

SectionsTypeOK ==
    /\ DOMAIN sections \subseteq Ids /\ \A s \in DOMAIN sections : sections[s] \in Section
    /\ made \in 0..MaxSections /\ begun \in 0..MaxRequests
    /\ body \in BOOLEAN /\ untidy \in BOOLEAN

\* Requests that overlap may give two sections one position, but the page heals: after a
\* move or a deletion that no other request overlapped, and until requests overlap or die
\* again, no two of the page's own sections share a position, which is what "move" needs
\* to find its neighbour.
LayoutHeals ==
    (\A e \in Editors : request[e] = Idle) /\ ~untidy =>
        \A s, t \in Custom : s # t => sections[s].position # sections[t].position

\* The limit on a strip's images is checked before the image is saved, without a lock: it
\* is exceeded by no more images than other requests ran at the time.
StripBounded ==
    \A s \in DOMAIN sections : sections[s].images <= StripMax + Cardinality(Editors) - 1

=============================================================================
