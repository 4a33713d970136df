--------------------------- MODULE BackOfficeProofs ---------------------------
(***************************************************************************)
(* Proofs about the components the managers of a site work with: drafts,   *)
(* documents, organizations, forms and rules, pages, events with their     *)
(* reviews and photo albums, for any number of people, rows and requests.  *)
(* Each has an inductive invariant of its own: what the requests under way *)
(* have read and may still write.                                          *)
(***************************************************************************)
EXTENDS AIDrafts, Documents, SubscriberSites, IntakeAutomation, PageSections,
        EventSeries, EventReviews, PhotoAlbum,
        FiniteSetTheorems, WellFoundedInduction, TLAPS

\* A set of numbers that is not empty has a least one.
LEMMA LeastExists ==
  ASSUME NEW S \in SUBSET Nat, S # {}
  PROVE  \E p \in S : \A q \in S : p <= q
<1>1. PICK p \in S : \A q \in S : <<q, p>> \notin OpToRel(<, Nat)
    BY NatLessThanWellFounded, WFMin, Zenon
<1>2. \A q \in S : ~(q < p)
    BY <1>1, Zenon DEF OpToRel
<1>3. \A q \in S : p <= q
    BY <1>2
<1> QED BY <1>3

(***************************************************************************)
(* AIDrafts                                                                *)
(*                                                                         *)
(* A request that is alone excludes every other one; as long as nothing is *)
(* muddled every request is alone, so there is at most one, and what it    *)
(* asks for is what the row says once it has saved the row.                *)
(***************************************************************************)

DraftRequest ==
    {AtRest}
    \union [step : {"save"}, asked : Instructions, row : DraftRow, alone : BOOLEAN]
    \union [step : {"ask"}, asked : Instructions, alone : BOOLEAN]

DraftTypes ==
    /\ draft \in DraftRow \union {AtRest}
    /\ writing \in [Writers -> DraftRequest]
    /\ muddled \in BOOLEAN

DraftExclusive ==
    /\ draft = AtRest => \A w \in Writers : writing[w] = AtRest
    /\ \A w \in Writers : writing[w] # AtRest /\ writing[w].alone => Undisturbed(w)
    /\ ~muddled => \A w \in Writers : writing[w] # AtRest => writing[w].alone

DraftSaved ==
    \A w \in Writers :
        writing[w].step = "ask" /\ writing[w].alone => draft.asked = writing[w].asked

DraftIInv == DraftTypes /\ DraftExclusive /\ DraftSaved /\ DraftMatches

\* A row is not the absence of one, and a request under way is not one at rest.
LEMMA DraftApart ==
    /\ AtRest \notin DraftRow
    /\ AtRest.step = "rest"
    /\ \A r \in DraftRequest : r # AtRest <=> r.step \in {"save", "ask"}
    /\ \A r \in DraftRequest : r.step = "save" => r.row \in DraftRow
    /\ \A r \in DraftRequest : r # AtRest => r.asked \in Instructions /\ r.alone \in BOOLEAN
<1>1. AtRest \notin DraftRow
  <2> SUFFICES ASSUME AtRest \in DraftRow PROVE FALSE
      OBVIOUS
  <2>1. DOMAIN AtRest = {"asked", "output", "status"}
      BY DEF DraftRow
  <2>2. DOMAIN AtRest = {"step"}
      BY DEF AtRest
  <2> QED BY <2>1, <2>2
<1>2. AtRest.step = "rest"
    BY DEF AtRest
<1>3. ASSUME NEW r \in DraftRequest
      PROVE  /\ r # AtRest <=> r.step \in {"save", "ask"}
             /\ r.step = "save" => r.row \in DraftRow
             /\ r # AtRest => r.asked \in Instructions /\ r.alone \in BOOLEAN
  <2>1. CASE r = AtRest
      BY <2>1, <1>2
  <2>2. CASE r \in [step : {"save"}, asked : Instructions, row : DraftRow, alone : BOOLEAN]
      BY <2>2, <1>2
  <2>3. CASE r \in [step : {"ask"}, asked : Instructions, alone : BOOLEAN]
      BY <2>3, <1>2
  <2> QED BY <2>1, <2>2, <2>3 DEF DraftRequest
<1> QED BY <1>1, <1>2, <1>3

LEMMA DraftInitIInv == DraftInit => DraftIInv
  BY DraftApart DEF DraftInit, DraftIInv, DraftTypes, DraftRequest, DraftExclusive, DraftSaved, DraftMatches, Undisturbed

LEMMA DraftCreateIInv ==
  ASSUME DraftIInv, NEW w \in Writers, NEW i \in Instructions, DraftCreate(w, i)
  PROVE  DraftIInv'
<1> USE DEF DraftCreate, DraftIInv
<1>0. writing' \in [Writers -> DraftRequest]
    BY DEF DraftTypes, DraftRequest
<1>1. draft' \in DraftRow /\ draft'.asked = i
    BY DEF DraftRow
<1>2. \A u \in Writers : u # w => writing'[u] = AtRest
    BY DEF DraftTypes, DraftExclusive
<1>3. writing'[w] = [step |-> "ask", asked |-> i, alone |-> TRUE]
    BY DEF DraftTypes
<1>4. writing'[w].step = "ask" /\ writing'[w].asked = i /\ writing'[w].alone
    BY <1>3
<1>5. DraftTypes'
    BY <1>0, <1>1 DEF DraftTypes
<1>6. DraftExclusive'
    BY <1>0, <1>1, <1>2, <1>4, DraftApart DEF DraftExclusive, Undisturbed
<1>7. DraftSaved'
    BY <1>1, <1>2, <1>4, DraftApart DEF DraftSaved
<1>8. DraftMatches'
    BY <1>0, <1>4, DraftApart DEF DraftMatches
<1> QED BY <1>5, <1>6, <1>7, <1>8

LEMMA DraftReadIInv ==
  ASSUME DraftIInv, NEW w \in Writers, NEW i \in Instructions, DraftRead(w, i)
  PROVE  DraftIInv'
<1> USE DEF DraftRead, DraftIInv
<1>1. draft \in DraftRow
    BY DEF DraftTypes
<1>2. /\ writing'[w].step = "save" /\ writing'[w].alone = Undisturbed(w)
      /\ writing'[w] # AtRest /\ writing'[w] \in DraftRequest
  <2> DEFINE r == [step |-> "save", asked |-> i, row |-> draft, alone |-> Undisturbed(w)]
  <2>1. writing'[w] = r
      BY DEF DraftTypes
  <2>2. Undisturbed(w) \in BOOLEAN
      BY DEF Undisturbed
  <2>3. r \in DraftRequest
      BY <1>1, <2>2 DEF DraftRequest
  <2> QED BY <2>1, <2>3, DraftApart
<1>3. ASSUME NEW u \in Writers, u # w
      PROVE  /\ writing'[u] \in DraftRequest
             /\ writing[u] = AtRest <=> writing'[u] = AtRest
             /\ writing'[u] # AtRest => ~writing'[u].alone
  <2>1. CASE writing[u] = AtRest
      BY <1>3, <2>1, DraftApart DEF DraftTypes, DraftRequest
  <2>2. CASE writing[u] # AtRest
    <3>1. writing'[u] = [writing[u] EXCEPT !.alone = FALSE]
        BY <1>3, <2>2 DEF DraftTypes
    <3>2. writing[u] \in DraftRequest /\ writing[u].step \in {"save", "ask"}
        BY <2>2, DraftApart DEF DraftTypes
    <3>3. CASE writing[u] \in [step : {"save"}, asked : Instructions, row : DraftRow, alone : BOOLEAN]
        BY <3>1, <3>3, <2>2, DraftApart DEF DraftRequest
    <3>4. CASE writing[u] \in [step : {"ask"}, asked : Instructions, alone : BOOLEAN]
        BY <3>1, <3>4, <2>2, DraftApart DEF DraftRequest
    <3> QED BY <3>2, <3>3, <3>4, <2>2 DEF DraftRequest
  <2> QED BY <2>1, <2>2
<1>4. DraftTypes'
  <2>1. writing' = [u \in Writers |-> writing'[u]]
      OBVIOUS
  <2>2. \A u \in Writers : writing'[u] \in DraftRequest
      BY <1>2, <1>3
  <2>3. writing' \in [Writers -> DraftRequest]
      BY <2>1, <2>2
  <2>4. muddled' \in BOOLEAN
      BY DEF DraftTypes, Undisturbed
  <2> QED BY <1>1, <2>3, <2>4 DEF DraftTypes
<1>5. DraftExclusive'
  <2>1. draft' # AtRest
      BY <1>1, DraftApart
  <2>2. \A u \in Writers : writing'[u] # AtRest /\ writing'[u].alone => Undisturbed(u)'
      BY <1>2, <1>3 DEF Undisturbed
  <2>3. ~muddled' => \A u \in Writers : writing'[u] # AtRest => writing'[u].alone
      BY <1>2, <1>3 DEF Undisturbed
  <2> QED BY <2>1, <2>2, <2>3 DEF DraftExclusive
<1>6. DraftSaved'
    BY <1>2, <1>3, DraftApart DEF DraftSaved
<1>7. DraftMatches'
    BY <1>2 DEF DraftMatches
<1> QED BY <1>4, <1>5, <1>6, <1>7

LEMMA DraftSaveIInv ==
  ASSUME DraftIInv, NEW w \in Writers, DraftSave(w)
  PROVE  DraftIInv'
<1> USE DEF DraftSave, DraftIInv
<1> DEFINE r == writing[w]
<1>1. r \in DraftRequest /\ r # AtRest /\ r.row \in DraftRow /\ r.asked \in Instructions
      /\ r.alone \in BOOLEAN
    BY DraftApart DEF DraftTypes
<1>2. draft' \in DraftRow /\ draft'.asked = r.asked
    BY <1>1 DEF DraftRow
<1>3. writing'[w] = [step |-> "ask", asked |-> r.asked, alone |-> r.alone]
    BY DEF DraftTypes
<1>4. /\ writing'[w].step = "ask" /\ writing'[w].asked = r.asked /\ writing'[w].alone = r.alone
      /\ writing'[w] \in DraftRequest /\ writing'[w] # AtRest
    BY <1>1, <1>3, DraftApart DEF DraftRequest
<1>5. \A u \in Writers : u # w => writing'[u] = writing[u]
    BY DEF DraftTypes
<1>6. DraftTypes'
    BY <1>2, <1>4, <1>5 DEF DraftTypes
<1>7. DraftExclusive'
  <2>1. draft' # AtRest
      BY <1>2, DraftApart
  <2>2. \A u \in Writers : writing'[u] # AtRest /\ writing'[u].alone => Undisturbed(u)'
      BY <1>1, <1>4, <1>5 DEF DraftExclusive, Undisturbed
  <2>3. ~muddled' => \A u \in Writers : writing'[u] # AtRest => writing'[u].alone
      BY <1>1, <1>4, <1>5 DEF DraftExclusive
  <2> QED BY <2>1, <2>2, <2>3 DEF DraftExclusive
<1>8. DraftSaved'
  <2>1. ASSUME NEW u \in Writers, u # w PROVE writing'[u].step = "ask" => ~writing'[u].alone
      BY <1>1, <1>5, <2>1, DraftApart DEF DraftExclusive, Undisturbed, DraftTypes
  <2> QED BY <1>2, <1>4, <2>1 DEF DraftSaved
<1>9. DraftMatches'
    BY <1>4 DEF DraftMatches
<1> QED BY <1>6, <1>7, <1>8, <1>9

\* What the two ends of a request to the provider have in common.
LEMMA DraftEndIInv ==
  ASSUME DraftIInv, NEW w \in Writers, writing[w] # AtRest,
         writing' = [writing EXCEPT ![w] = AtRest],
         draft' \in DraftRow, draft'.asked = draft.asked,
         muddled' \in BOOLEAN,
         ~muddled' => ~muddled \/ writing[w].alone,
         ~muddled' /\ writing[w].alone => DraftMatches'
  PROVE  DraftIInv'
<1> USE DEF DraftIInv
<1>1. writing'[w] = AtRest /\ \A u \in Writers : u # w => writing'[u] = writing[u]
    BY DEF DraftTypes
<1>2. DraftTypes'
    BY <1>1 DEF DraftTypes, DraftRequest
<1>3. ~muddled' => writing[w].alone /\ \A u \in Writers : writing'[u] = AtRest
    BY <1>1 DEF DraftExclusive, Undisturbed
<1>4. DraftExclusive'
  <2>1. draft' # AtRest
      BY DraftApart
  <2>2. \A u \in Writers : writing'[u] # AtRest /\ writing'[u].alone => Undisturbed(u)'
      BY <1>1 DEF DraftExclusive, Undisturbed
  <2> QED BY <1>3, <2>1, <2>2 DEF DraftExclusive
<1>5. DraftSaved'
    BY <1>1, DraftApart DEF DraftSaved
<1>6. DraftMatches'
    BY <1>3 DEF DraftMatches
<1> QED BY <1>2, <1>4, <1>5, <1>6

LEMMA DraftGeneratedIInv ==
  ASSUME DraftIInv, NEW w \in Writers, Generated(w) \/ GenerationFails(w)
  PROVE  DraftIInv'
<1> USE DEF DraftIInv
<1>1. writing[w] \in DraftRequest /\ writing[w].step = "ask"
    BY DEF DraftTypes, Generated, GenerationFails
<1>2. writing[w] # AtRest /\ writing[w].asked \in Instructions /\ writing[w].alone \in BOOLEAN
    BY <1>1, DraftApart
<1>3. draft \in DraftRow
    BY <1>2 DEF DraftTypes, DraftExclusive
<1>4. draft' \in DraftRow /\ draft'.asked = draft.asked
    BY <1>2, <1>3 DEF Generated, GenerationFails, Failing, DraftRow
<1>5. /\ draft'.status \in {"GENERATED", "FAILED"}
      /\ draft'.status = "GENERATED" => draft'.output = writing[w].asked
    BY <1>3 DEF Generated, GenerationFails, Failing, DraftRow
<1>6. writing[w].alone => draft.asked = writing[w].asked
    BY <1>1 DEF DraftSaved
<1>7. /\ writing' = [writing EXCEPT ![w] = AtRest]
      /\ muddled' = (muddled /\ ~writing[w].alone)
    BY DEF Generated, GenerationFails
<1>8. writing[w].alone => DraftMatches'
    BY <1>4, <1>5, <1>6 DEF DraftMatches
<1>9. muddled' \in BOOLEAN /\ (~muddled' => ~muddled \/ writing[w].alone)
    BY <1>2, <1>7 DEF DraftTypes
<1> QED BY <1>2, <1>4, <1>7, <1>8, <1>9, DraftEndIInv

LEMMA DraftDiesIInv ==
  ASSUME DraftIInv, NEW w \in Writers, WriterDies(w)
  PROVE  DraftIInv'
<1>1. draft' \in DraftRow /\ draft'.asked = draft.asked
    BY DEF WriterDies, DraftIInv, DraftTypes, DraftExclusive
<1>2. /\ writing[w] # AtRest /\ writing' = [writing EXCEPT ![w] = AtRest]
      /\ muddled' = TRUE
    BY DEF WriterDies
<1> QED BY <1>1, <1>2, DraftEndIInv

LEMMA DraftStutterIInv == DraftIInv /\ UNCHANGED draftVars => DraftIInv'
  BY DEF DraftIInv, DraftTypes, DraftExclusive, Undisturbed, DraftSaved, DraftMatches, draftVars

\* Whatever requests overlap, fail or die, and whatever they ask for: a draft at rest that
\* nothing muddled shows the text written from its own instructions, or says that it failed.
THEOREM AIDraftsDraftMatches == DraftSpec => []DraftMatches
<1>1. DraftInit => DraftIInv
    BY DraftInitIInv
<1>2. DraftIInv /\ [DraftNext]_draftVars => DraftIInv'
  <2> SUFFICES ASSUME DraftIInv, DraftNext PROVE DraftIInv'
      BY DraftStutterIInv
  <2>1. PICK w \in Writers :
            \/ \E i \in Instructions : DraftCreate(w, i) \/ DraftRead(w, i)
            \/ DraftSave(w) \/ Generated(w) \/ GenerationFails(w) \/ WriterDies(w)
      BY DEF DraftNext
  <2>2. CASE \E i \in Instructions : DraftCreate(w, i) \/ DraftRead(w, i)
      BY <2>2, DraftCreateIInv, DraftReadIInv
  <2>3. CASE DraftSave(w)
      BY <2>3, DraftSaveIInv
  <2>4. CASE Generated(w) \/ GenerationFails(w)
      BY <2>4, DraftGeneratedIInv
  <2>5. CASE WriterDies(w)
      BY <2>5, DraftDiesIInv
  <2> QED BY <2>1, <2>2, <2>3, <2>4, <2>5
<1>3. DraftIInv => DraftMatches
    BY DEF DraftIInv
<1> QED BY <1>1, <1>2, <1>3, PTL DEF DraftSpec

-----------------------------------------------------------------------------
(***************************************************************************)
(* Documents                                                               *)
(*                                                                         *)
(* The invariant follows a file from its scan to its row, and a deletion   *)
(* from the file to the row.  An id is uploaded once, so the deletion of a *)
(* document never takes the file of an upload that is still under way.     *)
(***************************************************************************)

DocHandling ==
    {Free}
    \union [step : {"scanned", "stored"}, doc : DocIds, infected : BOOLEAN,
            visibility : {"staff", "admin", "public"}]
    \union [step : {"delete", "row"}, doc : DocIds]

DocUploads(c, d) == handling[c].step \in {"scanned", "stored"} /\ handling[c].doc = d
DocDeletes(c, d) == handling[c].step \in {"delete", "row"} /\ handling[c].doc = d

DocTypes ==
    /\ backend \in Backends
    /\ handling \in [Colleagues -> DocHandling]
    /\ docs = [d \in DOMAIN docs |-> docs[d]]
    /\ files = [d \in DOMAIN files |-> files[d]]
    /\ \A d \in DOMAIN files : files[d] \in BOOLEAN
    /\ DOMAIN docs \subseteq used /\ DOMAIN files \subseteq used /\ used \subseteq DocIds
    /\ cut \subseteq DocIds

\* A document is being uploaded by one request, before it has a row or is deleted.
DocUploadsOnce ==
    \A c \in Colleagues, d \in DocIds : DocUploads(c, d) =>
        /\ d \in used \ DOMAIN docs
        /\ \A b \in Colleagues : ~DocDeletes(b, d) /\ (DocUploads(b, d) => b = c)

\* Between the scan and the row: what was scanned is what is stored.
DocScanned ==
    \A c \in Colleagues :
        /\ handling[c].step = "scanned" /\ handling[c].infected => backend = "disabled"
        /\ handling[c].step = "stored" => handling[c].doc \in DOMAIN files

DocDeleted ==
    \A c \in Colleagues : handling[c].step \in {"delete", "row"} => handling[c].doc \in used

DocIInv == DocTypes /\ DocUploadsOnce /\ DocScanned /\ DocDeleted /\ DocumentSound

\* A request under way is not a free one.
LEMMA DocSteps ==
    /\ Free.step = "free"
    /\ \A r \in DocHandling :
        /\ r # Free <=> r.step \in {"scanned", "stored", "delete", "row"}
        /\ r # Free => r.doc \in DocIds
        /\ r.step = "scanned" => /\ r.infected \in BOOLEAN
                                 /\ [r EXCEPT !.step = "stored"] \in DocHandling
                                 /\ [r EXCEPT !.step = "stored"].doc = r.doc
                                 /\ [r EXCEPT !.step = "stored"].step = "stored"
        /\ r.step = "delete" => /\ [r EXCEPT !.step = "row"] \in DocHandling
                                /\ [r EXCEPT !.step = "row"].doc = r.doc
                                /\ [r EXCEPT !.step = "row"].step = "row"
<1>1. Free.step = "free"
    BY DEF Free
<1>2. ASSUME NEW r \in DocHandling
      PROVE  /\ r # Free <=> r.step \in {"scanned", "stored", "delete", "row"}
             /\ r # Free => r.doc \in DocIds
             /\ r.step = "scanned" => /\ r.infected \in BOOLEAN
                                      /\ [r EXCEPT !.step = "stored"] \in DocHandling
                                      /\ [r EXCEPT !.step = "stored"].doc = r.doc
                                      /\ [r EXCEPT !.step = "stored"].step = "stored"
             /\ r.step = "delete" => /\ [r EXCEPT !.step = "row"] \in DocHandling
                                     /\ [r EXCEPT !.step = "row"].doc = r.doc
                                     /\ [r EXCEPT !.step = "row"].step = "row"
  <2>1. CASE r = Free
      BY <1>1, <2>1
  <2>2. CASE r \in [step : {"scanned", "stored"}, doc : DocIds, infected : BOOLEAN,
                    visibility : {"staff", "admin", "public"}]
      BY <2>2, <1>1 DEF DocHandling
  <2>3. CASE r \in [step : {"delete", "row"}, doc : DocIds]
      BY <2>3, <1>1 DEF DocHandling
  <2> QED BY <2>1, <2>2, <2>3 DEF DocHandling
<1> QED BY <1>1, <1>2

LEMMA DocInitIInv == DocInit => DocIInv
<1> SUFFICES ASSUME DocInit PROVE DocIInv
    OBVIOUS
<1>0. \A c \in Colleagues : handling[c] = Free /\ handling[c].step = "free"
    BY DocSteps DEF DocInit
<1>1. DocTypes
    BY <1>0 DEF DocInit, DocTypes, DocHandling
<1>2. DocUploadsOnce /\ DocScanned /\ DocDeleted
    BY <1>0 DEF DocUploadsOnce, DocUploads, DocScanned, DocDeleted
<1>3. DocumentSound
    BY DEF DocInit, DocumentSound
<1> QED BY <1>1, <1>2, <1>3 DEF DocIInv

\* The request's own record after a step, and nobody else's, has changed.
LEMMA DocOwnRecord ==
  ASSUME DocIInv, NEW c \in Colleagues, NEW r \in DocHandling, Does(c, r)
  PROVE  /\ handling' \in [Colleagues -> DocHandling]
         /\ handling'[c] = r
         /\ \A b \in Colleagues : b # c => handling'[b] = handling[b]
  BY DEF DocIInv, DocTypes, Does

LEMMA DocScanIInv ==
  ASSUME DocIInv, NEW c \in Colleagues, NEW d \in DocIds, NEW infected \in BOOLEAN,
         NEW visibility \in {"staff", "admin", "public"}, Scan(c, d, infected, visibility)
  PROVE  DocIInv'
<1> DEFINE r == [step |-> "scanned", doc |-> d, infected |-> infected, visibility |-> visibility]
<1>1. r \in DocHandling /\ r.step = "scanned" /\ r.doc = d /\ r.infected = infected
    BY DEF DocHandling
<1>2. /\ d \notin used /\ used' = used \union {d} /\ Does(c, r)
      /\ UNCHANGED <<backend, docs, files, cut>> /\ handling[c] = Free
    BY DEF Scan
<1>3. /\ handling' \in [Colleagues -> DocHandling] /\ handling'[c] = r
      /\ \A b \in Colleagues : b # c => handling'[b] = handling[b]
    BY <1>1, <1>2, DocOwnRecord
<1>4. infected => backend = "disabled"
  <2> SUFFICES ASSUME infected, backend # "disabled" PROVE FALSE
      OBVIOUS
  <2>1. "clean" \in Answers(infected)
      BY DEF Scan, Accepted
  <2> QED BY <2>1 DEF Answers
<1>5. DocTypes'
    BY <1>2, <1>3 DEF DocIInv, DocTypes
<1>6. \A b \in Colleagues : b # c => ~DocUploads(b, d)' /\ ~DocDeletes(b, d)'
    BY <1>2, <1>3 DEF DocIInv, DocUploadsOnce, DocDeleted, DocUploads, DocDeletes
<1>7. DocUploadsOnce'
    BY <1>1, <1>2, <1>3, <1>6 DEF DocIInv, DocTypes, DocUploadsOnce, DocUploads, DocDeletes
<1>8. DocScanned' /\ DocDeleted'
    BY <1>1, <1>2, <1>3, <1>4 DEF DocIInv, DocScanned, DocDeleted
<1>9. DocumentSound'
    BY <1>2, <1>3, DocSteps DEF DocIInv, DocumentSound
<1> QED BY <1>5, <1>7, <1>8, <1>9 DEF DocIInv

LEMMA DocStoreIInv ==
  ASSUME DocIInv, NEW c \in Colleagues, StoreFile(c)
  PROVE  DocIInv'
<1> DEFINE d == handling[c].doc
           r == [handling[c] EXCEPT !.step = "stored"]
<1>1. handling[c] \in DocHandling /\ handling[c].step = "scanned" /\ handling[c] # Free
      /\ DocUploads(c, d) /\ d \in DocIds /\ handling[c].infected \in BOOLEAN
    BY DocSteps DEF StoreFile, DocIInv, DocTypes, DocUploads
<1>2. r \in DocHandling /\ r.step = "stored" /\ r.doc = d
    BY <1>1, DocSteps
<1>3. /\ handling' \in [Colleagues -> DocHandling] /\ handling'[c] = r
      /\ \A b \in Colleagues : b # c => handling'[b] = handling[b]
    BY <1>2, DocOwnRecord DEF StoreFile
<1>4. /\ UNCHANGED <<backend, docs, used, cut>>
      /\ DOMAIN files' = DOMAIN files \union {d}
      /\ files'[d] = handling[c].infected
      /\ \A e \in DOMAIN files \ {d} : files'[e] = files[e]
      /\ files' = [e \in DOMAIN files' |-> files'[e]]
    BY DEF StoreFile
<1>5. d \in used /\ (handling[c].infected => backend = "disabled")
    BY <1>1 DEF DocIInv, DocUploadsOnce, DocScanned
<1>6. DocTypes'
    BY <1>1, <1>3, <1>4, <1>5 DEF DocIInv, DocTypes
<1>7. \A b \in Colleagues, e \in DocIds :
          /\ DocUploads(b, e)' <=> DocUploads(b, e)
          /\ DocDeletes(b, e)' <=> DocDeletes(b, e)
    BY <1>1, <1>2, <1>3 DEF DocUploads, DocDeletes
<1>8. DocUploadsOnce'
    BY <1>4, <1>7 DEF DocIInv, DocUploadsOnce
<1>9. DocScanned' /\ DocDeleted'
    BY <1>2, <1>3, <1>4 DEF DocIInv, DocScanned, DocDeleted
<1>10. DocumentSound'
    BY <1>1, <1>2, <1>3, <1>4, <1>5 DEF DocIInv, DocumentSound
<1> QED BY <1>6, <1>8, <1>9, <1>10 DEF DocIInv

LEMMA DocInsertIInv ==
  ASSUME DocIInv, NEW c \in Colleagues, InsertRow(c)
  PROVE  DocIInv'
<1> DEFINE d == handling[c].doc
<1>1. handling[c] \in DocHandling /\ handling[c].step = "stored" /\ DocUploads(c, d) /\ d \in DocIds
    BY DocSteps DEF InsertRow, DocIInv, DocTypes, DocUploads
<1>2. /\ handling' \in [Colleagues -> DocHandling] /\ handling'[c] = Free
      /\ \A b \in Colleagues : b # c => handling'[b] = handling[b]
    BY DocOwnRecord DEF InsertRow, DocHandling
<1>3. /\ UNCHANGED <<backend, files, used, cut>>
      /\ DOMAIN docs' = DOMAIN docs \union {d}
      /\ docs' = [e \in DOMAIN docs' |-> docs'[e]]
    BY DEF InsertRow
<1>4. d \in used /\ d \in DOMAIN files
    BY <1>1 DEF DocIInv, DocUploadsOnce, DocScanned
<1>5. DocTypes'
    BY <1>2, <1>3, <1>4 DEF DocIInv, DocTypes
<1>6. \A b \in Colleagues, e \in DocIds :
          /\ DocUploads(b, e)' <=> b # c /\ DocUploads(b, e)
          /\ DocDeletes(b, e)' <=> DocDeletes(b, e)
    BY <1>1, <1>2, DocSteps DEF DocUploads, DocDeletes
<1>7. DocUploadsOnce'
    BY <1>1, <1>3, <1>6 DEF DocIInv, DocUploadsOnce
<1>8. DocScanned' /\ DocDeleted'
    BY <1>2, <1>3, DocSteps DEF DocIInv, DocScanned, DocDeleted
<1>9. DocumentSound'
    BY <1>1, <1>2, <1>3, <1>4 DEF DocIInv, DocumentSound
<1> QED BY <1>5, <1>7, <1>8, <1>9 DEF DocIInv

LEMMA DocDeleteReadIInv ==
  ASSUME DocIInv, NEW c \in Colleagues, NEW d \in DOMAIN docs, DeleteRead(c, d)
  PROVE  DocIInv'
<1> DEFINE r == [step |-> "delete", doc |-> d]
<1>1. d \in used /\ d \in DocIds
    BY DEF DocIInv, DocTypes
<1>2. r \in DocHandling /\ r.step = "delete" /\ r.doc = d
    BY <1>1 DEF DocHandling
<1>3. /\ handling' \in [Colleagues -> DocHandling] /\ handling'[c] = r
      /\ \A b \in Colleagues : b # c => handling'[b] = handling[b]
    BY <1>2, DocOwnRecord DEF DeleteRead
<1>4. UNCHANGED <<backend, docs, files, used, cut>> /\ handling[c] = Free
    BY DEF DeleteRead
<1>5. DocTypes'
    BY <1>3, <1>4 DEF DocIInv, DocTypes
<1>6. \A b \in Colleagues, e \in DocIds :
          /\ DocUploads(b, e)' <=> DocUploads(b, e)
          /\ DocDeletes(b, e)' => DocDeletes(b, e) \/ e = d
    BY <1>2, <1>3, <1>4, DocSteps DEF DocUploads, DocDeletes
<1>7. DocUploadsOnce'
    BY <1>4, <1>6 DEF DocIInv, DocUploadsOnce
<1>8. DocScanned' /\ DocDeleted'
    BY <1>1, <1>2, <1>3, <1>4 DEF DocIInv, DocScanned, DocDeleted
<1>9. DocumentSound'
    BY <1>2, <1>3, <1>4, DocSteps DEF DocIInv, DocumentSound
<1> QED BY <1>5, <1>7, <1>8, <1>9 DEF DocIInv

LEMMA DocDeleteFileIInv ==
  ASSUME DocIInv, NEW c \in Colleagues, DeleteFile(c)
  PROVE  DocIInv'
<1> DEFINE d == handling[c].doc
           r == [handling[c] EXCEPT !.step = "row"]
<1>1. handling[c] \in DocHandling /\ handling[c].step = "delete" /\ DocDeletes(c, d) /\ d \in DocIds
    BY DocSteps DEF DeleteFile, DocIInv, DocTypes, DocDeletes
<1>2. r \in DocHandling /\ r.step = "row" /\ r.doc = d
    BY <1>1, DocSteps
<1>3. /\ handling' \in [Colleagues -> DocHandling] /\ handling'[c] = r
      /\ \A b \in Colleagues : b # c => handling'[b] = handling[b]
    BY <1>2, DocOwnRecord DEF DeleteFile
<1>4. /\ UNCHANGED <<backend, docs, used, cut>>
      /\ DOMAIN files' = DOMAIN files \ {d}
      /\ \A e \in DOMAIN files' : files'[e] = files[e]
      /\ files' = [e \in DOMAIN files' |-> files'[e]]
    BY DEF DeleteFile, Without
<1>5. DocTypes'
    BY <1>3, <1>4 DEF DocIInv, DocTypes
<1>6. \A b \in Colleagues, e \in DocIds :
          /\ DocUploads(b, e)' <=> DocUploads(b, e)
          /\ DocDeletes(b, e)' <=> DocDeletes(b, e)
    BY <1>1, <1>2, <1>3 DEF DocUploads, DocDeletes
<1>7. DocUploadsOnce'
    BY <1>4, <1>6 DEF DocIInv, DocUploadsOnce
<1>8. \A b \in Colleagues : handling[b].step = "stored" => handling[b].doc # d
    BY <1>1 DEF DocIInv, DocUploadsOnce, DocUploads
<1>9. DocScanned' /\ DocDeleted'
    BY <1>1, <1>2, <1>3, <1>4, <1>8 DEF DocIInv, DocScanned, DocDeleted
<1>10. ASSUME NEW e \in DOMAIN docs
       PROVE  \/ e \in DOMAIN files' \/ e \in cut'
              \/ \E b \in Colleagues : handling'[b].step = "row" /\ handling'[b].doc = e
  <2>1. CASE e = d
      BY <1>2, <1>3, <2>1
  <2>2. CASE e # d /\ (e \in DOMAIN files \/ e \in cut)
      BY <1>4, <2>2
  <2>3. CASE \E b \in Colleagues : handling[b].step = "row" /\ handling[b].doc = e
      BY <1>1, <1>3, <2>3
  <2> QED BY <2>1, <2>2, <2>3 DEF DocIInv, DocumentSound
<1>11. \A e \in DOMAIN files' : files'[e] => backend' = "disabled"
    BY <1>4 DEF DocIInv, DocumentSound
<1>12. DocumentSound'
    BY <1>4, <1>10, <1>11 DEF DocumentSound
<1> QED BY <1>5, <1>7, <1>9, <1>12 DEF DocIInv

LEMMA DocDeleteRowIInv ==
  ASSUME DocIInv, NEW c \in Colleagues, DeleteRow(c)
  PROVE  DocIInv'
<1> DEFINE d == handling[c].doc
<1>1. handling[c] \in DocHandling /\ handling[c].step = "row" /\ DocDeletes(c, d) /\ d \in DocIds
    BY DocSteps DEF DeleteRow, DocIInv, DocTypes, DocDeletes
<1>2. /\ handling' \in [Colleagues -> DocHandling] /\ handling'[c] = Free
      /\ \A b \in Colleagues : b # c => handling'[b] = handling[b]
    BY DocOwnRecord DEF DeleteRow, DocHandling
<1>3. /\ UNCHANGED <<backend, files, used>>
      /\ cut' = cut \ {d}
      /\ DOMAIN docs' = DOMAIN docs \ {d}
      /\ docs' = [e \in DOMAIN docs' |-> docs'[e]]
    BY DEF DeleteRow, Without
<1>4. DocTypes'
    BY <1>2, <1>3 DEF DocIInv, DocTypes
<1>5. \A b \in Colleagues, e \in DocIds :
          /\ DocUploads(b, e)' <=> DocUploads(b, e)
          /\ DocDeletes(b, e)' <=> b # c /\ DocDeletes(b, e)
    BY <1>1, <1>2, DocSteps DEF DocUploads, DocDeletes
<1>6. DocUploadsOnce'
    BY <1>3, <1>5 DEF DocIInv, DocUploadsOnce
<1>7. DocScanned' /\ DocDeleted'
    BY <1>2, <1>3, DocSteps DEF DocIInv, DocScanned, DocDeleted
<1>8. DocumentSound'
    BY <1>1, <1>2, <1>3, DocSteps DEF DocIInv, DocumentSound
<1> QED BY <1>4, <1>6, <1>7, <1>8 DEF DocIInv

LEMMA DocDiesIInv ==
  ASSUME DocIInv, NEW c \in Colleagues, HandlingDies(c)
  PROVE  DocIInv'
<1> DEFINE d == handling[c].doc
<1>1. handling[c] \in DocHandling /\ handling[c] # Free /\ d \in DocIds
    BY DocSteps DEF HandlingDies, DocIInv, DocTypes
<1>2. /\ handling' \in [Colleagues -> DocHandling] /\ handling'[c] = Free
      /\ \A b \in Colleagues : b # c => handling'[b] = handling[b]
    BY DocOwnRecord DEF HandlingDies, DocHandling
<1>3. /\ UNCHANGED <<backend, docs, files, used>>
      /\ cut \subseteq cut' /\ cut' \subseteq cut \union {d}
      /\ handling[c].step = "row" => d \in cut'
    BY DEF HandlingDies
<1>4. DocTypes'
    BY <1>1, <1>2, <1>3 DEF DocIInv, DocTypes
<1>5. \A b \in Colleagues, e \in DocIds :
          /\ DocUploads(b, e)' <=> b # c /\ DocUploads(b, e)
          /\ DocDeletes(b, e)' <=> b # c /\ DocDeletes(b, e)
    BY <1>2, DocSteps DEF DocUploads, DocDeletes
<1>6. DocUploadsOnce'
    BY <1>3, <1>5 DEF DocIInv, DocUploadsOnce
<1>7. DocScanned' /\ DocDeleted'
    BY <1>2, <1>3, DocSteps DEF DocIInv, DocScanned, DocDeleted
<1>8. DocumentSound'
    BY <1>1, <1>2, <1>3, DocSteps DEF DocIInv, DocumentSound
<1> QED BY <1>4, <1>6, <1>7, <1>8 DEF DocIInv

LEMMA DocStutterIInv == DocIInv /\ UNCHANGED docVars => DocIInv'
  BY DEF DocIInv, DocTypes, DocUploadsOnce, DocUploads, DocDeletes, DocScanned, DocDeleted, DocumentSound, docVars

LEMMA DocNextIInv == DocIInv /\ [DocNext]_docVars => DocIInv'
<1> SUFFICES ASSUME DocIInv, DocNext PROVE DocIInv'
    BY DocStutterIInv
<1>1. PICK c \in Colleagues :
          \/ \E d \in DocIds, infected \in BOOLEAN, visibility \in {"staff", "admin", "public"} :
                Scan(c, d, infected, visibility)
          \/ \E d \in DOMAIN docs : DeleteRead(c, d)
          \/ StoreFile(c) \/ InsertRow(c) \/ DeleteFile(c) \/ DeleteRow(c) \/ HandlingDies(c)
    BY DEF DocNext
<1>2. CASE \E d \in DocIds, infected \in BOOLEAN, visibility \in {"staff", "admin", "public"} :
                Scan(c, d, infected, visibility)
    BY <1>2, DocScanIInv
<1>3. CASE StoreFile(c)
    BY <1>3, DocStoreIInv
<1>4. CASE InsertRow(c)
    BY <1>4, DocInsertIInv
<1>5. CASE \E d \in DOMAIN docs : DeleteRead(c, d)
    BY <1>5, DocDeleteReadIInv
<1>6. CASE DeleteFile(c)
    BY <1>6, DocDeleteFileIInv
<1>7. CASE DeleteRow(c)
    BY <1>7, DocDeleteRowIInv
<1>8. CASE HandlingDies(c)
    BY <1>8, DocDiesIInv
<1> QED BY <1>1, <1>2, <1>3, <1>4, <1>5, <1>6, <1>7, <1>8

\* However uploads and deletions overlap and wherever they stop: a row without its file is
\* being deleted or was left by a deletion that died, and a deployment that names a scanner,
\* known or not, stores nothing malicious.
THEOREM DocumentsSound == DocSpec => []DocumentSound
<1>1. DocIInv => DocumentSound
    BY DEF DocIInv
<1> QED BY DocInitIInv, DocNextIInv, <1>1, PTL DEF DocSpec

-----------------------------------------------------------------------------
(***************************************************************************)
(* SubscriberSites                                                         *)
(*                                                                         *)
(* Between the decision of a creation and its commit the owner is exempt   *)
(* or has no organization in trial but one that went back into it          *)
(* meanwhile.  That is what the lock on the owner's row keeps true: a      *)
(* second creation decides after the first has committed.                  *)
(***************************************************************************)

\* A site that was not created has no subscription and no roles, and one user owns the
\* others.
OwnerOneOwner ==
    /\ \A s \in Sites : status[s] = "NONE" => billing[s] = "none"
    /\ \A s \in Sites, u \in Users : status[s] = "NONE" => role[s][u] = "NONE"
    /\ \A s \in Sites : \A u, v \in Users :
            role[s][u] = "ADMIN" /\ role[s][v] = "ADMIN" => u = v

OwnerDeciding == \A u \in Users : decided[u] > 0 => u \in exempt \/ Trials(u) \subseteq beside

OwnerIInv == SubscribersTypeOK /\ OwnerOneOwner /\ OwnerDeciding /\ TrialsExplained

\* The sites of a user and those in trial, spelled out.
LEMMA OwnerMembers ==
  ASSUME NEW u \in Users
  PROVE  /\ \A s : s \in Owned(u) <=> s \in Sites /\ role[s][u] = "ADMIN"
         /\ \A s : s \in Trials(u) <=> s \in Sites /\ role[s][u] = "ADMIN" /\ status[s] = "TRIALING"
  BY DEF Owned, Trials

LEMMA OwnerInitIInv == SubscribersInit => OwnerIInv
<1> SUFFICES ASSUME SubscribersInit PROVE OwnerIInv
    OBVIOUS
<1>1. SubscribersTypeOK
    BY SubscribersAssumption DEF SubscribersInit, SubscribersTypeOK, Statuses, Stages, Roles
<1>2. OwnerOneOwner /\ OwnerDeciding /\ TrialsExplained
    BY DEF SubscribersInit, OwnerOneOwner, OwnerDeciding, TrialsExplained, Trials, Owned
<1> QED BY <1>1, <1>2 DEF OwnerIInv

\* Steps after which nobody owns or tries anything new, and no creation has been decided.
LEMMA OwnerQuietIInv ==
  ASSUME OwnerIInv, SubscribersTypeOK', OwnerOneOwner',
         \A u \in Users : Trials(u)' \subseteq Trials(u),
         beside \subseteq beside',
         \A u \in Users : decided'[u] > 0 => decided[u] > 0 /\ (u \in exempt => u \in exempt')
  PROVE  OwnerIInv'
<1>1. OwnerDeciding'
    BY DEF OwnerIInv, OwnerDeciding
<1>2. TrialsExplained'
    BY DEF OwnerIInv, TrialsExplained
<1> QED BY <1>1, <1>2 DEF OwnerIInv

\* Accounts
LEMMA OwnerAccountIInv ==
  ASSUME OwnerIInv, NEW u \in Users,
         SignUp(u) \/ Resend(u) \/ Verify(u) \/ Exempt(u) \/ OnboardingPost(u)
  PROVE  OwnerIInv'
<1> USE DEF OwnerIInv
<1>1. UNCHANGED <<status, trial, billing, role, decided, beside>>
    BY DEF SignUp, Resend, Verify, Exempt, OnboardingPost
<1>2. account' \in [Users -> {"NONE", "UNVERIFIED", "VERIFIED"}] /\ link' \subseteq Users
      /\ exempt' \subseteq Users
    BY DEF SubscribersTypeOK, SignUp, Resend, Verify, Exempt, OnboardingPost
<1>3. \A v \in Users : posts'[v] \in 0..MaxPosts[v]
  <2>1. CASE OnboardingPost(u)
    <3>1. posts[u] < MaxPosts[u] /\ posts' = [posts EXCEPT ![u] = @ + 1]
        BY <2>1 DEF OnboardingPost
    <3> QED BY SubscribersAssumption, <3>1 DEF SubscribersTypeOK
  <2>2. CASE SignUp(u) \/ Resend(u) \/ Verify(u) \/ Exempt(u)
      BY <2>2 DEF SubscribersTypeOK, SignUp, Resend, Verify, Exempt
  <2> QED BY <2>1, <2>2
<1>4. \A v \in Users : decided[v] > 0 => (v \in exempt => v \in exempt')
  <2>1. CASE Exempt(u)
      BY <2>1 DEF SubscribersTypeOK, Exempt
  <2>2. CASE SignUp(u) \/ Resend(u) \/ Verify(u) \/ OnboardingPost(u)
      BY <2>2 DEF SignUp, Resend, Verify, OnboardingPost
  <2> QED BY <2>1, <2>2
<1>5. SubscribersTypeOK'
    BY <1>1, <1>2, <1>3 DEF SubscribersTypeOK
<1>6. OwnerOneOwner' /\ \A v \in Users : Trials(v)' \subseteq Trials(v)
    BY <1>1 DEF OwnerOneOwner, Trials, Owned
<1> QED BY <1>1, <1>4, <1>5, <1>6, OwnerQuietIInv

\* Creation of a site: what is decided under the lock ...
LEMMA OwnerDecideIInv ==
  ASSUME OwnerIInv, NEW u \in Users, CreateDecide(u)
  PROVE  OwnerIInv'
<1> USE DEF OwnerIInv
<1>1. UNCHANGED <<account, link, exempt, status, trial, billing, role, beside>>
    BY DEF CreateDecide
<1>2. posts[u] > 0 /\ posts' = [posts EXCEPT ![u] = @ - 1]
    BY DEF CreateDecide
<1>3. \A v \in Users : posts'[v] \in 0..MaxPosts[v]
    BY SubscribersAssumption, <1>2 DEF SubscribersTypeOK
<1>4. decided[u] = 0
    BY DEF CreateDecide, OwnerFree
<1>5. decided' \in [Users -> {0, 1}] /\ \A v \in Users : v # u => decided'[v] = decided[v]
    BY <1>4 DEF CreateDecide, SubscribersTypeOK
<1>6. SubscribersTypeOK'
    BY <1>1, <1>3, <1>5 DEF SubscribersTypeOK
<1>7. \A v \in Users : Trials(v)' = Trials(v) /\ Owned(v)' = Owned(v)
    BY <1>1 DEF Trials, Owned
<1>8. decided'[u] > 0 => u \in exempt \/ Trials(u) = {}
  <2> SUFFICES ASSUME decided'[u] > 0, u \notin exempt PROVE Trials(u) = {}
      OBVIOUS
  <2>1. Allowed(u)
      BY <1>4 DEF CreateDecide
  <2>2. Owned(u) = {} => Trials(u) = {}
      BY DEF Trials
  <2> QED BY <2>1, <2>2 DEF Allowed
<1>9. OwnerDeciding'
    BY <1>1, <1>5, <1>7, <1>8 DEF OwnerDeciding
<1>10. OwnerOneOwner' /\ TrialsExplained'
    BY <1>1, <1>7 DEF OwnerOneOwner, TrialsExplained
<1> QED BY <1>6, <1>9, <1>10

\* ... and its commit.
LEMMA OwnerCommitIInv ==
  ASSUME OwnerIInv, NEW u \in Users, NEW s \in Sites, CreateCommit(u, s)
  PROVE  OwnerIInv'
<1> USE DEF OwnerIInv
<1>1. /\ decided[u] > 0 /\ status[s] = "NONE"
      /\ status' = [status EXCEPT ![s] = IF u \in exempt THEN "ACTIVE" ELSE "TRIALING"]
      /\ trial' = trial \union {s}
      /\ role' = [role EXCEPT ![s][u] = "ADMIN"]
      /\ decided' = [decided EXCEPT ![u] = @ - 1]
      /\ UNCHANGED <<account, link, exempt, billing, posts, beside>>
    BY DEF CreateCommit
<1>2. /\ status' \in [Sites -> Statuses] /\ status'[s] \in {"ACTIVE", "TRIALING"}
      /\ u \in exempt => status'[s] = "ACTIVE"
      /\ \A t \in Sites : t # s => status'[t] = status[t]
    BY <1>1 DEF SubscribersTypeOK, Statuses
<1>3. /\ role' \in [Sites -> [Users -> Roles]] /\ role'[s][u] = "ADMIN"
      /\ \A v \in Users : v # u => role'[s][v] = "NONE"
      /\ \A t \in Sites : t # s => role'[t] = role[t]
    BY <1>1 DEF SubscribersTypeOK, Roles, OwnerOneOwner
<1>4. /\ decided' \in [Users -> {0, 1}] /\ decided'[u] = 0
      /\ \A v \in Users : v # u => decided'[v] = decided[v]
    BY <1>1 DEF SubscribersTypeOK
<1>5. SubscribersTypeOK'
    BY <1>1, <1>2, <1>3, <1>4 DEF SubscribersTypeOK
<1>6. OwnerOneOwner'
  <2>1. ASSUME NEW t \in Sites, NEW v \in Users, status'[t] = "NONE"
        PROVE  role'[t][v] = "NONE"
    <3>1. t # s
        BY <1>2, <2>1
    <3>2. status[t] = "NONE" /\ role'[t] = role[t]
        BY <1>2, <1>3, <2>1, <3>1
    <3> QED BY <3>2 DEF OwnerOneOwner
  <2>2. ASSUME NEW t \in Sites, NEW v \in Users, NEW w \in Users,
               role'[t][v] = "ADMIN", role'[t][w] = "ADMIN"
        PROVE  v = w
    <3>1. CASE t = s
        BY <1>3, <2>2, <3>1
    <3>2. CASE t # s
        BY <1>3, <2>2, <3>2 DEF OwnerOneOwner
    <3> QED BY <3>1, <3>2
  <2>3. \A t \in Sites : status'[t] = "NONE" => billing'[t] = "none"
      BY <1>1, <1>2 DEF OwnerOneOwner
  <2> QED BY <2>1, <2>2, <2>3 DEF OwnerOneOwner
<1>7. \A v \in Users : v # u => Trials(v)' \subseteq Trials(v)
  <2> SUFFICES ASSUME NEW v \in Users, v # u, NEW t \in Trials(v)' PROVE t \in Trials(v)
      OBVIOUS
  <2>1. t \in Sites /\ role'[t][v] = "ADMIN" /\ status'[t] = "TRIALING"
      BY DEF Trials, Owned
  <2>2. t # s
      BY <1>3, <2>1
  <2> QED BY <1>2, <1>3, <2>1, <2>2 DEF Trials, Owned
<1>8. Trials(u)' \subseteq Trials(u) \union {s} /\ (u \in exempt => Trials(u)' \subseteq Trials(u))
  <2> SUFFICES ASSUME NEW t \in Trials(u)'
               PROVE  (t \in Trials(u) \/ t = s) /\ (u \in exempt => t \in Trials(u))
      OBVIOUS
  <2>1. t \in Sites /\ role'[t][u] = "ADMIN" /\ status'[t] = "TRIALING"
      BY DEF Trials, Owned
  <2>2. CASE t = s
      BY <1>2, <2>1, <2>2
  <2>3. CASE t # s
      BY <1>2, <1>3, <2>1, <2>3 DEF Trials, Owned
  <2> QED BY <2>2, <2>3
<1>9. OwnerDeciding'
    BY <1>1, <1>4, <1>7 DEF OwnerDeciding
<1>10. u \in exempt \/ Trials(u) \subseteq beside
    BY <1>1 DEF OwnerDeciding
<1>11. TrialsExplained'
    BY <1>1, <1>7, <1>8, <1>10 DEF TrialsExplained
<1> QED BY <1>5, <1>6, <1>9, <1>11

\* A site's status is set: it may go back into its trial, and that is noted when its owner
\* has or is about to have another one.
LEMMA OwnerStatusIInv ==
  ASSUME OwnerIInv, NEW s \in Sites, NEW to \in Statuses, status[s] # "NONE", to # "NONE",
         SetStatus(s, to), UNCHANGED <<account, link, exempt, trial, role, posts, decided>>,
         billing' \in [Sites -> Stages \union {"none"}],
         \A t \in Sites \ {s} : billing'[t] = billing[t]
  PROVE  OwnerIInv'
<1> USE DEF OwnerIInv
<1>1. /\ status' = [status EXCEPT ![s] = to]
      /\ beside' = IF status[s] # "TRIALING" /\ to = "TRIALING" /\ BesideTrial(s)
                   THEN beside \union {s} ELSE beside
    BY DEF SetStatus
<1>2. status' \in [Sites -> Statuses] /\ status'[s] = to
      /\ \A t \in Sites : t # s => status'[t] = status[t]
    BY <1>1 DEF SubscribersTypeOK
<1>3. beside \subseteq beside' /\ beside' \subseteq Sites
    BY <1>1 DEF SubscribersTypeOK
<1>4. SubscribersTypeOK'
    BY <1>2, <1>3 DEF SubscribersTypeOK
<1>5. OwnerOneOwner'
  <2>1. \A t \in Sites : status'[t] = "NONE" => status[t] = "NONE" /\ t # s
      BY <1>2
  <2> QED BY <2>1 DEF OwnerOneOwner
<1>6. ASSUME NEW u \in Users, NEW t \in Trials(u)'
      PROVE  t \in Trials(u) \/ (/\ t = s /\ status[s] # "TRIALING" /\ to = "TRIALING"
                                 /\ role[s][u] = "ADMIN")
  <2>1. t \in Sites /\ role[t][u] = "ADMIN" /\ status'[t] = "TRIALING"
      BY <1>6 DEF Trials, Owned
  <2>2. t \in Trials(u) <=> status[t] = "TRIALING"
      BY <2>1 DEF Trials, Owned
  <2> QED BY <1>2, <2>1, <2>2
<1>7. ASSUME NEW u \in Users, role[s][u] = "ADMIN", status[s] # "TRIALING", to = "TRIALING",
             Trials(u) \ {s} # {} \/ decided[u] > 0
      PROVE  s \in beside'
    BY <1>1, <1>7 DEF BesideTrial
<1>8. OwnerDeciding'
    BY <1>3, <1>6, <1>7 DEF OwnerDeciding
<1>9. ASSUME NEW u \in Users, NEW t1 \in Trials(u)', NEW t2 \in Trials(u)', t1 # t2
      PROVE  t1 \in beside' \/ t2 \in beside'
  <2>1. CASE t1 \in Trials(u) /\ t2 \in Trials(u)
      BY <1>3, <1>9, <2>1 DEF TrialsExplained
  <2>2. CASE t1 \notin Trials(u)
      BY <1>6, <1>7, <1>9, <2>2
  <2>3. CASE t2 \notin Trials(u)
      BY <1>6, <1>7, <1>9, <2>3
  <2> QED BY <2>1, <2>2, <2>3
<1>10. TrialsExplained'
    BY <1>9 DEF TrialsExplained
<1> QED BY <1>4, <1>5, <1>8, <1>10

\* Stripe, the clock, the hourly job, suspension and resumption
LEMMA OwnerBillingIInv ==
  ASSUME OwnerIInv, NEW s \in Sites,
         \/ Subscribe(s) \/ TrialEnds(s) \/ SynchronizeAccess(s) \/ Suspend(s) \/ Resume(s)
         \/ \E stage \in Stages, to \in Statuses : StripeReports(s, stage, to)
  PROVE  OwnerIInv'
<1> USE DEF OwnerIInv
<1>1. billing \in [Sites -> Stages \union {"none"}] /\ trial \subseteq Sites
    BY DEF SubscribersTypeOK
<1>2. CASE Subscribe(s) \/ TrialEnds(s)
  <2>1. UNCHANGED <<account, link, exempt, status, role, posts, decided, beside>>
      BY <1>2 DEF Subscribe, TrialEnds
  <2>2. /\ billing' \in [Sites -> Stages \union {"none"}] /\ trial' \subseteq Sites
        /\ \A t \in Sites : status[t] = "NONE" => billing'[t] = billing[t]
      BY <1>1, <1>2 DEF Subscribe, TrialEnds, Stages
  <2>3. SubscribersTypeOK'
      BY <2>1, <2>2 DEF SubscribersTypeOK
  <2>4. OwnerOneOwner' /\ \A u \in Users : Trials(u)' \subseteq Trials(u)
      BY <2>1, <2>2 DEF OwnerOneOwner, Trials, Owned
  <2> QED BY <2>1, <2>3, <2>4, OwnerQuietIInv
<1>3. ASSUME NEW stage \in Stages, NEW to \in Statuses, StripeReports(s, stage, to)
      PROVE  OwnerIInv'
  <2>1. /\ billing[s] # "none" /\ billing' = [billing EXCEPT ![s] = stage] /\ SetStatus(s, to)
        /\ UNCHANGED <<account, link, exempt, trial, role, posts, decided>>
        /\ to \in StatusAt(stage)
      BY <1>3 DEF StripeReports
  <2>2. status[s] # "NONE" /\ to # "NONE"
      BY <2>1 DEF OwnerOneOwner, StatusAt
  <2> QED BY <1>1, <2>1, <2>2, OwnerStatusIInv
<1>4. ASSUME SynchronizeAccess(s) \/ Suspend(s) \/ Resume(s)
      PROVE  OwnerIInv'
  <2>1. PICK to \in {"ACTIVE", "TRIALING", "SUSPENDED"} : SetStatus(s, to)
      BY <1>4 DEF SynchronizeAccess, Suspend, Resume, ResumedStatus
  <2>2. /\ status[s] \in {"TRIALING", "ACTIVE", "GRACE", "SUSPENDED"}
        /\ UNCHANGED <<account, link, exempt, trial, billing, role, posts, decided>>
      BY <1>4 DEF SynchronizeAccess, Suspend, Resume, Live
  <2>3. to \in Statuses
      BY DEF Statuses
  <2> QED BY <1>1, <2>1, <2>2, <2>3, OwnerStatusIInv
<1> QED BY <1>2, <1>3, <1>4

LEMMA OwnerManagerIInv ==
  ASSUME OwnerIInv, NEW s \in Sites, NEW u \in Users, AddManager(s, u) \/ RemoveManager(s, u)
  PROVE  OwnerIInv'
<1> USE DEF OwnerIInv
<1>1. UNCHANGED <<account, link, exempt, status, trial, billing, posts, decided, beside>>
      /\ status[s] \in Live
    BY DEF AddManager, RemoveManager
<1>2. PICK to \in {"MANAGER", "REMOVED"} : role' = [role EXCEPT ![s][u] = to]
    BY DEF AddManager, RemoveManager
<1>3. /\ role' \in [Sites -> [Users -> Roles]]
      /\ \A t \in Sites, v \in Users :
            role'[t][v] = role[t][v] \/ (t = s /\ role'[t][v] \in {"MANAGER", "REMOVED"})
  <2>1. role' \in [Sites -> [Users -> Roles]]
      BY <1>2 DEF SubscribersTypeOK, Roles
  <2>2. role'[s] = [role[s] EXCEPT ![u] = to] /\ \A t \in Sites : t # s => role'[t] = role[t]
      BY <1>2 DEF SubscribersTypeOK
  <2>3. DOMAIN role[s] = Users
      BY DEF SubscribersTypeOK
  <2>4. role'[s][u] = to /\ \A v \in Users : v # u => role'[s][v] = role[s][v]
      BY <2>2, <2>3
  <2> QED BY <1>2, <2>1, <2>2, <2>4
<1>4. SubscribersTypeOK'
    BY <1>1, <1>3 DEF SubscribersTypeOK
<1>5. OwnerOneOwner'
  <2>1. status[s] # "NONE"
      BY <1>1 DEF Live
  <2>2. \A t \in Sites, v \in Users : role'[t][v] = "ADMIN" => role[t][v] = "ADMIN"
      BY <1>3
  <2>3. ASSUME NEW t \in Sites, NEW v \in Users, status[t] = "NONE"
        PROVE  role'[t][v] = "NONE"
    <3>1. role'[t][v] = role[t][v]
        BY <1>3, <2>1, <2>3
    <3> QED BY <2>3, <3>1 DEF OwnerOneOwner
  <2>4. \A t \in Sites, v \in Users : status'[t] = "NONE" => role'[t][v] = "NONE"
      BY <1>1, <2>3
  <2>5. ASSUME NEW t \in Sites, NEW v \in Users, NEW w \in Users,
               role'[t][v] = "ADMIN", role'[t][w] = "ADMIN"
        PROVE  v = w
    <3>1. role[t][v] = "ADMIN" /\ role[t][w] = "ADMIN"
        BY <2>2, <2>5
    <3>2. OwnerOneOwner
        OBVIOUS
    <3> QED BY <3>1, <3>2 DEF OwnerOneOwner
  <2>6. \A t \in Sites : status'[t] = "NONE" => billing'[t] = "none"
      BY <1>1 DEF OwnerOneOwner
  <2> QED BY <2>4, <2>5, <2>6 DEF OwnerOneOwner
<1>6. \A v \in Users : Trials(v)' \subseteq Trials(v)
    BY <1>1, <1>3 DEF Trials, Owned
<1> QED BY <1>1, <1>4, <1>5, <1>6, OwnerQuietIInv

LEMMA OwnerStutterIInv == OwnerIInv /\ UNCHANGED siteVars => OwnerIInv'
  BY DEF OwnerIInv, SubscribersTypeOK, OwnerOneOwner, OwnerDeciding, TrialsExplained, Trials, Owned, siteVars

LEMMA OwnerNextIInv == OwnerIInv /\ [SubscribersNext]_siteVars => OwnerIInv'
<1> SUFFICES ASSUME OwnerIInv, SubscribersNext PROVE OwnerIInv'
    BY OwnerStutterIInv
<1>1. CASE \E u \in Users :
              \/ SignUp(u) \/ Resend(u) \/ Verify(u) \/ Exempt(u)
              \/ OnboardingPost(u) \/ CreateDecide(u)
    BY <1>1, OwnerAccountIInv, OwnerDecideIInv
<1>2. CASE \E u \in Users, s \in Sites :
              CreateCommit(u, s) \/ AddManager(s, u) \/ RemoveManager(s, u)
    BY <1>2, OwnerCommitIInv, OwnerManagerIInv
<1>3. CASE \E s \in Sites :
              \/ Subscribe(s) \/ TrialEnds(s) \/ SynchronizeAccess(s) \/ Suspend(s) \/ Resume(s)
              \/ \E stage \in Stages, to \in Statuses : StripeReports(s, stage, to)
    BY <1>3, OwnerBillingIInv
<1> QED BY <1>1, <1>2, <1>3 DEF SubscribersNext

\* Each step of an account, a creation, a subscription or a manager keeps the types; at most
\* one creation of an owner is between its decision and its commit.
THEOREM SubscriberSitesTypeOK == SubscribersSpec => []SubscribersTypeOK
<1>1. OwnerIInv => SubscribersTypeOK
    BY DEF OwnerIInv
<1> QED BY OwnerInitIInv, OwnerNextIInv, <1>1, PTL DEF SubscribersSpec

\* However many onboarding forms of an owner overlap, two organizations of one owner are in
\* trial only when one went back into its trial, resumed or reported by Stripe to be trialing,
\* beside the other or its creation.
THEOREM SubscriberSitesTrials == SubscribersSpec => []TrialsExplained
<1>1. OwnerIInv => TrialsExplained
    BY DEF OwnerIInv
<1> QED BY OwnerInitIInv, OwnerNextIInv, <1>1, PTL DEF SubscribersSpec

-----------------------------------------------------------------------------
(***************************************************************************)
(* IntakeAutomation                                                        *)
(*                                                                         *)
(* Only the visitor's own request writes verdicts and effects for its      *)
(* response.  From the post to the reading of the rules, the rules for the *)
(* form now lie between those that were active all the while and those     *)
(* that ever were, so the queue does when it is read; from then on every   *)
(* rule that was active all the while has a verdict or waits in the queue. *)
(***************************************************************************)

Arriving == {"matched", "linked", "stored"}
Running == {"run", "acted"}

Visit ==
    {Away}
    \union [step : Arriving, form : FormRows, contact : BOOLEAN, found : {"NONE", "UNNAMED", "NAMED"}]
    \union [step : Running, contact : BOOLEAN, queue : SUBSET Rules, rows : [Rules -> RuleRows],
            long : BOOLEAN]
    \union [step : {"lost", "thanked"}]

IntakeTypes ==
    /\ form \in FormRows /\ rules \in [Rules -> RuleRows]
    /\ person \in {"NONE", "UNNAMED", "NAMED"}
    /\ posting = [a \in Actors |-> posting[a]]
    /\ \A v \in Visitors : posting[v] \in Visit
    /\ always \in [Visitors -> SUBSET Rules] /\ ever \in [Visitors -> SUBSET Rules]

\* Before it runs the rules a request has left no verdict and no effect.
Untouched(v) == (\A q \in runs : q.by # v) /\ (\A f \in effects : f.by # v)

HasVerdict(v, r, verdicts) ==
    \E q \in runs : q.by = v /\ q.rule = r /\ q.status \in verdicts

\* What the request has done with the rules so far
Answered(v) ==
    /\ \A r \in always[v] :
            \/ HasVerdict(v, r, {"SUCCEEDED", "SKIPPED", "FAILED"})
            \/ posting[v].step \in Running /\ r \in posting[v].queue
    /\ \A q \in runs : q.by = v =>
            /\ q.rule \in ever[v]
            /\ q.status = "SUCCEEDED" => [by |-> v, rule |-> q.rule] \in effects
    /\ \A f \in effects : f.by = v =>
            \/ HasVerdict(v, f.rule, {"SUCCEEDED", "FAILED"})
            \/ posting[v].step = "acted" /\ f.rule = ThisRule(v)

Followed(v) ==
    /\ posting[v].step \in Arriving \union {"away"} => Untouched(v)
    /\ posting[v].step \in {"stored", "run", "acted", "thanked"} => v \in stored
    /\ posting[v].step \in Arriving => always[v] \subseteq Triggered(rules) /\ Triggered(rules) \subseteq ever[v]
    /\ posting[v].step \in Running => posting[v].queue \subseteq ever[v]
    /\ posting[v].step \in Running \union {"thanked"} => Answered(v)
    /\ posting[v].step = "acted" =>
            posting[v].queue # {} /\ [by |-> v, rule |-> ThisRule(v)] \in effects

IntakeIInv == IntakeTypes /\ \A v \in Visitors : Followed(v)

\* The first rule of a queue is in it.
LEMMA FirstRule ==
  ASSUME NEW S \in SUBSET Rules, S # {}
  PROVE  Min(S) \in S
<1>1. S \in SUBSET Nat
    BY IntakeAssumption
<1>2. \E p \in S : \A q \in S : p <= q
    BY <1>1, LeastExists
<1> QED BY <1>2 DEF Min

\* The steps tell the records of a request apart.
LEMMA Visits ==
    /\ Away.step = "away"
    /\ \A r \in Visit :
        /\ r = Away <=> r.step = "away"
        /\ r.step \in {"away", "lost", "thanked"} \union Arriving \union Running
        /\ r.step \in Arriving => /\ r.form \in FormRows /\ r.contact \in BOOLEAN
                                  /\ r.found \in {"NONE", "UNNAMED", "NAMED"}
        /\ r.step \in Running => /\ r.queue \in SUBSET Rules /\ r.contact \in BOOLEAN
                                 /\ r.rows \in [Rules -> RuleRows] /\ r.long \in BOOLEAN
<1>1. Away.step = "away"
    BY DEF Away
<1>2. ASSUME NEW r \in Visit
      PROVE  /\ r = Away <=> r.step = "away"
             /\ r.step \in {"away", "lost", "thanked"} \union Arriving \union Running
             /\ r.step \in Arriving => /\ r.form \in FormRows /\ r.contact \in BOOLEAN
                                       /\ r.found \in {"NONE", "UNNAMED", "NAMED"}
             /\ r.step \in Running => /\ r.queue \in SUBSET Rules /\ r.contact \in BOOLEAN
                                      /\ r.rows \in [Rules -> RuleRows] /\ r.long \in BOOLEAN
  <2>1. CASE r = Away
      BY <1>1, <2>1 DEF Arriving, Running
  <2>2. CASE r \in [step : Arriving, form : FormRows, contact : BOOLEAN,
                    found : {"NONE", "UNNAMED", "NAMED"}]
      BY <1>1, <2>2 DEF Arriving, Running
  <2>3. CASE r \in [step : Running, contact : BOOLEAN, queue : SUBSET Rules,
                    rows : [Rules -> RuleRows], long : BOOLEAN]
      BY <1>1, <2>3 DEF Arriving, Running
  <2>4. CASE r \in [step : {"lost", "thanked"}]
      BY <1>1, <2>4 DEF Arriving, Running
  <2> QED BY <2>1, <2>2, <2>3, <2>4 DEF Visit
<1> QED BY <1>1, <1>2

LEMMA IntakeInitIInv == IntakeInit => IntakeIInv
<1> SUFFICES ASSUME IntakeInit PROVE IntakeIInv
    OBVIOUS
<1>1. \A v \in Visitors : posting[v] = Away /\ posting[v].step = "away"
    BY Visits DEF IntakeInit, Actors
<1>2. IntakeTypes
    BY <1>1 DEF IntakeInit, IntakeTypes, Visit
<1>3. \A v \in Visitors : Followed(v)
    BY <1>1 DEF IntakeInit, Followed, Untouched, Arriving, Running
<1> QED BY <1>2, <1>3 DEF IntakeIInv

\* A request is followed as long as its own record, verdicts and effects stay, and the rules
\* that were active all the while, and ever, keep their bounds.
LEMMA OtherFollowed ==
  ASSUME IntakeIInv, NEW v \in Visitors,
         posting'[v] = posting[v],
         v \in stored => v \in stored',
         \A q \in runs' : q.by = v => q \in runs,
         \A q \in runs : q.by = v => q \in runs',
         \A f \in effects' : f.by = v => f \in effects,
         \A f \in effects : f.by = v => f \in effects',
         always'[v] \subseteq always[v],
         posting[v] # Away => ever[v] \subseteq ever'[v],
         posting[v].step \in Arriving =>
            always'[v] \subseteq Triggered(rules') /\ Triggered(rules') \subseteq ever'[v]
  PROVE  Followed(v)'
<1>1. Followed(v) /\ posting[v] \in Visit
    BY DEF IntakeIInv, IntakeTypes
<1>2. posting[v].step \in Running \union {"thanked"} => posting[v] # Away
    BY Visits DEF Running
<1>3. Untouched(v) => Untouched(v)'
    BY DEF Untouched
<1>4. ThisRule(v)' = ThisRule(v)
    BY DEF ThisRule
<1>5. \A r, verdicts : HasVerdict(v, r, verdicts) => HasVerdict(v, r, verdicts)'
    BY DEF HasVerdict
<1>6. ASSUME posting[v].step \in Running \union {"thanked"} PROVE Answered(v)'
  <2>1. Answered(v)
      BY <1>1, <1>6 DEF Followed
  <2>2. ever[v] \subseteq ever'[v]
      BY <1>2, <1>6
  <2>3. \A r \in always'[v] :
            \/ HasVerdict(v, r, {"SUCCEEDED", "SKIPPED", "FAILED"})'
            \/ posting'[v].step \in Running /\ r \in posting'[v].queue
      BY <1>5, <2>1 DEF Answered
  <2>4. \A q \in runs' : q.by = v =>
            /\ q.rule \in ever'[v]
            /\ q.status = "SUCCEEDED" => [by |-> v, rule |-> q.rule] \in effects'
      BY <2>1, <2>2 DEF Answered
  <2>5. \A f \in effects' : f.by = v =>
            \/ HasVerdict(v, f.rule, {"SUCCEEDED", "FAILED"})'
            \/ posting'[v].step = "acted" /\ f.rule = ThisRule(v)'
      BY <1>4, <1>5, <2>1 DEF Answered
  <2> QED BY <2>3, <2>4, <2>5 DEF Answered
<1>7. posting[v].step = "acted" => [by |-> v, rule |-> ThisRule(v)] \in effects'
    BY <1>1 DEF Followed
<1>8. posting[v].step \in Running => posting[v].queue \subseteq ever'[v]
    BY <1>1, <1>2 DEF Followed
<1> QED BY <1>1, <1>3, <1>4, <1>6, <1>7, <1>8 DEF Followed

\* A step of one request leaves the others followed.
LEMMA OwnStep ==
  ASSUME IntakeIInv, NEW a \in Actors, NEW next, Turns(a, next),
         UNCHANGED <<form, rules>>, person' \in {"NONE", "UNNAMED", "NAMED"},
         stored \subseteq stored',
         runs \subseteq runs', \A q \in runs' \ runs : q.by = a,
         effects \subseteq effects', \A f \in effects' \ effects : f.by = a,
         always' \in [Visitors -> SUBSET Rules], ever' \in [Visitors -> SUBSET Rules],
         \A v \in Visitors : v # a => always'[v] = always[v] /\ ever'[v] = ever[v],
         a \in Visitors => next \in Visit /\ Followed(a)'
  PROVE  IntakeIInv'
<1>1. /\ posting' = [b \in Actors |-> posting'[b]] /\ posting'[a] = next
      /\ \A b \in Actors : b # a => posting'[b] = posting[b]
    BY DEF Turns, IntakeIInv, IntakeTypes
<1>2. \A v \in Visitors : v \in Actors
    BY DEF Actors
<1>3. IntakeTypes'
    BY <1>1, <1>2 DEF IntakeIInv, IntakeTypes
<1>4. ASSUME NEW v \in Visitors, v # a PROVE Followed(v)'
  <2>1. posting'[v] = posting[v] /\ Followed(v)
      BY <1>1, <1>2, <1>4 DEF IntakeIInv
  <2>2. always'[v] = always[v] /\ ever'[v] = ever[v] /\ rules' = rules
      BY <1>4
  <2>3. /\ \A q \in runs' : q.by = v => q \in runs
        /\ \A f \in effects' : f.by = v => f \in effects
      BY <1>4
  <2>4. posting[v].step \in Arriving =>
            always'[v] \subseteq Triggered(rules') /\ Triggered(rules') \subseteq ever'[v]
      BY <2>1, <2>2 DEF Followed
  <2> QED BY <2>1, <2>2, <2>3, <2>4, OtherFollowed
<1> QED BY <1>3, <1>4 DEF IntakeIInv

\* Managers save a rule or the form; somebody else writes the contact.
LEMMA ManagersFollow ==
  ASSUME IntakeIInv,
         \/ \E r \in Rules, row \in RuleRows : SaveRule(r, row)
         \/ \E row \in FormRows : SaveForm(row)
         \/ ContactFromElsewhere
  PROVE  IntakeIInv'
<1>1. ASSUME NEW r \in Rules, NEW row \in RuleRows, SaveRule(r, row) PROVE IntakeIInv'
  <2>1. /\ rules' = [rules EXCEPT ![r] = row]
        /\ always' = [v \in Visitors |-> always[v] \intersect Triggered(rules')]
        /\ ever' = [v \in Visitors |->
                        IF posting[v] = Away THEN {} ELSE ever[v] \union Triggered(rules')]
        /\ UNCHANGED <<form, person, posting, stored, effects, runs>>
      BY <1>1 DEF SaveRule
  <2>2. rules' \in [Rules -> RuleRows]
      BY <2>1 DEF IntakeIInv, IntakeTypes
  <2>3. Triggered(rules') \subseteq Rules
      BY <2>2 DEF Triggered
  <2>4. always' \in [Visitors -> SUBSET Rules] /\ ever' \in [Visitors -> SUBSET Rules]
      BY <2>1, <2>3 DEF IntakeIInv, IntakeTypes
  <2>5. IntakeTypes'
      BY <2>1, <2>2, <2>4 DEF IntakeIInv, IntakeTypes
  <2>6. ASSUME NEW v \in Visitors PROVE Followed(v)'
    <3>1. posting[v].step \in Arriving => posting[v] # Away
        BY Visits DEF Arriving
    <3>2. always'[v] \subseteq always[v] /\ always'[v] \subseteq Triggered(rules')
        BY <2>1
    <3>3. posting[v] # Away => ever[v] \subseteq ever'[v] /\ Triggered(rules') \subseteq ever'[v]
        BY <2>1
    <3>4. posting'[v] = posting[v] /\ stored' = stored /\ runs' = runs /\ effects' = effects
        BY <2>1
    <3> QED BY <3>1, <3>2, <3>3, <3>4, OtherFollowed
  <2> QED BY <2>5, <2>6 DEF IntakeIInv
<1>2. ASSUME UNCHANGED <<rules, posting, stored, effects, runs, always, ever>>,
             form' \in FormRows, person' \in {"NONE", "UNNAMED", "NAMED"}
      PROVE  IntakeIInv'
  <2>1. IntakeTypes'
      BY <1>2 DEF IntakeIInv, IntakeTypes
  <2>2. ASSUME NEW v \in Visitors PROVE Followed(v)'
    <3>1. Followed(v)
        BY DEF IntakeIInv
    <3> QED BY <1>2, <3>1, OtherFollowed DEF Followed
  <2> QED BY <2>1, <2>2 DEF IntakeIInv
<1>3. ASSUME NEW row \in FormRows, SaveForm(row) PROVE IntakeIInv'
    BY <1>2, <1>3 DEF SaveForm, IntakeIInv, IntakeTypes
<1>4. CASE ContactFromElsewhere
    BY <1>2, <1>4 DEF ContactFromElsewhere, IntakeIInv, IntakeTypes
<1> QED BY <1>1, <1>3, <1>4

\* Running a rule by hand is no visitor's request.
LEMMA ByHandFollows ==
  ASSUME IntakeIInv, NEW m \in Staff, HandDone(m) \/ \E r \in Rules : RunByHand(m, r)
  PROVE  IntakeIInv'
<1>1. m \in Actors /\ m \notin Visitors
    BY IntakeAssumption DEF Actors
<1>2. PICK next : Turns(m, next)
    BY DEF HandDone, RunByHand, Turns
<1>3. UNCHANGED <<form, rules, person, stored, effects, runs, always, ever>>
    BY DEF HandDone, RunByHand
<1>4. /\ person' \in {"NONE", "UNNAMED", "NAMED"}
      /\ always' \in [Visitors -> SUBSET Rules] /\ ever' \in [Visitors -> SUBSET Rules]
    BY <1>3 DEF IntakeIInv, IntakeTypes
<1> QED BY <1>1, <1>2, <1>3, <1>4, OwnStep

\* A step that only moves the visitor's request on
LEMMA MovesOn ==
  ASSUME IntakeIInv, NEW v \in Visitors, NEW next \in Visit, Turns(v, next),
         UNCHANGED <<form, rules, effects, runs, always, ever>>,
         person' \in {"NONE", "UNNAMED", "NAMED"}, stored \subseteq stored',
         posting'[v] = next => Followed(v)'
  PROVE  IntakeIInv'
<1>1. v \in Actors
    BY DEF Actors
<1>2. posting'[v] = next
    BY <1>1 DEF Turns, IntakeIInv, IntakeTypes
<1>3. always' \in [Visitors -> SUBSET Rules] /\ ever' \in [Visitors -> SUBSET Rules]
    BY DEF IntakeIInv, IntakeTypes
<1> QED BY <1>1, <1>2, <1>3, OwnStep

LEMMA PostFollows ==
  ASSUME IntakeIInv, NEW v \in Visitors, Post(v)
  PROVE  IntakeIInv'
<1> DEFINE next == [step |-> IF form.link /\ person # "NAMED" THEN "matched" ELSE "linked",
                    form |-> form, contact |-> form.link, found |-> person]
<1>1. /\ v \in Actors /\ posting[v].step = "away" /\ Turns(v, next)
      /\ always' = [always EXCEPT ![v] = Triggered(rules)]
      /\ ever' = [ever EXCEPT ![v] = Triggered(rules)]
      /\ UNCHANGED <<form, rules, person, stored, effects, runs>>
    BY Visits DEF Post, Actors
<1>2. next \in Visit /\ next.step \in {"matched", "linked"}
  <2>1. form.link \in BOOLEAN
      BY IntakeAssumption DEF IntakeIInv, IntakeTypes
  <2> QED BY <2>1 DEF IntakeIInv, IntakeTypes, Visit, Arriving
<1> HIDE DEF next
<1>3. Triggered(rules) \subseteq Rules
    BY DEF Triggered, IntakeIInv, IntakeTypes
<1>4. /\ always' \in [Visitors -> SUBSET Rules] /\ ever' \in [Visitors -> SUBSET Rules]
      /\ always'[v] = Triggered(rules) /\ ever'[v] = Triggered(rules)
      /\ \A u \in Visitors : u # v => always'[u] = always[u] /\ ever'[u] = ever[u]
    BY <1>1, <1>3 DEF IntakeIInv, IntakeTypes
<1>5. posting'[v] = next
    BY <1>1 DEF Turns, IntakeIInv, IntakeTypes
<1>6. Untouched(v)'
    BY <1>1 DEF IntakeIInv, Followed, Untouched
<1>7. Followed(v)'
    BY <1>1, <1>2, <1>4, <1>5, <1>6 DEF Followed, Arriving, Running
<1>8. person' \in {"NONE", "UNNAMED", "NAMED"}
    BY <1>1 DEF IntakeIInv, IntakeTypes
<1> QED BY <1>1, <1>2, <1>4, <1>7, <1>8, OwnStep

\* A request that is lost is followed, whatever it has done.
LEMMA LostFollows ==
  ASSUME IntakeIInv, NEW v \in Visitors, Turns(v, [step |-> "lost"]),
         UNCHANGED <<form, rules, person, stored, effects, runs, always, ever>>
  PROVE  IntakeIInv'
<1>1. [step |-> "lost"] \in Visit
    BY DEF Visit
<1>2. posting'[v] = [step |-> "lost"] => Followed(v)'
    BY DEF Followed, Arriving, Running
<1>3. person' \in {"NONE", "UNNAMED", "NAMED"}
    BY DEF IntakeIInv, IntakeTypes
<1> QED BY <1>1, <1>2, <1>3, MovesOn

\* The contact and the response, before the rules are read
LEMMA StoreFollows ==
  ASSUME IntakeIInv, NEW v \in Visitors, SaveContact(v) \/ Store(v)
  PROVE  IntakeIInv'
<1> DEFINE Onward(step) == [posting[v] EXCEPT !.step = step]
<1>1. posting[v] \in Visit /\ posting[v].step \in Arriving /\ Followed(v)
    BY DEF SaveContact, Store, Arriving, IntakeIInv, IntakeTypes
<1>2. posting[v] \in [step : Arriving, form : FormRows, contact : BOOLEAN,
                      found : {"NONE", "UNNAMED", "NAMED"}]
    BY <1>1, Visits DEF Visit, Arriving, Running
<1>3. \A step \in Arriving : Onward(step) \in Visit /\ Onward(step).step = step
    BY <1>2 DEF Visit
<1> HIDE DEF Onward
<1>4. ASSUME NEW step \in {"linked", "stored"}, Turns(v, Onward(step)),
             UNCHANGED <<form, rules, effects, runs, always, ever>>,
             person' \in {"NONE", "UNNAMED", "NAMED"}, stored \subseteq stored',
             step = "stored" => v \in stored'
      PROVE  IntakeIInv'
  <2>1. Onward(step) \in Visit /\ Onward(step).step = step
      BY <1>3 DEF Arriving
  <2>2. Untouched(v)'
      BY <1>1, <1>4 DEF Followed, Untouched
  <2>3. always'[v] \subseteq Triggered(rules') /\ Triggered(rules') \subseteq ever'[v]
      BY <1>1, <1>4 DEF Followed
  <2>4. posting'[v] = Onward(step) => Followed(v)'
      BY <1>4, <2>1, <2>2, <2>3 DEF Followed, Running
  <2> QED BY <1>4, <2>1, <2>4, MovesOn
<1>5. CASE SaveContact(v)
  <2>1. CASE Turns(v, Onward("linked")) /\ person' = "NAMED"
      BY <1>4, <1>5, <2>1 DEF SaveContact
  <2>2. (Turns(v, Onward("linked")) /\ person' = "NAMED")
            \/ (UNCHANGED person /\ Turns(v, [step |-> "lost"]))
      BY <1>5 DEF SaveContact, Onward
  <2> QED BY <1>5, <2>1, <2>2, LostFollows DEF SaveContact
<1>6. CASE Store(v)
  <2>1. CASE stored' = stored \union {v} /\ Turns(v, Onward("stored"))
      BY <1>4, <1>6, <2>1 DEF Store, IntakeIInv, IntakeTypes
  <2>2. (stored' = stored \union {v} /\ Turns(v, Onward("stored")))
            \/ (UNCHANGED stored /\ Turns(v, [step |-> "lost"]))
      BY <1>6 DEF Store, Onward
  <2> QED BY <1>6, <2>1, <2>2, LostFollows DEF Store
<1> QED BY <1>5, <1>6

\* The rules are read: those active all the while are in the queue, and no others than those
\* that ever were.
LEMMA DispatchFollows ==
  ASSUME IntakeIInv, NEW v \in Visitors, Dispatch(v)
  PROVE  IntakeIInv'
<1> DEFINE next == [step |-> "run", contact |-> posting[v].contact, queue |-> Chosen(rules),
                    rows |-> rules, long |-> posting[v].form.long]
<1>1. posting[v] \in Visit /\ posting[v].step = "stored" /\ Followed(v)
    BY DEF Dispatch, IntakeIInv, IntakeTypes
<1>2. posting[v].contact \in BOOLEAN /\ posting[v].form.long \in BOOLEAN
    BY <1>1, Visits, IntakeAssumption DEF Arriving
<1>3. Chosen(rules) = Triggered(rules) /\ Chosen(rules) \in SUBSET Rules
    BY DEF Chosen, Triggered, IntakeIInv, IntakeTypes
<1>4. next \in Visit /\ next.step = "run" /\ next.queue = Triggered(rules)
    BY <1>2, <1>3 DEF IntakeIInv, IntakeTypes, Visit, Running
<1> HIDE DEF next
<1>5. Turns(v, next) /\ UNCHANGED <<form, rules, person, stored, effects, runs, always, ever>>
    BY DEF Dispatch, next
<1>6. ASSUME posting'[v] = next PROVE Followed(v)'
  <2>1. v \in stored' /\ Untouched(v)' /\ always'[v] \subseteq next.queue /\ next.queue \subseteq ever'[v]
      BY <1>1, <1>4, <1>5 DEF Followed, Untouched, Arriving
  <2>2. Answered(v)'
      BY <1>4, <1>6, <2>1 DEF Answered, Untouched, Running
  <2> QED BY <1>4, <1>6, <2>1, <2>2 DEF Followed, Arriving, Running
<1>7. person' \in {"NONE", "UNNAMED", "NAMED"}
    BY <1>5 DEF IntakeIInv, IntakeTypes
<1> QED BY <1>4, <1>5, <1>6, <1>7, MovesOn

LEMMA ThankFollows ==
  ASSUME IntakeIInv, NEW v \in Visitors, Thank(v)
  PROVE  IntakeIInv'
<1>1. /\ posting[v] \in Visit /\ posting[v].step = "run" /\ posting[v].queue = {} /\ Followed(v)
      /\ UNCHANGED <<form, rules, person, stored, effects, runs, always, ever>>
    BY DEF Thank, IntakeIInv, IntakeTypes
<1>2. CASE Turns(v, [step |-> "lost"])
    BY <1>1, <1>2, LostFollows
<1>3. CASE Turns(v, [step |-> "thanked"])
  <2>1. [step |-> "thanked"] \in Visit
      BY DEF Visit
  <2>2. v \in stored' /\ Answered(v)
      BY <1>1 DEF Followed, Running
  <2>3. ASSUME posting'[v] = [step |-> "thanked"] PROVE Followed(v)'
    <3>1. posting'[v].step = "thanked"
        BY <2>3
    <3>2. \A r, verdicts : HasVerdict(v, r, verdicts)' <=> HasVerdict(v, r, verdicts)
        BY <1>1 DEF HasVerdict
    <3>3. Answered(v)'
        BY <1>1, <2>2, <3>2 DEF Answered
    <3> QED BY <2>2, <3>1, <3>3 DEF Followed, Arriving, Running
  <2>4. person' \in {"NONE", "UNNAMED", "NAMED"}
      BY <1>1 DEF IntakeIInv, IntakeTypes
  <2> QED BY <1>1, <1>3, <2>1, <2>3, <2>4, MovesOn
<1>4. Turns(v, [step |-> "lost"]) \/ Turns(v, [step |-> "thanked"])
    BY DEF Thank
<1> QED BY <1>2, <1>3, <1>4

\* A rule is done with: the request goes on to the rest of the queue.
LEMMA DoneFollows ==
  ASSUME IntakeIInv, NEW a \in Actors, posting[a].step \in Running,
         a \in Visitors => posting[a].queue # {}, Turns(a, Rest(a)), UNCHANGED <<form, rules, person, stored, effects, always, ever>>,
         NEW verdicts \in SUBSET {"SUCCEEDED", "SKIPPED", "FAILED"}, verdicts # {},
         runs' = runs \union {RunRow(a, verdict) : verdict \in verdicts},
         posting[a].step = "acted" => verdicts \intersect {"SUCCEEDED", "FAILED"} # {},
         "SUCCEEDED" \in verdicts => posting[a].step = "acted"
  PROVE  IntakeIInv'
<1>0. PICK this : this = ThisRule(a)
    OBVIOUS
<1>1. /\ \A row \in runs' \ runs : row.by = a /\ row.rule = this /\ row.status \in verdicts
      /\ \A verdict \in verdicts : \E row \in runs' :
            row.by = a /\ row.rule = this /\ row.status = verdict
      /\ runs \subseteq runs'
  <2>1. \A verdict \in verdicts :
            /\ RunRow(a, verdict).by = a /\ RunRow(a, verdict).rule = this
            /\ RunRow(a, verdict).status = verdict /\ RunRow(a, verdict) \in runs'
      BY <1>0 DEF RunRow
  <2>2. \A row \in runs' \ runs : \E verdict \in verdicts : row = RunRow(a, verdict)
      OBVIOUS
  <2> QED BY <2>1, <2>2
<1>2. /\ person' \in {"NONE", "UNNAMED", "NAMED"}
      /\ always' \in [Visitors -> SUBSET Rules] /\ ever' \in [Visitors -> SUBSET Rules]
    BY DEF IntakeIInv, IntakeTypes
<1>3. ASSUME a \in Visitors PROVE Rest(a) \in Visit /\ Followed(a)'
  <2>1. posting[a] \in Visit /\ Followed(a)
      BY <1>3 DEF IntakeIInv, IntakeTypes
  <2>2. posting[a] \in [step : Running, contact : BOOLEAN, queue : SUBSET Rules,
                        rows : [Rules -> RuleRows], long : BOOLEAN]
      BY <2>1, Visits DEF Visit, Arriving, Running
  <2>3. /\ Rest(a) \in Visit /\ Rest(a).step = "run"
        /\ Rest(a).queue = posting[a].queue \ {this}
      BY <1>0, <2>2 DEF Rest, Visit, Running
  <2>4. this \in posting[a].queue
      BY <1>0, <1>3, <2>2, FirstRule DEF ThisRule
  <2>5. posting'[a] = Rest(a)
      BY DEF Turns, IntakeIInv, IntakeTypes
  <2>6. Answered(a)
      BY <2>1 DEF Followed
  <2>7. posting[a].queue \subseteq ever[a] /\ a \in stored
      BY <2>1 DEF Followed, Running
  <2>8. \A r, S : HasVerdict(a, r, S) => HasVerdict(a, r, S)'
      BY DEF HasVerdict
  <2>9. HasVerdict(a, this, verdicts)'
    <3>1. PICK verdict \in verdicts : TRUE
        OBVIOUS
    <3>2. PICK row \in runs' : row.by = a /\ row.rule = this /\ row.status = verdict
        BY <1>1, <3>1
    <3>3. row \in runs' /\ row.by = a /\ row.rule = this /\ row.status \in verdicts
        BY <3>1, <3>2
    <3> QED BY <3>3 DEF HasVerdict
  <2>10. \A r \in always'[a] :
            \/ HasVerdict(a, r, {"SUCCEEDED", "SKIPPED", "FAILED"})'
            \/ posting'[a].step \in Running /\ r \in posting'[a].queue
    <3>1. HasVerdict(a, this, {"SUCCEEDED", "SKIPPED", "FAILED"})'
        BY <2>9 DEF HasVerdict
    <3> QED BY <2>3, <2>5, <2>6, <2>8, <3>1 DEF Answered, Running
  <2>11. \A q \in runs' : q.by = a =>
            /\ q.rule \in ever'[a]
            /\ q.status = "SUCCEEDED" => [by |-> a, rule |-> q.rule] \in effects'
    <3>1. posting[a].step = "acted" => [by |-> a, rule |-> this] \in effects
        BY <1>0, <2>1 DEF Followed
    <3> QED BY <1>1, <2>4, <2>6, <2>7, <3>1 DEF Answered
  <2>12. \A f \in effects' : f.by = a => HasVerdict(a, f.rule, {"SUCCEEDED", "FAILED"})'
    <3>1. posting[a].step = "acted" => HasVerdict(a, this, {"SUCCEEDED", "FAILED"})'
        BY <1>1 DEF HasVerdict
    <3> QED BY <1>0, <2>6, <2>8, <3>1 DEF Answered
  <2>13. Answered(a)'
      BY <2>10, <2>11, <2>12 DEF Answered
  <2> QED BY <2>3, <2>5, <2>7, <2>13 DEF Followed, Arriving, Running
<1> QED BY <1>1, <1>2, <1>3, OwnStep

\* The rule's effect is committed; its verdict is still to come.
LEMMA ActFollows ==
  ASSUME IntakeIInv, NEW a \in Actors, posting[a].step = "run", posting[a].queue # {},
         effects' = effects \union {[by |-> a, rule |-> ThisRule(a)]},
         Turns(a, [posting[a] EXCEPT !.step = "acted"]),
         UNCHANGED <<form, rules, person, stored, runs, always, ever>>
  PROVE  IntakeIInv'
<1> DEFINE next == [posting[a] EXCEPT !.step = "acted"]
<1>0. PICK this : this = ThisRule(a)
    OBVIOUS
<1>1. /\ [by |-> a, rule |-> this] \in effects'
      /\ \A f \in effects' \ effects : f.by = a /\ f.rule = this
    BY <1>0
<1>2. /\ person' \in {"NONE", "UNNAMED", "NAMED"}
      /\ always' \in [Visitors -> SUBSET Rules] /\ ever' \in [Visitors -> SUBSET Rules]
    BY DEF IntakeIInv, IntakeTypes
<1>3. ASSUME a \in Visitors PROVE next \in Visit /\ Followed(a)'
  <2>1. posting[a] \in Visit /\ Followed(a)
      BY <1>3 DEF IntakeIInv, IntakeTypes
  <2>2. posting[a] \in [step : Running, contact : BOOLEAN, queue : SUBSET Rules,
                        rows : [Rules -> RuleRows], long : BOOLEAN]
      BY <2>1, Visits DEF Visit, Arriving, Running
  <2>3. next \in Visit /\ next.step = "acted" /\ next.queue = posting[a].queue
      BY <2>2 DEF Visit, Running
  <2> HIDE DEF next
  <2>4. posting'[a] = next
      BY DEF Turns, IntakeIInv, IntakeTypes, next
  <2>5. ThisRule(a)' = this
      BY <1>0, <2>3, <2>4 DEF ThisRule
  <2>6. Answered(a) /\ a \in stored /\ posting[a].queue \subseteq ever[a]
      BY <2>1 DEF Followed, Running
  <2>7. \A r, S : HasVerdict(a, r, S)' <=> HasVerdict(a, r, S)
      BY DEF HasVerdict
  <2>8. \A r \in always'[a] :
            \/ HasVerdict(a, r, {"SUCCEEDED", "SKIPPED", "FAILED"})'
            \/ posting'[a].step \in Running /\ r \in posting'[a].queue
      BY <2>3, <2>4, <2>6, <2>7 DEF Answered, Running
  <2>9. \A q \in runs' : q.by = a =>
            /\ q.rule \in ever'[a]
            /\ q.status = "SUCCEEDED" => [by |-> a, rule |-> q.rule] \in effects'
      BY <2>6 DEF Answered
  <2>10. \A f \in effects' : f.by = a =>
            \/ HasVerdict(a, f.rule, {"SUCCEEDED", "FAILED"})'
            \/ posting'[a].step = "acted" /\ f.rule = ThisRule(a)'
      BY <1>1, <2>3, <2>4, <2>5, <2>6, <2>7 DEF Answered
  <2>11. Answered(a)'
      BY <2>8, <2>9, <2>10 DEF Answered
  <2> QED BY <1>1, <2>3, <2>4, <2>5, <2>6, <2>11 DEF Followed, Arriving, Running
<1> QED BY <1>1, <1>2, <1>3, OwnStep

LEMMA RuleFollows ==
  ASSUME IntakeIInv, NEW a \in Actors, Skip(a) \/ Act(a) \/ Record(a)
  PROVE  IntakeIInv'
<1>1. CASE Skip(a)
  <2>1. runs' = runs \union {RunRow(a, verdict) : verdict \in {"SKIPPED"}}
      BY <1>1 DEF Skip
  <2> QED BY <1>1, <2>1, DoneFollows DEF Skip, Running
<1>2. CASE Record(a)
  <2>1. PICK verdicts \in {{"SUCCEEDED", "FAILED"}, {"SUCCEEDED"}, {"FAILED"}} :
            runs' = runs \union {RunRow(a, verdict) : verdict \in verdicts}
    <3>1. CASE runs' = runs \union {RunRow(a, verdict) : verdict \in Verdicts(posting[a].rows[ThisRule(a)])}
        BY <3>1 DEF Verdicts
    <3>2. CASE runs' = runs \union {RunRow(a, "FAILED")}
        BY <3>2
    <3> QED BY <1>2, <3>1, <3>2 DEF Record
  <2>2. a \in Visitors => posting[a].queue # {}
      BY <1>2 DEF Record, IntakeIInv, Followed
  <2>3. /\ verdicts \in SUBSET {"SUCCEEDED", "SKIPPED", "FAILED"} /\ verdicts # {}
        /\ verdicts \intersect {"SUCCEEDED", "FAILED"} # {}
      OBVIOUS
  <2> QED BY <1>2, <2>1, <2>2, <2>3, DoneFollows DEF Record, Running
<1>3. CASE Act(a)
  <2>1. CASE runs' = runs \union {RunRow(a, "FAILED")} /\ Turns(a, Rest(a)) /\ UNCHANGED effects
    <3>1. runs' = runs \union {RunRow(a, verdict) : verdict \in {"FAILED"}}
        BY <2>1
    <3> QED BY <1>3, <2>1, <3>1, DoneFollows DEF Act, Running
  <2>2. CASE /\ effects' = effects \union {[by |-> a, rule |-> ThisRule(a)]}
             /\ Turns(a, [posting[a] EXCEPT !.step = "acted"])
             /\ UNCHANGED runs
      BY <1>3, <2>2, ActFollows DEF Act
  <2> QED BY <1>3, <2>1, <2>2 DEF Act
<1> QED BY <1>1, <1>2, <1>3

LEMMA PostingDiesFollows ==
  ASSUME IntakeIInv, NEW a \in Actors, PostingDies(a)
  PROVE  IntakeIInv'
<1>1. /\ Turns(a, [step |-> "lost"])
      /\ UNCHANGED <<form, rules, person, stored, effects, runs, always, ever>>
    BY DEF PostingDies
<1>2. CASE a \in Visitors
    BY <1>1, <1>2, LostFollows
<1>3. CASE a \notin Visitors
  <2>1. /\ person' \in {"NONE", "UNNAMED", "NAMED"}
        /\ always' \in [Visitors -> SUBSET Rules] /\ ever' \in [Visitors -> SUBSET Rules]
      BY <1>1 DEF IntakeIInv, IntakeTypes
  <2> QED BY <1>1, <1>3, <2>1, OwnStep
<1> QED BY <1>2, <1>3

LEMMA IntakeNextIInv == IntakeIInv /\ [IntakeNext]_intakeVars => IntakeIInv'
<1>1. ASSUME IntakeIInv, UNCHANGED intakeVars PROVE IntakeIInv'
  <2>1. IntakeTypes'
      BY <1>1 DEF IntakeIInv, IntakeTypes, intakeVars
  <2>2. ASSUME NEW v \in Visitors PROVE Followed(v)'
    <3>1. Followed(v)
        BY <1>1 DEF IntakeIInv
    <3> QED BY <1>1, <3>1, OtherFollowed DEF Followed, intakeVars
  <2> QED BY <2>1, <2>2 DEF IntakeIInv
<1>2. ASSUME IntakeIInv, IntakeNext PROVE IntakeIInv'
  <2>1. CASE \/ \E r \in Rules, row \in RuleRows : SaveRule(r, row)
             \/ \E row \in FormRows : SaveForm(row)
             \/ ContactFromElsewhere
      BY <1>2, <2>1, ManagersFollow
  <2>2. CASE \E m \in Staff : HandDone(m) \/ \E r \in Rules : RunByHand(m, r)
      BY <1>2, <2>2, ByHandFollows
  <2>3. CASE \E v \in Visitors :
                Post(v) \/ SaveContact(v) \/ Store(v) \/ Dispatch(v) \/ Thank(v)
      BY <1>2, <2>3, PostFollows, StoreFollows, DispatchFollows, ThankFollows
  <2>4. CASE \E a \in Actors : Skip(a) \/ Act(a) \/ Record(a) \/ PostingDies(a)
      BY <1>2, <2>4, RuleFollows, PostingDiesFollows
  <2> QED BY <1>2, <2>1, <2>2, <2>3, <2>4 DEF IntakeNext
<1> QED BY <1>1, <1>2

\* For any visitors, staff and rules, whatever managers save and whoever runs rules by hand
\* meanwhile: the response of a visitor who was thanked is stored, every rule that was active
\* for the form all the while has a verdict for it and none that never was, a success comes
\* with its effect and an effect with its verdict.
THEOREM IntakeRulesAnswered == IntakeSpec => []RulesAnswered
<1>1. ASSUME IntakeIInv PROVE RulesAnswered
  <2> SUFFICES ASSUME NEW v \in Visitors, posting[v].step = "thanked"
               PROVE  LET verdictsOf(r) == {run.status : run \in {q \in runs : q.by = v /\ q.rule = r}}
                          acted == {f.rule : f \in {f \in effects : f.by = v}}
                      IN  /\ v \in stored
                          /\ \A r \in always[v] : verdictsOf(r) # {}
                          /\ \A r \in Rules : verdictsOf(r) # {} => r \in ever[v]
                          /\ \A r \in Rules : "SUCCEEDED" \in verdictsOf(r) => r \in acted
                          /\ \A r \in acted : verdictsOf(r) \intersect {"SUCCEEDED", "FAILED"} # {}
      BY DEF RulesAnswered
  <2> DEFINE verdictsOf(r) == {run.status : run \in {q \in runs : q.by = v /\ q.rule = r}}
             acted == {f.rule : f \in {f \in effects : f.by = v}}
  <2>1. v \in stored /\ Answered(v)
      BY <1>1 DEF IntakeIInv, Followed, Running
  <2>2. \A r, S : HasVerdict(v, r, S) <=> verdictsOf(r) \intersect S # {}
      BY DEF HasVerdict
  <2>3. \A r \in always[v] : verdictsOf(r) # {}
      BY <2>1, <2>2 DEF Answered, Running
  <2>4. \A r \in Rules : verdictsOf(r) # {} => r \in ever[v]
      BY <2>1 DEF Answered
  <2>5. ASSUME NEW r \in Rules, "SUCCEEDED" \in verdictsOf(r) PROVE r \in acted
    <3>1. [by |-> v, rule |-> r] \in effects
        BY <2>1, <2>5 DEF Answered
    <3> DEFINE f == [by |-> v, rule |-> r]
    <3>2. f \in effects /\ f.by = v /\ f.rule = r
        BY <3>1
    <3> QED BY <3>2
  <2>6. \A r \in acted : verdictsOf(r) \intersect {"SUCCEEDED", "FAILED"} # {}
      BY <2>1, <2>2 DEF Answered
  <2> QED BY <2>1, <2>3, <2>4, <2>5, <2>6
<1> QED BY IntakeInitIInv, IntakeNextIInv, <1>1, PTL DEF IntakeSpec

-----------------------------------------------------------------------------
(***************************************************************************)
(* PageSections                                                            *)
(*                                                                         *)
(* A strip: its images and the requests about to save one more never       *)
(* exceed the limit by the number of editors.  The layout: as long as      *)
(* nothing is untidy at most one request is under way, what it has read is *)
(* still so, and unless it is about to number the sections again, the      *)
(* page's own sections have positions of their own, none beyond the number *)
(* of sections, which is why a section that is added comes after all.      *)
(***************************************************************************)

Places == UNION {[D -> Int] : D \in SUBSET Ids}

Asked ==
    {Idle}
    \union [step : {"add"}, kind : Kinds, position : Int]
    \union [step : {"swap", "number"}, places : Places]
    \union [step : {"tidy"}]
    \union [step : {"save"}, id : Ids, row : Section]
    \union [step : {"image"}, id : Ids]
    \union [step : {"page"}, body : BOOLEAN]
    \union [step : {"legacy"}, body : BOOLEAN, ids : SUBSET Ids]

\* Rows are numbered and aged as they are created, so no two have the same age.
SectionRows ==
    /\ sections = [s \in DOMAIN sections |-> sections[s]]
    /\ DOMAIN sections \subseteq 1..made
    /\ \A s \in DOMAIN sections : sections[s] \in Section
    /\ \A s \in DOMAIN sections : sections[s].age <= made
    /\ \A s, t \in DOMAIN sections : s # t => sections[s].age # sections[t].age

PageRequests ==
    /\ request \in [Editors -> Asked]
    /\ \A e \in Editors : request[e].step = "save" => request[e].id \in 1..made

PageTypes ==
    /\ made \in 0..MaxSections /\ begun \in 0..MaxRequests
    /\ body \in BOOLEAN /\ untidy \in BOOLEAN
    /\ SectionRows /\ PageRequests

\* Requests that have counted the images of a strip and have not saved theirs
Filling(s) == {e \in Editors : request[e].step = "image" /\ request[e].id = s}

StripsBounded ==
    \A s \in DOMAIN sections :
        sections[s].images + Cardinality(Filling(s)) <= StripMax + Cardinality(Editors) - 1

Neat ==
    /\ \A s, t \in Custom : s # t => sections[s].position # sections[t].position
    /\ \A s \in Custom : sections[s].position <= Cardinality(DOMAIN sections)

Numbered(places, s) == IF s \in DOMAIN places THEN places[s] ELSE sections[s].position

\* What a request that nothing overlaps has read is still so.
Calm(e) ==
    /\ request[e].step \in {"add", "save", "image", "page", "legacy"} => Neat
    /\ request[e].step = "add" => request[e].position = Cardinality(DOMAIN sections) + 1
    /\ request[e].step = "save" =>
        /\ request[e].id \in DOMAIN sections
        /\ request[e].row.position = sections[request[e].id].position
        /\ request[e].row.legacy = sections[request[e].id].legacy
    /\ request[e].step = "legacy" =>
        \A s \in request[e].ids \intersect DOMAIN sections : sections[s].legacy
    /\ request[e].step = "number" =>
        \A s \in DOMAIN sections : Numbered(request[e].places, s) = Rank(s)

Healing ==
    ~untidy =>
        /\ \A e, f \in Editors : request[e] # Idle /\ request[f] # Idle => e = f
        /\ \A e \in Editors : Calm(e)
        /\ (\A e \in Editors : request[e] = Idle) => Neat

PageIInv == PageTypes /\ StripsBounded /\ Healing

\* The steps tell the records of a request apart.
LEMMA Asks ==
    /\ Idle.step = "idle"
    /\ \A r \in Asked :
        /\ r = Idle <=> r.step = "idle"
        /\ r.step \in {"idle", "add", "swap", "number", "tidy", "save", "image", "page", "legacy"}
        /\ r.step = "add" => r.kind \in Kinds /\ r.position \in Int
        /\ r.step \in {"swap", "number"} => r.places \in Places
        /\ r.step = "save" => r.id \in Ids /\ r.row \in Section
        /\ r.step = "image" => r.id \in Ids
        /\ r.step = "page" => r.body \in BOOLEAN
        /\ r.step = "legacy" => r.body \in BOOLEAN /\ r.ids \in SUBSET Ids
<1>1. Idle.step = "idle"
    BY DEF Idle
<1>2. ASSUME NEW r \in Asked
      PROVE  /\ r = Idle <=> r.step = "idle"
             /\ r.step \in {"idle", "add", "swap", "number", "tidy", "save", "image", "page", "legacy"}
             /\ r.step = "add" => r.kind \in Kinds /\ r.position \in Int
             /\ r.step \in {"swap", "number"} => r.places \in Places
             /\ r.step = "save" => r.id \in Ids /\ r.row \in Section
             /\ r.step = "image" => r.id \in Ids
             /\ r.step = "page" => r.body \in BOOLEAN
             /\ r.step = "legacy" => r.body \in BOOLEAN /\ r.ids \in SUBSET Ids
  <2>1. CASE r = Idle
      BY <1>1, <2>1
  <2>2. CASE r \in [step : {"add"}, kind : Kinds, position : Int]
      BY <1>1, <2>2
  <2>3. CASE r \in [step : {"swap", "number"}, places : Places]
      BY <1>1, <2>3
  <2>4. CASE r \in [step : {"tidy"}] \union [step : {"image"}, id : Ids]
      BY <1>1, <2>4
  <2>5. CASE r \in [step : {"save"}, id : Ids, row : Section]
      BY <1>1, <2>5
  <2>6. CASE r \in [step : {"page"}, body : BOOLEAN]
      BY <1>1, <2>6
  <2>7. CASE r \in [step : {"legacy"}, body : BOOLEAN, ids : SUBSET Ids]
      BY <1>1, <2>7
  <2> QED BY <2>1, <2>2, <2>3, <2>4, <2>5, <2>6, <2>7 DEF Asked
<1> QED BY <1>1, <1>2

\* There are finitely many sections, and as many ranks: a section's is one of its own.
LEMMA SectionsFinite ==
  ASSUME PageTypes
  PROVE  /\ IsFiniteSet(DOMAIN sections)
         /\ Cardinality(DOMAIN sections) \in Nat
         /\ DOMAIN sections \subseteq Ids
<1>1. made \in Nat /\ made <= MaxSections /\ MaxSections \in Nat
    BY SectionsAssumption DEF PageTypes
<1>2. IsFiniteSet(1..made)
    BY <1>1, FS_Interval
<1>3. DOMAIN sections \subseteq 1..made
    BY DEF PageTypes, SectionRows
<1>4. IsFiniteSet(DOMAIN sections)
    BY <1>2, <1>3, FS_Subset
<1> QED BY <1>1, <1>3, <1>4, FS_CardinalityType DEF Ids

LEMMA Ranks ==
  ASSUME PageTypes
  PROVE  /\ \A s \in DOMAIN sections : Rank(s) \in Nat /\ Rank(s) <= Cardinality(DOMAIN sections)
         /\ \A s, t \in DOMAIN sections : s # t => Rank(s) # Rank(t)
<1> DEFINE upTo(s) == {t \in DOMAIN sections : t = s \/ Before(t, s)}
<1>1. \A s \in DOMAIN sections : sections[s].position \in Int /\ sections[s].age \in Nat
    BY DEF PageTypes, SectionRows, Section
<1>2. \A s, t \in DOMAIN sections : s # t => sections[s].age # sections[t].age
    BY DEF PageTypes, SectionRows
<1>3. ASSUME NEW s \in DOMAIN sections
      PROVE  /\ IsFiniteSet(upTo(s)) /\ Rank(s) = Cardinality(upTo(s)) /\ Rank(s) \in Nat
             /\ Rank(s) <= Cardinality(DOMAIN sections)
  <2>1. upTo(s) \subseteq DOMAIN sections /\ Rank(s) = Cardinality(upTo(s))
      BY DEF Rank
  <2> QED BY <2>1, SectionsFinite, FS_Subset, FS_CardinalityType
<1>4. ASSUME NEW s \in DOMAIN sections, NEW t \in DOMAIN sections, Before(s, t)
      PROVE  Rank(s) # Rank(t)
  <2>1. upTo(s) \subseteq upTo(t)
    <3> SUFFICES ASSUME NEW u \in DOMAIN sections, Before(u, s) PROVE Before(u, t)
        BY <1>4
    <3> QED BY <1>1, <1>4 DEF Before
  <2>2. t \in upTo(t) /\ t \notin upTo(s)
    <3>1. s # t /\ ~Before(t, s)
        BY <1>1, <1>4 DEF Before
    <3> QED BY <3>1
  <2> QED BY <1>3, <2>1, <2>2, FS_Subset
<1>5. \A s, t \in DOMAIN sections : s # t => Before(s, t) \/ Before(t, s)
    BY <1>1, <1>2 DEF Before
<1> QED BY <1>3, <1>4, <1>5

\* Whether the layout is neat, and the ranks, depend on positions, ages and the legacy mark.
LEMMA SameLayout ==
  ASSUME DOMAIN sections' = DOMAIN sections,
         \A s \in DOMAIN sections : /\ sections'[s].position = sections[s].position
                                    /\ sections'[s].legacy = sections[s].legacy
                                    /\ sections'[s].age = sections[s].age
  PROVE  /\ Neat => Neat'
         /\ \A s \in DOMAIN sections : Rank(s)' = Rank(s)
<1>1. Custom' = Custom
    BY DEF Custom
<1>2. Neat => Neat'
    BY <1>1 DEF Neat, Custom
<1>3. ASSUME NEW s \in DOMAIN sections PROVE Rank(s)' = Rank(s)
  <2>1. \A t \in DOMAIN sections : Before(t, s)' <=> Before(t, s)
      BY DEF Before
  <2>2. {t \in DOMAIN sections' : t = s \/ Before(t, s)'} = {t \in DOMAIN sections : t = s \/ Before(t, s)}
      BY <2>1
  <2> QED BY <2>2 DEF Rank
<1> QED BY <1>2, <1>3

LEMMA SectionsInitIInv == SectionsInit => PageIInv
<1> SUFFICES ASSUME SectionsInit PROVE PageIInv
    OBVIOUS
<1>1. DOMAIN sections = {} /\ sections = [s \in DOMAIN sections |-> sections[s]]
    BY DEF SectionsInit
<1>2. \A e \in Editors : request[e] = Idle /\ request[e].step = "idle"
    BY Asks DEF SectionsInit
<1>3. PageTypes
  <2>1. made \in 0..MaxSections /\ begun \in 0..MaxRequests
      BY SectionsAssumption DEF SectionsInit
  <2>2. SectionRows
      BY <1>1 DEF SectionRows
  <2>3. PageRequests
      BY <1>2 DEF SectionsInit, PageRequests, Asked
  <2> QED BY <2>1, <2>2, <2>3 DEF SectionsInit, PageTypes
<1>4. StripsBounded
    BY <1>1 DEF StripsBounded
<1>5. Neat
    BY <1>1 DEF Neat, Custom
<1>6. Healing
    BY <1>2, <1>5 DEF Healing, Calm
<1> QED BY <1>3, <1>4, <1>6 DEF PageIInv

-----------------------------------------------------------------------------
(* What steps have in common *)

\* A step of one editor's request, and nobody else's.
LEMMA OwnAsk ==
  ASSUME PageTypes, NEW e \in Editors, NEW what \in Asked, request' = [request EXCEPT ![e] = what]
  PROVE  /\ request' \in [Editors -> Asked]
         /\ request'[e] = what
         /\ \A f \in Editors : f # e => request'[f] = request[f]
  BY DEF PageTypes, PageRequests

\* Columns are written, rows are deleted, a row is created.
LEMMA WrittenRows ==
  ASSUME SectionRows, DOMAIN sections' = DOMAIN sections, made' = made,
         sections' = [s \in DOMAIN sections |-> sections'[s]],
         \A s \in DOMAIN sections : sections'[s] \in Section /\ sections'[s].age = sections[s].age
  PROVE  SectionRows'
  BY DEF SectionRows

LEMMA DeletedRows ==
  ASSUME SectionRows, NEW s, sections' = Restrict(sections, DOMAIN sections \ {s}), made' = made
  PROVE  /\ SectionRows'
         /\ DOMAIN sections' = DOMAIN sections \ {s}
         /\ \A t \in DOMAIN sections' : sections'[t] = sections[t]
<1>1. /\ DOMAIN sections' = DOMAIN sections \ {s}
      /\ \A t \in DOMAIN sections' : sections'[t] = sections[t]
      /\ sections' = [t \in DOMAIN sections' |-> sections'[t]]
    BY DEF Restrict
<1>2. SectionRows'
  <2>1. DOMAIN sections' \subseteq 1..made'
      BY <1>1 DEF SectionRows
  <2>2. \A t \in DOMAIN sections' : sections'[t] \in Section /\ sections'[t].age <= made'
      BY <1>1 DEF SectionRows
  <2>3. ASSUME NEW t \in DOMAIN sections', NEW u \in DOMAIN sections', t # u
        PROVE  sections'[t].age # sections'[u].age
    <3>1. /\ t \in DOMAIN sections /\ u \in DOMAIN sections
          /\ sections'[t] = sections[t] /\ sections'[u] = sections[u]
        BY <1>1
    <3>2. sections[t].age # sections[u].age
        BY <2>3, <3>1 DEF SectionRows
    <3> QED BY <3>1, <3>2
  <2> QED BY <1>1, <2>1, <2>2, <2>3 DEF SectionRows
<1> QED BY <1>1, <1>2

LEMMA CreatedRow ==
  ASSUME SectionRows, made \in 0..MaxSections, NEW id \in 1..(made + 1), NEW row \in Section,
         row.age = made + 1, made < MaxSections, Create(id, row)
  PROVE  /\ SectionRows' /\ made' = made + 1 /\ made' \in 0..MaxSections
         /\ DOMAIN sections' = DOMAIN sections \union {id}
         /\ sections'[id] = row
         /\ \A t \in DOMAIN sections \ {id} : sections'[t] = sections[t]
<1>1. made' = made + 1 /\ made \in Nat /\ made' \in 0..MaxSections
    BY SectionsAssumption DEF Create
<1>2. /\ DOMAIN sections' = DOMAIN sections \union {id}
      /\ sections'[id] = row
      /\ \A t \in DOMAIN sections \ {id} : sections'[t] = sections[t]
      /\ sections' = [t \in DOMAIN sections' |-> sections'[t]]
    BY DEF Create
<1>3. DOMAIN sections' \subseteq 1..made'
    BY <1>1, <1>2 DEF SectionRows
<1>4. \A t \in DOMAIN sections' : sections'[t] \in Section /\ sections'[t].age <= made'
    BY <1>1, <1>2 DEF SectionRows, Section
<1>5. \A t, u \in DOMAIN sections' : t # u => sections'[t].age # sections'[u].age
  <2>1. \A t \in DOMAIN sections \ {id} : sections[t].age \in Nat /\ sections[t].age <= made
      BY DEF SectionRows, Section
  <2> QED BY <1>1, <1>2, <2>1 DEF SectionRows
<1> QED BY <1>1, <1>2, <1>3, <1>4, <1>5 DEF SectionRows

\* Strips to which nothing is added: every row keeps its images or has none.
LEMMA StripsKept ==
  ASSUME PageTypes, StripsBounded,
         \A s \in DOMAIN sections' :
            \/ sections'[s].images = 0
            \/ s \in DOMAIN sections /\ sections'[s].images = sections[s].images,
         \A f \in Editors : request'[f].step = "image" =>
            request[f].step = "image" /\ request'[f].id = request[f].id
  PROVE  StripsBounded'
<1> SUFFICES ASSUME NEW s \in DOMAIN sections'
             PROVE  sections'[s].images + Cardinality(Filling(s)') <= StripMax + Cardinality(Editors) - 1
    BY DEF StripsBounded
<1>1. IsFiniteSet(Editors) /\ StripMax \in Nat /\ StripMax >= 1
    BY SectionsAssumption
<1>2. Filling(s)' \subseteq Filling(s) /\ Filling(s) \subseteq Editors
    BY DEF Filling
<1>3. /\ Cardinality(Editors) \in Nat /\ Cardinality(Filling(s)) \in Nat
      /\ Cardinality(Filling(s)') \in Nat
      /\ Cardinality(Filling(s)') <= Cardinality(Filling(s))
      /\ Cardinality(Filling(s)) <= Cardinality(Editors)
    BY <1>1, <1>2, FS_Subset, FS_CardinalityType
<1>4. CASE sections'[s].images = 0
    BY <1>1, <1>3, <1>4
<1>5. CASE s \in DOMAIN sections /\ sections'[s].images = sections[s].images
  <2>1. sections[s].images \in Nat
      BY <1>5 DEF PageTypes, SectionRows, Section
  <2>2. sections[s].images + Cardinality(Filling(s)) <= StripMax + Cardinality(Editors) - 1
      BY <1>5 DEF StripsBounded
  <2> QED BY <1>1, <1>3, <1>5, <2>1, <2>2
<1> QED BY <1>4, <1>5

\* A request begins: if nothing is untidy then, it is the only one, and the layout is neat.
LEMMA BegunAlone ==
  ASSUME PageIInv, NEW e \in Editors, NEW what, Begins(e, what), what \in Asked
  PROVE  /\ request' \in [Editors -> Asked] /\ request'[e] = what
         /\ \A f \in Editors : f # e => request'[f] = request[f]
         /\ begun' \in 0..MaxRequests /\ untidy' \in BOOLEAN
         /\ request[e] = Idle
         /\ ~untidy' => /\ ~untidy /\ Neat
                        /\ \A f \in Editors : f # e => request'[f] = Idle
                        /\ \A f \in Editors : request[f] = Idle
<1>1. PageTypes /\ Healing
    BY DEF PageIInv
<1>2. /\ request[e] = Idle /\ begun < MaxRequests /\ begun' = begun + 1
      /\ request' = [request EXCEPT ![e] = what] /\ untidy' = (untidy \/ ~Alone(e))
    BY DEF Begins
<1>3. /\ request' \in [Editors -> Asked] /\ request'[e] = what
      /\ \A f \in Editors : f # e => request'[f] = request[f]
    BY <1>1, <1>2, OwnAsk
<1>4. begun' \in 0..MaxRequests
    BY <1>1, <1>2, SectionsAssumption DEF PageTypes
<1>5. Alone(e) \in BOOLEAN
    BY DEF Alone
<1>6. untidy' \in BOOLEAN
    BY <1>1, <1>2, <1>5 DEF PageTypes
<1>7. ASSUME ~untidy'
      PROVE  /\ ~untidy /\ Neat
             /\ \A f \in Editors : f # e => request'[f] = Idle
             /\ \A f \in Editors : request[f] = Idle
  <2>1. ~untidy /\ Alone(e)
      BY <1>2, <1>7
  <2>2. \A f \in Editors : request[f] = Idle
      BY <1>2, <2>1 DEF Alone
  <2>3. Neat
      BY <1>1, <2>1, <2>2 DEF Healing
  <2> QED BY <1>3, <2>1, <2>2, <2>3
<1> QED BY <1>2, <1>3, <1>4, <1>6, <1>7

\* A request goes on: if nothing is untidy, all others are idle, and what it has read is so.
LEMMA GoesAlone ==
  ASSUME PageIInv, NEW e \in Editors, NEW what \in Asked, Goes(e, what), request[e] # Idle
  PROVE  /\ request' \in [Editors -> Asked] /\ request'[e] = what /\ begun' = begun
         /\ \A f \in Editors : f # e => request'[f] = request[f]
         /\ ~untidy => /\ Calm(e)
                       /\ \A f \in Editors : f # e => request[f] = Idle /\ request'[f] = Idle
<1>1. PageTypes /\ Healing
    BY DEF PageIInv
<1>2. request' = [request EXCEPT ![e] = what] /\ begun' = begun
    BY DEF Goes
<1>3. /\ request' \in [Editors -> Asked] /\ request'[e] = what
      /\ \A f \in Editors : f # e => request'[f] = request[f]
    BY <1>1, <1>2, OwnAsk
<1>4. ~untidy => /\ Calm(e)
                 /\ \A f \in Editors : f # e => request[f] = Idle /\ request'[f] = Idle
    BY <1>1, <1>3 DEF Healing
<1> QED BY <1>2, <1>3, <1>4

\* When one request is under way at most, the layout heals if what it holds is still so.
LEMMA HealingAlone ==
  ASSUME NEW e \in Editors,
         ~untidy' => /\ \A f \in Editors : f # e => request'[f] = Idle
                     /\ Calm(e)'
                     /\ request'[e] = Idle => Neat'
  PROVE  Healing'
<1> SUFFICES ASSUME ~untidy'
             PROVE  /\ \A f, g \in Editors : request'[f] # Idle /\ request'[g] # Idle => f = g
                    /\ \A f \in Editors : Calm(f)'
                    /\ (\A f \in Editors : request'[f] = Idle) => Neat'
    BY DEF Healing
<1>1. \A f \in Editors : f # e => request'[f] = Idle /\ request'[f].step = "idle"
    BY Asks
<1>2. \A f \in Editors : f # e => Calm(f)'
    BY <1>1 DEF Calm
<1> QED BY <1>1, <1>2

-----------------------------------------------------------------------------
(* The steps of a request *)

\* A request that begins and has only read: the rows are as they were.
LEMMA ReadingIInv ==
  ASSUME PageIInv, NEW e \in Editors, NEW what \in Asked, Begins(e, what),
         UNCHANGED <<sections, made, body>>,
         what.step # "image",
         what.step = "save" => what.id \in 1..made,
         ~untidy' /\ Neat /\ request'[e] = what => Calm(e)'
  PROVE  PageIInv'
<1>1. /\ request' \in [Editors -> Asked] /\ request'[e] = what
      /\ \A f \in Editors : f # e => request'[f] = request[f]
      /\ begun' \in 0..MaxRequests /\ untidy' \in BOOLEAN
      /\ ~untidy' => Neat /\ \A f \in Editors : f # e => request'[f] = Idle
    BY BegunAlone
<1>2. PageTypes /\ StripsBounded
    BY DEF PageIInv
<1>3. SectionRows'
    BY <1>2 DEF PageTypes, SectionRows
<1>4. PageRequests'
    BY <1>1, <1>2 DEF PageTypes, PageRequests
<1>5. PageTypes'
    BY <1>1, <1>2, <1>3, <1>4 DEF PageTypes
<1>6. StripsBounded'
    BY <1>1, <1>2, StripsKept
<1>7. Neat => Neat'
    BY DEF Neat, Custom
<1>8. Healing'
    BY <1>1, <1>7, HealingAlone
<1> QED BY <1>5, <1>6, <1>8 DEF PageIInv

LEMMA AddReadIInv ==
  ASSUME PageIInv, NEW e \in Editors, NEW kind \in Kinds, AddRead(e, kind)
  PROVE  PageIInv'
<1> DEFINE what == [step |-> "add", kind |-> kind, position |-> NextPosition]
<1>1. NextPosition \in Int /\ NextPosition = Cardinality(DOMAIN sections) + 1
    BY SectionsFinite DEF PageIInv, NextPosition
<1>2. /\ what \in Asked /\ what.step = "add"
      /\ what.position = Cardinality(DOMAIN sections) + 1
    BY <1>1 DEF Asked
<1> HIDE DEF what
<1>3. Begins(e, what) /\ UNCHANGED <<sections, made, body>>
    BY DEF AddRead, what
<1>4. Neat /\ request'[e] = what => Calm(e)'
    BY <1>2, <1>3 DEF Calm, Neat, Custom
<1> QED BY <1>2, <1>3, <1>4, ReadingIInv

LEMMA MoveReadIInv ==
  ASSUME PageIInv, NEW e \in Editors, NEW s \in DOMAIN sections, NEW delta \in {-1, 1},
         MoveRead(e, s, delta)
  PROVE  PageIInv'
<1>1. PICK t \in First({u \in DOMAIN sections : sections[u].position = sections[s].position + delta}) :
          /\ Begins(e, [step |-> "swap",
                        places |-> [u \in {s, t} |-> sections[IF u = s THEN t ELSE s].position]])
          /\ UNCHANGED <<sections, made, body>>
    BY DEF MoveRead
<1> DEFINE places == [u \in {s, t} |-> sections[IF u = s THEN t ELSE s].position]
           what == [step |-> "swap", places |-> places]
<1>2. t \in DOMAIN sections
    BY DEF First
<1>3. /\ DOMAIN sections \subseteq Ids
      /\ \A u \in DOMAIN sections : sections[u].position \in Int
    BY SectionsFinite DEF PageIInv, PageTypes, SectionRows, Section
<1>4. places \in Places
  <2>1. {s, t} \in SUBSET Ids /\ places \in [{s, t} -> Int]
      BY <1>2, <1>3
  <2> QED BY <2>1 DEF Places
<1> HIDE DEF places
<1>5. what \in Asked /\ what.step = "swap"
    BY <1>4 DEF Asked
<1>6. request'[e] = what => Calm(e)'
    BY <1>5 DEF Calm
<1>7. Begins(e, what) /\ UNCHANGED <<sections, made, body>>
    BY <1>1 DEF places
<1> QED BY <1>5, <1>6, <1>7, ReadingIInv

LEMMA SaveReadIInv ==
  ASSUME PageIInv, NEW e \in Editors, NEW s \in DOMAIN sections, SaveRead(e, s)
  PROVE  PageIInv'
<1> DEFINE what == [step |-> "save", id |-> s, row |-> sections[s]]
<1>1. s \in Ids /\ s \in 1..made /\ sections[s] \in Section
    BY SectionsFinite DEF PageIInv, PageTypes, SectionRows
<1>2. what \in Asked /\ what.step = "save" /\ what.id = s /\ what.row = sections[s]
    BY <1>1 DEF Asked
<1> HIDE DEF what
<1>3. Begins(e, what) /\ UNCHANGED <<sections, made, body>>
    BY DEF SaveRead, what
<1>4. Neat /\ request'[e] = what => Calm(e)'
    BY <1>2, <1>3 DEF Calm, Neat, Custom
<1> QED BY <1>1, <1>2, <1>3, <1>4, ReadingIInv

LEMMA PageReadIInv ==
  ASSUME PageIInv, NEW e \in Editors, NEW text \in BOOLEAN, PageRead(e, text)
  PROVE  PageIInv'
<1> DEFINE what == [step |-> "page", body |-> IF Custom # {} THEN body ELSE text]
<1>1. what \in Asked /\ what.step = "page"
    BY DEF Asked, PageIInv, PageTypes
<1> HIDE DEF what
<1>2. Begins(e, what) /\ UNCHANGED <<sections, made, body>>
    BY DEF PageRead, what
<1>3. Neat /\ request'[e] = what => Calm(e)'
    BY <1>1, <1>2 DEF Calm, Neat, Custom
<1> QED BY <1>1, <1>2, <1>3, ReadingIInv

\* A strip with room is one short of the limit, and the other requests that fill it too are
\* fewer than the editors.
LEMMA ImageReadIInv ==
  ASSUME PageIInv, NEW e \in Editors, NEW s \in DOMAIN sections, ImageRead(e, s)
  PROVE  PageIInv'
<1> DEFINE what == [step |-> "image", id |-> s]
<1>1. PageTypes /\ StripsBounded /\ s \in Ids
    BY SectionsFinite DEF PageIInv
<1>2. what \in Asked /\ what.step = "image" /\ what.id = s
    BY <1>1 DEF Asked
<1> HIDE DEF what
<1>3. Begins(e, what) /\ UNCHANGED <<sections, made, body>> /\ sections[s].images < StripMax
    BY DEF ImageRead, Room, what
<1>4. /\ request' \in [Editors -> Asked] /\ request'[e] = what
      /\ \A f \in Editors : f # e => request'[f] = request[f]
      /\ begun' \in 0..MaxRequests /\ untidy' \in BOOLEAN
      /\ ~untidy' => Neat /\ \A f \in Editors : f # e => request'[f] = Idle
    BY <1>2, <1>3, BegunAlone
<1>5. PageTypes'
  <2>1. SectionRows'
      BY <1>1, <1>3 DEF PageTypes, SectionRows
  <2>2. PageRequests'
      BY <1>1, <1>2, <1>3, <1>4 DEF PageTypes, PageRequests
  <2> QED BY <1>1, <1>3, <1>4, <2>1, <2>2 DEF PageTypes
<1>6. ASSUME NEW t \in DOMAIN sections
      PROVE  sections[t].images + Cardinality(Filling(t)') <= StripMax + Cardinality(Editors) - 1
  <2>1. IsFiniteSet(Editors) /\ StripMax \in Nat /\ sections[t].images \in Nat
      BY <1>1, SectionsAssumption DEF PageTypes, SectionRows, Section
  <2>2. Filling(t)' \subseteq Editors
      BY DEF Filling
  <2>3. /\ Cardinality(Editors) \in Nat /\ Cardinality(Filling(t)') \in Nat
        /\ Cardinality(Filling(t)') <= Cardinality(Editors)
      BY <2>1, <2>2, FS_Subset, FS_CardinalityType
  <2>4. CASE t = s
      BY <1>3, <2>1, <2>3, <2>4
  <2>5. CASE t # s
    <3>1. Filling(t)' \subseteq Filling(t) /\ Filling(t) \subseteq Editors
        BY <1>2, <1>4, <2>5 DEF Filling
    <3>2. Cardinality(Filling(t)') <= Cardinality(Filling(t)) /\ Cardinality(Filling(t)) \in Nat
        BY <2>1, <3>1, FS_Subset, FS_CardinalityType
    <3>3. sections[t].images + Cardinality(Filling(t)) <= StripMax + Cardinality(Editors) - 1
        BY <1>1 DEF StripsBounded
    <3> QED BY <2>1, <2>3, <3>2, <3>3
  <2> QED BY <2>4, <2>5
<1>7. StripsBounded'
    BY <1>3, <1>6 DEF StripsBounded
<1>8. Neat => Neat' /\ Calm(e)'
    BY <1>2, <1>3, <1>4 DEF Calm, Neat, Custom
<1>9. Healing'
    BY <1>4, <1>8, HealingAlone
<1> QED BY <1>5, <1>7, <1>9 DEF PageIInv

LEMMA DeleteSectionIInv ==
  ASSUME PageIInv, NEW e \in Editors, NEW s \in DOMAIN sections, DeleteSection(e, s)
  PROVE  PageIInv'
<1> DEFINE what == [step |-> "tidy"]
<1>1. PageTypes /\ StripsBounded
    BY DEF PageIInv
<1>2. what \in Asked /\ what.step = "tidy"
    BY DEF Asked
<1> HIDE DEF what
<1>3. /\ Begins(e, what) /\ UNCHANGED <<made, body>>
      /\ sections' = Restrict(sections, DOMAIN sections \ {s})
    BY DEF DeleteSection, what
<1>4. /\ request' \in [Editors -> Asked] /\ request'[e] = what
      /\ \A f \in Editors : f # e => request'[f] = request[f]
      /\ begun' \in 0..MaxRequests /\ untidy' \in BOOLEAN
      /\ ~untidy' => \A f \in Editors : f # e => request'[f] = Idle
    BY <1>2, <1>3, BegunAlone
<1>5. /\ SectionRows' /\ DOMAIN sections' = DOMAIN sections \ {s}
      /\ \A t \in DOMAIN sections' : sections'[t] = sections[t]
    BY <1>1, <1>3, DeletedRows DEF PageTypes
<1>6. PageRequests'
    BY <1>1, <1>2, <1>3, <1>4 DEF PageTypes, PageRequests
<1>7. PageTypes'
    BY <1>1, <1>3, <1>4, <1>5, <1>6 DEF PageTypes
<1>8. StripsBounded'
  <2>1. \A t \in DOMAIN sections' : t \in DOMAIN sections /\ sections'[t].images = sections[t].images
      BY <1>5
  <2>2. \A f \in Editors : request'[f].step = "image" =>
            request[f].step = "image" /\ request'[f].id = request[f].id
      BY <1>2, <1>4
  <2> QED BY <1>1, <2>1, <2>2, StripsKept
<1>9. Healing'
  <2>1. Calm(e)' /\ request'[e] # Idle
      BY <1>2, <1>4, Asks DEF Calm
  <2> QED BY <1>4, <2>1, HealingAlone
<1> QED BY <1>7, <1>8, <1>9 DEF PageIInv

\* A request goes on and leaves the strips alone.
LEMMA OnwardIInv ==
  ASSUME PageIInv, NEW e \in Editors, NEW what \in Asked, Goes(e, what), request[e] # Idle,
         what.step \notin {"image", "save"},
         SectionRows', made' \in 0..MaxSections, made <= made', body' \in BOOLEAN, untidy' \in BOOLEAN,
         \A s \in DOMAIN sections' :
            \/ sections'[s].images = 0
            \/ s \in DOMAIN sections /\ sections'[s].images = sections[s].images,
         ~untidy' => \/ ~untidy
                     \/ \A f \in Editors : f # e => request[f] = Idle,
         ~untidy' /\ request'[e] = what /\ (~untidy => Calm(e)) =>
            Calm(e)' /\ (what = Idle => Neat')
  PROVE  PageIInv'
<1>1. /\ request' \in [Editors -> Asked] /\ request'[e] = what /\ begun' = begun
      /\ \A f \in Editors : f # e => request'[f] = request[f]
      /\ ~untidy => /\ Calm(e)
                    /\ \A f \in Editors : f # e => request[f] = Idle /\ request'[f] = Idle
    BY GoesAlone
<1>2. PageTypes /\ StripsBounded
    BY DEF PageIInv
<1>3. PageRequests'
  <2>1. ASSUME NEW f \in Editors, request'[f].step = "save" PROVE request'[f].id \in 1..made'
    <3>1. f # e /\ request'[f] = request[f]
        BY <1>1, <2>1
    <3>2. request[f].id \in 1..made
        BY <1>2, <2>1, <3>1 DEF PageTypes, PageRequests
    <3>3. made \in Nat /\ made' \in Nat
        BY <1>2 DEF PageTypes
    <3> QED BY <3>1, <3>2, <3>3
  <2> QED BY <1>1, <2>1 DEF PageRequests
<1>4. PageTypes'
    BY <1>1, <1>2, <1>3 DEF PageTypes
<1>5. StripsBounded'
  <2>1. \A f \in Editors : request'[f].step = "image" =>
            request[f].step = "image" /\ request'[f].id = request[f].id
      BY <1>1
  <2> QED BY <1>2, <2>1, StripsKept
<1>6. Healing'
    BY <1>1, HealingAlone
<1> QED BY <1>4, <1>5, <1>6 DEF PageIInv

LEMMA AddCreateIInv ==
  ASSUME PageIInv, NEW e \in Editors, AddCreate(e)
  PROVE  PageIInv'
<1> DEFINE row == NewSection(request[e].kind, request[e].position, FALSE)
           id == made + 1
<1>1. PageTypes /\ request[e] \in Asked /\ request[e].step = "add" /\ request[e] # Idle
    BY Asks DEF PageIInv, PageTypes, PageRequests, AddCreate
<1>2. made \in Nat /\ made < MaxSections /\ Create(id, row) /\ Goes(e, Idle) /\ UNCHANGED <<body, untidy>>
  <2>1. made \in Nat
      BY <1>1 DEF PageTypes
  <2> QED BY <2>1, Zenon DEF AddCreate
<1>3. /\ row \in Section /\ row.age = made + 1 /\ row.images = 0 /\ ~row.legacy
      /\ row.position = request[e].position
    BY <1>1, <1>2, Asks DEF NewSection, Section
<1>4. id \in 1..(made + 1) /\ id \notin DOMAIN sections
    BY <1>1, <1>2 DEF PageTypes, SectionRows
<1> HIDE DEF row, id
<1>5. /\ SectionRows' /\ made' = made + 1 /\ made' \in 0..MaxSections
      /\ DOMAIN sections' = DOMAIN sections \union {id}
      /\ sections'[id] = row
      /\ \A t \in DOMAIN sections \ {id} : sections'[t] = sections[t]
    BY <1>1, <1>2, <1>3, <1>4, CreatedRow DEF PageTypes
<1>6. ASSUME ~untidy, Calm(e) PROVE Neat'
  <2>1. Neat /\ row.position = Cardinality(DOMAIN sections) + 1
      BY <1>1, <1>3, <1>6 DEF Calm
  <2>2. /\ IsFiniteSet(DOMAIN sections) /\ Cardinality(DOMAIN sections) \in Nat
        /\ Cardinality(DOMAIN sections') = Cardinality(DOMAIN sections) + 1
      BY <1>1, <1>4, <1>5, SectionsFinite, FS_AddElement
  <2>3. Custom' = Custom \union {id} /\ id \notin Custom
      BY <1>3, <1>4, <1>5 DEF Custom
  <2>4. \A t \in Custom : sections'[t] = sections[t] /\ sections[t].position \in Int
      BY <1>1, <1>4, <1>5 DEF Custom, PageTypes, SectionRows, Section
  <2>5. \A s \in Custom' : sections'[s].position <= Cardinality(DOMAIN sections')
      BY <1>5, <2>1, <2>2, <2>3, <2>4 DEF Neat
  <2>6. \A s, t \in Custom' : s # t => sections'[s].position # sections'[t].position
      BY <1>5, <2>1, <2>2, <2>3, <2>4 DEF Neat
  <2> QED BY <2>5, <2>6 DEF Neat
<1>7. ASSUME ~untidy', request'[e] = Idle, ~untidy => Calm(e) PROVE Calm(e)' /\ Neat'
    BY <1>2, <1>6, <1>7, Asks DEF Calm
<1>8. \A s \in DOMAIN sections' :
          \/ sections'[s].images = 0
          \/ s \in DOMAIN sections /\ sections'[s].images = sections[s].images
    BY <1>3, <1>5
<1>9. /\ Idle \in Asked /\ Idle.step \notin {"image", "save"} /\ body' \in BOOLEAN
      /\ untidy' \in BOOLEAN /\ made <= made'
    BY <1>1, <1>2, <1>5, Asks DEF Asked, PageTypes
<1> QED BY <1>1, <1>2, <1>5, <1>7, <1>8, <1>9, OnwardIInv

\* Positions are written: everything else of the rows stays.
LEMMA PlacedRows ==
  ASSUME PageTypes, NEW places \in Places, sections' = Placed(places), made' = made
  PROVE  /\ SectionRows' /\ DOMAIN sections' = DOMAIN sections
         /\ \A s \in DOMAIN sections : /\ sections'[s].position = Numbered(places, s)
                                       /\ sections'[s].legacy = sections[s].legacy
                                       /\ sections'[s].images = sections[s].images
<1>1. \A s \in DOMAIN sections : sections[s] \in Section
    BY DEF PageTypes, SectionRows
<1>2. \A s \in DOMAIN places : places[s] \in Int
    BY DEF Places
<1>3. /\ DOMAIN sections' = DOMAIN sections
      /\ sections' = [s \in DOMAIN sections |-> sections'[s]]
      /\ \A s \in DOMAIN sections : sections'[s] =
            IF s \in DOMAIN places THEN [sections[s] EXCEPT !.position = places[s]] ELSE sections[s]
    BY DEF Placed
<1>4. ASSUME NEW s \in DOMAIN sections
      PROVE  /\ sections'[s] \in Section /\ sections'[s].age = sections[s].age
             /\ sections'[s].position = Numbered(places, s)
             /\ sections'[s].legacy = sections[s].legacy
             /\ sections'[s].images = sections[s].images
  <2>1. CASE s \in DOMAIN places
      BY <1>1, <1>2, <1>3, <2>1 DEF Section, Numbered
  <2>2. CASE s \notin DOMAIN places
      BY <1>1, <1>3, <2>2 DEF Numbered
  <2> QED BY <2>1, <2>2
<1>5. SectionRows'
    BY <1>3, <1>4, WrittenRows DEF PageTypes
<1> QED BY <1>3, <1>4, <1>5

LEMMA MoveSwapIInv ==
  ASSUME PageIInv, NEW e \in Editors, MoveSwap(e)
  PROVE  PageIInv'
<1> DEFINE what == [step |-> "tidy"]
<1>1. PageTypes /\ request[e] \in Asked /\ request[e].step = "swap" /\ request[e] # Idle
      /\ request[e].places \in Places
    BY Asks DEF PageIInv, PageTypes, PageRequests, MoveSwap
<1>2. what \in Asked /\ what.step = "tidy" /\ what # Idle
    BY Asks DEF Asked
<1> HIDE DEF what
<1>3. sections' = Placed(request[e].places) /\ Goes(e, what) /\ UNCHANGED <<made, body, untidy>>
    BY DEF MoveSwap, what
<1>4. SectionRows' /\ \A s \in DOMAIN sections' : s \in DOMAIN sections /\ sections'[s].images = sections[s].images
    BY <1>1, <1>3, PlacedRows
<1>5. request'[e] = what => Calm(e)'
    BY <1>2 DEF Calm
<1>6. made' \in 0..MaxSections /\ made <= made' /\ body' \in BOOLEAN /\ untidy' \in BOOLEAN
    BY <1>1, <1>3 DEF PageTypes
<1> QED BY <1>1, <1>2, <1>3, <1>4, <1>5, <1>6, OnwardIInv

\* Resequencing gives each section its rank ...
LEMMA ResequenceReadIInv ==
  ASSUME PageIInv, NEW e \in Editors, ResequenceRead(e)
  PROVE  PageIInv'
<1> DEFINE shifted == {s \in DOMAIN sections : sections[s].position # Rank(s)}
           places == [s \in shifted |-> Rank(s)]
           what == [step |-> "number", places |-> places]
<1>1. PageTypes /\ request[e] # Idle
    BY Asks DEF PageIInv, PageTypes, PageRequests, ResequenceRead
<1>2. \A s \in DOMAIN sections : Rank(s) \in Nat
    BY <1>1, Ranks
<1>3. places \in Places
  <2>1. shifted \in SUBSET Ids /\ places \in [shifted -> Int]
      BY <1>1, <1>2, SectionsFinite
  <2> QED BY <2>1 DEF Places
<1> HIDE DEF places
<1>4. PICK given \in Places : given = places
    BY <1>3
<1>5. what \in Asked /\ what.step = "number" /\ what.places = given /\ what # Idle
    BY <1>4, Asks DEF Asked
<1> HIDE DEF what
<1>6. Goes(e, what) /\ untidy' = (untidy /\ ~Alone(e)) /\ UNCHANGED <<sections, made, body>>
    BY DEF ResequenceRead, what, places
<1>7. SectionRows'
    BY <1>1, <1>6 DEF PageTypes, SectionRows
<1>8. request'[e] = what => Calm(e)'
  <2>1. \A s \in DOMAIN sections : Rank(s)' = Rank(s)
      BY <1>6, SameLayout
  <2>2. \A s \in DOMAIN sections : Numbered(given, s) = Rank(s)
      BY <1>4 DEF Numbered, places
  <2>3. \A s \in DOMAIN sections' : Numbered(given, s)' = Rank(s)'
      BY <1>6, <2>1, <2>2 DEF Numbered
  <2> QED BY <1>5, <2>3 DEF Calm
<1>9. untidy' \in BOOLEAN /\ made' \in 0..MaxSections /\ made <= made' /\ body' \in BOOLEAN
  <2>1. Alone(e) \in BOOLEAN
      BY DEF Alone
  <2> QED BY <1>1, <1>6, <2>1 DEF PageTypes
<1>10. ~untidy' => ~untidy \/ \A f \in Editors : f # e => request[f] = Idle
    BY <1>6 DEF Alone
<1> QED BY <1>1, <1>5, <1>6, <1>7, <1>8, <1>9, <1>10, OnwardIInv

\* ... and no two have the same.
LEMMA ResequenceWriteIInv ==
  ASSUME PageIInv, NEW e \in Editors, ResequenceWrite(e)
  PROVE  PageIInv'
<1>1. PageTypes /\ request[e] \in Asked /\ request[e].step = "number" /\ request[e] # Idle
      /\ request[e].places \in Places
    BY Asks DEF PageIInv, PageTypes, PageRequests, ResequenceWrite
<1>2. sections' = Placed(request[e].places) /\ Goes(e, Idle) /\ UNCHANGED <<made, body, untidy>>
    BY DEF ResequenceWrite
<1>3. /\ SectionRows' /\ DOMAIN sections' = DOMAIN sections
      /\ \A s \in DOMAIN sections : /\ sections'[s].position = Numbered(request[e].places, s)
                                    /\ sections'[s].legacy = sections[s].legacy
                                    /\ sections'[s].images = sections[s].images
    BY <1>1, <1>2, PlacedRows
<1>4. ASSUME ~untidy, Calm(e) PROVE Neat'
  <2>1. \A s \in DOMAIN sections : sections'[s].position = Rank(s)
      BY <1>1, <1>3, <1>4 DEF Calm
  <2>2. Custom' \subseteq DOMAIN sections
      BY <1>3 DEF Custom
  <2> QED BY <1>1, <1>3, <2>1, <2>2, Ranks DEF Neat
<1>5. ASSUME ~untidy', request'[e] = Idle, ~untidy => Calm(e) PROVE Calm(e)' /\ Neat'
    BY <1>2, <1>4, <1>5, Asks DEF Calm
<1>6. /\ Idle \in Asked /\ Idle.step \notin {"image", "save"} /\ body' \in BOOLEAN
      /\ untidy' \in BOOLEAN /\ made <= made' /\ made' \in 0..MaxSections
    BY <1>1, <1>2, Asks DEF Asked, PageTypes
<1> QED BY <1>1, <1>2, <1>3, <1>5, <1>6, OnwardIInv

\* "save" writes the position it read, which in a tidy page is still the section's.
LEMMA SaveRowIInv ==
  ASSUME PageIInv, NEW e \in Editors, SaveRow(e)
  PROVE  PageIInv'
<1> DEFINE id == request[e].id
           row == request[e].row
           kept_row == [row EXCEPT !.images = sections[id].images, !.age = sections[id].age]
           new_row == [row EXCEPT !.images = 0, !.age = made + 1]
<1>1. PageTypes /\ request[e] \in Asked /\ request[e].step = "save" /\ request[e] # Idle
      /\ row \in Section /\ id \in 1..made
    BY Asks DEF PageIInv, PageTypes, PageRequests, SaveRow
<1>2. Goes(e, Idle) /\ UNCHANGED <<body, untidy>>
    BY DEF SaveRow
<1>3. made \in Nat /\ made \in 0..MaxSections /\ MaxSections \in Nat
    BY <1>1, SectionsAssumption DEF PageTypes
<1>4. /\ Idle \in Asked /\ Idle.step \notin {"image", "save"} /\ body' \in BOOLEAN
      /\ untidy' \in BOOLEAN
    BY <1>1, <1>2, Asks DEF Asked, PageTypes
<1>5. CASE id \in DOMAIN sections
  <2>1. sections[id] \in Section
      BY <1>1, <1>5 DEF PageTypes, SectionRows
  <2>2. /\ kept_row \in Section /\ kept_row.images = sections[id].images
        /\ kept_row.age = sections[id].age /\ kept_row.position = row.position
        /\ kept_row.legacy = row.legacy
      BY <1>1, <2>1 DEF Section
  <2> HIDE DEF kept_row
  <2>3. sections' = [sections EXCEPT ![id] = kept_row] /\ made' = made
      BY <1>5 DEF SaveRow, kept_row
  <2>4. /\ DOMAIN sections' = DOMAIN sections
        /\ sections' = [s \in DOMAIN sections |-> sections'[s]]
        /\ sections'[id] = kept_row
        /\ \A s \in DOMAIN sections \ {id} : sections'[s] = sections[s]
      BY <1>5, <2>3
  <2>5. \A s \in DOMAIN sections :
            /\ sections'[s] \in Section
            /\ sections'[s].age = sections[s].age /\ sections'[s].images = sections[s].images
      BY <1>1, <2>2, <2>4 DEF PageTypes, SectionRows
  <2>6. SectionRows'
      BY <1>1, <2>3, <2>4, <2>5, WrittenRows DEF PageTypes
  <2>7. ASSUME ~untidy, Calm(e) PROVE Neat'
    <3>1. Neat /\ row.position = sections[id].position /\ row.legacy = sections[id].legacy
        BY <1>1, <2>7 DEF Calm
    <3>2. \A s \in DOMAIN sections : /\ sections'[s].position = sections[s].position
                                     /\ sections'[s].legacy = sections[s].legacy
                                     /\ sections'[s].age = sections[s].age
        BY <2>2, <2>4, <2>5, <3>1
    <3> QED BY <2>4, <3>1, <3>2, SameLayout
  <2>8. ASSUME ~untidy', request'[e] = Idle, ~untidy => Calm(e) PROVE Calm(e)' /\ Neat'
      BY <1>2, <2>7, <2>8, Asks DEF Calm
  <2>9. /\ \A s \in DOMAIN sections' : s \in DOMAIN sections /\ sections'[s].images = sections[s].images
        /\ made' \in 0..MaxSections /\ made <= made'
      BY <1>3, <2>3, <2>4, <2>5
  <2> QED BY <1>1, <1>2, <1>4, <2>6, <2>8, <2>9, OnwardIInv
<1>6. CASE id \notin DOMAIN sections
  <2>1. /\ new_row \in Section /\ new_row.images = 0 /\ new_row.age = made + 1
    <3>1. made + 1 \in Nat
        BY <1>3
    <3>2. PICK age \in Nat : age = made + 1
        BY <3>1
    <3>3. /\ [row EXCEPT !.images = 0, !.age = age] \in Section
          /\ [row EXCEPT !.images = 0, !.age = age].images = 0
          /\ [row EXCEPT !.images = 0, !.age = age].age = age
        BY <1>1 DEF Section
    <3> QED BY <3>2, <3>3
  <2> HIDE DEF new_row
  <2>2. made < MaxSections /\ Create(id, new_row)
      BY <1>6, Zenon DEF SaveRow, new_row
  <2>3. id \in 1..(made + 1)
      BY <1>1, <1>3
  <2>4. /\ SectionRows' /\ made' = made + 1 /\ made' \in 0..MaxSections
        /\ DOMAIN sections' = DOMAIN sections \union {id}
        /\ sections'[id] = new_row
        /\ \A t \in DOMAIN sections \ {id} : sections'[t] = sections[t]
      BY <1>1, <1>3, <2>1, <2>2, <2>3, CreatedRow DEF PageTypes
  <2>5. ~(~untidy /\ Calm(e))
      BY <1>1, <1>6 DEF Calm
  <2>6. \A s \in DOMAIN sections' :
            \/ sections'[s].images = 0
            \/ s \in DOMAIN sections /\ sections'[s].images = sections[s].images
      BY <2>1, <2>4
  <2>7. ASSUME ~untidy', ~untidy => Calm(e) PROVE FALSE
      BY <1>2, <2>5, <2>7
  <2>8. made <= made'
      BY <1>3, <2>4
  <2> QED BY <1>1, <1>2, <1>4, <2>4, <2>6, <2>7, <2>8, OnwardIInv
<1> QED BY <1>5, <1>6

LEMMA PageSaveIInv ==
  ASSUME PageIInv, NEW e \in Editors, PageSave(e)
  PROVE  PageIInv'
<1> DEFINE found == First({s \in DOMAIN sections : sections[s].legacy})
           what == [step |-> "legacy", body |-> request[e].body, ids |-> found]
<1>1. PageTypes /\ request[e] \in Asked /\ request[e].step = "page" /\ request[e] # Idle
      /\ request[e].body \in BOOLEAN
    BY Asks DEF PageIInv, PageTypes, PageRequests, PageSave
<1>2. found \in SUBSET Ids /\ \A s \in found : s \in DOMAIN sections /\ sections[s].legacy
    BY <1>1, SectionsFinite DEF First
<1> HIDE DEF found
<1>3. what \in Asked /\ what.step = "legacy" /\ what.ids = found /\ what # Idle
    BY <1>1, <1>2, Asks DEF Asked
<1> HIDE DEF what
<1>4. Goes(e, what) /\ body' = request[e].body /\ UNCHANGED <<sections, made, untidy>>
    BY DEF PageSave, what, found
<1>5. SectionRows'
    BY <1>1, <1>4 DEF PageTypes, SectionRows
<1>6. ASSUME ~untidy', request'[e] = what, ~untidy => Calm(e) PROVE Calm(e)'
  <2>1. Neat
      BY <1>1, <1>4, <1>6 DEF Calm
  <2>2. Neat'
      BY <1>4, <2>1 DEF Neat, Custom
  <2> QED BY <1>2, <1>3, <1>4, <1>6, <2>2 DEF Calm
<1>7. made' \in 0..MaxSections /\ made <= made' /\ body' \in BOOLEAN /\ untidy' \in BOOLEAN
    BY <1>1, <1>4 DEF PageTypes
<1> QED BY <1>1, <1>3, <1>4, <1>5, <1>6, <1>7, OnwardIInv

\* The legacy section is none of the page's own: putting it first, or creating it, moves none
\* of theirs.
LEMMA LegacySyncIInv ==
  ASSUME PageIInv, NEW e \in Editors, LegacySync(e)
  PROVE  PageIInv'
<1> DEFINE found == request[e].ids
           row == NewSection("CONTENT", 1, TRUE)
           id == made + 1
<1>1. PageTypes /\ request[e] \in Asked /\ request[e].step = "legacy" /\ request[e] # Idle
      /\ found \in SUBSET Ids
    BY Asks DEF PageIInv, PageTypes, PageRequests, LegacySync
<1>2. Goes(e, Idle) /\ UNCHANGED <<body, untidy>>
    BY DEF LegacySync
<1>3. made \in Nat /\ made \in 0..MaxSections /\ MaxSections \in Nat
    BY <1>1, SectionsAssumption DEF PageTypes
<1>4. /\ Idle \in Asked /\ Idle.step \notin {"image", "save"} /\ body' \in BOOLEAN
      /\ untidy' \in BOOLEAN
    BY <1>1, <1>2, Asks DEF Asked, PageTypes
<1>5. CASE found = {} /\ request[e].body
  <2>1. /\ row \in Section /\ row.age = made + 1 /\ row.images = 0 /\ row.legacy
      BY <1>3 DEF NewSection, Section, Kinds
  <2>2. id \in 1..(made + 1) /\ id \notin DOMAIN sections
      BY <1>1, <1>3 DEF PageTypes, SectionRows
  <2>3. made < MaxSections /\ Create(id, row)
      BY <1>5, Zenon DEF LegacySync
  <2> HIDE DEF row, id
  <2>4. /\ SectionRows' /\ made' = made + 1 /\ made' \in 0..MaxSections
        /\ DOMAIN sections' = DOMAIN sections \union {id}
        /\ sections'[id] = row
        /\ \A t \in DOMAIN sections \ {id} : sections'[t] = sections[t]
      BY <1>1, <1>3, <2>1, <2>2, <2>3, CreatedRow DEF PageTypes
  <2>5. ASSUME Neat PROVE Neat'
    <3>1. Custom' = Custom /\ \A s \in Custom : sections'[s] = sections[s]
        BY <2>1, <2>2, <2>4 DEF Custom
    <3>2. /\ Cardinality(DOMAIN sections) \in Nat
          /\ Cardinality(DOMAIN sections') = Cardinality(DOMAIN sections) + 1
        BY <1>1, <2>2, <2>4, SectionsFinite, FS_AddElement
    <3>3. \A s \in Custom : sections[s].position \in Int
        BY <1>1 DEF Custom, PageTypes, SectionRows, Section
    <3> QED BY <2>5, <3>1, <3>2, <3>3 DEF Neat
  <2>6. ASSUME ~untidy', request'[e] = Idle, ~untidy => Calm(e) PROVE Calm(e)' /\ Neat'
      BY <1>1, <1>2, <2>5, <2>6, Asks DEF Calm
  <2>7. \A s \in DOMAIN sections' :
            \/ sections'[s].images = 0
            \/ s \in DOMAIN sections /\ sections'[s].images = sections[s].images
      BY <2>1, <2>4
  <2>8. made <= made'
      BY <1>3, <2>4
  <2> QED BY <1>1, <1>2, <1>4, <2>4, <2>6, <2>7, <2>8, OnwardIInv
<1>6. CASE ~(found = {} /\ request[e].body)
  <2> DEFINE first(s) == s \in found \intersect DOMAIN sections /\ request[e].body
  <2>1. /\ made' = made
        /\ sections' = [s \in DOMAIN sections |->
                IF first(s) THEN [sections[s] EXCEPT !.kind = "CONTENT", !.position = 1] ELSE sections[s]]
      BY <1>6 DEF LegacySync
  <2>2. \A s \in DOMAIN sections : sections[s] \in Section
      BY <1>1 DEF PageTypes, SectionRows
  <2>3. ASSUME NEW s \in DOMAIN sections
        PROVE  /\ sections'[s] \in Section /\ sections'[s].age = sections[s].age
               /\ sections'[s].images = sections[s].images
               /\ sections'[s].legacy = sections[s].legacy
               /\ ~first(s) => sections'[s] = sections[s]
    <3>1. CASE first(s)
      <4> DEFINE placed == [sections[s] EXCEPT !.kind = "CONTENT", !.position = 1]
      <4>1. sections[s] \in Section
          BY <2>2
      <4>2. /\ placed \in Section /\ placed.age = sections[s].age
            /\ placed.images = sections[s].images /\ placed.legacy = sections[s].legacy
        <5> DEFINE content == [sections[s] EXCEPT !.kind = "CONTENT"]
        <5>1. /\ content \in Section /\ content.age = sections[s].age
              /\ content.images = sections[s].images /\ content.legacy = sections[s].legacy
            BY <4>1 DEF Section, Kinds
        <5>2. placed = [content EXCEPT !.position = 1]
            BY <4>1 DEF Section
        <5> HIDE DEF content, placed
        <5> QED BY <5>1, <5>2 DEF Section
      <4>3. sections'[s] = placed
          BY <2>1, <3>1
      <4> QED BY <3>1, <4>2, <4>3
    <3>2. CASE ~first(s)
        BY <2>1, <2>2, <3>2
    <3> QED BY <3>1, <3>2
  <2> HIDE DEF first
  <2>4. DOMAIN sections' = DOMAIN sections /\ sections' = [s \in DOMAIN sections |-> sections'[s]]
      BY <2>1
  <2>5. SectionRows'
      BY <1>1, <2>1, <2>3, <2>4, WrittenRows DEF PageTypes
  <2>6. ASSUME ~untidy, Calm(e) PROVE Neat'
    <3>1. Neat /\ \A s \in found \intersect DOMAIN sections : sections[s].legacy
        BY <1>1, <2>6 DEF Calm
    <3>2. Custom' = Custom /\ \A s \in Custom : s \in DOMAIN sections /\ ~first(s)
        BY <2>3, <2>4, <3>1 DEF Custom, first
    <3> QED BY <2>3, <2>4, <3>1, <3>2 DEF Neat
  <2>7. ASSUME ~untidy', request'[e] = Idle, ~untidy => Calm(e) PROVE Calm(e)' /\ Neat'
      BY <1>2, <2>6, <2>7, Asks DEF Calm
  <2>8. /\ \A s \in DOMAIN sections' : s \in DOMAIN sections /\ sections'[s].images = sections[s].images
        /\ made' \in 0..MaxSections /\ made <= made'
    <3>1. made' = made
        BY <2>1
    <3> QED BY <1>3, <2>3, <2>4, <3>1
  <2> QED BY <1>1, <1>2, <1>4, <2>5, <2>7, <2>8, OnwardIInv
<1> QED BY <1>5, <1>6

LEMMA RequestDiesIInv ==
  ASSUME PageIInv, NEW e \in Editors, RequestDies(e)
  PROVE  PageIInv'
<1>1. PageTypes /\ request[e] # Idle
    BY DEF PageIInv, RequestDies
<1>2. Goes(e, Idle) /\ untidy' = TRUE /\ UNCHANGED <<sections, made, body>>
    BY DEF RequestDies
<1>3. SectionRows'
    BY <1>1, <1>2 DEF PageTypes, SectionRows
<1>4. /\ Idle \in Asked /\ Idle.step \notin {"image", "save"} /\ body' \in BOOLEAN
      /\ made' \in 0..MaxSections /\ made <= made'
    BY <1>1, <1>2, Asks DEF Asked, PageTypes
<1> QED BY <1>1, <1>2, <1>3, <1>4, OnwardIInv

\* One image more, one request less that is about to add one
LEMMA ImageSaveIInv ==
  ASSUME PageIInv, NEW e \in Editors, ImageSave(e)
  PROVE  PageIInv'
<1> DEFINE id == request[e].id
<1>1. PageTypes /\ StripsBounded /\ request[e] \in Asked /\ request[e].step = "image" /\ request[e] # Idle
    BY Asks DEF PageIInv, PageTypes, PageRequests, ImageSave
<1>2. Goes(e, Idle) /\ UNCHANGED <<made, body, untidy>> /\ Idle \in Asked
    BY DEF ImageSave, Asked
<1>3. /\ request' \in [Editors -> Asked] /\ request'[e] = Idle /\ begun' = begun
      /\ \A f \in Editors : f # e => request'[f] = request[f]
      /\ ~untidy => /\ Calm(e)
                    /\ \A f \in Editors : f # e => request[f] = Idle /\ request'[f] = Idle
    BY <1>1, <1>2, GoesAlone
<1>4. sections' = IF id \in DOMAIN sections
                  THEN [sections EXCEPT ![id].images = @ + 1] ELSE sections
    BY DEF ImageSave
<1>5. \A s \in DOMAIN sections : sections[s] \in Section
    BY <1>1 DEF PageTypes, SectionRows
<1>6. DOMAIN sections' = DOMAIN sections /\ sections' = [s \in DOMAIN sections |-> sections'[s]]
    BY <1>1, <1>4 DEF PageTypes, SectionRows
<1>7. ASSUME NEW s \in DOMAIN sections
      PROVE  /\ sections'[s] \in Section /\ sections'[s].age = sections[s].age
             /\ sections'[s].images = IF s = id THEN sections[s].images + 1 ELSE sections[s].images
             /\ sections'[s].position = sections[s].position
             /\ sections'[s].legacy = sections[s].legacy
  <2>1. CASE s = id
    <3>1. sections'[s] = [sections[s] EXCEPT !.images = @ + 1]
        BY <1>4, <2>1
    <3> QED BY <1>5, <2>1, <3>1 DEF Section
  <2>2. CASE s # id
      BY <1>4, <1>5, <2>2
  <2> QED BY <2>1, <2>2
<1>8. PageTypes'
  <2>1. SectionRows'
      BY <1>1, <1>2, <1>6, <1>7, WrittenRows DEF PageTypes
  <2>2. PageRequests'
      BY <1>1, <1>2, <1>3, Asks DEF PageTypes, PageRequests
  <2> QED BY <1>1, <1>2, <1>3, <2>1, <2>2 DEF PageTypes
<1>9. ASSUME NEW s \in DOMAIN sections
      PROVE  sections'[s].images + Cardinality(Filling(s)') <= StripMax + Cardinality(Editors) - 1
  <2>1. sections[s].images \in Nat /\ StripMax \in Nat /\ IsFiniteSet(Editors)
      BY <1>5, SectionsAssumption DEF Section
  <2>2. Filling(s) \subseteq Editors /\ IsFiniteSet(Filling(s)) /\ Cardinality(Filling(s)) \in Nat
        /\ Cardinality(Editors) \in Nat
    <3>1. Filling(s) \subseteq Editors
        BY DEF Filling
    <3> QED BY <2>1, <3>1, FS_Subset, FS_CardinalityType
  <2>3. sections[s].images + Cardinality(Filling(s)) <= StripMax + Cardinality(Editors) - 1
      BY <1>1 DEF StripsBounded
  <2>4. Filling(s)' = Filling(s) \ {e}
      BY <1>3, Asks DEF Filling
  <2>5. e \in Filling(s) <=> s = id
      BY <1>1 DEF Filling
  <2>6. Cardinality(Filling(s)') = IF s = id THEN Cardinality(Filling(s)) - 1 ELSE Cardinality(Filling(s))
      BY <2>2, <2>4, <2>5, FS_RemoveElement
  <2>7. sections'[s].images = IF s = id THEN sections[s].images + 1 ELSE sections[s].images
      BY <1>7
  <2> QED BY <2>1, <2>2, <2>3, <2>6, <2>7
<1>10. StripsBounded'
    BY <1>6, <1>9 DEF StripsBounded
<1>11. ~untidy => Calm(e)' /\ Neat'
  <2>1. Neat => Neat'
      BY <1>6, <1>7, SameLayout
  <2> QED BY <1>1, <1>3, <2>1, Asks DEF Calm
<1>12. Healing'
    BY <1>2, <1>3, <1>11, HealingAlone
<1> QED BY <1>8, <1>10, <1>12 DEF PageIInv

\* An image may be deleted whoever edits the page: it moves no section.
LEMMA ImageDeleteIInv ==
  ASSUME PageIInv, NEW id \in DOMAIN sections, ImageDelete(id)
  PROVE  PageIInv'
<1>1. PageTypes /\ StripsBounded /\ Healing
    BY DEF PageIInv
<1>2. /\ sections[id].images > 0 /\ sections' = [sections EXCEPT ![id].images = @ - 1]
      /\ UNCHANGED <<made, begun, body, request, untidy>>
    BY DEF ImageDelete
<1>3. \A s \in DOMAIN sections : sections[s] \in Section
    BY <1>1 DEF PageTypes, SectionRows
<1>4. DOMAIN sections' = DOMAIN sections /\ sections' = [s \in DOMAIN sections |-> sections'[s]]
    BY <1>2
<1>5. ASSUME NEW s \in DOMAIN sections
      PROVE  /\ sections'[s] \in Section /\ sections'[s].age = sections[s].age
             /\ sections'[s].images <= sections[s].images
             /\ sections'[s].position = sections[s].position
             /\ sections'[s].legacy = sections[s].legacy
  <2>1. CASE s = id
    <3>1. sections'[s] = [sections[s] EXCEPT !.images = @ - 1]
        BY <1>2, <2>1
    <3> QED BY <1>2, <1>3, <2>1, <3>1 DEF Section
  <2>2. CASE s # id
    <3>1. sections'[s] = sections[s]
        BY <1>2, <2>2
    <3> QED BY <1>3, <3>1 DEF Section
  <2> QED BY <2>1, <2>2
<1>6. PageTypes'
  <2>1. SectionRows'
      BY <1>1, <1>2, <1>4, <1>5, WrittenRows DEF PageTypes
  <2> QED BY <1>1, <1>2, <2>1 DEF PageTypes, PageRequests
<1>7. StripsBounded'
  <2> SUFFICES ASSUME NEW s \in DOMAIN sections
               PROVE  sections'[s].images + Cardinality(Filling(s)') <= StripMax + Cardinality(Editors) - 1
      BY <1>4 DEF StripsBounded
  <2>1. Filling(s)' = Filling(s) /\ Filling(s) \subseteq Editors
      BY <1>2 DEF Filling
  <2>2. /\ Cardinality(Filling(s)) \in Nat /\ Cardinality(Editors) \in Nat /\ StripMax \in Nat
      BY <2>1, SectionsAssumption, FS_Subset, FS_CardinalityType
  <2>3. sections[s].images + Cardinality(Filling(s)) <= StripMax + Cardinality(Editors) - 1
      BY <1>1 DEF StripsBounded
  <2>4. sections'[s].images \in Nat /\ sections[s].images \in Nat /\ sections'[s].images <= sections[s].images
      BY <1>3, <1>5 DEF Section
  <2> QED BY <2>1, <2>2, <2>3, <2>4
<1>8. (Neat => Neat') /\ \A s \in DOMAIN sections : Rank(s)' = Rank(s)
    BY <1>4, <1>5, SameLayout
<1>9. ASSUME NEW e \in Editors, Calm(e) PROVE Calm(e)'
  <2>1. \A places, s : s \in DOMAIN sections => Numbered(places, s)' = Numbered(places, s)
      BY <1>5 DEF Numbered
  <2>2. request[e].step = "number" =>
            \A s \in DOMAIN sections : Numbered(request[e].places, s) = Rank(s)
      BY <1>9 DEF Calm
  <2>3. request'[e].step = "number" =>
            \A s \in DOMAIN sections' : Numbered(request[e].places, s)' = Rank(s)'
      BY <1>2, <1>4, <1>8, <2>1, <2>2
  <2> QED BY <1>2, <1>4, <1>5, <1>8, <1>9, <2>3 DEF Calm
<1>10. Healing'
    BY <1>1, <1>2, <1>8, <1>9 DEF Healing
<1> QED BY <1>6, <1>7, <1>10 DEF PageIInv

LEMMA SectionsStutterIInv == PageIInv /\ UNCHANGED sectionVars => PageIInv'
<1> SUFFICES ASSUME PageIInv, UNCHANGED sectionVars PROVE PageIInv'
    OBVIOUS
<1>1. PageTypes'
    BY DEF PageIInv, PageTypes, SectionRows, PageRequests, sectionVars
<1>2. StripsBounded'
    BY DEF PageIInv, StripsBounded, Filling, sectionVars
<1>3. Healing'
    BY DEF PageIInv, Healing, Calm, Numbered, Rank, Before, Neat, Custom, sectionVars
<1> QED BY <1>1, <1>2, <1>3 DEF PageIInv

LEMMA SectionsNextIInv == PageIInv /\ [SectionsNext]_sectionVars => PageIInv'
<1> SUFFICES ASSUME PageIInv, SectionsNext PROVE PageIInv'
    BY SectionsStutterIInv
<1>1. CASE \E s \in DOMAIN sections : ImageDelete(s)
    BY <1>1, ImageDeleteIInv
<1>2. ASSUME NEW e \in Editors, \E kind \in Kinds : AddRead(e, kind) PROVE PageIInv'
    BY <1>2, AddReadIInv
<1>3. ASSUME NEW e \in Editors, NEW s \in DOMAIN sections,
             \/ \E delta \in {-1, 1} : MoveRead(e, s, delta)
             \/ DeleteSection(e, s) \/ ImageRead(e, s) \/ SaveRead(e, s)
      PROVE  PageIInv'
    BY <1>3, MoveReadIInv, DeleteSectionIInv, ImageReadIInv, SaveReadIInv
<1>4. ASSUME NEW e \in Editors, \E text \in BOOLEAN : PageRead(e, text) PROVE PageIInv'
    BY <1>4, PageReadIInv
<1>5. ASSUME NEW e \in Editors,
             \/ AddCreate(e) \/ MoveSwap(e) \/ ResequenceRead(e) \/ ResequenceWrite(e)
             \/ SaveRow(e) \/ ImageSave(e) \/ PageSave(e) \/ LegacySync(e) \/ RequestDies(e)
      PROVE  PageIInv'
    BY <1>5, AddCreateIInv, MoveSwapIInv, ResequenceReadIInv, ResequenceWriteIInv, SaveRowIInv,
       ImageSaveIInv, PageSaveIInv, LegacySyncIInv, RequestDiesIInv
<1> QED BY <1>1, <1>2, <1>3, <1>4, <1>5 DEF SectionsNext

\* Every section is a row created on the page, with the columns of one.
THEOREM PageSectionsTypes == SectionsSpec => []SectionsTypeOK
<1>1. PageIInv => SectionsTypeOK
    BY SectionsFinite DEF PageIInv, PageTypes, SectionRows, SectionsTypeOK
<1> QED BY SectionsInitIInv, SectionsNextIInv, <1>1, PTL DEF SectionsSpec

\* For any number of editors: the limit on a strip's images is exceeded by no more images than
\* there are other editors.
THEOREM PageSectionsStripBounded == SectionsSpec => []StripBounded
<1>1. ASSUME PageIInv PROVE StripBounded
  <2> SUFFICES ASSUME NEW s \in DOMAIN sections
               PROVE  sections[s].images <= StripMax + Cardinality(Editors) - 1
      BY DEF StripBounded
  <2>1. Filling(s) \subseteq Editors
      BY DEF Filling
  <2>2. Cardinality(Filling(s)) \in Nat /\ Cardinality(Editors) \in Nat /\ StripMax \in Nat
      BY <2>1, SectionsAssumption, FS_Subset, FS_CardinalityType
  <2>3. sections[s].images \in Nat
      BY <1>1 DEF PageIInv, PageTypes, SectionRows, Section
  <2>4. sections[s].images + Cardinality(Filling(s)) <= StripMax + Cardinality(Editors) - 1
      BY <1>1 DEF PageIInv, StripsBounded
  <2> QED BY <2>2, <2>3, <2>4
<1> QED BY SectionsInitIInv, SectionsNextIInv, <1>1, PTL DEF SectionsSpec

\* Whatever requests have done to the page while they overlapped: once a move or a deletion
\* has numbered the sections alone, and until requests overlap or die again, no two of the
\* page's own sections share a position whenever no request is under way.
THEOREM PageSectionsLayoutHeals == SectionsSpec => []LayoutHeals
<1>1. PageIInv => LayoutHeals
    BY DEF PageIInv, Healing, Neat, LayoutHeals
<1> QED BY SectionsInitIInv, SectionsNextIInv, <1>1, PTL DEF SectionsSpec

-----------------------------------------------------------------------------
(***************************************************************************)
(* EventSeries                                                             *)
(*                                                                         *)
(* Requests that do not clash are alone (OneWriter), so the one at the     *)
(* event and its dates accounts for whatever is not as it should be.       *)
(* Somebody who has not been told the truth of a date will be, by the      *)
(* request that has it to do (WillTell), and what it will say is true      *)
(* (SaysTrue); a response may be yet to confirm, or be confirmed too late  *)
(* or never.  A date that should be back is one the request has still to   *)
(* save (Standing), because it was canceled by the event                   *)
(* (CanceledByEvent) and the event is what the request has read or made it *)
(* (EventAsRead).  A token that is in no queued link is in the request     *)
(* that made it (Linked).                                                  *)
(***************************************************************************)

\* A request of a manager.
SeriesTask ==
    [step : {"idle", "edit", "list", "save", "tell", "dates", "invite"},
     from : EventStatus \union {"NONE"}, to : EventStatus \union DateStatus \union {"NONE"},
     changed : BOOLEAN, date : Dates \union {0}, seen : 0..Horizon, by : Int, scope : Scopes,
     saves : BOOLEAN, says : {"ON", "CANCELED"}, todo : SUBSET Dates,
     token : 0..Edits, people : SUBSET People]

\* What a request carries at each of its steps.
TaskSound(r) ==
    /\ r.step \in {"edit", "list"} => r.to \in EventStatus /\ ~r.saves /\ r.says = "ON"
    /\ r.step = "dates" => r.to \in DateStatus /\ ~r.saves
    /\ r.step = "save" => r.saves
    /\ r.step \in {"save", "tell"} => r.todo # {}
    /\ r.step = "invite" => r.date \in Dates /\ r.token # 0

SeriesTypes ==
    /\ SeriesTypeOK
    /\ req \in [Organizers -> SeriesTask] /\ \A m \in Organizers : TaskSound(req[m])

\* Before the event is created there are no dates, no responses and no requests on them.
Unborn ==
    /\ event = "NONE" => date = [d \in Dates |-> NoDate] /\ \A m \in Organizers : ~Writing(m)
    /\ \A p \in People, d \in Dates : response[p][d] # "NONE" => date[d].day # 0

\* Requests that do not clash are alone.
OneWriter == ~clashed => \A m, n \in Organizers : Writing(m) /\ Writing(n) => m = n

Told(p, d) ==
    response[p][d] \in {"GOING", "MAYBE"} /\ <<p, d>> \notin crossed =>
        /\ date[d].status = "CANCELED" => mail[p][d] \in {"CANCELED", "REMINDER"}
        /\ date[d].status = "SCHEDULED" /\ mail[p][d] = "CANCELED" => <<p, d>> \in confirming

Telling(m, d) == req[m].step \in {"save", "tell"} /\ d \in req[m].todo

WillTell ==
    ~clashed /\ ~died =>
        \A p \in People, d \in Dates : Told(p, d) \/ \E m \in Organizers : Telling(m, d)

\* What a request is about to say of a date is true.
Truthful(m, d) ==
    /\ req[m].says = "CANCELED" => date[d].status = "CANCELED"
    /\ req[m].says = "ON" => date[d].status # "CANCELED"

SaysTrue ==
    ~clashed => \A m \in Organizers : \A d \in req[m].todo :
        req[m].step = "tell" /\ (req[m].saves => d = NextDate(m)) => Truthful(m, d)

\* The event is what the request that is at its dates has made it.
EventAsRead ==
    ~clashed => \A m \in Organizers :
        /\ req[m].step = "edit" => event = req[m].from
        /\ req[m].step = "list" => event = req[m].to
        /\ req[m].step \in {"save", "tell"} /\ req[m].saves =>
              event = IF req[m].says = "CANCELED" THEN "CANCELED" ELSE "PUBLISHED"

CanceledByEvent == \A d \in Dates \ edited : date[d].status = "CANCELED" => date[d].byEvent

Restoring(m, d) ==
    \/ req[m].step = "list" /\ req[m].from = "CANCELED" /\ req[m].to = "PUBLISHED"
    \/ req[m].step \in {"save", "tell"} /\ req[m].saves /\ req[m].says = "ON" /\ d \in req[m].todo
       /\ (req[m].step = "tell" => d # NextDate(m))

Standing ==
    ~clashed /\ ~died /\ ~detour /\ event # "CANCELED" =>
        \A d \in Rows \ edited :
            date[d].status # "CANCELED" \/ Ended(d) \/ \E m \in Organizers : Restoring(m, d)

Linked ==
    ~died => \A p \in People, d \in Dates :
        \/ invitation[p][d].token \in links[p][d] \union {0}
        \/ \E m \in Organizers : req[m].step = "invite" /\ p \in req[m].people
                              /\ req[m].date = d /\ req[m].token = invitation[p][d].token

SeriesIInv ==
    /\ SeriesTypes /\ Unborn /\ OneWriter /\ WillTell /\ SaysTrue
    /\ EventAsRead /\ CanceledByEvent /\ Standing /\ Linked

\* The next date of a request is one of those it has left.
LEMMA NextDateLeft ==
  ASSUME NEW m, req[m].todo \in SUBSET Dates, req[m].todo # {}
  PROVE  NextDate(m) \in req[m].todo
<1>1. req[m].todo \in SUBSET Nat
    BY SeriesAssumption DEF Dates
<1>2. \E d \in req[m].todo : \A e \in req[m].todo : d <= e
    BY <1>1, LeastExists
<1> QED BY <1>2 DEF NextDate

LEMMA NoTaskSound == NoTask \in SeriesTask /\ TaskSound(NoTask)
BY SeriesAssumption DEF NoTask, SeriesTask, TaskSound, Scopes

\* What is left of a request is sound.
LEMMA GoOnSound ==
  ASSUME NEW r \in SeriesTask, NEW S \in SUBSET Dates
  PROVE  /\ GoOn(r, S) \in SeriesTask /\ TaskSound(GoOn(r, S))
         /\ S = {} => GoOn(r, S).step = "idle"
         /\ S # {} => /\ GoOn(r, S).step = IF r.saves THEN "save" ELSE "tell"
                      /\ GoOn(r, S).todo = S
                      /\ GoOn(r, S).saves = r.saves /\ GoOn(r, S).says = r.says
<1>1. CASE S = {}
    BY <1>1, NoTaskSound DEF GoOn, NoTask
<1>2. CASE S # {}
    BY <1>2 DEF GoOn, SeriesTask, TaskSound
<1> QED BY <1>1, <1>2

\* A request on the event or its dates goes on, or begins: unless requests clash no other
\* one is under way, and the invitations are none of its business.
LEMMA WriterTurns ==
  ASSUME SeriesIInv, NEW m \in Organizers, NEW r \in SeriesTask, TaskSound(r),
         req' = [req EXCEPT ![m] = r], req[m].step # "invite",
         \/ Writing(m) /\ clashed' = clashed
         \/ clashed' = (clashed \/ \E n \in Organizers : Writing(n)),
         UNCHANGED <<invitation, links>>, died => died'
  PROVE  /\ req' \in [Organizers -> SeriesTask] /\ (\A n \in Organizers : TaskSound(req'[n]))
         /\ req'[m] = r
         /\ ~clashed' => ~clashed /\ \A n \in Organizers \ {m} : ~Writing(n) /\ ~Writing(n)'
         /\ clashed' \in BOOLEAN
         /\ OneWriter' /\ Linked'
<1> USE DEF SeriesIInv, SeriesTypes
<1>1. req'[m] = r /\ \A n \in Organizers \ {m} : req'[n] = req[n]
    OBVIOUS
<1>2. req' \in [Organizers -> SeriesTask] /\ \A n \in Organizers : TaskSound(req'[n])
    BY <1>1
<1>3. ~clashed' => ~clashed /\ \A n \in Organizers \ {m} : ~Writing(n)
    BY DEF OneWriter
<1>4. \A n \in Organizers \ {m} : Writing(n)' <=> Writing(n)
    BY <1>1 DEF Writing
<1>5. OneWriter'
    BY <1>3, <1>4 DEF OneWriter
<1>6. Linked'
  <2> SUFFICES ASSUME ~died', NEW p \in People, NEW d \in Dates,
                      invitation[p][d].token \notin links[p][d] \union {0}
               PROVE  \E n \in Organizers :
                         /\ req'[n].step = "invite" /\ p \in req'[n].people
                         /\ req'[n].date = d /\ req'[n].token = invitation[p][d].token
      BY DEF Linked
  <2>1. PICK n \in Organizers : /\ req[n].step = "invite" /\ p \in req[n].people
                                /\ req[n].date = d /\ req[n].token = invitation[p][d].token
      BY DEF Linked
  <2>2. n # m
      BY <2>1
  <2> QED BY <1>1, <2>1, <2>2
<1>7. clashed' \in BOOLEAN
    BY DEF SeriesTypeOK
<1> QED BY <1>1, <1>2, <1>3, <1>4, <1>5, <1>6, <1>7

\* Steps that write neither the event nor its dates.
LEMMA CoreKept ==
  ASSUME SeriesIInv, UNCHANGED <<event, date, clashed, died, detour, edited>>,
         today' \in Nat, today <= today',
         \A p \in People, d \in Dates : Told(p, d) => Told(p, d)',
         \A p \in People, d \in Dates : response'[p][d] # "NONE" => date[d].day # 0,
         \A n \in Organizers : Writing(n)' <=> Writing(n),
         \A n \in Organizers : Writing(n) => req'[n] = req[n]
  PROVE  /\ Unborn' /\ OneWriter' /\ WillTell' /\ SaysTrue'
         /\ EventAsRead' /\ CanceledByEvent' /\ Standing'
<1> USE DEF SeriesIInv
<1>1. Unborn' /\ OneWriter' /\ CanceledByEvent'
    BY DEF Unborn, OneWriter, CanceledByEvent
<1>2. \A n \in Organizers : req'[n].step \in {"edit", "list", "save", "tell"} => req'[n] = req[n]
    BY DEF Writing
<1>3. \A n \in Organizers, d \in Dates : Telling(n, d) => Telling(n, d)'
    BY DEF Telling, Writing
<1>4. WillTell'
    BY <1>3 DEF WillTell
<1>5. \A n \in Organizers : req'[n] = req[n] => NextDate(n)' = NextDate(n)
    BY DEF NextDate
<1>6. SaysTrue'
    BY <1>2, <1>5 DEF SaysTrue, Truthful
<1>7. EventAsRead'
    BY <1>2 DEF EventAsRead
<1>8. \A n \in Organizers, d \in Dates : Restoring(n, d) => Restoring(n, d)'
  <2> SUFFICES ASSUME NEW n \in Organizers, NEW d \in Dates, Restoring(n, d)
               PROVE  Restoring(n, d)'
      OBVIOUS
  <2>1. req'[n] = req[n]
      BY DEF Restoring, Writing
  <2> QED BY <1>5, <2>1 DEF Restoring
<1>9. \A d \in Dates : Ended(d) => Ended(d)'
    BY DEF SeriesTypes, SeriesTypeOK, Ended, Days
<1>10. Standing'
    BY <1>8, <1>9 DEF Standing, Rows
<1> QED BY <1>1, <1>4, <1>6, <1>7, <1>10

LEMMA SeriesInitIInv == SeriesInit => SeriesIInv
<1> SUFFICES ASSUME SeriesInit PROVE SeriesIInv
    OBVIOUS
<1> USE DEF SeriesInit
<1>1. SeriesTypes
  <2>1. date \in [Dates -> [day : 0..Horizon, status : DateStatus, byEvent : BOOLEAN]]
      BY SeriesAssumption DEF NoDate, DateStatus
  <2>2. 0 \in 0..Edits /\ 0 \in 0..Responses /\ 0 \in 0..Horizon /\ 1 \in Days
      BY SeriesAssumption DEF Days
  <2>3. /\ response \in [People -> [Dates -> {"NONE", "GOING", "MAYBE", "NOT_GOING"}]]
        /\ invitation \in [People -> [Dates -> [token : 0..Edits, expires : 0..Horizon]]]
        /\ links \in [People -> [Dates -> SUBSET (1..Edits)]]
        /\ mail \in [People -> [Dates -> {"NONE", "ON", "CANCELED", "REMINDER"}]]
      BY <2>2
  <2>4. SeriesTypeOK
      BY <2>1, <2>2, <2>3 DEF SeriesTypeOK
  <2>5. req \in [Organizers -> SeriesTask] /\ \A m \in Organizers : TaskSound(req[m])
      BY NoTaskSound
  <2> QED BY <2>4, <2>5 DEF SeriesTypes
<1>2. \A m \in Organizers : req[m] = NoTask /\ NoTask.step = "idle"
    BY DEF NoTask
<1>3. Unborn /\ OneWriter /\ SaysTrue /\ EventAsRead
    BY <1>2 DEF Unborn, OneWriter, SaysTrue, EventAsRead, Writing
<1>4. WillTell /\ CanceledByEvent /\ Standing /\ Linked
    BY DEF WillTell, Told, CanceledByEvent, Standing, Rows, NoDate, Linked
<1> QED BY <1>1, <1>3, <1>4 DEF SeriesIInv

\* The event is created: its dates are scheduled and nobody has heard of them.
LEMMA CreateSeriesIInv ==
  ASSUME SeriesIInv, NEW plan \in Plans, CreateEvent(plan)
  PROVE  SeriesIInv'
<1> USE DEF SeriesIInv
<1>1. /\ event = "NONE" /\ event' = plan.status
      /\ date' = [d \in Dates |->
            LET day == plan.first + (d - 1) * plan.gap
            IN  IF day <= plan.until THEN [NoDate EXCEPT !.day = day] ELSE NoDate]
      /\ UNCHANGED <<today, response, confirming, answers, invitation, links, mail, crossed, req,
                     requests, history>>
    BY DEF CreateEvent
<1>2. plan.status \in EventStatus /\ plan.first \in Days /\ plan.gap \in Nat \ {0} /\ plan.until \in Days
    BY SeriesAssumption
<1>3. \A d \in Dates : date'[d] \in [day : 0..Horizon, status : {"SCHEDULED"}, byEvent : {FALSE}]
  <2> SUFFICES ASSUME NEW d \in Dates
               PROVE  date'[d] \in [day : 0..Horizon, status : {"SCHEDULED"}, byEvent : {FALSE}]
      OBVIOUS
  <2>1. d - 1 \in Nat
      BY SeriesAssumption DEF Dates
  <2>2. (d - 1) * plan.gap \in Nat
      BY <1>2, <2>1
  <2>3. plan.first + (d - 1) * plan.gap \in Nat
      BY <1>2, <2>2 DEF Days
  <2> HIDE DEF SeriesIInv
  <2>4. CASE plan.first + (d - 1) * plan.gap <= plan.until
    <3>1. date'[d] = [NoDate EXCEPT !.day = plan.first + (d - 1) * plan.gap]
        BY <1>1, <2>4
    <3>2. plan.first + (d - 1) * plan.gap \in 0..Horizon
        BY SeriesAssumption, <1>2, <2>3, <2>4 DEF Days
    <3> QED BY <3>1, <3>2 DEF NoDate
  <2>5. CASE ~(plan.first + (d - 1) * plan.gap <= plan.until)
    <3>1. date'[d] = NoDate
        BY <1>1, <2>5
    <3> QED BY <3>1, SeriesAssumption DEF NoDate
  <2> QED BY <2>4, <2>5
<1>4. \A p \in People, d \in Dates : response[p][d] = "NONE"
    BY <1>1 DEF Unborn, NoDate
<1>5. UNCHANGED <<clashed, died, detour, edited, deliberate>>
    BY <1>1 DEF history
<1>6. SeriesTypes'
    BY <1>1, <1>2, <1>3, <1>5 DEF SeriesTypes, SeriesTypeOK, DateStatus
<1>7. event' # "NONE"
    BY <1>1, <1>2 DEF EventStatus
<1>8. \A m \in Organizers : ~Writing(m)
    BY <1>1 DEF Unborn
<1>9. \A m \in Organizers : req'[m].step \in {"idle", "invite"}
    BY <1>1, <1>8 DEF Writing
<1>10. Unborn' /\ OneWriter' /\ SaysTrue' /\ EventAsRead'
    BY <1>1, <1>4, <1>7, <1>9 DEF Unborn, OneWriter, SaysTrue, EventAsRead, Writing
<1>11. WillTell'
    BY <1>1, <1>4 DEF WillTell, Told
<1>12. CanceledByEvent' /\ Standing'
    BY <1>3 DEF CanceledByEvent, Standing, Rows
<1>13. Linked'
    BY <1>1, <1>5 DEF Linked
<1> QED BY <1>6, <1>10, <1>11, <1>12, <1>13

\* A response, its confirmation or the loss of it, a reminder: what one person has answered
\* and heard of one date.
LEMMA PersonKept ==
  ASSUME SeriesIInv, NEW p \in People, NEW d \in Dates,
         \/ \E answer \in {"GOING", "MAYBE", "NOT_GOING"} : Respond(p, d, answer)
         \/ Confirm(p, d) \/ ConfirmationLost(p, d) \/ Remind(p, d)
  PROVE  /\ response' \in [People -> [Dates -> {"NONE", "GOING", "MAYBE", "NOT_GOING"}]]
         /\ mail' \in [People -> [Dates -> {"NONE", "ON", "CANCELED", "REMINDER"}]]
         /\ confirming' \subseteq People \X Dates /\ crossed' \subseteq People \X Dates
         /\ answers' \in 0..Responses
         /\ \A q \in People, e \in Dates : Told(q, e) => Told(q, e)'
         /\ \A q \in People, e \in Dates : response'[q][e] # "NONE" => date[e].day # 0
<1>1. /\ response \in [People -> [Dates -> {"NONE", "GOING", "MAYBE", "NOT_GOING"}]]
      /\ mail \in [People -> [Dates -> {"NONE", "ON", "CANCELED", "REMINDER"}]]
      /\ confirming \subseteq People \X Dates /\ crossed \subseteq People \X Dates
      /\ answers \in 0..Responses
      /\ \A q \in People, e \in Dates : response[q][e] # "NONE" => date[e].day # 0
    BY DEF SeriesIInv, SeriesTypes, SeriesTypeOK, Unborn
<1>2. \A q \in People, e \in Dates : q # p \/ e # d => <<q, e>> # <<p, d>>
    OBVIOUS
<1>3. ASSUME NEW answer \in {"GOING", "MAYBE", "NOT_GOING"}, Respond(p, d, answer)
      PROVE  /\ response' \in [People -> [Dates -> {"NONE", "GOING", "MAYBE", "NOT_GOING"}]]
             /\ confirming' \subseteq People \X Dates /\ crossed' \subseteq People \X Dates
             /\ answers' \in 0..Responses
             /\ mail' \in [People -> [Dates -> {"NONE", "ON", "CANCELED", "REMINDER"}]]
             /\ \A q \in People, e \in Dates : Told(q, e) => Told(q, e)'
             /\ \A q \in People, e \in Dates : response'[q][e] # "NONE" => date[e].day # 0
  <2>1. /\ d \in Rows /\ date[d].status = "SCHEDULED"
        /\ answers' = answers + 1 /\ answers < Responses
        /\ response' = [response EXCEPT ![p] = [response[p] EXCEPT ![d] = answer]]
        /\ confirming' = confirming \union {<<p, d>>}
        /\ UNCHANGED <<date, mail, crossed>>
      BY <1>3 DEF Respond
  <2>2. answers' \in 0..Responses
      BY <1>1, <2>1, SeriesAssumption
  <2>3. ASSUME NEW q \in People, NEW e \in Dates, Told(q, e) PROVE Told(q, e)'
    <3>1. CASE q = p /\ e = d
        BY <2>1, <3>1 DEF Told
    <3>2. CASE q # p \/ e # d
        BY <1>1, <1>2, <2>1, <2>3, <3>2 DEF Told
    <3> QED BY <3>1, <3>2
  <2> QED BY <1>1, <2>1, <2>2, <2>3 DEF Rows
<1>4. CASE Confirm(p, d)
  <2>1. /\ confirming' = confirming \ {<<p, d>>}
        /\ mail' = [mail EXCEPT ![p] = [mail[p] EXCEPT ![d] = "ON"]]
        /\ crossed' = IF date[d].status = "CANCELED" THEN crossed \union {<<p, d>>}
                      ELSE crossed \ {<<p, d>>}
        /\ UNCHANGED <<date, response, answers>>
      BY <1>4 DEF Confirm
  <2>2. ASSUME NEW q \in People, NEW e \in Dates, Told(q, e) PROVE Told(q, e)'
    <3>1. CASE q = p /\ e = d
        BY <1>1, <2>1, <3>1 DEF Told
    <3>2. CASE q # p \/ e # d
        BY <1>1, <1>2, <2>1, <2>2, <3>2 DEF Told
    <3> QED BY <3>1, <3>2
  <2> QED BY <1>1, <2>1, <2>2
<1>5. CASE ConfirmationLost(p, d)
  <2>1. /\ confirming' = confirming \ {<<p, d>>}
        /\ crossed' = IF date[d].status = "SCHEDULED" /\ mail[p][d] = "CANCELED"
                      THEN crossed \union {<<p, d>>} ELSE crossed
        /\ UNCHANGED <<date, response, answers, mail>>
      BY <1>5 DEF ConfirmationLost
  <2>2. ASSUME NEW q \in People, NEW e \in Dates, Told(q, e) PROVE Told(q, e)'
    <3>1. CASE q = p /\ e = d
        BY <2>1, <2>2, <3>1 DEF Told
    <3>2. CASE q # p \/ e # d
        BY <1>2, <2>1, <2>2, <3>2 DEF Told
    <3> QED BY <3>1, <3>2
  <2> QED BY <1>1, <2>1, <2>2
<1>6. CASE Remind(p, d)
  <2>1. /\ mail' = [mail EXCEPT ![p] = [mail[p] EXCEPT ![d] = "REMINDER"]]
        /\ UNCHANGED <<date, response, confirming, crossed, answers>>
      BY <1>6 DEF Remind
  <2>2. ASSUME NEW q \in People, NEW e \in Dates, Told(q, e) PROVE Told(q, e)'
    <3>1. CASE q = p /\ e = d
        BY <1>1, <2>1, <2>2, <3>1 DEF Told
    <3>2. CASE q # p \/ e # d
        BY <1>1, <2>1, <2>2, <3>2 DEF Told
    <3> QED BY <3>1, <3>2
  <2> QED BY <1>1, <2>1, <2>2
<1> QED BY <1>1, <1>3, <1>4, <1>5, <1>6

\* Responses, confirmations, reminders and days
LEMMA PeopleSeriesIInv ==
  ASSUME SeriesIInv,
         \/ \E p \in People, d \in Dates :
               \/ \E answer \in {"GOING", "MAYBE", "NOT_GOING"} : Respond(p, d, answer)
               \/ Confirm(p, d) \/ ConfirmationLost(p, d) \/ Remind(p, d)
         \/ DayPasses
         \/ UNCHANGED seriesVars
  PROVE  SeriesIInv'
<1> USE DEF SeriesIInv
<1>1. UNCHANGED <<event, date, invitation, links, req, requests, clashed, died, detour, edited,
                  deliberate>>
    BY DEF Respond, Confirm, ConfirmationLost, Remind, DayPasses, seriesVars, history
<1>2. /\ today \in Days /\ today' \in Days /\ today <= today' /\ today' \in Nat
  <2>1. today' = today \/ (today' = today + 1 /\ today < Horizon)
      BY DEF Respond, Confirm, ConfirmationLost, Remind, DayPasses, seriesVars
  <2>2. today \in Days
      BY DEF SeriesTypes, SeriesTypeOK
  <2> HIDE DEF SeriesIInv
  <2> QED BY <2>1, <2>2, SeriesAssumption DEF Days
<1>3. /\ response' \in [People -> [Dates -> {"NONE", "GOING", "MAYBE", "NOT_GOING"}]]
      /\ mail' \in [People -> [Dates -> {"NONE", "ON", "CANCELED", "REMINDER"}]]
      /\ confirming' \subseteq People \X Dates /\ crossed' \subseteq People \X Dates
      /\ answers' \in 0..Responses
      /\ \A p \in People, d \in Dates : Told(p, d) => Told(p, d)'
      /\ \A p \in People, d \in Dates : response'[p][d] # "NONE" => date[d].day # 0
  <2>1. CASE DayPasses \/ UNCHANGED seriesVars
    <3>1. UNCHANGED <<response, confirming, answers, mail, crossed>>
        BY <2>1 DEF DayPasses, seriesVars
    <3> QED BY <1>1, <3>1 DEF Told, SeriesTypes, SeriesTypeOK, Unborn
  <2> QED BY <2>1, PersonKept
<1>4. SeriesTypes'
    BY <1>1, <1>2, <1>3 DEF SeriesTypes, SeriesTypeOK
<1>5. \A n \in Organizers : Writing(n)' <=> Writing(n)
    BY <1>1 DEF Writing
<1>6. Linked'
    BY <1>1 DEF Linked
<1> QED BY <1>1, <1>2, <1>3, <1>4, <1>5, <1>6, CoreKept

\* Invitations: the new token is in the request until its link is queued.
LEMMA InviteSeriesIInv ==
  ASSUME SeriesIInv, NEW m \in Organizers, NEW d \in Dates, NEW people \in SUBSET People,
         CreateInvitations(m, d, people)
  PROVE  SeriesIInv'
<1> USE DEF SeriesIInv
<1>1. /\ req[m] = NoTask /\ requests < Edits /\ requests' = requests + 1
      /\ invitation' = [p \in People |->
            IF p \in people THEN [invitation[p] EXCEPT ![d] = [token |-> requests', expires |-> date[d].day]]
            ELSE invitation[p]]
      /\ req' = [req EXCEPT ![m] =
            [NoTask EXCEPT !.step = "invite", !.date = d, !.people = people, !.token = requests']]
      /\ UNCHANGED <<event, date, today, response, confirming, answers, links, mail, crossed,
                     history>>
    BY DEF CreateInvitations
<1>2. UNCHANGED <<clashed, died, detour, edited, deliberate>>
    BY <1>1 DEF history
<1>3. requests' \in 0..Edits /\ requests' # 0 /\ date[d].day \in 0..Horizon
    BY <1>1, SeriesAssumption DEF SeriesTypes, SeriesTypeOK
<1>4. \A p \in People : invitation'[p] \in [Dates -> [token : 0..Edits, expires : 0..Horizon]]
    BY <1>1, <1>3 DEF SeriesTypes, SeriesTypeOK
<1>5. PICK r \in SeriesTask : /\ TaskSound(r) /\ req' = [req EXCEPT ![m] = r]
                              /\ r.step = "invite" /\ r.date = d /\ r.people = people
                              /\ r.token = requests'
  <2> DEFINE s == [NoTask EXCEPT !.step = "invite", !.date = d, !.people = people, !.token = requests']
  <2>1. /\ s \in SeriesTask /\ s.step = "invite" /\ s.date = d /\ s.people = people
        /\ s.token = requests' /\ TaskSound(s)
      BY <1>3, NoTaskSound DEF SeriesTask, NoTask, TaskSound
  <2> QED BY <1>1, <2>1
<1>6. /\ req'[m] = r /\ \A n \in Organizers \ {m} : req'[n] = req[n]
      /\ req' \in [Organizers -> SeriesTask] /\ \A n \in Organizers : TaskSound(req'[n])
    BY <1>5 DEF SeriesTypes
<1>7. SeriesTypes'
    BY <1>1, <1>2, <1>3, <1>4, <1>6 DEF SeriesTypes, SeriesTypeOK
<1>8. ~Writing(m) /\ ~Writing(m)'
    BY <1>1, <1>5, <1>6 DEF Writing, NoTask
<1>9. \A n \in Organizers : (Writing(n)' <=> Writing(n)) /\ (Writing(n) => req'[n] = req[n])
    BY <1>6, <1>8 DEF Writing
<1>10. \A p \in People, e \in Dates : Told(p, e) => Told(p, e)'
    BY <1>1 DEF Told
<1>11. Linked'
  <2> SUFFICES ASSUME ~died, NEW p \in People, NEW e \in Dates,
                      invitation'[p][e].token \notin links[p][e] \union {0}
               PROVE  \E n \in Organizers :
                         /\ req'[n].step = "invite" /\ p \in req'[n].people
                         /\ req'[n].date = e /\ req'[n].token = invitation'[p][e].token
      BY <1>1, <1>2 DEF Linked
  <2>1. CASE p \in people /\ e = d
    <3>1. invitation'[p][e].token = requests'
        BY <1>1, <2>1 DEF SeriesTypes, SeriesTypeOK
    <3> QED BY <1>5, <1>6, <2>1, <3>1
  <2>2. CASE ~(p \in people /\ e = d)
    <3>1. invitation'[p][e] = invitation[p][e]
        BY <1>1, <2>2 DEF SeriesTypes, SeriesTypeOK
    <3>2. PICK n \in Organizers : /\ req[n].step = "invite" /\ p \in req[n].people
                                  /\ req[n].date = e /\ req[n].token = invitation[p][e].token
        BY <1>2, <3>1 DEF Linked
    <3>3. n # m
        BY <1>1, <3>2 DEF NoTask
    <3> QED BY <1>6, <3>1, <3>2, <3>3
  <2> QED BY <2>1, <2>2
<1>12. today' \in Nat /\ today <= today' /\ \A p \in People, e \in Dates : response'[p][e] # "NONE" => date[e].day # 0
    BY <1>1, SeriesAssumption DEF SeriesTypes, SeriesTypeOK, Days, Unborn
<1> QED BY <1>1, <1>2, <1>7, <1>9, <1>10, <1>11, <1>12, CoreKept

LEMMA QueueSeriesIInv ==
  ASSUME SeriesIInv, NEW m \in Organizers, NEW p \in People, QueueInvitation(m, p)
  PROVE  SeriesIInv'
<1> USE DEF SeriesIInv
<1>1. PICK this, token : this = req[m].date /\ token = req[m].token
    OBVIOUS
<1>2. /\ req[m].step = "invite" /\ p \in req[m].people
      /\ links' = [links EXCEPT ![p] = [links[p] EXCEPT ![this] = links[p][this] \union {token}]]
      /\ req' = [req EXCEPT ![m] = IF req[m].people = {p} THEN NoTask
                                   ELSE [req[m] EXCEPT !.people = req[m].people \ {p}]]
      /\ UNCHANGED <<requests, clashed, event, date, today, response, confirming, answers,
                     invitation, mail, crossed, died, detour, edited, deliberate>>
    BY <1>1 DEF QueueInvitation, Continue, LinkAdded
<1>3. this \in Dates /\ token \in 1..Edits /\ req[m] \in SeriesTask /\ TaskSound(req[m])
    BY <1>1, <1>2, SeriesAssumption DEF SeriesTypes, SeriesTask, TaskSound
<1>4. PICK r \in SeriesTask :
        /\ TaskSound(r) /\ req' = [req EXCEPT ![m] = r] /\ r.step \in {"idle", "invite"}
        /\ \A q \in req[m].people \ {p} : r.step = "invite" /\ q \in r.people
        /\ r.step = "invite" => r.date = this /\ r.token = token
  <2>1. CASE req[m].people = {p}
      BY <1>2, <2>1, NoTaskSound DEF NoTask
  <2>2. CASE req[m].people # {p}
    <3> DEFINE s == [req[m] EXCEPT !.people = req[m].people \ {p}]
    <3>1. /\ s \in SeriesTask /\ TaskSound(s) /\ s.step = "invite" /\ s.people = req[m].people \ {p}
          /\ s.date = this /\ s.token = token
        BY <1>1, <1>2, <1>3 DEF SeriesTask, TaskSound
    <3>2. req' = [req EXCEPT ![m] = s]
        BY <1>2, <2>2
    <3> QED BY <3>1, <3>2
  <2> QED BY <2>1, <2>2
<1>5. /\ req'[m] = r /\ \A n \in Organizers \ {m} : req'[n] = req[n]
      /\ req' \in [Organizers -> SeriesTask] /\ \A n \in Organizers : TaskSound(req'[n])
    BY <1>4 DEF SeriesTypes
<1>6. /\ links' \in [People -> [Dates -> SUBSET (1..Edits)]]
      /\ \A q \in People, d \in Dates : links[q][d] \subseteq links'[q][d]
      /\ token \in links'[p][this]
    BY <1>2, <1>3 DEF SeriesTypes, SeriesTypeOK
<1>7. SeriesTypes'
    BY <1>2, <1>5, <1>6 DEF SeriesTypes, SeriesTypeOK
<1>8. ~Writing(m) /\ ~Writing(m)'
    BY <1>2, <1>4, <1>5 DEF Writing
<1>9. \A n \in Organizers : (Writing(n)' <=> Writing(n)) /\ (Writing(n) => req'[n] = req[n])
    BY <1>5, <1>8 DEF Writing
<1>10. \A q \in People, d \in Dates : Told(q, d) => Told(q, d)'
    BY <1>2 DEF Told
<1>11. Linked'
  <2> SUFFICES ASSUME ~died, NEW q \in People, NEW d \in Dates,
                      invitation[q][d].token \notin links'[q][d] \union {0}
               PROVE  \E n \in Organizers :
                         /\ req'[n].step = "invite" /\ q \in req'[n].people
                         /\ req'[n].date = d /\ req'[n].token = invitation[q][d].token
      BY <1>2 DEF Linked
  <2>1. PICK n \in Organizers : /\ req[n].step = "invite" /\ q \in req[n].people
                                /\ req[n].date = d /\ req[n].token = invitation[q][d].token
      BY <1>6 DEF Linked
  <2>2. CASE n # m
      BY <1>5, <2>1, <2>2
  <2>3. CASE n = m
    <3>1. d = this /\ invitation[q][d].token = token
        BY <1>1, <2>1, <2>3
    <3>2. q # p
        BY <1>6, <3>1
    <3> QED BY <1>4, <1>5, <2>1, <2>3, <3>1, <3>2
  <2> QED BY <2>2, <2>3
<1>12. today' \in Nat /\ today <= today' /\ \A q \in People, d \in Dates : response'[q][d] # "NONE" => date[d].day # 0
    BY <1>2, SeriesAssumption DEF SeriesTypes, SeriesTypeOK, Days, Unborn
<1> QED BY <1>2, <1>7, <1>9, <1>10, <1>11, <1>12, CoreKept

\* A request reads the event or a date, or cancel_event saves the event.
Reads(m, r) ==
    /\ TaskSound(r) /\ Begin(m, r) /\ r.step \in {"edit", "dates", "list"}
    /\ UNCHANGED <<date, today, response, confirming, answers, invitation, links, mail, crossed,
                   died, detour, edited, deliberate>>
    /\ event # "NONE" /\ event' \in EventStatus
    /\ r.step = "edit" => r.from = event'
    /\ r.step = "list" => r.to = event'
    /\ event' # "CANCELED" => event' = event

LEMMA ReadSeriesIInv ==
  ASSUME SeriesIInv, NEW m \in Organizers,
         \/ \E to \in EventStatus, changed \in BOOLEAN : EditRead(m, to, changed)
         \/ \E d \in Dates, edit \in Forms : DatesRead(m, d, edit)
         \/ CancelEvent(m)
  PROVE  SeriesIInv'
<1> USE DEF SeriesIInv
<1>1. PICK r \in SeriesTask : Reads(m, r)
  <2>1. ASSUME NEW to \in EventStatus, NEW changed \in BOOLEAN, EditRead(m, to, changed)
        PROVE  \E r \in SeriesTask : Reads(m, r)
    <3> DEFINE s == [NoTask EXCEPT !.step = "edit", !.from = event, !.to = to, !.changed = changed]
    <3>0. event \in EventStatus \union {"NONE"}
        BY DEF SeriesTypes, SeriesTypeOK
    <3>1. s \in SeriesTask /\ s.step = "edit" /\ s.from = event /\ TaskSound(s)
      <4>1. /\ s.step = "edit" /\ s.from = event /\ s.to = to /\ s.saves = FALSE /\ s.says = "ON"
            /\ s.todo = {}
          BY DEF NoTask
      <4>2. s \in SeriesTask
          BY <3>0, NoTaskSound DEF SeriesTask
      <4> QED BY <4>1, <4>2 DEF TaskSound
    <3>2. Begin(m, s) /\ event # "NONE" /\ event' = event
        BY <2>1 DEF EditRead
    <3>3. event' \in EventStatus
        BY <3>2 DEF SeriesTypes, SeriesTypeOK
    <3> HIDE DEF s
    <3> QED BY <2>1, <3>1, <3>2, <3>3 DEF EditRead, Reads
  <2>2. ASSUME NEW d \in Dates, NEW edit \in Forms, DatesRead(m, d, edit)
        PROVE  \E r \in SeriesTask : Reads(m, r)
    <3> DEFINE s == [NoTask EXCEPT !.step = "dates", !.date = d, !.seen = date[d].day, !.by = edit.by,
                                   !.scope = edit.scope, !.to = edit.status]
    <3>1. edit \in [by : Int, scope : Scopes, status : DateStatus] /\ date[d].day \in 0..Horizon
        BY SeriesAssumption DEF SeriesTypes, SeriesTypeOK
    <3>2. s \in SeriesTask /\ s.step = "dates" /\ TaskSound(s)
        BY <3>1, NoTaskSound DEF SeriesTask, NoTask, TaskSound
    <3>3. Begin(m, s) /\ date[d].day # 0 /\ event' = event
        BY <2>2 DEF DatesRead, Rows
    <3>4. event # "NONE"
        BY <3>3 DEF Unborn, NoDate
    <3>5. event' \in EventStatus
        BY <3>3, <3>4 DEF SeriesTypes, SeriesTypeOK
    <3> HIDE DEF s
    <3> QED BY <2>2, <3>2, <3>3, <3>4, <3>5 DEF DatesRead, Reads
  <2>3. CASE CancelEvent(m)
    <3> DEFINE s == [NoTask EXCEPT !.step = "list", !.to = "CANCELED"]
    <3>1. s \in SeriesTask /\ s.step = "list" /\ s.to = "CANCELED" /\ TaskSound(s)
        BY NoTaskSound DEF SeriesTask, NoTask, TaskSound, EventStatus
    <3>2. Begin(m, s) /\ event # "NONE" /\ event' = "CANCELED"
        BY <2>3 DEF CancelEvent
    <3> HIDE DEF s
    <3> QED BY <2>3, <3>1, <3>2 DEF CancelEvent, EventStatus, Reads
  <2> QED BY <2>1, <2>2, <2>3
<1>0. /\ TaskSound(r) /\ Begin(m, r) /\ r.step \in {"edit", "dates", "list"}
      /\ UNCHANGED <<date, today, response, confirming, answers, invitation, links, mail,
                     crossed, died, detour, edited, deliberate>>
      /\ event # "NONE" /\ event' \in EventStatus
      /\ r.step = "edit" => r.from = event'
      /\ r.step = "list" => r.to = event'
      /\ event' # "CANCELED" => event' = event
    BY <1>1 DEF Reads
<1>2. /\ req[m] = NoTask /\ requests' \in 0..Edits /\ req' = [req EXCEPT ![m] = r]
      /\ clashed' = (clashed \/ \E n \in Organizers : Writing(n))
    BY <1>0, SeriesAssumption DEF Begin, SeriesTypes, SeriesTypeOK
<1>3. req[m].step # "invite"
    BY <1>2 DEF NoTask
<1>4. /\ req' \in [Organizers -> SeriesTask] /\ (\A n \in Organizers : TaskSound(req'[n]))
      /\ req'[m] = r
      /\ ~clashed' => ~clashed /\ \A n \in Organizers \ {m} : ~Writing(n) /\ ~Writing(n)'
      /\ clashed' \in BOOLEAN
      /\ OneWriter' /\ Linked'
    BY <1>0, <1>2, <1>3, WriterTurns
<1>5. SeriesTypes'
    BY <1>0, <1>2, <1>4 DEF SeriesTypes, SeriesTypeOK
<1>6. Unborn' /\ CanceledByEvent'
    BY <1>0 DEF Unborn, CanceledByEvent, EventStatus
<1>7. ~clashed' => ~clashed /\ \A n \in Organizers : ~Writing(n) /\ (n # m => ~Writing(n)')
    BY <1>2, <1>4
<1>8. WillTell'
  <2> SUFFICES ASSUME ~clashed', ~died', NEW p \in People, NEW d \in Dates PROVE Told(p, d)'
      BY DEF WillTell
  <2>1. \A n \in Organizers : ~Telling(n, d)
      BY <1>7 DEF Telling, Writing
  <2>2. Told(p, d)
      BY <1>0, <1>7, <2>1 DEF WillTell
  <2> QED BY <1>0, <2>2 DEF Told
<1>9. SaysTrue' /\ EventAsRead'
    BY <1>0, <1>4, <1>7 DEF SaysTrue, EventAsRead, Writing
<1>10. Standing'
  <2> SUFFICES ASSUME ~clashed', ~died', ~detour', event' # "CANCELED", NEW d \in Rows \ edited,
                      date[d].status = "CANCELED"
               PROVE  Ended(d)
      BY <1>0 DEF Standing, Rows, Ended
  <2>1. \A n \in Organizers : ~Restoring(n, d)
      BY <1>7 DEF Restoring, Writing
  <2> QED BY <1>0, <1>7, <2>1 DEF Standing
<1> QED BY <1>4, <1>5, <1>6, <1>8, <1>9, <1>10

\* The event is saved with the status of the form.
LEMMA EditSeriesIInv ==
  ASSUME SeriesIInv, NEW m \in Organizers, EditSave(m)
  PROVE  SeriesIInv'
<1> USE DEF SeriesIInv
<1>1. PICK r : r = [req[m] EXCEPT !.step = "list"]
    OBVIOUS
<1>2. /\ req[m].step = "edit" /\ event' = req[m].to
      /\ detour' = (detour \/ (event = "CANCELED" /\ event' \in {"DRAFT", "ARCHIVED"}))
      /\ req' = [req EXCEPT ![m] = r]
      /\ UNCHANGED <<requests, clashed, date, today, response, confirming, answers, invitation,
                     links, mail, crossed, died, edited, deliberate>>
    BY <1>1 DEF EditSave, Continue
<1>3. /\ req[m] \in SeriesTask /\ TaskSound(req[m]) /\ req[m].to \in EventStatus /\ ~req[m].saves
      /\ req[m].says = "ON"
    BY <1>2 DEF SeriesTypes, TaskSound
<1>4. /\ r \in SeriesTask /\ TaskSound(r) /\ r.step = "list" /\ r.to = event' /\ r.from = req[m].from
    BY <1>1, <1>2, <1>3 DEF SeriesTask, TaskSound
<1>5. Writing(m)
    BY <1>2 DEF Writing
<1>6. /\ req' \in [Organizers -> SeriesTask] /\ (\A n \in Organizers : TaskSound(req'[n]))
      /\ req'[m] = r
      /\ ~clashed' => ~clashed /\ \A n \in Organizers \ {m} : ~Writing(n) /\ ~Writing(n)'
      /\ clashed' \in BOOLEAN
      /\ OneWriter' /\ Linked'
    BY <1>2, <1>4, <1>5, WriterTurns
<1>7. SeriesTypes'
    BY <1>2, <1>3, <1>6 DEF SeriesTypes, SeriesTypeOK
<1>8. Unborn' /\ CanceledByEvent'
    BY <1>2, <1>3 DEF Unborn, CanceledByEvent, EventStatus
<1>9. WillTell'
  <2> SUFFICES ASSUME ~clashed', ~died', NEW p \in People, NEW d \in Dates PROVE Told(p, d)'
      BY DEF WillTell
  <2>1. \A n \in Organizers : ~Telling(n, d)
      BY <1>2, <1>6 DEF Telling, Writing
  <2>2. Told(p, d)
      BY <1>2, <2>1 DEF WillTell
  <2> QED BY <1>2, <2>2 DEF Told
<1>10. SaysTrue' /\ EventAsRead'
    BY <1>4, <1>6 DEF SaysTrue, EventAsRead, Writing
<1>11. Standing'
  <2> SUFFICES ASSUME ~clashed', ~died', ~detour', event' # "CANCELED", NEW d \in Rows \ edited,
                      date[d].status = "CANCELED", ~Ended(d)
               PROVE  \E n \in Organizers : Restoring(n, d)'
      BY <1>2 DEF Standing, Rows, Ended
  <2>1. event = req[m].from
      BY <1>2 DEF EventAsRead
  <2>2. CASE event = "CANCELED"
    <3>1. event' = "PUBLISHED"
        BY <1>2, <1>3, <2>2 DEF EventStatus
    <3>2. Restoring(m, d)'
        BY <1>4, <1>6, <2>1, <2>2, <3>1 DEF Restoring
    <3> QED BY <3>2
  <2>3. CASE event # "CANCELED"
    <3>1. \A n \in Organizers : ~Restoring(n, d)
        BY <1>2, <1>6 DEF Restoring, Writing
    <3> QED BY <1>2, <2>3, <3>1 DEF Standing
  <2> QED BY <2>2, <2>3
<1> QED BY <1>6, <1>7, <1>8, <1>9, <1>10, <1>11

\* What a request is about to do with the dates it has listed.
Listed(m, r) ==
    /\ r.step \in {"idle", "save", "tell"}
    /\ r.step = "save" => req[m].to = IF r.says = "CANCELED" THEN "CANCELED" ELSE "PUBLISHED"
    /\ r.step = "tell" => ~r.saves /\ r.says = "ON" /\ \A d \in r.todo : date[d].status = "SCHEDULED"
    /\ req[m].from = "CANCELED" /\ req[m].to = "PUBLISHED" =>
          \A d \in TakenBack : r.step = "save" /\ r.saves /\ r.says = "ON" /\ d \in r.todo

LEMMA ListSeriesIInv ==
  ASSUME SeriesIInv, NEW m \in Organizers, ListDates(m)
  PROVE  SeriesIInv'
<1> USE DEF SeriesIInv
<1>1. /\ req[m].step = "list"
      /\ UNCHANGED <<requests, clashed, event, date, today, response, confirming, answers,
                     invitation, links, mail, crossed, died, detour, edited, deliberate>>
    BY DEF ListDates, Continue
<1>2. req[m] \in SeriesTask /\ TaskSound(req[m]) /\ req[m].to \in EventStatus /\ ~req[m].saves
      /\ req[m].says = "ON"
    BY <1>1 DEF SeriesTypes, TaskSound
<1>3. Rows \in SUBSET Dates /\ TakenBack \in SUBSET Dates
    BY DEF Rows, TakenBack
<1>4. PICK r \in SeriesTask : TaskSound(r) /\ req' = [req EXCEPT ![m] = r] /\ Listed(m, r)
  <2>1. CASE req[m].to = "CANCELED" /\ req[m].from # "CANCELED"
    <3> DEFINE s == [req[m] EXCEPT !.saves = TRUE, !.says = "CANCELED"]
               S == {d \in Rows : date[d].status # "CANCELED"}
               r == GoOn(s, S)
    <3>1. s \in SeriesTask /\ s.saves /\ s.says = "CANCELED"
        BY <1>2 DEF SeriesTask
    <3>2. req' = [req EXCEPT ![m] = r]
        BY <2>1 DEF ListDates, Continue
    <3> HIDE DEF s
    <3>3. /\ r \in SeriesTask /\ TaskSound(r)
          /\ S = {} => r.step = "idle"
          /\ S # {} => r.step = "save" /\ r.says = "CANCELED"
      <4>1. S \in SUBSET Dates
          BY <1>3
      <4> HIDE DEF S
      <4> QED BY <3>1, <4>1, GoOnSound
    <3>4. Listed(m, r)
        BY <2>1, <3>3 DEF Listed
    <3> HIDE DEF r
    <3> QED BY <3>2, <3>3, <3>4
  <2>2. CASE req[m].to = "PUBLISHED" /\ req[m].from = "CANCELED"
    <3> DEFINE s == [req[m] EXCEPT !.saves = TRUE]
               r == GoOn(s, TakenBack)
    <3>1. s \in SeriesTask /\ s.saves /\ s.says = "ON"
        BY <1>2 DEF SeriesTask
    <3>2. req' = [req EXCEPT ![m] = r]
        BY <2>2 DEF ListDates, Continue
    <3> HIDE DEF s
    <3>3. /\ r \in SeriesTask /\ TaskSound(r)
          /\ TakenBack = {} => r.step = "idle"
          /\ TakenBack # {} => r.step = "save" /\ r.saves /\ r.says = "ON" /\ r.todo = TakenBack
        BY <1>3, <3>1, GoOnSound
    <3>4. Listed(m, r)
        BY <2>2, <3>3 DEF Listed
    <3> HIDE DEF r
    <3> QED BY <3>2, <3>3, <3>4
  <2>3. CASE req[m].to = "PUBLISHED" /\ req[m].from # "CANCELED" /\ req[m].changed
    <3> DEFINE S == {d \in Rows : date[d].status = "SCHEDULED" /\ ~Ended(d)}
               r == GoOn(req[m], S)
    <3>1. req' = [req EXCEPT ![m] = r]
        BY <2>3 DEF ListDates, Continue
    <3>2. /\ r \in SeriesTask /\ TaskSound(r)
          /\ S = {} => r.step = "idle"
          /\ S # {} => r.step = "tell" /\ ~r.saves /\ r.says = "ON" /\ r.todo = S
        BY <1>2, <1>3, GoOnSound
    <3>3. Listed(m, r)
        BY <2>3, <3>2 DEF Listed
    <3> HIDE DEF r
    <3> QED BY <3>1, <3>2, <3>3
  <2>4. CASE /\ ~(req[m].to = "CANCELED" /\ req[m].from # "CANCELED")
             /\ ~(req[m].to = "PUBLISHED" /\ req[m].from = "CANCELED")
             /\ ~(req[m].to = "PUBLISHED" /\ req[m].from # "CANCELED" /\ req[m].changed)
    <3>1. req' = [req EXCEPT ![m] = NoTask]
        BY <2>4 DEF ListDates, Continue
    <3>2. Listed(m, NoTask)
        BY <2>4 DEF Listed, NoTask
    <3> QED BY <3>1, <3>2, NoTaskSound
  <2> QED BY <2>1, <2>2, <2>3, <2>4
<1>5. Writing(m) /\ req[m].step # "invite"
    BY <1>1 DEF Writing
<1>6. /\ req' \in [Organizers -> SeriesTask] /\ (\A n \in Organizers : TaskSound(req'[n]))
      /\ req'[m] = r
      /\ ~clashed' => ~clashed /\ \A n \in Organizers \ {m} : ~Writing(n) /\ ~Writing(n)'
      /\ clashed' \in BOOLEAN
      /\ OneWriter' /\ Linked'
    BY <1>1, <1>4, <1>5, WriterTurns
<1>7. SeriesTypes'
    BY <1>1, <1>6 DEF SeriesTypes, SeriesTypeOK
<1>8. Unborn' /\ CanceledByEvent'
    BY <1>1, <1>5 DEF Unborn, CanceledByEvent
<1>9. WillTell'
  <2> SUFFICES ASSUME ~clashed', ~died', NEW p \in People, NEW d \in Dates PROVE Told(p, d)'
      BY DEF WillTell
  <2>1. \A n \in Organizers : ~Telling(n, d)
      BY <1>1, <1>6 DEF Telling, Writing
  <2>2. Told(p, d)
      BY <1>1, <2>1 DEF WillTell
  <2> QED BY <1>1, <2>2 DEF Told
<1>10. SaysTrue'
  <2> SUFFICES ASSUME ~clashed', NEW n \in Organizers, NEW d \in req'[n].todo, req'[n].step = "tell"
               PROVE  Truthful(n, d)'
      BY DEF SaysTrue
  <2>1. n = m
      BY <1>6 DEF Writing
  <2> QED BY <1>1, <1>4, <1>6, <2>1 DEF Listed, Truthful
<1>11. EventAsRead'
  <2> SUFFICES ASSUME ~clashed', NEW n \in Organizers, Writing(n)'
               PROVE  /\ req'[n].step \notin {"edit", "list"}
                      /\ req'[n].step \in {"save", "tell"} /\ req'[n].saves =>
                            event' = IF req'[n].says = "CANCELED" THEN "CANCELED" ELSE "PUBLISHED"
      BY DEF EventAsRead, Writing
  <2>1. n = m /\ event = req[m].to
      BY <1>1, <1>6 DEF EventAsRead
  <2> QED BY <1>1, <1>4, <1>6, <2>1 DEF Listed
<1>12. Standing'
  <2> SUFFICES ASSUME ~clashed', ~died', ~detour', event' # "CANCELED", NEW d \in Rows \ edited,
                      date[d].status = "CANCELED", ~Ended(d)
               PROVE  \E n \in Organizers : Restoring(n, d)'
      BY <1>1 DEF Standing, Rows, Ended
  <2>1. PICK n \in Organizers : Restoring(n, d)
      BY <1>1 DEF Standing
  <2>2. n = m
      BY <1>1, <1>6, <2>1 DEF Restoring, Writing
  <2>3. req[m].from = "CANCELED" /\ req[m].to = "PUBLISHED"
      BY <1>1, <2>1, <2>2 DEF Restoring
  <2>4. d \in TakenBack
      BY DEF TakenBack, CanceledByEvent, Rows
  <2>5. Restoring(m, d)'
      BY <1>4, <1>6, <2>3, <2>4 DEF Listed, Restoring
  <2> QED BY <2>5
<1> QED BY <1>6, <1>7, <1>8, <1>9, <1>10, <1>11, <1>12

\* A date is saved; whoever may come is told next.
LEMMA SaveSeriesIInv ==
  ASSUME SeriesIInv, NEW m \in Organizers, SaveDate(m)
  PROVE  SeriesIInv'
<1> USE DEF SeriesIInv
<1>1. PICK r, this, off : /\ r = [req[m] EXCEPT !.step = "tell"] /\ this = NextDate(m)
                          /\ off = (req[m].says = "CANCELED")
    OBVIOUS
<1>2. /\ req[m].step = "save" /\ req' = [req EXCEPT ![m] = r]
      /\ date' = [date EXCEPT ![this] = [[date[this] EXCEPT !.status = IF off THEN "CANCELED" ELSE "SCHEDULED"]
                                                    EXCEPT !.byEvent = off]]
      /\ UNCHANGED <<requests, clashed, event, today, response, confirming, answers, invitation,
                     links, mail, crossed, died, detour, edited, deliberate>>
    BY <1>1 DEF SaveDate, Continue
<1>3. /\ req[m] \in SeriesTask /\ TaskSound(req[m]) /\ req[m].saves
      /\ req[m].todo \in SUBSET Dates /\ req[m].todo # {}
    BY <1>2 DEF SeriesTypes, TaskSound, SeriesTask
<1>4. /\ r \in SeriesTask /\ TaskSound(r) /\ r.step = "tell" /\ r.todo = req[m].todo
      /\ r.saves /\ r.says = req[m].says
    BY <1>1, <1>3 DEF SeriesTask, TaskSound
<1>5. this \in req[m].todo /\ this \in Dates
    BY <1>1, <1>3, NextDateLeft
<1>6. Writing(m) /\ req[m].step # "invite"
    BY <1>2 DEF Writing
<1>7. /\ req' \in [Organizers -> SeriesTask] /\ (\A n \in Organizers : TaskSound(req'[n]))
      /\ req'[m] = r
      /\ ~clashed' => ~clashed /\ \A n \in Organizers \ {m} : ~Writing(n) /\ ~Writing(n)'
      /\ clashed' \in BOOLEAN
      /\ OneWriter' /\ Linked'
    BY <1>2, <1>4, <1>6, WriterTurns
<1>8. off \in BOOLEAN /\ date \in [Dates -> [day : 0..Horizon, status : DateStatus, byEvent : BOOLEAN]]
    BY <1>1 DEF SeriesTypes, SeriesTypeOK
<1>9. /\ date' \in [Dates -> [day : 0..Horizon, status : DateStatus, byEvent : BOOLEAN]]
      /\ \A d \in Dates : date'[d].day = date[d].day
      /\ \A d \in Dates \ {this} : date'[d] = date[d]
      /\ date'[this].status = IF off THEN "CANCELED" ELSE "SCHEDULED"
      /\ date'[this].byEvent = off
    BY <1>2, <1>5, <1>8 DEF DateStatus
<1>10. SeriesTypes'
    BY <1>2, <1>7, <1>9 DEF SeriesTypes, SeriesTypeOK
<1>11. Unborn'
    BY <1>2, <1>6, <1>9 DEF Unborn
<1>12. CanceledByEvent'
    BY <1>2, <1>9 DEF CanceledByEvent
<1>13. NextDate(m)' = this
    BY <1>1, <1>4, <1>7 DEF NextDate
<1>14. WillTell'
  <2> SUFFICES ASSUME ~clashed', ~died', NEW p \in People, NEW d \in Dates
               PROVE  Told(p, d)' \/ \E n \in Organizers : Telling(n, d)'
      BY DEF WillTell
  <2>1. CASE d = this
      BY <1>4, <1>5, <1>7, <2>1 DEF Telling
  <2>2. CASE d # this
    <3>1. Told(p, d) => Told(p, d)'
        BY <1>2, <1>9, <2>2 DEF Told
    <3>2. ASSUME NEW n \in Organizers, Telling(n, d) PROVE Telling(m, d)'
      <4>1. n = m
          BY <1>7, <3>2 DEF Telling, Writing
      <4> QED BY <1>4, <1>7, <3>2, <4>1 DEF Telling
    <3> QED BY <1>2, <3>1, <3>2 DEF WillTell
  <2> QED BY <2>1, <2>2
<1>15. SaysTrue'
  <2> SUFFICES ASSUME ~clashed', NEW n \in Organizers, NEW d \in req'[n].todo, req'[n].step = "tell",
                      req'[n].saves => d = NextDate(n)'
               PROVE  Truthful(n, d)'
      BY DEF SaysTrue
  <2>1. n = m
      BY <1>7 DEF Writing
  <2>2. d = this
      BY <1>4, <1>7, <1>13, <2>1
  <2> QED BY <1>1, <1>4, <1>7, <1>9, <2>1, <2>2 DEF Truthful
<1>16. EventAsRead'
  <2> SUFFICES ASSUME ~clashed', NEW n \in Organizers, Writing(n)'
               PROVE  /\ req'[n].step = "tell" /\ req'[n].saves
                      /\ event' = IF req'[n].says = "CANCELED" THEN "CANCELED" ELSE "PUBLISHED"
      BY DEF EventAsRead, Writing
  <2>1. n = m
      BY <1>7
  <2> QED BY <1>2, <1>3, <1>4, <1>7, <2>1 DEF EventAsRead
<1>17. Standing'
  <2> SUFFICES ASSUME ~clashed', ~died', ~detour', event' # "CANCELED", NEW d \in Rows \ edited,
                      date'[d].status = "CANCELED", ~Ended(d)
               PROVE  \E n \in Organizers : Restoring(n, d)'
      BY <1>2, <1>9 DEF Standing, Rows, Ended
  <2>1. ~off
      BY <1>1, <1>2, <1>3 DEF EventAsRead
  <2>2. d # this /\ d \in Dates
      BY <1>9, <2>1 DEF Rows
  <2>3. PICK n \in Organizers : Restoring(n, d)
      BY <1>2, <1>9, <2>2 DEF Standing
  <2>4. n = m
      BY <1>7, <2>3 DEF Restoring, Writing
  <2>5. Restoring(m, d)'
      BY <1>2, <1>4, <1>7, <1>13, <2>2, <2>3, <2>4 DEF Restoring
  <2> QED BY <2>5
<1> QED BY <1>7, <1>10, <1>11, <1>12, <1>14, <1>15, <1>16, <1>17

\* Whoever may come to a date is told of it, and the request goes on to the next.
LEMMA TellSeriesIInv ==
  ASSUME SeriesIInv, NEW m \in Organizers, TellDate(m)
  PROVE  SeriesIInv'
<1> USE DEF SeriesIInv
<1>1. PICK r, this, word : /\ r = GoOn(req[m], req[m].todo \ {NextDate(m)}) /\ this = NextDate(m)
                           /\ word = req[m].says
    OBVIOUS
<1>2. /\ req[m].step = "tell" /\ req' = [req EXCEPT ![m] = r]
      /\ mail' = [p \in People |->
            IF p \in WhoHear(this) THEN [mail[p] EXCEPT ![this] = word] ELSE mail[p]]
      /\ crossed' = crossed \ (WhoHear(this) \X {this})
      /\ UNCHANGED <<requests, clashed, event, date, today, response, confirming, answers,
                     invitation, links, died, detour, edited, deliberate>>
    BY <1>1 DEF TellDate, Continue
<1>3. /\ req[m] \in SeriesTask /\ TaskSound(req[m]) /\ word \in {"ON", "CANCELED"}
      /\ req[m].todo \in SUBSET Dates /\ req[m].todo # {}
    BY <1>1, <1>2 DEF SeriesTypes, TaskSound, SeriesTask
<1>4. this \in req[m].todo /\ this \in Dates
    BY <1>1, <1>3, NextDateLeft
<1>5. /\ r \in SeriesTask /\ TaskSound(r) /\ r.step \in {"idle", "save", "tell"}
      /\ req[m].todo \ {this} = {} => r.step = "idle"
      /\ req[m].todo \ {this} # {} => /\ r.step = IF req[m].saves THEN "save" ELSE "tell"
                                      /\ r.todo = req[m].todo \ {this}
                                      /\ r.saves = req[m].saves /\ r.says = req[m].says
    BY <1>1, <1>3, GoOnSound
<1>6. Writing(m) /\ req[m].step # "invite"
    BY <1>2 DEF Writing
<1>7. /\ req' \in [Organizers -> SeriesTask] /\ (\A n \in Organizers : TaskSound(req'[n]))
      /\ req'[m] = r
      /\ ~clashed' => ~clashed /\ \A n \in Organizers \ {m} : ~Writing(n) /\ ~Writing(n)'
      /\ clashed' \in BOOLEAN
      /\ OneWriter' /\ Linked'
    BY <1>2, <1>5, <1>6, WriterTurns
<1>8. /\ mail' \in [People -> [Dates -> {"NONE", "ON", "CANCELED", "REMINDER"}]]
      /\ \A p \in People, d \in Dates \ {this} : mail'[p][d] = mail[p][d]
      /\ \A p \in WhoHear(this) : mail'[p][this] = word
      /\ crossed' \subseteq People \X Dates
      /\ \A p \in People, d \in Dates \ {this} : <<p, d>> \in crossed' <=> <<p, d>> \in crossed
  <2>1. mail \in [People -> [Dates -> {"NONE", "ON", "CANCELED", "REMINDER"}]]
      BY DEF SeriesTypes, SeriesTypeOK
  <2>2. crossed \subseteq People \X Dates
      BY DEF SeriesTypes, SeriesTypeOK
  <2> QED BY <1>2, <1>3, <1>4, <2>1, <2>2 DEF WhoHear
<1>9. SeriesTypes'
    BY <1>2, <1>7, <1>8 DEF SeriesTypes, SeriesTypeOK
<1>10. Unborn' /\ CanceledByEvent'
    BY <1>2, <1>6 DEF Unborn, CanceledByEvent
<1>11. WillTell'
  <2> SUFFICES ASSUME ~clashed', ~died', NEW p \in People, NEW d \in Dates
               PROVE  Told(p, d)' \/ \E n \in Organizers : Telling(n, d)'
      BY DEF WillTell
  <2>1. CASE d = this
    <3>1. Truthful(m, this)
        BY <1>1, <1>2, <1>4 DEF SaysTrue
    <3>2. response[p][this] \in {"GOING", "MAYBE"} => mail'[p][this] = word
        BY <1>8 DEF WhoHear
    <3> QED BY <1>1, <1>2, <1>3, <2>1, <3>1, <3>2 DEF Told, Truthful
  <2>2. CASE d # this
    <3>1. Told(p, d) => Told(p, d)'
        BY <1>2, <1>8, <2>2 DEF Told
    <3>2. ASSUME NEW n \in Organizers, Telling(n, d) PROVE Telling(m, d)'
      <4>1. n = m
          BY <1>2, <1>7, <3>2 DEF Telling, Writing
      <4> QED BY <1>5, <1>7, <2>2, <3>2, <4>1 DEF Telling
    <3> QED BY <1>2, <3>1, <3>2 DEF WillTell
  <2> QED BY <2>1, <2>2
<1>12. SaysTrue'
  <2> SUFFICES ASSUME ~clashed', NEW n \in Organizers, NEW d \in req'[n].todo, req'[n].step = "tell"
               PROVE  Truthful(n, d)'
      BY DEF SaysTrue
  <2>1. n = m
      BY <1>7 DEF Writing
  <2>2. /\ ~req[m].saves /\ d \in req[m].todo /\ r.says = req[m].says
      BY <1>5, <1>7, <2>1
  <2>3. Truthful(m, d)
      BY <1>2, <2>2 DEF SaysTrue
  <2> QED BY <1>2, <1>7, <2>1, <2>2, <2>3 DEF Truthful
<1>13. EventAsRead'
  <2> SUFFICES ASSUME ~clashed', NEW n \in Organizers, Writing(n)'
               PROVE  /\ req'[n].step \in {"save", "tell"}
                      /\ req'[n].saves =>
                            event' = IF req'[n].says = "CANCELED" THEN "CANCELED" ELSE "PUBLISHED"
      BY DEF EventAsRead, Writing
  <2>1. n = m
      BY <1>7
  <2>2. r.step # "idle"
      BY <1>7, <2>1 DEF Writing
  <2>3. r.step \in {"save", "tell"} /\ r.saves = req[m].saves /\ r.says = req[m].says
      BY <1>5, <2>2
  <2> QED BY <1>2, <1>7, <2>1, <2>3 DEF EventAsRead
<1>14. Standing'
  <2> SUFFICES ASSUME ~clashed', ~died', ~detour', event' # "CANCELED", NEW d \in Rows \ edited,
                      date[d].status = "CANCELED", ~Ended(d)
               PROVE  \E n \in Organizers : Restoring(n, d)'
      BY <1>2 DEF Standing, Rows, Ended
  <2>1. PICK n \in Organizers : Restoring(n, d)
      BY <1>2 DEF Standing
  <2>2. n = m
      BY <1>2, <1>7, <2>1 DEF Restoring, Writing
  <2>3. req[m].saves /\ req[m].says = "ON" /\ d \in req[m].todo \ {this}
      BY <1>1, <1>2, <2>1, <2>2 DEF Restoring
  <2>4. Restoring(m, d)'
      BY <1>5, <1>7, <2>3 DEF Restoring
  <2> QED BY <2>4
<1> QED BY <1>7, <1>9, <1>10, <1>11, <1>12, <1>13, <1>14

\* The dates of the scope are moved and their status set; whoever may come is told next.
LEMMA UpdateSeriesIInv ==
  ASSUME SeriesIInv, NEW m \in Organizers, UpdateDates(m)
  PROVE  SeriesIInv'
<1> USE DEF SeriesIInv
<1>1. PICK S, this, to, s :
        /\ S = InScope(m) /\ this = [d \in Dates |-> Moved(m, d)] /\ to = req[m].to
        /\ s = [req[m] EXCEPT !.says = IF to = "CANCELED" THEN "CANCELED" ELSE "ON"]
    OBVIOUS
<1>2. PICK r : r = GoOn(s, S)
    OBVIOUS
<1>3. S \subseteq Rows /\ Rows \subseteq Dates
    BY <1>1 DEF InScope, Rows
<1>4. /\ req[m].step = "dates" /\ req' = [req EXCEPT ![m] = r]
      /\ \A d \in S : this[d] \in Days
      /\ date' = [d \in Dates |->
            IF d \in S THEN [[date[d] EXCEPT !.day = this[d]] EXCEPT !.status = to] ELSE date[d]]
      /\ edited' = edited \union S
      /\ deliberate' \subseteq deliberate \union S
      /\ UNCHANGED <<requests, clashed, event, today, response, confirming, answers, invitation,
                     links, mail, crossed, died, detour>>
    BY <1>1, <1>2, <1>3 DEF UpdateDates, Continue
<1>5. req[m] \in SeriesTask /\ TaskSound(req[m]) /\ to \in DateStatus /\ ~req[m].saves
    BY <1>1, <1>4 DEF SeriesTypes, TaskSound
<1>6. /\ s \in SeriesTask /\ ~s.saves
      /\ s.says = IF to = "CANCELED" THEN "CANCELED" ELSE "ON"
    BY <1>1, <1>5 DEF SeriesTask
<1>7. /\ r \in SeriesTask /\ TaskSound(r) /\ r.step \in {"idle", "tell"}
      /\ S = {} => r.step = "idle"
      /\ S # {} => r.step = "tell" /\ r.todo = S /\ r.saves = FALSE /\ r.says = s.says
  <2>1. S \in SUBSET Dates
      BY <1>3
  <2> QED BY <1>2, <1>6, <2>1, GoOnSound DEF SeriesTask
<1>8. Writing(m) /\ req[m].step # "invite"
    BY <1>4 DEF Writing
<1>9. /\ req' \in [Organizers -> SeriesTask] /\ (\A n \in Organizers : TaskSound(req'[n]))
      /\ req'[m] = r
      /\ ~clashed' => ~clashed /\ \A n \in Organizers \ {m} : ~Writing(n) /\ ~Writing(n)'
      /\ clashed' \in BOOLEAN
      /\ OneWriter' /\ Linked'
    BY <1>4, <1>7, <1>8, WriterTurns
<1>10. date \in [Dates -> [day : 0..Horizon, status : DateStatus, byEvent : BOOLEAN]]
    BY DEF SeriesTypes, SeriesTypeOK
<1>11. /\ date' \in [Dates -> [day : 0..Horizon, status : DateStatus, byEvent : BOOLEAN]]
       /\ \A d \in S : date'[d].day # 0 /\ date'[d].status = to
       /\ \A d \in Dates \ S : date'[d] = date[d]
  <2>1. ASSUME NEW d \in S
        PROVE  /\ date'[d] \in [day : 0..Horizon, status : DateStatus, byEvent : BOOLEAN]
               /\ date'[d].day # 0 /\ date'[d].status = to
    <3>0. this[d] \in Days
        BY <1>4, <2>1
    <3> HIDE DEF SeriesIInv
    <3>1. this[d] \in 0..Horizon /\ this[d] # 0
        BY <3>0, SeriesAssumption DEF Days
    <3>2. date'[d] = [[date[d] EXCEPT !.day = this[d]] EXCEPT !.status = to]
        BY <1>3, <1>4, <2>1
    <3>3. date[d] \in [day : 0..Horizon, status : DateStatus, byEvent : BOOLEAN]
        BY <1>3, <1>10, <2>1
    <3> QED BY <1>5, <3>1, <3>2, <3>3
  <2>2. \A d \in Dates \ S : date'[d] = date[d]
      BY <1>4
  <2>3. date' = [d \in Dates |-> date'[d]]
      BY <1>4
  <2>4. \A d \in Dates : date'[d] \in [day : 0..Horizon, status : DateStatus, byEvent : BOOLEAN]
      BY <1>10, <2>1, <2>2
  <2> QED BY <2>1, <2>2, <2>3, <2>4
<1>12. SeriesTypes'
    BY <1>3, <1>4, <1>9, <1>11 DEF SeriesTypes, SeriesTypeOK
<1>13. Unborn'
    BY <1>4, <1>8, <1>11 DEF Unborn
<1>14. CanceledByEvent'
    BY <1>4, <1>11 DEF CanceledByEvent
<1>15. \A n \in Organizers : Writing(n)' /\ ~clashed' => n = m /\ r.step = "tell"
    BY <1>7, <1>9 DEF Writing
<1>16. ~clashed' => \A n \in Organizers, d \in Dates : ~Telling(n, d) /\ ~Restoring(n, d)
  <2> SUFFICES ASSUME ~clashed', NEW n \in Organizers, NEW d \in Dates, Writing(n)
               PROVE  ~Telling(n, d) /\ ~Restoring(n, d)
      BY DEF Telling, Restoring, Writing
  <2>1. n = m
      BY <1>9
  <2> QED BY <1>4, <2>1 DEF Telling, Restoring
<1>17. WillTell'
  <2> SUFFICES ASSUME ~clashed', ~died', NEW p \in People, NEW d \in Dates
               PROVE  Told(p, d)' \/ Telling(m, d)'
      BY DEF WillTell
  <2>1. CASE d \in S
      BY <1>7, <1>9, <2>1 DEF Telling
  <2>2. CASE d \notin S
    <3>1. Told(p, d)
        BY <1>4, <1>16 DEF WillTell
    <3> QED BY <1>4, <1>11, <2>2, <3>1 DEF Told
  <2> QED BY <2>1, <2>2
<1>18. SaysTrue'
  <2> SUFFICES ASSUME ~clashed', NEW n \in Organizers, NEW d \in req'[n].todo, req'[n].step = "tell"
               PROVE  Truthful(n, d)'
      BY DEF SaysTrue
  <2>1. n = m
      BY <1>15 DEF Writing
  <2>2. d \in S /\ r.says = IF to = "CANCELED" THEN "CANCELED" ELSE "ON"
      BY <1>6, <1>7, <1>9, <2>1
  <2> QED BY <1>9, <1>11, <2>1, <2>2 DEF Truthful
<1>19. EventAsRead'
  <2> SUFFICES ASSUME ~clashed', NEW n \in Organizers, Writing(n)'
               PROVE  req'[n].step = "tell" /\ ~req'[n].saves
      BY DEF EventAsRead, Writing
  <2> QED BY <1>7, <1>9, <1>15
<1>20. Standing'
  <2> SUFFICES ASSUME ~clashed', ~died', ~detour', event' # "CANCELED", NEW d \in Rows' \ edited',
                      date'[d].status = "CANCELED"
               PROVE  Ended(d)'
      BY DEF Standing
  <2>1. d \in Dates \ S /\ date'[d] = date[d] /\ d \notin edited
      BY <1>4, <1>11 DEF Rows
  <2>2. d \in Rows
      BY <2>1 DEF Rows
  <2>3. Ended(d)
      BY <1>4, <1>16, <2>1, <2>2 DEF Standing
  <2> QED BY <1>4, <2>1, <2>3 DEF Ended
<1> QED BY <1>9, <1>12, <1>13, <1>14, <1>17, <1>18, <1>19, <1>20

\* A request that fails has written nothing; one that dies excuses what it leaves undone.
LEMMA EndSeriesIInv ==
  ASSUME SeriesIInv, NEW m \in Organizers, UpdateFails(m) \/ OrganizerDies(m)
  PROVE  SeriesIInv'
<1> USE DEF SeriesIInv
<1>1. /\ req' = [req EXCEPT ![m] = NoTask] /\ died' \in BOOLEAN /\ (died => died')
      /\ req[m].step = "dates" \/ died'
      /\ UNCHANGED <<requests, clashed, event, date, today, response, confirming, answers,
                     invitation, links, mail, crossed, detour, edited, deliberate>>
    BY DEF UpdateFails, OrganizerDies, Continue, SeriesTypes, SeriesTypeOK
<1>2. /\ req'[m] = NoTask /\ \A n \in Organizers \ {m} : req'[n] = req[n]
      /\ req' \in [Organizers -> SeriesTask] /\ \A n \in Organizers : TaskSound(req'[n])
    BY <1>1, NoTaskSound DEF SeriesTypes
<1>3. SeriesTypes'
    BY <1>1, <1>2 DEF SeriesTypes, SeriesTypeOK
<1>4. \A n \in Organizers : Writing(n)' => req'[n] = req[n] /\ Writing(n)
    BY <1>2 DEF Writing, NoTask
<1>5. Unborn' /\ OneWriter' /\ CanceledByEvent'
    BY <1>1, <1>4 DEF Unborn, OneWriter, CanceledByEvent
<1>6. \A n \in Organizers : req'[n] = req[n] => NextDate(n)' = NextDate(n)
    BY DEF NextDate
<1>7. SaysTrue' /\ EventAsRead'
    BY <1>1, <1>4, <1>6 DEF SaysTrue, EventAsRead, Truthful, Writing
<1>8. ASSUME ~died'
      PROVE  \A n \in Organizers, d \in Dates :
                /\ Telling(n, d) => Telling(n, d)'
                /\ Restoring(n, d) => Restoring(n, d)'
  <2>1. req[m].step = "dates"
      BY <1>1, <1>8
  <2> SUFFICES ASSUME NEW n \in Organizers, NEW d \in Dates, n # m
               PROVE  /\ Telling(n, d) => Telling(n, d)'
                      /\ Restoring(n, d) => Restoring(n, d)'
      BY <2>1 DEF Telling, Restoring
  <2> QED BY <1>2, <1>6 DEF Telling, Restoring
<1>9. WillTell' /\ Standing'
    BY <1>1, <1>8 DEF WillTell, Told, Standing, Rows, Ended
<1>10. Linked'
  <2> SUFFICES ASSUME ~died', NEW p \in People, NEW d \in Dates,
                      invitation[p][d].token \notin links[p][d] \union {0}
               PROVE  \E n \in Organizers :
                         /\ req'[n].step = "invite" /\ p \in req'[n].people
                         /\ req'[n].date = d /\ req'[n].token = invitation[p][d].token
      BY <1>1 DEF Linked
  <2>1. PICK n \in Organizers : /\ req[n].step = "invite" /\ p \in req[n].people
                                /\ req[n].date = d /\ req[n].token = invitation[p][d].token
      BY <1>1 DEF Linked
  <2>2. n # m
      BY <1>1, <2>1
  <2> QED BY <1>2, <2>1, <2>2
<1> QED BY <1>3, <1>5, <1>7, <1>9, <1>10

LEMMA SeriesNextIInv == SeriesIInv /\ [SeriesNext]_seriesVars => SeriesIInv'
BY PeopleSeriesIInv, CreateSeriesIInv, ReadSeriesIInv, EditSeriesIInv, ListSeriesIInv, SaveSeriesIInv,
   TellSeriesIInv, UpdateSeriesIInv, EndSeriesIInv, InviteSeriesIInv, QueueSeriesIInv DEF SeriesNext

\* Event, dates, responses, invitations, mail and everything under way hold values of their
\* types, for any number of dates, people and requests.
THEOREM EventSeriesTypes == SeriesSpec => []SeriesTypeOK
<1>1. SeriesIInv => SeriesTypeOK
    BY DEF SeriesIInv, SeriesTypes
<1> QED BY SeriesInitIInv, SeriesNextIInv, <1>1, PTL DEF SeriesSpec

\* When no request is under way, was cut short or overlapped another, whoever may come has
\* last been told what is true of the date, unless their own response is still to be
\* confirmed, or was confirmed too late or never (queue_occurrence_notice,
\* queue_confirmation, queue_due_reminders).
THEOREM EventSeriesToldTheTruth == SeriesSpec => []ToldTheTruth
<1>1. SeriesIInv => ToldTheTruth
  <2> SUFFICES ASSUME SeriesIInv, SeriesQuiet, NEW p \in People, NEW d \in Rows PROVE Told(p, d)
      BY DEF ToldTheTruth, Told
  <2>1. \A m \in Organizers : ~Telling(m, d)
      BY DEF SeriesQuiet, Telling, Writing
  <2> QED BY <2>1 DEF SeriesIInv, WillTell, SeriesQuiet, Rows
<1> QED BY SeriesInitIInv, SeriesNextIInv, <1>1, PTL DEF SeriesSpec

\* An event that is published again has all the dates its cancellation took down, except
\* those that were over or were edited, and unless it was a draft in between
\* (cancel_event, event_edit, canceled_by_event).
THEOREM EventSeriesDatesRestored == SeriesSpec => []DatesRestored
<1>1. SeriesIInv => DatesRestored
  <2> SUFFICES ASSUME SeriesIInv, SeriesQuiet, ~detour, event = "PUBLISHED", NEW d \in Rows \ edited,
                      date[d].status = "CANCELED"
               PROVE  Ended(d)
      BY DEF DatesRestored
  <2>1. \A m \in Organizers : ~Restoring(m, d)
      BY DEF SeriesQuiet, Restoring, Writing
  <2> QED BY <2>1 DEF SeriesIInv, Standing, SeriesQuiet
<1> QED BY SeriesInitIInv, SeriesNextIInv, <1>1, PTL DEF SeriesSpec

\* The newest link of an invitation, the only one that works, has been queued, unless the
\* request that made it is still at it or died (create_invitations, queue_invitation).
THEOREM EventSeriesInviteeHasLink == SeriesSpec => []InviteeHasLink
<1>1. SeriesIInv => InviteeHasLink
    BY DEF SeriesIInv, Linked, InviteeHasLink, Rows
<1> QED BY SeriesInitIInv, SeriesNextIInv, <1>1, PTL DEF SeriesSpec

(***************************************************************************)
(* EventReviews                                                            *)
(***************************************************************************)

\* Writing or deleting a review leaves its moderation alone.
LEMMA ReviewWritten ==
  ASSUME ReviewTypeOK, NEW p \in Participants, SaveReview(p) \/ DeleteReview(p)
  PROVE  /\ review' \in [Participants -> [written : BOOLEAN, deleted : BOOLEAN,
                                          status : {"VISIBLE", "REPORTED", "HIDDEN"}]]
         /\ \A q \in Participants : review'[q].status = review[q].status
<1>1. PICK row : /\ review' = [review EXCEPT ![p] = row]
                 /\ row \in [written : BOOLEAN, deleted : BOOLEAN,
                             status : {"VISIBLE", "REPORTED", "HIDDEN"}]
                 /\ row.status = review[p].status
  <2>1. CASE SaveReview(p)
    <3> DEFINE row == [[review[p] EXCEPT !.written = TRUE] EXCEPT !.deleted = FALSE]
    <3>1. /\ row \in [written : BOOLEAN, deleted : BOOLEAN, status : {"VISIBLE", "REPORTED", "HIDDEN"}]
          /\ row.status = review[p].status
        BY DEF ReviewTypeOK
    <3>2. review' = [review EXCEPT ![p] = row]
        BY <2>1 DEF SaveReview
    <3> HIDE DEF row
    <3> QED BY <3>1, <3>2
  <2>2. CASE DeleteReview(p)
    <3> DEFINE row == [review[p] EXCEPT !.deleted = TRUE]
    <3>1. /\ row \in [written : BOOLEAN, deleted : BOOLEAN, status : {"VISIBLE", "REPORTED", "HIDDEN"}]
          /\ row.status = review[p].status
        BY DEF ReviewTypeOK
    <3>2. review' = [review EXCEPT ![p] = row]
        BY <2>2 DEF DeleteReview
    <3> HIDE DEF row
    <3> QED BY <3>1, <3>2
  <2> QED BY <2>1, <2>2
<1> QED BY <1>1 DEF ReviewTypeOK

\* The reviews' values have their types whatever people, staff and the job do.
LEMMA ReviewNextTypeOK == ReviewTypeOK /\ [ReviewNext]_reviewVars => ReviewTypeOK'
<1> SUFFICES ASSUME ReviewTypeOK, [ReviewNext]_reviewVars PROVE ReviewTypeOK'
    OBVIOUS
<1> USE DEF ReviewTypeOK
<1>1. ASSUME NEW p \in Participants, \E wish \in BOOLEAN : SetCheckIn(p, wish) PROVE ReviewTypeOK'
    BY <1>1 DEF SetCheckIn
<1>2. ASSUME NEW p \in Participants, SeatLost(p) \/ DateEnds(p) PROVE ReviewTypeOK'
    BY <1>2 DEF SeatLost, DateEnds
<1>3. ASSUME NEW p \in Participants, DateMoved(p) PROVE ReviewTypeOK'
    BY <1>3, ReviewAssumption DEF DateMoved
<1>4. ASSUME NEW p \in Participants, SaveReview(p) \/ DeleteReview(p) PROVE ReviewTypeOK'
    BY <1>4, ReviewWritten DEF SaveReview, DeleteReview
<1>5. ASSUME NEW p \in Participants, ReportRead(p) PROVE ReviewTypeOK'
    BY <1>5 DEF ReportRead
<1>6. ASSUME NEW p \in Participants, ReportSave(p) PROVE ReviewTypeOK'
    BY <1>6 DEF ReportSave, Reported
<1>7. ASSUME NEW p \in Participants, NEW action \in {"HIDDEN", "RESTORED"}, Moderate(p, action)
      PROVE  ReviewTypeOK'
    BY <1>7 DEF Moderate
<1>8. CASE QueueReviewRequests
    BY <1>8 DEF QueueReviewRequests
<1>9. CASE UNCHANGED reviewVars
    BY <1>9 DEF reviewVars
<1> QED BY <1>1, <1>2, <1>3, <1>4, <1>5, <1>6, <1>7, <1>8, <1>9 DEF ReviewNext

LEMMA ReviewInitTypeOK == ReviewInit => ReviewTypeOK
BY ReviewAssumption DEF ReviewInit, ReviewTypeOK, NoReview

\* Seats, check-ins, reviews, the platform's rulings and the reports under way hold values of
\* their types, for any number of participants.
THEOREM EventReviewsTypes == ReviewSpec => []ReviewTypeOK
BY ReviewInitTypeOK, ReviewNextTypeOK, PTL DEF ReviewSpec

\* What the platform hides stays hidden until the platform restores it, whoever edits, deletes
\* or reports it, except that a report which read the review before it was hidden makes it
\* public again (report_review, moderate_review, save_review).
THEOREM EventReviewsHiddenStays == ReviewSpec => HiddenStays
<1> DEFINE Stays(p) == review[p].status = "HIDDEN" /\ review'[p].status # "HIDDEN" =>
                           ruling'[p] = "RESTORED" \/ report[p] = "VISIBLE"
<1>1. ASSUME ReviewTypeOK, [ReviewNext]_reviewVars PROVE \A p \in Participants : Stays(p)
  <2> USE <1>1 DEF ReviewTypeOK
  <2> SUFFICES ASSUME NEW q \in Participants PROVE Stays(q)
      OBVIOUS
  <2>1. CASE UNCHANGED review
      BY <2>1
  <2>2. ASSUME NEW p \in Participants, SaveReview(p) \/ DeleteReview(p) PROVE Stays(q)
      BY <2>2, ReviewWritten
  <2>3. ASSUME NEW p \in Participants, ReportSave(p) PROVE Stays(q)
      BY <2>3 DEF ReportSave, Reported
  <2>4. ASSUME NEW p \in Participants, NEW action \in {"HIDDEN", "RESTORED"}, Moderate(p, action)
        PROVE  Stays(q)
      BY <2>4 DEF Moderate
  <2>5. \/ UNCHANGED review
        \/ \E p \in Participants : SaveReview(p) \/ DeleteReview(p) \/ ReportSave(p)
                                   \/ \E action \in {"HIDDEN", "RESTORED"} : Moderate(p, action)
      BY DEF ReviewNext, SetCheckIn, SeatLost, DateEnds, DateMoved, ReportRead, QueueReviewRequests,
             reviewVars
  <2> QED BY <2>1, <2>2, <2>3, <2>4, <2>5
<1>2. ReviewTypeOK /\ [ReviewNext]_reviewVars => [\A p \in Participants : Stays(p)]_reviewVars
    BY <1>1
<1> QED BY ReviewInitTypeOK, ReviewNextTypeOK, <1>2, PTL DEF ReviewSpec, HiddenStays

(***************************************************************************)
(* PhotoAlbum                                                              *)
(*                                                                         *)
(* The cover is a photo of the album or none, whichever request saved it   *)
(* last: an edit writes the cover it read only when it is still there, and *)
(* a deletion takes the first of the photos that are left.                 *)
(***************************************************************************)

AlbumIInv == AlbumTypeOK /\ PublishedHasPhotos

\* A set of photos that is not empty has a first one.
LEMMA FirstPhoto ==
  ASSUME NEW S \in SUBSET Photos, S # {}
  PROVE  (CHOOSE p \in S : \A q \in S : p <= q) \in S
<1>1. S \in SUBSET Nat
    BY AlbumAssumption
<1>2. \E p \in S : \A q \in S : p <= q
    BY <1>1, LeastExists
<1> QED BY <1>2

LEMMA AlbumInitIInv == AlbumInit => AlbumIInv
<1>1. NoAlbum \in Albums /\ NoAlbum.cover = 0 /\ NoAlbum.status = "NONE"
    BY DEF NoAlbum, Albums
<1>2. /\ NoEdit \in [read : Albums, to : {"NONE", "DRAFT", "PUBLISHED"}]
      /\ NoRemoval \in [photo : Photos \union {0}, read : Albums,
                        step : {"idle", "row", "album", "files"}]
    BY <1>1 DEF NoEdit, NoRemoval
<1> QED BY <1>1, <1>2 DEF AlbumInit, AlbumIInv, AlbumTypeOK, PublishedHasPhotos

LEMMA AlbumEditsIInv ==
  ASSUME AlbumIInv,
         \/ AlbumCreate \/ AlbumEditSave
         \/ \E to \in {"DRAFT", "PUBLISHED"} : AlbumEditRead(to)
  PROVE  AlbumIInv'
<1> USE DEF AlbumIInv
<1>1. CASE AlbumCreate
    BY <1>1 DEF AlbumCreate, AlbumTypeOK, PublishedHasPhotos, Albums
<1>2. CASE AlbumEditSave
  <2>1. photos \subseteq Photos
      BY DEF AlbumTypeOK
  <2>2. CASE editing.read.cover \in photos \union {0}
    <3>1. /\ album' = [status |-> editing.to, cover |-> editing.read.cover]
          /\ excused' = (excused \/ (editing.to = "PUBLISHED" /\ photos = {}))
          /\ editing' = NoEdit /\ UNCHANGED <<photos, kept, uploaded, adding, removing>>
        BY <1>2, <2>2 DEF AlbumEditSave
    <3>2. album' \in Albums /\ album'.cover \in photos \union {0} /\ album'.status = editing.to
        BY <2>1, <2>2, <3>1 DEF AlbumTypeOK, Albums
    <3>3. editing' \in [read : Albums, to : {"NONE", "DRAFT", "PUBLISHED"}]
        BY <3>1 DEF NoEdit, NoAlbum, Albums
    <3>4. excused' \in BOOLEAN
        BY <3>1 DEF AlbumTypeOK
    <3> QED BY <3>1, <3>2, <3>3, <3>4 DEF AlbumTypeOK, PublishedHasPhotos
  <2>3. CASE editing.read.cover \notin photos \union {0}
      BY <1>2, <2>3 DEF AlbumEditSave, AlbumTypeOK, PublishedHasPhotos, NoEdit, NoAlbum, Albums
  <2> QED BY <2>2, <2>3
<1>3. ASSUME NEW to \in {"DRAFT", "PUBLISHED"}, AlbumEditRead(to) PROVE AlbumIInv'
    BY <1>3 DEF AlbumEditRead, AlbumTypeOK, PublishedHasPhotos
<1> QED BY <1>1, <1>2, <1>3

LEMMA AlbumUploadIInv ==
  ASSUME AlbumIInv,
         \/ UploadRead \/ \E new \in SUBSET Photos : UploadSave(new)
         \/ \E p \in Photos : CoverSet(p)
  PROVE  AlbumIInv'
<1> USE DEF AlbumIInv
<1>1. CASE UploadRead
    BY <1>1 DEF UploadRead, AlbumTypeOK, PublishedHasPhotos
<1>2. ASSUME NEW new \in SUBSET Photos, UploadSave(new) PROVE AlbumIInv'
  <2> DEFINE first == CHOOSE p \in new : \A q \in new : p <= q
  <2>1. first \in new
      BY <1>2, FirstPhoto DEF UploadSave
  <2> HIDE DEF first
  <2>2. /\ uploaded' = uploaded \union new /\ adding' = "NONE"
        /\ UNCHANGED <<editing, removing, excused>>
        /\ \/ /\ photos' = photos \union new
              /\ album' = IF adding = "covers" THEN [album EXCEPT !.cover = first] ELSE album
           \/ UNCHANGED <<photos, album>>
      BY <1>2 DEF UploadSave, first
  <2>3. AlbumTypeOK'
      BY <2>1, <2>2 DEF AlbumTypeOK, Albums
  <2>4. PublishedHasPhotos'
      BY <2>1, <2>2 DEF PublishedHasPhotos
  <2> QED BY <2>3, <2>4
<1>3. ASSUME NEW p \in Photos, CoverSet(p) PROVE AlbumIInv'
    BY <1>3 DEF CoverSet, AlbumTypeOK, PublishedHasPhotos, Albums
<1> QED BY <1>1, <1>2, <1>3

LEMMA AlbumRemovalIInv ==
  ASSUME AlbumIInv,
         \/ \E p \in Photos : PhotoDeleteRead(p)
         \/ PhotoDeleteRow \/ PhotoDeleteAlbum \/ PhotoDeleteFiles \/ RemovalDies
  PROVE  AlbumIInv'
<1> USE DEF AlbumIInv
<1>1. ASSUME NEW p \in Photos, PhotoDeleteRead(p) PROVE AlbumIInv'
  <2>1. UNCHANGED <<album, photos, uploaded, editing, adding, excused>>
      BY <1>1 DEF PhotoDeleteRead
  <2>2. removing' = [photo |-> p, read |-> album, step |-> "row"] /\ removing = NoRemoval
      BY <1>1 DEF PhotoDeleteRead
  <2>3. AlbumTypeOK'
      BY <2>1, <2>2 DEF AlbumTypeOK
  <2>4. removing.step # "album"
      BY <2>2 DEF NoRemoval
  <2> QED BY <2>1, <2>3, <2>4 DEF PublishedHasPhotos
<1>2. CASE PhotoDeleteRow
  <2>1. /\ photos' = photos \ {removing.photo}
        /\ album' = IF album.cover = removing.photo THEN [album EXCEPT !.cover = 0] ELSE album
        /\ removing' = [removing EXCEPT !.step = "album"]
        /\ UNCHANGED <<uploaded, editing, adding, excused>>
      BY <1>2 DEF PhotoDeleteRow
  <2>2. AlbumTypeOK'
      BY <2>1 DEF AlbumTypeOK, Albums
  <2>3. removing'.step = "album"
      BY <2>1 DEF AlbumTypeOK
  <2> QED BY <2>2, <2>3 DEF PublishedHasPhotos
<1>3. CASE PhotoDeleteAlbum
  <2> DEFINE cover == IF removing.read.cover # removing.photo THEN album.cover
                      ELSE IF photos = {} THEN 0 ELSE CHOOSE p \in photos : \A q \in photos : p <= q
  <2>1. cover \in photos \union {0} /\ photos \subseteq Photos
      BY FirstPhoto DEF AlbumTypeOK
  <2> HIDE DEF cover
  <2>2. /\ album' = [status |-> IF Emptied THEN "DRAFT" ELSE album.status, cover |-> cover]
        /\ excused' = (excused \/ (photos = {} /\ ~Emptied /\ album.status # removing.read.status))
        /\ removing' = [removing EXCEPT !.step = "files"]
        /\ UNCHANGED <<photos, uploaded, editing, adding>>
      BY <1>3 DEF PhotoDeleteAlbum, cover
  <2>3. album' \in Albums /\ album'.cover \in photos \union {0}
      BY <2>1, <2>2 DEF AlbumTypeOK, Albums
  <2>4. removing' \in [photo : Photos \union {0}, read : Albums, step : {"idle", "row", "album", "files"}]
      BY <2>2 DEF AlbumTypeOK
  <2>5. AlbumTypeOK'
      BY <2>2, <2>3, <2>4 DEF AlbumTypeOK
  <2>6. PublishedHasPhotos'
      BY <2>2 DEF PublishedHasPhotos, Emptied
  <2> QED BY <2>5, <2>6
<1>4. CASE PhotoDeleteFiles
    BY <1>4 DEF PhotoDeleteFiles, AlbumTypeOK, PublishedHasPhotos, NoRemoval, NoAlbum, Albums
<1>5. CASE RemovalDies
    BY <1>5 DEF RemovalDies, AlbumTypeOK, PublishedHasPhotos, NoRemoval, NoAlbum, Albums
<1> QED BY <1>1, <1>2, <1>3, <1>4, <1>5

LEMMA AlbumNextIInv == AlbumIInv /\ [AlbumNext]_albumVars => AlbumIInv'
<1>1. AlbumIInv /\ UNCHANGED albumVars => AlbumIInv'
    BY DEF AlbumIInv, AlbumTypeOK, PublishedHasPhotos, albumVars
<1> QED BY <1>1, AlbumEditsIInv, AlbumUploadIInv, AlbumRemovalIInv DEF AlbumNext

\* An album's cover is one of its photos or none, and photos that have rows were uploaded,
\* however uploads, edits and deletions overlap.
THEOREM PhotoAlbumTypes == AlbumSpec => []AlbumTypeOK
<1>1. AlbumIInv => AlbumTypeOK
    BY DEF AlbumIInv
<1> QED BY AlbumInitIInv, AlbumNextIInv, <1>1, PTL DEF AlbumSpec

\* For any number of photos: an album is public without one only while its last photo is being
\* deleted, after an edit or a deletion was overtaken, or after a deletion died.
THEOREM PhotoAlbumPublishedHasPhotos == AlbumSpec => []PublishedHasPhotos
<1>1. AlbumIInv => PublishedHasPhotos
    BY DEF AlbumIInv
<1> QED BY AlbumInitIInv, AlbumNextIInv, <1>1, PTL DEF AlbumSpec

=============================================================================
