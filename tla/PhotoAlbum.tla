---------------------------- MODULE PhotoAlbum ----------------------------
(***************************************************************************)
(* The photo album of a date that is over: its status and cover, the rows  *)
(* of its photos and their files in the storage.  Managers edit it, upload *)
(* and delete photos in requests that read the album first and save what   *)
(* follows from it later, each step committed on its own.                  *)
(*                                                                         *)
(* Sources: events/views.py, forms.py, models.py.  Titles, captions and    *)
(* positions are left out.                                                 *)
(***************************************************************************)
EXTENDS Naturals, FiniteSets

CONSTANT Photos     \* 1..n: photos ever uploaded

ASSUME AlbumAssumption == Photos \subseteq Nat \ {0}

VARIABLES
    album,      \* EventAlbum: status (NONE: no row), cover (0: none)
    photos,     \* EventPhoto rows of the album
    kept,       \* photos whose files are in the storage
    uploaded,   \* photos uploaded so far
    editing,    \* album_edit: the album as read, the status to be saved
    adding,     \* album_photo_upload: is there no cover, as read
    removing,   \* album_photo_delete: the photo, the album as read, what comes next
    excused     \* for the properties: an edit was overtaken, or a deletion cut short

albumVars == <<album, photos, kept, uploaded, editing, adding, removing, excused>>

Albums == [status : {"NONE", "DRAFT", "PUBLISHED"}, cover : Photos \union {0}]
NoAlbum == [status |-> "NONE", cover |-> 0]
NoEdit == [read |-> NoAlbum, to |-> "NONE"]
NoRemoval == [photo |-> 0, read |-> NoAlbum, step |-> "idle"]

AlbumInit ==
    /\ album = NoAlbum
    /\ photos = {} /\ kept = {} /\ uploaded = {}
    /\ editing = NoEdit /\ adding = "NONE" /\ removing = NoRemoval
    /\ excused = FALSE

\* album_create
AlbumCreate ==
    /\ album = NoAlbum
    /\ album' = [status |-> "DRAFT", cover |-> 0]
    /\ UNCHANGED <<photos, kept, uploaded, editing, adding, removing, excused>>

\* album_edit reads the album; EventAlbumEditForm publishes none without photos ...
AlbumEditRead(to) ==
    /\ album # NoAlbum /\ editing = NoEdit
    /\ to = "PUBLISHED" => photos # {}
    /\ editing' = [read |-> album, to |-> to]
    /\ UNCHANGED <<album, photos, kept, uploaded, adding, removing, excused>>

\* ... and every column is saved, the cover as it was read; a cover that is gone by now
\* violates the foreign key.
AlbumEditSave ==
    /\ editing # NoEdit
    /\ IF editing.read.cover \in photos \union {0}
       THEN /\ album' = [status |-> editing.to, cover |-> editing.read.cover]
            /\ excused' = (excused \/ (editing.to = "PUBLISHED" /\ photos = {}))
       ELSE UNCHANGED <<album, excused>>
    /\ editing' = NoEdit
    /\ UNCHANGED <<photos, kept, uploaded, adding, removing>>

\* album_photo_upload reads the album ...
UploadRead ==
    /\ album # NoAlbum /\ adding = "NONE"
    /\ adding' = IF album.cover = 0 THEN "covers" ELSE "adds"
    /\ UNCHANGED <<album, photos, kept, uploaded, editing, removing, excused>>

\* ... writes the files and the rows, and makes the first photo the cover if there was
\* none; when it fails, the files stay.
UploadSave(new) ==
    /\ adding # "NONE" /\ new # {} /\ new \intersect uploaded = {}
    /\ uploaded' = uploaded \union new
    /\ kept' = kept \union new
    /\ \/ /\ photos' = photos \union new
          /\ album' = IF adding = "covers"
                      THEN [album EXCEPT !.cover = CHOOSE p \in new : \A q \in new : p <= q] ELSE album
       \/ UNCHANGED <<photos, album>>
    /\ adding' = "NONE"
    /\ UNCHANGED <<editing, removing, excused>>

\* album_cover_set
CoverSet(p) ==
    /\ p \in photos
    /\ album' = [album EXCEPT !.cover = p]
    /\ UNCHANGED <<photos, kept, uploaded, editing, adding, removing, excused>>

\* album_photo_delete reads the album and the photo ...
PhotoDeleteRead(p) ==
    /\ p \in photos /\ removing = NoRemoval
    /\ removing' = [photo |-> p, read |-> album, step |-> "row"]
    /\ UNCHANGED <<album, photos, kept, uploaded, editing, adding, excused>>

\* ... deletes the row, which leaves an album whose cover it was without one ...
PhotoDeleteRow ==
    /\ removing.step = "row"
    /\ photos' = photos \ {removing.photo}
    /\ album' = IF album.cover = removing.photo THEN [album EXCEPT !.cover = 0] ELSE album
    /\ removing' = [removing EXCEPT !.step = "album"]
    /\ UNCHANGED <<kept, uploaded, editing, adding, excused>>

\* Mutant: an emptied album stays as it is.
NeverEmptied == FALSE
Emptied == removing.read.status = "PUBLISHED" /\ photos = {}

\* ... gives the album the first of the photos left as its cover, takes one that was
\* published and is empty back to DRAFT ...
PhotoDeleteAlbum ==
    /\ removing.step = "album"
    /\ LET cover == IF removing.read.cover # removing.photo THEN album.cover
                    ELSE IF photos = {} THEN 0 ELSE CHOOSE p \in photos : \A q \in photos : p <= q
       IN  album' = [status |-> IF Emptied THEN "DRAFT" ELSE album.status, cover |-> cover]
    /\ excused' = (excused \/ (photos = {} /\ ~Emptied /\ album.status # removing.read.status))
    /\ removing' = [removing EXCEPT !.step = "files"]
    /\ UNCHANGED <<photos, kept, uploaded, editing, adding>>

\* ... and removes the files.
PhotoDeleteFiles ==
    /\ removing.step = "files"
    /\ kept' = kept \ {removing.photo}
    /\ removing' = NoRemoval
    /\ UNCHANGED <<album, photos, uploaded, editing, adding, excused>>

RemovalDies ==
    /\ removing # NoRemoval
    /\ removing' = NoRemoval
    /\ excused' = (excused \/ removing.step = "album")
    /\ UNCHANGED <<album, photos, kept, uploaded, editing, adding>>

AlbumNext ==
    \/ AlbumCreate
    \/ \E to \in {"DRAFT", "PUBLISHED"} : AlbumEditRead(to)
    \/ AlbumEditSave \/ UploadRead
    \/ \E new \in SUBSET Photos : UploadSave(new)
    \/ \E p \in Photos : CoverSet(p) \/ PhotoDeleteRead(p)
    \/ PhotoDeleteRow \/ PhotoDeleteAlbum \/ PhotoDeleteFiles \/ RemovalDies

AlbumSpec == AlbumInit /\ [][AlbumNext]_albumVars

-----------------------------------------------------------------------------
(* Properties *)

AlbumTypeOK ==
    /\ album \in Albums /\ album.cover \in photos \union {0}
    /\ photos \subseteq uploaded /\ uploaded \subseteq Photos
    /\ editing \in [read : Albums, to : {"NONE", "DRAFT", "PUBLISHED"}]
    /\ adding \in {"NONE", "covers", "adds"}
    /\ removing \in [photo : Photos \union {0}, read : Albums, step : {"idle", "row", "album", "files"}]
    /\ excused \in BOOLEAN

\* "Deleting the last one must enforce the same rule": no album is public without a
\* photo, but while its last one is being deleted, or after an edit or a deletion that
\* read the album before the other saved it, or a deletion that died.
PublishedHasPhotos ==
    album.status = "PUBLISHED" /\ photos = {} => removing.step = "album" \/ excused

=============================================================================
