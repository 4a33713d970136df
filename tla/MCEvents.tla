------------------------------ MODULE MCEvents ------------------------------
(* Three components that share no row the properties are about, each with the *)
(* state space to itself: an event and its dates, reviews, an album.          *)
EXTENDS EventSeries, EventReviews, PhotoAlbum, TLC

VARIABLE part

OneDate == {[status |-> "PUBLISHED", first |-> 2, gap |-> 1, until |-> 2]}

\* Two dates, one date, and a plan that is refused.
MCPlans == OneDate \union
           {[status |-> "PUBLISHED", first |-> 2, gap |-> 1, until |-> 3],
            [status |-> "PUBLISHED", first |-> 1, gap |-> 1, until |-> 3]}

\* One answer if there are several dates.
AnswersBounded == Cardinality(Rows') > 1 => answers' <= 1

MCForms == {[by |-> 0, scope |-> "one", status |-> "CANCELED"],
            [by |-> 1, scope |-> "future", status |-> "SCHEDULED"],
            [by |-> -1, scope |-> "all", status |-> "ARCHIVED"]}

OneForm == {[by |-> 0, scope |-> "one", status |-> status] : status \in {"SCHEDULED", "CANCELED"}}

MCInit ==
    /\ SeriesInit /\ ReviewInit /\ AlbumInit
    /\ part \in {"series", "reviews", "album"}

MCNext ==
    /\ UNCHANGED part
    /\ \/ part = "series" /\ SeriesNext /\ AnswersBounded /\ UNCHANGED <<reviewVars, albumVars>>
       \/ part = "reviews" /\ ReviewNext /\ UNCHANGED <<seriesVars, albumVars>>
       \/ part = "album" /\ AlbumNext /\ UNCHANGED <<seriesVars, reviewVars>>

mcVars == <<part, seriesVars, reviewVars, albumVars>>

MCSpec ==
    /\ MCInit /\ [][MCNext]_mcVars
    /\ WF_mcVars(part = "reviews" /\ QueueReviewRequests
                 /\ UNCHANGED <<part, seriesVars, albumVars>>)

TypeOK == SeriesTypeOK /\ ReviewTypeOK /\ AlbumTypeOK

=============================================================================
