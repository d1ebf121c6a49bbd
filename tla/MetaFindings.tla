---------------------------- MODULE MetaFindings ----------------------------
(***************************************************************************)
(* evaluateMetaFindings (meta-insights.ts): the findings made of the Meta  *)
(* signals of an organization.  A finding is its rule code.                *)
(***************************************************************************)
EXTENDS Naturals, FiniteSets

CONSTANT MinPosts           \* lowActivityMinPosts

(* A post is inside the window, before it, or has no usable timestamp.     *)
Timestamps == {"recent", "old", "unknown"}
Media == UNION {[1..n -> Timestamps] : n \in 0..3}    \* bound: the last 10

(* read: the media, or the profile, could be read; counters: Facebook      *)
(* returned a number of fans or of followers.                              *)
Signals ==
    [connected : BOOLEAN, pageSelected : BOOLEAN, instagramLinked : BOOLEAN,
     mediaRead : BOOLEAN, media : Media, profileRead : BOOLEAN, counters : BOOLEAN]

Count(media, stamps) == Cardinality({i \in DOMAIN media : media[i] \in stamps})

(* Mutant: unknown counts as old.                                          *)
LowKnownActivity(media) == Count(media, {"recent"}) < MinPosts

(* countPostsWithinWindow: an unknown timestamp counts in the best case.   *)
LowActivity(media) ==
    Count(media, {"recent"}) + Count(media, {"unknown"}) < MinPosts

MediaFindings(s) ==
    IF ~s.instagramLinked THEN {"META_INSTAGRAM_NOT_LINKED"}
    ELSE IF ~s.mediaRead THEN {}
    ELSE IF DOMAIN s.media = {} THEN {"META_NO_RECENT_MEDIA"}
    ELSE IF LowActivity(s.media) THEN {"META_LOW_RECENT_ACTIVITY"}
    ELSE {}

EvaluateMetaFindings(s) ==
    IF ~s.connected THEN {}
    ELSE IF ~s.pageSelected THEN {"META_PAGE_NOT_SELECTED"}
    ELSE MediaFindings(s)
           \cup (IF s.profileRead /\ ~s.counters
                   THEN {"META_PROFILE_DATA_INCOMPLETE"} ELSE {})

Inputs == [signals : Signals]

(* What the unknown timestamps may be.                                     *)
Possible(media) ==
    {m \in [DOMAIN media -> {"recent", "old"}] :
       \A i \in DOMAIN media : media[i] # "unknown" => m[i] = media[i]}

(* A finding about the posts is true of every way the unknown timestamps   *)
(* may be: nothing is reported that was not observed.                      *)
NothingInvented(input) ==
    LET s == input.signals  IN
    EvaluateMetaFindings(s) \cap {"META_NO_RECENT_MEDIA", "META_LOW_RECENT_ACTIVITY"} # {} =>
      /\ s.connected /\ s.pageSelected /\ s.instagramLinked /\ s.mediaRead
      /\ \A m \in Possible(s.media) : Count(m, {"recent"}) < MinPosts

=============================================================================
