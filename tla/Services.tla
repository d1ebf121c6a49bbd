------------------------------ MODULE Services ------------------------------
(***************************************************************************)
(* The services around the automations: the integrations with Google and   *)
(* Meta, the Orange Digital Center, the execution reports, the audits, the *)
(* crawl of a site, the billing, the passwords and the automations'        *)
(* actions.  They share no rows: each is its module over variables of its  *)
(* own, and a step of the whole is a step of one of them.                  *)
(***************************************************************************)
EXTENDS Integers, FiniteSets

CONSTANTS
    Calls,              \* calls of one service in progress at a time
    Requests, Crons,    \* of GbpConnection
    Accounts, Names, Lease, Cooldown, Backoff, StaleAfter, Expiry, CacheTtl,
    WebSites, SitesOf, Days, Users, Pages, PagesOf, WithInstagram,
    FormFields, DocTypes, Criteria, Required, Weight, ScorePoints, Candidates,
    Keys, AuditRules, Urls, StartUrl, Excluded, MaxPages, MaxDepth, VisitedCap,
    Subscriptions, Tokens, MaxAttempts,
    MaxCallbacks,       \* assumption of GbpConnection
    MaxConnections, MaxLocations, MaxFiles, MaxMails, MaxRows, MaxFaults,
    None

VARIABLES
    profile, mirror, syncing, profiles, dropped, overtaken,
    account, location, reviews, reading, locations, outrun,
    console, metrics, querying, consoles,
    facebook, selecting,
    status, answers, documents, missing, decided, history, deciding,
    lines, totals, summary, terminal, scoring,
    slots, stored, written, upload, sweep, exposed, faults,
    order, invitation, mails, crossed, sending, lost,
    item, events, reports, reporting,
    audit, event, runner, seo, found, actions, overlapped, generating,
    queue, visited, pages, failed, links,
    row, stripe, checkouts, webhooks, opening,
    tokens, version, resets, sessions, asking,
    rows, step, input, doubled, attempting

Gbp == INSTANCE GbpConnection
         WITH conn <- profile, call <- syncing, created <- profiles,
              faults <- dropped, outdated <- overtaken
Reviews == INSTANCE GbpReviews
             WITH call <- reading, created <- locations, outdated <- outrun
Gsc == INSTANCE SearchConsole
         WITH Sites <- WebSites, conn <- console, call <- querying,
              created <- consoles
Meta == INSTANCE MetaPages WITH conn <- facebook, call <- selecting
Applications == INSTANCE OdcApplications
                  WITH Fields <- FormFields, call <- deciding
Scores == INSTANCE OdcScores WITH Points <- ScorePoints, call <- scoring
Documents == INSTANCE OdcDocuments WITH call <- upload
Outreach == INSTANCE OdcOutreach
              WITH status <- invitation, call <- sending, faults <- lost
Execution == INSTANCE ActionExecution WITH call <- reporting
Audits == INSTANCE AuditOpportunities
            WITH Rules <- AuditRules, call <- generating
Crawl == INSTANCE Crawler
Subscription == INSTANCE Billing WITH sessions <- checkouts, call <- opening
Password == INSTANCE PasswordReset WITH call <- asking
Ops == INSTANCE OpsActions WITH overlapped <- doubled, call <- attempting

(* The sets are finite, the bounds are numbers, null is none of the values,*)
(* data are stale before they expire, and callbacks do not overlap.        *)
ASSUME ServicesAssumption ==
    /\ \A S \in {Requests \cup Crons, Candidates, Keys, AuditRules, Tokens,
                 Calls} :
         IsFiniteSet(S) /\ None \notin S
    /\ {MaxConnections, MaxLocations, MaxFiles, MaxMails, MaxRows, MaxFaults,
        MaxAttempts, MaxPages, MaxDepth, StaleAfter, Expiry, CacheTtl}
         \subseteq Nat
    /\ None \notin Accounts /\ None \notin ScorePoints
    /\ None \notin Applications!Statuses \cup Gbp!Connections
                    \cup Gsc!Connections \cup Reviews!Locations
    /\ Required \subseteq Criteria
    /\ StartUrl \in Urls
    /\ SitesOf \in [Accounts -> SUBSET WebSites]
    /\ StaleAfter < Expiry
    /\ MaxCallbacks = 1

(* The variables of each service, as its module orders them.               *)
gbpVars == <<profile, mirror, syncing, profiles, dropped, overtaken>>
reviewsVars == <<account, location, reviews, reading, locations, outrun>>
gscVars == <<console, metrics, querying, consoles>>
metaVars == <<facebook, selecting>>
applicationsVars ==
    <<status, answers, documents, missing, decided, history, deciding>>
scoresVars == <<lines, totals, summary, terminal, scoring>>
documentsVars == <<slots, stored, written, upload, sweep, exposed, faults>>
outreachVars == <<order, invitation, mails, crossed, sending, lost>>
executionVars == <<item, events, reports, reporting>>
auditsVars ==
    <<audit, event, runner, seo, found, actions, overlapped, generating>>
crawlVars == <<queue, visited, pages, failed, links>>
subscriptionVars == <<row, stripe, checkouts, webhooks, opening>>
passwordVars == <<tokens, version, resets, sessions, asking>>
opsVars == <<rows, step, input, doubled, attempting>>

services ==
    <<gbpVars, reviewsVars, gscVars, metaVars, applicationsVars, scoresVars,
      documentsVars, outreachVars, executionVars, auditsVars,
      crawlVars, subscriptionVars, passwordVars, opsVars>>

Components ==
    {"profile", "reviews", "console", "meta", "applications", "scores",
     "documents", "outreach", "execution", "audits", "crawl", "billing",
     "passwords", "actions"}

Init ==
    /\ Gbp!Init /\ Reviews!Init /\ Gsc!Init /\ Meta!Init
    /\ Applications!Init /\ Scores!Init /\ Documents!Init /\ Outreach!Init
    /\ Execution!Init /\ Audits!Init /\ Crawl!Init /\ Subscription!Init
    /\ Password!Init /\ Ops!Init

(* A step of one service leaves the others alone.                          *)
Step(service) ==
    /\ IF service = "console" THEN Gsc!Next ELSE UNCHANGED gscVars
    /\ IF service = "meta" THEN Meta!Next ELSE UNCHANGED metaVars
    /\ IF service = "applications"
       THEN Applications!Next ELSE UNCHANGED applicationsVars
    /\ IF service = "scores" THEN Scores!Next ELSE UNCHANGED scoresVars
    /\ IF service = "documents"
       THEN Documents!Next ELSE UNCHANGED documentsVars
    /\ IF service = "outreach" THEN Outreach!Next ELSE UNCHANGED outreachVars
    /\ IF service = "execution"
       THEN Execution!Next ELSE UNCHANGED executionVars
    /\ IF service = "audits" THEN Audits!Next ELSE UNCHANGED auditsVars
    /\ IF service = "crawl" THEN Crawl!Next ELSE UNCHANGED crawlVars
    /\ IF service = "billing"
       THEN Subscription!Next ELSE UNCHANGED subscriptionVars
    /\ IF service = "passwords"
       THEN Password!Next ELSE UNCHANGED passwordVars
    /\ IF service = "actions" THEN Ops!Next ELSE UNCHANGED opsVars
    /\ IF service = "profile" THEN Gbp!Next ELSE UNCHANGED gbpVars
    /\ IF service = "reviews" THEN Reviews!Next ELSE UNCHANGED reviewsVars

Next == \E service \in Components : Step(service)

Spec == Init /\ [][Next]_services

(***************************************************************************)
(* Properties: those of the modules, named there.                          *)
(***************************************************************************)
(* Every variable of every service is of its type.                         *)
TypeOK ==
    /\ Gbp!TypeOK /\ Reviews!TypeOK /\ Gsc!TypeOK /\ Meta!TypeOK
    /\ Applications!TypeOK /\ Scores!TypeOK /\ Documents!TypeOK
    /\ Outreach!TypeOK /\ Execution!TypeOK /\ Audits!TypeOK
    /\ Crawl!TypeOK /\ Subscription!TypeOK /\ Password!TypeOK /\ Ops!TypeOK

(* What is shown of a Business Profile connection is of one account, as    *)
(* fresh as the signal of the audits says, and never a result that another *)
(* write overtook.                                                         *)
MirrorOfAccount ==
    /\ [](Gbp!OneAccount /\ Gbp!SignalIsTrue)
    /\ Gbp!NothingOutdatedCommits

(* Reviews, Search Console metrics and Pages are read with the access of   *)
(* the account they are shown under, and no result another one overtook is *)
(* kept.                                                                   *)
ReadForItsOwner ==
    /\ [](/\ Reviews!ReadByOwner /\ Reviews!AggregateWithReviews
          /\ Gsc!MetricsOfConnection /\ Meta!OnePage)
    /\ Reviews!NothingOutdatedIsAccepted

(* A candidature under review is complete, its history explains it, and    *)
(* its totals are never partial.                                           *)
CandidatureIsExplained ==
    /\ Applications!ReviewedHasDocuments
    /\ Applications!HistoryExplainsStatus
    /\ Scores!TotalIsNeverPartial

(* Files match rows whatever fails between the two, and candidates are     *)
(* written to one by one.                                                  *)
OneFileOneMail == Documents!FilesMatchRows /\ Outreach!OneByOne

(* What comes again counts once: a repeated report, an audit that is run   *)
(* again, a page that is linked again, a step that is retried.             *)
CountedOnce ==
    /\ Execution!ReportsCountOnce
    /\ Audits!AnnouncedIsCompleted /\ Audits!GeneratedOnce
    /\ Crawl!NearestFirst
    /\ Ops!ReplayIsHarmless

(* Paid access was reported by Stripe, and a reset ends every session.     *)
AccessIsJustified ==
    Subscription!PaidAccessWasReported /\ Password!ResetEndsSessions

=============================================================================
