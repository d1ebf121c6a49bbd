----------------------------- MODULE SeoScoring -----------------------------
(***************************************************************************)
(* The deterministic checks of a site audit and what is made of them: the  *)
(* findings (audit_rules.py), the SEO score (scoring.py) and the           *)
(* opportunities.  A page is the set of its defects; a rule is failed when *)
(* a page has its defect.  Wording and evidence are left out.              *)
(***************************************************************************)
EXTENDS Integers, Sequences, FiniteSets, SequencesExt

Rule(category, severity, impact, effort, confidence) ==
    [category |-> category, severity |-> severity, impact |-> impact,
     effort |-> effort, confidence |-> confidence]

(* confidence is round(10 * confidence_score).                             *)
HeadRules ==
    [title_missing            |-> Rule("technical", "high", 8, 2, 10),
     meta_description_missing |-> Rule("technical", "medium", 6, 2, 10),
     h1_missing               |-> Rule("technical", "high", 7, 2, 10),
     h1_multiple              |-> Rule("technical", "low", 4, 2, 10)]
ContentRules ==
    [canonical_missing        |-> Rule("technical", "medium", 6, 2, 10),
     noindex                  |-> Rule("technical", "high", 8, 2, 10),
     image_alt_missing        |-> Rule("content", "medium", 5, 3, 10),
     structured_data_missing  |-> Rule("ai_readiness", "medium", 6, 4, 10),
     thin_page                |-> Rule("content", "medium", 6, 4, 8)]
MobileRules ==
    [viewport_missing         |-> Rule("technical", "high", 6, 1, 10),
     html_lang_missing        |-> Rule("technical", "low", 3, 1, 10)]
HttpAccess == [http_access |-> Rule("technical", "critical", 9, 4, 10)]
DuplicateTitles == [title_duplicate |-> Rule("technical", "medium", 6, 3, 10)]
LocalRules ==
    [local_schema_missing     |-> Rule("local", "medium", 5, 3, 7),
     social_profiles_missing  |-> Rule("local", "low", 3, 1, 6)]
BusinessAddress == [business_address |-> Rule("local", "high", 7, 2, 9)]

PageRules == HeadRules @@ ContentRules @@ MobileRules
SiteRules == HttpAccess @@ DuplicateTitles @@ LocalRules @@ BusinessAddress
Performance == "pagespeed_insights"
Table == PageRules @@ SiteRules
Rules == DOMAIN Table \cup {Performance}

(* evaluate_performance: PageSpeed's score, -1 when it is unavailable.     *)
EvaluatePerformance(psi) ==
    IF psi = -1 THEN [status |-> "not_tested", rule |-> Rule("performance", "info", 0, 0, 0)]
    ELSE IF psi >= 90 THEN [status |-> "passed", rule |-> Rule("performance", "info", 0, 0, 9)]
    ELSE IF psi >= 50 THEN [status |-> "warning", rule |-> Rule("performance", "medium", 5, 3, 9)]
    ELSE [status |-> "failed", rule |-> Rule("performance", "high", 8, 3, 9)]

(* A page is [defects, title]; site.flaws are the failed checks that are   *)
(* not about one page; the address is checked when a city or a country is  *)
(* configured.                                                             *)
Duplicated(pages) ==
    \E i, j \in DOMAIN pages :
      /\ i # j /\ pages[i].title = pages[j].title
      /\ "title_missing" \notin pages[i].defects \cup pages[j].defects

Failed(site, r) ==
    \/ r \in DOMAIN PageRules /\ \E i \in DOMAIN site.pages : r \in site.pages[i].defects
    \/ r = "title_duplicate" /\ Duplicated(site.pages)
    \/ r \in DOMAIN SiteRules \ {"title_duplicate"} /\ r \in site.flaws

StatusOf(site, r) ==
    IF r = Performance THEN EvaluatePerformance(site.psi).status
    ELSE IF r = "business_address" /\ ~site.localContext THEN "not_tested"
    ELSE IF Failed(site, r) THEN "failed" ELSE "passed"

RuleOf(site, r) ==
    IF r = Performance THEN EvaluatePerformance(site.psi).rule ELSE Table[r]

(* evaluate_site_audit: a finding that did not fail carries no severity.   *)
Issues(site) == {r \in Rules : StatusOf(site, r) \in {"failed", "warning"}}

SeverityWeights == [info |-> 0, low |-> 8, medium |-> 14, high |-> 22, critical |-> 30]
AtLeast(x, low) == IF x > low THEN x ELSE low
AtMost(x, high) == IF x < high THEN x ELSE high
Clamp(x, low) == AtLeast(AtMost(x, 100), low)

PriorityScore(rule) ==
    Clamp(SeverityWeights[rule.severity] + rule.impact * 6 + rule.confidence
            - AtLeast(rule.effort - 1, 0) * 3, 1)

(***************************************************************************)
(* compute_seo_score_v2.  Weights in twentieths; ai_readiness has none.    *)
(***************************************************************************)
CategoryWeights == [technical |-> 6, content |-> 5, local |-> 5, performance |-> 4]
Categories == DOMAIN CategoryWeights
(* Mutant: a passed check does not measure its axis.                       *)
FailingStatuses == {"warning", "failed"}

TestedStatuses == {"passed", "warning", "failed"}

Tested(site, category) ==
    {r \in Rules : RuleOf(site, r).category = category
                     /\ StatusOf(site, r) \in TestedStatuses}

Measured(site) == {c \in Categories : Tested(site, c) # {}}

CategoryScore(site, c) ==
    Clamp(100 - MapThenSumSet(LAMBDA r : SeverityWeights[RuleOf(site, r).severity],
                              Tested(site, c) \cap Issues(site)), 0)

(* Python's round: a half goes to the even neighbour.  The weights are     *)
(* floating-point numbers in the code; their error is left out.            *)
Rounded(a, b) ==
    LET q == a \div b  r == 2 * (a % b) IN
    IF r > b \/ (r = b /\ q % 2 = 1) THEN q + 1 ELSE q

Unmeasured == -1        \* globalScore null

GlobalScore(site) ==
    IF Measured(site) = {} THEN Unmeasured
    ELSE
    Rounded(MapThenSumSet(LAMBDA c : CategoryScore(site, c) * CategoryWeights[c],
                          Measured(site)),
            MapThenSumSet(LAMBDA c : CategoryWeights[c], Measured(site)))

(***************************************************************************)
(* findings_to_opportunities: the five issues of the highest priority, in  *)
(* the order of the rules for equal ones (Python's sort is stable).        *)
(***************************************************************************)
Order ==
    <<"http_access", "title_missing", "meta_description_missing", "h1_missing",
      "h1_multiple", "canonical_missing", "noindex", "image_alt_missing",
      "structured_data_missing", "thin_page", "title_duplicate", "viewport_missing",
      "html_lang_missing", "business_address", "local_schema_missing",
      "social_profiles_missing", Performance>>
Position(s, x) == CHOOSE i \in DOMAIN s : s[i] = x
Limit == 5
Before(site, p, q) ==
    LET x == RuleOf(site, p)  y == RuleOf(site, q) IN
    \/ PriorityScore(x) > PriorityScore(y)
    \/ /\ PriorityScore(x) = PriorityScore(y)
       /\ x.confidence > y.confidence \/ (/\ x.confidence = y.confidence
                                               /\ Position(Order, p) < Position(Order, q))

FindingsToOpportunities(site) ==
    {r \in Issues(site) : Cardinality({p \in Issues(site) : Before(site, p, r)}) < Limit}

(***************************************************************************)
(* Bounded inputs: sites of one or two pages with up to two defects on the *)
(* first, or all of them.                                                  *)
(***************************************************************************)
Clean == [defects |-> {}, title |-> "b"]
FirstPages ==
    [defects : {{}, DOMAIN PageRules} \cup {{d, e} : d, e \in DOMAIN PageRules},
     title : {"a"}]
Sites ==
    [pages : {<<p>> : p \in FirstPages} \cup {<<p, Clean>> : p \in FirstPages}
               \cup {<<p, [Clean EXCEPT !.title = "a"]>> : p \in FirstPages},
     flaws : {{}, {"http_access"}, {"business_address", "local_schema_missing"}},
     localContext : BOOLEAN, psi : {-1, 40, 90}]

Inputs == [site : Sites]

(* The sites with one defect less; a title that is added is left out, since*)
(* it may repeat that of the other page, which is a defect of its own.     *)
Repairs(site) ==
    {[site EXCEPT !.pages[1].defects = @ \ {d}] :
       d \in site.pages[1].defects \ {"title_missing"}}
      \cup {[site EXCEPT !.flaws = @ \ {f}] : f \in site.flaws}

(* Repairing something never lowers the score, nor takes an issue that     *)
(* remains out of the five that are shown: a check that passes still       *)
(* measures its axis, and what is not tested neither rewards nor punishes. *)
RepairingHelps(input) ==
    \A better \in Repairs(input.site) :
      /\ GlobalScore(input.site) <= GlobalScore(better)
      /\ FindingsToOpportunities(input.site) \cap Issues(better)
           \subseteq FindingsToOpportunities(better)

=============================================================================
