-------------------------- MODULE EnrichmentSources --------------------------
(***************************************************************************)
(* What the Enrichment Agent thinks of a url before it spends a fetch on   *)
(* it: the structural filter, the operator's policy and the score.  A host *)
(* is the sequence of its labels from the top level down (so a domain's    *)
(* hosts are those it is a prefix of), a path the sequence of its parts,   *)
(* a text the set of its words.  Scores are in units of 1/10000.           *)
(***************************************************************************)
EXTENDS Integers, Sequences, FiniteSets, SequencesExt

LowValueHosts == {<<"com", "githubstatus">>, <<"com", "githubstatus", "www">>, <<"io", "statuspage">>}
LowValuePaths == {<<>>, <<"about">>, <<"community">>, <<"contact">>, <<"privacy">>,
                  <<"security">>, <<"support">>, <<"terms">>}
LowValueParts == {"account", "accounts", "auth", "authorize", "callback", "contact", "cookie",
                  "cookies", "donate", "login", "logout", "oauth", "privacy", "signin", "signup",
                  "status", "subscribe", "subscription", "subscriptions", "support", "terms"}
LowValueKeys == {"client_id", "redirect_uri", "scope", "state", "utm_campaign", "utm_content",
                 "utm_medium", "utm_source", "utm_term"}

\* Hundredths; of those a host is below, the first counts.
HighAuthority == <<
    [host |-> <<"org", "wikipedia", "en">>, trust |-> 90], [host |-> <<"org", "wikipedia">>, trust |-> 88],
    [host |-> <<"org", "arxiv">>, trust |-> 92], [host |-> <<"org", "arxiv", "export">>, trust |-> 92],
    [host |-> <<"org", "python", "docs">>, trust |-> 94], [host |-> <<"com", "github">>, trust |-> 80],
    [host |-> <<"org", "pypi">>, trust |-> 80]>>

SubdomainOf(host, domain) == IsStrictPrefix(domain, host)
InDomain(host, domain) == IsPrefix(domain, host)

IsLowValue(page) ==
    \/ page.scheme \notin {"http", "https"}
    \/ page.host \in LowValueHosts \/ SubdomainOf(page.host, <<"io", "statuspage">>)
    \/ page.path \in LowValuePaths
    \/ \E i \in DOMAIN page.path : page.path[i] \in LowValueParts
    \/ page.keys \cap LowValueKeys # {}

\* An empty list of domains allowed allows all; what is blocked is blocked in any case.
DomainAllowed(host, policy) ==
    /\ host # <<>>
    /\ policy.allowDomains # {} => \E d \in policy.allowDomains : InDomain(host, d)
    /\ ~\E d \in policy.blockDomains : InDomain(host, d)

\* A prefix stands for the set of the urls that begin with it.
UrlAllowed(url, policy) ==
    /\ policy.allowPrefixes # {} => url \in UNION policy.allowPrefixes
    /\ url \notin UNION policy.blockPrefixes

CandidateAllowed(url, page, policy) ==
    ~IsLowValue(page) /\ UrlAllowed(url, policy) /\ DomainAllowed(page.host, policy)

Authority(host) ==
    LET fits == {i \in DOMAIN HighAuthority : InDomain(host, HighAuthority[i].host)}
        exact == {i \in fits : HighAuthority[i].host = host}
        first == CHOOSE i \in fits : \A j \in fits : i <= j
        parent == HighAuthority[first].trust - 5
        suffix == IF Len(host) > 1 THEN host[1] ELSE ""
    IN  CASE host = <<>> -> 35
          [] exact # {} -> HighAuthority[CHOOSE i \in exact : TRUE].trust
          [] exact = {} /\ fits # {} -> IF parent > 50 THEN parent ELSE 50
          [] host # <<>> /\ fits = {} ->
                CASE suffix = "edu" -> 80 [] suffix = "gov" -> 84 [] suffix = "org" -> 62 [] OTHER -> 50

\* The share of the query's words that the candidate has, per 10000; no query is neutral.
Relevance(words, query) ==
    IF query = {} THEN 5000
    ELSE (10000 * Cardinality(query \cap words)) \div Cardinality(query)

\* 40% authority, 60% relevance.
ScoreCandidate(page, query) ==
    40 * Authority(page.host) + (6 * Relevance(page.words, query)) \div 10
=============================================================================
