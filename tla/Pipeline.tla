------------------------------ MODULE Pipeline ------------------------------
(***************************************************************************)
(* One run of the enrichment pipeline of a poll cycle (pipeline/engine.py, *)
(* base.py, provider.py and the four providers): every provider visits     *)
(* every notification in turn, asking GitHub through a request context     *)
(* that caches answers per account and URL and limits the requests.        *)
(***************************************************************************)
EXTENDS Naturals, Sequences, FiniteSets

CONSTANTS
  Accounts,    \* account ids
  Items,       \* the notifications of the cycle, in order
  MaxRequests  \* enrichment.max_requests_per_cycle

(* subject names the issue, pull request, release or check suite; two      *)
(* accounts may be notified of the same one.                               *)
Notification == [account : Accounts, thread : Nat, subject : Nat,
                 kind : {"pull", "release", "suite"},
                 missing : BOOLEAN, \* subject_url is None
                 comment : BOOLEAN] \* reason = "comment"

ASSUME PipelineAssumption == Items \in Seq(Notification) /\ MaxRequests \in Nat

Providers == <<"subject", "web", "comment", "pr">>

VARIABLES
  at,       \* the notification, the provider, and the request it has come to
  found,    \* [items -> subject_url was recovered from the thread]
  web,      \* [items -> web_url: none, the subject's page, or its branch's]
  context,  \* [items -> namespaces of the record's context]
  cache,    \* url_cache
  count     \* request_count

VARIABLES   \* history, read by the properties only
  sent,     \* requests sent to GitHub
  served,   \* [account asking, account whose token fetched the answer]
  trouble   \* [item, provider] with a request that failed, was refused or had
            \* an answer of an unexpected shape

vars == <<at, found, web, context, cache, count, sent, served, trouble>>

Positions == DOMAIN Items
Urls == {"thread", "comment", "subject", "runs"} \X Nat
Entry == [account : Accounts, url : Urls, token : Accounts, odd : BOOLEAN]

TypeOK ==
  /\ at \in [item : 1..Len(Items) + 1, provider : DOMAIN Providers, request : 1..2]
  /\ found \in [Positions -> BOOLEAN]
  /\ web \in [Positions -> {"none", "page", "branch"}]
  /\ context \in [Positions -> SUBSET {"comment", "pr"}]
  /\ cache \subseteq Entry
  /\ count \in 0..MaxRequests
  /\ sent \in Nat
  /\ served \subseteq Accounts \X Accounts
  /\ trouble \subseteq Positions \X DOMAIN Providers

Init ==
  /\ at = [item |-> 1, provider |-> 1, request |-> 1]
  /\ found = [i \in Positions |-> FALSE]
  /\ web = [i \in Positions |-> "none"]
  /\ context = [i \in Positions |-> {}]
  /\ cache = {} /\ count = 0
  /\ sent = 0 /\ served = {} /\ trouble = {}

-----------------------------------------------------------------------------
item == Items[at.item]
Known(i) == ~Items[i].missing \/ found[i]

(* A bug to exclude: answers are shared between accounts.                  *)
Scope_Global(account) == Accounts
Scope(account) == {account}

Cached(url) == {e \in cache : e.account \in Scope(item.account) /\ e.url = url}

(* get_json: a cached answer, the budget's error, or GitHub's answer.      *)
Outcomes(url) ==
  IF Cached(url) # {} THEN {IF e.odd THEN "odd" ELSE "ok" : e \in Cached(url)}
  ELSE IF count >= MaxRequests THEN {"refused"}
  ELSE {"ok", "odd", "failed"}

(* A bug to exclude: the cache is not filled.                              *)
Filled_Never(url, outcome) == cache

Filled(url, outcome) ==
  cache \cup {[account |-> item.account, url |-> url, token |-> item.account,
               odd |-> outcome = "odd"]}

(* A request that failed was sent but is not counted.                      *)
Get(url, outcome) ==
  /\ outcome \in Outcomes(url)
  /\ LET hit == Cached(url) # {}
         answered == outcome \in {"ok", "odd"}
     IN /\ cache' = IF answered /\ ~hit THEN Filled(url, outcome) ELSE cache
        /\ count' = IF answered /\ ~hit THEN count + 1 ELSE count
        /\ sent' = IF ~hit /\ outcome # "refused" THEN sent + 1 ELSE sent
        /\ served' = served \cup {<<item.account, e.token>> : e \in Cached(url)}
        /\ trouble' = IF outcome = "ok" THEN trouble ELSE trouble \cup {<<at.item, at.provider>>}

NoRequest == UNCHANGED <<cache, count, sent, served, trouble>>

(* The engine goes on with the next provider, or the next notification.    *)
NextProvider ==
  at' = IF at.provider < Len(Providers)
        THEN [at EXCEPT !.provider = @ + 1, !.request = 1]
        ELSE [item |-> at.item + 1, provider |-> 1, request |-> 1]
NextRequest == at' = [at EXCEPT !.request = 2]

(* A bug to exclude: an error ends the notification.                       *)
AfterError_Break == at' = [item |-> at.item + 1, provider |-> 1, request |-> 1]

(* An exception of a provider is recorded; the next provider runs.         *)
AfterError == NextProvider

Turn(provider) == at.item <= Len(Items) /\ Providers[at.provider] = provider

-----------------------------------------------------------------------------
(* GitHubThreadSubjectProvider.hydrate                                     *)
HydrateSubject ==
  /\ Turn("subject")
  /\ IF Known(at.item) THEN NextProvider /\ NoRequest /\ UNCHANGED found
     ELSE \E outcome \in {"ok", "odd", "failed", "refused"} :
            /\ Get(<<"thread", item.thread>>, outcome)
            /\ found' = [found EXCEPT ![at.item] = outcome = "ok"]
            /\ IF outcome \in {"ok", "odd"} THEN NextProvider ELSE AfterError
  /\ UNCHANGED <<web, context>>

SetWeb(value) == web' = [web EXCEPT ![at.item] = value]

(* GitHubWebUrlProvider.hydrate, no request: the subject's URL maps to a   *)
(* page, or nothing is known of the subject.                               *)
HydrateWebDirect ==
  /\ Turn("web")
  /\ item.kind = "pull" \/ (item.kind = "release" /\ ~Known(at.item))
  /\ IF Known(at.item) THEN SetWeb("page") ELSE UNCHANGED web
  /\ NextProvider /\ NoRequest
  /\ UNCHANGED <<found, context>>

(* _resolve_release                                                        *)
HydrateWebRelease ==
  /\ Turn("web") /\ item.kind = "release" /\ Known(at.item)
  /\ \E outcome \in {"ok", "odd", "failed", "refused"} :
       /\ Get(<<"subject", item.subject>>, outcome)
       /\ IF outcome = "ok" THEN SetWeb("page") ELSE UNCHANGED web
       /\ IF outcome \in {"ok", "odd"} THEN NextProvider ELSE AfterError
  /\ UNCHANGED <<found, context>>

(* _resolve_check_suite_from_subject_url: whatever it raises, the title is *)
(* tried next.                                                             *)
HydrateWebSuite ==
  /\ Turn("web") /\ item.kind = "suite" /\ Known(at.item) /\ at.request = 1
  /\ \E outcome \in {"ok", "odd", "failed", "refused"} :
       /\ Get(<<"subject", item.subject>>, outcome)
       /\ IF outcome = "ok" THEN SetWeb("page") /\ NextProvider
          ELSE NextRequest /\ UNCHANGED web
  /\ UNCHANGED <<found, context>>

(* _resolve_check_suite_from_title: without a matching run, or without     *)
(* budget, the branch's page; any other failure is an error.               *)
HydrateWebTitle ==
  /\ Turn("web") /\ item.kind = "suite" /\ (Known(at.item) => at.request = 2)
  /\ \E outcome \in {"ok", "odd", "failed", "refused"} :
       /\ Get(<<"runs", item.subject>>, outcome)
       /\ CASE outcome = "ok" -> SetWeb("page") /\ NextProvider
            [] outcome \in {"odd", "refused"} -> SetWeb("branch") /\ NextProvider
            [] outcome = "failed" -> AfterError /\ UNCHANGED web
  /\ UNCHANGED <<found, context>>

AddContext(name) == context' = [context EXCEPT ![at.item] = @ \cup {name}]

(* GitHubLatestCommentProvider.enrich: the thread, then its comment.       *)
EnrichComment ==
  /\ Turn("comment")
  /\ IF ~item.comment THEN NextProvider /\ NoRequest /\ UNCHANGED context
     ELSE \E outcome \in {"ok", "odd", "failed", "refused"} :
            /\ Get(<<IF at.request = 1 THEN "thread" ELSE "comment", item.thread>>, outcome)
            /\ IF outcome = "ok" /\ at.request = 2
               THEN AddContext("comment") ELSE UNCHANGED context
            /\ CASE outcome = "ok" /\ at.request = 1 -> NextRequest
                 [] outcome = "odd" \/ (outcome = "ok" /\ at.request = 2) -> NextProvider
                 [] OTHER -> AfterError
  /\ UNCHANGED <<found, web>>

(* GitHubPRStateProvider.enrich                                            *)
EnrichPR ==
  /\ Turn("pr")
  /\ IF item.kind # "pull" \/ ~Known(at.item)
     THEN NextProvider /\ NoRequest /\ UNCHANGED context
     ELSE \E outcome \in {"ok", "odd", "failed", "refused"} :
            /\ Get(<<"subject", item.subject>>, outcome)
            /\ IF outcome = "ok" THEN AddContext("pr") ELSE UNCHANGED context
            /\ IF outcome \in {"ok", "odd"} THEN NextProvider ELSE AfterError
  /\ UNCHANGED <<found, web>>

Next ==
  \/ HydrateSubject
  \/ HydrateWebDirect \/ HydrateWebRelease \/ HydrateWebSuite \/ HydrateWebTitle
  \/ EnrichComment \/ EnrichPR

Spec == Init /\ [][Next]_vars

-----------------------------------------------------------------------------
(* "a payload fetched under one account's token is never handed back to a  *)
(* request made on behalf of a different account".                         *)
OwnToken == \A pair \in served : pair[1] = pair[2]

(* An answer is paid for once per account and cycle, however many          *)
(* providers and notifications need it: the budget buys so many distinct   *)
(* answers, and no more.                                                   *)
EachAnswerPaidOnce == count = Cardinality(cache) /\ count <= MaxRequests

(* An error stays with its provider and its notification: whatever went    *)
(* wrong elsewhere, a provider whose own requests went well, with the      *)
(* subject it needs at hand, has done its work.                            *)
Fine(i, provider) ==
  \A p \in DOMAIN Providers : Providers[p] = provider => <<i, p>> \notin trouble
Completed(i) ==
  /\ Known(i) /\ Fine(i, "web") => web[i] = "page"
  /\ Items[i].comment /\ Fine(i, "comment") => "comment" \in context[i]
  /\ Items[i].kind = "pull" /\ Known(i) /\ Fine(i, "pr") => "pr" \in context[i]
ErrorsStayLocal ==
  \A i \in 1..at.item - 1 : Completed(i) /\ (Fine(i, "subject") => Known(i))

(* "Global request budget shared by providers each poll cycle": no more    *)
(* requests are sent than the budget allows.                               *)
SentWithinBudget == sent <= MaxRequests
=============================================================================
