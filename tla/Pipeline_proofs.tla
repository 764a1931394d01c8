--------------------------- MODULE Pipeline_proofs ---------------------------
(***************************************************************************)
(* What one run of the enrichment pipeline guarantees for any list of      *)
(* notifications, any accounts and any budget.                             *)
(***************************************************************************)
EXTENDS Pipeline, FiniteSetTheorems, TLAPS

(* What the shared context keeps true of its cache and its counter.        *)
BudgetOK ==
  /\ cache \subseteq Entry /\ IsFiniteSet(cache)
  /\ \A e \in cache : e.token = e.account
  /\ count = Cardinality(cache) /\ count \in 0..MaxRequests
  /\ sent \in Nat
  /\ served \subseteq Accounts \X Accounts /\ OwnToken
  /\ trouble \subseteq Positions \X DOMAIN Providers

(* What the providers leave behind.                                        *)
ShapeOK ==
  /\ at \in [item : 1..Len(Items) + 1, provider : 1..4, request : 1..2]
  /\ found \in [Positions -> BOOLEAN]
  /\ web \in [Positions -> {"none", "page", "branch"}]
  /\ context \in [Positions -> SUBSET {"comment", "pr"}]

(* The providers before the one whose turn it is have done their work.     *)
SoFar(i, provider) ==
  /\ provider > 1 /\ <<i, 1>> \notin trouble => Known(i)
  /\ provider > 2 /\ Known(i) /\ <<i, 2>> \notin trouble => web[i] = "page"
  /\ provider > 3 /\ Items[i].comment /\ <<i, 3>> \notin trouble => "comment" \in context[i]
  /\ provider > 4 /\ Items[i].kind = "pull" /\ Known(i) /\ <<i, 4>> \notin trouble
       => "pr" \in context[i]

WorkOK ==
  /\ \A i \in 1..at.item - 1 : SoFar(i, 5)
  /\ at.item <= Len(Items) => SoFar(at.item, at.provider)

IInv == ShapeOK /\ BudgetOK /\ WorkOK

(* The facts about the constants the proofs use.                           *)
LEMMA ItemFacts ==
  /\ Len(Items) \in Nat /\ Positions = 1..Len(Items)
  /\ \A i \in Positions : Items[i] \in Notification
BY PipelineAssumption DEF Positions

LEMMA ProviderFacts ==
  /\ DOMAIN Providers = 1..4 /\ Len(Providers) = 4
  /\ Providers[1] = "subject" /\ Providers[2] = "web"
  /\ Providers[3] = "comment" /\ Providers[4] = "pr"
BY DEF Providers

(* get_json leaves the context consistent, whatever GitHub answers, and    *)
(* notes every answer that was not plainly good.                           *)
LEMMA GetKeeps ==
  ASSUME ShapeOK, BudgetOK, at.item <= Len(Items), NEW url \in Urls,
         NEW outcome \in {"ok", "odd", "failed", "refused"}, Get(url, outcome)
  PROVE  BudgetOK' /\ trouble' = IF outcome = "ok" THEN trouble
                                 ELSE trouble \cup {<<at.item, at.provider>>}
<1> DEFINE new == [account |-> item.account, url |-> url, token |-> item.account,
                   odd |-> outcome = "odd"]
<1>1. at.item \in Positions /\ item.account \in Accounts /\ at.provider \in DOMAIN Providers
  BY ItemFacts, ProviderFacts DEF ShapeOK, item, Notification
<1>2. new \in Entry
  BY <1>1 DEF Entry
<1>3. CASE Cached(url) # {}
  <2>1. cache' = cache /\ count' = count /\ sent' = sent
    BY <1>3 DEF Get
  <2>2. served' = served \cup {<<item.account, e.token>> : e \in Cached(url)}
    BY DEF Get
  <2>3. \A e \in Cached(url) : e \in cache /\ e.account = item.account /\ e.token = item.account
    BY DEF Cached, Scope, BudgetOK
  <2>4. served' \subseteq Accounts \X Accounts /\ OwnToken'
    BY <1>1, <2>2, <2>3 DEF BudgetOK, OwnToken
  <2> QED
    BY <1>1, <2>1, <2>4 DEF BudgetOK, Get
<1>4. CASE Cached(url) = {} /\ outcome \in {"ok", "odd"}
  <2>1. count < MaxRequests
    BY <1>4, PipelineAssumption DEF Get, Outcomes, BudgetOK
  <2>2. cache' = cache \cup {new} /\ count' = count + 1 /\ sent' = sent + 1 /\ served' = served
    BY <1>4 DEF Get, Filled
  <2>3. new \notin cache
    BY <1>4 DEF Cached, Scope
  <2>4. IsFiniteSet(cache') /\ Cardinality(cache') = Cardinality(cache) + 1
    BY <2>2, <2>3, FS_AddElement DEF BudgetOK
  <2>5. \A e \in cache' : e.token = e.account
    BY <2>2 DEF BudgetOK
  <2> QED
    BY <1>1, <1>2, <2>1, <2>2, <2>4, <2>5, PipelineAssumption DEF BudgetOK, OwnToken, Get
<1>5. CASE Cached(url) = {} /\ outcome \notin {"ok", "odd"}
  <2>1. cache' = cache /\ count' = count /\ sent' \in Nat /\ served' = served
    BY <1>5 DEF Get, BudgetOK
  <2> QED
    BY <1>1, <2>1 DEF BudgetOK, OwnToken, Get
<1> QED
  BY <1>3, <1>4, <1>5

LEMMA NoRequestKeeps ==
  ASSUME BudgetOK, NoRequest
  PROVE  BudgetOK' /\ trouble' = trouble
BY DEF NoRequest, BudgetOK, OwnToken

(* The work of earlier notifications stays done when a step touches no     *)
(* output of theirs and forgets no trouble; its own notification is the    *)
(* premise.                                                                *)
LEMMA WorkCarriesOn ==
  ASSUME ShapeOK, WorkOK, NEW n \in Positions, NEW p \in 1..4,
         at.item = n, at.provider = p, trouble \subseteq trouble',
         \A i \in Positions \ {n} :
           found'[i] = found[i] /\ web'[i] = web[i] /\ context'[i] = context[i],
         \/ NextProvider /\ SoFar(n, p + 1)'
         \/ NextRequest /\ UNCHANGED <<found, web, context>>
  PROVE  WorkOK' /\ at' \in [item : 1..Len(Items) + 1, provider : 1..4,
                             request : 1..2]
<1>1. \A i \in Positions \ {n}, q \in 1..5 : SoFar(i, q) => SoFar(i, q)'
  BY DEF SoFar, Known
<1>2. \A i \in 1..n - 1 : i \in Positions \ {n} /\ SoFar(i, 5)
  BY ItemFacts DEF WorkOK
<1>3. \A i \in 1..n - 1 : SoFar(i, 5)'
  BY <1>1, <1>2
<1>4. CASE NextProvider /\ SoFar(n, p + 1)' /\ p < 4
  <2>1. at' = [at EXCEPT !.provider = p + 1, !.request = 1]
    BY <1>4, ProviderFacts DEF NextProvider
  <2>2. at' = [item |-> n, provider |-> p + 1, request |-> 1]
    BY <2>1 DEF ShapeOK
  <2>3. WorkOK'
    BY <1>3, <1>4, <2>2 DEF WorkOK
  <2>4. p + 1 \in 1..4
    BY <1>4
  <2>5. at' \in [item : 1..Len(Items) + 1, provider : 1..4, request : 1..2]
    BY <2>2, <2>4 DEF ShapeOK
  <2> QED
    BY <2>3, <2>5
<1>5. CASE NextProvider /\ SoFar(n, p + 1)' /\ p = 4
  <2>1. at' = [item |-> n + 1, provider |-> 1, request |-> 1]
    BY <1>5, ProviderFacts DEF NextProvider
  <2>2. \A i \in 1..n : SoFar(i, 5)'
    BY <1>3, <1>5, ItemFacts
  <2>3. SoFar(n + 1, 1)'
    BY DEF SoFar
  <2>4. WorkOK'
    BY <2>1, <2>2, <2>3, ItemFacts DEF WorkOK
  <2> QED
    BY <2>1, <2>4, ItemFacts, ProviderFacts
<1>6. CASE NextRequest /\ UNCHANGED <<found, web, context>>
  <2>1. at' = [at EXCEPT !.request = 2] /\ at'.item = n /\ at'.provider = p
    BY <1>6 DEF NextRequest, ShapeOK
  <2>2. SoFar(n, p)'
    <3>1. SoFar(n, p)
      BY ItemFacts DEF WorkOK
    <3> QED
      BY <1>6, <3>1 DEF SoFar, Known
  <2>3. WorkOK'
    BY <1>3, <2>1, <2>2 DEF WorkOK
  <2> QED
    BY <2>1, <2>3 DEF ShapeOK
<1> QED
  BY <1>4, <1>5, <1>6

(* A step of the provider whose turn it is keeps the invariant.            *)
LEMMA StepKeeps ==
  ASSUME IInv, Next
  PROVE  IInv'
<1>1. PICK m \in Positions, q \in 1..4 : at.item = m /\ at.provider = q
  BY ItemFacts, ProviderFacts DEF IInv, ShapeOK, Next, Turn, HydrateSubject, HydrateWebDirect,
     HydrateWebRelease, HydrateWebSuite, HydrateWebTitle, EnrichComment, EnrichPR
<1>2. SoFar(m, q) /\ ShapeOK /\ BudgetOK /\ WorkOK /\ m <= Len(Items)
  BY <1>1, ItemFacts DEF IInv, WorkOK
<1>3. item = Items[m] /\ item \in Notification
  BY <1>1, ItemFacts DEF item
<1>4. CASE HydrateSubject
  <2>1. q = 1 /\ UNCHANGED <<web, context>>
    BY <1>1, <1>4, ProviderFacts DEF HydrateSubject, Turn
  <2>2. CASE Known(m)
    <3>1. NextProvider /\ NoRequest /\ UNCHANGED found
      BY <1>1, <1>4, <2>2 DEF HydrateSubject
    <3>2. BudgetOK' /\ trouble' = trouble
      BY <1>2, <3>1, NoRequestKeeps
    <3>3. SoFar(m, q + 1)'
      BY <2>1, <2>2, <3>1 DEF SoFar, Known
    <3> QED
      BY <1>1, <1>2, <2>1, <3>1, <3>2, <3>3, WorkCarriesOn DEF IInv, ShapeOK
  <2>3. CASE ~Known(m)
    <3>1. PICK outcome \in {"ok", "odd", "failed", "refused"} :
            /\ Get(<<"thread", item.thread>>, outcome)
            /\ found' = [found EXCEPT ![m] = outcome = "ok"]
            /\ NextProvider
      BY <1>1, <1>4, <2>3 DEF HydrateSubject, AfterError
    <3>2. <<"thread", item.thread>> \in Urls
      BY <1>3 DEF Urls, Notification
    <3>3. BudgetOK' /\ trouble' = IF outcome = "ok" THEN trouble ELSE trouble \cup {<<m, q>>}
      BY <1>1, <1>2, <3>1, <3>2, GetKeeps
    <3>4. outcome = "ok" => found'[m]
      BY <1>2, <3>1 DEF ShapeOK
    <3>5. <<m, 1>> \notin trouble' => outcome = "ok"
      BY <2>1, <3>3
    <3>6. SoFar(m, q + 1)'
      BY <2>1, <3>4, <3>5 DEF SoFar, Known
    <3> QED
      BY <1>1, <1>2, <2>1, <3>1, <3>3, <3>6, WorkCarriesOn DEF IInv, ShapeOK
  <2> QED
    BY <2>2, <2>3
<1>5. CASE HydrateWebDirect
  <2>1. q = 2 /\ NextProvider /\ NoRequest /\ UNCHANGED <<found, context>>
    BY <1>1, <1>5, ProviderFacts DEF HydrateWebDirect, Turn
  <2>2. web' = IF Known(m) THEN [web EXCEPT ![m] = "page"] ELSE web
    BY <1>1, <1>5 DEF HydrateWebDirect, SetWeb
  <2>3. BudgetOK' /\ trouble' = trouble
    BY <1>2, <2>1, NoRequestKeeps
  <2>4. SoFar(m, q + 1)'
    BY <1>2, <2>1, <2>2, <2>3 DEF SoFar, Known, ShapeOK
  <2> QED
    BY <1>1, <1>2, <2>1, <2>2, <2>3, <2>4, WorkCarriesOn DEF IInv, ShapeOK
<1>6. CASE HydrateWebRelease
  <2>1. q = 2 /\ Known(m) /\ UNCHANGED <<found, context>>
    BY <1>1, <1>6, ProviderFacts DEF HydrateWebRelease, Turn
  <2>2. PICK outcome \in {"ok", "odd", "failed", "refused"} :
          /\ Get(<<"subject", item.subject>>, outcome)
          /\ web' = IF outcome = "ok" THEN [web EXCEPT ![m] = "page"] ELSE web
          /\ NextProvider
    BY <1>1, <1>6 DEF HydrateWebRelease, AfterError, SetWeb
  <2>3. <<"subject", item.subject>> \in Urls
    BY <1>3 DEF Urls, Notification
  <2>4. BudgetOK' /\ trouble' = IF outcome = "ok" THEN trouble ELSE trouble \cup {<<m, q>>}
    BY <1>1, <1>2, <2>2, <2>3, GetKeeps
  <2>5. SoFar(m, q + 1)'
    BY <1>2, <2>1, <2>2, <2>4 DEF SoFar, Known, ShapeOK
  <2> QED
    BY <1>1, <1>2, <2>1, <2>2, <2>4, <2>5, WorkCarriesOn DEF IInv, ShapeOK
<1>7. CASE HydrateWebSuite
  <2>1. q = 2 /\ UNCHANGED <<found, context>>
    BY <1>1, <1>7, ProviderFacts DEF HydrateWebSuite, Turn
  <2>2. PICK outcome \in {"ok", "odd", "failed", "refused"} :
          /\ Get(<<"subject", item.subject>>, outcome)
          /\ IF outcome = "ok" THEN web' = [web EXCEPT ![m] = "page"] /\ NextProvider
             ELSE NextRequest /\ UNCHANGED web
    BY <1>1, <1>7 DEF HydrateWebSuite, SetWeb
  <2>3. <<"subject", item.subject>> \in Urls
    BY <1>3 DEF Urls, Notification
  <2>4. BudgetOK' /\ trouble' = IF outcome = "ok" THEN trouble ELSE trouble \cup {<<m, q>>}
    BY <1>1, <1>2, <2>2, <2>3, GetKeeps
  <2>5. outcome = "ok" => SoFar(m, q + 1)'
    BY <1>2, <2>1, <2>2, <2>4 DEF SoFar, Known, ShapeOK
  <2> QED
    BY <1>1, <1>2, <2>1, <2>2, <2>4, <2>5, WorkCarriesOn DEF IInv, ShapeOK
<1>8. CASE HydrateWebTitle
  <2>1. q = 2 /\ UNCHANGED <<found, context>>
    BY <1>1, <1>8, ProviderFacts DEF HydrateWebTitle, Turn
  <2>2. PICK outcome \in {"ok", "odd", "failed", "refused"} :
          /\ Get(<<"runs", item.subject>>, outcome)
          /\ web' \in {web, [web EXCEPT ![m] = "branch"], [web EXCEPT ![m] = "page"]}
          /\ outcome = "ok" => web' = [web EXCEPT ![m] = "page"]
          /\ NextProvider
    <3>1. PICK outcome \in {"ok", "odd", "failed", "refused"} :
            /\ Get(<<"runs", item.subject>>, outcome)
            /\ CASE outcome = "ok" -> SetWeb("page") /\ NextProvider
                 [] outcome \in {"odd", "refused"} -> SetWeb("branch") /\ NextProvider
                 [] outcome = "failed" -> AfterError /\ UNCHANGED web
      BY <1>8 DEF HydrateWebTitle
    <3>2. CASE outcome = "ok"
      BY <1>1, <3>1, <3>2 DEF SetWeb
    <3>3. CASE outcome \in {"odd", "refused"}
      BY <1>1, <3>1, <3>3 DEF SetWeb
    <3>4. CASE outcome = "failed"
      BY <3>1, <3>4 DEF AfterError
    <3> QED
      BY <3>2, <3>3, <3>4
  <2>3. <<"runs", item.subject>> \in Urls
    BY <1>3 DEF Urls, Notification
  <2>4. BudgetOK' /\ trouble' = IF outcome = "ok" THEN trouble ELSE trouble \cup {<<m, q>>}
    BY <1>1, <1>2, <2>2, <2>3, GetKeeps
  <2>5. SoFar(m, q + 1)'
    BY <1>2, <2>1, <2>2, <2>4 DEF SoFar, Known, ShapeOK
  <2> QED
    BY <1>1, <1>2, <2>1, <2>2, <2>4, <2>5, WorkCarriesOn DEF IInv, ShapeOK
<1>9. CASE EnrichComment
  <2>1. q = 3 /\ UNCHANGED <<found, web>>
    BY <1>1, <1>9, ProviderFacts DEF EnrichComment, Turn
  <2>2. CASE ~item.comment
    <3>1. NextProvider /\ NoRequest /\ UNCHANGED context
      BY <1>9, <2>2 DEF EnrichComment
    <3>2. BudgetOK' /\ trouble' = trouble
      BY <1>2, <3>1, NoRequestKeeps
    <3>3. SoFar(m, q + 1)'
      BY <1>2, <1>3, <2>1, <2>2, <3>1, <3>2 DEF SoFar, Known
    <3> QED
      BY <1>1, <1>2, <2>1, <3>1, <3>2, <3>3, WorkCarriesOn DEF IInv, ShapeOK
  <2>3. CASE item.comment
    <3>1. PICK outcome \in {"ok", "odd", "failed", "refused"} :
            /\ Get(<<IF at.request = 1 THEN "thread" ELSE "comment", item.thread>>, outcome)
            /\ IF outcome = "ok" /\ at.request = 2
               THEN AddContext("comment") ELSE UNCHANGED context
            /\ CASE outcome = "ok" /\ at.request = 1 -> NextRequest
                 [] outcome = "odd" \/ (outcome = "ok" /\ at.request = 2) -> NextProvider
                 [] OTHER -> AfterError
      BY <1>9, <2>3 DEF EnrichComment
    <3>2. \/ outcome = "ok" /\ NextRequest /\ UNCHANGED context
          \/ outcome = "ok" /\ NextProvider
             /\ context' = [context EXCEPT ![m] = @ \cup {"comment"}]
          \/ outcome # "ok" /\ NextProvider /\ UNCHANGED context
      <4>1. at.request \in 1..2
        BY <1>2 DEF ShapeOK
      <4> QED
        BY <1>1, <3>1, <4>1 DEF AddContext, AfterError
    <3>3. <<IF at.request = 1 THEN "thread" ELSE "comment", item.thread>> \in Urls
      BY <1>3 DEF Urls, Notification
    <3>4. BudgetOK' /\ trouble' = IF outcome = "ok" THEN trouble ELSE trouble \cup {<<m, q>>}
      BY <1>1, <1>2, <3>1, <3>3, GetKeeps
    <3>5. CASE NextRequest /\ UNCHANGED context
      BY <1>1, <1>2, <2>1, <3>4, <3>5, WorkCarriesOn DEF IInv, ShapeOK
    <3>6. CASE outcome = "ok" /\ NextProvider
               /\ context' = [context EXCEPT ![m] = @ \cup {"comment"}]
      <4>1. SoFar(m, q + 1)'
        BY <1>2, <2>1, <3>4, <3>6 DEF SoFar, Known, ShapeOK
      <4> QED
        BY <1>1, <1>2, <2>1, <3>4, <3>6, <4>1, WorkCarriesOn DEF IInv, ShapeOK
    <3>7. CASE outcome # "ok" /\ NextProvider /\ UNCHANGED context
      <4>1. SoFar(m, q + 1)'
        BY <1>2, <2>1, <3>4, <3>7 DEF SoFar, Known, ShapeOK
      <4> QED
        BY <1>1, <1>2, <2>1, <3>4, <3>7, <4>1, WorkCarriesOn DEF IInv, ShapeOK
    <3> QED
      BY <3>2, <3>5, <3>6, <3>7
  <2> QED
    BY <2>2, <2>3
<1>10. CASE EnrichPR
  <2>1. q = 4 /\ UNCHANGED <<found, web>>
    BY <1>1, <1>10, ProviderFacts DEF EnrichPR, Turn
  <2>2. CASE item.kind # "pull" \/ ~Known(m)
    <3>1. NextProvider /\ NoRequest /\ UNCHANGED context
      BY <1>1, <1>10, <2>2 DEF EnrichPR
    <3>2. BudgetOK' /\ trouble' = trouble
      BY <1>2, <3>1, NoRequestKeeps
    <3>3. SoFar(m, q + 1)'
      BY <1>2, <1>3, <2>1, <2>2, <3>1, <3>2 DEF SoFar, Known
    <3> QED
      BY <1>1, <1>2, <2>1, <3>1, <3>2, <3>3, WorkCarriesOn DEF IInv, ShapeOK
  <2>3. CASE ~(item.kind # "pull" \/ ~Known(m))
    <3>1. PICK outcome \in {"ok", "odd", "failed", "refused"} :
            /\ Get(<<"subject", item.subject>>, outcome)
            /\ context' = IF outcome = "ok" THEN [context EXCEPT ![m] = @ \cup {"pr"}] ELSE context
            /\ NextProvider
      BY <1>1, <1>10, <2>3 DEF EnrichPR, AddContext, AfterError
    <3>2. <<"subject", item.subject>> \in Urls
      BY <1>3 DEF Urls, Notification
    <3>3. BudgetOK' /\ trouble' = IF outcome = "ok" THEN trouble ELSE trouble \cup {<<m, q>>}
      BY <1>1, <1>2, <3>1, <3>2, GetKeeps
    <3>4. SoFar(m, q + 1)'
      BY <1>2, <2>1, <3>1, <3>3 DEF SoFar, Known, ShapeOK
    <3> QED
      BY <1>1, <1>2, <2>1, <3>1, <3>3, <3>4, WorkCarriesOn DEF IInv, ShapeOK
  <2> QED
    BY <2>2, <2>3
<1> QED
  BY <1>4, <1>5, <1>6, <1>7, <1>8, <1>9, <1>10 DEF Next

LEMMA InitOK == Init => IInv
<1> SUFFICES ASSUME Init PROVE IInv
  OBVIOUS
<1>1. ShapeOK
  BY ItemFacts, ProviderFacts DEF Init, ShapeOK
<1>2. BudgetOK
  BY FS_EmptySet, PipelineAssumption DEF Init, BudgetOK, OwnToken
<1>3. WorkOK
  BY ItemFacts DEF Init, WorkOK, SoFar
<1> QED
  BY <1>1, <1>2, <1>3 DEF IInv

LEMMA StutterKeeps ==
  ASSUME IInv, UNCHANGED vars
  PROVE  IInv'
BY DEF IInv, ShapeOK, BudgetOK, WorkOK, SoFar, OwnToken, Known, vars

(* The budget, the token of each answer and the place in the work list     *)
(* agree at every step.                                                    *)
THEOREM Invariance == Spec => []IInv
<1>1. IInv /\ [Next]_vars => IInv'
  BY StepKeeps, StutterKeeps
<1> QED
  BY InitOK, <1>1, PTL DEF Spec

-----------------------------------------------------------------------------
(* Every variable keeps its type.                                          *)
THEOREM TypeCorrect == Spec => []TypeOK
<1>1. IInv => TypeOK
  BY ProviderFacts DEF IInv, ShapeOK, BudgetOK, TypeOK
<1> QED
  BY Invariance, <1>1, PTL

(* "a payload fetched under one account's token is never handed back to a  *)
(* request made on behalf of a different account", whatever the accounts   *)
(* are notified of.                                                        *)
THEOREM NoForeignToken == Spec => []OwnToken
<1>1. IInv => OwnToken
  BY DEF IInv, BudgetOK
<1> QED
  BY Invariance, <1>1, PTL

(* The budget pays once for each distinct answer, for any budget and any   *)
(* list of notifications.                                                  *)
THEOREM PaidOnce == Spec => []EachAnswerPaidOnce
<1>1. IInv => EachAnswerPaidOnce
  BY PipelineAssumption DEF IInv, BudgetOK, EachAnswerPaidOnce
<1> QED
  BY Invariance, <1>1, PTL

(* No failure, refusal or odd answer keeps a provider that had none from   *)
(* its work, on this notification or on a later one.                       *)
THEOREM LocalErrors == Spec => []ErrorsStayLocal
<1>1. IInv => ErrorsStayLocal
  <2> SUFFICES ASSUME IInv, NEW i \in 1..at.item - 1
               PROVE  Completed(i) /\ (Fine(i, "subject") => Known(i))
    BY DEF ErrorsStayLocal
  <2>1. SoFar(i, 5)
    BY DEF IInv, WorkOK
  <2>2. /\ Fine(i, "subject") => <<i, 1>> \notin trouble
        /\ Fine(i, "web") => <<i, 2>> \notin trouble
        /\ Fine(i, "comment") => <<i, 3>> \notin trouble
        /\ Fine(i, "pr") => <<i, 4>> \notin trouble
    BY ProviderFacts DEF Fine
  <2> QED
    BY <2>1, <2>2 DEF SoFar, Completed
<1> QED
  BY Invariance, <1>1, PTL
=============================================================================
