--------------------------- MODULE WebClientProofs ---------------------------
(***************************************************************************)
(* Proofs about the web client: the browser location and App's route      *)
(* agree in every reachable state, for every set of paths and every bound. *)
(***************************************************************************)
EXTENDS WebClient, TLAPS

(* The history, its index and the route, as far as the agreement needs.    *)
HistInv ==
  /\ route \in Paths
  /\ hist \in Seq(Paths)
  /\ hidx \in 1..Len(hist)
  /\ HistoryMatchesRoute

(* What the route effect's pushState leaves: the entries up to the current *)
(* one, then the new one, which is current.                                *)
LEMMA PushFacts ==
  ASSUME NEW h \in Seq(Paths), NEW i \in 1..Len(h), NEW r \in Paths
  PROVE  LET h2 == Append(SubSeq(h, 1, i), r) IN
         /\ h2 \in Seq(Paths)
         /\ Len(h2) = i + 1
         /\ h2[i + 1] = r
  OBVIOUS

LEMMA InitHistInv == Init => HistInv
  BY WebAssumption DEF Init, HistInv, HistoryMatchesRoute

LEMMA NavigateHistInv ==
  ASSUME HistInv, NEW r \in Paths \ {Root}, Navigate(r)
  PROVE  HistInv'
  <1>1. /\ hist' = Append(SubSeq(hist, 1, hidx), r)
        /\ hidx' = hidx + 1
        /\ route' = r
    BY DEF Navigate, PushState
  <1>2. /\ hist' \in Seq(Paths)
        /\ Len(hist') = hidx + 1
        /\ hist'[hidx + 1] = r
    BY <1>1, PushFacts DEF HistInv
  <1>. QED
    BY <1>1, <1>2 DEF HistInv, HistoryMatchesRoute

(* Back and Forward: an entry equal to the route only moves the index;     *)
(* another one becomes the route and is pushed after itself.               *)
LEMMA TraverseHistInv ==
  ASSUME HistInv, NEW to, Traverse(to)
  PROVE  HistInv'
  <1>1. to \in 1..Len(hist)
    BY DEF Traverse
  <1>2. hist[to] \in Paths
    BY <1>1 DEF HistInv
  <1>3. CASE hist[to] = route
    <2>1. hidx' = to /\ hist' = hist /\ route' = route
      BY <1>3 DEF Traverse
    <2>. QED
      BY <1>1, <1>3, <2>1 DEF HistInv, HistoryMatchesRoute
  <1>4. CASE hist[to] # route
    <2>1. /\ route' = hist[to]
          /\ hist' = Append(SubSeq(hist, 1, to), hist[to])
          /\ hidx' = to + 1
      BY <1>4 DEF Traverse
    <2>2. /\ hist' \in Seq(Paths)
          /\ Len(hist') = to + 1
          /\ hist'[to + 1] = hist[to]
      BY <1>1, <1>2, <2>1, PushFacts DEF HistInv
    <2>. QED
      BY <1>2, <2>1, <2>2 DEF HistInv, HistoryMatchesRoute
  <1>. QED
    BY <1>3, <1>4

(* The other steps leave the route, the history and the index alone.       *)
LEMMA OtherHistInv ==
  ASSUME HistInv,
         \/ Transact \/ TimerFires
         \/ \E i \in DOMAIN calls : CallEnds(i)
         \/ \E i \in DOMAIN fetches : ServerAnswers(i) \/ FetchReturn(i)
         \/ UNCHANGED wvars
  PROVE  HistInv'
  <1>1. UNCHANGED <<route, hist, hidx>>
    BY DEF Transact, TimerFires, CallEnds, ServerAnswers, FetchReturn, wvars
  <1>. QED
    BY <1>1 DEF HistInv, HistoryMatchesRoute

LEMMA NextHistInv == HistInv /\ [Next]_wvars => HistInv'
  <1>. SUFFICES ASSUME HistInv, [Next]_wvars PROVE HistInv'
    OBVIOUS
  <1>1. CASE \E r \in Paths \ {Root} : Navigate(r)
    BY <1>1, NavigateHistInv
  <1>2. CASE Traverse(hidx - 1)
    BY <1>2, TraverseHistInv DEF HistInv
  <1>3. CASE Traverse(hidx + 1)
    BY <1>3, TraverseHistInv DEF HistInv
  <1>. QED
    BY <1>1, <1>2, <1>3, OtherHistInv DEF Next

(* The location the browser shows is App's route in every state the page  *)
(* can reach through clicks, Back, Forward and the async fetch tasks.     *)
THEOREM HistoryMatchesRouteTheorem == Spec => []HistoryMatchesRoute
  <1>1. Init => HistInv
    BY InitHistInv
  <1>2. HistInv /\ [Next]_wvars => HistInv'
    BY NextHistInv
  <1>3. HistInv => HistoryMatchesRoute
    BY DEF HistInv
  <1>. QED
    BY <1>1, <1>2, <1>3, PTL DEF Spec

-----------------------------------------------------------------------------
(***************************************************************************)
(* Type correctness.  WebTypeOK alone is not inductive: FetchReturn puts   *)
(* the version of an answered fetch into the page, so the invariant must   *)
(* also say that a fetch the host has answered carries a number.          *)
(***************************************************************************)
AnsweredVersions ==
  \A i \in DOMAIN fetches : fetches[i].state # "sent" => fetches[i].version \in Nat

(* A page is shown together with its site id, so a transaction button is  *)
(* only clicked with a site id, and every make_call names a site.          *)
SiteShown == page # Empty => siteID = SiteOf[page.route]
CallSites == \A i \in DOMAIN calls : calls[i].site \in Sites

WInv == WebTypeOK /\ AnsweredVersions /\ SiteShown /\ CallSites

FetchRec == [route : Paths, state : {"sent", "answered", "done"}, version : Nat \cup {Empty}]
CallRec  == [site : Sites \cup {Empty}, state : {"pending", "applied", "failed"}]

(* The fetch effect appends a task that has not been answered.             *)
LEMMA StartFetchWInv ==
  ASSUME NEW r \in Paths, fetches \in Seq(FetchRec), AnsweredVersions, StartFetch(r)
  PROVE  fetches' \in Seq(FetchRec) /\ AnsweredVersions'
  <1>1. [route |-> r, state |-> "sent", version |-> Empty] \in FetchRec
    BY DEF FetchRec
  <1>. QED
    BY <1>1 DEF StartFetch, AnsweredVersions

LEMMA InitWInv == Init => WInv
  <1>. SUFFICES ASSUME NEW path \in Paths,
                      LET r == IF path = Root THEN Default ELSE path IN
                      /\ route = r /\ siteID = Empty /\ page = Empty
                      /\ fetches = << [route |-> r, state |-> "sent", version |-> Empty] >>
                      /\ calls = << >> /\ timers = 0 /\ applied = [s \in Sites |-> 0]
                      /\ hist = << path, r >> /\ hidx = 2 /\ backFrom = Empty
               PROVE  WInv
    BY DEF Init
  <1>1. (IF path = Root THEN Default ELSE path) \in Paths
    BY WebAssumption
  <1>. QED
    BY <1>1, WebAssumption DEF WInv, WebTypeOK, AnsweredVersions, SiteShown, CallSites

LEMMA NavigateWInv ==
  ASSUME WInv, NEW r \in Paths \ {Root}, Navigate(r)
  PROVE  WInv'
  <1>1. fetches \in Seq(FetchRec) /\ AnsweredVersions
    BY DEF WInv, WebTypeOK, FetchRec
  <1>2. fetches' \in Seq(FetchRec) /\ AnsweredVersions'
    BY <1>1, StartFetchWInv DEF Navigate
  <1>3. /\ hist' \in Seq(Paths) /\ Len(hist') = hidx + 1 /\ hidx' = hidx + 1
    BY PushFacts DEF Navigate, PushState, WInv, WebTypeOK
  <1>. QED
    BY <1>2, <1>3 DEF Navigate, WInv, WebTypeOK, FetchRec, SiteShown, CallSites

LEMMA TraverseWInv ==
  ASSUME WInv, NEW to, Traverse(to)
  PROVE  WInv'
  <1>1. to \in 1..Len(hist) /\ hist \in Seq(Paths) /\ hidx \in 1..Len(hist)
    BY DEF Traverse, WInv, WebTypeOK
  <1>2. backFrom' \in Paths \cup {Empty}
    BY <1>1 DEF Traverse
  <1>3. CASE hist[to] = route
    BY <1>1, <1>2, <1>3 DEF Traverse, WInv, WebTypeOK, AnsweredVersions, SiteShown,
                            CallSites
  <1>4. CASE hist[to] # route
    <2>1. fetches \in Seq(FetchRec) /\ AnsweredVersions
      BY DEF WInv, WebTypeOK, FetchRec
    <2>2. fetches' \in Seq(FetchRec) /\ AnsweredVersions'
      BY <1>1, <1>4, <2>1, StartFetchWInv DEF Traverse
    <2>3. /\ hist' \in Seq(Paths) /\ Len(hist') = to + 1 /\ hidx' = to + 1
          /\ route' \in Paths
      BY <1>1, <1>4, PushFacts DEF Traverse
    <2>. QED
      BY <1>2, <1>4, <2>2, <2>3 DEF Traverse, WInv, WebTypeOK, FetchRec, SiteShown,
                                    CallSites
  <1>. QED
    BY <1>3, <1>4

LEMMA TransactWInv ==
  ASSUME WInv, Transact
  PROVE  WInv'
  <1>1. siteID \in Sites
    BY WebAssumption DEF Transact, WInv, SiteShown, WebTypeOK, Page
  <1>2. calls' \in Seq(CallRec) /\ CallSites'
    BY <1>1 DEF Transact, WInv, WebTypeOK, CallRec, CallSites
  <1>. QED
    BY <1>2 DEF Transact, WInv, WebTypeOK, CallRec, AnsweredVersions, SiteShown

LEMMA CallEndsWInv ==
  ASSUME WInv, NEW i \in DOMAIN calls, CallEnds(i)
  PROVE  WInv'
  <1>0. calls \in Seq(CallRec) /\ applied \in [Sites -> Nat]
    BY DEF WInv, WebTypeOK, CallRec
  <1>1. calls \in Seq(CallRec) /\ calls[i] \in CallRec /\ calls[i].site \in Sites
    BY <1>0 DEF WInv, CallSites
  <1>2. applied' \in [Sites -> Nat]
    BY <1>0, <1>1 DEF CallEnds
  <1>3. \A st \in {"applied", "failed"} :
          LET c == [calls EXCEPT ![i].state = st] IN
          c \in Seq(CallRec) /\ \A j \in DOMAIN c : c[j].site \in Sites
    BY <1>1 DEF CallRec, WInv, CallSites
  <1>4. calls' \in Seq(CallRec) /\ CallSites'
    BY <1>3 DEF CallEnds, CallSites
  <1>. QED
    BY <1>2, <1>4 DEF CallEnds, WInv, WebTypeOK, CallRec, AnsweredVersions, SiteShown

LEMMA TimerFiresWInv ==
  ASSUME WInv, TimerFires
  PROVE  WInv'
  <1>1. fetches \in Seq(FetchRec) /\ AnsweredVersions /\ route \in Paths
    BY DEF WInv, WebTypeOK, FetchRec
  <1>2. fetches' \in Seq(FetchRec) /\ AnsweredVersions'
    BY <1>1, StartFetchWInv DEF TimerFires
  <1>. QED
    BY <1>2 DEF TimerFires, WInv, WebTypeOK, FetchRec, SiteShown, CallSites

LEMMA ServerAnswersWInv ==
  ASSUME WInv, NEW i \in DOMAIN fetches, ServerAnswers(i)
  PROVE  WInv'
  <1>0. fetches \in Seq(FetchRec) /\ applied \in [Sites -> Nat]
    BY DEF WInv, WebTypeOK, FetchRec
  <1>1. fetches \in Seq(FetchRec) /\ fetches[i].route \in Paths
    <2>1. fetches[i] \in FetchRec
      BY <1>0
    <2>. QED
      BY <1>0, <2>1 DEF FetchRec
  <1>2. applied[SiteOf[fetches[i].route]] \in Nat
    BY <1>0, <1>1, WebAssumption
  <1>3. /\ fetches' \in Seq(FetchRec) /\ DOMAIN fetches' = DOMAIN fetches
        /\ fetches'[i].version \in Nat
        /\ \A j \in DOMAIN fetches : j # i => fetches'[j] = fetches[j]
    <2>1. PICK v \in Nat : v = applied[SiteOf[fetches[i].route]]
      BY <1>2
    <2>2. PICK h : h = [fetches EXCEPT ![i].state = "answered"]
      OBVIOUS
    <2>3. fetches' = [h EXCEPT ![i].version = v]
      BY <2>1, <2>2 DEF ServerAnswers
    <2>4. /\ h \in Seq(FetchRec) /\ DOMAIN h = DOMAIN fetches /\ h[i] \in FetchRec
          /\ \A j \in DOMAIN fetches : j # i => h[j] = fetches[j]
      <3>1. fetches[i] \in FetchRec
        BY <1>1
      <3>. QED
        BY <1>1, <2>2, <3>1 DEF FetchRec
    <2>. QED
      BY <2>1, <2>3, <2>4 DEF FetchRec
  <1>4. AnsweredVersions'
    BY <1>3 DEF WInv, AnsweredVersions
  <1>. QED
    BY <1>3, <1>4 DEF ServerAnswers, WInv, WebTypeOK, FetchRec, SiteShown, CallSites

LEMMA FetchReturnWInv ==
  ASSUME WInv, NEW i \in DOMAIN fetches, FetchReturn(i)
  PROVE  WInv'
  <1>0. fetches \in Seq(FetchRec) /\ AnsweredVersions /\ fetches[i].state = "answered"
    BY DEF WInv, WebTypeOK, FetchRec, FetchReturn
  <1>1. /\ fetches \in Seq(FetchRec) /\ fetches[i].route \in Paths
        /\ fetches[i].version \in Nat
    <2>1. fetches[i] \in FetchRec
      BY <1>0
    <2>. QED
      BY <1>0, <2>1 DEF FetchRec, AnsweredVersions
  <1>2. /\ fetches' \in Seq(FetchRec) /\ DOMAIN fetches' = DOMAIN fetches
        /\ fetches'[i].version = fetches[i].version
        /\ \A j \in DOMAIN fetches : j # i => fetches'[j] = fetches[j]
    <2>1. fetches' = [fetches EXCEPT ![i].state = "done"]
      BY DEF FetchReturn
    <2>2. fetches[i] \in FetchRec
      BY <1>1
    <2>. QED
      BY <1>1, <2>1, <2>2 DEF FetchRec
  <1>3. AnsweredVersions'
    BY <1>1, <1>2 DEF WInv, AnsweredVersions
  <1>4. page' \in Page /\ siteID' \in Sites /\ SiteShown'
    BY <1>1, WebAssumption DEF FetchReturn, Page, SiteShown
  <1>. QED
    BY <1>2, <1>3, <1>4 DEF FetchReturn, WInv, WebTypeOK, FetchRec, CallSites

LEMMA NextWInv == WInv /\ [Next]_wvars => WInv'
  <1>. SUFFICES ASSUME WInv, [Next]_wvars PROVE WInv'
    OBVIOUS
  <1>1. CASE UNCHANGED wvars
    BY <1>1 DEF wvars, WInv, WebTypeOK, AnsweredVersions, SiteShown, CallSites
  <1>2. CASE Traverse(hidx - 1) \/ Traverse(hidx + 1)
    BY <1>2, TraverseWInv
  <1>. QED
    BY <1>1, <1>2, NavigateWInv, TransactWInv, CallEndsWInv, TimerFiresWInv,
       ServerAnswersWInv, FetchReturnWInv DEF Next

(* Type correctness of App and SiteView, for every set of paths and sites  *)
(* and every bound: every variable keeps the type WebTypeOK gives it, so   *)
(* the history index stays inside the history and every fetch and call    *)
(* task keeps its fields.  Where a page and a call's site come from is     *)
(* CallsNameSite's subject.                                                *)
THEOREM WebTypeCorrect == Spec => []WebTypeOK
  <1>1. Init => WInv
    BY InitWInv
  <1>2. WInv /\ [Next]_wvars => WInv'
    BY NextWInv
  <1>3. WInv => WebTypeOK
    BY DEF WInv
  <1>. QED
    BY <1>1, <1>2, <1>3, PTL DEF Spec


(* A transaction button is only clicked on a shown page, and the page is  *)
(* shown together with the site id of its route, so make_call(site_id,    *)
(* payload) (siteview.tsx:130) is never called without a site.            *)
THEOREM CallsNameSite == Spec => [](SiteShown /\ CallSites)
  <1>1. WInv => SiteShown /\ CallSites
    BY DEF WInv
  <1>. QED
    BY <1>1, InitWInv, NextWInv, PTL DEF Spec

=============================================================================
