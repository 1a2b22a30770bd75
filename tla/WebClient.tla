------------------------------ MODULE WebClient ------------------------------
(***************************************************************************)
(* The web client (src/web-client/src): App.tsx keeps the route and the    *)
(* site id and mirrors the route into the browser history; SiteView        *)
(* (siteview.tsx) fetches the page of the route in an async task, shows it *)
(* in an iframe, and handles the messages the injected script              *)
(* (nojsembedd.js) posts when a link or a transaction button is clicked.   *)
(*                                                                         *)
(* Pages are abstracted to the route they were fetched for and the number *)
(* of transactions of the route's site the host had applied when it       *)
(* answered.  A React state update and the effects it triggers run as one *)
(* step; an await is where a step ends, so the host's answer and the       *)
(* continuation after `await get_page` are separate steps, and fetch tasks *)
(* interleave with clicks, timers and each other.                          *)
(***************************************************************************)
EXTENDS Naturals, Sequences

CONSTANTS Paths,       \* the paths a location can hold
          Root,        \* the path "" of the location "/"
          Default,     \* "zkpunks/postcatalogue"
          Sites,
          SiteOf,      \* the site the host serves a route from
          Empty,       \* "", undefined: no page, no site id, no answer yet
          MaxFetches,  \* bound on the fetch tasks started
          MaxTx        \* bound on the transactions sent

ASSUME WebAssumption ==
  /\ Root \in Paths /\ Default \in Paths \ {Root}
  /\ SiteOf \in [Paths -> Sites]
  /\ Empty \notin Paths \cup Sites \cup Nat
  /\ MaxFetches \in Nat /\ MaxTx \in Nat

VARIABLES route,     \* App's route state
          siteID,    \* App's siteID state
          page,      \* SiteView's pageData
          fetches,   \* the fetch tasks started, in order
          calls,     \* the make_call tasks started, in order
          timers,    \* the 4000 ms timeouts not yet fired
          applied,   \* per site, the transactions the host has applied
          hist,      \* the browser history entries
          hidx,      \* the current entry
          backFrom   \* the entry the last Back left, Empty after any push

wvars == <<route, siteID, page, fetches, calls, timers, applied, hist, hidx, backFrom>>

(* The fetch effect (siteview.tsx:77-85) starts a task for route r.        *)
StartFetch(r) ==
  fetches' = Append(fetches, [route |-> r, state |-> "sent", version |-> Empty])

(* The bound: every click leaves room for the refetch of each pending      *)
(* timer, so a timer is never disabled by it.                              *)
HasRoom == Len(fetches) + timers < MaxFetches

(* Mutant: the history entries after the current one are kept.             *)
PushStateAppend(r) ==
  /\ hist' = Append(hist, r)
  /\ hidx' = hidx + 1

(* The route effect of App (App.tsx:13-15): pushState adds an entry after  *)
(* the current one and drops the forward entries.                          *)
PushState(r) ==
  /\ hist' = Append(SubSeq(hist, 1, hidx), r)
  /\ hidx' = hidx + 1

(* The page load: the route from the location, "" standing for the        *)
(* catalogue; mounting runs the route effect and the fetch effect.         *)
Init ==
  \E path \in Paths :
    LET r == IF path = Root THEN Default ELSE path IN
    /\ route = r
    /\ siteID = Empty
    /\ page = Empty
    /\ fetches = << [route |-> r, state |-> "sent", version |-> Empty] >>
    /\ calls = << >>
    /\ timers = 0
    /\ applied = [s \in Sites |-> 0]
    /\ hist = << path, r >>
    /\ hidx = 2
    /\ backFrom = Empty

(* A click on a link (data-href) of the shown page: nojsembedd posts       *)
(* msg_type 0 and the handler calls setPageRoute.  Setting the route to    *)
(* its current value renders nothing, so only a new route is a step.       *)
Navigate(r) ==
  /\ page # Empty
  /\ HasRoom
  /\ r # route
  /\ route' = r
  /\ PushState(r)
  /\ StartFetch(r)
  /\ backFrom' = Empty
  /\ UNCHANGED <<siteID, page, calls, timers, applied>>

(* Back (to = hidx - 1) or Forward (to = hidx + 1) in the browser: the     *)
(* popstate handler (App.tsx:19-23) sets the route to the entry's path,    *)
(* with no "" to catalogue rewrite, and a new route runs both effects.     *)
Traverse(to) ==
  /\ HasRoom
  /\ to \in 1..Len(hist)
  /\ backFrom' = IF to < hidx THEN hist[hidx] ELSE Empty
  /\ IF hist[to] = route
       THEN /\ hidx' = to
            /\ UNCHANGED <<route, hist, fetches>>
       ELSE /\ route' = hist[to]
            /\ hist' = Append(SubSeq(hist, 1, to), hist[to])
            /\ hidx' = to + 1
            /\ StartFetch(hist[to])
  /\ UNCHANGED <<siteID, page, calls, timers, applied>>

(* A click on a transaction button: nojsembedd posts msg_type 1 and the    *)
(* handler starts make_call(site_id, payload) without awaiting it and sets *)
(* a 4000 ms timeout that changes the nonce.                               *)
Transact ==
  /\ page # Empty
  /\ HasRoom
  /\ Len(calls) < MaxTx
  /\ calls' = Append(calls, [site |-> siteID, state |-> "pending"])
  /\ timers' = timers + 1
  /\ UNCHANGED <<route, siteID, page, fetches, applied, hist, hidx, backFrom>>

(* make_call settles: the host applies the transaction, or it is lost and  *)
(* the rejection is dropped.                                               *)
CallEnds(i) ==
  /\ calls[i].state = "pending"
  /\ \/ /\ calls' = [calls EXCEPT ![i].state = "applied"]
        /\ applied' = [applied EXCEPT ![calls[i].site] = @ + 1]
     \/ /\ calls' = [calls EXCEPT ![i].state = "failed"]
        /\ UNCHANGED applied
  /\ UNCHANGED <<route, siteID, page, fetches, timers, hist, hidx, backFrom>>

(* The timeout fires: the new nonce reruns the fetch effect for the route  *)
(* of that moment.                                                         *)
TimerFires ==
  /\ timers > 0
  /\ timers' = timers - 1
  /\ StartFetch(route)
  /\ UNCHANGED <<route, siteID, page, calls, applied, hist, hidx, backFrom>>

(* The host answers get_page(route) with the page as it is now.            *)
ServerAnswers(i) ==
  /\ fetches[i].state = "sent"
  /\ fetches' = [fetches EXCEPT ![i].state = "answered",
                                ![i].version = applied[SiteOf[fetches[i].route]]]
  /\ UNCHANGED <<route, siteID, page, calls, timers, applied, hist, hidx, backFrom>>

(* Mutant: the continuation does not await the answer.                     *)
FetchReturnNoAwait(i) ==
  /\ fetches[i].state \in {"sent", "answered"}
  /\ fetches' = [fetches EXCEPT ![i].state = "done"]
  /\ siteID' = SiteOf[fetches[i].route]
  /\ page' = [route |-> fetches[i].route, version |-> fetches[i].version]
  /\ UNCHANGED <<route, calls, timers, applied, hist, hidx, backFrom>>

(* The task resumes after `await fetch_and_sanitize_page` and sets the     *)
(* site id and the page, whatever the route is by now.                     *)
FetchReturn(i) ==
  /\ fetches[i].state = "answered"
  /\ fetches' = [fetches EXCEPT ![i].state = "done"]
  /\ siteID' = SiteOf[fetches[i].route]
  /\ page' = [route |-> fetches[i].route, version |-> fetches[i].version]
  /\ UNCHANGED <<route, calls, timers, applied, hist, hidx, backFrom>>

Next ==
  \/ \E r \in Paths \ {Root} : Navigate(r)
  \/ Traverse(hidx - 1)
  \/ Traverse(hidx + 1)
  \/ Transact
  \/ TimerFires
  \/ \E i \in DOMAIN calls : CallEnds(i)
  \/ \E i \in DOMAIN fetches : ServerAnswers(i) \/ FetchReturn(i)

(* The event loop runs every pending continuation and timer, and the host  *)
(* answers every request; the user is under no obligation to click.        *)
Fairness ==
  /\ WF_wvars(TimerFires)
  /\ \A i \in 1..MaxTx : WF_wvars(i \in DOMAIN calls /\ CallEnds(i))
  /\ \A i \in 1..MaxFetches :
       /\ WF_wvars(i \in DOMAIN fetches /\ ServerAnswers(i))
       /\ WF_wvars(i \in DOMAIN fetches /\ FetchReturn(i))

Spec == Init /\ [][Next]_wvars /\ Fairness

-----------------------------------------------------------------------------
Page == [route : Paths, version : Nat]

(* Every variable holds what the handlers store in it: a page and a site  *)
(* id only from an answered fetch.                                         *)
WebTypeOK ==
  /\ route \in Paths /\ siteID \in Sites \cup {Empty} /\ page \in Page \cup {Empty}
  /\ fetches \in Seq([route : Paths, state : {"sent", "answered", "done"},
                      version : Nat \cup {Empty}])
  /\ calls \in Seq([site : Sites \cup {Empty}, state : {"pending", "applied", "failed"}])
  /\ timers \in Nat /\ applied \in [Sites -> Nat]
  /\ hist \in Seq(Paths) /\ hidx \in 1..Len(hist) /\ backFrom \in Paths \cup {Empty}

(* The location the browser shows is the route the app is on, through     *)
(* clicks, Back and Forward, whose handler and route effect both write     *)
(* the history.                                                            *)
HistoryMatchesRoute == hist[hidx] = route

(* Once every fetch task has finished, the page shown is the page of the   *)
(* route: the fetch effect (siteview.tsx:77-85) does not cancel or ignore  *)
(* a task that an earlier route or nonce started.                          *)
PageShowsRoute ==
  (\A i \in DOMAIN fetches : fetches[i].state = "done") =>
    page # Empty /\ page.route = route

(* After Back, Forward returns to the entry Back left (browser history    *)
(* semantics), which the route effect's pushState must not drop.           *)
ForwardKept ==
  backFrom # Empty => hidx < Len(hist) /\ hist[hidx + 1] = backFrom

(* The refresh after a transaction (siteview.tsx:132): while the user     *)
(* stays on a route, the page eventually shows every transaction the host *)
(* has applied to the route's site.                                        *)
TransactionShown ==
  \A r \in Paths, n \in 1..MaxTx :
    (route = r /\ applied[SiteOf[r]] >= n) ~>
      (route # r \/ (page # Empty /\ page.route = r /\ page.version >= n))

=============================================================================
