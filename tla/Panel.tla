------------------------------- MODULE Panel -------------------------------
(***************************************************************************)
(* A browser that holds a parent's cookie and opens the panel: the login   *)
(* page and requireParentSession send it on to one another, over the       *)
(* sessions of Access.                                                     *)
(***************************************************************************)
EXTENDS Access

CONSTANT MaxRedirects  \* redirects in a row a browser follows: 20 in most

VARIABLES
  page,      \* what the browser shows, or the page it is being sent to
  redirects  \* how often it was sent on since it was opened

browser   == <<page, redirects>>
panelVars == <<vars, browser>>

(* The browser holds the cookie of the login that got in. *)
HoldsCookie(l) == login[l].pc = "in"

PanelInit == Init /\ page = "away" /\ redirects = 0

(* The parent opens the panel's address, or one of its pages. *)
OpenPanel ==
  /\ page \in {"away", "form", "shown"}
  /\ page' \in {"login", "children"}
  /\ redirects' = 0
  /\ UNCHANGED vars

SentTo(other) ==
  /\ page' = IF redirects < MaxRedirects THEN other ELSE "gaveUp"
  /\ redirects' = IF redirects < MaxRedirects THEN redirects + 1 ELSE redirects

Shows(what) == page' = what /\ UNCHANGED redirects

(* handleLoginGet: a session that is known is enough to be sent on. *)
LoginGet ==
  /\ page = "login"
  /\ IF \E l \in Logins : HoldsCookie(l) /\ Known(l) THEN SentTo("children") ELSE Shows("form")
  /\ UNCHANGED vars

(* handleChildrenGet behind requireParentSession, which wants it fresh. *)
ChildrenGet ==
  /\ page = "children"
  /\ IF \E l \in Logins : HoldsCookie(l) /\ Admits(l) THEN Shows("shown") ELSE SentTo("login")
  /\ UNCHANGED vars

PanelNext == (Next /\ UNCHANGED browser) \/ OpenPanel \/ LoginGet \/ ChildrenGet

PanelSpec == PanelInit /\ [][PanelNext]_panelVars

----------------------------------------------------------------------------
(* requireParentSession: a parent whose freshness has lapsed is redirected  *)
(* to the login page, where the second factor is asked for again; so the    *)
(* browser comes to rest on a page.                                         *)
BrowserArrives == page # "gaveUp"
=============================================================================
