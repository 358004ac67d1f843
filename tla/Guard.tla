-------------------------------- MODULE Guard -------------------------------
(***************************************************************************)
(* One outbound request behind app/security/ssrf_guard.py: safe_request,   *)
(* which walks the redirects of an API call itself, and the Playwright     *)
(* route handler, which does the same for a document a browser opens.      *)
(*                                                                         *)
(* A name is looked up when its URL is vetted and again when it is dialled *)
(* and the resolver may answer differently in between (Rebind).  An API    *)
(* call vets the very answer it dials; route.fetch resolves for itself.    *)
(* Subresources and WebSockets are vetted once and followed by the browser *)
(* on its own; they are left out.                                          *)
(***************************************************************************)
EXTENDS Naturals

CONSTANTS
  Hosts,         \* host names a URL may carry
  BadUrl,        \* a URL without a host, or with a scheme that is not http(s)
  Addresses,     \* what a name may resolve to
  Private,       \* the addresses _is_disallowed_ip rejects
  MaxRedirects,  \* _DEFAULT_MAX_REDIRECTS
  MaxRebinds     \* how often the resolver changes its mind

ASSUME GuardAssumption ==
  /\ Private \subseteq Addresses
  /\ BadUrl \notin Hosts
  /\ MaxRedirects \in Nat /\ MaxRebinds \in Nat

VARIABLES
  dns,      \* what each name resolves to now; nothing if it does not resolve
  rebinds,  \* how often that has changed
  via,      \* who makes the request
  gpc,      \* where it is
  url,      \* current_url
  hops,     \* requests sent so far
  conns,    \* hosts the session keeps a connection to
  dialed    \* history: the addresses connected to, by the kind of request

guard == <<dns, rebinds, via, gpc, url, hops, conns, dialed>>

Urls  == Hosts \cup {BadUrl}
Kinds == {"plain", "api", "document"}

GuardTypeOK ==
  /\ dns \in [Hosts -> SUBSET Addresses]
  /\ rebinds \in 0..MaxRebinds
  /\ via \in Kinds
  /\ gpc \in {"idle", "vet", "dial", "sent", "answered", "raised"}
  /\ url \in Urls
  /\ hops \in 0..(MaxRedirects + 1)
  /\ conns \subseteq Hosts
  /\ dialed \in [Kinds -> SUBSET Addresses]

GuardInit ==
  /\ dns \in [Hosts -> SUBSET Addresses]
  /\ rebinds = 0
  /\ via = "plain"
  /\ gpc = "idle"
  /\ url = BadUrl
  /\ hops = 0
  /\ conns = {}
  /\ dialed = [k \in Kinds |-> {}]

-----------------------------------------------------------------------------
\* The resolver answers, and every answer is public.
Safe(u) == u \in Hosts /\ dns[u] # {} /\ dns[u] \cap Private = {}

(* An adapter starts a request.  A plain one goes to a fixed, trusted API  *)
(* host with requests.get: nothing is vetted and requests follows redirects.*)
StartRequest(kind, u) ==
  /\ gpc = "idle"
  /\ via' = kind
  /\ url' = u
  /\ gpc' = IF kind = "plain" THEN "sent" ELSE "vet"
  /\ hops' = 0
  /\ conns' = {}
  /\ UNCHANGED <<dns, rebinds, dialed>>

(* assert_safe_url on the first URL and on every Location, and the end of  *)
(* the loop over max_redirects + 1 requests.                               *)
Vet ==
  /\ gpc = "vet"
  /\ gpc' = IF Safe(url) /\ hops <= MaxRedirects THEN "dial" ELSE "raised"
  /\ UNCHANGED <<dns, rebinds, via, url, hops, conns, dialed>>

Connected(addr) ==
  /\ gpc' = "sent"
  /\ hops' = hops + 1
  /\ conns' = conns \cup {url}
  /\ dialed' = [dialed EXCEPT ![via] = @ \cup {addr}]

(* _PinnedConnectionMixin._new_conn: resolve, reject if any answer is not  *)
(* public, dial an address of that same answer.                            *)
DialUnpinned ==
  /\ gpc = "dial" /\ via = "api"
  /\ \E addr \in dns[url] : Connected(addr)
  /\ UNCHANGED <<dns, rebinds, via, url>>

DialPinned ==
  /\ gpc = "dial" /\ via = "api"
  /\ IF Safe(url)
     THEN \E addr \in dns[url] : Connected(addr)
     ELSE gpc' = "raised" /\ UNCHANGED <<hops, conns, dialed>>
  /\ UNCHANGED <<dns, rebinds, via, url>>

(* The session keeps the connection of an earlier hop to the same host.    *)
Reuse ==
  /\ gpc = "dial" /\ via = "api"
  /\ url \in conns
  /\ gpc' = "sent"
  /\ hops' = hops + 1
  /\ UNCHANGED <<dns, rebinds, via, url, conns, dialed>>

(* route.fetch(max_redirects=0): Playwright resolves the name once more.   *)
RouteFetch ==
  /\ gpc = "dial" /\ via = "document"
  /\ \E addr \in dns[url] : Connected(addr)
  /\ UNCHANGED <<dns, rebinds, via, url>>

\* A timeout, a refused connection, an HTTP error; the route is aborted.
NetworkError ==
  /\ gpc \in {"dial", "sent"}
  /\ gpc' = "raised"
  /\ UNCHANGED <<dns, rebinds, via, url, hops, conns, dialed>>

(* The final answer, or a redirect without a Location, is handed on ...    *)
Answer ==
  /\ gpc = "sent"
  /\ gpc' = "answered"
  /\ UNCHANGED <<dns, rebinds, via, url, hops, conns, dialed>>

(* ... a redirect with one is not followed before it is vetted.            *)
Redirect(u) ==
  /\ gpc = "sent" /\ via # "plain"
  /\ url' = u
  /\ gpc' = "vet"
  /\ UNCHANGED <<dns, rebinds, via, hops, conns, dialed>>

Rebind(h) ==
  /\ rebinds < MaxRebinds
  /\ gpc \notin {"idle", "answered", "raised"}
  /\ \E answer \in SUBSET Addresses \ {dns[h]} : dns' = [dns EXCEPT ![h] = answer]
  /\ rebinds' = rebinds + 1
  /\ UNCHANGED <<via, gpc, url, hops, conns, dialed>>

GuardStep ==
  \/ Vet \/ DialPinned \/ Reuse \/ RouteFetch \/ NetworkError \/ Answer
  \/ \E u \in Urls : Redirect(u)

-----------------------------------------------------------------------------
(* Whatever the names resolve to and wherever a server redirects, an API   *)
(* call never connects to a private address, and a browser's document only *)
(* when the resolver changed its answer after the URL was vetted: the      *)
(* window make_websocket_route_handler's comment (ssrf_guard.py:257)       *)
(* admits for the browser and _new_conn closes for the session.            *)
OnlyPublicDialed ==
  /\ dialed["api"] \cap Private = {}
  /\ dialed["document"] \cap Private # {} => rebinds > 0
=============================================================================
