------------------------------ MODULE Serving ------------------------------
(***************************************************************************)
(* From the annotations to the worker: vyx annotate writes route_map.json  *)
(* (Scanner), a core that serves the old map is told to reload it, and the *)
(* requests that come in meanwhile (Gateway) are routed by the one or the  *)
(* other (RouteMap).                                                       *)
(***************************************************************************)
EXTENDS Scanner, Gateway

CONSTANT MaxRoutes  \* bound: routes in a map that is served

\* A list of routes with paths that Segments knows.
IsMap(m) == /\ m \in Seq(Range(m))
            /\ \A i \in DOMAIN m : m[i].path \in DOMAIN Segments

ASSUME ServingAssumption ==
  /\ MaxRoutes \in Nat
  /\ \A l \in Lines : /\ l.kind = "route" => l.path \in DOMAIN Segments
                      /\ l.kind = "page" => l.path \in DOMAIN Segments \cup {""}
  /\ IsMap(OldMap)

vars == <<scan, written, limiter, table, validator, req>>

Init ==
  /\ ScannerInit
  /\ GatewayInit
  /\ table = OldMap

\* Requests that are over before the new map is written are left out: they
\* meet the old map only.
Serve ==
  /\ Exited /\ Len(written) <= MaxRoutes
  /\ (\E r \in Requests : Handle(r)) \/ Swap(written) \/ EditSchema \/ Tick
  /\ UNCHANGED <<scan, written>>

Next ==
  \/ ScannerNext /\ UNCHANGED <<limiter, table, validator, req>>
  \/ Serve

Spec == Init /\ [][Next]_vars

----------------------------------------------------------------------------
AtWorker(r) == req[r].pc = "sent"

\* Roles are not lent out (the pending annotations of the parsers).  A route
\* whose own comment block has an @Auth gets the roles of the last one in it, and
\* not those of another block, unless the route is still pending when its block
\* is over, which a Python class line and a blank line of a TSX file do not
\* prevent, and another @Auth follows.  The block of a TSX page begins with its
\* @Page: parseTSXFile drops an @Auth above it.  And no @Auth line gives its
\* roles to two routes, even where a route without one gets the roles of an
\* earlier block.
RolesAreItsOwn ==
  \A i \in DOMAIN routes :
    /\ taken[i].own # {} /\ ~ taken[i].stray => routes[i].roles = taken[i].own
    /\ \A j \in DOMAIN routes : i # j /\ taken[i].at = taken[j].at => taken[i].at = 0

\* Lookup finds in the trie what its comment promises without one, for every
\* map the scanner writes and every method and path asked for; the one exception is a promised
\* route that a more static node of the trie hides, which is a 404.
LookupAsPromised ==
  file = Len(Files) + 1 =>
    \A method \in {in.method : in \in Inputs}, segs \in {in.segs : in \in Inputs} :
      LET got == Lookup(written, method, segs) IN
      \/ got = Promised(written, method, segs)
      \/ got = {} /\ Shadowed(written, method, segs)

\* From the annotation to the worker: no request reaches a worker through an
\* api route unless its token carries one of the roles of that route, whatever
\* was annotated, and whichever maps were in force meanwhile.
ApiCallersAreAuthorised ==
  \A r \in Requests : AtWorker(r) /\ Entry(r).type = "api" =>
    /\ Input(r).token # ""
    /\ Roles[Input(r).token] \cap Entry(r).roles # {}

\* A request is held to one map: the entry by which it was authorised, checked
\* and sent, and the parameters it carries, are what a single map had for it, a
\* map in force while it was dispatched, and its body satisfies a version of the
\* schema that entry names.
HeldToOneMap ==
  \A r \in Requests : AtWorker(r) =>
    /\ \E m \in req[r].maps :
         /\ Lookup(m, Input(r).method, Input(r).segs) = req[r].entry
         /\ Captured(m, Input(r).segs) = req[r].params
    /\ Entry(r).roles # {} => req[r].claims \cap Entry(r).roles # {}
    /\ Entry(r).validate # "" /\ Input(r).body # "none" =>
         req[r].version \in Input(r).fits \cap 1 .. schema

\* The sum of g over the ticks before t.
SumBefore(g, t) ==
  LET sum[i \in 0 .. MaxTime + 1] == IF i = 0 THEN 0 ELSE sum[i - 1] + g[i - 1]
  IN  sum[IF t < 0 THEN 0 ELSE IF t > MaxTime THEN MaxTime + 1 ELSE t]

Granted(key, from, to) == SumBefore(granted[key], to + 1) - SumBefore(granted[key], from)

\* The fixed windows of the rate limiter: within any stretch of one Window a key
\* is let through less than twice its limit, and it is refused only when it has
\* used up its limit within the last Window.  (WebSocket upgrades are not
\* counted at all: handle hands them over before it asks the limiter.)
QuotaIsKept ==
  \A key \in Keys :
    /\ \A t \in 0 .. now : Granted(key, t, t + Window) < 2 * Limit(key)
    /\ ~ Allows(key) => Granted(key, now - Window, now) >= Limit(key)
=============================================================================
