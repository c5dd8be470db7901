------------------------------ MODULE Gateway ------------------------------
(***************************************************************************)
(* What a request passes between the socket and the worker:                *)
(*                                                                         *)
(*   - the handler of the HTTP server (infrastructure/gateway/server.go)   *)
(*     with the rate limiter (application/gateway/ratelimiter.go);         *)
(*   - Dispatch (application/gateway/dispatcher.go): the lookup of the     *)
(*     route, the token (infrastructure/gateway/jwt.go), the schema of the *)
(*     body (schema.go), the worker and its answer;                        *)
(*   - the reload of the route map (infrastructure/config/loader.go).      *)
(*                                                                         *)
(* A WebSocket upgrade takes another way: handle gives it to the proxy     *)
(* before the check of the method and the rate limiter, so that it uses no *)
(* quota.  What the proxy does with the transport is in ResponseRouting.   *)
(*                                                                         *)
(* Every request has a goroutine of its own.  The circuit breaker, the     *)
(* drainer and the transport have modules of their own: here a request     *)
(* learns their answer.  Time is counted in ticks, of which the window of  *)
(* the rate limiter has Window.                                            *)
(*                                                                         *)
(* A request is a record: its method, the segments of its path, the        *)
(* address it comes from, the Authorization header ("" for none), whether  *)
(* its Content-Type is JSON, the size of its body ("none", "small" or      *)
(* "large", more than MaxBodyBytes) and the versions of the schema that    *)
(* the body satisfies.  One schema is modelled; schemas are independent.   *)
(***************************************************************************)
EXTENDS Integers, RouteMap

CONSTANTS
  Requests,        \* requests, each made once
  Inputs,          \* what they may be
  allowedMethods,  \* allowedMethods
  PerIP, PerToken, \* RateLimiter.perIP, perToken
  Window,          \* RateLimiter.window
  Tokens,          \* the Authorization headers there are
  Roles,           \* the roles in the claims of each of them
  Expiry,          \* the time from which jwt.Validate refuses it
  MaxTime,         \* bound: ticks
  MaxEdits         \* bound: versions of the schema file

IPs == {in.ip : in \in Inputs}

ASSUME GatewayAssumption ==
  /\ PerIP \in Nat \ {0} /\ PerToken \in Nat \ {0}
  /\ Window \in Nat /\ MaxTime \in Nat /\ MaxEdits \in Nat
  /\ IPs \cap Tokens = {}
  /\ \A in \in Inputs : in.token \in Tokens \cup {""} /\ in.segs \in Seq(STRING \ {Param})

VARIABLES
  now,      \* the time
  bucket,   \* ipBuckets and tokBuckets; end is -1 in a bucket never used
  table,    \* the entries the trie in RouteMap.root was built from
  schema,   \* the version of the schema file, 0 while there is none
  cached,   \* the version SchemaValidator.cached holds, 0 for none
  req,      \* the requests; maps is history: those in force since the lookup
  granted   \* history: admissions of each key at each time

limiter == <<now, bucket, granted>>
validator == <<schema, cached>>

Keys == IPs \cup Tokens
Limit(key) == IF key \in IPs THEN PerIP ELSE PerToken

Idle == [pc |-> "idle", in |-> {}, entry |-> {}, params |-> {}, maps |-> {}, claims |-> {},
         version |-> 0, status |-> 0]

GatewayInit ==
  /\ now = 0
  /\ bucket = [k \in Keys |-> [count |-> 0, end |-> -1]]
  /\ schema \in {0, 1}
  /\ cached = schema
  /\ req = [r \in Requests |-> Idle]
  /\ granted = [k \in Keys |-> [t \in 0 .. MaxTime |-> 0]]

Input(r) == CHOOSE in \in req[r].in : TRUE
Entry(r) == CHOOSE e \in req[r].entry : TRUE

\* A response is written and the handler returns.
Reply(r, code) == req' = [req EXCEPT ![r] = [Idle EXCEPT !.pc = "done", !.status = code]]
Go(r, step) == req' = [req EXCEPT ![r].pc = step]

----------------------------------------------------------------------------
\* The rate limiter.

\* Mutant: a new window goes on counting from the old one.
OpenedStillCounting(b) == IF now > b.end THEN [b EXCEPT !.end = now + Window] ELSE b

\* bucket.allow after it has opened a new window if the old one is over.
Opened(b) == IF now > b.end THEN [count |-> 0, end |-> now + Window] ELSE b

Allows(key) == Opened(bucket[key]).count < Limit(key)

\* bucket.allow, for a key that is within its limit and for one that is not.
Grant(key) ==
  /\ Allows(key)
  /\ bucket' = [bucket EXCEPT ![key] = [Opened(bucket[key]) EXCEPT !.count = @ + 1]]
  /\ granted' = [granted EXCEPT ![key][now] = @ + 1]

Refuse(key) ==
  /\ ~ Allows(key)
  /\ bucket' = [bucket EXCEPT ![key] = Opened(@)]
  /\ UNCHANGED granted

----------------------------------------------------------------------------
\* The handler.

\* checkMethod and AllowIP.
Arrive(r, in) ==
  /\ req[r].pc = "idle"
  /\ \/ /\ in.method \notin allowedMethods
        /\ Reply(r, 405)
        /\ UNCHANGED <<bucket, granted>>
     \/ /\ in.method \in allowedMethods
        /\ Refuse(in.ip)
        /\ Reply(r, 429)
     \/ /\ in.method \in allowedMethods
        /\ Grant(in.ip)
        /\ req' = [req EXCEPT ![r].pc = "token", ![r].in = {in}]
  /\ UNCHANGED <<now, table, validator>>

\* AllowToken: a request without a token is not counted.
CheckToken(r) ==
  /\ req[r].pc = "token"
  /\ LET token == Input(r).token IN
     \/ token = "" /\ Go(r, "route") /\ UNCHANGED <<bucket, granted>>
     \/ token # "" /\ Grant(token) /\ Go(r, "route")
     \/ token # "" /\ Refuse(token) /\ Reply(r, 429)
  /\ UNCHANGED <<now, table, validator>>

\* checkContentType, readBody and lookupRoute.
LookupRoute(r) ==
  /\ req[r].pc = "route"
  /\ LET in == Input(r)
         found == Lookup(table, in.method, in.segs)
         json == in.json \/ in.method \notin {"POST", "PUT", "PATCH"}
     IN  \/ ~ json /\ Reply(r, 415)
         \/ json /\ in.body = "large" /\ Reply(r, 413)
         \/ json /\ in.body # "large" /\ found = {} /\ Reply(r, 404)
         \/ /\ json /\ in.body # "large" /\ found # {}
            /\ req' = [req EXCEPT ![r].pc = "auth", ![r].entry = found,
                               ![r].params = Captured(table, in.segs), ![r].maps = {table}]
  /\ UNCHANGED <<limiter, table, validator>>

\* checkCircuitBreaker and checkDrainStatus turn the request away: the
\* response with status 503 of an open circuit comes with an error, for which
\* the server writes 500.
TurnAway(r) ==
  /\ req[r].pc = "auth"
  /\ \E code \in {500, 503} : Reply(r, code)
  /\ UNCHANGED <<limiter, table, validator>>

ValidToken(token) == token # "" /\ now < Expiry[token]

\* validateJWT with hasRequiredRole.
ValidateJWT(r) ==
  /\ req[r].pc = "auth"
  /\ LET token == Input(r).token
         roles == Entry(r).roles
     IN  \/ roles = {} /\ Go(r, "schema")
         \/ roles # {} /\ ~ ValidToken(token) /\ Reply(r, 401)
         \/ /\ roles # {} /\ ValidToken(token) /\ Roles[token] \cap roles = {}
            /\ Reply(r, 403)
         \/ /\ roles # {} /\ ValidToken(token) /\ Roles[token] \cap roles # {}
            /\ req' = [req EXCEPT ![r].pc = "schema", ![r].claims = Roles[token]]
  /\ UNCHANGED <<limiter, table, validator>>

Judge(r, version) ==
  IF version \in Input(r).fits
  THEN req' = [req EXCEPT ![r].pc = "send", ![r].version = version]
  ELSE Reply(r, 400)

\* validateSchema and getSchema: an empty body is not judged, a schema that is
\* not in the cache is compiled from the file.
ValidateSchema(r) ==
  /\ req[r].pc = "schema"
  /\ LET judged == Entry(r).validate # "" /\ Input(r).body # "none" IN
     \/ ~ judged /\ Go(r, "send")
     \/ judged /\ cached # 0 /\ Judge(r, cached)
     \/ judged /\ cached = 0 /\ schema = 0 /\ Reply(r, 400)
     \/ /\ judged /\ cached = 0 /\ schema # 0
        /\ req' = [req EXCEPT ![r].pc = "compile", ![r].version = schema]
  /\ UNCHANGED <<limiter, table, validator>>

\* compile stores what it has read, whatever has been stored meanwhile.
Compiled(r) ==
  /\ req[r].pc = "compile"
  /\ cached' = req[r].version
  /\ Judge(r, req[r].version)
  /\ UNCHANGED <<limiter, table, schema>>

\* Mutant: the worker is looked up anew when the request is sent.
SendByCurrentMap(r) ==
  /\ req[r].pc = "send"
  /\ LET found == Lookup(table, Input(r).method, Input(r).segs) IN
     IF found = {} THEN Reply(r, 500)
     ELSE req' = [req EXCEPT ![r].pc = "sent", ![r].entry = found]
  /\ UNCHANGED <<limiter, table, validator>>

\* sendAndReceive: the request goes to the worker of the entry, or Send fails.
Send(r) ==
  /\ req[r].pc = "send"
  /\ Go(r, "sent") \/ Reply(r, 500)
  /\ UNCHANGED <<limiter, table, validator>>

\* The worker answers with success or failure, or with an error frame or not
\* at all: the server writes 500 for the 502 of the dispatcher.
Answer(r) ==
  /\ req[r].pc = "sent"
  /\ \E code \in {200, 500, 504} : Reply(r, code)
  /\ UNCHANGED <<limiter, table, validator>>

----------------------------------------------------------------------------
\* SIGHUP: reloadRouteMap swaps in what it has read, in one store.
Swap(entries) ==
  /\ table # entries
  /\ table' = entries
  /\ req' = [r \in Requests |->
               [req[r] EXCEPT !.maps = IF @ = {} THEN {} ELSE @ \cup {entries}]]
  /\ UNCHANGED <<limiter, validator>>

\* The file of the schema is written anew.
EditSchema ==
  /\ schema < MaxEdits
  /\ schema' = schema + 1
  /\ UNCHANGED <<limiter, table, cached, req>>

Tick ==
  /\ now < MaxTime
  /\ now' = now + 1
  /\ UNCHANGED <<bucket, granted, table, validator, req>>

Handle(r) ==
  \/ \E in \in Inputs : Arrive(r, in)
  \/ CheckToken(r) \/ LookupRoute(r) \/ TurnAway(r) \/ ValidateJWT(r)
  \/ ValidateSchema(r) \/ Compiled(r) \/ Send(r) \/ Answer(r)
=============================================================================
