--------------------------- MODULE ServingProofs ---------------------------
(***************************************************************************)
(* Proofs about Serving, for any files, maps, requests, tokens, limits and *)
(* any number of ticks.                                                    *)
(*                                                                         *)
(* The model computes with recursive functions: the trie entry by entry,   *)
(* traverse segment by segment, the admissions tick by tick.  What they    *)
(* compute is proved by induction over a set of numbers: the set of those  *)
(* for which the claim holds has 0 and with each number the next, so it is *)
(* Nat.                                                                    *)
(***************************************************************************)
EXTENDS Serving, SequenceTheorems, WellFoundedInduction, TLAPS

-----------------------------------------------------------------------------
(* Induction *)

\* Every set of numbers that is not empty has a least one.
LEMMA LeastNumber ==
  ASSUME NEW T \in SUBSET Nat, T # {}
  PROVE  \E x \in T : \A y \in T : x <= y
<1> DEFINE R == OpToRel(<, Nat)
<1>1. IsWellFoundedOn(R, Nat)
  BY NatLessThanWellFounded
<1>2. \A y, x \in Nat : y < x => <<y, x>> \in R
  BY DEF OpToRel
<1> HIDE DEF R
<1>3. PICK x \in T : \A y \in T : ~ (<<y, x>> \in R)
  BY <1>1, WFMin
<1>4. \A y \in T : x <= y
  <2> SUFFICES ASSUME NEW y \in T, y < x PROVE FALSE
    OBVIOUS
  <2>1. <<y, x>> \in R
    BY <1>2
  <2> QED BY <1>3, <2>1
<1> QED BY <1>4

\* A set of numbers that has 0 and with each number the next has them all.
LEMMA NumbersByInduction ==
  ASSUME NEW S \in SUBSET Nat, 0 \in S, \A n \in S : n + 1 \in S
  PROVE  S = Nat
<1> SUFFICES ASSUME Nat \ S # {} PROVE FALSE
  OBVIOUS
<1>1. PICK x \in Nat \ S : \A y \in Nat \ S : x <= y
  BY LeastNumber
<1>2. x - 1 \in Nat /\ x - 1 \in S
  BY <1>1
<1> QED BY <1>1, <1>2

-----------------------------------------------------------------------------
(* The trie *)

\* The trie after the first n entries, for each n up to k.
IsBuilt(f, entries, k) ==
  f = [n \in 0 .. k |-> IF n = 0 THEN newRouteNode ELSE Insert(f[n - 1], entries[n])]

\* There is such a function: it is extended by one entry at a time.
LEMMA BuiltExists ==
  ASSUME NEW entries
  PROVE  \A k \in Nat : \E f : IsBuilt(f, entries, k)
<1> DEFINE S == {k \in Nat : \E f : IsBuilt(f, entries, k)}
<1>1. 0 \in S
  <2> DEFINE f == [n \in 0 .. 0 |-> newRouteNode]
  <2>1. IsBuilt(f, entries, 0)
    BY DEF IsBuilt
  <2> HIDE DEF f
  <2> QED BY <2>1
<1>2. ASSUME NEW k \in S PROVE k + 1 \in S
  <2>1. PICK f : IsBuilt(f, entries, k)
    OBVIOUS
  <2> DEFINE g == [n \in 0 .. k + 1 |-> IF n = k + 1 THEN Insert(f[k], entries[k + 1]) ELSE f[n]]
  <2>2. ASSUME NEW n \in 0 .. k + 1
        PROVE  g[n] = IF n = 0 THEN newRouteNode ELSE Insert(g[n - 1], entries[n])
    <3>1. CASE n = k + 1
      BY <3>1
    <3>2. CASE n # k + 1
      BY <3>2, <2>1 DEF IsBuilt
    <3> QED BY <3>1, <3>2
  <2>3. IsBuilt(g, entries, k + 1)
    BY <2>2 DEF IsBuilt
  <2> HIDE DEF g
  <2> QED BY <2>3
<1> HIDE DEF S
<1>3. S = Nat
  BY <1>1, <1>2, NumbersByInduction DEF S
<1> QED BY <1>3 DEF S

\* buildTrie is its value at the last entry.
LEMMA TrieIsBuilt ==
  ASSUME NEW entries, Len(entries) \in Nat
  PROVE  \E f : IsBuilt(f, entries, Len(entries)) /\ buildTrie(entries) = f[Len(entries)]
<1> DEFINE f == CHOOSE f : IsBuilt(f, entries, Len(entries))
<1>1. IsBuilt(f, entries, Len(entries))
  BY BuiltExists, Zenon
<1>2. buildTrie(entries) = f[Len(entries)]
  BY DEF buildTrie, IsBuilt
<1> HIDE DEF f
<1> QED BY <1>1, <1>2

\* The entries of the trie are entries of the map.
LEMMA InsertKeeps ==
  ASSUME NEW trie, NEW e, NEW R, \A k \in DOMAIN trie.entries : trie.entries[k] \in R, e \in R
  PROVE  \A k \in DOMAIN Insert(trie, e).entries : Insert(trie, e).entries[k] \in R
<1> DEFINE key == <<Shape(e.path), e.method>>
<1>1. Insert(trie, e).entries = [k \in DOMAIN trie.entries \cup {key} |->
                                   IF k = key THEN e ELSE trie.entries[k]]
  BY DEF Insert
<1> HIDE DEF key
<1> QED BY <1>1

\* So are those of the whole trie.
LEMMA TrieKeeps ==
  ASSUME NEW entries, NEW R, entries \in Seq(R)
  PROVE  \A k \in DOMAIN buildTrie(entries).entries : buildTrie(entries).entries[k] \in R
<1>1. PICK f : IsBuilt(f, entries, Len(entries)) /\ buildTrie(entries) = f[Len(entries)]
  BY TrieIsBuilt
<1> DEFINE S == {n \in Nat : n <= Len(entries) =>
                               \A k \in DOMAIN f[n].entries : f[n].entries[k] \in R}
<1>2. 0 \in S
  <2>1. f[0] = newRouteNode
    BY <1>1 DEF IsBuilt
  <2> QED BY <2>1 DEF newRouteNode
<1>3. ASSUME NEW n \in S PROVE n + 1 \in S
  <2> SUFFICES ASSUME n + 1 <= Len(entries)
               PROVE  \A k \in DOMAIN f[n + 1].entries : f[n + 1].entries[k] \in R
    OBVIOUS
  <2>1. f[n + 1] = Insert(f[n], entries[n + 1])
    BY <1>1 DEF IsBuilt
  <2>2. entries[n + 1] \in R
    OBVIOUS
  <2>3. \A k \in DOMAIN f[n].entries : f[n].entries[k] \in R
    OBVIOUS
  <2> HIDE DEF S
  <2> QED BY <2>1, <2>2, <2>3, InsertKeeps
<1> HIDE DEF S
<1>4. S = Nat
  BY <1>2, <1>3, NumbersByInduction DEF S
<1> QED BY <1>1, <1>4 DEF S

\* What Lookup returns stands in the map.
LEMMA LookupKeeps ==
  ASSUME NEW entries, NEW R, entries \in Seq(R), NEW method, NEW segs
  PROVE  Lookup(entries, method, segs) \subseteq R
BY TrieKeeps DEF Lookup

-----------------------------------------------------------------------------
(* The requests *)

\* Input and Entry of a request, whatever its name.
InputOf(q) == CHOOSE in \in q.in : TRUE
EntryOf(q) == CHOOSE e \in q.entry : TRUE

\* The steps of Dispatch after the lookup, and after validateJWT.
Routed == {"auth", "schema", "compile", "send", "sent"}
Authorised == Routed \ {"auth"}

\* The map a request is held to was in force since its lookup.
MapHeld(q) ==
  q.pc \in Routed =>
    /\ q.entry # {}
    /\ \E m \in q.maps : /\ Lookup(m, InputOf(q).method, InputOf(q).segs) = q.entry
                         /\ Captured(m, InputOf(q).segs) = q.params

\* A route that asks for roles was passed with a token that has one of them,
\* and the claims are those of that token.
RoleHeld(q) ==
  q.pc \in Authorised /\ EntryOf(q).roles # {} =>
    /\ InputOf(q).token # ""
    /\ q.claims = Roles[InputOf(q).token]
    /\ q.claims \cap EntryOf(q).roles # {}

\* The version a request compiles, or was judged by, is one the file has had.
VersionHeld(q, n) ==
  /\ q.pc = "compile" => q.version \in 1 .. n
  /\ q.pc \in {"send", "sent"} /\ EntryOf(q).validate # "" /\ InputOf(q).body # "none" =>
       q.version \in InputOf(q).fits \cap 1 .. n

\* A request has the fields of one.
IsRequest(q) ==
  q = [pc |-> q.pc, in |-> q.in, entry |-> q.entry, params |-> q.params, maps |-> q.maps,
       claims |-> q.claims, version |-> q.version, status |-> q.status]

Held(q, n) == IsRequest(q) /\ MapHeld(q) /\ RoleHeld(q) /\ VersionHeld(q, n)

\* Every request is held to what it found, was authorised by and was judged by.
HeldInv ==
  /\ schema \in Nat /\ cached \in 0 .. schema
  /\ req = [r \in Requests |-> req[r]]
  /\ \A r \in Requests : Held(req[r], schema)

\* A version the file has had, it has had for ever.
LEMMA HeldGrows ==
  ASSUME NEW q, NEW n \in Nat, NEW m \in Nat, n <= m, Held(q, n)
  PROVE  Held(q, m)
<1>1. 1 .. n \subseteq 1 .. m
  OBVIOUS
<1>2. VersionHeld(q, n) => VersionHeld(q, m)
  BY <1>1, Zenon DEF VersionHeld
<1> QED BY <1>2, Zenon DEF Held

\* One request is somewhere else, and the schema file has grown at most.
LEMMA HeldStep ==
  ASSUME HeldInv, NEW r \in Requests, NEW q, req' = [req EXCEPT ![r] = q],
         Held(q, schema), UNCHANGED schema, cached' \in 0 .. schema
  PROVE  HeldInv'
<1>1. ASSUME NEW s \in Requests PROVE Held(req'[s], schema)
  BY <1>1 DEF HeldInv
<1>2. req' = [s \in Requests |-> req'[s]]
  BY DEF HeldInv
<1> QED BY <1>1, <1>2 DEF HeldInv

\* A request that has not begun or is over is held to nothing.
LEMMA OverHeld ==
  ASSUME NEW n, NEW q, q.pc \in {"idle", "done"}, NEW pc, NEW status,
         q = [pc |-> pc, in |-> {}, entry |-> {}, params |-> {}, maps |-> {}, claims |-> {},
              version |-> 0, status |-> status]
  PROVE  Held(q, n)
<1>2. q.pc \notin Routed /\ q.pc \notin Authorised 
  BY DEF Routed, Authorised
<1>3. IsRequest(q)
  BY DEF IsRequest
<1>4. q.pc \notin {"compile", "send", "sent"}
  OBVIOUS
<1>5. MapHeld(q) /\ RoleHeld(q) /\ VersionHeld(q, n)
  BY <1>2, <1>4, Zenon DEF MapHeld, RoleHeld, VersionHeld
<1> QED BY <1>3, <1>5, Zenon DEF Held

\* A response keeps HeldInv.
LEMMA ReplyHolds ==
  ASSUME HeldInv, NEW r \in Requests, NEW code, Reply(r, code),
         UNCHANGED schema, cached' \in 0 .. schema
  PROVE  HeldInv'
<1>1. PICK q : q = [Idle EXCEPT !.pc = "done", !.status = code]
  OBVIOUS
<1>2. q = [pc |-> "done", in |-> {}, entry |-> {}, params |-> {}, maps |-> {}, claims |-> {},
           version |-> 0, status |-> code]
  BY <1>1 DEF Idle
<1>3. Held(q, schema)
  BY <1>2, OverHeld
<1>4. req' = [req EXCEPT ![r] = q]
  BY <1>1 DEF Reply
<1> QED BY <1>3, <1>4, HeldStep

\* What a request found, and what it was authorised by, it keeps.
LEMMA KeepsMap ==
  ASSUME NEW p, NEW q, MapHeld(p), p.pc \in Routed,
         q.in = p.in, q.entry = p.entry, q.params = p.params, q.maps = p.maps
  PROVE  MapHeld(q)
BY Zenon DEF MapHeld, InputOf

LEMMA KeepsRole ==
  ASSUME NEW p, NEW q, RoleHeld(p), p.pc \in Authorised,
         q.in = p.in, q.entry = p.entry, q.claims = p.claims
  PROVE  RoleHeld(q)
BY Zenon DEF RoleHeld, InputOf, EntryOf

\* Go changes nothing of a request but its step.
LEMMA GoGivesStep ==
  ASSUME HeldInv, NEW r \in Requests, NEW step, Go(r, step)
  PROVE  \E q : /\ req' = [req EXCEPT ![r] = q]
                /\ q = [req[r] EXCEPT !.pc = step]
                /\ IsRequest(q) /\ q.pc = step
                /\ q.in = req[r].in /\ q.entry = req[r].entry /\ q.params = req[r].params
                /\ q.maps = req[r].maps /\ q.claims = req[r].claims
                /\ q.version = req[r].version
<1> PICK p : p = req[r]
  OBVIOUS
<1>1. IsRequest(p)
  BY DEF HeldInv, Held
<1>2. PICK q : q = [p EXCEPT !.pc = step]
  OBVIOUS
<1>3. q = [pc |-> step, in |-> p.in, entry |-> p.entry, params |-> p.params, maps |-> p.maps,
           claims |-> p.claims, version |-> p.version, status |-> p.status]
  BY <1>1, <1>2 DEF IsRequest
<1>4. req' = [req EXCEPT ![r] = q]
  BY <1>2 DEF Go
<1>5. IsRequest(q)
  BY <1>3 DEF IsRequest
<1> QED BY <1>2, <1>3, <1>4, <1>5

\* A request that was not routed yet has only to be a request.
LEMMA UnroutedHeld ==
  ASSUME NEW q, NEW n, IsRequest(q), q.pc \in {"token", "route"}
  PROVE  Held(q, n)
<1>1. q.pc \notin Routed /\ q.pc \notin Authorised /\ q.pc \notin {"compile", "send", "sent"}
  BY DEF Routed, Authorised
<1> QED BY <1>1, Zenon DEF Held, MapHeld, RoleHeld, VersionHeld

\* The operations of a request, one after the other.
LEMMA ArriveHolds ==
  ASSUME HeldInv, NEW r \in Requests, NEW in \in Inputs, Arrive(r, in)
  PROVE  HeldInv'
<1>1. UNCHANGED schema /\ cached' \in 0 .. schema
  BY DEF Arrive, validator, HeldInv
<1>2. CASE \E code : Reply(r, code)
  BY <1>1, <1>2, ReplyHolds
<1>3. CASE req' = [req EXCEPT ![r].pc = "token", ![r].in = {in}]
  <2>1. PICK p : p = req[r] /\ IsRequest(p)
    BY DEF HeldInv, Held
  <2>2. PICK q : q = [p EXCEPT !.pc = "token", !.in = {in}]
    OBVIOUS
  <2>3. q = [pc |-> "token", in |-> {in}, entry |-> p.entry, params |-> p.params,
             maps |-> p.maps, claims |-> p.claims, version |-> p.version, status |-> p.status]
    BY <2>1, <2>2 DEF IsRequest
  <2>4. req' = [req EXCEPT ![r] = q]
    BY <1>3, <2>1, <2>2 DEF HeldInv
  <2>5. IsRequest(q) /\ q.pc = "token"
    BY <2>3 DEF IsRequest
  <2> QED BY <1>1, <2>4, <2>5, UnroutedHeld, HeldStep
<1> QED BY <1>2, <1>3 DEF Arrive

LEMMA CheckTokenHolds ==
  ASSUME HeldInv, NEW r \in Requests, CheckToken(r)
  PROVE  HeldInv'
<1>1. UNCHANGED schema /\ cached' \in 0 .. schema
  BY DEF CheckToken, validator, HeldInv
<1>2. CASE \E code : Reply(r, code)
  BY <1>1, <1>2, ReplyHolds
<1>3. CASE Go(r, "route")
  <2>1. PICK q : req' = [req EXCEPT ![r] = q] /\ IsRequest(q) /\ q.pc = "route"
    BY <1>3, GoGivesStep
  <2> QED BY <1>1, <2>1, UnroutedHeld, HeldStep
<1> QED BY <1>2, <1>3 DEF CheckToken

LEMMA LookupRouteHolds ==
  ASSUME HeldInv, NEW r \in Requests, LookupRoute(r)
  PROVE  HeldInv'
<1>1. UNCHANGED schema /\ cached' \in 0 .. schema
  BY DEF LookupRoute, validator, HeldInv
<1>2. CASE \E code : Reply(r, code)
  BY <1>1, <1>2, ReplyHolds
<1>3. PICK p : p = req[r] /\ IsRequest(p)
  BY DEF HeldInv, Held
<1>4. PICK in, m : in = InputOf(p) /\ m = table
  OBVIOUS
<1>5. PICK found, params : /\ found = Lookup(m, in.method, in.segs)
                           /\ params = Captured(m, in.segs)
  OBVIOUS
<1>6. CASE /\ found # {}
           /\ req' = [req EXCEPT ![r].pc = "auth", ![r].entry = found,
                                 ![r].params = params, ![r].maps = {m}]
  <2>2. PICK q : q = [p EXCEPT !.pc = "auth", !.entry = found, !.params = params,
                               !.maps = {m}]
    OBVIOUS
  <2>3. q = [pc |-> "auth", in |-> p.in, entry |-> found, params |-> params,
             maps |-> {m}, claims |-> p.claims, version |-> p.version, status |-> p.status]
    BY <1>3, <2>2 DEF IsRequest
  <2>4. req' = [req EXCEPT ![r] = q]
    BY <1>3, <1>6, <2>2 DEF HeldInv
  <2>5. IsRequest(q) /\ q.pc = "auth"
    BY <2>3 DEF IsRequest
  <2>6. InputOf(q) = in
    BY <1>4, <2>3 DEF InputOf
  <2>7. MapHeld(q)
    BY <1>5, <1>6, <2>3, <2>6 DEF MapHeld
  <2>8. RoleHeld(q) /\ VersionHeld(q, schema)
    BY <2>5 DEF RoleHeld, VersionHeld, Authorised
  <2> QED BY <1>1, <2>4, <2>5, <2>7, <2>8, HeldStep DEF Held
<1>7. InputOf(p) = Input(r)
  BY <1>3 DEF InputOf, Input
<1>8. \/ \E code : Reply(r, code)
      \/ /\ found # {}
         /\ req' = [req EXCEPT ![r].pc = "auth", ![r].entry = found,
                               ![r].params = params, ![r].maps = {m}]
  BY <1>3, <1>4, <1>5, <1>7 DEF LookupRoute
<1> QED BY <1>2, <1>6, <1>8

LEMMA RepliesHold ==
  ASSUME HeldInv, NEW r \in Requests, TurnAway(r) \/ Answer(r)
  PROVE  HeldInv'
<1>1. UNCHANGED schema /\ cached' \in 0 .. schema
  BY DEF TurnAway, Answer, validator, HeldInv
<1>2. \E code : Reply(r, code)
  BY DEF TurnAway, Answer
<1> QED BY <1>1, <1>2, ReplyHolds

LEMMA ValidateJWTHolds ==
  ASSUME HeldInv, NEW r \in Requests, ValidateJWT(r)
  PROVE  HeldInv'
<1>1. UNCHANGED schema /\ cached' \in 0 .. schema
  BY DEF ValidateJWT, validator, HeldInv
<1>2. CASE \E code : Reply(r, code)
  BY <1>1, <1>2, ReplyHolds
<1>3. PICK p : p = req[r] /\ IsRequest(p) /\ MapHeld(p) /\ p.pc = "auth" /\ p.pc \in Routed
  BY DEF HeldInv, Held, ValidateJWT, Routed
<1>4. InputOf(p) = Input(r) /\ EntryOf(p) = Entry(r)
  BY <1>3 DEF InputOf, Input, EntryOf, Entry
<1>5. CASE EntryOf(p).roles = {} /\ Go(r, "schema")
  <2>1. PICK q : /\ req' = [req EXCEPT ![r] = q] /\ IsRequest(q) /\ q.pc = "schema"
                 /\ q.in = p.in /\ q.entry = p.entry /\ q.params = p.params /\ q.maps = p.maps
    BY <1>3, <1>5, GoGivesStep
  <2>2. MapHeld(q)
    BY <1>3, <2>1, KeepsMap
  <2>3. EntryOf(q).roles = {}
    BY <1>5, <2>1 DEF EntryOf
  <2>4. RoleHeld(q) /\ VersionHeld(q, schema)
    BY <2>1, <2>3 DEF RoleHeld, VersionHeld
  <2> QED BY <1>1, <2>1, <2>2, <2>4, HeldStep DEF Held
<1>6. PICK claims : claims = Roles[InputOf(p).token]
  OBVIOUS
<1>7. CASE /\ InputOf(p).token # "" /\ claims \cap EntryOf(p).roles # {}
           /\ req' = [req EXCEPT ![r].pc = "schema", ![r].claims = claims]
  <2>2. PICK q : q = [p EXCEPT !.pc = "schema", !.claims = claims]
    OBVIOUS
  <2>3. q = [pc |-> "schema", in |-> p.in, entry |-> p.entry, params |-> p.params,
             maps |-> p.maps, claims |-> claims, version |-> p.version, status |-> p.status]
    BY <1>3, <2>2 DEF IsRequest
  <2>4. req' = [req EXCEPT ![r] = q]
    BY <1>3, <1>7, <2>2 DEF HeldInv
  <2>5. IsRequest(q) /\ q.pc = "schema"
    BY <2>3 DEF IsRequest
  <2>6. MapHeld(q)
    BY <1>3, <2>3, KeepsMap
  <2>7. InputOf(q) = InputOf(p) /\ EntryOf(q) = EntryOf(p)
    BY <2>3 DEF InputOf, EntryOf
  <2>8. q.claims = claims
    BY <2>3
  <2>9. RoleHeld(q)
    BY <1>6, <1>7, <2>7, <2>8, Zenon DEF RoleHeld
  <2>10. VersionHeld(q, schema)
    BY <2>5 DEF VersionHeld
  <2> QED BY <1>1, <2>4, <2>5, <2>6, <2>9, <2>10, HeldStep DEF Held
<1>8. \/ \E code : Reply(r, code)
      \/ EntryOf(p).roles = {} /\ Go(r, "schema")
      \/ /\ InputOf(p).token # "" /\ claims \cap EntryOf(p).roles # {}
         /\ req' = [req EXCEPT ![r].pc = "schema", ![r].claims = claims]
  BY <1>4, <1>6, Zenon DEF ValidateJWT, ValidToken
<1> QED BY <1>2, <1>5, <1>7, <1>8

\* The verdict on a body, by a version of the schema file.
LEMMA JudgeHolds ==
  ASSUME HeldInv, NEW r \in Requests, NEW version \in 1 .. schema, Judge(r, version),
         req[r].pc \in {"schema", "compile"}, UNCHANGED schema, cached' \in 0 .. schema
  PROVE  HeldInv'
<1>1. CASE Reply(r, 400)
  BY <1>1, ReplyHolds
<1>2. CASE /\ version \in Input(r).fits
           /\ req' = [req EXCEPT ![r].pc = "send", ![r].version = version]
  <2>1. PICK p : /\ p = req[r] /\ IsRequest(p) /\ MapHeld(p) /\ RoleHeld(p)
                 /\ p.pc \in Routed /\ p.pc \in Authorised
    BY DEF HeldInv, Held, Routed, Authorised
  <2>2. PICK q : q = [p EXCEPT !.pc = "send", !.version = version]
    OBVIOUS
  <2>3. q = [pc |-> "send", in |-> p.in, entry |-> p.entry, params |-> p.params,
             maps |-> p.maps, claims |-> p.claims, version |-> version, status |-> p.status]
    BY <2>1, <2>2 DEF IsRequest
  <2>4. req' = [req EXCEPT ![r] = q]
    BY <1>2, <2>1, <2>2 DEF HeldInv
  <2>5. IsRequest(q) /\ q.pc = "send" /\ q.version = version
    BY <2>3 DEF IsRequest
  <2>6. MapHeld(q) /\ RoleHeld(q)
    BY <2>1, <2>3, KeepsMap, KeepsRole
  <2>7. InputOf(q) = Input(r)
    BY <2>1, <2>3 DEF InputOf, Input
  <2>8. VersionHeld(q, schema)
    BY <1>2, <2>5, <2>7 DEF VersionHeld
  <2> QED BY <2>4, <2>5, <2>6, <2>8, HeldStep DEF Held
<1> QED BY <1>1, <1>2 DEF Judge

LEMMA ValidateSchemaHolds ==
  ASSUME HeldInv, NEW r \in Requests, ValidateSchema(r)
  PROVE  HeldInv'
<1>1. UNCHANGED schema /\ cached' \in 0 .. schema
  BY DEF ValidateSchema, validator, HeldInv
<1>2. CASE \E code : Reply(r, code)
  BY <1>1, <1>2, ReplyHolds
<1>3. PICK p : /\ p = req[r] /\ IsRequest(p) /\ MapHeld(p) /\ RoleHeld(p) /\ p.pc = "schema"
               /\ p.pc \in Routed /\ p.pc \in Authorised
  BY DEF HeldInv, Held, ValidateSchema, Routed, Authorised
<1>4. InputOf(p) = Input(r) /\ EntryOf(p) = Entry(r)
  BY <1>3 DEF InputOf, Input, EntryOf, Entry
<1>5. CASE ~ (EntryOf(p).validate # "" /\ InputOf(p).body # "none") /\ Go(r, "send")
  <2>0. p = req[r] /\ Go(r, "send")
    BY <1>3, <1>5
  <2>1. PICK q : /\ req' = [req EXCEPT ![r] = q]
                 /\ q = [req[r] EXCEPT !.pc = "send"]
                 /\ IsRequest(q) /\ q.pc = "send"
                 /\ q.in = req[r].in /\ q.entry = req[r].entry /\ q.params = req[r].params
                 /\ q.maps = req[r].maps /\ q.claims = req[r].claims
                 /\ q.version = req[r].version
    BY <2>0, GoGivesStep
  <2>2. MapHeld(q) /\ RoleHeld(q)
    BY <1>3, <2>1, KeepsMap, KeepsRole
  <2>3. EntryOf(q) = EntryOf(p) /\ InputOf(q) = InputOf(p)
    BY <2>0, <2>1 DEF EntryOf, InputOf
  <2>4. VersionHeld(q, schema)
    BY <1>5, <2>1, <2>3 DEF VersionHeld
  <2> QED BY <1>1, <2>1, <2>2, <2>4, HeldStep DEF Held
<1>6. CASE cached # 0 /\ Judge(r, cached)
  <2>1. cached \in 1 .. schema
    BY <1>6 DEF HeldInv
  <2> QED BY <1>1, <1>3, <1>6, <2>1, JudgeHolds
<1>7. PICK version : version = schema
  OBVIOUS
<1>8. CASE version # 0 /\ req' = [req EXCEPT ![r].pc = "compile", ![r].version = version]
  <2>2. PICK q : q = [p EXCEPT !.pc = "compile", !.version = version]
    OBVIOUS
  <2>3. q = [pc |-> "compile", in |-> p.in, entry |-> p.entry, params |-> p.params,
             maps |-> p.maps, claims |-> p.claims, version |-> version, status |-> p.status]
    BY <1>3, <2>2 DEF IsRequest
  <2>4. req' = [req EXCEPT ![r] = q]
    BY <1>3, <1>8, <2>2 DEF HeldInv
  <2>5. IsRequest(q) /\ q.pc = "compile" /\ q.version = version
    BY <2>3 DEF IsRequest
  <2>6. MapHeld(q) /\ RoleHeld(q)
    BY <1>3, <2>3, KeepsMap, KeepsRole
  <2>7. version \in 1 .. schema
    BY <1>7, <1>8 DEF HeldInv
  <2>8. VersionHeld(q, schema)
    BY <2>5, <2>7 DEF VersionHeld
  <2> QED BY <1>1, <2>4, <2>5, <2>6, <2>8, HeldStep DEF Held
<1>9. \/ \E code : Reply(r, code)
      \/ ~ (EntryOf(p).validate # "" /\ InputOf(p).body # "none") /\ Go(r, "send")
      \/ cached # 0 /\ Judge(r, cached)
      \/ version # 0 /\ req' = [req EXCEPT ![r].pc = "compile", ![r].version = version]
  BY <1>4, <1>7, Zenon DEF ValidateSchema
<1> QED BY <1>2, <1>5, <1>6, <1>8, <1>9

LEMMA CompiledHolds ==
  ASSUME HeldInv, NEW r \in Requests, Compiled(r)
  PROVE  HeldInv'
<1>1. req[r].version \in 1 .. schema
  BY DEF Compiled, HeldInv, Held, VersionHeld
<1>2. UNCHANGED schema /\ cached' \in 0 .. schema
  BY <1>1 DEF Compiled, HeldInv
<1> QED BY <1>1, <1>2, JudgeHolds DEF Compiled

LEMMA SendHolds ==
  ASSUME HeldInv, NEW r \in Requests, Send(r)
  PROVE  HeldInv'
<1>1. UNCHANGED schema /\ cached' \in 0 .. schema
  BY DEF Send, validator, HeldInv
<1>2. CASE \E code : Reply(r, code)
  BY <1>1, <1>2, ReplyHolds
<1>3. CASE Go(r, "sent")
  <2>1. PICK p : /\ p = req[r] /\ Held(p, schema) /\ p.pc = "send"
                 /\ p.pc \in Routed /\ p.pc \in Authorised
    BY DEF HeldInv, Send, Routed, Authorised
  <2>2. PICK q : /\ req' = [req EXCEPT ![r] = q] /\ IsRequest(q) /\ q.pc = "sent"
                 /\ q.in = p.in /\ q.entry = p.entry /\ q.params = p.params
                 /\ q.maps = p.maps /\ q.claims = p.claims /\ q.version = p.version
    BY <1>3, <2>1, GoGivesStep
  <2>3. MapHeld(q) /\ RoleHeld(q)
    BY <2>1, <2>2, KeepsMap, KeepsRole DEF Held
  <2>4. EntryOf(q) = EntryOf(p) /\ InputOf(q) = InputOf(p)
    BY <2>2 DEF EntryOf, InputOf
  <2>5. VersionHeld(q, schema)
    BY <2>1, <2>2, <2>4 DEF Held, VersionHeld
  <2> QED BY <1>1, <2>2, <2>3, <2>5, HeldStep DEF Held
<1> QED BY <1>2, <1>3 DEF Send

\* A reload adds a map and takes none away.
LEMMA SwapHolds ==
  ASSUME HeldInv, NEW entries, Swap(entries)
  PROVE  HeldInv'
<1>1. UNCHANGED <<schema, cached>>
  BY DEF Swap, validator
<1>2. ASSUME NEW r \in Requests PROVE Held(req'[r], schema)
  <2>1. PICK p : p = req[r] /\ Held(p, schema)
    BY DEF HeldInv
  <2>2. PICK maps : maps = IF p.maps = {} THEN {} ELSE p.maps \cup {entries}
    OBVIOUS
  <2>3. PICK q : q = req'[r]
    OBVIOUS
  <2>4. q = [p EXCEPT !.maps = maps]
    BY <2>1, <2>2, <2>3 DEF Swap
  <2>5. q = [pc |-> p.pc, in |-> p.in, entry |-> p.entry, params |-> p.params, maps |-> maps,
             claims |-> p.claims, version |-> p.version, status |-> p.status]
    BY <2>1, <2>4 DEF Held, IsRequest
  <2>6. IsRequest(q) /\ q.pc = p.pc /\ p.maps \subseteq q.maps
    BY <2>2, <2>5 DEF IsRequest
  <2>7. InputOf(q) = InputOf(p) /\ EntryOf(q) = EntryOf(p)
    BY <2>5 DEF InputOf, EntryOf
  <2>8. q.entry = p.entry /\ q.params = p.params /\ q.claims = p.claims /\ q.version = p.version
    BY <2>5
  <2>9. MapHeld(q)
    BY <2>1, <2>6, <2>7, <2>8, Zenon DEF Held, MapHeld
  <2>10. RoleHeld(q) /\ VersionHeld(q, schema)
    BY <2>1, <2>6, <2>7, <2>8, Zenon DEF Held, RoleHeld, VersionHeld
  <2> QED BY <2>3, <2>6, <2>9, <2>10 DEF Held
<1>3. req' = [r \in Requests |-> req'[r]]
  BY DEF Swap
<1> QED BY <1>1, <1>2, <1>3 DEF HeldInv

\* A new version of the schema file leaves the old verdicts as they are.
LEMMA EditSchemaHolds ==
  ASSUME HeldInv, EditSchema
  PROVE  HeldInv'
<1>1. schema \in Nat /\ schema' = schema + 1 /\ UNCHANGED <<cached, req>>
  BY DEF EditSchema, HeldInv
<1>2. ASSUME NEW r \in Requests PROVE Held(req'[r], schema')
  <2>1. Held(req[r], schema)
    BY DEF HeldInv
  <2> QED BY <1>1, <2>1, HeldGrows
<1>3. cached' \in 0 .. schema'
  BY <1>1 DEF HeldInv
<1> QED BY <1>1, <1>2, <1>3 DEF HeldInv

LEMMA HeldInvInit ==
  ASSUME Init
  PROVE  HeldInv
<1>1. schema \in Nat /\ cached \in 0 .. schema /\ req = [r \in Requests |-> Idle]
  BY DEF Init, GatewayInit
<1>2. Held(Idle, schema)
  <2>1. PICK q : q = Idle
    OBVIOUS
  <2>2. q = [pc |-> "idle", in |-> {}, entry |-> {}, params |-> {}, maps |-> {},
             claims |-> {}, version |-> 0, status |-> 0]
    BY <2>1 DEF Idle
  <2> QED BY <2>1, <2>2, OverHeld
<1> HIDE DEF Idle
<1> QED BY <1>1, <1>2 DEF HeldInv

LEMMA HeldInvStep ==
  ASSUME HeldInv, [Next]_vars
  PROVE  HeldInv'
<1>1. CASE UNCHANGED <<schema, cached, req>>
  BY <1>1 DEF HeldInv
<1>2. CASE UNCHANGED vars
  BY <1>1, <1>2 DEF vars, validator
<1>3. CASE ScannerNext /\ UNCHANGED <<limiter, table, validator, req>>
  BY <1>1, <1>3 DEF validator
<1>4. ASSUME NEW r \in Requests, Handle(r) PROVE HeldInv'
  BY <1>4, ArriveHolds, CheckTokenHolds, LookupRouteHolds, RepliesHold, ValidateJWTHolds,
     ValidateSchemaHolds, CompiledHolds, SendHolds DEF Handle
<1>5. CASE Swap(written)
  BY <1>5, SwapHolds
<1>6. CASE EditSchema
  BY <1>6, EditSchemaHolds
<1>7. CASE Tick
  BY <1>1, <1>7 DEF Tick, validator
<1> QED BY <1>2, <1>3, <1>4, <1>5, <1>6, <1>7 DEF Next, Serve

\* A request is held to one map: whatever reloads and edits happen between the
\* lookup and the worker, the entry, the parameters, the roles and the version of
\* the schema belong together.  For any number of requests and any maps.
THEOREM RequestsAreHeld == Spec => []HeldToOneMap
<1>1. Init => HeldInv
  BY HeldInvInit
<1>2. HeldInv /\ [Next]_vars => HeldInv'
  BY HeldInvStep
<1>3. HeldInv => HeldToOneMap
  <2> SUFFICES ASSUME HeldInv, NEW r \in Requests, AtWorker(r)
               PROVE  /\ \E m \in req[r].maps :
                           /\ Lookup(m, Input(r).method, Input(r).segs) = req[r].entry
                           /\ Captured(m, Input(r).segs) = req[r].params
                      /\ Entry(r).roles # {} => req[r].claims \cap Entry(r).roles # {}
                      /\ Entry(r).validate # "" /\ Input(r).body # "none" =>
                           req[r].version \in Input(r).fits \cap 1 .. schema
    BY Zenon DEF HeldToOneMap
  <2>1. Held(req[r], schema) /\ req[r].pc = "sent"
    BY DEF HeldInv, AtWorker
  <2>2. req[r].pc \in Routed /\ req[r].pc \in Authorised /\ req[r].pc \in {"send", "sent"}
    BY <2>1 DEF Routed, Authorised
  <2>3. InputOf(req[r]) = Input(r) /\ EntryOf(req[r]) = Entry(r)
    BY DEF InputOf, Input, EntryOf, Entry
  <2> QED BY <2>1, <2>2, <2>3, Zenon DEF Held, MapHeld, RoleHeld, VersionHeld
<1> QED BY <1>1, <1>2, <1>3, PTL DEF Spec

-----------------------------------------------------------------------------
(* The scanner *)

\* A sequence.
IsList(s) == s \in Seq(Range(s))

\* The routes found so far, with the roles of their own block, and each with
\* the line of its @Auth, one of the first n.
Listed(rs, ts, n) ==
  /\ IsList(rs) /\ IsList(ts) /\ Len(rs) = Len(ts)
  /\ \A i \in 1 .. Len(ts) : /\ ts[i].at \in 0 .. n
                             /\ ts[i].own # {} /\ ~ ts[i].stray => rs[i].roles = ts[i].own
  /\ \A i, j \in 1 .. Len(ts) : i # j /\ ts[i].at = ts[j].at => ts[i].at = 0

\* What is pending: the @Auth line was read, and gave its roles to no route.
Waiting(p, ts, n) ==
  /\ p = [route |-> p.route, page |-> p.page, validate |-> p.validate,
          auth |-> p.auth, at |-> p.at]
  /\ p.at \in 0 .. n
  /\ \A i \in 1 .. Len(ts) : ts[i].at = p.at => p.at = 0

\* Once the block of the pending route is over, its roles are those that wait
\* until another @Auth is read.
IsHome(h) == h = [over |-> h.over, roles |-> h.roles, stray |-> h.stray]
HomeIsKept(h, roles) == h.over /\ ~ h.stray /\ h.roles # {} => roles = h.roles

\* The routes with their own roles, and what is pending; nothing is after the
\* last file.
ScanInv ==
  /\ file \in Nat /\ read \in Nat
  /\ Listed(routes, taken, read)
  /\ Waiting(pending, taken, read)
  /\ own # {} => pending.auth = own
  /\ IsHome(home) /\ HomeIsKept(home, pending.auth)
  /\ file = Len(Files) + 1 => pending = Nothing

\* A list of routes that Validate has accepted.
Accepted(m) == IsList(m) /\ Validate(m)

\* The map that is written, the one in force and those in force since the lookup
\* of a request.
MapInv ==
  /\ Accepted(written) /\ Accepted(table)
  /\ \A r \in Requests : \A m \in req[r].maps : Accepted(m)

\* The facts about sequences that the scanner rests on.
LEMMA ListFacts ==
  ASSUME NEW s, IsList(s)
  PROVE  Len(s) \in Nat /\ DOMAIN s = 1 .. Len(s)
BY DEF IsList

LEMMA ListAppend ==
  ASSUME NEW s, IsList(s), NEW x
  PROVE  /\ IsList(Append(s, x))
         /\ Len(Append(s, x)) = Len(s) + 1
         /\ Append(s, x)[Len(s) + 1] = x
         /\ \A i \in 1 .. Len(s) : Append(s, x)[i] = s[i]
<1> PICK S, t : S = Range(s) \cup {x} /\ t = Append(s, x)
  OBVIOUS
<1>1. s \in Seq(S)
  BY DEF IsList
<1>2. t \in Seq(S)
  BY <1>1
<1>3. IsList(t)
  BY <1>2 DEF IsList, Range
<1> QED BY <1>1, <1>2, <1>3

\* A route that takes what is pending has roles of its own.
LEMMA ListedAppend ==
  ASSUME NEW rs, NEW ts, NEW n \in Nat, Listed(rs, ts, n), NEW x, NEW p, Waiting(p, ts, n),
         NEW o, NEW s, o # {} /\ ~ s => p.auth = o, x.roles = p.auth
  PROVE  Listed(Append(rs, x), Append(ts, [own |-> o, stray |-> s, at |-> p.at]), n)
<1> PICK y, us, ss : /\ y = [own |-> o, stray |-> s, at |-> p.at]
                     /\ us = Append(ts, y) /\ ss = Append(rs, x)
  OBVIOUS
<1>1. /\ IsList(us) /\ Len(us) = Len(ts) + 1 /\ us[Len(ts) + 1] = y
      /\ \A i \in 1 .. Len(ts) : us[i] = ts[i]
  BY ListAppend DEF Listed
<1>2. /\ IsList(ss) /\ Len(ss) = Len(rs) + 1 /\ ss[Len(ts) + 1] = x
      /\ \A i \in 1 .. Len(ts) : ss[i] = rs[i]
  BY ListAppend DEF Listed
<1>3. Len(ts) \in Nat /\ Len(rs) = Len(ts)
  BY ListFacts DEF Listed
<1>4. y.at = p.at /\ y.own = o /\ y.stray = s
  OBVIOUS
<1>5. ASSUME NEW i \in 1 .. Len(us)
      PROVE  /\ us[i].at \in 0 .. n
             /\ us[i].own # {} /\ ~ us[i].stray => ss[i].roles = us[i].own
  <2>1. CASE i = Len(ts) + 1
    BY <1>1, <1>2, <1>4, <2>1 DEF Waiting
  <2>2. CASE i # Len(ts) + 1
    BY <1>1, <1>2, <1>3, <2>2 DEF Listed
  <2> QED BY <2>1, <2>2
<1>6. ASSUME NEW i \in 1 .. Len(us), NEW j \in 1 .. Len(us), i # j, us[i].at = us[j].at
      PROVE  us[i].at = 0
  <2>1. CASE i = Len(ts) + 1
    <3>1. j \in 1 .. Len(ts) /\ us[j] = ts[j] /\ ts[j].at = p.at
      BY <1>1, <1>3, <1>4, <1>6, <2>1
    <3> QED BY <1>1, <1>4, <2>1, <3>1 DEF Waiting
  <2>2. CASE j = Len(ts) + 1
    <3>1. i \in 1 .. Len(ts) /\ us[i] = ts[i] /\ ts[i].at = p.at
      BY <1>1, <1>3, <1>4, <1>6, <2>2
    <3> QED BY <3>1 DEF Waiting
  <2>3. CASE i # Len(ts) + 1 /\ j # Len(ts) + 1
    <3>1. i \in 1 .. Len(ts) /\ j \in 1 .. Len(ts)
      BY <1>1, <1>3, <2>3
    <3> QED BY <1>1, <1>6, <3>1 DEF Listed
  <2> QED BY <2>1, <2>2, <2>3
<1> QED BY <1>1, <1>2, <1>3, <1>5, <1>6 DEF Listed

LEMMA ListedGrows ==
  ASSUME NEW rs, NEW ts, NEW n \in Nat, Listed(rs, ts, n)
  PROVE  Listed(rs, ts, n + 1)
<1>1. 0 .. n \subseteq 0 .. n + 1
  OBVIOUS
<1> QED BY <1>1, Zenon DEF Listed

\* What waits goes on waiting, a new @Auth line is one that no route has yet,
\* and nothing can be given twice.
LEMMA WaitingGrows ==
  ASSUME NEW p, NEW ts, NEW n \in Nat, Waiting(p, ts, n)
  PROVE  Waiting(p, ts, n + 1)
<1>1. 0 .. n \subseteq 0 .. n + 1
  OBVIOUS
<1> QED BY <1>1, Zenon DEF Waiting

LEMMA WaitingNothing ==
  ASSUME NEW ts, NEW n \in Nat, NEW p, p.at = 0,
         p = [route |-> p.route, page |-> p.page, validate |-> p.validate,
              auth |-> p.auth, at |-> p.at]
  PROVE  Waiting(p, ts, n)
BY DEF Waiting

LEMMA WaitingNew ==
  ASSUME NEW rs, NEW ts, NEW n \in Nat, Listed(rs, ts, n), NEW p, p.at = n + 1,
         p = [route |-> p.route, page |-> p.page, validate |-> p.validate,
              auth |-> p.auth, at |-> p.at]
  PROVE  Waiting(p, ts, n + 1)
BY DEF Waiting, Listed

\* Emit adds such a route.
LEMMA EmitListed ==
  ASSUME ScanInv, Emit
  PROVE  /\ Listed(routes', taken', read)
         /\ ~ Found => UNCHANGED <<routes, taken>>
<1>1. CASE ~ Found
  BY <1>1 DEF Emit, ScanInv
<1>2. CASE Found
  <2>1. buildRoute.roles = pending.auth
    BY DEF buildRoute
  <2>2. /\ routes' = Append(routes, buildRoute)
        /\ taken' = Append(taken, [own |-> IF home.over THEN home.roles ELSE own,
                                   stray |-> home.stray, at |-> pending.at])
    BY <1>2 DEF Emit
  <2>3. PICK o : /\ o = IF home.over THEN home.roles ELSE own
                 /\ o # {} /\ ~ home.stray => pending.auth = o
    BY DEF ScanInv, HomeIsKept
  <2> QED BY <1>2, <2>1, <2>2, <2>3, ListedAppend DEF ScanInv
<1> QED BY <1>1, <1>2

\* The shape of what is pending.
IsPending(p) == p = [route |-> p.route, page |-> p.page, validate |-> p.validate,
                     auth |-> p.auth, at |-> p.at]

LEMMA NothingIsPending == IsPending(Nothing) /\ Nothing.at = 0
BY DEF IsPending, Nothing

\* A comment that is no @Auth leaves the roles that wait.
LEMMA NoteKeeps ==
  ASSUME NEW l, l.kind # "auth", Note(l), IsPending(pending)
  PROVE  IsPending(pending') /\ pending'.auth = pending.auth /\ pending'.at = pending.at
<1> PICK p, n : p = pending /\ n = pending'
  OBVIOUS
<1>1. \/ n = p
      \/ \E x : n = [p EXCEPT !.route = x]
      \/ \E x : n = [p EXCEPT !.page = x]
      \/ \E x : n = [p EXCEPT !.validate = x]
  BY DEF Note
<1>2. ASSUME NEW x
      PROVE  /\ n = [p EXCEPT !.route = x] =>
                  IsPending(n) /\ n.auth = p.auth /\ n.at = p.at
             /\ n = [p EXCEPT !.page = x] =>
                  IsPending(n) /\ n.auth = p.auth /\ n.at = p.at
             /\ n = [p EXCEPT !.validate = x] =>
                  IsPending(n) /\ n.auth = p.auth /\ n.at = p.at
  BY DEF IsPending
<1> QED BY <1>1, <1>2

\* An @Auth line replaces them.
LEMMA AuthGives ==
  ASSUME NEW roles, pending' = [pending EXCEPT !.auth = roles, !.at = read + 1],
         IsPending(pending)
  PROVE  IsPending(pending') /\ pending'.auth = roles /\ pending'.at = read + 1
<1> PICK p, n : p = pending /\ n = read + 1
  OBVIOUS
<1>1. PICK q : q = [p EXCEPT !.auth = roles, !.at = n]
  OBVIOUS
<1>2. q = [route |-> p.route, page |-> p.page, validate |-> p.validate,
           auth |-> roles, at |-> n]
  BY <1>1 DEF IsPending
<1>3. pending' = q
  BY <1>1
<1> QED BY <1>2, <1>3 DEF IsPending

\* A line of an @Auth: the routes stay, and the line is a new one.
LEMMA AuthHolds ==
  ASSUME ScanInv, Reading, NEW roles, pending' = [pending EXCEPT !.auth = roles, !.at = read + 1],
         own' = roles, home' = AuthRead, UNCHANGED <<routes, taken, file>>, read' = read + 1
  PROVE  ScanInv'
<1> PICK p, q : p = pending /\ q = pending'
  OBVIOUS
<1>1. IsPending(p) /\ read \in Nat
  BY DEF ScanInv, Waiting, IsPending
<1>2. IsPending(q) /\ q.auth = roles /\ q.at = read + 1
  BY <1>1, AuthGives
<1>3. Waiting(q, taken, read + 1)
  BY <1>1, <1>2, WaitingNew DEF IsPending, ScanInv
<1>4. Listed(routes, taken, read + 1)
  BY <1>1, ListedGrows DEF ScanInv
<1>5. file' # Len(Files) + 1 /\ file' \in Nat
  BY ScannerAssumption DEF Reading, ScanInv
<1>6. IsHome(home') /\ HomeIsKept(home', roles)
  <2>1. IsHome(home) /\ home' = [home EXCEPT !.stray = home.over]
    BY DEF ScanInv, AuthRead
  <2>2. home' = [over |-> home.over, roles |-> home.roles, stray |-> home.over]
    BY <2>1 DEF IsHome
  <2> QED BY <2>2 DEF IsHome, HomeIsKept
<1> QED BY <1>1, <1>2, <1>3, <1>4, <1>5, <1>6 DEF ScanInv

\* A line that leaves the routes and the roles that wait as they are.
LEMMA QuietHolds ==
  ASSUME ScanInv, Reading, IsPending(pending'), pending'.auth = pending.auth,
         pending'.at = pending.at, own' \in {own, {}}, home' \in {home, NotOver, BlockEnds},
         UNCHANGED <<routes, taken, file>>, read' = read + 1
  PROVE  ScanInv'
<1> PICK q : q = pending'
  OBVIOUS
<1>1. read \in Nat
  BY DEF ScanInv
<1>2. Waiting(q, taken, read)
  BY DEF ScanInv, Waiting, IsPending
<1>3. Waiting(q, taken, read + 1) /\ Listed(routes, taken, read + 1)
  BY <1>1, <1>2, WaitingGrows, ListedGrows DEF ScanInv
<1>4. file' # Len(Files) + 1 /\ file' \in Nat
  BY ScannerAssumption DEF Reading, ScanInv
<1>5. IsHome(home') /\ HomeIsKept(home', pending.auth)
  BY DEF ScanInv, NotOver, BlockEnds, IsHome, HomeIsKept
<1> QED BY <1>1, <1>3, <1>4, <1>5 DEF ScanInv

\* The end of a block: what was pending is emitted, and no roles wait unless
\* there was no route.
LEMMA EndHolds ==
  ASSUME ScanInv, Emit, NEW n \in Nat, n \in {read, read + 1}, read' = n,
         own' = {}, home' = NotOver, file' \in Nat, IsPending(pending'),
         pending'.at = 0 \/ (~ Found /\ pending' = pending),
         file' = Len(Files) + 1 => pending' = Nothing
  PROVE  ScanInv'
<1> PICK q : q = pending'
  OBVIOUS
<1>1. read \in Nat
  BY DEF ScanInv
<1>2. Listed(routes', taken', read) /\ (~ Found => UNCHANGED <<routes, taken>>)
  BY EmitListed
<1>3. Listed(routes', taken', n)
  BY <1>1, <1>2, ListedGrows
<1>4. Waiting(q, taken', n)
  <2>1. CASE q.at = 0
    BY <2>1, WaitingNothing DEF IsPending
  <2>2. CASE ~ Found /\ q = pending
    BY <1>1, <1>2, <2>2, WaitingGrows DEF ScanInv
  <2> QED BY <2>1, <2>2
<1>5. IsHome(home') /\ HomeIsKept(home', q.auth)
  BY DEF NotOver, IsHome, HomeIsKept
<1> QED BY <1>3, <1>4, <1>5 DEF ScanInv

\* A line of a file, whatever the language.
LEMMA ReadHolds ==
  ASSUME ScanInv, NEW l, Read(l)
  PROVE  ScanInv'
<1>1. Reading /\ UNCHANGED file /\ read' = read + 1 /\ read \in Nat /\ file \in Nat
  BY DEF Read, ScanInv
<1>2. IsPending(pending)
  BY DEF ScanInv, Waiting, IsPending
<1>3. file' # Len(Files) + 1
  BY <1>1, ScannerAssumption DEF Reading
<1>4. CASE ReadLine(l)
  <2>1. CASE l.kind \in Comments /\ l.kind # "auth"
    <3>1. Note(l) /\ own' = own /\ home' \in {home, NotOver} /\ UNCHANGED <<routes, taken>>
      BY <1>4, <2>1 DEF ReadLine, Comments, Annotations
    <3>2. IsPending(pending') /\ pending'.auth = pending.auth /\ pending'.at = pending.at
      BY <1>2, <2>1, <3>1, NoteKeeps
    <3> QED BY <1>1, <3>1, <3>2, QuietHolds
  <2>2. CASE l.kind = "auth"
    <3>1. Note(l) /\ own' = l.roles /\ home' = AuthRead /\ UNCHANGED <<routes, taken>>
      BY <1>4, <2>2 DEF ReadLine, Comments, Annotations
    <3>2. pending' = [pending EXCEPT !.auth = l.roles, !.at = read + 1]
      BY <2>2, <3>1 DEF Note
    <3> QED BY <1>1, <3>1, <3>2, AuthHolds
  <2>3. CASE own' = {} /\ home' = BlockEnds /\ UNCHANGED <<pending, routes, taken>>
    BY <1>1, <1>2, <2>3, QuietHolds
  <2>4. CASE Emit /\ pending' = Cleared /\ own' = {} /\ home' = NotOver
    <3>1. /\ IsPending(pending')
          /\ pending'.at = 0 \/ (~ Found /\ pending' = pending)
      BY <1>2, <2>4, NothingIsPending DEF Cleared
    <3> QED BY <1>1, <1>3, <2>4, <3>1, EndHolds
  <2> QED BY <1>4, <2>1, <2>2, <2>3, <2>4 DEF ReadLine
<1>5. CASE ReadTSXLine(l)
  <2>1. CASE /\ Emit /\ own' = {} /\ home' = NotOver
             /\ pending' = IF l.path = "" THEN Nothing ELSE [Nothing EXCEPT !.page = <<l.path>>]
    <3>1. IsPending(pending') /\ pending'.at = 0
      <4>1. PICK q, x : x = <<l.path>> /\ q = [Nothing EXCEPT !.page = x]
        OBVIOUS
      <4>2. IsPending(q) /\ q.at = 0
        BY <4>1 DEF Nothing, IsPending
      <4>3. pending' = Nothing \/ pending' = q
        BY <2>1, <4>1, Zenon
      <4> QED BY <4>2, <4>3, NothingIsPending, Zenon
    <3>2. Emit /\ own' = {} /\ home' = NotOver /\ file' \in Nat
      BY <1>1, <2>1
    <3>3. read' = read + 1 /\ read + 1 \in Nat
      BY <1>1
    <3> QED BY <1>3, <3>1, <3>2, <3>3, EndHolds
  <2>2. CASE /\ pending' = [pending EXCEPT !.auth = l.roles, !.at = read + 1]
             /\ own' = l.roles /\ home' = AuthRead /\ UNCHANGED <<routes, taken>>
    BY <1>1, <2>2, AuthHolds
  <2>3. CASE Emit /\ pending' = Nothing /\ own' = {} /\ home' = NotOver
    BY <1>1, <1>3, <2>3, NothingIsPending, EndHolds
  <2>4. CASE /\ own' \in {own, {}} /\ home' \in {home, BlockEnds}
             /\ UNCHANGED <<pending, routes, taken>>
    BY <1>1, <1>2, <2>4, QuietHolds
  <2> QED BY <1>5, <2>1, <2>2, <2>3, <2>4 DEF ReadTSXLine
<1> QED BY <1>4, <1>5 DEF Read

LEMMA ScanInvInit ==
  ASSUME Init
  PROVE  ScanInv
<1>1. /\ file = 1 /\ read = 0 /\ pending = Nothing /\ own = {} /\ home = NotOver
      /\ routes = <<>> /\ taken = <<>>
  BY DEF Init, ScannerInit
<1>2. Listed(<<>>, <<>>, 0)
  BY DEF Listed, IsList
<1>3. Waiting(Nothing, <<>>, 0)
  BY NothingIsPending, WaitingNothing DEF IsPending
<1> QED BY <1>1, <1>2, <1>3 DEF ScanInv, NotOver, IsHome, HomeIsKept

LEMMA ScanInvStep ==
  ASSUME ScanInv, [Next]_vars
  PROVE  ScanInv'
<1>1. CASE UNCHANGED scan
  BY <1>1 DEF ScanInv, scan
<1>2. ASSUME NEW l, Read(l) PROVE ScanInv'
  BY <1>2, ReadHolds
<1>3. ASSUME NEW opens, NextFile(opens) PROVE ScanInv'
  <2>1. /\ Emit /\ own' = {} /\ home' = NotOver /\ pending' = Nothing /\ read' = read
        /\ file' \in Nat /\ read \in Nat
    BY <1>3 DEF NextFile, ScanInv
  <2> QED BY <2>1, NothingIsPending, EndHolds
<1>4. CASE Generate
  <2>1. /\ Emit /\ own' = {} /\ home' = NotOver /\ pending' = Nothing /\ read' = read
        /\ file' \in Nat /\ read \in Nat
    BY <1>4 DEF Generate, ScanInv
  <2> QED BY <2>1, NothingIsPending, EndHolds
<1>5. CASE Exit
  <2>1. /\ pending = Nothing /\ UNCHANGED <<pending, own, home>> /\ read' = 0
        /\ routes' = <<>> /\ taken' = <<>> /\ file' \in Nat
    BY <1>5 DEF Exit, ScanInv
  <2>2. Listed(<<>>, <<>>, 0)
    BY DEF Listed, IsList
  <2>3. Waiting(Nothing, <<>>, 0)
    BY NothingIsPending, WaitingNothing DEF IsPending
  <2> QED BY <2>1, <2>2, <2>3 DEF ScanInv
<1> QED BY <1>1, <1>2, <1>3, <1>4, <1>5 DEF Next, Serve, ScannerNext, vars

\* A route with an @Auth in its own block gets no other roles while no further
\* @Auth is read between the end of that block and the end of the route, and no
\* @Auth line gives its roles to two routes, whatever the files hold and in
\* whatever order they are read.
THEOREM RolesAreNotLent == Spec => []RolesAreItsOwn
<1>1. Init => ScanInv
  BY ScanInvInit
<1>2. ScanInv /\ [Next]_vars => ScanInv'
  BY ScanInvStep
<1>3. ScanInv => RolesAreItsOwn
  BY ListFacts DEF ScanInv, Listed, RolesAreItsOwn
<1> QED BY <1>1, <1>2, <1>3, PTL DEF Spec

-----------------------------------------------------------------------------
(* From the scanner to the worker *)

\* No operation of a request brings a map but the one in force.
LEMMA ReplyMaps ==
  ASSUME HeldInv, NEW r \in Requests, NEW code, Reply(r, code), NEW s \in Requests
  PROVE  req'[s].maps \in {req[s].maps, {}}
<1>1. PICK q : q = [Idle EXCEPT !.pc = "done", !.status = code]
  OBVIOUS
<1>2. q.maps = {}
  BY <1>1 DEF Idle
<1>3. req' = [req EXCEPT ![r] = q]
  BY <1>1 DEF Reply
<1> QED BY <1>2, <1>3 DEF HeldInv

LEMMA GoMaps ==
  ASSUME HeldInv, NEW r \in Requests, NEW step, Go(r, step), NEW s \in Requests
  PROVE  req'[s].maps = req[s].maps
BY GoGivesStep DEF HeldInv

LEMMA HandleMaps ==
  ASSUME HeldInv, NEW r \in Requests, Handle(r), NEW s \in Requests
  PROVE  req'[s].maps \in {req[s].maps, {}, {table}}
<1>1. CASE \E code : Reply(r, code)
  BY <1>1, ReplyMaps
<1>2. CASE \E step : Go(r, step)
  BY <1>2, GoMaps
<1>3. ASSUME NEW in \in Inputs, Arrive(r, in) PROVE req'[s].maps \in {req[s].maps, {}, {table}}
  <2>1. CASE req' = [req EXCEPT ![r].pc = "token", ![r].in = {in}]
    BY <2>1 DEF HeldInv, Held, IsRequest
  <2> QED BY <1>1, <1>3, <2>1 DEF Arrive
<1>4. CASE LookupRoute(r)
  <2>1. CASE \E entry, params : req' = [req EXCEPT ![r].pc = "auth", ![r].entry = entry,
                               ![r].params = params, ![r].maps = {table}]
    BY <2>1 DEF HeldInv, Held, IsRequest
  <2> QED BY <1>1, <1>4, <2>1 DEF LookupRoute
<1>5. CASE ValidateJWT(r)
  <2>1. CASE \E claims : req' = [req EXCEPT ![r].pc = "schema", ![r].claims = claims]
    BY <2>1 DEF HeldInv, Held, IsRequest
  <2> QED BY <1>1, <1>2, <1>5, <2>1 DEF ValidateJWT
<1>6. ASSUME NEW version, req' = [req EXCEPT ![r].pc = "send", ![r].version = version]
      PROVE  req'[s].maps \in {req[s].maps, {}, {table}}
  BY <1>6 DEF HeldInv, Held, IsRequest
<1>7. CASE ValidateSchema(r)
  <2>1. CASE \E version : req' = [req EXCEPT ![r].pc = "compile", ![r].version = version]
    BY <2>1 DEF HeldInv, Held, IsRequest
  <2> QED BY <1>1, <1>2, <1>6, <1>7, <2>1 DEF ValidateSchema, Judge
<1>8. CASE Compiled(r)
  BY <1>1, <1>6, <1>8 DEF Compiled, Judge
<1> QED BY <1>1, <1>2, <1>3, <1>4, <1>5, <1>7, <1>8
        DEF Handle, CheckToken, TurnAway, Send, Answer

\* Every map in force was accepted by Validate.
LEMMA MapInvStep ==
  ASSUME HeldInv, ScanInv, MapInv, [Next]_vars
  PROVE  MapInv'
<1>1. CASE UNCHANGED <<written, table, req>>
  BY <1>1 DEF MapInv
<1>2. CASE ScannerNext /\ UNCHANGED <<table, req>>
  <2>1. CASE Generate
    <3>1. IsList(routes')
      BY <2>1, EmitListed DEF Generate, Listed
    <3>2. Accepted(written')
      BY <2>1, <3>1 DEF Generate, Accepted, MapInv
    <3> QED BY <1>2, <3>2 DEF MapInv
  <2>2. CASE UNCHANGED written
    BY <1>1, <1>2, <2>2
  <2> QED BY <1>2, <2>1, <2>2 DEF ScannerNext, Read, NextFile, Exit
<1>3. CASE UNCHANGED vars
  BY <1>1, <1>3 DEF vars
<1>4. ASSUME NEW r \in Requests, Handle(r), UNCHANGED written PROVE MapInv'
  <2>1. UNCHANGED table
    BY <1>4 DEF Handle, Arrive, CheckToken, LookupRoute, TurnAway, ValidateJWT,
                ValidateSchema, Compiled, Send, Answer
  <2>2. ASSUME NEW s \in Requests, NEW m \in req'[s].maps PROVE Accepted(m)
    <3>1. req'[s].maps \in {req[s].maps, {}, {table}}
      BY <1>4, HandleMaps
    <3> QED BY <2>2, <3>1, Zenon DEF MapInv
  <2> QED BY <1>4, <2>1, <2>2 DEF MapInv
<1>5. CASE Swap(written) /\ UNCHANGED written
  <2>1. Accepted(table')
    BY <1>5 DEF Swap, MapInv
  <2>2. ASSUME NEW s \in Requests, NEW m \in req'[s].maps PROVE Accepted(m)
    <3>1. PICK p : p = req[s] /\ IsRequest(p)
      BY DEF HeldInv, Held
    <3>2. PICK maps, w : maps = (IF p.maps = {} THEN {} ELSE p.maps \cup {w}) /\ w = written
      OBVIOUS
    <3>3. req'[s] = [p EXCEPT !.maps = maps]
      BY <1>5, <3>1, <3>2 DEF Swap
    <3>4. req'[s].maps = maps
      BY <3>1, <3>3 DEF IsRequest
    <3>5. maps \subseteq req[s].maps \cup {written}
      BY <3>1, <3>2
    <3> QED BY <2>2, <3>4, <3>5 DEF MapInv
  <2> QED BY <1>5, <2>1, <2>2 DEF MapInv
<1>6. CASE (EditSchema \/ Tick) /\ UNCHANGED written
  BY <1>1, <1>6 DEF EditSchema, Tick
<1> QED BY <1>2, <1>3, <1>4, <1>5, <1>6 DEF Next, Serve

\* A route that an accepted list gives a request is no api route without roles.
LEMMA FoundIsChecked ==
  ASSUME NEW m, Accepted(m), NEW method, NEW segs, NEW e \in Lookup(m, method, segs)
  PROVE  e.type = "page" \/ e.roles # {}
<1>1. e \in Range(m)
  BY LookupKeeps DEF Accepted, IsList
<1>2. PICK i \in DOMAIN m : e = m[i]
  BY <1>1 DEF Range
<1> QED BY <1>2 DEF Accepted, Validate, validateRoute

\* No request reaches a worker through an api route without a token that has one
\* of its roles, if the map that was there before was accepted by Validate too.
THEOREM CallersAreAuthorised ==
  ASSUME Validate(OldMap)
  PROVE  Spec => []ApiCallersAreAuthorised
<1> DEFINE I == HeldInv /\ ScanInv /\ MapInv
<1>1. Init => I
  <2> SUFFICES ASSUME Init PROVE I
    OBVIOUS
  <2>1. req = [r \in Requests |-> Idle] /\ written = OldMap /\ table = OldMap
    BY DEF Init, ScannerInit, GatewayInit
  <2>2. Idle.maps = {}
    BY DEF Idle
  <2>3. Accepted(OldMap)
    BY ServingAssumption DEF Accepted, IsMap, IsList
  <2>4. MapInv
    BY <2>1, <2>2, <2>3 DEF MapInv
  <2> QED BY <2>4, HeldInvInit, ScanInvInit
<1>2. I /\ [Next]_vars => I'
  BY HeldInvStep, ScanInvStep, MapInvStep
<1>3. I => ApiCallersAreAuthorised
  <2> SUFFICES ASSUME HeldInv, MapInv, NEW r \in Requests, AtWorker(r), Entry(r).type = "api"
               PROVE  /\ Input(r).token # ""
                      /\ Roles[Input(r).token] \cap Entry(r).roles # {}
    BY Zenon DEF ApiCallersAreAuthorised
  <2>1. Held(req[r], schema) /\ req[r].pc = "sent"
    BY DEF HeldInv, AtWorker
  <2>2. req[r].pc \in Routed /\ req[r].pc \in Authorised
    BY <2>1 DEF Routed, Authorised
  <2>3. InputOf(req[r]) = Input(r) /\ EntryOf(req[r]) = Entry(r)
    BY DEF InputOf, Input, EntryOf, Entry
  <2>4. Entry(r) \in req[r].entry
    BY <2>1, <2>2 DEF Held, MapHeld, Entry
  <2>5. PICK m \in req[r].maps : Lookup(m, Input(r).method, Input(r).segs) = req[r].entry
    BY <2>1, <2>2, <2>3 DEF Held, MapHeld
  <2>6. Entry(r).roles # {}
    BY <2>4, <2>5, FoundIsChecked DEF MapInv
  <2> QED BY <2>1, <2>2, <2>3, <2>6, Zenon DEF Held, RoleHeld
<1> QED BY <1>1, <1>2, <1>3, PTL DEF Spec

-----------------------------------------------------------------------------
(* The trie as a set of prefixes *)

\* The steps from a node to its children.
Steps == STRING \cup {Param}

LEMMA ShapeIsSeq ==
  ASSUME NEW p \in DOMAIN Segments
  PROVE  Shape(p) \in Seq(Steps)
<1>1. Segments[p] \in Seq(Steps)
  BY RouteMapAssumption, SeqMonotonic DEF Steps
<1>2. DOMAIN Segments[p] = 1 .. Len(Segments[p]) /\ Len(Segments[p]) \in Nat
  BY <1>1
<1> PICK n : n = Len(Segments[p])
  OBVIOUS
<1>3. \A i \in 1 .. n : Segments[p][i] \in Steps
  BY <1>1
<1>4. Shape(p) = [i \in 1 .. n |-> IF Segments[p][i] \in Params THEN Param ELSE Segments[p][i]]
  BY <1>2 DEF Shape
<1>5. Shape(p) \in [1 .. n -> Steps]
  <2>1. Param \in Steps
    BY DEF Steps
  <2> QED BY <1>3, <1>4, <2>1, Zenon
<1> QED BY <1>2, <1>5, SeqDef

\* c is what n begins with.
IsPrefixOf(c, n) == Len(c) <= Len(n) /\ \A j \in 1 .. Len(c) : c[j] = n[j]

\* With each node, the nodes on the way to it.
Closed(nodes) ==
  /\ nodes \subseteq Seq(Steps) /\ <<>> \in nodes
  /\ \A n \in nodes : \A k \in 0 .. Len(n) : \E c \in nodes : Len(c) = k /\ IsPrefixOf(c, n)

\* Insert adds the nodes on the way to the new one.
LEMMA InsertNodes ==
  ASSUME NEW trie, Closed(trie.nodes), NEW e, e.path \in DOMAIN Segments
  PROVE  /\ Closed(Insert(trie, e).nodes)
         /\ trie.nodes \subseteq Insert(trie, e).nodes
         /\ Shape(e.path) \in Insert(trie, e).nodes
<1> PICK s, T, U : /\ s = Shape(e.path) /\ T = trie.nodes
                   /\ U = Insert(trie, e).nodes
  OBVIOUS
<1>1. s \in Seq(Steps) /\ Len(s) \in Nat /\ DOMAIN s = 1 .. Len(s)
  BY ShapeIsSeq, LenProperties
<1>2. U = T \cup {SubSeq(s, 1, i) : i \in 1 .. Len(s)}
  BY <1>1 DEF Insert
<1>3. ASSUME NEW k \in 0 .. Len(s)
      PROVE  \E c \in U : c = SubSeq(s, 1, k)
  <2>1. CASE k = 0
    <3>1. SubSeq(s, 1, k) = <<>>
      BY <2>1, SubSeqEmpty
    <3> QED BY <1>2, <3>1 DEF Closed
  <2>2. CASE k # 0
    <3>1. k \in 1 .. Len(s)
      BY <1>1, <2>2
    <3> QED BY <1>2, <3>1, Zenon
  <2> QED BY <2>1, <2>2
<1>4. ASSUME NEW k \in 0 .. Len(s)
      PROVE  SubSeq(s, 1, k) \in Seq(Steps) /\ Len(SubSeq(s, 1, k)) = k
             /\ \A j \in 1 .. k : SubSeq(s, 1, k)[j] = s[j]
  <2>1. \A i \in 1 .. k : s[i] \in Steps
    BY <1>1
  <2> QED BY <1>1, <2>1, SubSeqProperties
<1>5. U \subseteq Seq(Steps) /\ <<>> \in U
  BY <1>2, <1>4 DEF Closed
<1>6. ASSUME NEW n \in U, NEW k \in 0 .. Len(n)
      PROVE  \E c \in U : Len(c) = k /\ IsPrefixOf(c, n)
  <2>1. CASE n \in T
    BY <1>2, <2>1 DEF Closed
  <2>2. CASE n \notin T
    <3>1. PICK i \in 1 .. Len(s) : n = SubSeq(s, 1, i)
      BY <1>2, <2>2
    <3>2. i \in 0 .. Len(s) /\ i \in Nat
      BY <1>1
    <3>3. Len(n) = i /\ \A j \in 1 .. i : n[j] = s[j]
      BY <1>4, <3>1, <3>2
    <3>4. k \in 0 .. Len(s) /\ k <= i
      BY <1>1, <3>2, <3>3
    <3>5. PICK c \in U : c = SubSeq(s, 1, k)
      BY <1>3, <3>4
    <3>6. Len(c) = k /\ \A j \in 1 .. k : c[j] = s[j]
      BY <1>4, <3>4, <3>5
    <3> QED BY <3>2, <3>3, <3>4, <3>6 DEF IsPrefixOf
  <2> QED BY <2>1, <2>2
<1>7. s \in U
  <2>1. s = SubSeq(s, 1, Len(s))
    BY <1>1, SubSeqFull
  <2> QED BY <1>1, <1>3, <2>1
<1> QED BY <1>2, <1>5, <1>6, <1>7 DEF Closed

\* Where entry i stands.
KeyOf(es, i) == <<Shape(es[i].path), es[i].method>>

\* The trie t has the nodes of the first n entries, and for each method at a node
\* the last of them.
IsTrie(t, es, n) ==
  /\ Closed(t.nodes)
  /\ \A i \in 1 .. n : Shape(es[i].path) \in t.nodes /\ KeyOf(es, i) \in DOMAIN t.entries
  /\ \A k \in DOMAIN t.entries :
       \E i \in 1 .. n : /\ KeyOf(es, i) = k /\ t.entries[k] = es[i]
                         /\ \A j \in 1 .. n : KeyOf(es, j) = k => j <= i

\* Insert takes the trie of n entries to that of n + 1.
LEMMA InsertIsTrie ==
  ASSUME NEW t, NEW es, NEW n \in Nat, IsTrie(t, es, n), es[n + 1].path \in DOMAIN Segments
  PROVE  IsTrie(Insert(t, es[n + 1]), es, n + 1)
<1> PICK u, e : e = es[n + 1] /\ u = Insert(t, e)
  OBVIOUS
<1>1. Closed(u.nodes) /\ t.nodes \subseteq u.nodes /\ Shape(e.path) \in u.nodes
  BY InsertNodes DEF IsTrie
<1>2. u.entries = [k \in DOMAIN t.entries \cup {KeyOf(es, n + 1)} |->
                     IF k = KeyOf(es, n + 1) THEN e ELSE t.entries[k]]
  BY DEF Insert, KeyOf
<1>3. ASSUME NEW i \in 1 .. n + 1
      PROVE  Shape(es[i].path) \in u.nodes /\ KeyOf(es, i) \in DOMAIN u.entries
  <2>1. CASE i = n + 1
    BY <1>1, <1>2, <2>1
  <2>2. CASE i # n + 1
    BY <1>1, <1>2, <2>2 DEF IsTrie
  <2> QED BY <2>1, <2>2
<1>4. ASSUME NEW k \in DOMAIN u.entries
      PROVE  \E i \in 1 .. n + 1 : /\ KeyOf(es, i) = k /\ u.entries[k] = es[i]
                                   /\ \A j \in 1 .. n + 1 : KeyOf(es, j) = k => j <= i
  <2>1. CASE k = KeyOf(es, n + 1)
    <3>1. u.entries[k] = es[n + 1] /\ n + 1 \in 1 .. n + 1
      BY <1>2, <2>1
    <3> QED BY <2>1, <3>1
  <2>2. CASE k # KeyOf(es, n + 1)
    <3>1. k \in DOMAIN t.entries /\ u.entries[k] = t.entries[k]
      BY <1>2, <2>2
    <3>2. PICK i \in 1 .. n : /\ KeyOf(es, i) = k /\ t.entries[k] = es[i]
                              /\ \A j \in 1 .. n : KeyOf(es, j) = k => j <= i
      BY <3>1 DEF IsTrie
    <3>3. \A j \in 1 .. n + 1 : KeyOf(es, j) = k => j <= i
      BY <2>2, <3>2
    <3> QED BY <3>1, <3>2, <3>3
  <2> QED BY <2>1, <2>2
<1> QED BY <1>1, <1>3, <1>4 DEF IsTrie

\* buildTrie makes the trie of all of them.
LEMMA BuildIsTrie ==
  ASSUME NEW es, IsMap(es)
  PROVE  IsTrie(buildTrie(es), es, Len(es))
<1>0. Len(es) \in Nat /\ DOMAIN es = 1 .. Len(es)
  BY ListFacts DEF IsMap, IsList
<1>1. PICK f : IsBuilt(f, es, Len(es)) /\ buildTrie(es) = f[Len(es)]
  BY <1>0, TrieIsBuilt
<1> DEFINE S == {n \in Nat : n <= Len(es) => IsTrie(f[n], es, n)}
<1>2. 0 \in S
  <2>1. f[0] = newRouteNode
    BY <1>0, <1>1 DEF IsBuilt
  <2>2. f[0].nodes = {<<>>} /\ DOMAIN f[0].entries = {}
    BY <2>1 DEF newRouteNode
  <2>3. Closed({<<>>})
    BY DEF Closed, IsPrefixOf
  <2>4. \A i : i \notin 1 .. 0
    OBVIOUS
  <2>5. IsTrie(f[0], es, 0)
    BY <2>2, <2>3, <2>4, Zenon DEF IsTrie
  <2> QED BY <2>5
<1>3. ASSUME NEW n \in S PROVE n + 1 \in S
  <2> SUFFICES ASSUME n + 1 <= Len(es) PROVE IsTrie(f[n + 1], es, n + 1)
    OBVIOUS
  <2>1. f[n + 1] = Insert(f[n], es[n + 1])
    BY <1>0, <1>1 DEF IsBuilt
  <2>2. es[n + 1].path \in DOMAIN Segments
    BY <1>0 DEF IsMap
  <2>3. IsTrie(f[n], es, n)
    BY <1>0
  <2> HIDE DEF S
  <2> QED BY <2>1, <2>2, <2>3, InsertIsTrie DEF S
<1> HIDE DEF S
<1>4. S = Nat
  BY <1>2, <1>3, NumbersByInduction DEF S
<1> QED BY <1>0, <1>1, <1>4 DEF S

-----------------------------------------------------------------------------
(* traverse *)

\* What is found below the child of a node that a step leads to.
Below(w, nodes, i, node, step) ==
  IF Append(node, step) \in nodes THEN w[i + 1][Append(node, step)] ELSE {}

\* The static child first, then the parameter child.
Turn(w, nodes, segs, i, node) ==
  IF i = Len(segs) THEN {node}
  ELSE IF Below(w, nodes, i, node, segs[i + 1]) # {}
       THEN Below(w, nodes, i, node, segs[i + 1])
       ELSE Below(w, nodes, i, node, Param)

\* What traverse finds from each node on, when a segments or more are used up.
IsWalk(w, nodes, segs, a) ==
  w = [i \in a .. Len(segs) |-> [node \in nodes |-> Turn(w, nodes, segs, i, node)]]

\* There is such a function: it is extended by one segment at a time, from the last.
LEMMA WalkExists ==
  ASSUME NEW nodes, NEW segs, Len(segs) \in Nat
  PROVE  \E w : IsWalk(w, nodes, segs, 0)
<1> PICK L : L = Len(segs)
  OBVIOUS
<1> DEFINE S == {k \in Nat : k <= L => \E w : IsWalk(w, nodes, segs, L - k)}
<1>1. 0 \in S
  <2> DEFINE w == [i \in L .. L |-> [node \in nodes |-> {node}]]
  <2>1. ASSUME NEW i \in L .. L, NEW node \in nodes PROVE Turn(w, nodes, segs, i, node) = {node}
    BY DEF Turn
  <2>0. w = [i \in L .. L |-> [node \in nodes |-> {node}]]
    OBVIOUS
  <2> HIDE DEF w
  <2>2. w = [i \in L .. L |-> [node \in nodes |-> Turn(w, nodes, segs, i, node)]]
    BY <2>0, <2>1, Zenon
  <2>3. IsWalk(w, nodes, segs, L - 0)
    BY <2>2 DEF IsWalk
  <2> QED BY <2>3
<1>2. ASSUME NEW k \in S PROVE k + 1 \in S
  <2> SUFFICES ASSUME k + 1 <= L PROVE \E w : IsWalk(w, nodes, segs, L - (k + 1))
    OBVIOUS
  <2>1. PICK w : IsWalk(w, nodes, segs, L - k)
    OBVIOUS
  <2>2. PICK a : a = L - (k + 1) /\ a \in Nat /\ a + 1 = L - k /\ a < L
    OBVIOUS
  <2> HIDE DEF S
  <2> DEFINE v == [i \in a .. L |-> IF i = a THEN [node \in nodes |-> Turn(w, nodes, segs, a, node)]
                                    ELSE w[i]]
  <2>3. \A i \in a + 1 .. L : v[i] = w[i] /\ i # a
    BY <2>2
  <2>4. ASSUME NEW i \in a .. L, NEW node
        PROVE  Turn(v, nodes, segs, i, node) = Turn(w, nodes, segs, i, node)
    <3>1. CASE i = L
      BY <3>1 DEF Turn
    <3>2. CASE i # L
      <4>1. v[i + 1] = w[i + 1]
        BY <2>2, <2>3, <3>2
      <4> HIDE DEF v
      <4> QED BY <4>1 DEF Turn, Below
    <3> QED BY <3>1, <3>2
  <2>5. ASSUME NEW i \in a .. L
        PROVE  v[i] = [node \in nodes |-> Turn(w, nodes, segs, i, node)]
    <3>1. CASE i = a
      BY <3>1
    <3>2. CASE i # a
      <4>1. i \in a + 1 .. L
        BY <2>2, <3>2
      <4>2. w[i] = [node \in nodes |-> Turn(w, nodes, segs, i, node)]
        BY <2>1, <2>2, <4>1, Zenon DEF IsWalk
      <4> QED BY <2>3, <4>1, <4>2
    <3> QED BY <3>1, <3>2
  <2>7. v = [i \in a .. L |-> v[i]]
    OBVIOUS
  <2> HIDE DEF v
  <2>6. ASSUME NEW i \in a .. L
        PROVE  v[i] = [node \in nodes |-> Turn(v, nodes, segs, i, node)]
    BY <2>4, <2>5, Zenon
  <2>8. IsWalk(v, nodes, segs, a)
    BY <2>6, <2>7, Zenon DEF IsWalk
  <2> QED BY <2>2, <2>8
<1> HIDE DEF S
<1>3. S = Nat
  BY <1>1, <1>2, NumbersByInduction DEF S
<1>4. L \in S
  BY <1>3
<1>5. PICK w : IsWalk(w, nodes, segs, L - L)
  BY <1>4 DEF S
<1> QED BY <1>5

\* traverse is its value at the root.
LEMMA TraverseWalks ==
  ASSUME NEW trie, NEW segs, Len(segs) \in Nat
  PROVE  \E w : IsWalk(w, trie.nodes, segs, 0) /\ traverse(trie, segs) = w[0][<<>>]
<1> DEFINE w == CHOOSE w : IsWalk(w, trie.nodes, segs, 0)
<1>1. IsWalk(w, trie.nodes, segs, 0)
  BY WalkExists, Zenon
<1>2. traverse(trie, segs) = w[0][<<>>]
  BY Zenon DEF traverse, IsWalk, Turn, Below
<1> HIDE DEF w
<1> QED BY <1>1, <1>2

\* The nodes below one that match a request.
Candidates(nodes, segs, node) == {n \in nodes : Matches(n, segs) /\ IsPrefixOf(node, n)}

\* T holds the most static one of C, if there is one.
Finds(T, C) ==
  \/ C = {} /\ T = {}
  \/ \E b \in C : T = {b} /\ \A n \in C \ {b} : MoreStatic(b, n)

\* The node has used up the first segments of the request.
MatchesSoFar(node, segs) ==
  Len(node) <= Len(segs) /\ \A j \in 1 .. Len(node) : node[j] \in {Param, segs[j]}

\* The child that a step leads to, and what lies below it.
LEMMA AppendStep ==
  ASSUME NEW node \in Seq(Steps), NEW y \in Steps
  PROVE  /\ Append(node, y) \in Seq(Steps) /\ Len(Append(node, y)) = Len(node) + 1
         /\ Append(node, y)[Len(node) + 1] = y
         /\ \A j \in 1 .. Len(node) : Append(node, y)[j] = node[j]
OBVIOUS

LEMMA AppendIsPrefix ==
  ASSUME NEW node \in Seq(Steps), NEW y \in Steps, NEW n \in Seq(Steps)
  PROVE  IsPrefixOf(Append(node, y), n) <=>
           IsPrefixOf(node, n) /\ Len(node) < Len(n) /\ n[Len(node) + 1] = y
<1> PICK a : a = Append(node, y)
  OBVIOUS
<1>1. /\ Len(a) = Len(node) + 1 /\ a[Len(node) + 1] = y
      /\ \A j \in 1 .. Len(node) : a[j] = node[j]
  BY AppendStep
<1>2. Len(node) \in Nat /\ Len(n) \in Nat
  OBVIOUS
<1>3. \A j \in 1 .. Len(node) + 1 : j = Len(node) + 1 \/ j \in 1 .. Len(node)
  BY <1>2
<1>4. \A j \in 1 .. Len(node) : j \in 1 .. Len(node) + 1
  BY <1>2
<1>5. Len(node) + 1 \in 1 .. Len(node) + 1
  BY <1>2
<1>6. Len(a) <= Len(n) <=> Len(node) < Len(n)
  BY <1>1, <1>2
<1>7. Len(node) < Len(n) => Len(node) <= Len(n)
  BY <1>2
<1> QED BY <1>1, <1>3, <1>4, <1>5, <1>6, <1>7, Zenon DEF IsPrefixOf

\* Below a child that is no node there is none.
LEMMA NoneBelow ==
  ASSUME NEW nodes, Closed(nodes), NEW segs, NEW node \in Seq(Steps), NEW y \in Steps,
         Append(node, y) \notin nodes
  PROVE  Candidates(nodes, segs, Append(node, y)) = {}
<1> SUFFICES ASSUME NEW n \in nodes, IsPrefixOf(Append(node, y), n) PROVE FALSE
  BY DEF Candidates
<1> PICK a : a = Append(node, y)
  OBVIOUS
<1>1. a \in Seq(Steps) /\ Len(a) \in Nat /\ n \in Seq(Steps) /\ Len(n) \in Nat
  BY AppendStep DEF Closed
<1>2. Len(a) \in 0 .. Len(n)
  BY <1>1 DEF IsPrefixOf
<1>3. PICK c \in nodes : Len(c) = Len(a) /\ IsPrefixOf(c, n)
  BY <1>2 DEF Closed
<1>4. \A j \in 1 .. Len(a) : c[j] = a[j]
  BY <1>3 DEF IsPrefixOf
<1>5. c \in Seq(Steps)
  BY DEF Closed
<1>6. c = a
  BY <1>1, <1>3, <1>4, <1>5, SeqEqual
<1> QED BY <1>6

\* A node below another goes on by the segment or by a parameter.
LEMMA CandidatesSplit ==
  ASSUME NEW nodes, Closed(nodes), NEW segs \in Seq(Steps), NEW node \in nodes,
         Len(node) < Len(segs)
  PROVE  Candidates(nodes, segs, node) =
           Candidates(nodes, segs, Append(node, segs[Len(node) + 1]))
             \cup Candidates(nodes, segs, Append(node, Param))
<1>0. node \in Seq(Steps) /\ Len(node) \in Nat /\ Len(segs) \in Nat
  BY DEF Closed
<1> PICK x, i : i = Len(node) + 1 /\ x = segs[i]
  OBVIOUS
<1>1. x \in Steps /\ Param \in Steps /\ i \in 1 .. Len(segs) /\ DOMAIN segs = 1 .. Len(segs)
  BY <1>0 DEF Steps
<1>2. ASSUME NEW n \in nodes, Matches(n, segs)
      PROVE  IsPrefixOf(node, n) <=>
               IsPrefixOf(Append(node, x), n) \/ IsPrefixOf(Append(node, Param), n)
  <2>1. n \in Seq(Steps)
    BY DEF Closed
  <2>2. Len(n) = Len(segs) /\ n[i] \in {Param, x}
    BY <1>1, <1>2 DEF Matches
  <2>3. /\ IsPrefixOf(Append(node, x), n) <=> IsPrefixOf(node, n) /\ n[i] = x
        /\ IsPrefixOf(Append(node, Param), n) <=> IsPrefixOf(node, n) /\ n[i] = Param
    BY <1>0, <1>1, <2>1, <2>2, AppendIsPrefix
  <2> QED BY <2>2, <2>3
<1> QED BY <1>2, Zenon DEF Candidates

\* What the static child finds is more static than all that the parameter child
\* finds.
LEMMA StaticWins ==
  ASSUME NEW nodes, Closed(nodes), NEW segs \in Seq(Steps), NEW node \in nodes,
         Len(node) < Len(segs), NEW T, NEW U,
         Finds(T, Candidates(nodes, segs, Append(node, segs[Len(node) + 1]))),
         Finds(U, Candidates(nodes, segs, Append(node, Param)))
  PROVE  Finds(IF T # {} THEN T ELSE U, Candidates(nodes, segs, node))
<1>0. node \in Seq(Steps) /\ Len(node) \in Nat /\ Len(segs) \in Nat
  BY DEF Closed
<1> PICK x, i, C, D, E : /\ i = Len(node) + 1 /\ x = segs[i]
                         /\ C = Candidates(nodes, segs, node)
                         /\ D = Candidates(nodes, segs, Append(node, x))
                         /\ E = Candidates(nodes, segs, Append(node, Param))
  OBVIOUS
<1>1. x \in Steps /\ Param \in Steps /\ i \in 1 .. Len(segs) /\ DOMAIN segs = 1 .. Len(segs)
  BY <1>0 DEF Steps
<1>2. C = D \cup E
  BY CandidatesSplit
<1>3. CASE T = {}
  <2>1. D = {}
    BY <1>3 DEF Finds
  <2> QED BY <1>2, <1>3, <2>1
<1>4. CASE T # {}
  <2>1. PICK b \in D : T = {b} /\ \A n \in D \ {b} : MoreStatic(b, n)
    BY <1>4 DEF Finds
  <2>2. ASSUME NEW n \in E \ D PROVE MoreStatic(b, n)
    <3>1. x # Param
      BY <2>2
    <3>2. /\ b \in Seq(Steps) /\ n \in Seq(Steps) /\ Len(b) = Len(segs) /\ Len(n) = Len(segs)
          /\ IsPrefixOf(Append(node, x), b) /\ IsPrefixOf(Append(node, Param), n)
      BY <2>2 DEF Candidates, Matches, Closed
    <3>3. IsPrefixOf(node, b) /\ b[i] = x /\ IsPrefixOf(node, n) /\ n[i] = Param
      BY <1>0, <1>1, <3>2, AppendIsPrefix
    <3>4. \A j \in 1 .. i - 1 : b[j] = n[j]
      BY <1>0, <3>3 DEF IsPrefixOf
    <3>5. i \in DOMAIN b
      BY <1>1, <3>2
    <3> QED BY <3>1, <3>3, <3>4, <3>5, Zenon DEF MoreStatic
  <2>3. \A n \in C \ {b} : MoreStatic(b, n)
    BY <1>2, <2>1, <2>2
  <2> QED BY <1>2, <1>4, <2>1, <2>3 DEF Finds
<1> QED BY <1>3, <1>4

\* From every node that matches so far, the most static one below it is found.
LEMMA WalkFinds ==
  ASSUME NEW nodes, Closed(nodes), NEW segs \in Seq(Steps), NEW w, IsWalk(w, nodes, segs, 0)
  PROVE  \A node \in nodes : MatchesSoFar(node, segs) =>
           Finds(w[Len(node)][node], Candidates(nodes, segs, node))
<1>0. Len(segs) \in Nat /\ DOMAIN segs = 1 .. Len(segs)
  OBVIOUS
<1> PICK L : L = Len(segs)
  OBVIOUS
<1>1. ASSUME NEW node \in nodes, MatchesSoFar(node, segs)
      PROVE  /\ node \in Seq(Steps) /\ Len(node) \in Nat /\ Len(node) <= L
             /\ w[Len(node)][node] = Turn(w, nodes, segs, Len(node), node)
  <2>1. node \in Seq(Steps) /\ Len(node) \in 0 .. L
    BY <1>0, <1>1 DEF Closed, MatchesSoFar
  <2>2. w[Len(node)] = [n \in nodes |-> Turn(w, nodes, segs, Len(node), n)]
    BY <2>1, Zenon DEF IsWalk
  <2> QED BY <1>0, <2>1, <2>2
<1> DEFINE Right(node) == Finds(w[Len(node)][node], Candidates(nodes, segs, node))
           S == {k \in Nat : \A node \in nodes :
                   MatchesSoFar(node, segs) /\ Len(node) + k = L => Right(node)}
<1>2. 0 \in S
  <2> SUFFICES ASSUME NEW node \in nodes, MatchesSoFar(node, segs), Len(node) + 0 = L
               PROVE  Right(node)
    OBVIOUS
  <2>1. node \in Seq(Steps) /\ Len(node) = L
    BY <1>1
  <2>2. w[Len(node)][node] = {node}
    BY <1>1, <2>1 DEF Turn
  <2>3. Matches(node, segs) /\ IsPrefixOf(node, node)
    BY <1>0, <2>1 DEF Matches, IsPrefixOf, MatchesSoFar
  <2>4. ASSUME NEW n \in Candidates(nodes, segs, node) PROVE n = node
    <3>1. n \in Seq(Steps) /\ Len(n) = L /\ IsPrefixOf(node, n)
      BY DEF Candidates, Matches, Closed
    <3>2. \A j \in 1 .. Len(node) : node[j] = n[j]
      BY <3>1 DEF IsPrefixOf
    <3> QED BY <2>1, <3>1, <3>2, SeqEqual
  <2>5. node \in Candidates(nodes, segs, node)
    BY <2>3 DEF Candidates
  <2> QED BY <2>2, <2>4, <2>5 DEF Finds
<1>3. ASSUME NEW k \in S PROVE k + 1 \in S
  <2> SUFFICES ASSUME NEW node \in nodes, MatchesSoFar(node, segs), Len(node) + (k + 1) = L
               PROVE  Right(node)
    OBVIOUS
  <2>1. PICK i, x : i = Len(node) /\ x = segs[i + 1]
    OBVIOUS
  <2>2. /\ node \in Seq(Steps) /\ i \in Nat /\ i < L /\ k \in Nat
        /\ w[i][node] = Turn(w, nodes, segs, i, node)
    BY <1>0, <1>1, <2>1
  <2>3. x \in Steps /\ Param \in Steps
    BY <1>0, <2>1, <2>2 DEF Steps
  <2>4. ASSUME NEW y \in {x, Param}
        PROVE  Finds(Below(w, nodes, i, node, y), Candidates(nodes, segs, Append(node, y)))
    <3>1. PICK a : a = Append(node, y)
      OBVIOUS
    <3>2. CASE a \notin nodes
      <4>1. Candidates(nodes, segs, a) = {}
        BY <2>2, <2>3, <3>1, <3>2, NoneBelow
      <4> QED BY <3>1, <3>2, <4>1 DEF Finds, Below
    <3>3. CASE a \in nodes
      <4>1. /\ Len(a) = i + 1 /\ a[i + 1] = y
            /\ \A j \in 1 .. i : a[j] = node[j]
        BY <2>1, <2>2, <2>3, <3>1, AppendStep
      <4>2. MatchesSoFar(a, segs)
        <5>1. Len(a) <= Len(segs)
          BY <1>0, <2>2, <4>1
        <5>2. ASSUME NEW j \in 1 .. Len(a) PROVE a[j] \in {Param, segs[j]}
          <6>1. CASE j = i + 1
            BY <2>1, <4>1, <6>1
          <6>2. CASE j # i + 1
            <7>1. j \in 1 .. i
              BY <2>2, <4>1, <6>2
            <7> QED BY <2>1, <4>1, <7>1 DEF MatchesSoFar
          <6> QED BY <6>1, <6>2
        <5> QED BY <5>1, <5>2 DEF MatchesSoFar
      <4>3. Len(a) + k = L
        BY <2>1, <2>2, <4>1
      <4>4. Finds(w[i + 1][a], Candidates(nodes, segs, a))
        BY <3>3, <4>1, <4>2, <4>3
      <4> QED BY <3>1, <3>3, <4>4 DEF Below
    <3> QED BY <3>2, <3>3
  <2> HIDE DEF S
  <2>5. Finds(IF Below(w, nodes, i, node, x) # {} THEN Below(w, nodes, i, node, x)
              ELSE Below(w, nodes, i, node, Param), Candidates(nodes, segs, node))
    BY <2>1, <2>2, <2>4, StaticWins
  <2>6. w[i][node] = IF Below(w, nodes, i, node, x) # {} THEN Below(w, nodes, i, node, x)
                     ELSE Below(w, nodes, i, node, Param)
    BY <2>1, <2>2 DEF Turn
  <2> QED BY <2>1, <2>5, <2>6
<1>4. S = Nat
  <2> HIDE DEF S
  <2> QED BY <1>2, <1>3, NumbersByInduction DEF S
<1>5. ASSUME NEW node \in nodes, MatchesSoFar(node, segs) PROVE Right(node)
  <2>1. L - Len(node) \in Nat /\ Len(node) + (L - Len(node)) = L
    BY <1>0, <1>1, <1>5
  <2>2. L - Len(node) \in S
    BY <1>4, <2>1
  <2> QED BY <1>5, <2>1, <2>2
<1> QED BY <1>5

\* traverse returns the most static node that matches a request.
LEMMA TraverseFinds ==
  ASSUME NEW trie, Closed(trie.nodes), NEW segs \in Seq(Steps)
  PROVE  Finds(traverse(trie, segs), {n \in trie.nodes : Matches(n, segs)})
<1>1. PICK w : IsWalk(w, trie.nodes, segs, 0) /\ traverse(trie, segs) = w[0][<<>>]
  BY TraverseWalks
<1>2. MatchesSoFar(<<>>, segs) /\ Len(<<>>) = 0 /\ <<>> \in trie.nodes
  BY DEF MatchesSoFar, Closed
<1>3. Candidates(trie.nodes, segs, <<>>) = {n \in trie.nodes : Matches(n, segs)}
  <2>1. ASSUME NEW n \in trie.nodes PROVE IsPrefixOf(<<>>, n)
    BY DEF Closed, IsPrefixOf
  <2> QED BY <2>1 DEF Candidates
<1> QED BY <1>1, <1>2, <1>3, WalkFinds

\* Of two nodes at most one is more static.
LEMMA MoreStaticOneWay ==
  ASSUME NEW s \in Seq(Steps), NEW t \in Seq(Steps), MoreStatic(s, t)
  PROVE  ~ MoreStatic(t, s) /\ s # t
<1>1. PICK i \in 1 .. Len(s) : /\ s[i] # Param /\ t[i] = Param
                               /\ \A j \in 1 .. i - 1 : s[j] = t[j]
  BY DEF MoreStatic
<1>2. ASSUME NEW k \in 1 .. Len(t), t[k] # Param, s[k] = Param, \A j \in 1 .. k - 1 : t[j] = s[j]
      PROVE  FALSE
  <2>1. i \in Nat /\ k \in Nat /\ i >= 1 /\ k >= 1
    OBVIOUS
  <2>2. CASE k < i
    BY <1>1, <1>2, <2>1, <2>2
  <2>3. CASE i < k
    BY <1>1, <1>2, <2>1, <2>3
  <2>4. CASE i = k
    BY <1>1, <1>2, <2>4
  <2> QED BY <2>1, <2>2, <2>3, <2>4
<1>3. ~ MoreStatic(t, s)
  BY <1>2 DEF MoreStatic
<1> QED BY <1>1, <1>3

\* Lookup finds in the trie of a map, for every map and every request, the entry
\* that the comments of RouteMap promise without a trie, or none where a more
\* static node hides it.
THEOREM LookupIsPromised ==
  ASSUME NEW es, IsMap(es), NEW method, NEW segs \in Seq(STRING \ {Param})
  PROVE  \/ Lookup(es, method, segs) = Promised(es, method, segs)
         \/ Lookup(es, method, segs) = {} /\ Shadowed(es, method, segs)
<1> PICK trie, T : trie = buildTrie(es) /\ T = traverse(trie, segs)
  OBVIOUS
<1>0. segs \in Seq(Steps) /\ DOMAIN es = 1 .. Len(es) /\ Len(es) \in Nat
  BY SeqMonotonic, ListFacts DEF Steps, IsMap, IsList
<1> DEFINE sh(i) == Shape(es[i].path)
           fits == {i \in 1 .. Len(es) : es[i].method = method /\ Matches(sh(i), segs)}
           best == {i \in fits : \A j \in fits : ~ MoreStatic(sh(j), sh(i))}
           last == {j \in best : \A k \in best : k <= j}
<1>1. IsTrie(trie, es, Len(es))
  BY BuildIsTrie
<1>2. Finds(T, {n \in trie.nodes : Matches(n, segs)})
  BY <1>0, <1>1, TraverseFinds DEF IsTrie
<1>3. Lookup(es, method, segs) =
        {trie.entries[k] : k \in {<<n, method>> : n \in T} \cap DOMAIN trie.entries}
  BY DEF Lookup
<1>4. Promised(es, method, segs) = {es[i] : i \in last}
  BY <1>0 DEF Promised
<1>5. ASSUME NEW i \in fits
      PROVE  sh(i) \in trie.nodes /\ sh(i) \in Seq(Steps) /\ KeyOf(es, i) = <<sh(i), method>>
             /\ KeyOf(es, i) \in DOMAIN trie.entries
  BY <1>1 DEF IsTrie, Closed, KeyOf
<1>6. CASE T = {}
  <2>1. Lookup(es, method, segs) = {}
    BY <1>3, <1>6
  <2>2. fits = {}
    BY <1>2, <1>5, <1>6 DEF Finds
  <2> QED BY <1>4, <2>1, <2>2
<1>7. ASSUME NEW b \in T PROVE
         \/ Lookup(es, method, segs) = Promised(es, method, segs)
         \/ Lookup(es, method, segs) = {} /\ Shadowed(es, method, segs)
  <2>1. /\ b \in trie.nodes /\ Matches(b, segs) /\ T = {b} /\ b \in Seq(Steps)
        /\ \A n \in trie.nodes : Matches(n, segs) /\ n # b => MoreStatic(b, n)
    BY <1>1, <1>2, <1>7 DEF Finds, IsTrie, Closed
  <2>2. \A i \in fits : sh(i) = b \/ MoreStatic(b, sh(i))
    BY <1>5, <2>1
  <2> PICK key : key = <<b, method>>
    OBVIOUS
  <2>3. Lookup(es, method, segs) = {trie.entries[k] : k \in {key} \cap DOMAIN trie.entries}
    BY <1>3, <2>1
  <2>4. CASE key \in DOMAIN trie.entries
    <3>1. PICK i \in 1 .. Len(es) :
            /\ KeyOf(es, i) = key /\ trie.entries[key] = es[i]
            /\ \A j \in 1 .. Len(es) : KeyOf(es, j) = key => j <= i
      BY <1>1, <2>4 DEF IsTrie
    <3>2. sh(i) = b /\ es[i].method = method
      BY <3>1 DEF KeyOf
    <3>3. i \in fits
      BY <2>1, <3>2
    <3>4. \A j \in fits : ~ MoreStatic(sh(j), b)
      BY <1>5, <2>1, <2>2, MoreStaticOneWay
    <3>5. i \in best
      BY <3>2, <3>3, <3>4
    <3>6. ASSUME NEW j \in best PROVE j <= i
      <4>1. j \in fits /\ ~ MoreStatic(b, sh(j))
        BY <3>2, <3>3, <3>6
      <4>2. sh(j) = b /\ es[j].method = method
        BY <2>2, <4>1
      <4> QED BY <3>1, <4>1, <4>2 DEF KeyOf
    <3>7. best \subseteq Nat
      BY <1>0
    <3>11. i \in best /\ \A j \in best : j \in Nat /\ j <= i
      BY <3>5, <3>6, <3>7
    <3> HIDE DEF best
    <3>12. i \in Nat /\ \A j \in best : i <= j => j = i
      BY <3>11
    <3>8. last = {i}
      BY <3>11, <3>12, Zenon
    <3> HIDE DEF last
    <3>9. Promised(es, method, segs) = {es[i]}
      BY <1>4, <3>8
    <3>10. Lookup(es, method, segs) = {es[i]}
      BY <2>3, <2>4, <3>1
    <3> QED BY <3>9, <3>10
  <2>5. CASE key \notin DOMAIN trie.entries
    <3>1. Lookup(es, method, segs) = {}
      BY <2>3, <2>5
    <3>2. CASE last = {}
      BY <1>4, <3>1, <3>2
    <3>3. ASSUME NEW i \in last PROVE Shadowed(es, method, segs)
      <4>1. i \in fits
        OBVIOUS
      <4>2. sh(i) # b
        BY <1>5, <2>5, <4>1
      <4>3. MoreStatic(b, Shape(es[i].path))
        BY <2>2, <4>1, <4>2
      <4>4. es[i] \in Promised(es, method, segs)
        BY <1>4
      <4> QED BY <2>1, <4>3, <4>4 DEF Shadowed
    <3> QED BY <3>1, <3>2, <3>3
  <2> QED BY <2>4, <2>5
<1> QED BY <1>6, <1>7

\* Every path that was read, and every path of the map, is one that has segments.
Known(p) == /\ p.route # <<>> => p.route[2] \in DOMAIN Segments
            /\ p.page # <<>> => p.page[1] \in DOMAIN Segments

\* The maps and what is pending have known paths only.
PathInv == IsMap(written) /\ IsMap(routes) /\ Known(pending)

LEMMA NothingIsKnown == Known(Nothing)
BY DEF Known, Nothing

\* A route that is emitted has a known path.
LEMMA EmitKeepsMap ==
  ASSUME PathInv, Emit
  PROVE  IsMap(routes')
<1>1. CASE ~ Found
  BY <1>1 DEF Emit, PathInv
<1>2. CASE Found
  <2>1. buildRoute.path \in DOMAIN Segments
    BY <1>2 DEF Found, buildRoute, PathInv, Known
  <2> PICK x, rs : x = buildRoute /\ rs = routes'
    OBVIOUS
  <2>2. rs = Append(routes, x)
    BY <1>2 DEF Emit
  <2>3. IsList(routes) /\ \A i \in 1 .. Len(routes) : routes[i].path \in DOMAIN Segments
    BY ListFacts DEF PathInv, IsMap, IsList
  <2>4. /\ IsList(rs) /\ Len(rs) = Len(routes) + 1 /\ rs[Len(routes) + 1] = x
        /\ \A i \in 1 .. Len(routes) : rs[i] = routes[i]
    BY <2>2, <2>3, ListAppend
  <2>5. Len(routes) \in Nat /\ DOMAIN rs = 1 .. Len(rs)
    BY <2>3, <2>4, ListFacts
  <2>6. ASSUME NEW i \in DOMAIN rs PROVE rs[i].path \in DOMAIN Segments
    <3>1. CASE i = Len(routes) + 1
      BY <2>1, <2>4, <3>1
    <3>2. CASE i # Len(routes) + 1
      BY <2>3, <2>4, <2>5, <3>2
    <3> QED BY <3>1, <3>2
  <2> QED BY <2>4, <2>6 DEF IsMap, IsList
<1> QED BY <1>1, <1>2

\* So has one that is noted.
LEMMA NoteKeepsKnown ==
  ASSUME NEW l \in Lines, Note(l), IsPending(pending), Known(pending)
  PROVE  Known(pending')
<1> PICK p, n : p = pending /\ n = pending'
  OBVIOUS
<1>1. CASE l.kind = "route"
  <2>0. l.path \in DOMAIN Segments
    BY <1>1, ServingAssumption
  <2>1. PICK x : x = <<l.method, l.path>>
    OBVIOUS
  <2>4. x[2] \in DOMAIN Segments
    BY <2>0, <2>1
  <2>2. n = [p EXCEPT !.route = x]
    BY <1>1, <2>1 DEF Note
  <2>3. n.route = x /\ n.page = p.page
    BY <2>2 DEF IsPending
  <2> QED BY <2>3, <2>4 DEF Known
<1>2. CASE l.kind = "page" /\ lang = "ts" /\ l.path # ""
  <2>0. l.path \in DOMAIN Segments
    BY <1>2, ServingAssumption
  <2>1. PICK x : x = <<l.path>>
    OBVIOUS
  <2>4. x[1] \in DOMAIN Segments
    BY <2>0, <2>1
  <2>2. n = [p EXCEPT !.page = x]
    BY <1>2, <2>1 DEF Note, Begins
  <2>3. n.route = p.route /\ n.page = x
    BY <2>2 DEF IsPending
  <2> QED BY <2>3, <2>4 DEF Known
<1>3. CASE l.kind = "validate"
  <2>1. PICK x : x = l.schema
    OBVIOUS
  <2>2. n = [p EXCEPT !.validate = x]
    BY <1>3, <2>1 DEF Note
  <2>3. n.route = p.route /\ n.page = p.page
    BY <2>2 DEF IsPending
  <2> QED BY <2>3 DEF Known
<1>4. CASE l.kind = "auth"
  <2>1. pending' = [pending EXCEPT !.auth = l.roles, !.at = read + 1]
    BY <1>4 DEF Note
  <2> QED BY <2>1 DEF Known, IsPending
<1>5. CASE n = p
  BY <1>5
<1> QED BY <1>1, <1>2, <1>3, <1>4, <1>5 DEF Note, Begins

LEMMA PathInvStep ==
  ASSUME ScanInv, PathInv, [Next]_vars
  PROVE  PathInv'
<1>0. IsPending(pending)
  BY DEF ScanInv, Waiting, IsPending
<1>1. CASE UNCHANGED <<scan, written>>
  BY <1>1 DEF PathInv, scan
<1>2. ASSUME NEW l \in Lines, Read(l) PROVE PathInv'
  <2>1. UNCHANGED written
    BY <1>2 DEF Read
  <2>2. IsMap(routes')
    <3>1. Emit \/ UNCHANGED routes
      BY <1>2, Zenon DEF Read, ReadLine, ReadTSXLine
    <3> QED BY <3>1, EmitKeepsMap DEF PathInv
  <2>3. Known(pending')
    <3>1. CASE pending' = pending \/ pending' = Nothing \/ pending' = Cleared
      BY <3>1, NothingIsKnown DEF PathInv, Cleared
    <3>2. CASE Note(l)
      BY <1>0, <3>2, NoteKeepsKnown DEF PathInv
    <3>3. CASE pending' = [pending EXCEPT !.auth = l.roles, !.at = read + 1]
      BY <1>0, <3>3 DEF PathInv, Known, IsPending
    <3>4. CASE l.kind = "page" /\ l.path # "" /\ pending' = [Nothing EXCEPT !.page = <<l.path>>]
      <4>0. l.path \in DOMAIN Segments
        BY <3>4, ServingAssumption
      <4>1. PICK x : x = <<l.path>>
        OBVIOUS
      <4>4. x[1] \in DOMAIN Segments
        BY <4>0, <4>1
      <4>2. pending' = [Nothing EXCEPT !.page = x]
        BY <3>4, <4>1
      <4>3. pending'.route = <<>> /\ pending'.page = x
        BY <4>2 DEF Nothing
      <4> QED BY <4>3, <4>4 DEF Known
    <3>5. ReadLine(l) => pending' = pending \/ Note(l) \/ pending' = Cleared
      BY Zenon DEF ReadLine
    <3>6. ReadTSXLine(l) =>
            \/ pending' = pending \/ pending' = Nothing
            \/ pending' = [pending EXCEPT !.auth = l.roles, !.at = read + 1]
            \/ l.kind = "page" /\ l.path # "" /\ pending' = [Nothing EXCEPT !.page = <<l.path>>]
      BY Zenon DEF ReadTSXLine
    <3> QED BY <1>2, <3>1, <3>2, <3>3, <3>4, <3>5, <3>6 DEF Read
  <2> QED BY <2>1, <2>2, <2>3 DEF PathInv
<1>3. ASSUME NEW opens, NextFile(opens) PROVE PathInv'
  BY <1>3, EmitKeepsMap, NothingIsKnown DEF NextFile, PathInv
<1>4. CASE Generate
  <2>1. IsMap(routes')
    BY <1>4, EmitKeepsMap DEF Generate
  <2>2. IsMap(written')
    BY <1>4, <2>1 DEF Generate, PathInv
  <2> QED BY <1>4, <2>1, <2>2, NothingIsKnown DEF Generate, PathInv
<1>5. CASE Exit
  <2>1. IsMap(<<>>)
    BY DEF IsMap
  <2> QED BY <1>5, <2>1 DEF Exit, PathInv
<1> QED BY <1>1, <1>2, <1>3, <1>4, <1>5 DEF Next, Serve, ScannerNext, vars

\* Every map that is written is looked up as promised.
THEOREM WrittenMapsAreLookedUp == Spec => []LookupAsPromised
<1> DEFINE I == ScanInv /\ PathInv
<1>1. Init => I
  <2>1. IsMap(<<>>)
    BY DEF IsMap
  <2>2. Init => PathInv
    BY <2>1, NothingIsKnown, ServingAssumption DEF Init, ScannerInit, PathInv
  <2> QED BY <2>2, ScanInvInit
<1>2. I /\ [Next]_vars => I'
  BY ScanInvStep, PathInvStep
<1>3. I => LookupAsPromised
  <2> SUFFICES ASSUME IsMap(written), NEW method, NEW segs \in {in.segs : in \in Inputs}
               PROVE  \/ Lookup(written, method, segs) = Promised(written, method, segs)
                      \/ /\ Lookup(written, method, segs) = {}
                         /\ Shadowed(written, method, segs)
    BY Zenon DEF LookupAsPromised, PathInv
  <2>1. segs \in Seq(STRING \ {Param})
    BY GatewayAssumption
  <2> QED BY <2>1, LookupIsPromised
<1> QED BY <1>1, <1>2, <1>3, PTL DEF Spec

-----------------------------------------------------------------------------
(* Sums *)

\* The sums of g before each tick up to k.
IsSum(f, g, k) == f = [i \in 0 .. k |-> IF i = 0 THEN 0 ELSE f[i - 1] + g[i - 1]]

\* The constants of the rate limiter are numbers.
LEMMA Bounds == /\ MaxTime \in Nat /\ Window \in Nat
                /\ PerIP \in Nat \ {0} /\ PerToken \in Nat \ {0}
BY GatewayAssumption, Zenon

\* There is such a function.
LEMMA SumExists ==
  ASSUME NEW g
  PROVE  \A k \in Nat : \E f : IsSum(f, g, k)
<1> DEFINE S == {k \in Nat : \E f : IsSum(f, g, k)}
<1>1. 0 \in S
  <2> DEFINE f == [n \in 0 .. 0 |-> 0]
  <2>1. IsSum(f, g, 0)
    BY DEF IsSum
  <2> HIDE DEF f
  <2> QED BY <2>1
<1>2. ASSUME NEW k \in S PROVE k + 1 \in S
  <2>1. PICK f : IsSum(f, g, k)
    OBVIOUS
  <2> DEFINE h == [n \in 0 .. k + 1 |-> IF n = k + 1 THEN f[k] + g[k] ELSE f[n]]
  <2>2. ASSUME NEW n \in 0 .. k + 1
        PROVE  h[n] = IF n = 0 THEN 0 ELSE h[n - 1] + g[n - 1]
    <3>1. CASE n = k + 1
      BY <3>1
    <3>2. CASE n # k + 1
      BY <3>2, <2>1 DEF IsSum
    <3> QED BY <3>1, <3>2
  <2>3. IsSum(h, g, k + 1)
    BY <2>2 DEF IsSum
  <2> HIDE DEF h
  <2> QED BY <2>3
<1> HIDE DEF S
<1>3. S = Nat
  BY <1>1, <1>2, NumbersByInduction DEF S
<1> QED BY <1>3 DEF S

\* SumBefore is its value, at the nearer end for a time out of range.
LEMMA SumIsSum ==
  ASSUME NEW g
  PROVE  \E f : /\ IsSum(f, g, MaxTime + 1)
                /\ \A t \in Int : SumBefore(g, t) =
                     f[IF t < 0 THEN 0 ELSE IF t > MaxTime THEN MaxTime + 1 ELSE t]
<1>0. MaxTime + 1 \in Nat
  BY Bounds
<1> DEFINE f == CHOOSE f : IsSum(f, g, MaxTime + 1)
<1>1. IsSum(f, g, MaxTime + 1)
  BY <1>0, SumExists, Zenon
<1>2. ASSUME NEW t \in Int
      PROVE  SumBefore(g, t) = f[IF t < 0 THEN 0 ELSE IF t > MaxTime THEN MaxTime + 1 ELSE t]
  <2>1. f = CHOOSE h : h = [i \in 0 .. MaxTime + 1 |->
                              IF i = 0 THEN 0 ELSE h[i - 1] + g[i - 1]]
    BY Zenon DEF IsSum
  <2> HIDE DEF f
  <2> QED BY <2>1 DEF SumBefore
<1> HIDE DEF f
<1> QED BY <1>1, <1>2

\* What SumBefore computes.
LEMMA SumFacts ==
  ASSUME NEW g
  PROVE  /\ \A t \in Int : t <= 0 => SumBefore(g, t) = 0
         /\ \A t \in 0 .. MaxTime : SumBefore(g, t + 1) = SumBefore(g, t) + g[t]
         /\ \A t \in Int : t > MaxTime => SumBefore(g, t) = SumBefore(g, MaxTime + 1)
<1>0. MaxTime \in Nat
  BY Bounds
<1>1. PICK f : /\ IsSum(f, g, MaxTime + 1)
               /\ \A t \in Int : SumBefore(g, t) =
                     f[IF t < 0 THEN 0 ELSE IF t > MaxTime THEN MaxTime + 1 ELSE t]
  BY SumIsSum
<1>2. f[0] = 0 /\ \A i \in 0 .. MaxTime : f[i + 1] = f[i] + g[i]
  BY <1>0, <1>1 DEF IsSum
<1>3. \A t \in Int : t <= 0 => SumBefore(g, t) = 0
  BY <1>0, <1>1, <1>2
<1>4. ASSUME NEW t \in 0 .. MaxTime PROVE SumBefore(g, t + 1) = SumBefore(g, t) + g[t]
  <2>1. SumBefore(g, t) = f[t]
    BY <1>0, <1>1
  <2>2. SumBefore(g, t + 1) = f[t + 1]
    <3>1. CASE t = MaxTime
      BY <1>0, <1>1, <3>1
    <3>2. CASE t # MaxTime
      BY <1>0, <1>1, <3>2
    <3> QED BY <3>1, <3>2
  <2> QED BY <1>2, <2>1, <2>2
<1>5. \A t \in Int : t > MaxTime => SumBefore(g, t) = SumBefore(g, MaxTime + 1)
  BY <1>0, <1>1
<1> QED BY <1>3, <1>4, <1>5

\* The sums are numbers and do not decrease.
LEMMA SumIsNat ==
  ASSUME NEW g \in [0 .. MaxTime -> Nat]
  PROVE  /\ \A t \in Int : SumBefore(g, t) \in Nat
         /\ \A t, u \in Int : t <= u => SumBefore(g, t) <= SumBefore(g, u)
<1>0. MaxTime \in Nat
  BY Bounds
<1> DEFINE S == {k \in Nat : /\ SumBefore(g, k) \in Nat
                             /\ \A t \in Int : t <= k => /\ SumBefore(g, t) \in Nat
                                                         /\ SumBefore(g, t) <= SumBefore(g, k)}
<1>1. 0 \in S
  BY SumFacts
<1>2. ASSUME NEW k \in S PROVE k + 1 \in S
  <2>1. SumBefore(g, k + 1) \in Nat /\ SumBefore(g, k) <= SumBefore(g, k + 1)
    <3>1. CASE k <= MaxTime
      <4>1. SumBefore(g, k + 1) = SumBefore(g, k) + g[k] /\ g[k] \in Nat
        BY <1>0, <3>1, SumFacts
      <4> QED BY <4>1
    <3>2. CASE k > MaxTime
      BY <1>0, <3>2, SumFacts
    <3> QED BY <1>0, <3>1, <3>2
  <2>2. ASSUME NEW t \in Int, t <= k + 1
        PROVE  SumBefore(g, t) \in Nat /\ SumBefore(g, t) <= SumBefore(g, k + 1)
    <3>1. CASE t = k + 1
      BY <2>1, <3>1
    <3>2. CASE t # k + 1
      <4>1. t <= k
        BY <2>2, <3>2
      <4> QED BY <2>1, <4>1
    <3> QED BY <3>1, <3>2
  <2> QED BY <2>1, <2>2
<1> HIDE DEF S
<1>3. S = Nat
  BY <1>1, <1>2, NumbersByInduction DEF S
<1>4. ASSUME NEW u \in Int, NEW t \in Int, t <= u
      PROVE  /\ SumBefore(g, t) \in Nat /\ SumBefore(g, u) \in Nat
             /\ SumBefore(g, t) <= SumBefore(g, u)
  <2>1. CASE u >= 0
    BY <1>3, <1>4, <2>1 DEF S
  <2>2. CASE u < 0
    BY <1>4, <2>2, SumFacts
  <2> QED BY <2>1, <2>2
<1> QED BY <1>4

\* One admission more at time n.
LEMMA SumGrows ==
  ASSUME NEW g \in [0 .. MaxTime -> Nat], NEW n \in 0 .. MaxTime,
         NEW h \in [0 .. MaxTime -> Nat],
         \A k \in 0 .. MaxTime : h[k] = IF k = n THEN g[k] + 1 ELSE g[k]
  PROVE  \A t \in Int : SumBefore(h, t) = SumBefore(g, t) + (IF t > n THEN 1 ELSE 0)
<1>00. MaxTime \in Nat
  BY Bounds
<1>0. MaxTime \in Nat /\ n \in Nat
  BY <1>00
<1> DEFINE S == {k \in Nat : SumBefore(h, k) = SumBefore(g, k) + (IF k > n THEN 1 ELSE 0)}
<1>1. 0 \in S
  BY <1>0, SumFacts
<1>2. ASSUME NEW k \in S PROVE k + 1 \in S
  <2>0. k \in Int /\ SumBefore(g, k) \in Nat
    <3>1. k \in Int
      OBVIOUS
    <3> HIDE DEF S
    <3> QED BY <3>1, SumIsNat
  <2>1. CASE k <= MaxTime
    <3>1. /\ SumBefore(g, k + 1) = SumBefore(g, k) + g[k]
          /\ SumBefore(h, k + 1) = SumBefore(h, k) + h[k]
      BY <1>0, <2>1, SumFacts
    <3>2. g[k] \in Nat /\ h[k] = IF k = n THEN g[k] + 1 ELSE g[k]
      BY <1>0, <2>1
    <3> QED BY <1>0, <2>0, <3>1, <3>2
  <2>2. CASE k > MaxTime
    <3>1. SumBefore(g, k + 1) = SumBefore(g, k) /\ SumBefore(h, k + 1) = SumBefore(h, k)
      BY <1>0, <2>2, SumFacts
    <3> QED BY <1>0, <2>2, <3>1
  <2> QED BY <1>0, <2>1, <2>2
<1> HIDE DEF S
<1>3. S = Nat
  BY <1>1, <1>2, NumbersByInduction DEF S
<1>4. ASSUME NEW t \in Int PROVE SumBefore(h, t) = SumBefore(g, t) + (IF t > n THEN 1 ELSE 0)
  <2>1. CASE t >= 0
    BY <1>3, <2>1 DEF S
  <2>2. CASE t < 0
    BY <1>0, <2>2, SumFacts
  <2> QED BY <2>1, <2>2
<1> QED BY <1>4

\* In other words: every later sum is one more.
LEMMA SumMoves ==
  ASSUME NEW g \in [0 .. MaxTime -> Nat], NEW n \in 0 .. MaxTime,
         NEW h \in [0 .. MaxTime -> Nat],
         \A k \in 0 .. MaxTime : h[k] = IF k = n THEN g[k] + 1 ELSE g[k]
  PROVE  \A t \in Int : /\ SumBefore(h, t) \in Nat
                        /\ t > n => SumBefore(h, t) = SumBefore(g, t) + 1
                        /\ t <= n => SumBefore(h, t) = SumBefore(g, t)
<1> SUFFICES ASSUME NEW t \in Int
             PROVE  /\ SumBefore(h, t) \in Nat
                    /\ t > n => SumBefore(h, t) = SumBefore(g, t) + 1
                    /\ t <= n => SumBefore(h, t) = SumBefore(g, t)
  OBVIOUS
<1>0. MaxTime \in Nat
  BY Bounds
<1>1. SumBefore(h, t) = SumBefore(g, t) + (IF t > n THEN 1 ELSE 0)
  BY SumGrows
<1>2. PICK x \in Nat, y \in Nat : x = SumBefore(g, t) /\ y = SumBefore(h, t)
  BY SumIsNat
<1> QED BY <1>0, <1>1, <1>2

-----------------------------------------------------------------------------
(* The rate limiter, for one key: g are its admissions, n is the time *)

\* A window that ends at end is open and c admissions were made in it, the first
\* when it opened; a stretch of one Window that reaches into it from before has
\* less than lim of the earlier ones, and one that lies before it has less than
\* twice lim.
OpenWindow(g, c, end, lim, n) ==
  LET all == SumBefore(g, MaxTime + 1)
      start == end - Window
  IN  /\ start \in 0 .. n
      /\ c \in 1 .. lim /\ all - SumBefore(g, start) = c
      /\ SumBefore(g, start + 1) > SumBefore(g, start)
      /\ all = SumBefore(g, n + 1) /\ all = SumBefore(g, end + 1)
      /\ \A t \in 0 .. start : IF start <= t + Window
                               THEN SumBefore(g, start) - SumBefore(g, t) < lim
                               ELSE SumBefore(g, t + Window + 1) - SumBefore(g, t) < 2 * lim

\* The key was never admitted, or the bucket counts the admissions of its window.
Kept(g, b, lim, n) ==
  \/ b.end = -1 /\ b.count = 0 /\ SumBefore(g, MaxTime + 1) = 0
  \/ OpenWindow(g, b.count, b.end, lim, n)

\* The buckets of all keys, and what they have admitted.
QuotaInv ==
  /\ now \in 0 .. MaxTime
  /\ granted \in [Keys -> [0 .. MaxTime -> Nat]]
  /\ bucket \in [Keys -> [count : Nat, end : Int]]
  /\ \A key \in Keys : Kept(granted[key], bucket[key], Limit(key), now)

\* No sum is more than all.
LEMMA SumAtMostAll ==
  ASSUME NEW g \in [0 .. MaxTime -> Nat], NEW t \in Int
  PROVE  SumBefore(g, t) <= SumBefore(g, MaxTime + 1)
<1>0. MaxTime \in Nat
  BY Bounds
<1>1. CASE t <= MaxTime + 1
  BY <1>0, <1>1, SumIsNat
<1>2. CASE t > MaxTime + 1
  <2>1. t > MaxTime /\ MaxTime + 1 \in Int
    BY <1>0, <1>2
  <2>2. SumBefore(g, t) = SumBefore(g, MaxTime + 1)
    BY <2>1, SumFacts
  <2>3. SumBefore(g, t) \in Nat
    BY SumIsNat
  <2> QED BY <2>2, <2>3
<1> QED BY <1>0, <1>1, <1>2

\* Whatever stretch of one Window: less than twice the limit, and less than the
\* limit if it begins after the window that is open has.
LEMMA StretchIsBelow ==
  ASSUME NEW g \in [0 .. MaxTime -> Nat], NEW c, NEW end \in Int, NEW lim \in Nat \ {0},
         NEW n \in 0 .. MaxTime, OpenWindow(g, c, end, lim, n), NEW t \in Nat
  PROVE  /\ SumBefore(g, t + Window + 1) - SumBefore(g, t) < 2 * lim
         /\ t > end - Window => SumBefore(g, t + Window + 1) - SumBefore(g, t) < lim
<1>0. PICK M \in Nat, W \in Nat : M = MaxTime /\ W = Window
  BY Bounds
<1>1. PICK s \in Nat : s = end - W /\ c \in 1 .. lim
  BY <1>0 DEF OpenWindow
<1>2. PICK u \in Nat : u = t + W + 1
  BY <1>0
<1>3. PICK Ball \in Nat, Bs \in Nat, Bs1 \in Nat, Bt \in Nat, Bu \in Nat :
        /\ Ball = SumBefore(g, M + 1) /\ Bs = SumBefore(g, s) /\ Bs1 = SumBefore(g, s + 1)
        /\ Bt = SumBefore(g, t) /\ Bu = SumBefore(g, u)
  <2>1. M + 1 \in Int /\ s \in Int /\ s + 1 \in Int /\ t \in Int /\ u \in Int
    OBVIOUS
  <2>2. \A i \in Int : SumBefore(g, i) \in Nat
    BY SumIsNat
  <2> QED BY <2>1, <2>2, Zenon
<1>4. Ball - Bs = c /\ Bs1 > Bs
  BY <1>0, <1>1, <1>3 DEF OpenWindow
<1>5. Bu <= Ball
  <2>1. u \in Int
    OBVIOUS
  <2>2. SumBefore(g, u) <= SumBefore(g, MaxTime + 1)
    BY <2>1, SumAtMostAll
  <2> QED BY <1>0, <1>3, <2>2
<1>6. CASE t > s
  <2>1. Bs1 <= Bt
    <3>1. s + 1 <= t /\ s + 1 \in Int /\ t \in Int
      BY <1>6
    <3>2. SumBefore(g, s + 1) <= SumBefore(g, t)
      BY <3>1, SumIsNat
    <3> QED BY <1>3, <3>2
  <2>2. Bu - Bt < lim
    BY <1>1, <1>4, <1>5, <2>1
  <2>3. Bu - Bt < 2 * lim
    BY <2>2
  <2>4. SumBefore(g, t + Window + 1) = Bu /\ SumBefore(g, t) = Bt
    BY <1>0, <1>2, <1>3
  <2> QED BY <2>2, <2>3, <2>4
<1>7. CASE t <= s /\ s <= t + W
  <2>1. Bs - Bt < lim
    BY <1>0, <1>1, <1>3, <1>7 DEF OpenWindow
  <2>2. Bu - Bt < 2 * lim
    BY <1>1, <1>4, <1>5, <2>1
  <2>3. SumBefore(g, t + Window + 1) = Bu /\ SumBefore(g, t) = Bt /\ ~ (t > end - Window)
    BY <1>0, <1>1, <1>2, <1>3, <1>7
  <2> QED BY <2>2, <2>3
<1>8. CASE t <= s /\ ~ (s <= t + W)
  <2>1. Bu - Bt < 2 * lim
    BY <1>0, <1>1, <1>2, <1>3, <1>8 DEF OpenWindow
  <2>2. SumBefore(g, t + Window + 1) = Bu /\ SumBefore(g, t) = Bt /\ ~ (t > end - Window)
    BY <1>0, <1>1, <1>2, <1>3, <1>8
  <2> QED BY <2>1, <2>2
<1> QED BY <1>6, <1>7, <1>8

\* An admission within the window that is open.
LEMMA GrantInWindow ==
  ASSUME NEW g \in [0 .. MaxTime -> Nat], NEW c \in Nat, NEW end \in Int, NEW lim \in Nat \ {0},
         NEW n \in 0 .. MaxTime, OpenWindow(g, c, end, lim, n), n <= end, c < lim,
         NEW h \in [0 .. MaxTime -> Nat],
         \A k \in 0 .. MaxTime : h[k] = IF k = n THEN g[k] + 1 ELSE g[k]
  PROVE  OpenWindow(h, c + 1, end, lim, n)
<1>0. PICK M \in Nat, W \in Nat : M = MaxTime /\ W = Window
  BY Bounds
<1>1. PICK s \in Nat : s = end - W /\ s \in 0 .. n
  BY <1>0 DEF OpenWindow
<1>2. n \in Nat /\ n <= M
  BY <1>0
<1>3. \A i \in Int : SumBefore(g, i) \in Nat
  BY SumIsNat
<1>5. ASSUME NEW i \in Int
      PROVE  /\ SumBefore(h, i) \in Nat
             /\ i > n => SumBefore(h, i) = SumBefore(g, i) + 1
             /\ i <= n => SumBefore(h, i) = SumBefore(g, i)
  BY SumMoves
<1>6. PICK Ball \in Nat, Bs \in Nat, Bs1 \in Nat :
        Ball = SumBefore(g, M + 1) /\ Bs = SumBefore(g, s) /\ Bs1 = SumBefore(g, s + 1)
  <2>1. M + 1 \in Int /\ s \in Int /\ s + 1 \in Int
    OBVIOUS
  <2> QED BY <1>3, <2>1, Zenon
<1>7. /\ Ball - Bs = c /\ Bs1 > Bs
      /\ Ball = SumBefore(g, n + 1) /\ Ball = SumBefore(g, end + 1)
  BY <1>0, <1>1, <1>6 DEF OpenWindow
<1>8. /\ SumBefore(h, M + 1) = Ball + 1 /\ SumBefore(h, s) = Bs
      /\ SumBefore(h, n + 1) = Ball + 1 /\ SumBefore(h, end + 1) = Ball + 1
  <2>1. M + 1 > n /\ M + 1 \in Int /\ s <= n /\ n + 1 > n /\ n + 1 \in Int /\ end + 1 > n
        /\ end + 1 \in Int
    BY <1>1, <1>2
  <2> QED BY <1>5, <1>6, <1>7, <2>1
<1>9. SumBefore(h, s + 1) \in {Bs1, Bs1 + 1}
  <2>1. s + 1 \in Int /\ (s + 1 > n \/ s + 1 <= n)
    BY <1>2
  <2> QED BY <1>5, <1>6, <2>1
<1>10. ASSUME NEW t \in 0 .. s
       PROVE  IF s <= t + W THEN SumBefore(h, s) - SumBefore(h, t) < lim
              ELSE SumBefore(h, t + W + 1) - SumBefore(h, t) < 2 * lim
  <2>1. IF s <= t + W THEN SumBefore(g, s) - SumBefore(g, t) < lim
        ELSE SumBefore(g, t + W + 1) - SumBefore(g, t) < 2 * lim
    BY <1>0, <1>1 DEF OpenWindow
  <2>2. SumBefore(h, s) = SumBefore(g, s) /\ SumBefore(h, t) = SumBefore(g, t)
    <3>1. t \in Int /\ t <= n /\ s \in Int /\ s <= n
      BY <1>1, <1>2
    <3> QED BY <1>5, <3>1
  <2>3. CASE s <= t + W
    BY <2>1, <2>2, <2>3
  <2>4. CASE ~ (s <= t + W)
    <3>1. t + W + 1 \in Int /\ t + W + 1 <= n
      BY <1>1, <1>2, <2>4
    <3>2. SumBefore(h, t + W + 1) = SumBefore(g, t + W + 1)
      BY <1>5, <3>1
    <3> QED BY <2>1, <2>2, <2>4, <3>2
  <2> QED BY <2>3, <2>4
<1>11. /\ (Ball + 1) - Bs = c + 1 /\ c + 1 \in 1 .. lim /\ Bs1 + 1 > Bs
  BY <1>7
<1>12. /\ SumBefore(h, M + 1) - SumBefore(h, s) = c + 1
       /\ SumBefore(h, s + 1) > SumBefore(h, s)
       /\ SumBefore(h, M + 1) = SumBefore(h, n + 1) /\ SumBefore(h, M + 1) = SumBefore(h, end + 1)
  BY <1>7, <1>8, <1>9, <1>11
<1> QED BY <1>0, <1>1, <1>10, <1>11, <1>12 DEF OpenWindow

\* Kept, with its two cases.
LEMMA KeptCases ==
  ASSUME NEW g, NEW b, NEW lim, NEW n
  PROVE  Kept(g, b, lim, n) <=>
           \/ b.end = -1 /\ b.count = 0 /\ SumBefore(g, MaxTime + 1) = 0
           \/ OpenWindow(g, b.count, b.end, lim, n)
BY Zenon DEF Kept

\* The admission that opens a window: those of the one before lie behind.
LEMMA GrantOpens ==
  ASSUME NEW g \in [0 .. MaxTime -> Nat], NEW b \in [count : Nat, end : Int],
         NEW lim \in Nat \ {0}, NEW n \in 0 .. MaxTime, Kept(g, b, lim, n), n > b.end,
         NEW h \in [0 .. MaxTime -> Nat],
         \A k \in 0 .. MaxTime : h[k] = IF k = n THEN g[k] + 1 ELSE g[k]
  PROVE  OpenWindow(h, 1, n + Window, lim, n)
<1>0. PICK M \in Nat, W \in Nat : M = MaxTime /\ W = Window
  BY Bounds
<1>1. n \in Nat /\ n <= M /\ n \in Int /\ n + 1 \in Int /\ M + 1 \in Int /\ n + W + 1 \in Int
  BY <1>0
<1>2. PICK e \in Int : e = b.end /\ e < n
  OBVIOUS
<1>3. \A i \in Int : SumBefore(g, i) \in Nat
  BY SumIsNat
<1>4. \A i, j \in Int : i <= j => SumBefore(g, i) <= SumBefore(g, j)
  BY SumIsNat
<1>5. ASSUME NEW i \in Int
      PROVE  /\ SumBefore(h, i) \in Nat
             /\ i > n => SumBefore(h, i) = SumBefore(g, i) + 1
             /\ i <= n => SumBefore(h, i) = SumBefore(g, i)
  BY SumMoves
<1>6. PICK Bn \in Nat : Bn = SumBefore(g, n)
  BY <1>1, <1>3
<1>7. SumBefore(g, M + 1) <= Bn
  <2>1. CASE SumBefore(g, MaxTime + 1) = 0
    BY <1>0, <2>1
  <2>2. CASE OpenWindow(g, b.count, b.end, lim, n)
    <3>1. SumBefore(g, M + 1) = SumBefore(g, e + 1)
      BY <1>0, <1>2, <2>2 DEF OpenWindow
    <3>2. e + 1 \in Int /\ e + 1 <= n
      BY <1>1, <1>2
    <3>3. SumBefore(g, e + 1) <= SumBefore(g, n)
      BY <1>1, <1>4, <3>2
    <3> QED BY <1>6, <3>1, <3>3
  <2> QED BY <2>1, <2>2, KeptCases
<1>8. ASSUME NEW i \in Int, i >= n PROVE SumBefore(g, i) = Bn
  <2>1. SumBefore(g, n) <= SumBefore(g, i)
    BY <1>1, <1>4, <1>8
  <2>2. SumBefore(g, i) <= SumBefore(g, M + 1)
    BY <1>0, SumAtMostAll
  <2>3. SumBefore(g, i) \in Nat /\ SumBefore(g, M + 1) \in Nat
    BY <1>1, <1>3
  <2> QED BY <1>6, <1>7, <2>1, <2>2, <2>3
<1>9. /\ SumBefore(h, M + 1) = Bn + 1 /\ SumBefore(h, n) = Bn /\ SumBefore(h, n + 1) = Bn + 1
      /\ SumBefore(h, n + W + 1) = Bn + 1
  <2>1. M + 1 > n /\ M + 1 >= n /\ n + 1 > n /\ n + 1 >= n /\ n + W + 1 > n /\ n + W + 1 >= n
    BY <1>1
  <2>2. SumBefore(g, M + 1) = Bn /\ SumBefore(g, n + 1) = Bn /\ SumBefore(g, n + W + 1) = Bn
    BY <1>1, <1>8, <2>1
  <2>3. n <= n
    BY <1>1
  <2> QED BY <1>1, <1>5, <1>6, <2>1, <2>2, <2>3
<1>10. ASSUME NEW t \in 0 .. n
       PROVE  IF n <= t + W THEN SumBefore(h, n) - SumBefore(h, t) < lim
              ELSE SumBefore(h, t + W + 1) - SumBefore(h, t) < 2 * lim
  <2>1. t \in Nat /\ t \in Int /\ t <= n /\ t + W + 1 \in Int
    BY <1>1
  <2>2. PICK Bt \in Nat, Bu \in Nat : Bt = SumBefore(g, t) /\ Bu = SumBefore(g, t + W + 1)
    BY <1>3, <2>1
  <2>3. SumBefore(h, t) = Bt
    BY <1>5, <2>1, <2>2
  <2>4. Bu - Bt < 2 * lim /\ (n <= t + W => Bu - Bt < lim)
    <3>1. CASE SumBefore(g, MaxTime + 1) = 0
      <4>1. SumBefore(g, t + W + 1) <= SumBefore(g, MaxTime + 1)
        BY <2>1, SumAtMostAll
      <4> QED BY <2>2, <3>1, <4>1
    <3>2. CASE OpenWindow(g, b.count, b.end, lim, n)
      <4>1. /\ SumBefore(g, t + Window + 1) - SumBefore(g, t) < 2 * lim
            /\ t > b.end - Window => SumBefore(g, t + Window + 1) - SumBefore(g, t) < lim
        BY <2>1, <3>2, StretchIsBelow
      <4>2. n <= t + W => t > e - W
        BY <1>1, <1>2, <2>1
      <4> QED BY <1>0, <1>2, <2>2, <4>1, <4>2
    <3> QED BY <3>1, <3>2, KeptCases
  <2>5. CASE n <= t + W
    <3>1. SumBefore(g, n) <= SumBefore(g, t + W + 1)
      <4>1. n <= t + W + 1
        BY <1>1, <2>1, <2>5
      <4> QED BY <1>1, <1>4, <2>1, <4>1
    <3>2. Bn - Bt < lim
      BY <1>6, <2>2, <2>4, <2>5, <3>1
    <3> QED BY <1>9, <2>3, <2>5, <3>2
  <2>6. CASE ~ (n <= t + W)
    <3>1. t + W + 1 <= n
      BY <1>1, <2>1, <2>6
    <3>2. SumBefore(h, t + W + 1) = Bu
      BY <1>5, <2>1, <2>2, <3>1
    <3> QED BY <2>3, <2>4, <2>6, <3>2
  <2> QED BY <2>5, <2>6
<1>11. (n + W) - W = n /\ 1 \in 1 .. lim /\ n \in 0 .. n /\ (Bn + 1) - Bn = 1 /\ Bn + 1 > Bn
  BY <1>1
<1> QED BY <1>0, <1>9, <1>10, <1>11 DEF OpenWindow

LEMMA LimitIsPositive == \A key : Limit(key) \in Nat \ {0}
BY Bounds DEF Limit

\* An admission, in the open window or in a new one.
LEMMA KeptGrant ==
  ASSUME NEW g \in [0 .. MaxTime -> Nat], NEW b \in [count : Nat, end : Int],
         NEW lim \in Nat \ {0}, NEW n \in 0 .. MaxTime, Kept(g, b, lim, n),
         NEW h \in [0 .. MaxTime -> Nat],
         \A k \in 0 .. MaxTime : h[k] = IF k = n THEN g[k] + 1 ELSE g[k],
         NEW d \in [count : Nat, end : Int],
         \/ n > b.end /\ d.count = 1 /\ d.end = n + Window
         \/ n <= b.end /\ b.count < lim /\ d.count = b.count + 1 /\ d.end = b.end
  PROVE  Kept(h, d, lim, n)
<1>1. CASE n > b.end /\ d.count = 1 /\ d.end = n + Window
  <2>1. OpenWindow(h, 1, n + Window, lim, n)
    BY <1>1, GrantOpens
  <2> QED BY <1>1, <2>1, KeptCases
<1>2. CASE n <= b.end /\ b.count < lim /\ d.count = b.count + 1 /\ d.end = b.end
  <2>0. n \in Nat
    BY Bounds
  <2>1. OpenWindow(g, b.count, b.end, lim, n)
    BY <1>2, <2>0, KeptCases
  <2>2. OpenWindow(h, b.count + 1, b.end, lim, n)
    BY <1>2, <2>1, GrantInWindow
  <2> QED BY <1>2, <2>2, KeptCases
<1> QED BY <1>1, <1>2

\* The operations of the rate limiter.
LEMMA GrantHolds ==
  ASSUME QuotaInv, NEW key, Grant(key), UNCHANGED now
  PROVE  QuotaInv'
<1>0. MaxTime \in Nat /\ Window \in Nat
  BY Bounds
<1>1. CASE key \notin Keys
  <2>1. UNCHANGED <<bucket, granted>>
    BY <1>1 DEF Grant, QuotaInv
  <2> QED BY <2>1 DEF QuotaInv
<1>2. CASE key \in Keys
  <2>1. PICK g, b, n : g = granted[key] /\ b = bucket[key] /\ n = now
    OBVIOUS
  <2>2. g \in [0 .. MaxTime -> Nat] /\ b \in [count : Nat, end : Int] /\ n \in 0 .. MaxTime
    BY <1>2, <2>1 DEF QuotaInv
  <2>3. PICK h : h = [g EXCEPT ![n] = @ + 1]
    OBVIOUS
  <2>4. /\ h \in [0 .. MaxTime -> Nat]
        /\ \A k \in 0 .. MaxTime : h[k] = IF k = n THEN g[k] + 1 ELSE g[k]
    BY <2>2, <2>3
  <2>5. granted' = [granted EXCEPT ![key] = h]
    BY <2>1, <2>3 DEF Grant
  <2>0. PICK o : o = Opened(b)
    OBVIOUS
  <2>6. PICK d : d = [o EXCEPT !.count = @ + 1]
    OBVIOUS
  <2>7. bucket' = [bucket EXCEPT ![key] = d]
    <3>1. bucket' = [bucket EXCEPT ![key] = [Opened(bucket[key]) EXCEPT !.count = @ + 1]]
      BY Zenon DEF Grant
    <3>2. Opened(bucket[key]) = o
      BY <2>0, <2>1
    <3> QED BY <2>6, <3>1, <3>2
  <2>8. /\ d \in [count : Nat, end : Int]
        /\ \/ n > b.end /\ d.count = 1 /\ d.end = n + Window
           \/ n <= b.end /\ b.count < Limit(key) /\ d.count = b.count + 1 /\ d.end = b.end
    <3>1. CASE n > b.end
      <4>2. o = [count |-> 0, end |-> n + Window]
        BY <2>0, <2>1, <3>1 DEF Opened
      <4>3. d = [count |-> 1, end |-> n + Window]
        BY <2>6, <4>2
      <4>4. n + Window \in Int
        BY <1>0, <2>2
      <4> QED BY <3>1, <4>3, <4>4
    <3>2. CASE ~ (n > b.end)
      <4>1. Opened(b) = b
        BY <2>1, <3>2 DEF Opened
      <4>2. d = [b EXCEPT !.count = @ + 1]
        BY <2>0, <2>6, <4>1
      <4>3. b.count < Limit(key)
        BY <2>1, <4>1 DEF Grant, Allows
      <4> QED BY <1>0, <2>2, <3>2, <4>2, <4>3
    <3> QED BY <3>1, <3>2
  <2>9. Kept(g, b, Limit(key), n)
    BY <1>2, <2>1 DEF QuotaInv
  <2>10. Kept(h, d, Limit(key), n)
    BY <2>2, <2>4, <2>8, <2>9, LimitIsPositive, KeptGrant
  <2>11. /\ granted' \in [Keys -> [0 .. MaxTime -> Nat]]
         /\ bucket' \in [Keys -> [count : Nat, end : Int]]
    BY <2>4, <2>5, <2>7, <2>8 DEF QuotaInv
  <2>12. ASSUME NEW k \in Keys PROVE Kept(granted'[k], bucket'[k], Limit(k), now')
    <3>1. CASE k = key
      <4>1. granted'[k] = h /\ bucket'[k] = d
        BY <1>2, <2>5, <2>7, <3>1 DEF QuotaInv
      <4> QED BY <2>1, <2>10, <3>1, <4>1
    <3>2. CASE k # key
      <4>1. granted'[k] = granted[k] /\ bucket'[k] = bucket[k]
        BY <2>5, <2>7, <3>2 DEF QuotaInv
      <4> QED BY <4>1 DEF QuotaInv
    <3> QED BY <3>1, <3>2
  <2>13. now' \in 0 .. MaxTime
    BY DEF QuotaInv
  <2>14. \A k : Limit(k)' = Limit(k)
    BY DEF Limit
  <2> QED BY <2>11, <2>12, <2>13, <2>14 DEF QuotaInv
<1> QED BY <1>1, <1>2

LEMMA RefuseHolds ==
  ASSUME QuotaInv, NEW key, Refuse(key), UNCHANGED now
  PROVE  QuotaInv'
<1>1. UNCHANGED bucket
  <2>1. CASE key \notin Keys
    BY <2>1 DEF Refuse, QuotaInv
  <2>2. CASE key \in Keys
    <3>1. PICK b : b = bucket[key] /\ b \in [count : Nat, end : Int]
      BY <2>2 DEF QuotaInv
    <3>2. Limit(key) \in Nat \ {0}
      BY LimitIsPositive
    <3>3. Opened(b) = b
      BY <3>1, <3>2 DEF Refuse, Allows, Opened
    <3> QED BY <2>2, <3>1, <3>3 DEF Refuse, QuotaInv
  <2> QED BY <2>1, <2>2
<1>2. UNCHANGED granted
  BY DEF Refuse
<1> QED BY <1>1, <1>2 DEF QuotaInv

LEMMA TickHolds ==
  ASSUME QuotaInv, Tick
  PROVE  QuotaInv'
<1>0. MaxTime \in Nat
  BY Bounds
<1>1. PICK n : n = now /\ n \in Nat /\ n + 1 <= MaxTime
  BY <1>0 DEF Tick, QuotaInv
<1>2. now' = n + 1 /\ UNCHANGED <<granted, bucket>> /\ now' \in 0 .. MaxTime
  BY <1>0, <1>1 DEF Tick
<1>3. ASSUME NEW k \in Keys PROVE Kept(granted[k], bucket[k], Limit(k), n + 1)
  <2>1. PICK g, b : g = granted[k] /\ b = bucket[k]
    OBVIOUS
  <2>2. Kept(g, b, Limit(k), n) /\ g \in [0 .. MaxTime -> Nat]
    BY <1>1, <2>1 DEF QuotaInv
  <2>3. CASE OpenWindow(g, b.count, b.end, Limit(k), n)
    <3>1. SumBefore(g, MaxTime + 1) = SumBefore(g, n + 1)
      BY <2>3 DEF OpenWindow
    <3>2. n + 1 \in Int /\ n + 2 \in Int /\ n + 1 <= n + 2 /\ (n + 1) + 1 = n + 2
      BY <1>1
    <3>3. SumBefore(g, n + 1) <= SumBefore(g, n + 2) /\ SumBefore(g, n + 2) \in Nat
          /\ SumBefore(g, n + 1) \in Nat
      BY <2>2, <3>2, SumIsNat
    <3>4. SumBefore(g, n + 2) <= SumBefore(g, MaxTime + 1)
      BY <2>2, <3>2, SumAtMostAll
    <3>5. SumBefore(g, MaxTime + 1) = SumBefore(g, (n + 1) + 1)
      BY <3>1, <3>2, <3>3, <3>4
    <3>6. 0 .. n \subseteq 0 .. n + 1
      BY <1>1
    <3>7. OpenWindow(g, b.count, b.end, Limit(k), n + 1)
      BY <2>3, <3>5, <3>6, Zenon DEF OpenWindow
    <3> QED BY <2>1, <3>7, KeptCases
  <2> QED BY <2>1, <2>2, <2>3, KeptCases
<1>4. \A k : Limit(k)' = Limit(k)
  BY DEF Limit
<1> QED BY <1>2, <1>3, <1>4 DEF QuotaInv

LEMMA QuotaInvInit ==
  ASSUME Init
  PROVE  QuotaInv
<1>0. MaxTime \in Nat
  BY Bounds
<1>1. PICK g : g = [t \in 0 .. MaxTime |-> 0]
  OBVIOUS
<1>2. g \in [0 .. MaxTime -> Nat] /\ \A t \in 0 .. MaxTime : g[t] = 0
  BY <1>1
<1>3. SumBefore(g, MaxTime + 1) = 0
  <2> DEFINE S == {k \in Nat : SumBefore(g, k) = 0}
  <2>1. 0 \in S
    BY SumFacts
  <2>2. ASSUME NEW k \in S PROVE k + 1 \in S
    <3>1. CASE k <= MaxTime
      <4>1. SumBefore(g, k + 1) = SumBefore(g, k) + g[k] /\ g[k] = 0
        BY <1>0, <1>2, <3>1, SumFacts
      <4> QED BY <4>1
    <3>2. CASE k > MaxTime
      BY <1>0, <3>2, SumFacts
    <3> QED BY <1>0, <3>1, <3>2
  <2> HIDE DEF S
  <2>3. S = Nat
    BY <2>1, <2>2, NumbersByInduction DEF S
  <2> QED BY <1>0, <2>3 DEF S
<1>4. /\ now = 0 /\ granted = [k \in Keys |-> g]
      /\ bucket = [k \in Keys |-> [count |-> 0, end |-> -1]]
  BY <1>1 DEF Init, GatewayInit
<1>5. ASSUME NEW k \in Keys PROVE Kept(granted[k], bucket[k], Limit(k), now)
  <2>1. granted[k] = g /\ bucket[k].count = 0 /\ bucket[k].end = -1
    BY <1>4
  <2> QED BY <1>3, <2>1, KeptCases
<1> QED BY <1>0, <1>2, <1>4, <1>5 DEF QuotaInv

LEMMA QuotaInvStep ==
  ASSUME QuotaInv, [Next]_vars
  PROVE  QuotaInv'
<1>1. CASE UNCHANGED <<now, bucket, granted>>
  <2>1. \A k : Limit(k)' = Limit(k)
    BY DEF Limit
  <2> QED BY <1>1, <2>1 DEF QuotaInv
<1>2. CASE UNCHANGED vars
  BY <1>1, <1>2 DEF vars, limiter
<1>3. CASE ScannerNext /\ UNCHANGED <<limiter, table, validator, req>>
  BY <1>1, <1>3 DEF limiter
<1>4. ASSUME NEW r \in Requests, Handle(r) PROVE QuotaInv'
  <2>1. ASSUME NEW in, Arrive(r, in) PROVE QuotaInv'
    BY <1>1, <2>1, GrantHolds, RefuseHolds DEF Arrive
  <2>2. CASE CheckToken(r)
    BY <1>1, <2>2, GrantHolds, RefuseHolds DEF CheckToken
  <2>3. CASE UNCHANGED limiter
    BY <1>1, <2>3 DEF limiter
  <2> QED BY <1>4, <2>1, <2>2, <2>3 DEF Handle, LookupRoute, TurnAway, ValidateJWT,
                                        ValidateSchema, Compiled, Send, Answer
<1>5. CASE Tick
  BY <1>5, TickHolds
<1>6. CASE Swap(written) \/ EditSchema
  BY <1>1, <1>6 DEF Swap, EditSchema, limiter
<1> QED BY <1>2, <1>3, <1>4, <1>5, <1>6 DEF Next, Serve

\* The quota of every key is kept: less than twice its limit in any stretch of one
\* Window, and a refusal only after the limit was used up within the last one.  For
\* any limits, any window and any number of ticks.
THEOREM QuotasAreKept == Spec => []QuotaIsKept
<1>1. Init => QuotaInv
  BY QuotaInvInit
<1>2. QuotaInv /\ [Next]_vars => QuotaInv'
  BY QuotaInvStep
<1>3. QuotaInv => QuotaIsKept
  <2> SUFFICES ASSUME QuotaInv, NEW key \in Keys
               PROVE  /\ \A t \in 0 .. now : Granted(key, t, t + Window) < 2 * Limit(key)
                      /\ ~ Allows(key) => Granted(key, now - Window, now) >= Limit(key)
    BY Zenon DEF QuotaIsKept
  <2>0. MaxTime \in Nat /\ Window \in Nat /\ now \in Nat /\ now <= MaxTime
    BY Bounds DEF QuotaInv
  <2>1. PICK g, b, lim : g = granted[key] /\ b = bucket[key] /\ lim = Limit(key)
    OBVIOUS
  <2>2. /\ g \in [0 .. MaxTime -> Nat] /\ b \in [count : Nat, end : Int]
        /\ lim \in Nat \ {0} /\ Kept(g, b, lim, now) /\ now \in 0 .. MaxTime
    BY <2>1, LimitIsPositive DEF QuotaInv
  <2>3. ASSUME NEW t \in 0 .. now PROVE Granted(key, t, t + Window) < 2 * Limit(key)
    <3>1. t \in Nat /\ t + Window + 1 \in Int /\ t \in Int
      BY <2>0
    <3>2. SumBefore(g, t + Window + 1) - SumBefore(g, t) < 2 * lim
      <4>1. CASE SumBefore(g, MaxTime + 1) = 0
        <5>1. SumBefore(g, t + Window + 1) <= SumBefore(g, MaxTime + 1)
          BY <2>2, <3>1, SumAtMostAll
        <5>2. SumBefore(g, t + Window + 1) \in Nat /\ SumBefore(g, t) \in Nat
          BY <2>2, <3>1, SumIsNat
        <5> QED BY <2>2, <4>1, <5>1, <5>2
      <4>2. CASE OpenWindow(g, b.count, b.end, lim, now)
        BY <2>2, <3>1, <4>2, StretchIsBelow
      <4> QED BY <2>2, <4>1, <4>2, KeptCases
    <3> QED BY <2>1, <3>2 DEF Granted
  <2>4. ASSUME ~ Allows(key) PROVE Granted(key, now - Window, now) >= Limit(key)
    <3>1. ~ (Opened(b).count < lim)
      BY <2>1, <2>4 DEF Allows
    <3>2. now <= b.end /\ b.count >= lim
      BY <2>0, <2>2, <3>1 DEF Opened
    <3>3. OpenWindow(g, b.count, b.end, lim, now)
      BY <2>0, <2>2, <3>2, KeptCases
    <3>4. PICK s \in Int : s = b.end - Window /\ now - Window <= s /\ now - Window \in Int
      BY <2>0, <2>2, <3>2
    <3>5. SumBefore(g, now + 1) - SumBefore(g, s) = b.count
      BY <3>3, <3>4 DEF OpenWindow
    <3>6. SumBefore(g, now - Window) <= SumBefore(g, s)
      BY <2>2, <3>4, SumIsNat
    <3>7. /\ SumBefore(g, now + 1) \in Nat /\ SumBefore(g, s) \in Nat
          /\ SumBefore(g, now - Window) \in Nat /\ now + 1 \in Int
      <4>1. now + 1 \in Int
        BY <2>0
      <4>2. \A i \in Int : SumBefore(g, i) \in Nat
        BY <2>2, SumIsNat
      <4> QED BY <3>4, <4>1, <4>2
    <3>8. SumBefore(g, now + 1) - SumBefore(g, now - Window) >= lim
      BY <2>2, <3>2, <3>5, <3>6, <3>7
    <3> QED BY <2>1, <3>8 DEF Granted
  <2> QED BY <2>3, <2>4
<1> QED BY <1>1, <1>2, <1>3, PTL DEF Spec
=============================================================================
