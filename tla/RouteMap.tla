------------------------------ MODULE RouteMap ------------------------------
(***************************************************************************)
(* The index of the routes: core/domain/gateway/route.go.                  *)
(*                                                                         *)
(* A route entry is a record with a method, a path, a worker, the roles,   *)
(* one of which a caller must hold, the schema of its body and its type.   *)
(* A path is a name; Segments gives what splitPath makes of it, so that    *)
(* two paths written differently ("/a" and "/a/") may have the same        *)
(* segments.  A segment in Params is one that begins with a colon.         *)
(*                                                                         *)
(* A node of the trie is the sequence of steps that leads to it from the   *)
(* root: a literal segment, or Param for the step to the paramChild.       *)
(***************************************************************************)
EXTENDS Naturals, Sequences, SequencesExt, Functions

CONSTANTS
  Segments,  \* splitPath: the segments of each path a route may have
  Params     \* the segments that begin with ":"

Param == "*"  \* no segment of a path

ASSUME RouteMapAssumption ==
  \A p \in DOMAIN Segments : Segments[p] \in Seq(STRING \ {Param})

\* The steps from the root to the node of a route.
Shape(path) == [i \in DOMAIN Segments[path] |->
                  IF Segments[path][i] \in Params THEN Param ELSE Segments[path][i]]

newRouteNode == [nodes |-> {<<>>}, name |-> << >>, entries |-> << >>]

\* One turn of the loop of buildTrie: the missing nodes are made, a parameter
\* keeps the name of the route that came first, and of two routes at one node
\* with one method the later is kept.
Insert(trie, e) ==
  LET shape == Shape(e.path)
      key == <<shape, e.method>>
      new == {SubSeq(shape, 1, i) : i \in DOMAIN shape} \ trie.nodes
      named == {n \in new : Last(n) = Param}
  IN  [nodes |-> trie.nodes \cup new,
       name |-> [n \in DOMAIN trie.name \cup named |->
                   IF n \in named THEN Segments[e.path][Len(n)] ELSE trie.name[n]],
       entries |-> [k \in DOMAIN trie.entries \cup {key} |->
                      IF k = key THEN e ELSE trie.entries[k]]]

buildTrie(entries) ==
  LET built[n \in 0 .. Len(entries)] ==
        IF n = 0 THEN newRouteNode ELSE Insert(built[n - 1], entries[n])
  IN  built[Len(entries)]

\* Mutant: the parameter child is tried first.
traverseParamFirst(trie, segs) ==
  LET walk[i \in 0 .. Len(segs)] ==
        [node \in trie.nodes |->
           IF i = Len(segs) THEN {node}
           ELSE LET child(step) == LET n == Append(node, step) IN
                                   IF n \in trie.nodes THEN walk[i + 1][n] ELSE {}
                    param == child(Param)
                IN  IF param # {} THEN param ELSE child(segs[i + 1])]
  IN  walk[0][<<>>]

\* The node traverse returns for the segments of a request, as a set of at
\* most one: the static child is tried first, the parameter child when
\* nothing below the static one has the right length.
traverse(trie, segs) ==
  LET walk[i \in 0 .. Len(segs)] ==
        [node \in trie.nodes |->
           IF i = Len(segs) THEN {node}
           ELSE LET child(step) == LET n == Append(node, step) IN
                                   IF n \in trie.nodes THEN walk[i + 1][n] ELSE {}
                    static == child(segs[i + 1])
                IN  IF static # {} THEN static ELSE child(Param)]
  IN  walk[0][<<>>]

\* The entries Lookup returns: one, or none for a 404.
Lookup(entries, method, segs) ==
  LET trie == buildTrie(entries)
      keys == {<<n, method>> : n \in traverse(trie, segs)}
  IN  {trie.entries[k] : k \in keys \cap DOMAIN trie.entries}

\* The parameters Lookup captures, by name; of two with one name the later.
Captured(entries, segs) ==
  LET trie == buildTrie(entries) IN
  UNION {LET at == [i \in {j \in DOMAIN n : n[j] = Param} |-> trie.name[SubSeq(n, 1, i)]]
         IN  {<<at[i], segs[i]>> :
                i \in {j \in DOMAIN at : \A k \in DOMAIN at : at[k] = at[j] => k <= j}} :
         n \in traverse(trie, segs)}

----------------------------------------------------------------------------
\* The reference: what the comments of RouteMap say, without a trie.

\* Do the segments of a request match a node, or a route's shape?
Matches(shape, segs) ==
  /\ Len(shape) = Len(segs)
  /\ \A i \in DOMAIN segs : shape[i] \in {Param, segs[i]}

\* Static segments win over parameters, from the left.
MoreStatic(s, t) ==
  \E i \in DOMAIN s : /\ s[i] # Param /\ t[i] = Param
                      /\ \A j \in 1 .. i - 1 : s[j] = t[j]

\* The entry the comments promise: the last one listed of the most static
\* shape among the routes of that method that match.
Promised(entries, method, segs) ==
  LET fits == {i \in DOMAIN entries : /\ entries[i].method = method
                                      /\ Matches(Shape(entries[i].path), segs)}
      best == {i \in fits : \A j \in fits : ~ MoreStatic(Shape(entries[j].path),
                                                         Shape(entries[i].path))}
  IN  {entries[i] : i \in {j \in best : \A k \in best : k <= j}}

\* The exception: a node more static than that entry's matches the request too
\* and has no entry for the method, being on the way to a longer route or the
\* route of another method.
Shadowed(entries, method, segs) ==
  \E e \in Promised(entries, method, segs) : \E n \in buildTrie(entries).nodes :
     /\ Matches(n, segs)
     /\ MoreStatic(n, Shape(e.path))
=============================================================================
