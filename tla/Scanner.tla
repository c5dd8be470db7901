------------------------------ MODULE Scanner ------------------------------
(***************************************************************************)
(* vyx annotate: the parsers that collect routes from the comments of Go,  *)
(* TypeScript, Python and TSX files (scanner/*_parser.go), the validator   *)
(* (validator.go) and the generator of route_map.json (generator.go).      *)
(*                                                                         *)
(* The files are read one after the other, all of a language before those  *)
(* of the next, and a file is read line by line.  A line is a record: a    *)
(* @Route, @Page, @Validate or @Auth annotation with its arguments, another*)
(* comment, a blank line, a Python class line or other code.  What stands  *)
(* in the files is chosen as they are read.  The name of the language      *)
(* stands for the worker ID derived from the directory.                    *)
(***************************************************************************)
EXTENDS Naturals, Sequences, SequencesExt

CONSTANTS
  Lines,         \* the lines a file may hold
  Files,         \* the languages of the files there are, in the order Generate reads them
  Rooted,        \* the paths that begin with "/"
  validMethods,  \* validMethods
  OldMap,        \* what route_map.json holds before
  MaxLines       \* bound: lines in all files

Annotations == {"route", "page", "validate", "auth"}
Comments == Annotations \cup {"comment"}

ASSUME ScannerAssumption ==
  /\ \A l \in Lines : l.kind \in Comments \cup {"blank", "class", "code"}
  /\ Files \in Seq({"go", "ts", "py", "tsx"}) /\ Files # <<>>
  /\ MaxLines \in Nat

VARIABLES
  file,     \* the file being read; then Len(Files) + 1, and one more at exit
  pending,  \* pendingRoute, pendingPage, pendingValidate, pendingAuth
  routes,   \* allRoutes
  failed,   \* has allErrs an element?
  read,     \* lines read so far
  written,  \* route_map.json
  own,      \* history: the roles of the comment block being read
  home,     \* history: is the block of the pending route over, its roles, and has
            \* an @Auth been read since?
  taken     \* history: for each route, the roles of its block, whether an @Auth came
            \* after that, and the line its roles were read from

scan == <<file, pending, routes, failed, read, own, home, taken>>

Nothing == [route |-> <<>>, page |-> <<>>, validate |-> "", auth |-> {}, at |-> 0]

NotOver == [over |-> FALSE, roles |-> {}, stray |-> FALSE]

ScannerInit ==
  /\ file = 1
  /\ pending = Nothing
  /\ routes = <<>>
  /\ failed = FALSE
  /\ read = 0
  /\ written = OldMap
  /\ own = {} /\ home = NotOver
  /\ taken = <<>>

lang == Files[file]
Reading == file <= Len(Files)
Found == pending.route # <<>> \/ pending.page # <<>>

\* buildRoute, buildTSRoute, buildPyRoute and the Route of a TSX page.
buildRoute ==
  [method |-> IF pending.route # <<>> THEN pending.route[1] ELSE "GET",
   path |-> IF pending.route # <<>> THEN pending.route[2] ELSE pending.page[1],
   type |-> IF pending.route # <<>> THEN "api" ELSE "page",
   worker |-> lang, roles |-> pending.auth, validate |-> pending.validate]

\* History: a line that is no comment ends a block, whether or not the route in
\* it goes on waiting.
BlockEnds ==
  IF Found /\ ~ home.over THEN [over |-> TRUE, roles |-> own, stray |-> FALSE] ELSE home

AuthRead == [home EXCEPT !.stray = home.over]

\* A route that is pending is added to the list.
Emit ==
  IF Found
  THEN /\ routes' = Append(routes, buildRoute)
       /\ taken' = Append(taken, [own |-> IF home.over THEN home.roles ELSE own,
                                  stray |-> home.stray, at |-> pending.at])
  ELSE UNCHANGED <<routes, taken>>

\* Mutant: the roles are not dropped with the route.
ClearedButAuth ==
  IF Found THEN [Nothing EXCEPT !.auth = pending.auth, !.at = pending.at] ELSE pending

\* What is pending after a line that is no comment: nothing if there was a
\* route, and otherwise what there was.
Cleared == IF Found THEN Nothing ELSE pending

\* Does the line begin a route?
Begins(l) == l.kind = "route" \/ (l.kind = "page" /\ lang = "ts" /\ l.path # "")

\* A line of a comment of a Go, TypeScript or Python file: the first pattern
\* that matches decides, and @Page is a pattern of TypeScript only.
Note(l) ==
  pending' = CASE l.kind = "route" -> [pending EXCEPT !.route = <<l.method, l.path>>]
               [] l.kind = "page" /\ Begins(l)
                    -> [pending EXCEPT !.page = <<l.path>>]
               [] l.kind = "validate" -> [pending EXCEPT !.validate = l.schema]
               [] l.kind = "auth" -> [pending EXCEPT !.auth = l.roles, !.at = read + 1]
               [] OTHER -> pending

\* parseGoFile, parseTSFile, parsePyFile: a line that is no comment ends the
\* block, and what is pending is dropped only together with a route.  A Python
\* class line ends nothing.
ReadLine(l) ==
  /\ lang # "tsx"
  /\ \/ /\ l.kind \in Comments
        /\ Note(l)
        /\ own' = IF l.kind = "auth" THEN l.roles ELSE own
        /\ home' = IF l.kind = "auth" THEN AuthRead ELSE IF Begins(l) THEN NotOver ELSE home
        /\ UNCHANGED <<routes, taken>>
     \/ /\ l.kind = "class" /\ lang = "py"
        /\ own' = {} /\ home' = BlockEnds
        /\ UNCHANGED <<pending, routes, taken>>
     \/ /\ l.kind \notin Comments
        /\ ~ (l.kind = "class" /\ lang = "py")
        /\ Emit
        /\ pending' = Cleared
        /\ own' = {} /\ home' = NotOver
  /\ UNCHANGED failed

\* parseTSXFile: a second @Page ends the first, @Auth counts after a @Page
\* only, and neither a blank line nor a comment ends a page.
ReadTSXLine(l) ==
  /\ lang = "tsx"
  /\ \/ /\ l.kind = "page"
        /\ Emit
        /\ pending' = IF l.path = "" THEN Nothing ELSE [Nothing EXCEPT !.page = <<l.path>>]
        /\ failed' = (failed \/ l.path = "")
        /\ own' = {} /\ home' = NotOver
     \/ /\ l.kind = "auth" /\ Found
        /\ pending' = [pending EXCEPT !.auth = l.roles, !.at = read + 1]
        /\ own' = l.roles /\ home' = AuthRead
        /\ UNCHANGED <<routes, taken, failed>>
     \/ /\ l.kind \in {"code", "class"} /\ Found
        /\ Emit
        /\ pending' = Nothing
        /\ own' = {} /\ home' = NotOver
        /\ UNCHANGED failed
     \/ /\ l.kind = "blank" \/ (~ Found /\ l.kind # "page")
           \/ l.kind \in Comments \ {"page", "auth"}
        /\ IF l.kind \in Comments THEN UNCHANGED <<own, home>> ELSE own' = {} /\ home' = BlockEnds
        /\ UNCHANGED <<pending, routes, taken, failed>>

Read(l) ==
  /\ Reading /\ read < MaxLines
  /\ ReadLine(l) \/ ReadTSXLine(l)
  /\ read' = read + 1
  /\ UNCHANGED <<file, written>>

\* The end of a file: what is pending is emitted, and the next file is opened,
\* which may fail.
NextFile(opens) ==
  /\ file < Len(Files)
  /\ Emit
  /\ failed' = (failed \/ ~ opens)
  /\ file' = file + 1
  /\ pending' = Nothing
  /\ own' = {} /\ home' = NotOver
  /\ UNCHANGED <<read, written>>

\* Mutant: an api route needs no @Auth.
validateRouteBody(r) == r.method \in {"POST", "PUT", "PATCH"} => r.validate # ""

\* validateRoute finds nothing missing.
validateRoute(r) ==
  /\ r.method \in {"POST", "PUT", "PATCH"} => r.validate # ""
  /\ r.type = "page" \/ r.roles # {}

\* Validate finds no error.
Validate(rs) ==
  \A i \in DOMAIN rs :
    /\ rs[i].method \in validMethods
    /\ rs[i].path \in Rooted
    /\ \A j \in 1 .. i - 1 : <<rs[j].method, rs[j].path>> # <<rs[i].method, rs[i].path>>
    /\ validateRoute(rs[i])

\* The end of Generate: the map is written when no parser and no check has
\* found an error, and the old one is left otherwise.
Generate ==
  /\ file = Len(Files)
  /\ Emit
  /\ written' = IF ~ failed /\ Validate(routes') THEN routes' ELSE written
  /\ file' = file + 1
  /\ pending' = Nothing
  /\ own' = {} /\ home' = NotOver
  /\ UNCHANGED <<failed, read>>

\* The process ends.
Exit ==
  /\ file = Len(Files) + 1
  /\ file' = file + 1
  /\ routes' = <<>> /\ taken' = <<>> /\ read' = 0 /\ failed' = FALSE
  /\ UNCHANGED <<pending, own, home, written>>

Exited == file = Len(Files) + 2

ScannerNext ==
  \/ \E l \in Lines : Read(l)
  \/ \E opens \in BOOLEAN : NextFile(opens)
  \/ Generate
  \/ Exit
=============================================================================
