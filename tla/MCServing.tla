----------------------------- MODULE MCServing -----------------------------
\* The instance of Serving that TLC checks.
EXTENDS Serving

CONSTANTS r1, r2

TwoRequests == {r1, r2}
Symmetric == Permutations(TwoRequests)

SomePaths == ("/a/:x" :> <<"a", ":x">>) @@ ("/a/:y" :> <<"a", ":y">>)
             @@ ("/a/b" :> <<"a", "b">>) @@ ("a/:y" :> <<"a", ":y">>)
             @@ ("/:x/c" :> <<":x", "c">>)
Colons == {":x", ":y"}
WithSlash == {"/a/:x", "/a/:y", "/a/b", "/:x/c"}

SomeLines ==
  {[kind |-> "route", method |-> "GET", path |-> "/a/:x"]}
  \cup {[kind |-> "route", method |-> "POST", path |-> "/a/b"]}
  \cup {[kind |-> "page", path |-> p] : p \in {"/a/:y", "/a/b", "/:x/c", "a/:y", ""}}
  \cup {[kind |-> "auth", roles |-> {r}] : r \in {"admin", "user"}}
  \cup {[kind |-> "validate", schema |-> "s"]}
  \cup {[kind |-> k] : k \in {"class", "code", "blank"}}

SomeFiles == <<"go", "ts", "py", "tsx">>

Entries(p, m, roles, v) == [method |-> m, path |-> p, type |-> "api", worker |-> "go",
                            roles |-> roles, validate |-> v]
Before == <<Entries("/a/:x", "GET", {"user"}, ""), Entries("/a/b", "POST", {"admin"}, "s")>>

Ask(m, segs, ip, token, body, fits) ==
  [method |-> m, segs |-> segs, ip |-> ip, token |-> token, json |-> body # "text",
   body |-> IF body = "text" THEN "small" ELSE body, fits |-> fits]

SomeInputs ==
  {Ask("GET", <<"a", "b">>, "ip1", "root", "none", {}),
   Ask("GET", <<"a", "b">>, "ip2", "joe", "none", {}),
   Ask("POST", <<"a", "b">>, "ip1", "root", "small", {2}),
   Ask("POST", <<"a", "b">>, "ip2", "root", "small", {1}),
   Ask("POST", <<"a", "b">>, "ip2", "", "text", {1}),
   Ask("POST", <<"a", "b">>, "ip2", "", "large", {1}),
   Ask("TRACE", <<"a", "c">>, "ip2", "", "none", {})}

Methods == {"GET", "POST", "PUT", "PATCH", "DELETE", "HEAD", "OPTIONS"}
SomeTokens == {"root", "joe"}
TokenRoles == ("root" :> {"admin"}) @@ ("joe" :> {"user"})
TokenExpiry == ("root" :> 2) @@ ("joe" :> 3)
=============================================================================
