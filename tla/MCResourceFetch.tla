-------------------------- MODULE MCResourceFetch --------------------------
(***************************************************************************)
(* Two https origins, the http one of the same host, and a local file;     *)
(* policies that allow some of them, with no redirect or one.  Sheets      *)
(* import the sheet of either origin, one under a media condition.         *)
(***************************************************************************)
EXTENDS StylesheetImports

Url(scheme, host) == [scheme |-> scheme, host |-> host]

MCUrls == {Url("https", "a"), Url("https", "b"), Url("http", "a"), Url("file", "")}

OnePolicy == [allowed |-> {Url("https", "a"), Url("http", "a")}, hops |-> 1]

OtherPolicy == [allowed |-> {Url("https", "a"), Url("https", "b")}, hops |-> 0]

MCPolicies == {OnePolicy, OtherPolicy}

\* An embedder's POST to either scheme, and a GET, with everything a request
\* can carry.
Full(url, method) == [url |-> url, method |-> method, body |-> TRUE, credentials |-> TRUE]

MCAsked ==
  {Full(Url("https", "a"), "POST"), Full(Url("http", "a"), "POST"), Full(Url("https", "a"), "GET")}

Text == [url |-> None, media |-> 0]

Import(url, media) == [url |-> url, media |-> media]

MCContents ==
  {<<Text>>, <<Import(Url("https", "a"), 2), Text>>, <<Text, Import(Url("https", "b"), 0)>>}

MCImportDepth ==
  [p \in MCPolicies \cup {None} |->
     IF p = None THEN 2 ELSE IF p = OnePolicy THEN 1 ELSE 2]
=============================================================================
