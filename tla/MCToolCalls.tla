------------------------------ MODULE MCToolCalls -------------------------------
(* A sandbox with a directory, two links that lead somewhere and two that   *)
(* do not, and a file that is no text, beside another directory; a host     *)
(* that the name server answers differently for; four tools, two of which   *)
(* have one name.                                                           *)
EXTENDS ToolCalls

MCRegistrations == {"reader", "writer", "writer2", "http"}

MCNameOf == [r \in MCRegistrations |->
  CASE r = "reader" -> "file_read" [] r = "http" -> "http_request" [] OTHER -> "file_write"]

MCRoot == <<"box">>

MCTree == {<<>>, <<"box">>, <<"etc">>, <<"etc", "f">>, <<"box", "d">>, <<"box", "d", "f">>,
           <<"box", "d", "g">>, <<"box", "in">>, <<"box", "out">>, <<"box", "old">>, <<"box", "lost">>}

MCLinks ==
  (<<"box", "in">> :> <<"box", "d">>) @@ (<<"box", "out">> :> <<"etc">>) @@
  (<<"box", "old">> :> <<"etc", "old">>) @@ (<<"box", "lost">> :> <<"gone", "f">>)

MCFiles == (<<"box", "d", "f">> :> TRUE) @@ (<<"box", "d", "g">> :> FALSE) @@ (<<"etc", "f">> :> TRUE)

Paths == {<<"", "d", "f">>, <<"d", "g">>, <<"d", "new">>, <<"in", "..", "in", "f">>,
          <<"out", "f">>, <<"..", "etc", "f">>, <<"..", "..", ".", "d">>, <<"new", "f">>,
          <<"old">>, <<"lost">>, <<"d", "f", "x">>}

Public == [family |-> "v4", octets |-> <<93, 184, 216, 34>>]
Inside == [family |-> "v4", octets |-> <<172, 16, 0, 1>>]
Shared == [family |-> "mapped", octets |-> <<100, 127, 0, 1>>]
Local  == [family |-> "v6", kind |-> "link_local"]
World  == [family |-> "v6", kind |-> "global"]

MCAddressesOf ==
  (<<"api", "org">> :> {{Public, World}, {Public}, {Inside}}) @@
  (<<"lan", "org">> :> {{Public, Inside}}) @@ (<<"cgn", "org">> :> {{Shared}}) @@
  (<<"six", "org">> :> {{Local}}) @@ (<<"none", "org">> :> {{}})

Urls == {<<"https", "://", "me", "@", "api", "org", ":", "port", "/", "x", "@", "y">>,
         <<"http", "://", "lan", "org", "?", "q">>, <<"http", "://", "cgn", "org">>,
         <<"http", "://", "six", "org">>, <<"http", "://", "none", "org">>,
         <<"ftp", "://", "api", "org">>, <<"http", "://", "/", "x">>, <<"http", "://", "api", "com">>}

Headers == {[name |-> "accept", broken |-> FALSE], [name |-> "host", broken |-> FALSE],
            [name |-> "x", broken |-> TRUE]}

Request(name, args) == [name |-> name, args |-> args]

MCRequests ==
  {Request("file_read", [path |-> p]) : p \in Paths}
    \cup {Request("file_write", [path |-> p, content |-> "text"]) : p \in Paths}
    \cup {Request("file_read", <<>>), Request("file_write", [path |-> <<"d", "f">>])}
    \cup {Request("http_request", [url |-> u, method |-> "POST", headers |-> Headers]) : u \in Urls}
    \cup {Request("http_request", [url |-> <<"http", "://", "api", "org">>, method |-> "TRACE"]),
          Request("http_request", <<>>)}

MCGrants ==
  {[tools |-> {"reader", "writer", "http"}, domains |-> {<<"*", "org">>}],
   [tools |-> {"reader", "writer", "http"}, domains |-> {}]}
================================================================================
