------------------------------- MODULE MCSandbox --------------------------------
(* Three guests on two workers; integers of three bits, so that a file of 9 *)
(* bytes has a length that wraps to 1; an empty file is read to a buffer of *)
(* negative length; a link leads to another directory, and one to where not *)
(* even a directory is; the name server changes its mind.                   *)
EXTENDS Sandbox

MCRoot == <<"box">>
MCTree == {<<>>, <<"box">>, <<"etc">>, <<"box", "one">>, <<"box", "nine">>,
           <<"box", "empty">>, <<"box", "out">>, <<"box", "old">>}
MCLinks == (<<"box", "out">> :> <<"etc">>) @@ (<<"box", "old">> :> <<"gone", "old">>)
MCFiles == (<<"box", "one">> :> 1) @@ (<<"box", "nine">> :> 9) @@ (<<"box", "empty">> :> 0)

MCCapabilities ==
  [reads |-> {<<"one">>, <<"nine">>, <<"empty">>, <<"..", "*">>}, writes |-> {<<"one">>, <<"old">>, <<"out", "*">>},
   domains |-> {<<"*", "org">>}]

MCAddressesOf ==
  LET public == [family |-> "v4", octets |-> <<93, 184, 216, 34>>]
      inside == [family |-> "v4", octets |-> <<192, 168, 0, 1>>]
  IN  (<<"api", "org">> :> {{public}, {public, inside}}) @@ (<<"lan", "org">> :> {{inside}})

At(ptr, len) == [ptr |-> ptr, len |-> len]

Read(path, buffer) ==
  [function |-> "file_read", path |-> path, regions |-> {At(0, 1)}, utf8 |-> TRUE, buffer |-> buffer]

Write(path, region, length) ==
  [function |-> "file_write", path |-> path, regions |-> {At(0, 1), region}, utf8 |-> TRUE, length |-> length]

Send(url, method) ==
  [function |-> "http_request", url |-> url, method |-> method, regions |-> {At(0, 1)},
   utf8 |-> TRUE, json |-> TRUE]

MCHostRequests ==
  {Read(<<"one">>, At(0, 1)), Read(<<"nine">>, At(0, 1)),
   Read(<<"empty">>, At(0, -1)),
   Read(<<"..", "etc">>, At(0, 1)),
   Write(<<"one">>, At(0, 1), 1), Write(<<"old">>, At(0, 1), 1), Write(<<"one">>, At(-1, 2), 2), Write(<<"out", "f">>, At(0, 1), 1),
   Send(<<"http", "://", "lan", "@", "api", "org", "/", "@", "com">>, "GET"), Send(<<"http", "://", "lan", "org">>, "GET"),
   Send(<<"http", "://", "api", "com">>, "GET"), Send(<<"api", "org">>, "GET"),
   [function |-> "log_message", regions |-> {At(0, 1)}, utf8 |-> TRUE]}
================================================================================
