-------------------------------- MODULE Network ---------------------------------
(***************************************************************************)
(* What an HTTP request is checked for, by the tool http_request           *)
(* (jadepaw-wasm/src/tool_impls/http_tool.rs) as by the host function      *)
(* (jadepaw-wasm/src/host/network.rs): its method, scheme, host            *)
(* (jadepaw-core/src/tool.rs), addresses and headers.                      *)
(*                                                                         *)
(* A URL is a sequence of units: its scheme, its delimiters, and the       *)
(* labels of its host, whose dots are left out.                            *)
(***************************************************************************)
EXTENDS Integers, Sequences, FiniteSets, SequencesExt

AllowedMethods == {"GET", "POST", "PUT", "PATCH", "DELETE"}
AllowedSchemes == {"http", "https"}
ForbiddenHeaders == {"host", "content-length", "transfer-encoding",
                     "proxy-authorization", "connection", "expect"}

Position(text, unit) == SelectInSeq(text, LAMBDA u : u = unit)
LastPosition(text, unit) == SelectLastInSeq(text, LAMBDA u : u = unit)

(* The units before the first slash, or if there is none before the first  *)
(* question mark, or else before the first hash sign.                      *)
Authority(text) ==
  LET delimiters == <<"/", "?", "#">>
      there      == {d \in 1..3 : Position(text, delimiters[d]) # 0}
  IN  IF there = {} THEN text
      ELSE SubSeq(text, 1, Position(text, delimiters[Min(there)]) - 1)

AfterScheme(url) == SubSeq(url, Position(url, "://") + 1, Len(url))

(* The scheme, lower-cased; "" if there is none.                           *)
Scheme(url) == IF Position(url, "://") = 2 THEN url[1] ELSE ""

(* What follows the last @ of the authority.                               *)
WithoutUserinfo(url) ==
  LET at == LastPosition(Authority(AfterScheme(url)), "@")
  IN  SubSeq(AfterScheme(url), at + 1, Len(AfterScheme(url)))

(* extract_host_from_url: without port, and without the brackets of an     *)
(* IPv6 address.                                                           *)
HostOf(url) ==
  LET host  == Authority(WithoutUserinfo(url))
      ports == {k \in 1..Len(host) - 1 : host[k] = "]" /\ host[k + 1] = ":"}
      close == IF ports # {} THEN Min(ports) ELSE Position(host, "]")
      colon == Position(host, ":")
  IN  IF host # <<>> /\ host[1] = "["
      THEN IF close = 0 THEN host ELSE SubSeq(host, 2, close - 1)
      ELSE IF colon = 0 THEN host ELSE SubSeq(host, 1, colon - 1)

(* The host function requests the URL without its userinfo.                *)
RequestUrl(url) ==
  SubSeq(url, 1, Position(url, "://")) \o WithoutUserinfo(url)

(* An address: four octets, or a word for what kind of IPv6 address it is, *)
(* or the IPv4 address that is mapped into one.                            *)
IsBlockedV4(a) ==
  \/ a[1] \in {10, 127} \/ (a[1] = 172 /\ a[2] \in 16..31) \/ (a[1] = 192 /\ a[2] = 168)
  \/ a[1] = 169 /\ a[2] = 254
  \/ a[1] \in 224..239
  \/ a \in {<<255, 255, 255, 255>>, <<0, 0, 0, 0>>}
  \/ a[1] = 100 /\ a[2] \in 64..127

IsBlocked(address) ==
  IF address.family \in {"v4", "mapped"} THEN IsBlockedV4(address.octets)
  ELSE address.kind \in {"loopback", "unique_local", "link_local", "multicast", "unspecified"}

(* resolve_and_check_ssrf_addr, given what the name server says: one       *)
(* blocked address is enough.                                              *)
Resolution(addresses) ==
  IF addresses = {} THEN "DNS_ERROR"
  ELSE IF \E a \in addresses : IsBlocked(a) THEN "SSRF_BLOCKED"
  ELSE "resolved"

(* The headers that are sent: the rest is dropped without a word.  A       *)
(* header has a name and tells whether its value has a line break.         *)
SentHeaders(headers) ==
  {h \in headers : h.name \notin ForbiddenHeaders /\ ~h.broken}
================================================================================
