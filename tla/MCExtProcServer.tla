--------------------------- MODULE MCExtProcServer ---------------------------
(***************************************************************************)
(* ExtProcServer for TLC: the strings, header maps and URLs of the runs.   *)
(***************************************************************************)
EXTENDS ExtProcRefinement, FiniteSetsExt, SequencesExt, TLC

-----------------------------------------------------------------------------
(* Strings.  Lowered and Trimmed list the strings that change.             *)

Lowered == "POST" :> "post" @@ "GET" :> "get" @@ "A.test" :> "a.test"
           @@ "Message/OHTTP-Req" :> ContentTypeOHTTPReq

Trimmed == " b.test" :> "b.test"

MCText ==
    DOMAIN Lowered \cup {Lowered[x] : x \in DOMAIN Lowered}
    \cup DOMAIN Trimmed \cup {Trimmed[x] : x \in DOMAIN Trimmed}
    \cup {"", "0", "n", "/", "c.test", "text/plain", "application/json",
          "c.test:7777", ContentTypeOHTTPKeys, ohttpConfigsPath}

MCToLower   == [x \in MCText |-> IF x \in DOMAIN Lowered THEN Lowered[x] ELSE x]
MCTrimSpace == [x \in MCText |-> IF x \in DOMAIN Trimmed THEN Trimmed[x] ELSE x]

-----------------------------------------------------------------------------
(* Gateways: b.test is left to Redis, the others are set by a flag that has *)
(* all that docker-compose.yml uses and more: both separators, a port, case, *)
(* a domain mapped twice, blanks and an empty pair.                         *)

Config == INSTANCE DomainMap WITH LowerWord <- Lowered

http(host) == <<"http", ":", host>>

Mapping(domain, sep, url) == [domain |-> domain, sep |-> sep, url |-> url]

Mappings == <<Mapping(<<"A.test">>, ":", http("gwA")),
              Mapping(<<"c.test">>, "=", http("gwA")),
              Mapping(<<"c.test", ":", "7777">>, "=", http("gwA")),
              Mapping(<<"c.test">>, ":", http("gwB"))>>

\* The strings that the tokens of the flag spell.
Spelled(tokens) ==
    CASE tokens = <<"c.test", ":", "7777">> -> "c.test:7777"
      [] Len(tokens) = 1                    -> tokens[1]
      [] OTHER                              -> tokens[3]

MCURLs          == {"gwA", "gwB", "bad"}
MCMalformedURLs == {"bad"}

MCDomainMap ==
    LET m == Config!Load(Config!Flag(Mappings) \o <<" ", ",">>, "", "").DomainMap
    IN  [h \in {Spelled(d) : d \in DOMAIN m} |->
            Spelled(m[CHOOSE d \in DOMAIN m : Spelled(d) = h])]

\* For the runs that are not about the flag: what it gives, without the port.
PlainDomainMap == "a.test" :> "gwA" @@ "c.test" :> "gwB"

-----------------------------------------------------------------------------
(* Header maps.                                                            *)

\* A well-formed OHTTP request to host, whose length is known and positive.
Post(host) == ":method" :> "POST" @@ ":authority" :> host @@ ":path" :> "/"
              @@ "content-type" :> ContentTypeOHTTPReq @@ "content-length" :> "n"

Configs(method, accept) ==
    ":method" :> method @@ ":authority" :> "A.test" @@ ":path" :> ohttpConfigsPath
    @@ "accept" :> accept

Without(h, k) == [x \in DOMAIN h \ {k} |-> h[x]]

MixedCase == ":method" :> "" @@ "method" :> "POST" @@ "host" :> " b.test"
             @@ "content-type" :> "Message/OHTTP-Req" @@ "content-length" :> "n"

Accepted == {Post("A.test"), MixedCase}

Rejected == {":method" :> "GET" @@ Post("A.test"),
             "content-type" :> "application/json" @@ Post("A.test"),
             Without(Post("A.test"), "content-length")}

KeyRequests == {Configs("GET", ContentTypeOHTTPKeys), Configs("GET", "text/plain"),
                Configs("POST", ContentTypeOHTTPKeys)}

AllHeaders  == Accepted \cup Rejected \cup KeyRequests
AllHosts    == Accepted \cup {Post("c.test"), Post("c.test:7777")}
HostsOrKeys == {Post("A.test"), Post("c.test"), Configs("GET", ContentTypeOHTTPKeys)}
GoodOnly    == {Post("A.test")}

StreamSymmetry == Permutations(Streams)

-----------------------------------------------------------------------------

\* From the flag to the gateway: a request whose host the operator mapped goes
\* to the URL of the host's last mapping, whatever the case and the separators
\* in the flag (parseDomainMap, StaticMapURLSource and Process's lower-casing
\* of the host, together).
RoutedAsConfigured ==
    \A s \in Streams : \A i \in DOMAIN gateway[s] :
        LET mine == {k \in DOMAIN Mappings :
                        Spelled(Config!Lower(Mappings[k].domain)) = HostOf(headers[s])}
        IN  mine # {} => gateway[s][i].url = Spelled(Mappings[Max(mine)].url)

=============================================================================
