---------------------------- MODULE GatewaySource ----------------------------
(***************************************************************************)
(* How the relay resolves the gateway of a host (pkg/ohttp-relay/gateway). *)
(*                                                                         *)
(* A source returns a URL or an error; the empty URL means "I do not know  *)
(* this host".  The sources are pure functions of the host, the configured *)
(* domain map and the contents of Redis, so they are operators here; the   *)
(* modules that use them decide when a lookup happens and whether Redis    *)
(* answers it.                                                             *)
(***************************************************************************)
EXTENDS Naturals, Sequences

CONSTANTS
    Text,          \* the strings that occur as header values and as hosts
    ToLower,       \* strings.ToLower on Text
    TrimSpace,     \* strings.TrimSpace on Text
    URLs,          \* gateway URLs
    MalformedURLs, \* the URLs net/http refuses to build a request for
    DomainMap,     \* cfg.DomainMap: the static host -> URL mapping
    RedisEnable    \* whether a Redis source is configured

ASSUME TextAssumption ==
    /\ "" \in Text
    /\ ToLower \in [Text -> Text]
    /\ TrimSpace \in [Text -> Text]

ASSUME URLAssumption ==
    /\ "" \notin URLs
    /\ MalformedURLs \subseteq URLs
    /\ DOMAIN DomainMap \subseteq Text
    /\ \A h \in DOMAIN DomainMap : DomainMap[h] \in URLs
    /\ RedisEnable \in BOOLEAN

\* What a lookup may return: a URL, or the empty string.
Targets == URLs \cup {""}

LookupResults == [url : Targets, err : BOOLEAN]

Found(u) == [url |-> u, err |-> FALSE]
Failed   == [url |-> "", err |-> TRUE]

-----------------------------------------------------------------------------

\* Reading a missing key of a Go map gives the zero value.
StaticMapURLSource(host) ==
    Found(IF host \in DOMAIN DomainMap THEN DomainMap[host] ELSE "")

RedisKey(host) == ToLower[TrimSpace[host]]

\* db is the "url" field of every hash in Redis, "" where there is none
\* (redis.Nil); fails says that HGET timed out or was refused.
RedisTargetURL(host, db, fails) ==
    IF fails THEN Failed ELSE Found(db[RedisKey(host)])

\* results[i] is what the i-th source returns: the first error or non-empty
\* URL ends the search.
Stops(results) == {i \in DOMAIN results : results[i].err \/ results[i].url # ""}

ChainSources(results) ==
    IF Stops(results) = {}
    THEN Found("")
    ELSE LET first == CHOOSE i \in Stops(results) :
                         \A j \in Stops(results) : i <= j
         IN  IF results[first].err THEN Failed ELSE results[first]

FallbackSource(defaultGatewayURL, other) ==
    IF other.err THEN Failed
    ELSE IF other.url # "" THEN other ELSE Found(defaultGatewayURL)

\* Mutant: Redis is asked first.
TargetURLRedisFirst(host, db, fails) ==
    IF RedisEnable
    THEN ChainSources(<<RedisTargetURL(host, db, fails), StaticMapURLSource(host)>>)
    ELSE StaticMapURLSource(host)

\* The source app.runRelayServer builds: the static map first, then Redis.
TargetURL(host, db, fails) ==
    IF RedisEnable
    THEN ChainSources(<<StaticMapURLSource(host), RedisTargetURL(host, db, fails)>>)
    ELSE StaticMapURLSource(host)

=============================================================================
