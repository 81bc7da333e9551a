----------------------------- MODULE MCRoundTrip -----------------------------
(***************************************************************************)
(* RoundTrip for TLC, and the flag that makes the relay of docker-compose  *)
(* the one that RoundTrip assumes.                                         *)
(***************************************************************************)
EXTENDS RoundTrip, SequencesExt, TLC

Config == INSTANCE DomainMap WITH LowerWord <- "A.test" :> "a.test"

http(host) == <<"http", ":", host>>

Mapping(domain, sep, url) == [domain |-> domain, sep |-> sep, url |-> url]

\* Mappings in each of the two documented forms, some with an equals sign in
\* the URL.
SomeMappings ==
    {Mapping(d, sep, u) : d   \in {<<"a.test">>, <<"A.test">>, <<"c.test">>},
                          sep \in {":", "="},
                          u   \in {http("gwA"), http("gwB") \o <<"=", "x">>}}

\* Reference check of parseDomainMap over bounded inputs: the flag is read as
\* docs/configuration.md describes it, for any mappings in any order, exactly
\* if no mapping of the form domain:url has an equals sign in its URL, which
\* parseDomainMap would take for the separator.
ASSUME FlagReadAsDocumented ==
    \A ms \in BoundedSeq(SomeMappings, 2) :
        LET parsed == Config!parseDomainMap(Config!Flag(ms)) IN
        /\ ~parsed.err
        /\ parsed.m = Config!Meant(ms) <=>
              \A i \in DOMAIN ms : ms[i].sep = ":" => ~Contains(ms[i].url, "=")

\* docker-compose.yml:38; a client's host has the port that it connects to.
ComposeFlag ==
    LET echo == http("echo-gateway") \o <<":", "8888">> IN
    Config!Flag(<<Mapping(<<"localhost">>, ":", echo), Mapping(<<"envoy">>, ":", echo),
                  Mapping(<<"envoy", ":", "7777">>, "=", echo),
                  Mapping(<<"localhost", ":", "7777">>, "=", echo)>>)

\* The relay knows the echo gateway under each name that the client uses.
ASSUME ClientsAreRouted ==
    LET read == Config!Load(ComposeFlag, "", "") IN
    /\ ~read.err
    /\ \A host \in {<<"envoy">>, <<"localhost">>} :
          {host, host \o <<":", "7777">>} \subseteq DOMAIN read.DomainMap

=============================================================================
