------------------------------ MODULE DomainMap ------------------------------
(***************************************************************************)
(* config.Load: how the relay reads its --gateway-urls flag.               *)
(*                                                                         *)
(* The flag is a sequence of tokens: words, and the characters that the    *)
(* parser looks at, which are "," "=" ":" and " ".  A word has none of     *)
(* these.                                                                  *)
(***************************************************************************)
EXTENDS SequencesExt, FiniteSetsExt, Integers

CONSTANT LowerWord \* strings.ToLower on words

-----------------------------------------------------------------------------
(* Package strings.                                                        *)

Trim(s) ==
    LET text == {i \in DOMAIN s : s[i] # " "}
    IN  IF text = {} THEN <<>> ELSE SubSeq(s, Min(text), Max(text))

Lower(s) == [i \in DOMAIN s |-> IF s[i] \in DOMAIN LowerWord THEN LowerWord[s[i]] ELSE s[i]]

Split(s, sep) ==
    LET ends == SetToSortSeq({i \in DOMAIN s : s[i] = sep} \cup {Len(s) + 1}, <)
    IN  [k \in DOMAIN ends |-> SubSeq(s, IF k = 1 THEN 1 ELSE ends[k - 1] + 1, ends[k] - 1)]

\* strings.SplitN(s, sep, 2)
SplitTwo(s, sep) ==
    IF Contains(s, sep)
    THEN LET at == SelectInSeq(s, LAMBDA t : t = sep)
         IN  <<SubSeq(s, 1, at - 1), SubSeq(s, at + 1, Len(s))>>
    ELSE <<s>>

-----------------------------------------------------------------------------

ParseError == [err |-> TRUE, m |-> <<>>]

\* A pair's domain and url.  An equals sign anywhere in it is the separator.
KeyValue(p) == SplitTwo(p, IF Contains(p, "=") THEN "=" ELSE ":")

Invalid(kv) == Len(kv) # 2 \/ Trim(kv[1]) = <<>> \/ Trim(kv[2]) = <<>>

\* Mutant: the first mapping of a domain is kept.
ParsePairKeepsFirst(acc, p) ==
    LET kv == KeyValue(p) IN
    IF acc.err \/ p = <<>> THEN acc
    ELSE IF Invalid(kv) THEN ParseError
    ELSE [err |-> FALSE, m |-> acc.m @@ (Lower(Trim(kv[1])) :> Trim(kv[2]))]

\* One round of the loop: p is a trimmed pair, and acc what was read so far.
ParsePair(acc, p) ==
    LET kv == KeyValue(p) IN
    IF acc.err \/ p = <<>> THEN acc
    ELSE IF Invalid(kv) THEN ParseError
    ELSE [err |-> FALSE, m |-> (Lower(Trim(kv[1])) :> Trim(kv[2])) @@ acc.m]

\* A blank flag is one blank pair, which is skipped like any other.
parseDomainMap(spec) ==
    FoldLeft(LAMBDA acc, p : ParsePair(acc, Trim(p)), [err |-> FALSE, m |-> <<>>],
             Split(spec, ","))

\* The flags that change anything on the way, and REDIS_PASSWORD.
Load(gatewayURLs, redisPassword, envPass) ==
    LET parsed == parseDomainMap(gatewayURLs) IN
    [err           |-> parsed.err,
     DomainMap     |-> parsed.m,
     RedisPassword |-> IF envPass # "" THEN envPass ELSE redisPassword]

-----------------------------------------------------------------------------
(* What the operator meant.                                                *)

\* The flag that docs/configuration.md describes for some mappings.
Flag(mappings) ==
    FlattenSeq([i \in DOMAIN mappings |->
        (IF i = 1 THEN <<>> ELSE <<",", " ">>)
        \o mappings[i].domain \o <<mappings[i].sep>> \o mappings[i].url])

Meant(mappings) ==
    [d \in {Lower(mappings[i].domain) : i \in DOMAIN mappings} |->
        mappings[Max({i \in DOMAIN mappings : Lower(mappings[i].domain) = d})].url]

=============================================================================
