-------------------------------- MODULE NsUrl --------------------------------
(***************************************************************************)
(* A client's network service annotation, from its text to the labels its *)
(* configuration carries.                                                   *)
(*                                                                         *)
(* ParseAnnotationValue (pkg/tools/tools.go) splits the annotation on ","  *)
(* and parses each part with parseNsUrl: url.Parse, the path split on "/" *)
(* into the service name and an optional interface of at most 15          *)
(* characters, and url.Query() for the parameters.  NSConfigurationFromUrl *)
(* (sdk/common/configuration.go) writes a URL's parameters as the labels  *)
(* "k=v,k=v" (the first value of each key, in Go's random map order) into *)
(* a copy of the client's configuration, CompleteNSConfiguration fills    *)
(* the options left empty from the environment, and ParseKVStringToMap    *)
(* (tools.go) reads the labels back into a map.                           *)
(*                                                                         *)
(* The properties are about the text, so strings are sequences of one-    *)
(* character strings over a small alphabet.  It has no ':', '#', '%', '+' *)
(* or ';', so url.Parse finds no scheme, fragment or escape and splits     *)
(* the text only at its first '?'; names are non-empty letters, so no path *)
(* starts with "//".                                                       *)
(***************************************************************************)
EXTENDS Naturals, Sequences, SequencesExt, FiniteSets

CONSTANTS
    Names,      \* service names the annotation may carry
    Intfs,      \* interface parts (<<>>: none)
    Keys,       \* query keys
    Values,     \* query values
    MinPairs,   \* least number of key=value pairs in one URL's query
    MaxPairs,   \* bound on the key=value pairs of one URL's query
    MaxUrls,    \* bound on the URLs of one annotation
    Confs,      \* configurations the client may pass to NSConfigurationFromUrl
    Envs        \* process environments (read once at startup)

Alphabet == {"a", "b", " ", "/", "?", "=", "&", ","}

ASSUME NsUrlAssumption ==
    /\ Names \cup Intfs \cup Keys \cup Values \subseteq Seq(Alphabet)
    /\ MinPairs \in Nat /\ MaxPairs \in Nat
    /\ MaxUrls \in Nat \ {0}

Comma == <<",">>
Equals == <<"=">>
Slash == <<"/">>
Question == <<"?">>
Amp == <<"&">>

(***************************************************************************)
(* strings.Split(s, sep) for a one-character sep: the fields between the   *)
(* separators, so "" gives one empty field and "a," gives "a" and "".     *)
(***************************************************************************)
Split(s, sep) ==
    LET cuts == SetToSortSeq({i \in 1..Len(s) : <<s[i]>> = sep}, <)
        bound == <<0>> \o cuts \o <<Len(s) + 1>>
    IN [j \in 1..Len(bound) - 1 |-> SubSeq(s, bound[j] + 1, bound[j + 1] - 1)]

(* strings.Cut(s, sep): the text before and after the first sep.           *)
Cut(s, sep) ==
    LET at == {i \in 1..Len(s) : <<s[i]>> = sep}
    IN IF at = {} THEN <<s, <<>>>>
       ELSE <<SubSeq(s, 1, Min(at) - 1), SubSeq(s, Min(at) + 1, Len(s))>>

(* strings.Trim(s, " "): s without its leading and trailing blanks.        *)
Trim(s) ==
    LET kept == {i \in 1..Len(s) : s[i] # " "}
    IN IF kept = {} THEN <<>>
       ELSE SubSeq(s, Min(kept), Max(kept))

(* parseKV: exactly two fields, trimmed; anything else is ("", "").        *)
ParseKV(kv, kvsep) ==
    LET f == Split(kv, kvsep)
    IN IF Len(f) # 2 THEN <<<<>>, <<>>>> ELSE <<Trim(f[1]), Trim(f[2])>>

(* ParseKVStringToMap: the last pair with a given key wins.                *)
ParseKVStringToMap(input, sep, kvsep) ==
    LET pairs == Split(input, sep)
        kv == [i \in 1..Len(pairs) |-> ParseKV(pairs[i], kvsep)]
        keys == {kv[i][1] : i \in 1..Len(pairs)}
    IN [k \in keys |-> kv[Max({i \in 1..Len(pairs) : kv[i][1] = k})][2]]

(***************************************************************************)
(* url.ParseQuery: the non-empty pieces between '&', each cut at its first *)
(* '='; url.Values maps a key to its values in the order they appear.     *)
(***************************************************************************)
ParseQuery(q) ==
    LET pieces == SelectSeq(Split(q, Amp), LAMBDA p : p # <<>>)
        kv == [i \in 1..Len(pieces) |-> Cut(pieces[i], Equals)]
    IN [k \in {kv[i][1] : i \in 1..Len(kv)} |->
           [j \in 1..Len(SelectSeq(kv, LAMBDA p : p[1] = k)) |->
               SelectSeq(kv, LAMBDA p : p[1] = k)[j][2]]]

(* Mutant: an interface of exactly 15 characters is refused.               *)
parseNsUrlOffByOne(s) ==
    LET u == Cut(s, Question)
        path == Split(u[1], Slash)
    IN IF Len(path) > 2 \/ (Len(path) = 2 /\ Len(path[2]) >= 15)
       THEN [ok |-> FALSE]
       ELSE [ok |-> TRUE, nsName |-> path[1],
             intf |-> IF Len(path) = 2 THEN path[2] ELSE <<>>,
             params |-> ParseQuery(u[2])]

(***************************************************************************)
(* parseNsUrl: url.Parse (path before the first '?', RawQuery after it),   *)
(* more than one '/' in the path or an interface longer than 15 characters *)
(* is an error; otherwise the name, the interface and url.Query().         *)
(***************************************************************************)
parseNsUrl(s) ==
    LET u == Cut(s, Question)
        path == Split(u[1], Slash)
    IN IF Len(path) > 2 \/ (Len(path) = 2 /\ Len(path[2]) > 15)
       THEN [ok |-> FALSE]
       ELSE [ok |-> TRUE, nsName |-> path[1],
             intf |-> IF Len(path) = 2 THEN path[2] ELSE <<>>,
             params |-> ParseQuery(u[2])]

(* ParseAnnotationValue: every part parsed, or the first error.            *)
ParseAnnotationValue(value) ==
    LET urls == Split(value, Comma)
        res == [i \in 1..Len(urls) |-> parseNsUrl(urls[i])]
    IN IF \E i \in 1..Len(res) : ~res[i].ok
       THEN [ok |-> FALSE, urls |-> <<>>]
       ELSE [ok |-> TRUE, urls |-> res]

(***************************************************************************)
(* The labels NSConfigurationFromUrl writes for a URL's parameters when    *)
(* the map is iterated in the given order: k=v[0] joined with commas.      *)
(***************************************************************************)
LabelsText(params, order) ==
    FlattenSeq([j \in 1..Len(order) |->
                   (IF j = 1 THEN <<>> ELSE Comma) \o order[j] \o Equals \o params[order[j]][1]])

(***************************************************************************)
(* NSConfiguration: its string options, a field each, and TracerEnabled.  *)
(* An environment gives the text of each option's variable (getEnv, whose *)
(* body is not in the repository, taken as that text) and the text of     *)
(* TRACER_ENABLED.                                                         *)
(***************************************************************************)
StringOptions ==
    {"NsmServerSocket", "NsmClientSocket", "Workspace", "AdvertiseNseName",
     "OutgoingNscName", "AdvertiseNseLabels", "OutgoingNscLabels",
     "MechanismType", "IPAddress"}

NSConfigurations ==
    [NsmServerSocket : Seq(Alphabet), NsmClientSocket : Seq(Alphabet),
     Workspace : Seq(Alphabet), AdvertiseNseName : Seq(Alphabet),
     OutgoingNscName : Seq(Alphabet), AdvertiseNseLabels : Seq(Alphabet),
     OutgoingNscLabels : Seq(Alphabet), TracerEnabled : BOOLEAN,
     MechanismType : Seq(Alphabet), IPAddress : Seq(Alphabet)]

(* strconv.ParseBool; on an error the value is false (the error is dropped). *)
ParseBool(s) == s \in {"1", "t", "T", "TRUE", "true", "True"}

(* Mutant: OutgoingNscLabels is read from the environment even when set.   *)
CompleteNoLabelGuard(conf, env) ==
    [f \in StringOptions |->
        IF Len(conf[f]) = 0 \/ f = "OutgoingNscLabels" THEN env[f] ELSE conf[f]]
    @@ [TracerEnabled |-> ParseBool(env.TracerEnabled)]

(***************************************************************************)
(* CompleteNSConfiguration: every string option left empty is filled from *)
(* its environment variable; TracerEnabled is always overwritten by       *)
(* ParseBool(TRACER_ENABLED), whatever the caller set.                    *)
(***************************************************************************)
Complete(conf, env) ==
    [f \in StringOptions |-> IF Len(conf[f]) = 0 THEN env[f] ELSE conf[f]]
    @@ [TracerEnabled |-> ParseBool(env.TracerEnabled)]

-----------------------------------------------------------------------------
(***************************************************************************)
(* The reference: what the annotation is written from.  An item is a URL  *)
(* given by its parts; its query is a sequence of key/value pairs.         *)
(***************************************************************************)
Queries == UNION {[1..n -> Keys \X Values] : n \in MinPairs..MaxPairs}

Items == [name : Names, intf : Intfs, query : Queries]

Join(parts, sep) ==
    FlattenSeq([j \in 1..Len(parts) |-> (IF j = 1 THEN <<>> ELSE sep) \o parts[j]])

UrlText(it) ==
    it.name
    \o (IF it.intf = <<>> THEN <<>> ELSE Slash \o it.intf)
    \o (IF it.query = <<>> THEN <<>>
        ELSE Question \o Join([j \in 1..Len(it.query) |->
                                  it.query[j][1] \o Equals \o it.query[j][2]], Amp))

(* The first value given to each key of the query.                         *)
FirstValues(q) ==
    [k \in {q[i][1] : i \in 1..Len(q)} |->
        q[Min({i \in 1..Len(q) : q[i][1] = k})][2]]

-----------------------------------------------------------------------------
VARIABLES
    items,      \* the URLs the annotation was written from (reference only)
    annotation, \* the annotation value
    result,     \* ParseAnnotationValue's result
    base,       \* the configuration the client passes to NSConfigurationFromUrl
    env,        \* the process environment
    confs,      \* confs[i]: the configuration built for the i-th URL
    parsed,     \* parsed[i]: the map confs[i]'s labels are parsed into
    pc          \* "annotation", "parsed", "failed", "configured", "completed",
                \* "labeled"

vars == <<items, annotation, result, base, env, confs, parsed, pc>>

TypeOK ==
    /\ items \in Seq(Items)
    /\ annotation \in Seq(Alphabet)
    /\ base \in NSConfigurations
    /\ confs \in Seq(NSConfigurations)
    /\ pc \in {"annotation", "parsed", "failed", "configured", "completed", "labeled"}

Init ==
    /\ items \in UNION {[1..n -> Items] : n \in 1..MaxUrls}
    /\ annotation = Join([i \in 1..Len(items) |-> UrlText(items[i])], Comma)
    /\ result = [ok |-> FALSE, urls |-> <<>>]
    /\ base \in Confs
    /\ env \in Envs
    /\ confs = <<>>
    /\ parsed = <<>>
    /\ pc = "annotation"

(* ParseAnnotationValue(annotation).                                       *)
ParseAnnotation ==
    /\ pc = "annotation"
    /\ result' = ParseAnnotationValue(annotation)
    /\ pc' = IF result'.ok THEN "parsed" ELSE "failed"
    /\ UNCHANGED <<items, annotation, base, env, confs, parsed>>

(***************************************************************************)
(* NSConfigurationFromUrl for each URL, each map iterated in any order: a *)
(* copy of the client's configuration with the URL's service name and its *)
(* parameters as labels.                                                  *)
(***************************************************************************)
NSConfigurationFromUrl ==
    /\ pc = "parsed"
    /\ LET urls == result.urls IN
       \E order \in [1..Len(urls) -> UNION {SetToSeqs(DOMAIN urls[i].params) : i \in 1..Len(urls)}] :
          /\ \A i \in 1..Len(urls) : order[i] \in SetToSeqs(DOMAIN urls[i].params)
          /\ confs' = [i \in 1..Len(urls) |->
                        [base EXCEPT !.OutgoingNscName = urls[i].nsName,
                                     !.OutgoingNscLabels = LabelsText(urls[i].params, order[i])]]
    /\ pc' = "configured"
    /\ UNCHANGED <<items, annotation, result, base, env, parsed>>

(* Each client completes its configuration from the environment.           *)
CompleteNSConfiguration ==
    /\ pc = "configured"
    /\ confs' = [i \in DOMAIN confs |-> Complete(confs[i], env)]
    /\ pc' = "completed"
    /\ UNCHANGED <<items, annotation, result, base, env, parsed>>

(* Each client parses its labels: ParseKVStringToMap(labels, ",", "=").   *)
ParseLabels ==
    /\ pc = "completed"
    /\ parsed' = [i \in DOMAIN confs |->
                     ParseKVStringToMap(confs[i].OutgoingNscLabels, Comma, Equals)]
    /\ pc' = "labeled"
    /\ UNCHANGED <<items, annotation, result, base, env, confs>>

Next == ParseAnnotation \/ NSConfigurationFromUrl \/ CompleteNSConfiguration \/ ParseLabels

Spec == Init /\ [][Next]_vars

-----------------------------------------------------------------------------
(***************************************************************************)
(* AnnotationRoundTrip: ParseAnnotationValue fails exactly when some      *)
(* interface is longer than 15 characters, and otherwise gives back every *)
(* URL's name, interface and the first value of each query key.           *)
(***************************************************************************)
AnnotationRoundTrip ==
    pc # "annotation" =>
        /\ result.ok <=> \A i \in 1..Len(items) : Len(items[i].intf) <= 15
        /\ result.ok =>
              /\ Len(result.urls) = Len(items)
              /\ \A i \in 1..Len(items) :
                    LET u == result.urls[i] IN
                    /\ u.nsName = items[i].name
                    /\ u.intf = items[i].intf
                    /\ [k \in DOMAIN u.params |-> u.params[k][1]] = FirstValues(items[i].query)

(***************************************************************************)
(* LabelsRoundTrip: each client asks for its URL's service, whatever      *)
(* OUTGOING_NSC_NAME says.  A URL with a query gives exactly the first     *)
(* value of each of its keys as labels, whatever order Go's map iteration *)
(* took and whatever OUTGOING_NSC_LABELS says.  A URL without a query     *)
(* gives empty labels, which CompleteNSConfiguration takes as unset: the  *)
(* client gets the labels of OUTGOING_NSC_LABELS instead, and when that is *)
(* unset too, the one label with an empty key and an empty value.         *)
(***************************************************************************)
EnvLabels == ParseKVStringToMap(env.OutgoingNscLabels, Comma, Equals)

LabelsRoundTrip ==
    pc = "labeled" =>
        /\ DOMAIN parsed = 1..Len(items)
        /\ \A i \in 1..Len(items) :
              /\ confs[i].OutgoingNscName = items[i].name
              /\ items[i].query # <<>> => parsed[i] = FirstValues(items[i].query)
              /\ items[i].query = <<>> =>
                    /\ env.OutgoingNscLabels # <<>> => parsed[i] = EnvLabels
                    /\ env.OutgoingNscLabels = <<>> => parsed[i] = [k \in {<<>>} |-> <<>>]
=============================================================================
