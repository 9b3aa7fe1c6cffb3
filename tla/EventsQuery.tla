---------------------------- MODULE EventsQuery ----------------------------
(***************************************************************************)
(* What a query string asks of GET /v1/events and GET /v1/states           *)
(* (handlers/events.go, country.go, states.go), and the key under which    *)
(* the response cache keeps the answer (normalizedCacheKey).               *)
(*                                                                         *)
(* A query is the sequence of its <<parameter, value>> pairs as sent.      *)
(***************************************************************************)
EXTENDS Integers, Sequences

Parameters == {"category", "country", "country_code", "state", "status", "limit", "offset"}

Empty == ""

\* The values of a parameter, in the order sent.
Values(q, p) ==
  LET Of(pair) == pair[1] = p
      chosen == SelectSeq(q, Of)
  IN [i \in DOMAIN chosen |-> chosen[i][2]]

\* url.Values.Get: the first value.
Get(q, p) == IF Values(q, p) = <<>> THEN Empty ELSE Values(q, p)[1]

\* Faulty variant: the values are sorted as well.
CacheKeySorted(q) == [p \in Parameters |-> {Values(q, p)[i] : i \in DOMAIN Values(q, p)}]

\* Query().Encode(): sorted by parameter, the values of each in their order.
CacheKey(q) == [p \in Parameters |-> Values(q, p)]

\* Codes and names match in any case.
countryCodeToName == [NG |-> "Nigeria", ng |-> "Nigeria", GH |-> "Ghana"]
countryNames == [Nigeria |-> "Nigeria", nigeria |-> "Nigeria", Ghana |-> "Ghana"]
UnknownCountry == "unknown"

Lookup(table, value) == IF value \in DOMAIN table THEN table[value] ELSE UnknownCountry

\* resolveCountry: the code wins over the name, even over an unknown code.
ResolveCountry(q) ==
  IF Get(q, "country_code") # Empty THEN Lookup(countryCodeToName, Get(q, "country_code"))
  ELSE IF Get(q, "country") # Empty THEN Lookup(countryNames, Get(q, "country"))
  ELSE Empty

NotANumber == -1000
Number10 == [x \in {"0", "1", "50", "200", "201", "-1"} |->
               CASE x = "0" -> 0 [] x = "1" -> 1 [] x = "50" -> 50
                 [] x = "200" -> 200 [] x = "201" -> 201 [] x = "-1" -> -1]

\* strconv.Atoi, with a default for a parameter that is not there.
Atoi(value, default) ==
  IF value = Empty THEN default
  ELSE IF value \in DOMAIN Number10 THEN Number10[value] ELSE NotANumber

\* EventFilters of a request, as far as it is valid.
Filters(q) ==
  [category |-> Get(q, "category"), country |-> ResolveCountry(q), state |-> Get(q, "state"),
   status |-> Get(q, "status"), limit |-> Atoi(Get(q, "limit"), 50),
   offset |-> Atoi(Get(q, "offset"), 0)]

Valid(f) ==
  /\ f.category \in {Empty, "floods", "wildfires"} /\ f.country # UnknownCountry
  /\ f.status \in {Empty, "open", "closed"}
  /\ f.limit \in 1..200 /\ f.offset >= 0

\* The limit and the offset ListEvents uses.
LimitUsed(f) == IF f.limit \in 1..200 THEN f.limit ELSE 50
OffsetUsed(f) == IF f.offset < 0 THEN 0 ELSE f.offset

\* buildEventFilterClause: whether a row is left; Empty is no condition.
Selects(f, row) ==
  \A column \in {"category", "country", "state", "status"} :
    f[column] = Empty \/ row[column] = f[column]

\* The states GET /v1/states lists: those of the rows of the country, each once.
DistinctStates(q, rows) ==
  LET country == ResolveCountry(q) IN
  {row.state : row \in {row \in rows : row.state # Empty /\ (country = Empty \/ row.country = country)}}

(***************************************************************************)
(* Properties.                                                             *)
(***************************************************************************)

\* Two queries that share a cache entry ask for the same events, whatever the order
\* and the repetitions of their parameters. A valid query is answered for the page
\* it asked for: the limits of the handler and of ListEvents agree. And a state
\* that is offered for a country never leads to an empty list.
AnswersWhatIsAsked(q, other, rows) ==
  LET f == Filters(q)
      Chosen(s) == [category |-> Empty, country |-> f.country, state |-> s, status |-> Empty]
  IN /\ CacheKey(q) = CacheKey(other) => f = Filters(other)
     /\ Valid(f) => LimitUsed(f) = f.limit /\ OffsetUsed(f) = f.offset
     /\ f.country # UnknownCountry =>
          \A s \in DistinctStates(q, rows) : \E row \in rows : Selects(Chosen(s), row)
=============================================================================
