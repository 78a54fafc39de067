----------------------------- MODULE BoundedCache -----------------------------
(***************************************************************************)
(* The result caches of both ends of the link: an insertion-ordered map from *)
(* request ids to results that drops its eldest entries above a capacity.    *)
(* A cache is the sequence of its results, eldest first: LinkedHashMap of     *)
(* ActionEngine.replayResults, OrderedDict of BridgeGateway._action_cache.    *)
(***************************************************************************)
EXTENDS Naturals, Sequences

Keys(q) == {q[i].req : i \in DOMAIN q}

\* The cached result of a request in Keys(q)
Lookup(q, r) == q[CHOOSE i \in DOMAIN q : q[i].req = r]

\* A result of a known request replaces the old one in its place.
Replaced(q, res) == [i \in 1 .. Len(q) |-> IF q[i].req = res.req THEN res ELSE q[i]]

\* Mutant: the eldest result is never dropped.
PutUnbounded(q, res, cap) ==
    IF res.req \in Keys(q) THEN Replaced(q, res) ELSE Append(q, res)

\* Mutant: the cache is full one result too early.
PutEarly(q, res, cap) ==
    IF res.req \in Keys(q)
    THEN Replaced(q, res)
    ELSE IF Len(q) + 1 < cap THEN Append(q, res) ELSE Tail(Append(q, res))

PutIn(q, res, cap) ==
    IF res.req \in Keys(q)
    THEN Replaced(q, res)
    ELSE Append(IF Len(q) < cap THEN q ELSE Tail(q), res)

\* The requests that PutIn forgets
DroppedBy(q, res, cap) ==
    IF res.req \in Keys(q) \/ Len(q) < cap THEN {} ELSE {Head(q).req}
==============================================================================
