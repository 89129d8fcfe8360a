------------------------- MODULE EndpointMerge -------------------------
(***************************************************************************)
(* processEndpoints of EmergencyConnectProxy::fetchRemoteEndpoints: the     *)
(* fetched endpoints come first, the endpoints held so far follow unless    *)
(* the list already contains them.  Each fetch merges into the result of    *)
(* the previous one.                                                        *)
(***************************************************************************)
EXTENDS SequencesExt

\* Mutant: a held endpoint is compared with the fetched ones only, not with
\* what has been appended since.
MergeMutant(fetched, held) ==
  fetched \o SelectSeq(held, LAMBDA e : e \notin ToSet(fetched))

\* The body of the loop.
Add(list, e) == IF e \in ToSet(list) THEN list ELSE Append(list, e)

\* list[n] is plainEndpoints after n of the held endpoints.
Merge(fetched, held) ==
  LET list[n \in 0..Len(held)] ==
        IF n = 0 THEN fetched ELSE Add(list[n - 1], held[n])
  IN  list[Len(held)]

------------------------------------------------------------------------
\* What list owes to the fetched endpoints and the first n held ones: it starts
\* with the fetched ones in their order and has all of these endpoints and no
\* others; what follows the fetched ones repeats nothing that stands before it,
\* in the order of the first occurrences among the held ones.
Merges(fetched, held, n, list) ==
  LET L == Len(fetched) IN
  /\ L <= Len(list) /\ \A i \in 1..L : list[i] = fetched[i]
  /\ ToSet(list) = ToSet(fetched) \cup { held[p] : p \in 1..n }
  /\ \A i \in (L + 1)..Len(list) : \A j \in 1..(i - 1) : list[j] # list[i]
  /\ \A i, j \in (L + 1)..Len(list) :
       i < j => \E p \in 1..n : held[p] = list[i] /\ \A q \in 1..p : held[q] # list[j]
========================================================================
