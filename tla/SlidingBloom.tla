---------------------------- MODULE SlidingBloom ----------------------------
(***************************************************************************)
(* One SlidingBloomFilter in use: the gossip loop's filter, which decides  *)
(* whether an envelope is forwarded or dropped as a duplicate.             *)
(***************************************************************************)
EXTENDS BloomFilter, Sequences

CONSTANT MaxInserts    \* bound on the length of the history

ASSUME MaxInsertsAssumption == MaxInserts \in Nat

VARIABLES filter,      \* the SlidingBloomFilter
          accepted     \* history: the ids reported new, in order

filterVars == <<filter, accepted>>

FilterInit ==
  /\ filter = NewFilter
  /\ accepted = <<>>

\* check_and_add as execute_fanout_round calls it: an id reported new is
\* forwarded.
CheckAndAddId(id) ==
  /\ Check(filter, id) \/ Len(accepted) < MaxInserts
  /\ filter' \in CheckAndAdd(filter, id)
  /\ accepted' = IF Check(filter, id) THEN accepted ELSE Append(accepted, id)

FilterNext == \E id \in Ids : CheckAndAddId(id)

FilterSpec == FilterInit /\ [][FilterNext]_filterVars
-----------------------------------------------------------------------------
\* The filter is well formed: in particular insert_count never exceeds
\* Capacity, so a window never takes more ids than it was sized for.
FilterTypeOK ==
  /\ filter \in SlidingFilters
  /\ accepted \in Seq(Ids)

\* The last Capacity accepted ids, and every id of the current window, are
\* still recognised: rotating the windows forgets only what is older.
WindowRemembered ==
  \A i \in DOMAIN accepted :
    i + Capacity + filter.insert_count > Len(accepted) => Check(filter, accepted[i])
=============================================================================
