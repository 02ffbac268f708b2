---------------------------- MODULE BloomFilter ----------------------------
(***************************************************************************)
(* The deduplication filters of src/gossip/bloom.rs as operators.          *)
(*                                                                         *)
(* A Bloom filter of the bloomfilter crate is represented by the set of    *)
(* ids for which check() answers true.  Setting an id adds that id and     *)
(* possibly others, the false positives whose bits happen to be covered;   *)
(* nothing but a fresh filter ever makes the set smaller.  Every fresh     *)
(* filter draws new hash keys, so which ids collide is left open.          *)
(***************************************************************************)
EXTENDS Naturals

CONSTANTS Ids,         \* message ids
          Colliding,   \* the ids that may be false positives: all of them, or
                       \* none when a property is about a filter that never errs
          Capacity     \* capacity_per_window of a SlidingBloomFilter

ASSUME CapacityAssumption == Capacity \in Nat \ {0}
ASSUME CollidingAssumption == Colliding \subseteq Ids

\* Bloom::set: the filters that may result from setting id in filter b.
BloomSet(b, id) == {b \cup {id} \cup collisions : collisions \in SUBSET Colliding}

SlidingFilters == [current : SUBSET Ids, previous : SUBSET Ids, insert_count : 0..Capacity]

\* SlidingBloomFilter::new
NewFilter == [current |-> {}, previous |-> {}, insert_count |-> 0]

\* check: is the id probably seen?
Check(f, id) == id \in f.current \cup f.previous

\* Faulty variant of RotateIfFull: the window takes one id too many.
RotateLate(f) ==
  IF f.insert_count > Capacity
  THEN [current |-> {}, previous |-> f.current, insert_count |-> 0]
  ELSE f

\* rotate_if_full
RotateIfFull(f) ==
  IF f.insert_count >= Capacity
  THEN [current |-> {}, previous |-> f.current, insert_count |-> 0]
  ELSE f

\* Faulty variant of AddNew: the id is set before the rotation and moves to
\* the previous window while the count starts again at one.
AddThenRotate(f, id) ==
  {[RotateIfFull([f EXCEPT !.current = b]) EXCEPT !.insert_count = @ + 1] : b \in BloomSet(f.current, id)}

\* Faulty variant of AddNew: the id does not enter the filter.
AddNothing(f, id) == {RotateIfFull(f)}

\* What add and check_and_add do to a filter that does not know id yet.
AddNew(f, id) ==
  LET r == RotateIfFull(f)
  IN  {[r EXCEPT !.current = b, !.insert_count = @ + 1] : b \in BloomSet(r.current, id)}

\* add and check_and_add: the filters that may result.  check_and_add also
\* returns Check(f, id).
CheckAndAdd(f, id) == IF Check(f, id) THEN {f} ELSE AddNew(f, id)
=============================================================================
