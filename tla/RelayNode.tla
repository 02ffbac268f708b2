----------------------------- MODULE RelayNode -----------------------------
(***************************************************************************)
(* The relay of src/relay/mod.rs: process_envelope submits a transaction   *)
(* to Stellar, with retries, builds a proof from the ledger it reads       *)
(* afterwards, and remembers the proof in an LRU cache (src/relay/dedup.rs).*)
(*                                                                         *)
(* process_envelope borrows the node mutably, so one envelope is processed *)
(* at a time; it is split at its RPC calls, between which ledgers close.   *)
(* A submission can fail before or after the network has applied it.       *)
(***************************************************************************)
EXTENDS Naturals, Sequences, FiniteSets, SequencesExt

CONSTANTS Ids,             \* message ids, one transaction each
          Invalid,         \* the transactions the network rejects
          capacity,        \* of the RelayDeduplicator
          max_attempts,    \* of the RetryConfig
          RpcMayFail,      \* may RPC calls fail?
          MaxLedger,       \* bound on the number of ledgers
          MaxCalls         \* bound on the calls of process_envelope

ASSUME RelayAssumption ==
  /\ Invalid \subseteq Ids
  /\ capacity \in Nat \ {0}
  /\ max_attempts \in Nat \ {0}
  /\ RpcMayFail \in BOOLEAN
  /\ MaxLedger \in Nat \ {0} /\ MaxCalls \in Nat

VARIABLES cache,       \* result_cache, least recently used first
          ledger,      \* number of the latest closed ledger
          applied,     \* the transactions the network has applied
          call,        \* process_envelope: what it is about to do
          calls,       \* number of calls so far
          proofs,      \* history: the proofs handed out, with their ids
          successes,   \* history: successful submissions of each id (at most two counted)
          excused      \* history: the ids whose submission the relay may have forgotten

vars == <<cache, ledger, applied, call, calls, proofs, successes, excused>>

\* A proof: the ledger its sequence came from, and the ledger of its hash.
Proofs == [sequence : 1..MaxLedger, hash : 1..MaxLedger]

Entries == [id : Ids, proof : Proofs]

Idle == [stage |-> "idle", ids |-> {}, attempt |-> 0, sequence |-> 0]

Cached(id) == \E i \in DOMAIN cache : cache[i].id = id

\* Where the entry of a cached id is.
At(id) == CHOOSE i \in DOMAIN cache : cache[i].id = id

Others(id) == IF Cached(id) THEN RemoveAt(cache, At(id)) ELSE cache
-----------------------------------------------------------------------------
Init ==
  /\ cache = <<>>
  /\ ledger = 1
  /\ applied = {}
  /\ call = Idle
  /\ calls = 0
  /\ proofs = {}
  /\ successes = [id \in Ids |-> 0]
  /\ excused = {}

\* A ledger closes (external).
LedgerCloses ==
  /\ ledger < MaxLedger
  /\ ledger' = ledger + 1
  /\ UNCHANGED <<cache, applied, call, calls, proofs, successes, excused>>

\* LruCache::get: the entry becomes the most recently used one.
Touched(id) == Append(Others(id), cache[At(id)])

\* process_envelope for a duplicate: the cached proof.
ReturnCached(id) ==
  /\ call = Idle /\ calls < MaxCalls
  /\ Cached(id)
  /\ calls' = calls + 1
  /\ cache' = Touched(id)
  /\ UNCHANGED <<ledger, applied, call, proofs, successes, excused>>

\* process_envelope for an id that is not cached.
Begin(id) ==
  /\ call = Idle /\ calls < MaxCalls
  /\ ~Cached(id)
  /\ calls' = calls + 1
  /\ call' = [stage |-> "submit", ids |-> {id}, attempt |-> 1, sequence |-> 0]
  /\ UNCHANGED <<cache, ledger, applied, proofs, successes, excused>>

\* submit_with_retry: the network takes the transaction (or knows it already).
SubmitOk(id) ==
  /\ call.stage = "submit" /\ id \in call.ids
  /\ id \notin Invalid
  /\ applied' = applied \cup {id}
  /\ successes' = [successes EXCEPT ![id] = IF @ < 2 THEN @ + 1 ELSE 2]
  /\ call' = [call EXCEPT !.stage = "sequence"]
  /\ UNCHANGED <<cache, ledger, calls, proofs, excused>>

\* ... it rejects it: an invalid one, or one it has applied before (whose
\* account sequence number is used up).  A rejection is never retried.
SubmitRejected(id) ==
  /\ call.stage = "submit" /\ id \in call.ids
  /\ id \in Invalid \cup applied
  /\ call' = Idle
  /\ UNCHANGED <<cache, ledger, applied, calls, proofs, successes, excused>>

\* Faulty variant of AfterFailure: the last attempt starts the count again.
RetryForEver == [call EXCEPT !.attempt = IF @ >= max_attempts THEN 1 ELSE @ + 1]

\* Faulty variant of AfterFailure: the last failure passes for a success.
GiveUpAsSuccess ==
  IF call.attempt >= max_attempts THEN [call EXCEPT !.stage = "sequence"]
  ELSE [call EXCEPT !.attempt = @ + 1]

\* A transient error: the next attempt, or the error goes to the caller.
AfterFailure ==
  IF call.attempt >= max_attempts THEN Idle ELSE [call EXCEPT !.attempt = @ + 1]

\* ... it fails with a transient error, before or after the network has
\* applied the transaction.
SubmitFails(id) ==
  /\ RpcMayFail
  /\ call.stage = "submit" /\ id \in call.ids
  /\ \/ applied' = applied \cup ({id} \ Invalid)
     \/ UNCHANGED applied
  /\ call' = AfterFailure
  /\ UNCHANGED <<cache, ledger, calls, proofs, successes, excused>>

\* get_ledger_sequence
GetSequence ==
  /\ call.stage = "sequence"
  /\ call' = [call EXCEPT !.stage = "hash", !.sequence = ledger]
  /\ UNCHANGED <<cache, ledger, applied, calls, proofs, successes, excused>>

\* Faulty variant of Put: room is made one entry too soon.
PutEarly(e) ==
  LET rest == Others(e.id)
  IN  Append(IF Len(rest) + 1 >= capacity /\ rest # <<>> THEN Tail(rest) ELSE rest, e)

\* LruCache::put: the least recently used entry makes room.
Put(e) ==
  LET rest == Others(e.id)
  IN  Append(IF Len(rest) >= capacity THEN Tail(rest) ELSE rest, e)

CachedIds(c) == {c[i].id : i \in DOMAIN c}

\* get_ledger_hash, the proof and mark_submitted.  A cache that is full may
\* forget one proof.
GetHash(id) ==
  LET e == [id |-> id, proof |-> [sequence |-> call.sequence, hash |-> ledger]]
  IN  /\ call.stage = "hash" /\ id \in call.ids
      /\ cache' = Put(e)
      /\ proofs' = proofs \cup {e}
      /\ call' = Idle
      /\ excused' = IF Len(Others(id)) < capacity THEN excused
                    ELSE excused \cup (CachedIds(cache) \ CachedIds(cache'))
      /\ UNCHANGED <<ledger, applied, calls, successes>>

\* Either query fails (or a hash cannot be decoded): the caller gets the
\* error, and nothing is remembered of the submission.
QueryFails ==
  /\ RpcMayFail
  /\ call.stage \in {"sequence", "hash"}
  /\ call' = Idle
  /\ excused' = excused \cup call.ids
  /\ UNCHANGED <<cache, ledger, applied, calls, proofs, successes>>

Step ==
  \/ \E id \in Ids : SubmitOk(id) \/ SubmitRejected(id) \/ SubmitFails(id) \/ GetHash(id)
  \/ GetSequence
  \/ QueryFails

Next ==
  \/ LedgerCloses
  \/ \E id \in Ids : ReturnCached(id) \/ Begin(id)
  \/ Step

Spec == Init /\ [][Next]_vars

\* A call is run to its end: every RPC call returns or times out.
FairSpec == Spec /\ WF_vars(Step)
-----------------------------------------------------------------------------
TypeOK ==
  /\ cache \in Seq(Entries) /\ Len(cache) <= capacity
  /\ \A i, j \in DOMAIN cache : cache[i].id = cache[j].id => i = j
  /\ ledger \in 1..MaxLedger
  /\ applied \in SUBSET Ids
  /\ call \in [stage : {"idle", "submit", "sequence", "hash"}, ids : SUBSET Ids,
               attempt : 0..max_attempts, sequence : 0..MaxLedger]
  /\ calls \in 0..MaxCalls
  /\ proofs \in SUBSET Entries
  /\ successes \in [Ids -> 0..2]
  /\ excused \in SUBSET Ids

\* A proof exists only for a transaction the network has applied, and only
\* from ledgers that had closed, however often submissions failed before.
ProvedIsApplied ==
  \A e \in proofs : e.id \in applied /\ e.proof.sequence <= e.proof.hash /\ e.proof.hash <= ledger

\* Every call of process_envelope returns: retries are bounded.
CallsReturn == call.stage # "idle" ~> call.stage = "idle"

\* The network takes a transaction a second time only when the relay has lost
\* the memory of the first: a ledger query failed after it, or a full cache
\* evicted its proof.  Answers from the cache, retries and rejected
\* submissions in between never make it forget.
ResubmittedForCause == \A id \in Ids : successes[id] >= 2 => id \in excused
=============================================================================
