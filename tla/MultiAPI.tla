------------------------------ MODULE MultiAPI ------------------------------
(***************************************************************************)
(* The fan-out policy of promclient.MultiAPI: which backends share a       *)
(* fingerprint bucket, how many of a bucket must answer, and what a        *)
(* failure means.  FanOutContract and ScatterGather extend this module.    *)
(*                                                                         *)
(* A MultiAPI is the record                                                *)
(*   fp       the bucket of each api (apiFingerprints),                    *)
(*   required requiredCount,                                               *)
(*   partial  partialResponse.                                             *)
(* Backends are 0 .. N-1, the ordinals of the slice m.apis.                *)
(***************************************************************************)
EXTENDS Integers, Sequences, FiniteSets

CONSTANTS
  N,         \* len(m.apis)
  MultiAPIs  \* the MultiAPI values the constructors below may have built

Apis == 0 .. N - 1

\* The kinds of error a backend call ends with, after NormalizePromError:
\* the backend rejected the query itself, or it could not be reached.
BackendErrors == {"rejected", "unavailable"}
Replies == {"ok"} \union BackendErrors

\* Mutant: a rejected query is taken for an answer.
IsError_unavailable(r) == r = "unavailable"

\* err != nil, after NormalizePromError
IsError(r) == r \in BackendErrors

BucketMembers(m, b) == {i \in Apis : m.fp[i] = b}
Buckets(m) == {m.fp[i] : i \in Apis}

(***************************************************************************)
(* What the constructors produce.  NewMultiAPI refuses a bucket smaller    *)
(* than requiredCount; the cross-group constructor calls it with           *)
(* requiredCount 1 and then isolates the fingerprints.                     *)
(***************************************************************************)
NewMultiAPI(fp, required) ==
  {m \in {[fp |-> fp, required |-> required, partial |-> FALSE]} :
     \A b \in Buckets(m) : Cardinality(BucketMembers(m, b)) >= required}

isolateFingerprints(m) == [m EXCEPT !.fp = [i \in Apis |-> i + 1]]

\* Without labels every api has the zero fingerprint.
ZeroFingerprints == [i \in Apis |-> 0]

NewCrossGroupMultiAPI(partialResponse) ==
  {[isolateFingerprints(m) EXCEPT !.partial = partialResponse] :
     m \in NewMultiAPI(ZeroFingerprints, 1)}

ASSUME NAssumption == N \in Nat
\* Shape of a MultiAPI, and what every constructor of the code guarantees: no
\* bucket is smaller than requiredCount, and requiredCount is not zero (a server
\* group passes 1, the groups without dedup their number).
ASSUME MultiAPIsAssumption ==
  /\ MultiAPIs \subseteq [fp : [Apis -> Nat], required : Nat, partial : BOOLEAN]
  /\ \A m \in MultiAPIs :
       /\ Apis # {} => m.required > 0
       /\ \A b \in Buckets(m) : Cardinality(BucketMembers(m, b)) >= m.required

(***************************************************************************)
(* The policy.  The maps are functions on the buckets; a bucket a Go map   *)
(* has no key for counts as zero, so len(success) = 0 is "all zero".       *)
(***************************************************************************)
\* Mutant: partial response does not suppress the early abort.
abortOnError_partial(m, b, outstanding, success) ==
  outstanding[b] + success[b] < m.required

abortOnError(m, b, outstanding, success) ==
  /\ ~ m.partial
  /\ outstanding[b] + success[b] < m.required

\* Mutant: partial response accepts a fan-out nobody answered.
missingRequired_none(m, success) ==
  /\ ~ m.partial
  /\ \E b \in Buckets(m) : success[b] < m.required

missingRequired(m, success) ==
  IF m.partial
    THEN \A b \in Buckets(m) : success[b] = 0
    ELSE \E b \in Buckets(m) : success[b] < m.required

\* What a fan-out that came back empty returns.  A rejection is passed on as it
\* is; errors.Wrap(nil, ...) is nil, so without an error the call would return
\* no results and no error.
fetchError(err) ==
  CASE err = "unavailable" -> "fetch"
    [] err = "rejected"    -> "rejected"
    [] err = "none"        -> "results"

\* The degradation warning of backend i, worded by the kind of its failure.
partialResponseErr(i, err) == <<err, i>>

=============================================================================
