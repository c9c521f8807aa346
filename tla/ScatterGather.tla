--------------------------- MODULE ScatterGather ----------------------------
(***************************************************************************)
(* One fan-out call of promclient.MultiAPI: scatterGather and its twin     *)
(* scatterMerge, which run the same protocol over typed values and over    *)
(* SeriesSets.  One goroutine per backend sends its answer into a channel  *)
(* buffered for all of them; the caller's goroutine receives in arrival    *)
(* order, counts per bucket, and returns as soon as the policy decides.    *)
(* The caller's context may end at any time, and Go's select picks freely  *)
(* between a finished context and a waiting answer.                        *)
(***************************************************************************)
EXTENDS MultiAPI, Functions

VARIABLES
  m,            \* the MultiAPI, fixed for the call
  ctxDone,      \* the caller's context has ended
  worker,       \* per backend: "calling", "answered" (call returned), "sent"
  reply,        \* per backend: how its call ended, "none" before
  own,          \* the backends whose answer carries warnings of their own
  resultChan,   \* the buffered channel, a sequence of ordinals
  received,     \* the backends whose answer the loop has taken
  outstanding,  \* fingerprint -> answers still expected
  success,      \* fingerprint -> successes
  results,      \* ordinals of the successful answers, in arrival order
  warnings,     \* the warning set returned with the outcome
  lastError,    \* kind of the last tolerated error
  outcome       \* "running", "results", or the error the call returned

envVars  == <<worker, reply, own>>
loopVars == <<received, outstanding, success, results, warnings, lastError>>
vars == <<m, ctxDone, worker, reply, own, resultChan, received, outstanding,
          success, results, warnings, lastError, outcome>>

Outcomes == {"running", "results", "ctx", "fetch"} \union BackendErrors

\* Mutant: the bucket is marked, not counted.
InitialOutstanding_marked(mm) == [b \in Buckets(mm) |-> 1]

InitialOutstanding(mm) == [b \in Buckets(mm) |-> Cardinality(BucketMembers(mm, b))]

Init ==
  /\ m \in MultiAPIs
  /\ ctxDone = FALSE
  /\ worker = [i \in Apis |-> "calling"]
  /\ reply = [i \in Apis |-> "none"]
  /\ own = {}
  /\ resultChan = <<>>
  /\ received = {}
  /\ outstanding = InitialOutstanding(m)
  /\ success = [b \in Buckets(m) |-> 0]
  /\ results = <<>>
  /\ warnings = {}
  /\ lastError = "none"
  /\ outcome = "running"

Running == outcome = "running"

(***************************************************************************)
(* The goroutine of backend i.                                             *)
(***************************************************************************)

\* The backend call returns, with or without warnings of its own.  A backend may
\* also never answer.  The child context, which ends with the caller's and when
\* the call returns, only makes a pending call return sooner: it may anyway.
CallReturns(i) ==
  /\ worker[i] = "calling"
  /\ worker' = [worker EXCEPT ![i] = "answered"]
  /\ \E r \in Replies : reply' = [reply EXCEPT ![i] = r]
  /\ \E w \in {own, own \union {i}} : own' = w
  /\ UNCHANGED <<m, ctxDone, resultChan, loopVars, outcome>>

\* Mutant: the channel has one slot less than there are senders.
ChanCap_short == N - 1

\* The channel holds one answer of every backend.
ChanCap == N

Send(i) ==
  /\ worker[i] = "answered"
  /\ Len(resultChan) < ChanCap
  /\ resultChan' = Append(resultChan, i)
  /\ worker' = [worker EXCEPT ![i] = "sent"]
  /\ UNCHANGED <<m, ctxDone, reply, own, loopVars, outcome>>

(***************************************************************************)
(* The caller's goroutine.                                                 *)
(***************************************************************************)

\* Mutant: results stay in arrival order.
sortGathered_arrival(s) == {s}

\* sort.Slice by ordinal.  It need not be stable, hence a set.
sortGathered(s) ==
  {t \in [1 .. Len(s) -> Range(s)] :
     /\ Range(t) = Range(s)
     /\ \A j, k \in 1 .. Len(s) : j < k => t[j] <= t[k]}

OwnWarnings(i) == IF i \in own THEN {<<"own", i>>} ELSE {}

\* Mutant: only an unreachable backend is reported, not a rejection.
DegradedWarnings_unavailable(i) ==
  IF m.partial /\ reply[i] = "unavailable" THEN {partialResponseErr(i, reply[i])} ELSE {}

DegradedWarnings(i) == IF m.partial THEN {partialResponseErr(i, reply[i])} ELSE {}

\* One iteration of the loop that takes an answer from the channel.
Receive ==
  /\ Running
  /\ resultChan # <<>>
  /\ LET i   == Head(resultChan)
         b   == m.fp[i]
         err == reply[i]
         left == [outstanding EXCEPT ![b] = @ - 1]
     IN
     /\ resultChan' = Tail(resultChan)
     /\ received' = received \union {i}
     /\ outstanding' = left
     /\ \/ /\ ~ IsError(err)
           /\ success' = [success EXCEPT ![b] = @ + 1]
           /\ results' = Append(results, i)
           /\ warnings' = warnings \union OwnWarnings(i)
           /\ UNCHANGED <<lastError, outcome>>
        \/ /\ IsError(err)
           /\ abortOnError(m, b, left, success)
           /\ outcome' = err
           /\ warnings' = warnings \union OwnWarnings(i)
           /\ results' = <<>>
           /\ UNCHANGED <<success, lastError>>
        \/ /\ IsError(err)
           /\ ~ abortOnError(m, b, left, success)
           /\ warnings' = warnings \union OwnWarnings(i) \union DegradedWarnings(i)
           /\ lastError' = err
           /\ UNCHANGED <<success, results, outcome>>
  /\ UNCHANGED <<m, ctxDone, envVars>>

\* Cancelled, but partial response keeps what already succeeded.
KeepGathered == m.partial /\ results # <<>>

\* Mutant: the loop waits for answers only.
CtxSelected_never == FALSE

\* The case <-ctx.Done() of the select is ready.
CtxSelected == ctxDone

\* One iteration of the loop that notices the end of the caller's context.
ReturnOnCtxDone ==
  /\ Running
  /\ Cardinality(received) < N
  /\ CtxSelected
  /\ \/ /\ KeepGathered
        /\ warnings' = warnings \union {<<"cancelled", Len(results)>>}
        /\ results' \in sortGathered(results)
        /\ outcome' = "results"
     \/ /\ ~ KeepGathered
        /\ results' = <<>>
        /\ outcome' = "ctx"
        /\ UNCHANGED warnings
  /\ UNCHANGED <<m, ctxDone, envVars, resultChan, received, outstanding, success,
                 lastError>>

\* The loop has run once per backend.
Finish ==
  /\ Running
  /\ Cardinality(received) = N
  /\ \/ /\ missingRequired(m, success)
        /\ results' = <<>>
        /\ outcome' = fetchError(lastError)
     \/ /\ ~ missingRequired(m, success)
        /\ results' \in sortGathered(results)
        /\ outcome' = "results"
  /\ UNCHANGED <<m, ctxDone, envVars, resultChan, received, outstanding, success,
                 warnings, lastError>>

Gather == Receive \/ ReturnOnCtxDone \/ Finish

\* The caller's context ends: query deadline, client gone.
CallerDone ==
  /\ ~ ctxDone
  /\ ctxDone' = TRUE
  /\ UNCHANGED <<m, envVars, resultChan, loopVars, outcome>>

\* The call has returned and no goroutine of it is left.
AllDone == ~ Running /\ \A i \in Apis : worker[i] = "sent"
Done == AllDone /\ UNCHANGED vars

Next ==
  \/ \E i \in Apis : CallReturns(i) \/ Send(i)
  \/ Gather
  \/ CallerDone
  \/ Done

\* Goroutines are scheduled and every query has a deadline.  No backend is assumed
\* to answer, not even after its context has ended.
Fairness ==
  /\ WF_vars(Gather)
  /\ WF_vars(CallerDone)
  /\ \A i \in Apis : WF_vars(Send(i))

Spec == Init /\ [][Next]_vars
FairSpec == Spec /\ Fairness

-----------------------------------------------------------------------------
(***************************************************************************)
(* Properties.                                                             *)
(***************************************************************************)

WarningTokens ==
  ({"own"} \union BackendErrors) \X Apis \union {"cancelled"} \X Nat

\* Type correctness of a fan-out call; in particular no bucket's count of
\* outstanding answers ever goes below zero.
TypeOK ==
  /\ m \in MultiAPIs
  /\ ctxDone \in BOOLEAN
  /\ worker \in [Apis -> {"calling", "answered", "sent"}]
  /\ reply \in [Apis -> Replies \union {"none"}]
  /\ own \in SUBSET Apis
  /\ resultChan \in Seq(Apis)
  /\ received \in SUBSET Apis
  /\ outstanding \in [Buckets(m) -> Nat]
  /\ success \in [Buckets(m) -> Nat]
  /\ results \in Seq(Apis)
  /\ warnings \in SUBSET WarningTokens
  /\ lastError \in BackendErrors \union {"none"}
  /\ outcome \in Outcomes

\* The sets of backends the counters count.
Ok == {i \in Apis : reply[i] = "ok"}
Failed == {i \in Apis : reply[i] \in BackendErrors}

\* A call that is not partial never returns data from fewer than requiredCount
\* backends of any bucket: of every HA bucket of a server group one replica, of
\* every server group of a strict cross-group query.
StrictComplete ==
  (outcome = "results" /\ ~ m.partial) =>
    \A b \in Buckets(m) :
      Cardinality(BucketMembers(m, b) \cap Range(results) \cap Ok) >= m.required

\* A partial call is never silently partial: every backend missing from the
\* returned data has a warning of its own, or the result says that the call was
\* cut short and with how many backends.
PartialAccounted ==
  (outcome = "results" /\ m.partial) =>
    \A i \in Apis \ Range(results) :
      \/ i \in received /\ partialResponseErr(i, reply[i]) \in warnings
      \/ <<"cancelled", Len(results)>> \in warnings

\* What is returned does not depend on which backend was fastest: a strict
\* cross-group query returns data only when every server group answered (what
\* cross_group_partial_response: false documents), and a call that heard every
\* backend returns all the successes, by ascending ordinal.
AnswersComplete ==
  /\ (outcome = "results" /\ m \in NewCrossGroupMultiAPI(FALSE)) => Range(results) = Apis
  /\ (outcome = "results" /\ received = Apis) =>
       /\ Range(results) = Ok
       /\ \A j, k \in 1 .. Len(results) : j < k => results[j] < results[k]

\* No call over at least one backend ends with neither data nor an error.
NoSilentEmpty == (outcome = "results" /\ Apis # {}) => results # <<>>

\* With a deadline every call returns, even when backends never answer.
CallTerminates == <>(~ Running)

\* No goroutine of a call is left behind with an answer: also after an early
\* return a worker whose backend call ended gets rid of it and ends.
WorkersTerminate ==
  \A i \in Apis : (worker[i] = "answered") ~> (worker[i] = "sent")

\* The comment of scatterGather: when the context ends after at least one backend
\* has already answered, partial response does not discard everything with
\* ctx.Err().  (Refuted: an answer that waits in the channel is discarded.)
AnsweredBeforeCancelKept ==
  []((/\ m.partial /\ Running /\ ~ ctxDone
      /\ \E i \in Apis : worker[i] = "sent" /\ reply[i] = "ok")
     => [](outcome # "ctx"))

(***************************************************************************)
(* The inductive invariant of the call: the counters are the sizes of the  *)
(* sets they stand for, the channel holds answers that were sent and not   *)
(* yet taken, and the results are the successes taken.                     *)
(***************************************************************************)
CountersExact ==
  \A b \in Buckets(m) :
    /\ outstanding[b] = Cardinality(BucketMembers(m, b) \ received)
    /\ success[b] = Cardinality(BucketMembers(m, b) \cap received \cap Ok)

ChanFresh ==
  /\ \A k \in 1 .. Len(resultChan) :
       worker[resultChan[k]] = "sent" /\ resultChan[k] \notin received
  /\ \A j, k \in 1 .. Len(resultChan) :
       resultChan[j] = resultChan[k] => j = k
  /\ \A i \in received : worker[i] = "sent"
  /\ \A i \in Apis : worker[i] = "calling" <=> reply[i] = "none"

ResultsExact ==
  /\ Running => Range(results) = received \cap Ok
  /\ Running /\ lastError = "none" => received \subseteq Ok
  /\ (outcome = "results" /\ Apis # {}) =>
       /\ Range(results) = received \cap Ok
       /\ ~ missingRequired(m, success)
       /\ received = Apis \/ (m.partial /\ <<"cancelled", Len(results)>> \in warnings)

DegradedReported ==
  (m.partial /\ outcome \in {"running", "results"}) =>
    \A i \in received \ Ok : partialResponseErr(i, reply[i]) \in warnings

\* The strengthening from which the safety properties follow.
IInv == TypeOK /\ CountersExact /\ ChanFresh /\ ResultsExact /\ DegradedReported

(***************************************************************************)
(* The contract the call implements: FanOutContract hears the backends one *)
(* by one and decides from the answers heard, without channel or counters. *)
(***************************************************************************)
Contract == INSTANCE FanOutContract WITH
  answer <- [i \in Apis |-> IF i \in received THEN reply[i] ELSE "none"],
  value  <- IF Running THEN {} ELSE Range(results)

\* The fan-out implements its contract.
ImplementsContract == Contract!Spec
=============================================================================
