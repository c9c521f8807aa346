------------------------- MODULE ScatterGatherProofs ------------------------
(***************************************************************************)
(* The fan-out call, proved for every number of backends and every         *)
(* MultiAPI the constructors can build.                                    *)
(***************************************************************************)
EXTENDS ScatterGather, FiniteSetTheorems, TLAPS

\* The backends are a finite set, and so is every bucket of them.
LEMMA ApisFinite ==
  /\ IsFiniteSet(Apis)
  /\ Cardinality(Apis) = N
  /\ \A S \in SUBSET Apis : IsFiniteSet(S) /\ Cardinality(S) \in Nat
<1>1. IsFiniteSet(Apis) /\ Cardinality(Apis) = N
  BY FS_Interval, NAssumption DEF Apis
<1>2. QED
  BY <1>1, FS_Subset, FS_CardinalityType

\* Buckets of a MultiAPI and their members.
LEMMA BucketFacts ==
  ASSUME NEW mm \in MultiAPIs
  PROVE  /\ mm.fp \in [Apis -> Nat] /\ mm.required \in Nat /\ mm.partial \in BOOLEAN
         /\ \A b : BucketMembers(mm, b) \in SUBSET Apis
         /\ \A i \in Apis : mm.fp[i] \in Buckets(mm)
         /\ \A i \in Apis, b \in Buckets(mm) : i \in BucketMembers(mm, b) <=> mm.fp[i] = b
BY MultiAPIsAssumption DEF BucketMembers, Buckets

\* Adding an element to, or taking one from, a set of backends.
LEMMA CountStep ==
  ASSUME NEW S \in SUBSET Apis, NEW i \in Apis
  PROVE  /\ i \notin S => Cardinality(S \union {i}) = Cardinality(S) + 1
         /\ i \in S => Cardinality(S \ {i}) = Cardinality(S) - 1
         /\ i \in S => Cardinality(S) > 0
<1>1. IsFiniteSet(S) /\ Cardinality(S) \in Nat
  BY ApisFinite
<1>2. i \notin S => Cardinality(S \union {i}) = Cardinality(S) + 1
  BY <1>1, FS_AddElement
<1>3. i \in S => Cardinality(S \ {i}) = Cardinality(S) - 1
  BY <1>1, FS_RemoveElement
<1>4. i \in S => Cardinality(S) > 0
  BY <1>1, FS_EmptySet
<1>5. QED
  BY <1>2, <1>3, <1>4

\* A bucket is empty of S exactly when the count is zero.
LEMMA CountZero ==
  ASSUME NEW S \in SUBSET Apis
  PROVE  Cardinality(S) = 0 <=> S = {}
BY ApisFinite, FS_EmptySet

\* Every value sortGathered may return is a sequence with the same elements.
LEMMA SortedFacts ==
  ASSUME NEW s \in Seq(Apis), NEW t \in sortGathered(s)
  PROVE  t \in Seq(Apis) /\ Range(t) = Range(s) /\ Len(t) = Len(s)
<1>1. Range(s) \subseteq Apis /\ Len(s) \in Nat /\ DOMAIN s = 1 .. Len(s)
  BY DEF Range
<1>2. t \in [1 .. Len(s) -> Range(s)] /\ Range(t) = Range(s)
  BY DEF sortGathered
<1>3. t \in [1 .. Len(s) -> Apis]
  BY <1>1, <1>2
<1>4. QED
  BY <1>1, <1>2, <1>3

\* The invariant holds when the call starts.
LEMMA InitIInv == Init => IInv
<1> SUFFICES ASSUME Init PROVE IInv
  OBVIOUS
<1>1. m \in MultiAPIs
  BY DEF Init
<1>2. \A b \in Buckets(m) :
        /\ Cardinality(BucketMembers(m, b)) \in Nat
        /\ BucketMembers(m, b) \ {} = BucketMembers(m, b)
        /\ Cardinality(BucketMembers(m, b) \cap {} \cap Ok) = 0
  BY <1>1, BucketFacts, ApisFinite, FS_EmptySet
<1>3. TypeOK
  <2>1. outstanding \in [Buckets(m) -> Nat]
    BY <1>2 DEF Init, InitialOutstanding
  <2>2. success \in [Buckets(m) -> Nat]
    BY DEF Init
  <2>3. resultChan \in Seq(Apis) /\ results \in Seq(Apis)
    BY DEF Init
  <2>4. QED
    BY <1>1, <2>1, <2>2, <2>3 DEF Init, TypeOK, Outcomes, Replies
<1>4. CountersExact
  BY <1>2 DEF Init, InitialOutstanding, CountersExact
<1>5. ChanFresh
  BY DEF Init, ChanFresh
<1>6. ResultsExact
  BY DEF Init, ResultsExact, Range, Running
<1>7. DegradedReported
  BY DEF Init, DegradedReported
<1>8. QED
  BY <1>3, <1>4, <1>5, <1>6, <1>7 DEF IInv

\* A backend call that returns leaves the loop's bookkeeping exact: the backend
\* has not been received yet.
LEMMA CallReturnsIInv ==
  ASSUME IInv, NEW i \in Apis, CallReturns(i)
  PROVE  IInv'
<1> USE DEF IInv
<1>1. i \notin received /\ \A k \in 1 .. Len(resultChan) : resultChan[k] # i
  BY DEF CallReturns, ChanFresh
<1>2. received \cap Ok' = received \cap Ok /\ received \ Ok' = received \ Ok
  BY <1>1 DEF CallReturns, Ok, TypeOK
<1>3. \A j \in Apis : j # i => reply'[j] = reply[j] /\ worker'[j] = worker[j]
  BY DEF CallReturns, TypeOK
<1>4. TypeOK'
  BY DEF CallReturns, TypeOK, loopVars
<1>5. CountersExact'
  <2>1. \A b : BucketMembers(m, b) \cap received \cap Ok' = BucketMembers(m, b) \cap received \cap Ok
    BY <1>2
  <2>2. QED
    BY <2>1 DEF CallReturns, CountersExact, loopVars
<1>6. ChanFresh'
  <2>1. worker'[i] = "answered" /\ reply'[i] # "none"
    BY DEF CallReturns, TypeOK, Replies, BackendErrors
  <2>2. resultChan \in Seq(Apis) /\ received \subseteq Apis
    BY DEF TypeOK
  <2>3. QED
    BY <1>1, <1>3, <2>1, <2>2 DEF CallReturns, ChanFresh, loopVars
<1>7. ResultsExact'
  BY <1>2 DEF CallReturns, ResultsExact, loopVars, Running, Ok
<1>8. DegradedReported'
  <2>1. \A j \in received : reply'[j] = reply[j]
    BY <1>1, <1>3 DEF TypeOK
  <2>2. QED
    BY <1>2, <2>1 DEF CallReturns, DegradedReported, loopVars, partialResponseErr
<1>9. QED
  BY <1>4, <1>5, <1>6, <1>7, <1>8

\* A sent answer is new to the channel.
LEMMA SendIInv ==
  ASSUME IInv, NEW i \in Apis, Send(i)
  PROVE  IInv'
<1> USE DEF IInv
<1>1. i \notin received /\ \A k \in 1 .. Len(resultChan) : resultChan[k] # i
  BY DEF Send, ChanFresh
<1>2. TypeOK'
  BY DEF Send, TypeOK, loopVars
<1>3. CountersExact' /\ ResultsExact' /\ DegradedReported'
  BY DEF Send, CountersExact, ResultsExact, DegradedReported, loopVars, Running, Ok
<1>4. ChanFresh'
  <2>1. \A j \in Apis : j # i => worker'[j] = worker[j]
    BY DEF Send, TypeOK
  <2>2. worker'[i] = "sent" /\ worker[i] = "answered"
    BY DEF Send, TypeOK
  <2>3. /\ resultChan \in Seq(Apis) /\ resultChan' = Append(resultChan, i)
        /\ UNCHANGED <<received, reply>>
    BY DEF Send, TypeOK, loopVars
  <2>4. /\ Len(resultChan') = Len(resultChan) + 1 /\ Len(resultChan) \in Nat
        /\ resultChan'[Len(resultChan) + 1] = i
        /\ \A k \in 1 .. Len(resultChan) :
             resultChan'[k] = resultChan[k] /\ resultChan[k] \in Apis
    BY <2>3
  <2>5. /\ \A k \in 1 .. Len(resultChan') :
             worker'[resultChan'[k]] = "sent" /\ resultChan'[k] \notin received
        /\ \A j, k \in 1 .. Len(resultChan') : resultChan'[j] = resultChan'[k] => j = k
    BY SMTT(60), <1>1, <2>1, <2>2, <2>4 DEF ChanFresh
  <2>6. /\ \A j \in received : worker'[j] = "sent"
        /\ \A j \in Apis : worker'[j] = "calling" <=> reply[j] = "none"
    BY <1>1, <2>1, <2>2 DEF ChanFresh, TypeOK
  <2>7. QED
    BY <2>3, <2>5, <2>6 DEF ChanFresh
<1>5. QED
  BY <1>2, <1>3, <1>4

\* Taking an answer from the channel keeps every counter the size of its set.
LEMMA ReceiveIInv ==
  ASSUME IInv, Receive
  PROVE  IInv'
<1> USE DEF IInv
<1> DEFINE i == Head(resultChan)
<1> DEFINE b == m.fp[i]
<1>1. /\ i \in Apis /\ i = resultChan[1] /\ 1 \in 1 .. Len(resultChan)
      /\ resultChan' = Tail(resultChan) /\ received' = received \union {i}
      /\ outstanding' = [outstanding EXCEPT ![b] = @ - 1]
      /\ UNCHANGED <<m, ctxDone, worker, reply, own>> /\ m \in MultiAPIs
      /\ received \in SUBSET Apis /\ resultChan \in Seq(Apis) /\ Running
  BY DEF Receive, TypeOK, envVars
<1>2. i \notin received /\ worker[i] = "sent" /\ reply[i] \in Replies
  BY <1>1 DEF ChanFresh, TypeOK
<1>3. /\ b \in Buckets(m) /\ i \in BucketMembers(m, b)
      /\ \A c \in Buckets(m) : BucketMembers(m, c) \in SUBSET Apis
      /\ \A c \in Buckets(m) : i \in BucketMembers(m, c) => c = b
  BY <1>1, BucketFacts
<1>4. /\ outstanding' \in [Buckets(m) -> Nat]
      /\ \A c \in Buckets(m) : outstanding'[c] = Cardinality(BucketMembers(m, c) \ received')
  <2>1. \A c \in Buckets(m) : c # b =>
          BucketMembers(m, c) \ received' = BucketMembers(m, c) \ received
    BY <1>1, <1>3
  <2>2. BucketMembers(m, b) \ received' = (BucketMembers(m, b) \ received) \ {i}
    BY <1>1
  <2>3. /\ Cardinality((BucketMembers(m, b) \ received) \ {i})
             = Cardinality(BucketMembers(m, b) \ received) - 1
        /\ Cardinality(BucketMembers(m, b) \ received) > 0
    <3>1. BucketMembers(m, b) \ received \in SUBSET Apis /\ i \in BucketMembers(m, b) \ received
      BY <1>2, <1>3
    <3>2. QED
      BY <1>1, <3>1, CountStep
  <2>4. outstanding \in [Buckets(m) -> Nat]
        /\ \A c \in Buckets(m) : outstanding[c] = Cardinality(BucketMembers(m, c) \ received)
    BY DEF TypeOK, CountersExact
  <2>5. /\ outstanding'[b] = outstanding[b] - 1
        /\ \A c \in Buckets(m) : c # b => outstanding'[c] = outstanding[c]
        /\ DOMAIN outstanding' = Buckets(m)
    BY <1>1, <1>3, <2>4
  <2>6. outstanding[b] - 1 \in Nat
    BY <1>3, <2>3, <2>4
  <2>7. outstanding' \in [Buckets(m) -> Nat]
    BY <1>1, <1>3, <2>4, <2>6
  <2>8. \A c \in Buckets(m) : outstanding'[c] = Cardinality(BucketMembers(m, c) \ received')
    <3>1. outstanding'[b] = Cardinality(BucketMembers(m, b) \ received')
      BY <1>3, <2>2, <2>3, <2>4, <2>5
    <3>2. QED
      BY <2>1, <2>4, <2>5, <3>1
  <2>9. QED
    BY <2>7, <2>8
<1>5. ChanFresh'
  <2>1. /\ Len(resultChan') = Len(resultChan) - 1 /\ Len(resultChan) \in Nat
        /\ \A k \in 1 .. Len(resultChan') :
             k + 1 \in 1 .. Len(resultChan) /\ resultChan'[k] = resultChan[k + 1]
    BY <1>1
  <2>2. /\ \A k \in 1 .. Len(resultChan') :
             worker[resultChan'[k]] = "sent" /\ resultChan'[k] \notin received'
        /\ \A j, k \in 1 .. Len(resultChan') : resultChan'[j] = resultChan'[k] => j = k
    BY <1>1, <2>1 DEF ChanFresh
  <2>3. QED
    BY <1>1, <1>2, <2>2 DEF ChanFresh
<1>6. Ok' = Ok /\ (i \in Ok <=> ~ IsError(reply[i]))
  BY <1>1, <1>2 DEF Ok, IsError, Replies, BackendErrors
<1>7. CASE ~ IsError(reply[i])
  <2>1. /\ success' = [success EXCEPT ![b] = @ + 1]
        /\ results' = Append(results, i)
        /\ warnings' = warnings \union OwnWarnings(i)
        /\ UNCHANGED <<lastError, outcome>>
    BY <1>7 DEF Receive
  <2>2. /\ success' \in [Buckets(m) -> Nat]
        /\ \A c \in Buckets(m) :
             success'[c] = Cardinality(BucketMembers(m, c) \cap received' \cap Ok')
    <3>1. \A c \in Buckets(m) : c # b =>
            BucketMembers(m, c) \cap received' \cap Ok' = BucketMembers(m, c) \cap received \cap Ok
      BY <1>1, <1>3, <1>6
    <3>2. BucketMembers(m, b) \cap received' \cap Ok'
            = (BucketMembers(m, b) \cap received \cap Ok) \union {i}
      BY <1>1, <1>3, <1>6, <1>7
    <3>3. Cardinality((BucketMembers(m, b) \cap received \cap Ok) \union {i})
            = Cardinality(BucketMembers(m, b) \cap received \cap Ok) + 1
      <4>1. /\ BucketMembers(m, b) \cap received \cap Ok \in SUBSET Apis
            /\ i \notin BucketMembers(m, b) \cap received \cap Ok
        BY <1>2, <1>3
      <4>2. QED
        BY <1>1, <4>1, CountStep
    <3>4. success \in [Buckets(m) -> Nat]
          /\ \A c \in Buckets(m) :
               success[c] = Cardinality(BucketMembers(m, c) \cap received \cap Ok)
      BY DEF TypeOK, CountersExact
    <3>5. /\ success'[b] = success[b] + 1
          /\ \A c \in Buckets(m) : c # b => success'[c] = success[c]
          /\ success' \in [Buckets(m) -> Nat]
      BY <1>3, <2>1, <3>4
    <3>6. success'[b] = Cardinality(BucketMembers(m, b) \cap received' \cap Ok')
      BY <1>3, <3>2, <3>3, <3>4, <3>5
    <3>7. QED
      BY <3>1, <3>4, <3>5, <3>6
  <2>3. TypeOK'
    <3>1. OwnWarnings(i) \subseteq WarningTokens
      BY <1>1 DEF OwnWarnings, WarningTokens
    <3>2. results' \in Seq(Apis) /\ resultChan' \in Seq(Apis)
      BY <1>1, <2>1 DEF TypeOK
    <3>3. QED
      BY <1>1, <1>4, <2>1, <2>2, <3>1, <3>2 DEF TypeOK
  <2>4. CountersExact'
    BY <1>1, <1>4, <2>2 DEF CountersExact
  <2>5. ResultsExact'
    <3>1. Range(results') = Range(results) \union {i}
      <4>1. results \in Seq(Apis) /\ results' = Append(results, i)
        BY <2>1 DEF TypeOK
      <4>2. /\ DOMAIN results' = 1 .. Len(results) + 1 /\ DOMAIN results = 1 .. Len(results)
            /\ results'[Len(results) + 1] = i /\ Len(results) \in Nat
            /\ \A k \in 1 .. Len(results) : results'[k] = results[k]
        BY <1>1, <4>1
      <4>3. QED
        BY <4>2 DEF Range
    <3>2. received' \cap Ok' = (received \cap Ok) \union {i}
      BY <1>1, <1>6, <1>7
    <3>3. QED
      BY <1>1, <1>6, <1>7, <2>1, <3>1, <3>2 DEF ResultsExact, Running
  <2>6. DegradedReported'
    BY <1>1, <1>6, <1>7, <2>1 DEF DegradedReported, partialResponseErr
  <2>7. QED
    BY <1>5, <2>3, <2>4, <2>5, <2>6
<1>8. CASE IsError(reply[i])
  <2> DEFINE left == [outstanding EXCEPT ![b] = @ - 1]
  <2>1. success' = success
    BY <1>8 DEF Receive
  <2>2. \/ /\ abortOnError(m, b, left, success)
           /\ outcome' = reply[i] /\ results' = <<>> /\ lastError' = lastError
           /\ warnings' = warnings \union OwnWarnings(i)
        \/ /\ UNCHANGED <<results, outcome>> /\ lastError' = reply[i]
           /\ warnings' = warnings \union OwnWarnings(i) \union DegradedWarnings(i)
    BY <1>8 DEF Receive
  <2>3. \A c \in Buckets(m) : BucketMembers(m, c) \cap received' \cap Ok'
                               = BucketMembers(m, c) \cap received \cap Ok
    BY <1>1, <1>6, <1>8
  <2>4. reply[i] \in BackendErrors
    BY <1>8 DEF IsError
  <2>5. TypeOK'
    <3>1. OwnWarnings(i) \subseteq WarningTokens /\ DegradedWarnings(i) \subseteq WarningTokens
      BY <1>1, <2>4 DEF OwnWarnings, DegradedWarnings, partialResponseErr, WarningTokens
    <3>2. results' \in Seq(Apis) /\ resultChan' \in Seq(Apis)
      <4>1. resultChan' \in Seq(Apis)
        BY <1>1
      <4>2. results' = <<>> \/ results' = results
        BY <2>2
      <4>3. results \in Seq(Apis) /\ <<>> \in Seq(Apis)
        BY DEF TypeOK
      <4>4. QED
        BY <4>1, <4>2, <4>3
    <3>3. outcome' \in Outcomes /\ lastError' \in BackendErrors \union {"none"}
      BY <2>2, <2>4 DEF TypeOK, Outcomes
    <3>4. warnings' \in SUBSET WarningTokens
      BY <2>2, <3>1 DEF TypeOK
    <3>5. QED
      BY <1>1, <1>4, <2>1, <3>2, <3>3, <3>4 DEF TypeOK
  <2>6. CountersExact'
    BY <1>1, <1>4, <2>1, <2>3 DEF CountersExact
  <2>7. ResultsExact'
    <3>1. received' \cap Ok' = received \cap Ok
      BY <1>1, <1>6, <1>8
    <3>2. outcome' # "results"
      BY <1>1, <2>2, <2>4 DEF Running, BackendErrors
    <3>3. Running' => UNCHANGED results /\ lastError' # "none"
      BY <2>2, <2>4 DEF Running, BackendErrors
    <3>4. QED
      BY <1>1, <3>1, <3>2, <3>3 DEF ResultsExact, Running
  <2>8. DegradedReported'
    <3>1. m.partial => ~ abortOnError(m, b, left, success)
      BY DEF abortOnError
    <3>2. m.partial => partialResponseErr(i, reply[i]) \in warnings'
      BY <2>2, <3>1 DEF DegradedWarnings
    <3>3. warnings \subseteq warnings'
      BY <2>2
    <3>4. QED
      BY <1>1, <1>6, <3>2, <3>3 DEF DegradedReported, partialResponseErr, Running
  <2>9. QED
    BY <1>5, <2>5, <2>6, <2>7, <2>8
<1>9. QED
  BY <1>7, <1>8

\* A success taken from the channel shows in the counter of its bucket.
LEMMA SomeSuccess ==
  ASSUME IInv, NEW i \in received \cap Ok
  PROVE  success[m.fp[i]] > 0 /\ m.fp[i] \in Buckets(m)
<1> DEFINE b == m.fp[i]
<1> DEFINE S == BucketMembers(m, b) \cap received \cap Ok
<1>1. m \in MultiAPIs /\ i \in Apis
  BY DEF IInv, TypeOK
<1>2. b \in Buckets(m) /\ i \in BucketMembers(m, b) /\ BucketMembers(m, b) \in SUBSET Apis
  BY <1>1, BucketFacts
<1>3. S \in SUBSET Apis /\ i \in S
  BY <1>2
<1>4. Cardinality(S) > 0
  BY <1>1, <1>3, CountStep
<1>5. QED
  BY <1>2, <1>4 DEF IInv, CountersExact

\* The end of the context: partial response returns exactly what was gathered.
LEMMA CtxDoneIInv ==
  ASSUME IInv, ReturnOnCtxDone
  PROVE  IInv'
<1> USE DEF IInv
<1>1. /\ UNCHANGED <<m, ctxDone, worker, reply, own, resultChan, received, outstanding,
                      success, lastError>>
      /\ Running /\ results \in Seq(Apis) /\ <<>> \in Seq(Apis)
  BY DEF ReturnOnCtxDone, envVars, TypeOK
<1>2. CountersExact' /\ ChanFresh'
  BY ZenonT(60), <1>1 DEF CountersExact, ChanFresh, Ok
<1>3. CASE KeepGathered
  <2>1. /\ results' \in sortGathered(results) /\ outcome' = "results"
        /\ warnings' = warnings \union {<<"cancelled", Len(results)>>}
    BY <1>3 DEF ReturnOnCtxDone
  <2>2. /\ results' \in Seq(Apis) /\ Range(results') = Range(results)
        /\ Len(results') = Len(results) /\ Len(results) \in Nat
    BY <1>1, <2>1, SortedFacts
  <2>3. TypeOK'
    <3>1. <<"cancelled", Len(results)>> \in WarningTokens
      BY <2>2 DEF WarningTokens
    <3>2. QED
      BY <1>1, <2>1, <2>2, <3>1 DEF TypeOK, Outcomes
  <2>4. ResultsExact'
    <3>1. results # <<>> /\ m.partial
      BY <1>3 DEF KeepGathered
    <3>2. PICK i \in received \cap Ok : TRUE
      <4>1. results[1] \in Range(results)
        BY <1>1, <3>1 DEF Range
      <4>2. QED
        BY <1>1, <4>1 DEF ResultsExact
    <3>3. success[m.fp[i]] > 0 /\ m.fp[i] \in Buckets(m)
      BY <3>2, SomeSuccess
    <3>4. ~ missingRequired(m, success)
      BY <3>1, <3>3 DEF missingRequired, TypeOK
    <3>5. missingRequired(m, success)' <=> missingRequired(m, success)
      BY <1>1 DEF missingRequired, Buckets
    <3>6. Ok' = Ok /\ Range(results) = received \cap Ok
      BY <1>1 DEF Ok, ResultsExact
    <3>7. QED
      BY <1>1, <2>1, <2>2, <3>1, <3>4, <3>5, <3>6 DEF ResultsExact, Running
  <2>5. DegradedReported'
    BY <1>1, <2>1 DEF DegradedReported, Ok, Running
  <2>6. QED
    BY <1>2, <2>3, <2>4, <2>5
<1>4. CASE ~ KeepGathered
  <2>1. results' = <<>> /\ outcome' = "ctx" /\ warnings' = warnings
    BY <1>4 DEF ReturnOnCtxDone
  <2>2. TypeOK'
    BY <1>1, <2>1 DEF TypeOK, Outcomes
  <2>3. ResultsExact' /\ DegradedReported'
    BY <2>1 DEF ResultsExact, DegradedReported, Running
  <2>4. QED
    BY <1>2, <2>2, <2>3
<1>5. QED
  BY <1>3, <1>4

\* After one iteration per backend every backend has been received, and an empty
\* answer comes with an error.
LEMMA FinishIInv ==
  ASSUME IInv, Finish
  PROVE  IInv'
<1> USE DEF IInv
<1>1. /\ UNCHANGED <<m, ctxDone, worker, reply, own, resultChan, received, outstanding,
                      success, lastError, warnings>>
      /\ Running /\ results \in Seq(Apis) /\ <<>> \in Seq(Apis) /\ m \in MultiAPIs
      /\ lastError \in BackendErrors \union {"none"}
  BY DEF Finish, envVars, TypeOK
<1>2. CountersExact' /\ ChanFresh'
  BY ZenonT(60), <1>1 DEF CountersExact, ChanFresh, Ok
<1>3. received = Apis
  <2>1. received \in SUBSET Apis /\ Cardinality(received) = N
    BY DEF Finish, TypeOK
  <2>2. QED
    BY <2>1, ApisFinite, FS_Subset
<1>4. CASE missingRequired(m, success)
  <2>1. results' = <<>> /\ outcome' = fetchError(lastError)
    BY <1>4 DEF Finish
  <2>2. outcome' \in {"results", "fetch", "rejected"}
        /\ (outcome' = "results" => lastError = "none")
    BY <1>1, <2>1 DEF fetchError, BackendErrors
  <2>3. (lastError = "none" /\ Apis # {}) => FALSE
    <3> SUFFICES ASSUME lastError = "none", Apis # {} PROVE FALSE
      OBVIOUS
    <3>1. \A b \in Buckets(m) : BucketMembers(m, b) \cap received \cap Ok = BucketMembers(m, b)
      BY <1>1, <1>3, BucketFacts DEF ResultsExact
    <3>2. \A b \in Buckets(m) : success[b] >= m.required
      BY <1>1, <3>1, MultiAPIsAssumption DEF CountersExact
    <3>3. PICK i \in received \cap Ok : TRUE
      BY <1>1, <1>3 DEF ResultsExact
    <3>4. success[m.fp[i]] > 0 /\ m.fp[i] \in Buckets(m)
      BY <3>3, SomeSuccess
    <3>5. m.required \in Nat /\ success \in [Buckets(m) -> Nat]
      BY <1>1, BucketFacts DEF TypeOK
    <3>6. QED
      BY <1>4, <3>2, <3>4, <3>5 DEF missingRequired
  <2>4. TypeOK'
    BY <1>1, <2>1, <2>2 DEF TypeOK, Outcomes, BackendErrors
  <2>5. ResultsExact'
    BY <1>1, <2>2, <2>3 DEF ResultsExact, Running
  <2>6. DegradedReported'
    BY <1>1, <2>2 DEF DegradedReported, Ok, Running
  <2>7. QED
    BY <1>2, <2>4, <2>5, <2>6
<1>5. CASE ~ missingRequired(m, success)
  <2>1. results' \in sortGathered(results) /\ outcome' = "results"
    BY <1>5 DEF Finish
  <2>2. results' \in Seq(Apis) /\ Range(results') = Range(results)
    BY <1>1, <2>1, SortedFacts
  <2>3. TypeOK'
    BY <1>1, <2>1, <2>2 DEF TypeOK, Outcomes
  <2>4. ResultsExact'
    <3>1. missingRequired(m, success)' <=> missingRequired(m, success)
      BY <1>1 DEF missingRequired, Buckets
    <3>2. Ok' = Ok /\ Range(results) = received \cap Ok
      BY <1>1 DEF Ok, ResultsExact
    <3>3. QED
      BY <1>1, <1>3, <1>5, <2>1, <2>2, <3>1, <3>2 DEF ResultsExact, Running
  <2>5. DegradedReported'
    BY <1>1, <2>1 DEF DegradedReported, Ok, Running
  <2>6. QED
    BY <1>2, <2>3, <2>4, <2>5
<1>6. QED
  BY <1>4, <1>5

\* The invariant is inductive.
LEMMA NextIInv == IInv /\ [Next]_vars => IInv'
<1> SUFFICES ASSUME IInv, [Next]_vars PROVE IInv'
  OBVIOUS
<1>1. CASE \E i \in Apis : CallReturns(i) \/ Send(i)
  BY <1>1, CallReturnsIInv, SendIInv
<1>2. CASE Gather
  BY <1>2, ReceiveIInv, CtxDoneIInv, FinishIInv DEF Gather
<1>3. CASE CallerDone
  BY ZenonT(60), <1>3 DEF CallerDone, IInv, TypeOK, CountersExact, ChanFresh, ResultsExact,
              DegradedReported, envVars, loopVars, Ok, Running
<1>4. CASE UNCHANGED vars
  BY ZenonT(60), <1>4 DEF vars, IInv, TypeOK, CountersExact, ChanFresh, ResultsExact,
              DegradedReported, Ok, Running
<1>5. QED
  BY <1>1, <1>2, <1>3, <1>4 DEF Next, Done

\* The bookkeeping of the loop (counters, channel, results) is exact in every
\* reachable state of scatterGather.
THEOREM SpecIInv == Spec => []IInv
BY InitIInv, NextIInv, PTL DEF Spec

\* Type correctness of the fan-out call for any number of backends.
THEOREM TypeCorrect == Spec => []TypeOK
<1>1. IInv => TypeOK
  BY DEF IInv
<1>2. QED
  BY SpecIInv, <1>1, PTL

\* Data is returned without partial response only when every bucket delivered
\* requiredCount successful answers.
THEOREM StrictCompleteness == Spec => []StrictComplete
<1>1. IInv => StrictComplete
  <2> SUFFICES ASSUME IInv, outcome = "results", ~ m.partial, NEW b \in Buckets(m)
               PROVE  Cardinality(BucketMembers(m, b) \cap Range(results) \cap Ok) >= m.required
    BY DEF StrictComplete
  <2>1. Apis # {}
    BY DEF Buckets
  <2>2. Range(results) = received \cap Ok /\ ~ missingRequired(m, success)
    BY <2>1 DEF IInv, ResultsExact
  <2>3. BucketMembers(m, b) \cap Range(results) \cap Ok = BucketMembers(m, b) \cap received \cap Ok
    BY <2>2
  <2>4. success[b] \in Nat /\ m.required \in Nat /\ ~ (success[b] < m.required)
    BY <2>2, BucketFacts DEF missingRequired, IInv, TypeOK
  <2>5. success[b] = Cardinality(BucketMembers(m, b) \cap received \cap Ok)
    BY DEF IInv, CountersExact
  <2>6. success[b] >= m.required
    BY <2>4
  <2>7. QED
    BY <2>3, <2>5, <2>6
<1>2. QED
  BY SpecIInv, <1>1, PTL

\* Under partial response every backend missing from the data is accounted for by
\* a warning.
THEOREM PartialAccounting == Spec => []PartialAccounted
<1>1. IInv => PartialAccounted
  <2> SUFFICES ASSUME IInv, outcome = "results", m.partial, NEW i \in Apis \ Range(results)
               PROVE  \/ i \in received /\ partialResponseErr(i, reply[i]) \in warnings
                      \/ <<"cancelled", Len(results)>> \in warnings
    BY DEF PartialAccounted
  <2>1. Range(results) = received \cap Ok
        /\ (received = Apis \/ <<"cancelled", Len(results)>> \in warnings)
    BY DEF IInv, ResultsExact
  <2>2. QED
    BY <2>1 DEF IInv, DegradedReported
<1>2. QED
  BY SpecIInv, <1>1, PTL

\* No call over at least one backend ends with neither data nor an error.
THEOREM NeverSilentlyEmpty == Spec => []NoSilentEmpty
<1>1. IInv => NoSilentEmpty
  <2> SUFFICES ASSUME IInv, outcome = "results", Apis # {}, results = <<>> PROVE FALSE
    BY DEF NoSilentEmpty
  <2>1. received \cap Ok = {} /\ ~ missingRequired(m, success)
    BY DEF IInv, ResultsExact, Range
  <2>2. m \in MultiAPIs
    BY DEF IInv, TypeOK
  <2>3. \A b \in Buckets(m) : success[b] = 0
    <3> TAKE b \in Buckets(m)
    <3>1. BucketMembers(m, b) \cap received \cap Ok = {}
      BY <2>1
    <3>2. QED
      BY <3>1, FS_EmptySet DEF IInv, CountersExact
  <2>4. PICK i \in Apis : TRUE
    OBVIOUS
  <2>5. m.fp[i] \in Buckets(m) /\ m.required \in Nat /\ m.required > 0
    BY <2>2, <2>4, BucketFacts, MultiAPIsAssumption
  <2>6. QED
    BY <2>1, <2>3, <2>5 DEF missingRequired
<1>2. QED
  BY SpecIInv, <1>1, PTL

-----------------------------------------------------------------------------
(***************************************************************************)
(* What IInv does not say: no backend is taken twice, what is returned is  *)
(* in order, and the error remembered is one that was received.            *)
(***************************************************************************)
Once(s) == \A j, k \in 1 .. Len(s) : s[j] = s[k] => j = k

GatheredOnce == Running => Once(results)

ReturnedAscending ==
  outcome = "results" => \A j, k \in 1 .. Len(results) : j < k => results[j] < results[k]

LastErrorHeard ==
  Running /\ lastError # "none" => \E i \in received : reply[i] = lastError

AInv == GatheredOnce /\ ReturnedAscending /\ LastErrorHeard

\* Sorting a sequence without repetitions leaves it strictly ascending: the values
\* are as many as the places, so no place repeats one.
LEMMA SortedAscending ==
  ASSUME NEW s \in Seq(Apis), Once(s), NEW t \in sortGathered(s)
  PROVE  \A j, k \in 1 .. Len(t) : j < k => t[j] < t[k]
<1> DEFINE D == 1 .. Len(s)
<1> DEFINE R == Range(s)
<1>1. /\ Len(s) \in Nat /\ DOMAIN s = D /\ s \in [D -> R] /\ R \subseteq Apis
      /\ \A v \in R : \E k \in D : s[k] = v
  BY DEF Range
<1>2. s \in Surjection(D, R) /\ s \in Injection(D, R)
  BY <1>1 DEF Surjection, Injection, IsInjective, Once
<1>3. IsFiniteSet(D)
  <2>1. 1 \in Int /\ Len(s) \in Int
    BY <1>1
  <2>2. IsFiniteSet(1 .. Len(s))
    BY <2>1, FS_Interval
  <2>3. QED
    BY <2>2
<1>4. Cardinality(R) = Cardinality(D)
  BY <1>2, <1>3, FS_Surjection
<1>5. /\ t \in [D -> R] /\ Range(t) = R
      /\ \A j, k \in D : j < k => t[j] <= t[k]
  BY DEF sortGathered
<1>6. t \in Surjection(D, R)
  BY <1>5 DEF Surjection, Range
<1>7. t \in Injection(D, R)
  BY <1>3, <1>4, <1>6, FS_Surjection
<1>8. \A j, k \in D : t[j] = t[k] => j = k
  BY <1>7, <1>5 DEF Injection, IsInjective
<1>9. Len(t) = Len(s) /\ R \subseteq Int
  BY <1>1, NAssumption, SortedFacts DEF Apis
<1> HIDE DEF D, R
<1>10. \A j, k \in D : t[j] \in Int /\ t[k] \in Int
  BY <1>5, <1>9
<1>11. \A j, k \in D : j < k => t[j] < t[k]
  <2> SUFFICES ASSUME NEW j \in D, NEW k \in D, j < k PROVE t[j] < t[k]
    OBVIOUS
  <2>1. j # k
    BY <1>1 DEF D
  <2>2. QED
    BY <2>1, <1>5, <1>8, <1>10
<1> QED
  BY <1>9, <1>11 DEF D

\* It holds when scatterGather is called: nothing is gathered.
LEMMA InitAInv == Init => AInv
BY DEF Init, AInv, GatheredOnce, ReturnedAscending, LastErrorHeard, Once, Running

\* An answer is taken once only, so the results gain a backend they do not have.
LEMMA ReceiveAInv ==
  ASSUME IInv, AInv, Receive
  PROVE  AInv'
<1> DEFINE i == Head(resultChan)
<1>1. /\ i \in Apis /\ i = resultChan[1] /\ 1 \in 1 .. Len(resultChan)
      /\ received' = received \union {i} /\ Running
      /\ reply' = reply /\ results \in Seq(Apis)
  BY DEF Receive, IInv, TypeOK, envVars
<1>2. i \notin received
  BY <1>1 DEF IInv, ChanFresh
<1>3. CASE ~ IsError(reply[i])
  <2>1. results' = Append(results, i) /\ UNCHANGED <<lastError, outcome>>
    BY <1>3 DEF Receive
  <2>2. /\ Len(results') = Len(results) + 1 /\ Len(results) \in Nat
        /\ results'[Len(results) + 1] = i
        /\ \A k \in 1 .. Len(results) : results'[k] = results[k]
    BY <1>1, <2>1
  <2>3. \A k \in 1 .. Len(results) : results[k] # i
    BY <1>1, <1>2 DEF IInv, ResultsExact, Range
  <2>4. Once(results)
    BY <1>1 DEF AInv, GatheredOnce
  <2>5. Once(results')
    BY <2>2, <2>3, <2>4 DEF Once
  <2>6. QED
    BY <1>1, <2>1, <2>5 DEF AInv, GatheredOnce, ReturnedAscending, LastErrorHeard, Running
<1>4. CASE IsError(reply[i])
  <2>1. \/ outcome' = reply[i]
        \/ UNCHANGED <<results, outcome>> /\ lastError' = reply[i]
    BY <1>4 DEF Receive
  <2>2. reply[i] # "running" /\ reply[i] # "results"
    BY <1>4 DEF IsError, BackendErrors
  <2>3. CASE outcome' = reply[i]
    BY <2>2, <2>3 DEF AInv, GatheredOnce, ReturnedAscending, LastErrorHeard, Running
  <2>4. CASE UNCHANGED <<results, outcome>> /\ lastError' = reply[i]
    BY <1>1, <2>4 DEF AInv, GatheredOnce, ReturnedAscending, LastErrorHeard, Running
  <2>5. QED
    BY <2>1, <2>3, <2>4
<1>5. QED
  BY <1>3, <1>4

\* A call that returns, returns nothing or the sorted results.
LEMMA ReturnAInv ==
  ASSUME IInv, AInv, ReturnOnCtxDone \/ Finish
  PROVE  AInv'
<1>1. Running /\ results \in Seq(Apis) /\ Once(results)
  BY DEF ReturnOnCtxDone, Finish, IInv, TypeOK, AInv, GatheredOnce
<1>2. results' = <<>> \/ results' \in sortGathered(results)
  BY DEF ReturnOnCtxDone, Finish
<1>3. \A j, k \in 1 .. Len(results') : j < k => results'[j] < results'[k]
  <2>1. CASE results' = <<>>
    BY <2>1
  <2>2. CASE results' \in sortGathered(results)
    BY <1>1, <2>2, SortedAscending
  <2>3. QED
    BY <1>2, <2>1, <2>2
<1>4. outcome' # "running"
  BY DEF ReturnOnCtxDone, Finish, fetchError, IInv, TypeOK, BackendErrors
<1>5. QED
  BY <1>3, <1>4 DEF AInv, GatheredOnce, ReturnedAscending, LastErrorHeard, Running

\* Every step of a call preserves it.
LEMMA NextAInv == IInv /\ AInv /\ [Next]_vars => AInv'
<1> SUFFICES ASSUME IInv, AInv, [Next]_vars PROVE AInv'
  OBVIOUS
<1> USE DEF AInv, GatheredOnce, ReturnedAscending, LastErrorHeard, Running
<1>1. ASSUME NEW i \in Apis, CallReturns(i) PROVE AInv'
  <2>1. UNCHANGED <<results, outcome, received, lastError>> /\ received \subseteq Apis
    BY <1>1 DEF CallReturns, loopVars, IInv, TypeOK
  <2>2. \A j \in received : reply'[j] = reply[j]
    BY <1>1, <2>1 DEF CallReturns, IInv, TypeOK, ChanFresh
  <2>3. QED
    BY <2>1, <2>2
<1>2. ASSUME NEW i \in Apis, Send(i) PROVE AInv'
  BY <1>2 DEF Send, loopVars
<1>3. CASE Gather
  BY <1>3, ReceiveAInv, ReturnAInv DEF Gather
<1>4. CASE CallerDone
  BY <1>4 DEF CallerDone, loopVars, envVars
<1>5. CASE UNCHANGED vars
  BY <1>5 DEF vars
<1>6. QED
  BY <1>1, <1>2, <1>3, <1>4, <1>5 DEF Next, Done

\* A backend is never taken twice, returned results are in ordinal order and the
\* remembered error was received.
THEOREM SpecAInv == Spec => []AInv
BY SpecIInv, InitAInv, NextAInv, PTL DEF Spec

\* A strict cross-group call that returns data returns that of every server group,
\* and a call that heard every backend returns all the successes in ordinal order.
THEOREM CompleteAnswers == Spec => []AnswersComplete
<1>1. IInv /\ AInv => AnswersComplete
  <2> SUFFICES ASSUME IInv, AInv, outcome = "results" PROVE AnswersComplete
    BY DEF AnswersComplete
  <2>1. ~ Running
    BY DEF Running
  <2>2. /\ m \in MultiAPIs /\ results \in Seq(Apis) /\ received \subseteq Apis
        /\ Range(results) \subseteq Apis /\ success \in [Buckets(m) -> Nat]
    BY DEF IInv, TypeOK, Range
  <2>3. Apis # {} => Range(results) = received \cap Ok /\ ~ missingRequired(m, success)
    BY DEF IInv, ResultsExact
  <2>4. ASSUME m \in NewCrossGroupMultiAPI(FALSE)
        PROVE  Range(results) = Apis
    <3> SUFFICES ASSUME NEW i \in Apis PROVE i \in Range(results)
      BY <2>2
    <3>1. m.required = 1 /\ m.partial = FALSE /\ m.fp = [j \in Apis |-> j + 1]
      <4>1. PICK mm \in NewMultiAPI(ZeroFingerprints, 1) :
              m = [isolateFingerprints(mm) EXCEPT !.partial = FALSE]
        BY <2>4 DEF NewCrossGroupMultiAPI
      <4>2. mm = [fp |-> ZeroFingerprints, required |-> 1, partial |-> FALSE]
        BY <4>1 DEF NewMultiAPI
      <4>3. QED
        BY <4>1, <4>2 DEF isolateFingerprints
    <3>2. m.fp[i] \in Buckets(m) /\ Apis \subseteq Int
      BY <2>2, BucketFacts, NAssumption DEF Apis
    <3>3. BucketMembers(m, m.fp[i]) = {i}
      <4>1. \A j \in Apis : m.fp[j] = j + 1
        BY <3>1
      <4>2. \A j \in Apis : m.fp[j] = m.fp[i] <=> j = i
        BY <3>2, <4>1
      <4>3. QED
        BY <4>2 DEF BucketMembers
    <3>4. success[m.fp[i]] \in Nat /\ ~ (success[m.fp[i]] < 1)
      BY <2>2, <2>3, <3>1, <3>2 DEF missingRequired
    <3>5. Cardinality({i} \cap received \cap Ok) # 0
      <4>1. success[m.fp[i]] = Cardinality(BucketMembers(m, m.fp[i]) \cap received \cap Ok)
        BY <3>2 DEF IInv, CountersExact
      <4>2. success[m.fp[i]] # 0
        BY <3>4
      <4>3. QED
        BY <3>3, <4>1, <4>2
    <3>6. {i} \cap received \cap Ok # {}
      BY <3>5, FS_EmptySet
    <3>7. QED
      BY <2>3, <3>6
  <2>5. ASSUME received = Apis PROVE Range(results) = Ok
    BY <2>2, <2>3, <2>5 DEF Ok
  <2>6. \A j, k \in 1 .. Len(results) : j < k => results[j] < results[k]
    BY DEF AInv, ReturnedAscending
  <2>7. QED
    BY <2>4, <2>5, <2>6 DEF AnswersComplete
<1>2. QED
  BY SpecIInv, SpecAInv, <1>1, PTL

-----------------------------------------------------------------------------
(***************************************************************************)
(* The refinement.  The contract sees, of a backend, the reply once it is  *)
(* received, and of the results, the set once the call has returned.       *)
(***************************************************************************)
heard == [i \in Apis |-> IF i \in received THEN reply[i] ELSE "none"]
returned == IF Running THEN {} ELSE Range(results)

\* The contract and the call share one policy.
LEMMA ContractPolicy ==
  /\ Contract!Apis = Apis /\ Contract!Replies = Replies
  /\ Contract!BackendErrors = BackendErrors
  /\ Contract!Buckets(m) = Buckets(m)
  /\ \A b : Contract!BucketMembers(m, b) = BucketMembers(m, b)
  /\ \A r : Contract!fetchError(r) = fetchError(r)
BY DEF Contract!Apis, Apis, Contract!Replies, Replies, Contract!BackendErrors, BackendErrors,
       Contract!Buckets, Buckets, Contract!BucketMembers, BucketMembers,
       Contract!fetchError, fetchError

\* INSTANCE has its own copy of the operators of FiniteSets.
LEMMA ContractCardinality == \A S : Contract!Cardinality(S) = Cardinality(S)
BY DEF Contract!Cardinality, Cardinality

\* The operators of the contract in terms of the loop's own state.
LEMMA HeardFacts ==
  ASSUME IInv
  PROVE  /\ Contract!Heard(heard) = received
         /\ Contract!Answered(heard) = received \cap Ok
         /\ \A i \in received : heard[i] = reply[i] /\ reply[i] \in Replies
         /\ Contract!Satisfied(heard) <=> ~ missingRequired(m, success)
<1>1. /\ received \subseteq Apis /\ m \in MultiAPIs /\ success \in [Buckets(m) -> Nat]
      /\ m.required \in Nat /\ reply \in [Apis -> Replies \union {"none"}]
      /\ \A i \in received : reply[i] # "none"
  BY BucketFacts DEF IInv, TypeOK, ChanFresh
<1>2. /\ \A i \in received : heard[i] = reply[i] /\ reply[i] \in Replies
      /\ \A i \in Apis \ received : heard[i] = "none"
  BY <1>1 DEF heard
<1>3. Contract!Heard(heard) = received
  BY <1>1, <1>2 DEF Contract!Heard, Contract!Apis, Apis
<1>4. {i \in Apis : heard[i] = "ok"} = received \cap Ok
  BY <1>1, <1>2 DEF Ok
<1>5. Contract!Answered(heard) = received \cap Ok
  BY <1>4 DEF Contract!Answered, Contract!Apis, Apis
<1>6. Contract!Satisfied(heard) <=> ~ missingRequired(m, success)
  <2>1. CASE m.partial
    <3>1. Contract!Satisfied(heard) <=> received \cap Ok # {}
      BY <1>5, <2>1 DEF Contract!Satisfied
    <3>2. received \cap Ok # {} => \E b \in Buckets(m) : success[b] # 0
      BY <1>1, SomeSuccess
    <3>3. received \cap Ok = {} => \A b \in Buckets(m) : success[b] = 0
      BY FS_EmptySet DEF IInv, CountersExact
    <3>4. QED
      BY <2>1, <3>1, <3>2, <3>3 DEF missingRequired
  <2>2. CASE ~ m.partial
    <3>1. \A b \in Buckets(m) :
            {i \in BucketMembers(m, b) : heard[i] = "ok"} = BucketMembers(m, b) \cap received \cap Ok
      BY <1>4 DEF BucketMembers
    <3>2. Contract!Satisfied(heard) <=>
            \A b \in Buckets(m) : Cardinality({i \in BucketMembers(m, b) : heard[i] = "ok"}) >= m.required
      <4>1. Contract!Satisfied(heard) <=>
              \A b \in Buckets(m) :
                Contract!Cardinality({i \in BucketMembers(m, b) : heard[i] = "ok"}) >= m.required
        BY <2>2, ContractPolicy DEF Contract!Satisfied
      <4>2. QED
        BY <4>1, ContractCardinality
    <3>3. \A b \in Buckets(m) :
            Cardinality({i \in BucketMembers(m, b) : heard[i] = "ok"}) = success[b]
      BY <3>1 DEF IInv, CountersExact
    <3>4. Contract!Satisfied(heard) <=> \A b \in Buckets(m) : success[b] >= m.required
      BY <3>2, <3>3
    <3>5. \A b \in Buckets(m) : success[b] >= m.required <=> ~ (success[b] < m.required)
      BY <1>1
    <3>6. QED
      BY <2>2, <3>4, <3>5 DEF missingRequired
  <2>3. QED
    BY <2>1, <2>2
<1>7. QED
  BY <1>2, <1>3, <1>5, <1>6

\* The members of a bucket that have not failed are those not received and those
\* that succeeded: what the contract counts is the sum of the loop's two counters.
LEMMA CountUnfailed ==
  ASSUME NEW B \in SUBSET Apis, NEW got \in SUBSET Apis, NEW good
  PROVE  Contract!Cardinality((B \ got) \union (B \cap got \cap good)) =
           Cardinality(B \ got) + Cardinality(B \cap got \cap good)
<1> DEFINE L == (B \ got) \union (B \cap got \cap good)
<1>1. /\ IsFiniteSet(B \ got) /\ IsFiniteSet(B \cap got \cap good)
      /\ Cardinality(B \ got) \in Nat /\ Cardinality(B \cap got \cap good) \in Nat
  <2>1. B \ got \in SUBSET Apis /\ B \cap got \cap good \in SUBSET Apis
    OBVIOUS
  <2>2. QED
    BY <2>1, ApisFinite
<1>2. Cardinality((B \ got) \cap (B \cap got \cap good)) = 0
  <2>1. (B \ got) \cap (B \cap got \cap good) = {}
    OBVIOUS
  <2>2. QED
    BY <2>1, FS_EmptySet
<1>3. Cardinality(L) = Cardinality(B \ got) + Cardinality(B \cap got \cap good)
                         - Cardinality((B \ got) \cap (B \cap got \cap good))
  BY <1>1, FS_Union
<1>4. QED
  BY <1>1, <1>2, <1>3, ContractCardinality

\* A call that has heard nobody is an initial state of the contract.
LEMMA InitContract == Init => Contract!Init
<1> SUFFICES ASSUME Init PROVE Contract!Init
  OBVIOUS
<1>1. [i \in Apis |-> IF i \in received THEN reply[i] ELSE "none"] = [i \in Apis |-> "none"]
  BY DEF Init
<1>2. Running
  BY DEF Init, Running
<1>3. QED
  BY <1>1, <1>2, ContractPolicy DEF Init, Contract!Init

\* Taking an answer from the channel is hearing it.
LEMMA ReceiveHears ==
  ASSUME IInv, Receive
  PROVE  \E i \in Apis, r \in Replies : Contract!Hear(i, r)
<1> DEFINE i == Head(resultChan)
<1> DEFINE b == m.fp[i]
<1>1. /\ i \in Apis /\ i = resultChan[1] /\ 1 \in 1 .. Len(resultChan)
      /\ received' = received \union {i} /\ Running
      /\ UNCHANGED <<m, ctxDone, reply>> /\ m \in MultiAPIs
      /\ outstanding' = [outstanding EXCEPT ![b] = @ - 1]
  BY DEF Receive, IInv, TypeOK, envVars
<1>2. i \notin received /\ reply[i] \in Replies /\ b \in Buckets(m)
  <2>1. i \notin received /\ worker[i] = "sent" /\ reply[i] \in Replies
    BY <1>1 DEF IInv, ChanFresh, TypeOK
  <2>2. QED
    BY <1>1, <2>1, BucketFacts
<1>3. heard[i] = "none" /\ heard' = [heard EXCEPT ![i] = reply[i]]
  BY <1>1, <1>2 DEF heard
<1>4. outcome' = IF reply[i] # "ok" /\ ~ m.partial /\ Contract!Hopeless(heard', b)
                   THEN reply[i] ELSE "running"
  <2>1. CASE ~ IsError(reply[i])
    BY <1>1, <1>2, <2>1 DEF Receive, Running, IsError, Replies
  <2>2. CASE IsError(reply[i])
    <3>1. IInv'
      BY ReceiveIInv
    <3>2. Contract!Hopeless(heard', b) <=> outstanding'[b] + success'[b] < m.required
      <4>1. /\ received' \in SUBSET Apis /\ reply' \in [Apis -> Replies \union {"none"}]
            /\ \A j \in received' : reply'[j] # "none"
        BY <3>1 DEF IInv, TypeOK, ChanFresh
      <4>2. /\ outstanding'[b] = Cardinality(BucketMembers(m, b) \ received')
            /\ success'[b] = Cardinality(BucketMembers(m, b) \cap received' \cap Ok')
        <5>1. \A c \in Buckets(m') :
                /\ outstanding'[c] = Cardinality(BucketMembers(m', c) \ received')
                /\ success'[c] = Cardinality(BucketMembers(m', c) \cap received' \cap Ok')
          BY <3>1 DEF IInv, CountersExact
        <5>2. QED
          BY <1>1, <1>2, <5>1
      <4>3. \A j \in Apis : heard'[j] \notin BackendErrors <=> j \notin received' \/ j \in Ok'
        BY <4>1 DEF heard, Ok, Replies, BackendErrors
      <4>4. BucketMembers(m, b) \in SUBSET Apis
        BY <1>1, BucketFacts
      <4>5. {j \in BucketMembers(m, b) : heard'[j] \notin BackendErrors}
              = (BucketMembers(m, b) \ received') \union (BucketMembers(m, b) \cap received' \cap Ok')
        BY <4>3, <4>4
      <4>6. Contract!Cardinality({j \in BucketMembers(m, b) : heard'[j] \notin BackendErrors})
              = outstanding'[b] + success'[b]
        <5>1. Contract!Cardinality((BucketMembers(m, b) \ received')
                                     \union (BucketMembers(m, b) \cap received' \cap Ok'))
                = Cardinality(BucketMembers(m, b) \ received')
                    + Cardinality(BucketMembers(m, b) \cap received' \cap Ok')
          BY <4>1, <4>4, CountUnfailed
        <5>2. QED
          BY <4>2, <4>5, <5>1
      <4>7. QED
        BY <4>6, ContractPolicy DEF Contract!Hopeless
    <3>3. success' = success /\ (outcome' = reply[i] \/ outcome' = outcome)
          /\ (outcome' = reply[i] <=> abortOnError(m, b, outstanding', success))
      BY <1>1, <2>2 DEF Receive, Running, IsError, BackendErrors
    <3>4. abortOnError(m, b, outstanding', success)
            <=> ~ m.partial /\ Contract!Hopeless(heard', b)
      BY <3>2, <3>3 DEF abortOnError
    <3>5. reply[i] # "ok"
      BY <2>2 DEF IsError, BackendErrors
    <3>6. QED
      BY <1>1, <3>3, <3>4, <3>5 DEF Running
  <2>3. QED
    BY <2>1, <2>2
<1>5. returned = {} /\ returned' = {}
  <2>1. outcome' # "running" => results' = <<>>
    BY <1>1 DEF Receive, Running
  <2>2. QED
    BY <1>1, <2>1 DEF returned, Running, Range
<1>6. PICK k \in Apis, r \in Replies : k = i /\ r = reply[i]
  BY <1>1, <1>2
<1>7. Contract!Hear(k, r)
  BY <1>1, <1>3, <1>4, <1>5, <1>6 DEF Contract!Hear, heard, returned, Running
<1>8. QED
  BY <1>7

\* Every step but those of the caller's goroutine leaves what was heard alone.
LEMMA HeardUnchanged ==
  ASSUME IInv, received' = received, \A j \in received : reply'[j] = reply[j]
  PROVE  heard' = heard
BY DEF heard

\* Returning because the context ended is the contract's Cancel.
LEMMA CtxDoneCancels ==
  ASSUME IInv, ReturnOnCtxDone
  PROVE  Contract!Cancel
<1>1. /\ UNCHANGED <<m, ctxDone, reply, received>> /\ Running /\ results \in Seq(Apis) /\ ctxDone
  BY DEF ReturnOnCtxDone, CtxSelected, envVars, IInv, TypeOK
<1>2. heard' = heard /\ returned = {}
  BY <1>1, HeardUnchanged DEF returned
<1>3. Contract!Heard(heard) = received /\ Contract!Answered(heard) = received \cap Ok
  BY HeardFacts
<1>4. received # Apis
  <2>1. Cardinality(received) < N
    BY DEF ReturnOnCtxDone
  <2>2. QED
    BY <2>1, ApisFinite, NAssumption
<1>5. Range(results) = received \cap Ok
  BY <1>1 DEF IInv, ResultsExact
<1>6. results # <<>> <=> received \cap Ok # {}
  <2>1. results # <<>> => results[1] \in Range(results)
    BY <1>1 DEF Range
  <2>2. results = <<>> => Range(results) = {}
    BY DEF Range
  <2>3. QED
    BY <1>5, <2>1, <2>2
<1>7. IF m.partial /\ received \cap Ok # {}
        THEN outcome' = "results" /\ returned' = received \cap Ok
        ELSE outcome' = "ctx" /\ returned' = {}
  <2>1. CASE KeepGathered
    <3>1. results' \in sortGathered(results) /\ outcome' = "results"
      BY <2>1 DEF ReturnOnCtxDone
    <3>2. Range(results') = Range(results)
      BY <1>1, <3>1, SortedFacts
    <3>3. QED
      BY <1>5, <1>6, <2>1, <3>1, <3>2 DEF KeepGathered, returned, Running
  <2>2. CASE ~ KeepGathered
    <3>1. results' = <<>> /\ outcome' = "ctx"
      BY <2>2 DEF ReturnOnCtxDone
    <3>2. returned' = {}
      BY <3>1 DEF returned, Running, Range
    <3>3. QED
      BY <1>6, <2>2, <3>1, <3>2 DEF KeepGathered
  <2>3. QED
    BY <2>1, <2>2
<1>8. Contract!Heard(heard) # Contract!Apis
  BY <1>3, <1>4, ContractPolicy
<1>9. QED
  BY <1>1, <1>2, <1>3, <1>7, <1>8 DEF Contract!Cancel, heard, returned, Running

\* Leaving the loop after the last answer is the contract's Conclude.
LEMMA FinishConcludes ==
  ASSUME IInv, AInv, Finish
  PROVE  Contract!Conclude
<1>1. /\ UNCHANGED <<m, ctxDone, reply, received>> /\ Running /\ results \in Seq(Apis)
      /\ received \in SUBSET Apis /\ Cardinality(received) = N
      /\ lastError \in BackendErrors \union {"none"}
  BY DEF Finish, envVars, IInv, TypeOK
<1>2. heard' = heard /\ returned = {}
  BY <1>1, HeardUnchanged DEF returned
<1>3. received = Apis
  BY <1>1, ApisFinite, FS_Subset
<1>4. /\ Contract!Heard(heard) = Contract!Apis
      /\ Contract!Answered(heard) = received \cap Ok
      /\ Contract!Satisfied(heard) <=> ~ missingRequired(m, success)
      /\ \A i \in Apis : heard[i] = reply[i]
  BY <1>3, HeardFacts, ContractPolicy
<1>5. CASE ~ missingRequired(m, success)
  <2>1. results' \in sortGathered(results) /\ outcome' = "results"
    BY <1>5 DEF Finish
  <2>2. Range(results') = received \cap Ok
    BY <1>1, <2>1, SortedFacts DEF IInv, ResultsExact
  <2>3. returned' = Contract!Answered(heard)
    BY <1>4, <2>1, <2>2 DEF returned, Running
  <2>4. QED
    BY <1>1, <1>2, <1>4, <1>5, <2>1, <2>3 DEF Contract!Conclude, heard, returned, Running
<1>6. CASE missingRequired(m, success)
  <2>1. results' = <<>> /\ outcome' = fetchError(lastError)
    BY <1>6 DEF Finish
  <2>2. returned' = {}
    <3>1. outcome' # "running"
      BY <1>1, <2>1 DEF fetchError, BackendErrors
    <3>2. QED
      BY <2>1, <3>1 DEF returned, Running, Range
  <2>3. CASE lastError = "none"
    <3>1. outcome' = "results"
      BY <2>1, <2>3 DEF fetchError
    <3>2. Apis = {}
      <4>1. Apis # {} => ~ missingRequired(m, success)'
        BY <3>1, FinishIInv DEF IInv, ResultsExact
      <4>2. missingRequired(m, success)' <=> missingRequired(m, success)
        BY DEF Finish, missingRequired, Buckets
      <4>3. QED
        BY <1>6, <4>1, <4>2
    <3>3. QED
      BY <1>1, <1>2, <1>4, <2>2, <3>1, <3>2, ContractPolicy
      DEF Contract!Conclude, heard, returned, Running
  <2>4. CASE lastError # "none"
    <3>1. PICK i \in Apis : reply[i] = lastError
      BY <1>1, <1>3, <2>4 DEF AInv, LastErrorHeard
    <3>2. heard[i] # "ok" /\ outcome' = Contract!fetchError(heard[i])
      BY <1>1, <1>4, <2>1, <2>4, <3>1, ContractPolicy DEF BackendErrors
    <3>3. \E j \in Contract!Apis : heard[j] # "ok" /\ outcome' = Contract!fetchError(heard[j])
      BY <3>1, <3>2, ContractPolicy
    <3>4. QED
      BY <1>1, <1>2, <1>4, <1>6, <2>2, <3>3 DEF Contract!Conclude, heard, returned, Running
  <2>5. QED
    BY <2>3, <2>4
<1>7. QED
  BY <1>5, <1>6

\* Each step of the call is a step of the contract or leaves its state alone.
LEMMA StepContract ==
  ASSUME IInv, AInv, [Next]_vars
  PROVE  [Contract!Next]_(Contract!vars)
<1>1. ASSUME NEW i \in Apis, CallReturns(i) PROVE UNCHANGED Contract!vars
  <2>1. UNCHANGED <<m, ctxDone, results, outcome, received>> /\ received \subseteq Apis
    BY <1>1 DEF CallReturns, loopVars, IInv, TypeOK
  <2>2. \A j \in received : reply'[j] = reply[j]
    BY <1>1, <2>1 DEF CallReturns, IInv, TypeOK, ChanFresh
  <2>3. heard' = heard
    BY <2>1, <2>2, HeardUnchanged
  <2>4. QED
    BY <2>1, <2>3 DEF Contract!vars, heard, Running
<1>2. ASSUME NEW i \in Apis, Send(i) PROVE UNCHANGED Contract!vars
  BY <1>2 DEF Send, loopVars, Contract!vars, Running
<1>3. CASE Gather
  BY <1>3, ReceiveHears, CtxDoneCancels, FinishConcludes, ContractPolicy DEF Gather, Contract!Next
<1>4. CASE CallerDone
  <2>1. Contract!CallerDone
    BY <1>4 DEF CallerDone, Contract!CallerDone, envVars, loopVars, Running
  <2>2. QED
    BY <2>1 DEF Contract!Next
<1>5. CASE UNCHANGED vars
  BY <1>5 DEF vars, Contract!vars, Running
<1>6. QED
  BY <1>1, <1>2, <1>3, <1>4, <1>5 DEF Next, Done

\* scatterGather implements its contract, for any number of backends and every
\* MultiAPI: channel, goroutines, counters and arrival order are not visible in
\* the outcome.
THEOREM RefinesContract == Spec => ImplementsContract
BY SpecIInv, SpecAInv, InitContract, StepContract, PTL DEF Spec, ImplementsContract, Contract!Spec
=============================================================================
