--------------------------- MODULE FanOutContract ---------------------------
(***************************************************************************)
(* What one fan-out call promises, whatever the order in which backends    *)
(* answer: the outcome is a function of the set of answers heard and of    *)
(* whether the caller's context ended.                                     *)
(***************************************************************************)
EXTENDS MultiAPI

VARIABLES
  m,        \* the MultiAPI
  ctxDone,  \* the caller's context has ended
  answer,   \* per backend: what has been heard of it, "none" before
  outcome,  \* "running", "results", or the error returned
  value     \* the backends whose data is returned

vars == <<m, ctxDone, answer, outcome, value>>

Heard(a) == {i \in Apis : a[i] # "none"}
Answered(a) == {i \in Apis : a[i] = "ok"}

\* Bucket b has lost so many members that requiredCount is out of reach.
Hopeless(a, b) ==
  Cardinality({i \in BucketMembers(m, b) : a[i] \notin BackendErrors}) < m.required

Satisfied(a) ==
  IF m.partial
    THEN Answered(a) # {}
    ELSE \A b \in Buckets(m) :
           Cardinality({i \in BucketMembers(m, b) : a[i] = "ok"}) >= m.required

Init ==
  /\ m \in MultiAPIs
  /\ ctxDone = FALSE
  /\ answer = [i \in Apis |-> "none"]
  /\ outcome = "running"
  /\ value = {}

\* A backend is heard.  Its error ends the call exactly when the call is strict
\* and its bucket has become hopeless.
Hear(i, r) ==
  /\ outcome = "running"
  /\ answer[i] = "none"
  /\ answer' = [answer EXCEPT ![i] = r]
  /\ outcome' = IF r # "ok" /\ ~ m.partial /\ Hopeless(answer', m.fp[i])
                  THEN r ELSE "running"
  /\ UNCHANGED <<m, ctxDone, value>>

\* Every backend has been heard: all successes are returned, or, if they are not
\* enough, the error of one of the backends that failed.
Conclude ==
  /\ outcome = "running"
  /\ Heard(answer) = Apis
  /\ \/ /\ Satisfied(answer)
        /\ outcome' = "results"
        /\ value' = Answered(answer)
     \/ /\ ~ Satisfied(answer)
        /\ \E i \in Apis : answer[i] # "ok" /\ outcome' = fetchError(answer[i])
        /\ value' = {}
     \/ /\ Apis = {}
        /\ outcome' = "results"
        /\ value' = {}
  /\ UNCHANGED <<m, ctxDone, answer>>

\* The context ended before every backend was heard.
Cancel ==
  /\ outcome = "running"
  /\ ctxDone
  /\ Heard(answer) # Apis
  /\ IF m.partial /\ Answered(answer) # {}
       THEN outcome' = "results" /\ value' = Answered(answer)
       ELSE outcome' = "ctx" /\ value' = {}
  /\ UNCHANGED <<m, ctxDone, answer>>

CallerDone ==
  /\ ~ ctxDone
  /\ ctxDone' = TRUE
  /\ UNCHANGED <<m, answer, outcome, value>>

Next ==
  \/ \E i \in Apis, r \in Replies : Hear(i, r)
  \/ Conclude
  \/ Cancel
  \/ CallerDone

Spec == Init /\ [][Next]_vars
=============================================================================
