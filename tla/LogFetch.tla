------------------------------- MODULE LogFetch -------------------------------
(***************************************************************************)
(* How a range of logs is fetched: `fetch_filtered_logs_chunk` (src/chain/ *)
(* mod.rs) over the failover transport (src/chain/rpc.rs) and the adaptive *)
(* chunk (src/chain/retry.rs).  Transport and chunk belong to the          *)
(* ChainConfig that the registry sync and the settlement sync share, so    *)
(* each Task here fetches the blocks 1..Target through the same two.       *)
(*                                                                         *)
(* Endpoints answer for the blocks up to their head and cut logs off there *)
(* without an error; they reject requests of more than their limit.  Those *)
(* in Stuck never get another block.  Any other failure of an endpoint     *)
(* costs one unit of the budget MaxFaults.                                 *)
(*                                                                         *)
(* A definition X_Y is X with the slip Y in it; nothing uses it.  Put in   *)
(* place of X it makes TLC refute a property.                              *)
(***************************************************************************)
EXTENDS Integers, FiniteSets

CONSTANTS
  Task,            \* the tasks that fetch logs
  NumEndpoints,
  Limit,           \* for each endpoint the largest span it accepts
  Stuck,           \* endpoints whose head stays where it is
  Target,          \* the safe head the tasks fetch up to
  Window,          \* HEAD_CHECK_WINDOW
  MinSpan, MaxSpan,       \* LogChunkConfig; the initial size is MaxSpan
  MaxAttempts,     \* MAX_CHUNK_ATTEMPTS
  MaxFaults        \* bound: failures of endpoints

Endpoint == 0 .. NumEndpoints - 1

ASSUME ConstantsAssumption ==
  /\ NumEndpoints \in Nat \ {0} /\ Stuck \subseteq Endpoint
  /\ Limit \in [Endpoint -> Nat]
  /\ Target \in Nat \ {0} /\ Window \in Nat
  /\ MinSpan \in Nat \ {0} /\ MaxSpan \in Nat /\ MinSpan <= MaxSpan
  /\ MaxAttempts \in Nat \ {0} /\ MaxFaults \in Nat

VARIABLES
  head,            \* of each endpoint
  (* FailoverHttp *)
  preferred, logsServedBy,
  (* AdaptiveChunk *)
  size, ceiling, streak,
  (* one call of fetch_filtered_logs_chunk per task *)
  pc,
  from, last,      \* the range: last is `end`
  attempt,
  start, offset,   \* the endpoint the request began with, and how many failed
  errors,          \* what went wrong, to be classified
  asked,           \* the endpoint whose head is being asked
  (* bookkeeping of the model *)
  servedBy,        \* the endpoint that served the logs
  rejected,        \* the least span that was rejected and shrunk
  faults

transport == <<preferred, logsServedBy>>
chunk     == <<size, ceiling, streak>>
request   == <<start, offset, errors>>
reply     == <<asked, servedBy>>
vars      == <<head, transport, chunk, pc, from, last, attempt, request, reply,
               rejected, faults>>

Least(m, n) == IF m <= n THEN m ELSE n
Most(m, n) == IF m >= n THEN m ELSE n

Init ==
  /\ head \in [Endpoint -> 0 .. Target]
  /\ preferred = 0 /\ logsServedBy = 0
  /\ size = MaxSpan /\ ceiling = MaxSpan /\ streak = 0
  /\ pc = [t \in Task |-> "out"]
  /\ from = [t \in Task |-> 1] /\ last = [t \in Task |-> 0]
  /\ attempt = [t \in Task |-> 0]
  /\ start = [t \in Task |-> 0] /\ offset = [t \in Task |-> 0]
  /\ errors = [t \in Task |-> {}] /\ asked = [t \in Task |-> 0]
  /\ servedBy = [t \in Task |-> 0]
  /\ rejected = MaxSpan + 1
  /\ faults = 0

Fault == faults < MaxFaults /\ faults' = faults + 1

------------------------------------------------------------------------------
(* AdaptiveChunk.  The streak is capped where it stops to matter.          *)

GrowAfter == 2     \* GROW_AFTER_SUCCESSES

OnSuccess ==
  /\ IF streak + 1 >= GrowAfter /\ size < ceiling
     THEN size' = Least(2 * size, ceiling) /\ streak' = 0
     ELSE streak' = Least(streak + 1, GrowAfter) /\ UNCHANGED size
  /\ UNCHANGED ceiling

NoHint == 0

Lowered_Kept(c, s) == c

\* The ceiling c, after a rejection set the size s.
Lowered(c, s) == Most(Least(c, s), MinSpan)

OnRangeError(span, hint) ==
  LET next == IF hint # NoHint /\ hint < span THEN hint ELSE span \div 2 IN
  /\ streak' = 0
  /\ IF span <= MinSpan
     THEN UNCHANGED <<size, ceiling>>
     ELSE /\ size' = Most(next, MinSpan)
          /\ ceiling' = Lowered(ceiling, size')

Halved_NoFloor(s) == s \div 2

Halved(s) == Most(s \div 2, MinSpan)

OnRateLimited ==
  /\ size' = Halved(size) /\ streak' = 0
  /\ UNCHANGED ceiling

------------------------------------------------------------------------------
(* The call: the loop of fetch_filtered_logs_chunk.                        *)

Requested(t) == last[t] - from[t] + 1

\* The caller asks for the next chunk, after a result or an error.
Call(t) ==
  /\ pc[t] = "out" /\ from[t] <= Target
  /\ pc' = [pc EXCEPT ![t] = "loop"]
  /\ UNCHANGED <<head, transport, chunk, from, last, attempt, request, reply, rejected,
                 faults>>

Request(t) ==
  /\ pc[t] = "loop"
  /\ last' = [last EXCEPT ![t] = Least(from[t] + size - 1, Target)]
  /\ start' = [start EXCEPT ![t] = preferred]
  /\ pc' = [pc EXCEPT ![t] = "sent"]
  /\ UNCHANGED <<head, transport, chunk, from, attempt, offset, errors, reply,
                 rejected, faults>>

\* The endpoint the request is at.
At(t) == (start[t] + offset[t]) % NumEndpoints

ServedBy_FailoverOnly(t) == IF offset[t] = 0 THEN logsServedBy ELSE At(t)

\* What the transport notes as the server of the logs.
ServedBy(t) == At(t)

Serve(t) ==
  /\ pc[t] = "sent" /\ Requested(t) <= Limit[At(t)]
  /\ logsServedBy' = ServedBy(t)
  /\ preferred' = IF offset[t] = 0 THEN preferred ELSE At(t)
  /\ servedBy' = [servedBy EXCEPT ![t] = At(t)]
  /\ pc' = [pc EXCEPT ![t] = "served"]
  /\ UNCHANGED <<head, chunk, from, last, attempt, request, asked, rejected,
                 faults>>

Kinds == {"range", "rate", "other"}
Error(kind, hint) == [kind |-> kind, hint |-> hint]

\* The endpoint fails the request: the next one is tried, and when none is
\* left, the following request starts one further.
Refuse(t, error) ==
  /\ pc[t] = "sent"
  /\ errors' = [errors EXCEPT ![t] = @ \cup {error}]
  /\ IF offset[t] + 1 < NumEndpoints
     THEN /\ offset' = [offset EXCEPT ![t] = @ + 1]
          /\ UNCHANGED <<preferred, pc>>
     ELSE /\ preferred' = (start[t] + 1) % NumEndpoints
          /\ pc' = [pc EXCEPT ![t] = "error"]
          /\ UNCHANGED offset
  /\ UNCHANGED <<head, logsServedBy, chunk, from, last, attempt, start, reply,
                 rejected>>

\* A range that is too large; the message may advertise the limit.
RejectRange(t) ==
  /\ Requested(t) > Limit[At(t)]
  /\ \E hint \in {NoHint, Limit[At(t)]} : Refuse(t, Error("range", hint))
  /\ UNCHANGED faults

\* No answer in time, a transport error, too many requests.
EndpointFails(t) ==
  /\ \E kind \in {"rate", "other"} : Refuse(t, Error(kind, NoHint))
  /\ Fault

\* An error that every endpoint would reproduce is not failed over.
Reverts(t) ==
  /\ pc[t] = "sent" /\ Fault
  /\ errors' = [errors EXCEPT ![t] = {Error("other", NoHint)}]
  /\ pc' = [pc EXCEPT ![t] = "error"]
  /\ UNCHANGED <<head, transport, chunk, from, last, attempt, start, offset,
                 reply, rejected>>

\* The locals of a request that is over.
RequestOver(t) ==
  /\ last' = [last EXCEPT ![t] = 0]
  /\ start' = [start EXCEPT ![t] = 0] /\ offset' = [offset EXCEPT ![t] = 0]
  /\ errors' = [errors EXCEPT ![t] = {}] /\ asked' = [asked EXCEPT ![t] = 0]
  /\ servedBy' = [servedBy EXCEPT ![t] = 0]

Accept(t) ==
  /\ OnSuccess
  /\ from' = [from EXCEPT ![t] = last[t] + 1]
  /\ pc' = [pc EXCEPT ![t] = "out"]
  /\ attempt' = [attempt EXCEPT ![t] = 0]
  /\ RequestOver(t)
  /\ UNCHANGED <<head, transport, rejected, faults>>

InWindow(t) == Target - last[t] < Window

AcceptUnchecked(t) ==
  /\ pc[t] = "served" /\ ~ InWindow(t)
  /\ Accept(t)

\* check_logs_endpoint_head asks the endpoint that served the latest logs.
AskHead(t) ==
  /\ pc[t] = "served" /\ InWindow(t)
  /\ asked' = [asked EXCEPT ![t] = logsServedBy]
  /\ pc' = [pc EXCEPT ![t] = "head"]
  /\ UNCHANGED <<head, transport, chunk, from, last, attempt, request, servedBy,
                 rejected, faults>>

AcceptChecked(t) ==
  /\ pc[t] = "head" /\ head[asked[t]] >= last[t]
  /\ Accept(t)

CheckError(t, error) ==
  /\ pc[t] = "head"
  /\ errors' = [errors EXCEPT ![t] = {error}]
  /\ pc' = [pc EXCEPT ![t] = "error"]
  /\ UNCHANGED <<head, logsServedBy, chunk, from, last, attempt, start, offset,
                 reply, rejected>>

HeadFails(t) ==
  /\ \E kind \in {"rate", "other"} : CheckError(t, Error(kind, NoHint))
  /\ Fault /\ UNCHANGED preferred

Demoted_Nothing(e) == preferred

\* demote
Demoted(e) ==
  IF preferred = e THEN (e + 1) % NumEndpoints ELSE preferred

\* The text of this error holds block numbers, and the digits 429 in one of
\* them make classify_rpc_error take it for a rate limit.
HeadBehind(t) ==
  /\ head[asked[t]] < last[t]
  /\ \E kind \in {"rate", "other"} : CheckError(t, Error(kind, NoHint))
  /\ preferred' = Demoted(asked[t])
  /\ UNCHANGED faults

\* What would go wrong: a failure is retried without being counted.
CountAttempt_Never(t) ==
  pc' = [pc EXCEPT ![t] = "loop"] /\ UNCHANGED attempt

\* The attempts are counted, and the last one hands the error to the caller.
CountAttempt(t) ==
  LET over == attempt[t] + 1 >= MaxAttempts IN
  /\ attempt' = [attempt EXCEPT ![t] = IF over THEN 0 ELSE @ + 1]
  /\ pc' = [pc EXCEPT ![t] = IF over THEN "out" ELSE "loop"]

\* The size that is left after a rejection is a smaller one.
Shrunk(span) == size' < span

\* classify_rpc_error of the joined messages: a range complaint wins over a
\* rate limit, and when there are several, any of their hints may be found.
Classified(t) ==
  LET kinds == {e.kind : e \in errors[t]} IN
  IF "range" \in kinds THEN "range" ELSE IF "rate" \in kinds THEN "rate" ELSE "other"

Hints(t) == {e.hint : e \in {f \in errors[t] : f.kind = "range"}}

RangeTooLarge(t) ==
  /\ Classified(t) = "range"
  /\ \E hint \in Hints(t) : OnRangeError(Requested(t), hint)
  /\ rejected' = IF Requested(t) > MinSpan THEN Least(rejected, Requested(t))
                 ELSE rejected
  /\ \/ /\ Shrunk(Requested(t))
        /\ pc' = [pc EXCEPT ![t] = "loop"] /\ UNCHANGED attempt
     \/ ~ Shrunk(Requested(t)) /\ CountAttempt(t)

RateLimited(t) ==
  /\ Classified(t) = "rate"
  /\ OnRateLimited
  /\ CountAttempt(t) /\ UNCHANGED rejected

Transient(t) ==
  /\ Classified(t) = "other"
  /\ CountAttempt(t) /\ UNCHANGED <<chunk, rejected>>

HandleError(t) ==
  /\ pc[t] = "error"
  /\ RangeTooLarge(t) \/ RateLimited(t) \/ Transient(t)
  /\ RequestOver(t)
  /\ UNCHANGED <<head, transport, from, faults>>

Step(t) ==
  \/ Call(t) \/ Request(t) \/ Serve(t) \/ RejectRange(t) \/ EndpointFails(t)
  \/ Reverts(t) \/ AcceptUnchecked(t) \/ AskHead(t) \/ AcceptChecked(t)
  \/ HeadFails(t) \/ HeadBehind(t) \/ HandleError(t)

\* An endpoint gets another block.
Advance(e) ==
  /\ e \notin Stuck /\ head[e] < Target
  /\ head' = [head EXCEPT ![e] = @ + 1]
  /\ UNCHANGED <<transport, chunk, pc, from, last, attempt, request, reply,
                 rejected, faults>>

Next == (\E t \in Task : Step(t)) \/ (\E e \in Endpoint : Advance(e))

Spec == Init /\ [][Next]_vars

\* Both tasks are scheduled, every await ends (requests have a timeout, the
\* backoff is a sleep), and the endpoints that are not stuck follow the chain.
Fairness ==
  /\ \A t \in Task : WF_vars(Step(t))
  /\ \A e \in Endpoint : WF_vars(Advance(e))

FairSpec == Spec /\ Fairness

------------------------------------------------------------------------------
(* Properties.                                                             *)

\* The shape of the state.  With one task, or none in flight, the size is
\* also bounded by the ceiling: see NotRejectedAgain.
TypeOK ==
  /\ head \in [Endpoint -> 0 .. Target]
  /\ preferred \in Endpoint /\ logsServedBy \in Endpoint
  /\ size \in MinSpan .. MaxSpan /\ ceiling \in MinSpan .. MaxSpan
  /\ streak \in 0 .. GrowAfter
  /\ pc \in [Task -> {"out", "loop", "sent", "served", "head", "error"}]
  /\ from \in [Task -> 1 .. Target + 1] /\ last \in [Task -> 0 .. Target]
  /\ attempt \in [Task -> 0 .. MaxAttempts - 1]
  /\ start \in [Task -> Endpoint] /\ offset \in [Task -> Endpoint]
  /\ errors \in [Task -> SUBSET [kind : Kinds, hint : Nat]]
  /\ asked \in [Task -> Endpoint] /\ servedBy \in [Task -> Endpoint]
  /\ rejected \in MinSpan + 1 .. MaxSpan + 1
  /\ faults \in 0 .. MaxFaults

Accepts(t) == from'[t] # from[t]

\* Logs that end near the target are only accepted from an endpoint that has
\* the end of their range: what a lagging endpoint may have cut off does not
\* advance the checkpoint, whichever endpoints failed before it, although the
\* transport only tells the caller afterwards who served the logs.
AcceptedFromEndpointAtEnd ==
  [][ \A t \in Task :
        Accepts(t) /\ InWindow(t) => head[servedBy[t]] >= last[t] ]_vars

\* "Range errors lower a learned ceiling (the provider's real limit) so the
\* size does not oscillate back into the same error" (AdaptiveChunk): no
\* request is made for a span as large as one that was rejected before, while
\* one task fetches logs.
NotRejectedAgain ==
  [][ \A t \in Task : pc[t] = "loop" /\ pc'[t] = "sent" =>
        last'[t] - from[t] + 1 < rejected ]_vars

\* With several tasks a late answer to a larger request may still raise the
\* size (OnRangeError halves what that request asked for).  What they share of
\* the promise is this: no run of successes, whichever tasks had them, grows
\* the size back to a span that any task was refused.
SuccessStaysBelowRejected ==
  [][ \A t \in Task : Accepts(t) /\ size' > size => size' < rejected ]_vars

\* What a call may still do: the attempts it has left, and how far its range
\* can still be shrunk without counting one.
Left(t) == (MaxAttempts - attempt[t]) * (MaxSpan + 1) + size

\* Nothing that happens in a call gives it more to do, and each failure that is
\* retried takes some of it away, whether the attempt is counted or the range
\* is shrunk instead: a call makes at most MaxAttempts * (MaxSpan + 1) +
\* MaxSpan requests, while one task fetches logs.
RetriesRunOut ==
  [][ \A t \in Task : pc[t] # "out" /\ pc'[t] # "out" =>
        /\ Left(t)' <= Left(t)
        /\ pc[t] = "error" /\ pc'[t] = "loop" => Left(t)' < Left(t) ]_vars

\* Every call ends with logs or an error, whatever the endpoints reject or cut
\* off: the loop that shrinks the range without counting an attempt is not
\* endless, and the retries of a stuck endpoint are counted.
CallsReturn == \A t \in Task : pc[t] # "out" ~> pc[t] = "out"

\* Every task gets all its logs as long as one endpoint follows the chain and
\* accepts small ranges, and other failures cease: "a lagging endpoint is
\* demoted so the retry goes elsewhere", "every chunk is retried ... and the
\* chunk size shrinks on range or rate errors" (src/chain/mod.rs, retry.rs).
Completes == <>(\A t \in Task : from[t] > Target)

=============================================================================
