---------------------------- MODULE LogFetchProofs ----------------------------
(***************************************************************************)
(* Proofs about LogFetch, for every value of its constants: for any tasks  *)
(* the types, and that successes do not grow a request back to what was    *)
(* rejected; for a single task what the comments of rpc.rs and retry.rs    *)
(* promise of endpoint and size (TLC shows that two tasks break both), and *)
(* that the retries of a call run out.                                     *)
(***************************************************************************)
EXTENDS LogFetch, TLAPS

LEMMA ModType ==
  ASSUME NEW m \in Nat, NEW n \in Nat \ {0}
  PROVE  m % n \in 0 .. n - 1
OBVIOUS

LEMMA HalfType ==
  ASSUME NEW m \in Nat
  PROVE  m \div 2 \in Nat /\ m \div 2 <= m /\ (m > 0 => m \div 2 < m)
OBVIOUS

LEMMA EndpointType ==
  /\ Endpoint \subseteq Nat /\ 0 \in Endpoint
  /\ \A e \in Endpoint : e < NumEndpoints
  /\ \A e \in Nat : e < NumEndpoints => e \in Endpoint
  /\ \A e \in Nat : e % NumEndpoints \in Endpoint
BY ConstantsAssumption, ModType DEF Endpoint

LEMMA AtType ==
  ASSUME TypeOK, NEW t \in Task PROVE At(t) \in Endpoint
<1>1. start[t] \in Endpoint /\ offset[t] \in Endpoint
  BY DEF TypeOK
<1>2. start[t] + offset[t] \in Nat
  BY <1>1, EndpointType
<1> QED BY <1>2, EndpointType DEF At

\* The chunk keeps its bounds whatever happens to it.
ChunkOk ==
  /\ size \in MinSpan .. MaxSpan /\ ceiling \in MinSpan .. MaxSpan
  /\ streak \in 0 .. GrowAfter

LEMMA SuccessType ==
  ASSUME ChunkOk, OnSuccess PROVE ChunkOk'
BY ConstantsAssumption DEF ChunkOk, OnSuccess, Least, GrowAfter

LEMMA RateType ==
  ASSUME ChunkOk, OnRateLimited PROVE ChunkOk'
BY ConstantsAssumption, HalfType DEF ChunkOk, OnRateLimited, Halved, Most, GrowAfter

\* A rejection also leaves a size below the rejected span, if it lowers any.
LEMMA RangeType ==
  ASSUME ChunkOk, NEW span \in 1 .. MaxSpan, NEW hint \in Nat, OnRangeError(span, hint)
  PROVE  /\ ChunkOk'
         /\ span > MinSpan => /\ size' < span /\ ceiling' < span
                              /\ span <= ceiling => size' <= ceiling'
         /\ span <= MinSpan => UNCHANGED <<size, ceiling>>
         /\ ceiling' <= ceiling
<1> USE ConstantsAssumption
<1>1. CASE span <= MinSpan
  BY <1>1 DEF ChunkOk, OnRangeError, GrowAfter
<1>2. CASE span > MinSpan
  <2> DEFINE next == IF hint # NoHint /\ hint < span THEN hint ELSE span \div 2
  <2>1. next \in Nat /\ next < span
    BY HalfType
  <2>2. /\ size' = Most(next, MinSpan) /\ ceiling' = Lowered(ceiling, size')
        /\ streak' = 0
    BY <1>2 DEF OnRangeError
  <2> HIDE DEF next
  <2> QED BY <1>2, <2>1, <2>2 DEF ChunkOk, Lowered, Most, Least, GrowAfter
<1> QED BY <1>1, <1>2 DEF ChunkOk

InFlight == {"sent", "served", "head", "error"}

\* The range of a request in flight is one, and no longer than a chunk.
RangesOk ==
  \A t \in Task : pc[t] \in InFlight =>
    from[t] <= Target /\ last[t] >= from[t] /\ Requested(t) <= MaxSpan

\* A task is only inside a call when it has blocks left to fetch.
CallsOk == \A t \in Task : pc[t] = "loop" => from[t] <= Target

FInv == TypeOK /\ RangesOk /\ CallsOk

LEMMA FetchInit == Init => FInv
<1> SUFFICES ASSUME Init PROVE FInv
  OBVIOUS
<1> USE ConstantsAssumption DEF Init
<1>1. TypeOK
  BY DEF TypeOK, Endpoint, GrowAfter
<1> QED BY <1>1 DEF FInv, RangesOk, CallsOk, InFlight

\* What every action of the call leaves alone for other tasks.
LEMMA RequestOverType ==
  ASSUME TypeOK, NEW t \in Task, RequestOver(t)
  PROVE  /\ last' \in [Task -> 0 .. Target]
         /\ start' \in [Task -> Endpoint] /\ offset' \in [Task -> Endpoint]
         /\ errors' \in [Task -> SUBSET [kind : Kinds, hint : Nat]]
         /\ asked' \in [Task -> Endpoint] /\ servedBy' \in [Task -> Endpoint]
         /\ \A u \in Task \ {t} : last'[u] = last[u]
<1>1. 0 \in 0 .. Target /\ 0 \in Endpoint
  BY ConstantsAssumption, EndpointType
<1>2. {} \in SUBSET [kind : Kinds, hint : Nat]
  OBVIOUS
<1> QED BY <1>1, <1>2 DEF TypeOK, RequestOver

LEMMA AcceptKeeps ==
  ASSUME FInv, NEW t \in Task, pc[t] \in {"served", "head"}, Accept(t) PROVE FInv'
<1> USE ConstantsAssumption
<1>1. ChunkOk'
  BY SuccessType DEF FInv, TypeOK, ChunkOk, Accept
<1>2. last[t] + 1 \in 1 .. Target + 1
  BY DEF FInv, TypeOK
<1>3. TypeOK'
  BY <1>1, <1>2, RequestOverType DEF FInv, TypeOK, Accept, transport, ChunkOk
<1>4. RangesOk' /\ CallsOk'
  BY RequestOverType DEF FInv, TypeOK, RangesOk, CallsOk, Accept, InFlight, Requested
<1> QED BY <1>3, <1>4 DEF FInv

LEMMA RefuseKeeps ==
  ASSUME FInv, NEW t \in Task, NEW error \in [kind : Kinds, hint : Nat], Refuse(t, error),
         faults' \in 0 .. MaxFaults
  PROVE  FInv'
<1> USE ConstantsAssumption
<1>1. (start[t] + 1) % NumEndpoints \in Endpoint
  <2>1. start[t] \in Endpoint
    BY DEF FInv, TypeOK
  <2>2. start[t] \in Nat
    BY <2>1, EndpointType, Zenon
  <2>3. start[t] + 1 \in Nat
    BY <2>2
  <2> QED BY <2>3, EndpointType
<1>2. offset[t] + 1 < NumEndpoints => offset[t] + 1 \in Endpoint
  <2>1. offset[t] \in Endpoint
    BY DEF FInv, TypeOK
  <2>2. offset[t] \in Nat
    BY <2>1, EndpointType, Zenon
  <2>3. offset[t] + 1 \in Nat
    BY <2>2
  <2> QED BY <2>3, EndpointType
<1>3. preferred' \in Endpoint /\ offset' \in [Task -> Endpoint]
  BY <1>1, <1>2 DEF FInv, TypeOK, Refuse
<1>4. pc' \in [Task -> {"out", "loop", "sent", "served", "head", "error"}]
  BY DEF FInv, TypeOK, Refuse
<1>5. errors' \in [Task -> SUBSET [kind : Kinds, hint : Nat]]
  BY DEF FInv, TypeOK, Refuse
<1>6. TypeOK'
  BY <1>3, <1>4, <1>5 DEF FInv, TypeOK, Refuse, chunk, reply
<1>7. RangesOk' /\ CallsOk'
  BY DEF FInv, TypeOK, RangesOk, CallsOk, Refuse, InFlight, Requested
<1> QED BY <1>6, <1>7 DEF FInv

LEMMA CheckErrorKeeps ==
  ASSUME FInv, NEW t \in Task, NEW error \in [kind : Kinds, hint : Nat], CheckError(t, error),
         faults' \in 0 .. MaxFaults, preferred' \in Endpoint
  PROVE  FInv'
<1>1. TypeOK'
  BY DEF FInv, TypeOK, CheckError, chunk, reply
<1>2. RangesOk' /\ CallsOk'
  BY DEF FInv, TypeOK, RangesOk, CallsOk, CheckError, InFlight, Requested
<1> QED BY <1>1, <1>2 DEF FInv

LEMMA ErrorType ==
  ASSUME NEW kind \in Kinds, NEW hint \in Nat
  PROVE  Error(kind, hint) \in [kind : Kinds, hint : Nat]
BY DEF Error

LEMMA HandleErrorKeeps ==
  ASSUME FInv, NEW t \in Task, HandleError(t) PROVE FInv'
<1> USE ConstantsAssumption
<1>1. Requested(t) \in 1 .. MaxSpan /\ from[t] <= Target /\ pc[t] = "error"
  BY DEF FInv, TypeOK, RangesOk, InFlight, HandleError, Requested
<1>2. ChunkOk
  BY DEF FInv, TypeOK, ChunkOk
<1>3. ChunkOk' /\ rejected' \in MinSpan + 1 .. MaxSpan + 1
  <2>1. CASE RangeTooLarge(t)
    <3>1. PICK e \in errors[t] : OnRangeError(Requested(t), e.hint)
      BY <2>1 DEF RangeTooLarge, Hints
    <3>2. e.hint \in Nat
      BY DEF FInv, TypeOK
    <3>3. ChunkOk'
      BY <1>1, <1>2, <3>1, <3>2, RangeType
    <3>4. rejected' \in MinSpan + 1 .. MaxSpan + 1
      BY <1>1, <2>1 DEF FInv, TypeOK, RangeTooLarge, Least
    <3> QED BY <3>3, <3>4
  <2>2. CASE RateLimited(t)
    BY <1>2, <2>2, RateType DEF RateLimited, FInv, TypeOK
  <2>3. CASE Transient(t)
    BY <1>2, <2>3 DEF Transient, chunk, ChunkOk, FInv, TypeOK
  <2> QED BY <2>1, <2>2, <2>3 DEF HandleError
<1>4. /\ attempt' \in [Task -> 0 .. MaxAttempts - 1]
      /\ pc' \in [Task -> {"out", "loop", "sent", "served", "head", "error"}]
      /\ pc'[t] \in {"out", "loop"} /\ \A u \in Task \ {t} : pc'[u] = pc[u]
  BY DEF FInv, TypeOK, HandleError, RangeTooLarge, RateLimited, Transient, CountAttempt
<1>5. TypeOK'
  BY <1>3, <1>4, RequestOverType DEF FInv, TypeOK, HandleError, transport, ChunkOk
<1>6. RangesOk' /\ CallsOk'
  BY <1>1, <1>4, RequestOverType
     DEF FInv, TypeOK, RangesOk, CallsOk, HandleError, InFlight, Requested
<1> QED BY <1>5, <1>6 DEF FInv

LEMMA FetchStep == FInv /\ [Next]_vars => FInv'
<1> SUFFICES ASSUME FInv, [Next]_vars PROVE FInv'
  OBVIOUS
<1> USE ConstantsAssumption
<1> USE DEF transport, chunk, request, reply
<1>1. CASE UNCHANGED vars
  BY <1>1 DEF vars, FInv, TypeOK, RangesOk, CallsOk, Requested
<1>2. ASSUME NEW e \in Endpoint, Advance(e) PROVE FInv'
  <2>1. TypeOK'
    BY <1>2 DEF FInv, TypeOK, Advance
  <2> QED BY <1>2, <2>1 DEF FInv, RangesOk, CallsOk, Requested, Advance
<1>3. ASSUME NEW t \in Task, Step(t) PROVE FInv'
  <2>1. CASE Call(t)
    <3>1. TypeOK'
      BY <2>1 DEF FInv, TypeOK, Call
    <3> QED BY <2>1, <3>1 DEF FInv, TypeOK, RangesOk, CallsOk, Requested, Call, InFlight
  <2>2. CASE Request(t)
    <3>1. /\ size \in Nat \ {0} /\ size <= MaxSpan /\ from[t] \in 1 .. Target
      BY <2>2 DEF FInv, TypeOK, CallsOk, Request
    <3>2. LET l == Least(from[t] + size - 1, Target) IN
            l \in 1 .. Target /\ l >= from[t] /\ l - from[t] + 1 <= MaxSpan
      BY <3>1 DEF Least
    <3>3. TypeOK'
      BY <2>2, <3>2 DEF FInv, TypeOK, Request
    <3>4. RangesOk' /\ CallsOk'
      BY <2>2, <3>1, <3>2 DEF FInv, TypeOK, RangesOk, CallsOk, Requested, Request, InFlight
    <3> QED BY <3>3, <3>4 DEF FInv
  <2>3. CASE Serve(t)
    <3>1. At(t) \in Endpoint
      BY AtType DEF FInv
    <3>2. head[At(t)] \in 0 .. Target /\ last[t] \in 0 .. Target
      BY <3>1 DEF FInv, TypeOK
    <3>3. Least(head[At(t)], last[t]) \in 0 .. Target
      BY <3>2 DEF Least
    <3>4. TypeOK'
      BY <2>3, <3>1, <3>3 DEF FInv, TypeOK, Serve, ServedBy
    <3> QED BY <2>3, <3>4 DEF FInv, TypeOK, RangesOk, CallsOk, Requested, Serve, InFlight
  <2>4. CASE RejectRange(t)
    <3>1. PICK hint \in {NoHint, Limit[At(t)]} : Refuse(t, Error("range", hint))
      BY <2>4 DEF RejectRange
    <3>2. hint \in Nat
      BY AtType DEF FInv, NoHint
    <3>3. faults' \in 0 .. MaxFaults
      BY <2>4 DEF RejectRange, FInv, TypeOK
    <3> QED BY <3>1, <3>2, <3>3, ErrorType, RefuseKeeps DEF Kinds
  <2>5. CASE EndpointFails(t)
    <3>1. PICK kind \in {"rate", "other"} : Refuse(t, Error(kind, NoHint))
      BY <2>5 DEF EndpointFails
    <3>2. faults' \in 0 .. MaxFaults
      BY <2>5 DEF EndpointFails, Fault, FInv, TypeOK
    <3>3. Error(kind, NoHint) \in [kind : Kinds, hint : Nat]
      BY ErrorType DEF Kinds, NoHint
    <3> QED BY <3>1, <3>2, <3>3, RefuseKeeps
  <2>6. CASE Reverts(t)
    <3>1. Error("other", NoHint) \in [kind : Kinds, hint : Nat]
      BY ErrorType DEF Kinds, NoHint
    <3>2. TypeOK'
      BY <2>6, <3>1 DEF FInv, TypeOK, Reverts, Fault
    <3> QED BY <2>6, <3>2 DEF FInv, TypeOK, RangesOk, CallsOk, Requested, Reverts, InFlight
  <2>7. CASE AcceptUnchecked(t)
    BY <2>7, AcceptKeeps DEF AcceptUnchecked
  <2>8. CASE AskHead(t)
    <3>1. TypeOK'
      BY <2>8 DEF FInv, TypeOK, AskHead
    <3> QED BY <2>8, <3>1 DEF FInv, TypeOK, RangesOk, CallsOk, Requested, AskHead, InFlight
  <2>9. CASE AcceptChecked(t)
    BY <2>9, AcceptKeeps DEF AcceptChecked
  <2>10. CASE HeadFails(t)
    <3>1. PICK kind \in {"rate", "other"} : CheckError(t, Error(kind, NoHint))
      BY <2>10 DEF HeadFails
    <3>2. faults' \in 0 .. MaxFaults /\ preferred' \in Endpoint
      BY <2>10 DEF HeadFails, Fault, FInv, TypeOK
    <3>3. Error(kind, NoHint) \in [kind : Kinds, hint : Nat]
      BY ErrorType DEF Kinds, NoHint
    <3> QED BY <3>1, <3>2, <3>3, CheckErrorKeeps
  <2>11. CASE HeadBehind(t)
    <3>1. PICK kind \in {"rate", "other"} : CheckError(t, Error(kind, NoHint))
      BY <2>11 DEF HeadBehind
    <3>2. faults' \in 0 .. MaxFaults
      BY <2>11 DEF HeadBehind, FInv, TypeOK
    <3>3. asked[t] \in Endpoint /\ preferred \in Endpoint
      BY DEF FInv, TypeOK
    <3>4. preferred' \in Endpoint
      BY <2>11, <3>3, EndpointType DEF HeadBehind, Demoted
    <3>5. Error(kind, NoHint) \in [kind : Kinds, hint : Nat]
      BY ErrorType DEF Kinds, NoHint
    <3> QED BY <3>1, <3>2, <3>4, <3>5, CheckErrorKeeps
  <2>12. CASE HandleError(t)
    BY <2>12, HandleErrorKeeps
  <2> QED BY <1>3, <2>1, <2>2, <2>3, <2>4, <2>5, <2>6, <2>7, <2>8, <2>9, <2>10, <2>11,
             <2>12 DEF Step
<1> QED BY <1>1, <1>2, <1>3 DEF Next

LEMMA FetchInvariant == Spec => []FInv
BY FetchInit, FetchStep, PTL DEF Spec

\* The shape of the state: indices stay those of endpoints, and the chunk
\* never leaves the bounds it was configured with, for any number of tasks.
THEOREM FetchTypeCorrect == Spec => []TypeOK
BY FetchInvariant, PTL DEF FInv

------------------------------------------------------------------------------
(* Any number of tasks: what they learn together is not unlearned.         *)

\* The ceiling is below every span that was rejected, whichever task's.
Learned == ceiling < rejected

\* A rejection lowers the ceiling below the rejected span, from any ceiling.
LEMMA RejectionTeaches ==
  ASSUME FInv, Learned, NEW t \in Task, pc[t] = "error", RangeTooLarge(t) PROVE Learned'
<1> USE ConstantsAssumption
<1>1. PICK e \in errors[t] : OnRangeError(Requested(t), e.hint)
  BY DEF RangeTooLarge, Hints
<1>2. e.hint \in Nat /\ ChunkOk
  BY DEF ChunkOk, FInv, TypeOK
<1>3. Requested(t) \in 1 .. MaxSpan
  BY DEF FInv, TypeOK, RangesOk, InFlight, Requested
<1>4. /\ ChunkOk' /\ ceiling' <= ceiling
      /\ Requested(t) > MinSpan => ceiling' < Requested(t)
  BY <1>1, <1>2, <1>3, RangeType
<1>5. rejected' = IF Requested(t) > MinSpan THEN Least(rejected, Requested(t))
                  ELSE rejected
  BY DEF RangeTooLarge
<1> QED BY <1>2, <1>3, <1>4, <1>5 DEF Learned, Least, ChunkOk, FInv, TypeOK

LEMMA LearnedStep == FInv /\ Learned /\ [Next]_vars => Learned'
<1> SUFFICES ASSUME FInv, Learned, [Next]_vars PROVE Learned'
  OBVIOUS
<1>1. CASE UNCHANGED <<ceiling, rejected>>
  BY <1>1 DEF Learned
<1>2. ASSUME NEW t \in Task, HandleError(t) PROVE Learned'
  <2>1. CASE RangeTooLarge(t)
    BY <1>2, <2>1, RejectionTeaches DEF HandleError
  <2>2. CASE RateLimited(t) \/ Transient(t)
    BY <1>1, <2>2 DEF RateLimited, OnRateLimited, Transient, chunk
  <2> QED BY <1>2, <2>1, <2>2 DEF HandleError
<1> QED BY <1>1, <1>2
        DEF Next, Step, Advance, Call, Request, Serve, RejectRange, EndpointFails, Refuse,
            Reverts, AcceptUnchecked, AskHead, AcceptChecked, Accept, OnSuccess, HeadFails,
            HeadBehind, CheckError, chunk, vars

\* However many tasks share the chunk, and however late a rejection arrives,
\* successes do not grow the size back to a span that was refused.
THEOREM SuccessesStayBelow == Spec => SuccessStaysBelowRejected
<1>1. Init => Learned
  BY ConstantsAssumption DEF Init, Learned
<1>2. FInv /\ FInv' /\ Learned /\ [Next]_vars =>
        [\A t \in Task : Accepts(t) /\ size' > size => size' < rejected]_vars
  <2> SUFFICES ASSUME FInv, FInv', Learned, NEW t \in Task, Accepts(t), size' > size,
                      Next
               PROVE  size' < rejected
    OBVIOUS
  <2>1. PICK u \in Task : AcceptUnchecked(u) \/ AcceptChecked(u)
    BY DEF Accepts, Next, Step, Advance, Call, Request, Serve, RejectRange, EndpointFails,
       Refuse, Reverts, AskHead, HeadFails, HeadBehind, CheckError, HandleError
  <2>2. OnSuccess /\ rejected' = rejected
    BY <2>1 DEF AcceptUnchecked, AcceptChecked, Accept
  <2>3. size' <= ceiling
    BY <2>2, ConstantsAssumption DEF OnSuccess, Least, FInv, TypeOK
  <2> QED BY <2>2, <2>3, ConstantsAssumption DEF Learned, FInv, TypeOK
<1> QED BY <1>1, <1>2, LearnedStep, FetchInvariant, PTL
        DEF Spec, SuccessStaysBelowRejected

------------------------------------------------------------------------------
(* A task that fetches alone.                                              *)

Alone == \A t, u \in Task : t = u

\* The size is the ceiling's to bound, a request in flight is not longer than
\* the size, and what the transport notes is about that request.
AloneInv ==
  /\ size <= ceiling /\ ceiling < rejected
  /\ \A t \in Task :
       /\ pc[t] \in InFlight => Requested(t) <= size
       /\ pc[t] = "served" => logsServedBy = servedBy[t]
       /\ pc[t] = "head" => asked[t] = servedBy[t]

LEMMA AloneStep ==
  ASSUME Alone PROVE FInv /\ FInv' /\ AloneInv /\ [Next]_vars => AloneInv'
<1> SUFFICES ASSUME FInv, FInv', AloneInv, [Next]_vars PROVE AloneInv'
  OBVIOUS
<1> USE ConstantsAssumption DEF transport, chunk, request, reply
<1>1. CASE UNCHANGED vars
  BY <1>1 DEF vars, AloneInv, Requested
<1>2. ASSUME NEW e \in Endpoint, Advance(e) PROVE AloneInv'
  BY <1>2 DEF AloneInv, Requested, Advance
<1>3. ASSUME NEW t \in Task, Step(t) PROVE AloneInv'
  <2> SUFFICES
        /\ size' <= ceiling' /\ ceiling' < rejected'
        /\ pc'[t] \in InFlight => last'[t] - from'[t] + 1 <= size'
        /\ pc'[t] = "served" => logsServedBy' = servedBy'[t]
        /\ pc'[t] = "head" => asked'[t] = servedBy'[t]
    BY DEF Alone, AloneInv, Requested
  <2>1. /\ size <= ceiling /\ ceiling < rejected
        /\ pc[t] \in InFlight => last[t] - from[t] + 1 <= size
        /\ pc[t] = "served" => logsServedBy = servedBy[t]
    BY DEF AloneInv, Requested
  <2> USE DEF FInv, TypeOK, InFlight
  <2>2. CASE Call(t)
    BY <2>1, <2>2 DEF Call
  <2>3. CASE Request(t)
    <3>1. last'[t] - from'[t] + 1 <= size'
      BY <2>3 DEF Request, Least
    <3> QED BY <2>1, <2>3, <3>1 DEF Request
  <2>4. CASE Serve(t)
    BY <2>1, <2>4 DEF Serve, ServedBy
  <2>5. ASSUME NEW error, Refuse(t, error)
        PROVE  /\ UNCHANGED <<size, ceiling, rejected, last, from>>
               /\ pc[t] = "sent" /\ pc'[t] \in {"sent", "error"}
    BY <2>5 DEF Refuse
  <2>6. CASE RejectRange(t) \/ EndpointFails(t)
    BY <2>1, <2>5, <2>6 DEF RejectRange, EndpointFails
  <2>7. CASE Reverts(t)
    BY <2>1, <2>7 DEF Reverts
  <2>8. CASE AcceptUnchecked(t) \/ AcceptChecked(t)
    <3>1. OnSuccess /\ rejected' = rejected /\ pc'[t] = "out"
      BY <2>8 DEF AcceptUnchecked, AcceptChecked, Accept
    <3>2. size' <= ceiling' /\ ceiling' = ceiling
      BY <2>1, <3>1 DEF OnSuccess, Least
    <3> QED BY <2>1, <3>1, <3>2
  <2>9. CASE AskHead(t)
    BY <2>1, <2>9 DEF AskHead
  <2>10. CASE HeadFails(t) \/ HeadBehind(t)
    BY <2>1, <2>10 DEF HeadFails, HeadBehind, CheckError
  <2>11. CASE HandleError(t)
    <3>1. pc'[t] \in {"out", "loop"}
      BY <2>11 DEF HandleError, RangeTooLarge, RateLimited, Transient, CountAttempt
    <3>2. Requested(t) \in 1 .. MaxSpan /\ Requested(t) <= size
      BY <2>1, <2>11 DEF RangesOk, HandleError, Requested
    <3>3. size' <= ceiling' /\ ceiling' < rejected'
      <4>1. CASE RangeTooLarge(t)
        <5>1. PICK e \in errors[t] : OnRangeError(Requested(t), e.hint)
          BY <4>1 DEF RangeTooLarge, Hints
        <5>2. e.hint \in Nat /\ ChunkOk
          BY DEF ChunkOk
        <5>3. /\ Requested(t) > MinSpan => ceiling' < Requested(t) /\ size' <= ceiling'
              /\ Requested(t) <= MinSpan => UNCHANGED <<size, ceiling>>
              /\ ceiling' <= ceiling
          BY <2>1, <3>2, <5>1, <5>2, RangeType
        <5>4. rejected' = IF Requested(t) > MinSpan THEN Least(rejected, Requested(t))
                          ELSE rejected
          BY <4>1 DEF RangeTooLarge, Hints
        <5> QED BY <2>1, <3>2, <5>3, <5>4 DEF Least
      <4>2. CASE RateLimited(t)
        BY <2>1, <4>2, HalfType DEF RateLimited, OnRateLimited, Halved, Most
      <4>3. CASE Transient(t)
        BY <2>1, <4>3 DEF Transient
      <4> QED BY <2>11, <4>1, <4>2, <4>3 DEF HandleError
    <3> QED BY <3>1, <3>3
  <2> QED BY <1>3, <2>2, <2>3, <2>4, <2>6, <2>7, <2>8, <2>9, <2>10, <2>11 DEF Step
<1> QED BY <1>1, <1>2, <1>3 DEF Next

LEMMA AloneInvariant ==
  ASSUME Alone PROVE Spec => []AloneInv
<1>1. Init => AloneInv
  BY ConstantsAssumption DEF Init, AloneInv, InFlight
<1>2. FInv /\ FInv' /\ AloneInv /\ [Next]_vars => AloneInv'
  BY AloneStep
<1> QED BY <1>1, <1>2, FetchInvariant, PTL DEF Spec

\* A task that fetches alone never asks for a span as large as one that was
\* rejected: the learned ceiling holds, whatever the limits, hints and failures.
THEOREM AloneNotRejectedAgain ==
  ASSUME Alone PROVE Spec => NotRejectedAgain
<1>1. FInv /\ AloneInv /\ [Next]_vars =>
        [\A t \in Task : pc[t] = "loop" /\ pc'[t] = "sent" =>
           last'[t] - from[t] + 1 < rejected]_vars
  <2> SUFFICES ASSUME FInv, AloneInv, NEW t \in Task, pc[t] = "loop", pc'[t] = "sent",
                      Next
               PROVE  last'[t] - from[t] + 1 < rejected
    OBVIOUS
  <2>1. PICK u \in Task : Step(u)
    BY DEF Next, Advance
  <2>2. Request(t)
    BY <2>1 DEF Alone, Step, Call, Request, Serve, RejectRange, EndpointFails, Refuse,
       Reverts, AcceptUnchecked, AskHead, AcceptChecked, HeadFails, HeadBehind, CheckError,
       HandleError
  <2>3. last'[t] \in Int /\ last'[t] <= from[t] + size - 1
    BY <2>2, ConstantsAssumption DEF Request, Least, FInv, TypeOK
  <2>4. from[t] \in Int /\ size \in Int /\ ceiling \in Int /\ rejected \in Int
    BY DEF FInv, TypeOK
  <2>5. size <= ceiling /\ ceiling < rejected
    BY DEF AloneInv
  <2> QED BY <2>3, <2>4, <2>5
<1> QED BY <1>1, FetchInvariant, AloneInvariant, PTL DEF Spec, NotRejectedAgain

\* What a task that fetches alone accepts near the target comes from an
\* endpoint that has reached the end of the range: without a second task,
\* logs_served_by is about its own request.
THEOREM AloneAcceptedFromEndpointAtEnd ==
  ASSUME Alone PROVE Spec => AcceptedFromEndpointAtEnd
<1>1. AloneInv /\ [Next]_vars =>
        [\A t \in Task :
           Accepts(t) /\ InWindow(t) => head[servedBy[t]] >= last[t]]_vars
  <2> SUFFICES ASSUME AloneInv, NEW t \in Task, Accepts(t), InWindow(t), Next
               PROVE  head[servedBy[t]] >= last[t]
    OBVIOUS
  <2>1. PICK u \in Task : Step(u)
    BY DEF Next, Advance, Accepts
  <2>2. AcceptChecked(t)
    BY <2>1 DEF Alone, Accepts, Step, Call, Request, Serve, RejectRange, EndpointFails,
       Refuse, Reverts, AcceptUnchecked, AskHead, HeadFails, HeadBehind, CheckError,
       HandleError
  <2> QED BY <2>2 DEF AcceptChecked, AloneInv
<1> QED BY <1>1, AloneInvariant, PTL DEF Spec, AcceptedFromEndpointAtEnd

\* An attempt weighs more than any size.
LEMMA AttemptOutweighsSize ==
  ASSUME NEW m \in Nat, NEW a \in Nat, NEW k \in Nat, NEW s \in Nat, NEW r \in Nat,
         s < k + r
  PROVE  (m - (a + 1)) * k + s < (m - a) * k + r
<1> DEFINE n == m - (a + 1)
<1>1. n \in Int /\ m - a = n + 1
  OBVIOUS
<1> HIDE DEF n
<1>2. (n + 1) * k = n * k + k /\ n * k \in Int
  BY <1>1
<1>3. n * k + s < (n + 1) * k + r
  BY <1>2
<1> QED BY <1>1, <1>3 DEF n

\* A failure that is retried costs an attempt, or some of the size.
LEMMA RetryCosts ==
  ASSUME Alone, FInv, FInv', AloneInv, NEW t \in Task, HandleError(t), pc'[t] = "loop"
  PROVE  Left(t)' < Left(t)
<1> USE ConstantsAssumption
<1>1. /\ size \in Nat /\ size' \in Nat /\ size' <= MaxSpan
      /\ attempt[t] \in Nat /\ MaxAttempts \in Nat /\ MaxSpan + 1 \in Nat
  BY DEF FInv, TypeOK
<1>2. Requested(t) \in 1 .. MaxSpan /\ Requested(t) <= size
  BY DEF FInv, TypeOK, RangesOk, AloneInv, InFlight, HandleError, Requested
<1>3. CountAttempt(t) => attempt'[t] = attempt[t] + 1
  BY DEF CountAttempt, FInv, TypeOK
<1>4. attempt'[t] = attempt[t] + 1 => Left(t)' < Left(t)
  <2> SUFFICES ASSUME attempt'[t] = attempt[t] + 1 PROVE Left(t)' < Left(t)
    OBVIOUS
  <2>1. (MaxAttempts - (attempt[t] + 1)) * (MaxSpan + 1) + size'
          < (MaxAttempts - attempt[t]) * (MaxSpan + 1) + size
    BY <1>1, AttemptOutweighsSize
  <2> QED BY <2>1 DEF Left
<1>5. attempt' = attempt /\ size' < size => Left(t)' < Left(t)
  <2> DEFINE w == (MaxAttempts - attempt[t]) * (MaxSpan + 1)
  <2>1. w \in Int
    BY <1>1
  <2>2. attempt' = attempt => Left(t)' = w + size' /\ Left(t) = w + size
    BY DEF Left
  <2> HIDE DEF w
  <2> QED BY <1>1, <2>1, <2>2
<1>6. CASE RangeTooLarge(t)
  <2>1. CASE attempt' = attempt
    <3>1. Shrunk(Requested(t))
      BY <1>1, <1>3, <2>1, <1>6 DEF RangeTooLarge
    <3> QED BY <1>1, <1>2, <1>5, <2>1, <3>1 DEF Shrunk
  <2>2. CASE CountAttempt(t)
    BY <1>3, <1>4, <2>2
  <2> QED BY <1>6, <2>1, <2>2 DEF RangeTooLarge
<1>7. CASE RateLimited(t) \/ Transient(t)
  BY <1>3, <1>4, <1>7 DEF RateLimited, Transient
<1> QED BY <1>6, <1>7 DEF HandleError

\* The retries of a task that fetches alone run out: no chunk is fetched in an
\* endless loop, whatever the endpoints answer.
THEOREM AloneRetriesRunOut ==
  ASSUME Alone PROVE Spec => RetriesRunOut
<1>1. FInv /\ FInv' /\ AloneInv /\ [Next]_vars =>
        [\A t \in Task : pc[t] # "out" /\ pc'[t] # "out" =>
           /\ Left(t)' <= Left(t)
           /\ pc[t] = "error" /\ pc'[t] = "loop" => Left(t)' < Left(t)]_vars
  <2> SUFFICES ASSUME FInv, FInv', AloneInv, NEW t \in Task, pc[t] # "out",
                      pc'[t] # "out", Next
               PROVE  /\ Left(t)' <= Left(t)
                      /\ pc[t] = "error" /\ pc'[t] = "loop" => Left(t)' < Left(t)
    OBVIOUS
  <2>1. Left(t) \in Int /\ Left(t)' \in Int
    BY ConstantsAssumption DEF FInv, TypeOK, Left
  <2>2. CASE UNCHANGED <<attempt, size>> /\ ~ (pc[t] = "error" /\ pc'[t] = "loop")
    BY <2>1, <2>2 DEF Left
  <2>3. CASE \E e \in Endpoint : Advance(e)
    BY <2>2, <2>3 DEF Advance, chunk
  <2>4. CASE \E u \in Task : Step(u)
    <3>1. Step(t)
      BY <2>4 DEF Alone
    <3>2. CASE HandleError(t)
      <4>1. pc'[t] = "loop"
        BY <3>2 DEF HandleError, RangeTooLarge, RateLimited, Transient, CountAttempt,
           FInv, TypeOK
      <4> QED BY <2>1, <3>2, <4>1, RetryCosts
    <3>3. CASE \/ Call(t) \/ Request(t) \/ Serve(t) \/ AskHead(t) \/ Reverts(t)
      BY <2>2, <3>3 DEF Call, Request, Serve, AskHead, Reverts, chunk, transport, FInv,
         TypeOK
    <3>4. CASE RejectRange(t) \/ EndpointFails(t) \/ HeadFails(t) \/ HeadBehind(t)
      BY <2>2, <3>4 DEF RejectRange, EndpointFails, HeadFails, HeadBehind, Refuse,
         CheckError, chunk
    <3>5. CASE AcceptUnchecked(t) \/ AcceptChecked(t)
      BY <3>5 DEF AcceptUnchecked, AcceptChecked, Accept, FInv, TypeOK
    <3> QED BY <3>1, <3>2, <3>3, <3>4, <3>5 DEF Step
  <2> QED BY <2>3, <2>4 DEF Next
<1> QED BY <1>1, FetchInvariant, AloneInvariant, PTL DEF Spec, RetriesRunOut

=============================================================================
