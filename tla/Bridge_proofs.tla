--------------------------- MODULE Bridge_proofs ---------------------------
(***************************************************************************)
(* Proofs about Bridge for every set of requests and every stream limit.   *)
(***************************************************************************)
EXTENDS Bridge, FiniteSetTheorems, TLAPS

HolderPcs == PermitPcs \cup StreamPcs

\* active_streams counts the streams; the half of StreamLimit that steps keep.
GaugeExact == metrics.count["active"] = Cardinality(Streaming)

\* TypeOK alone is not inductive: that the gauge stays a natural number when
\* a stream is dropped follows from its being the number of streams.
PermitInv == TypeOK /\ PermitsConserved /\ GaugeExact

Weight(p, P) == IF p \in P THEN 1 ELSE 0

\* What MoveKeepsBalance asks of a step.
Balanced(r, to) ==
  /\ pc' = [pc EXCEPT ![r] = to]
  /\ permits' \in Int
  /\ metrics'.count["active"] \in Int
  /\ permits' + Weight(to, HolderPcs) = permits + Weight(pc[r], HolderPcs)
  /\ metrics'.count["active"] + Weight(pc[r], StreamPcs)
       = metrics.count["active"] + Weight(to, StreamPcs)

\* TypeOK but for the gauge being a natural number.
TypeBut ==
  /\ phase   \in {"serving", "draining", "stopped"}
  /\ permits \in Nat
  /\ pc      \in [Requests -> Pcs]
  /\ saw     \in [Requests -> BOOLEAN]
  /\ ending  \in [Requests -> Outcomes \cup {"open"}]
  /\ told    \in [Requests -> {"nothing", "completed", "failed"}]
  /\ verdict \in [Requests -> Outcomes \cup {"none"}]
  /\ billed  \in SUBSET Requests
  /\ quiet   \in SUBSET Requests
  /\ metrics \in [count : [Counters -> Int], latest : Requests \cup {NoRequest}]
  /\ \A c \in Counters \ {"active"} : metrics.count[c] \in Nat

-----------------------------------------------------------------------------
\* A task that moves changes the number of tasks in a set of suspension
\* points by what it leaves and what it enters.
LEMMA MoveCount ==
  ASSUME NEW r \in Requests, NEW to, NEW P,
         pc \in [Requests -> Pcs],
         pc' = [pc EXCEPT ![r] = to]
  PROVE  /\ Cardinality(At(P)) \in Nat
         /\ Cardinality(At(P)') \in Nat
         /\ Cardinality(At(P)') + Weight(pc[r], P) = Cardinality(At(P)) + Weight(to, P)
<1>1. IsFiniteSet(Requests)
  BY BridgeAssumption
<1>2. IsFiniteSet(At(P)) /\ IsFiniteSet(At(P)')
  <2>1. At(P) \in SUBSET Requests /\ At(P)' \in SUBSET Requests
    BY DEF At
  <2> QED  BY <1>1, <2>1, FS_Subset
<1>3. Cardinality(At(P)) \in Nat /\ Cardinality(At(P)') \in Nat
  BY <1>2, FS_CardinalityType
<1>4. CASE to \in P
  <2>1. At(P)' = At(P) \cup {r}
    BY <1>4 DEF At
  <2>2. Cardinality(At(P)') = IF r \in At(P) THEN Cardinality(At(P)) ELSE Cardinality(At(P)) + 1
    BY <1>2, <2>1, FS_AddElement
  <2>3. r \in At(P) <=> pc[r] \in P
    BY DEF At
  <2> QED  BY <1>3, <1>4, <2>2, <2>3 DEF Weight
<1>5. CASE to \notin P
  <2>1. At(P)' = At(P) \ {r}
    BY <1>5 DEF At
  <2>2. Cardinality(At(P)') = IF r \in At(P) THEN Cardinality(At(P)) - 1 ELSE Cardinality(At(P))
    BY <1>2, <2>1, FS_RemoveElement
  <2>3. r \in At(P) <=> pc[r] \in P
    BY DEF At
  <2> QED  BY <1>3, <1>5, <2>2, <2>3 DEF Weight
<1> QED  BY <1>3, <1>4, <1>5

\* A step that gives back a permit exactly when it leaves the permit's
\* suspension points, and moves the gauge exactly with the stream, keeps both
\* balances.
LEMMA MoveKeepsBalance ==
  ASSUME PermitInv,
         NEW r \in Requests, NEW to,
         pc' = [pc EXCEPT ![r] = to],
         permits' \in Int, metrics'.count["active"] \in Int,
         permits' + Weight(to, HolderPcs) = permits + Weight(pc[r], HolderPcs),
         metrics'.count["active"] + Weight(pc[r], StreamPcs)
           = metrics.count["active"] + Weight(to, StreamPcs)
  PROVE  PermitsConserved' /\ GaugeExact' /\ metrics'.count["active"] \in Nat
<1>1. pc \in [Requests -> Pcs] /\ permits \in Nat /\ MaxStreams \in Nat
  BY BridgeAssumption DEF PermitInv, TypeOK
<1>2. metrics.count["active"] \in Nat
  BY DEF PermitInv, TypeOK, Counters
<1>3. /\ Cardinality(At(HolderPcs)) \in Nat
      /\ Cardinality(At(HolderPcs)') \in Nat
      /\ Cardinality(At(HolderPcs)') + Weight(pc[r], HolderPcs)
           = Cardinality(At(HolderPcs)) + Weight(to, HolderPcs)
  BY <1>1, MoveCount
<1>4. /\ Cardinality(At(StreamPcs)) \in Nat
      /\ Cardinality(At(StreamPcs)') \in Nat
      /\ Cardinality(At(StreamPcs)') + Weight(pc[r], StreamPcs)
           = Cardinality(At(StreamPcs)) + Weight(to, StreamPcs)
  BY <1>1, MoveCount
<1>5. /\ permits + Cardinality(At(HolderPcs)) = MaxStreams
      /\ metrics.count["active"] = Cardinality(At(StreamPcs))
  BY DEF PermitInv, PermitsConserved, GaugeExact, Holders, Streaming, HolderPcs
<1>6. /\ Weight(pc[r], HolderPcs) \in Int /\ Weight(to, HolderPcs) \in Int
      /\ Weight(pc[r], StreamPcs) \in Int /\ Weight(to, StreamPcs) \in Int
  BY DEF Weight
<1>7. permits' + Cardinality(At(HolderPcs)') = MaxStreams
  BY <1>1, <1>3, <1>5, <1>6
<1>8. metrics'.count["active"] = Cardinality(At(StreamPcs)')
  <2> DEFINE x == metrics'.count["active"]
             y == Cardinality(At(StreamPcs)')
             v == Weight(pc[r], StreamPcs)
             w == Weight(to, StreamPcs)
             a == Cardinality(At(StreamPcs))
  <2>1. x \in Int /\ y \in Int /\ v \in Int /\ w \in Int /\ a \in Int
    BY <1>4, <1>6
  <2>2. x + v = a + w /\ y + v = a + w
    BY <1>4, <1>5
  <2> HIDE DEF x, y, v, w, a
  <2>3. x = y
    BY <2>1, <2>2
  <2> QED  BY <2>3 DEF x, y
<1> QED  BY <1>4, <1>7, <1>8 DEF PermitsConserved, GaugeExact, Holders, Streaming, HolderPcs

\* One step of each action, for a request r.
LEMMA ActionBalance ==
  ASSUME TypeOK, NEW r \in Requests, Handler(r) \/ Stream(r) \/ Leave(r)
  PROVE  TypeBut' /\ \E to \in Pcs : Balanced(r, to)
<1> USE DEF TypeOK, TypeBut, Balanced, Weight, HolderPcs, PermitPcs, FreePcs,
            StreamPcs, LivePcs, EndPcs, Pcs, Outcomes, Counters, Step, reqVars
<1>1. CASE RejectEarly(r)
  BY <1>1 DEF RejectEarly, Bump
<1>2. CASE Accept(r)
  BY <1>2 DEF Accept, Bump
<1>3. CASE BadBody(r)
  BY <1>3 DEF BadBody, FailBeforeStream, RecordOutcome, Bump, CounterOf
<1>4. CASE Busy(r)
  BY <1>4 DEF Busy, FailBeforeStream, RecordOutcome, Bump, CounterOf
<1>5. CASE AcquirePermit(r)
  BY <1>5 DEF AcquirePermit
<1>6. CASE GoOn(r)
  BY <1>6 DEF GoOn
<1>7. CASE GiveUp(r)
  BY <1>7 DEF GiveUp, FailBeforeStream, RecordOutcome, Bump, CounterOf, Release
<1>8. CASE ErrorStatus(r)
  BY <1>8 DEF ErrorStatus, Release
<1>9. CASE ErrorBodyRead(r)
  BY <1>9 DEF ErrorBodyRead, FailBeforeStream, RecordOutcome, Bump, CounterOf
<1>10. CASE Refuse(r)
  BY <1>10 DEF Refuse
<1>11. CASE StartStream(r)
  BY <1>11 DEF StartStream, Bump
<1>12. CASE Poll(r)
  BY <1>12 DEF Poll, RecordOutcome, Bump, CounterOf
<1>13. CASE ForwardFrame(r)
  BY <1>13 DEF ForwardFrame
<1>14. CASE BadFrame(r)
  BY <1>14 DEF BadFrame, YieldTerminal
<1>15. CASE CompletedFrame(r)
  BY <1>15 DEF CompletedFrame
<1>16. CASE UsageRecorded(r)
  BY <1>16 DEF UsageRecorded
<1>17. CASE UpstreamError(r)
  BY <1>17 DEF UpstreamError, YieldTerminal
<1>18. CASE IdleTimeout(r)
  BY <1>18 DEF IdleTimeout, YieldTerminal
<1>19. CASE UpstreamEnd(r)
  BY <1>19 DEF UpstreamEnd, YieldTerminal, RecordOutcome, Bump, CounterOf
<1>20. CASE FinishStream(r)
  <2>1. /\ metrics'.count = [metrics.count EXCEPT !["active"] = @ - 1]
        /\ metrics'.latest = r
        /\ metrics' = [count |-> metrics'.count, latest |-> r]
    BY <1>20 DEF FinishStream
  <2>2. /\ metrics'.count \in [Counters -> Int]
        /\ metrics'.count["active"] = metrics.count["active"] - 1
        /\ \A c \in Counters \ {"active"} : metrics'.count[c] = metrics.count[c]
    BY <2>1
  <2>3. /\ metrics' \in [count : [Counters -> Int], latest : Requests \cup {NoRequest}]
        /\ \A c \in Counters \ {"active"} : metrics'.count[c] \in Nat
    BY <2>1, <2>2
  <2>4. TypeBut'
    BY <1>20, <2>3 DEF FinishStream, Release
  <2>5. Balanced(r, "served")
    BY <1>20, <2>2 DEF FinishStream, Release
  <2> QED  BY <2>4, <2>5
<1>21. CASE DropHandler(r)
  BY <1>21 DEF DropHandler
<1>22. CASE DropStream(r)
  <2>1. /\ metrics'.count = [[metrics.count EXCEPT !["active"] = @ - 1]
                                              EXCEPT !["cancelled"] = @ + 1]
        /\ metrics' = [count |-> metrics'.count, latest |-> metrics.latest]
    BY <1>22 DEF DropStream
  <2>2. /\ metrics'.count \in [Counters -> Int]
        /\ metrics'.count["active"] = metrics.count["active"] - 1
        /\ metrics'.count["cancelled"] = metrics.count["cancelled"] + 1
        /\ \A c \in Counters \ {"active", "cancelled"} :
             metrics'.count[c] = metrics.count[c]
    BY <2>1
  <2>3. /\ metrics' \in [count : [Counters -> Int], latest : Requests \cup {NoRequest}]
        /\ \A c \in Counters \ {"active"} : metrics'.count[c] \in Nat
    BY <2>1, <2>2
  <2>4. TypeBut'
    BY <1>22, <2>3 DEF DropStream, Release
  <2>5. Balanced(r, "cut")
    BY <1>22, <2>2 DEF DropStream, Release
  <2> QED  BY <2>4, <2>5
<1> QED
  BY <1>1, <1>2, <1>3, <1>4, <1>5, <1>6, <1>7, <1>8, <1>9, <1>10, <1>11, <1>12, <1>13, <1>14, <1>15, <1>16, <1>17, <1>18, <1>19, <1>20, <1>21, <1>22 DEF Handler, Stream, Leave

LEMMA PermitInvInit == Init => PermitInv
<1> SUFFICES ASSUME Init PROVE PermitInv
  OBVIOUS
<1>1. TypeOK
  BY BridgeAssumption DEF Init, TypeOK, Pcs, Outcomes, Counters
<1>2. Holders = {} /\ Streaming = {}
  BY DEF Init, Holders, Streaming, At, PermitPcs, StreamPcs
<1>3. Cardinality({}) = 0
  BY FS_EmptySet
<1>4. permits = MaxStreams /\ metrics.count["active"] = 0
  BY DEF Init, Counters
<1> QED
  BY <1>1, <1>2, <1>3, <1>4, BridgeAssumption
  DEF PermitInv, PermitsConserved, GaugeExact

LEMMA PermitInvStep == PermitInv /\ [Next]_vars => PermitInv'
<1> SUFFICES ASSUME PermitInv, [Next]_vars PROVE PermitInv'
  OBVIOUS
<1>1. ASSUME NEW r \in Requests, Handler(r) \/ Stream(r) \/ Leave(r)
      PROVE  PermitInv'
  <2>1. TypeBut' /\ \E to \in Pcs : Balanced(r, to)
    BY <1>1, ActionBalance DEF PermitInv
  <2>2. PICK to \in Pcs : Balanced(r, to)
    BY <2>1
  <2>3. PermitsConserved' /\ GaugeExact' /\ metrics'.count["active"] \in Nat
    BY <2>2, MoveKeepsBalance DEF Balanced
  <2>4. TypeOK'
    <3>1. metrics'.count \in [Counters -> Nat]
      BY <2>1, <2>3 DEF TypeBut
    <3> QED  BY <2>1, <3>1 DEF TypeBut, TypeOK
  <2> QED  BY <2>3, <2>4 DEF PermitInv
<1>2. ASSUME NEW r \in Requests, GoQuiet(r)
      PROVE  PermitInv'
  BY <1>2 DEF GoQuiet, Streaming, reqVars, PermitInv, TypeOK, PermitsConserved,
              GaugeExact, Holders, At
<1>3. CASE Signal \/ Drained \/ DrainTimeout
  BY <1>3 DEF Signal, Drained, DrainTimeout, Streaming, reqVars, PermitInv, TypeOK,
              PermitsConserved, GaugeExact, Holders, At
<1>4. CASE UNCHANGED vars
  BY <1>4 DEF vars, Streaming, PermitInv, TypeOK, PermitsConserved, GaugeExact,
              Holders, At
<1> QED  BY <1>1, <1>2, <1>3, <1>4 DEF Next

THEOREM PermitInvariant == Spec => []PermitInv
<1> QED  BY PermitInvInit, PermitInvStep, PTL DEF Spec

\* Every variable keeps its type; in particular no counter and no gauge of
\* Metrics, an unsigned integer in the code, ever falls below zero.
THEOREM TypeCorrect == Spec => []TypeOK
<1>1. PermitInv => TypeOK
  BY DEF PermitInv
<1> QED  BY <1>1, PermitInvariant, PTL

\* No path through the handler, the stream or a client that leaves loses a
\* permit or gives one back twice.
THEOREM PermitsAreConserved == Spec => []PermitsConserved
<1>1. PermitInv => PermitsConserved
  BY DEF PermitInv
<1> QED  BY <1>1, PermitInvariant, PTL

\* Never more than MaxStreams streams, and active_streams counts them exactly.
THEOREM StreamsAreLimited == Spec => []StreamLimit
<1>1. PermitInv => StreamLimit
  <2> SUFFICES ASSUME PermitInv PROVE StreamLimit
    OBVIOUS
  <2>1. IsFiniteSet(Holders) /\ Streaming \in SUBSET Holders
    <3>1. Holders \in SUBSET Requests
      BY DEF Holders, At
    <3>2. IsFiniteSet(Holders)
      BY <3>1, BridgeAssumption, FS_Subset
    <3> QED  BY <3>2 DEF Holders, Streaming, At
  <2>2. IsFiniteSet(Streaming) /\ Cardinality(Streaming) <= Cardinality(Holders)
    BY <2>1, FS_Subset
  <2>3. Cardinality(Holders) \in Nat /\ Cardinality(Streaming) \in Nat
    BY <2>1, <2>2, FS_CardinalityType
  <2>4. permits \in Nat /\ permits + Cardinality(Holders) = MaxStreams
    BY DEF PermitInv, TypeOK, PermitsConserved
  <2> QED  BY <2>2, <2>3, <2>4, BridgeAssumption DEF StreamLimit, PermitInv, GaugeExact
<1> QED  BY <1>1, PermitInvariant, PTL

-----------------------------------------------------------------------------
(* What a request has lived through can be read off where it is.           *)

BeforeStream == {"idle", "reading", "errorbody", "rejected"} \cup PermitPcs
Running      == {"unpolled", "waiting", "usage"}

\* The strengthening of VerdictMatchesClient.  The verdict is taken from
\* `ending` one resume after the client was told, so what connects the two is
\* an invariant of every suspension point in between.
Story(r) ==
  /\ pc[r] \in BeforeStream \cup Running => ending[r] = "open" /\ verdict[r] = "none"
  /\ pc[r] \in {"failing", "refused"} => ending[r] = "open" /\ verdict[r] = "failed"
  /\ pc[r] = "abandoned" => ending[r] = "open" /\ verdict[r] \in {"none", "failed"}
  /\ pc[r] = "yielded" => verdict[r] = "none"
  /\ pc[r] \in {"recording", "served"} => ending[r] # "open" /\ verdict[r] = ending[r]
  /\ pc[r] = "cut" => verdict[r] = "none" \/ (ending[r] # "open" /\ verdict[r] = ending[r])
  /\ pc[r] \in {"waiting", "yielded"} /\ ending[r] = "open" /\ saw[r]
       => told[r] = "completed"
  /\ pc[r] \in BeforeStream \cup {"unpolled"} => ~saw[r]
  /\ pc[r] = "usage" => saw[r]
  /\ ending[r] = "completed" => saw[r] /\ told[r] = "completed"
  /\ ending[r] = "failed" => told[r] = "failed"
  /\ ending[r] = "truncated" => ~saw[r] /\ told[r] = "failed"
  /\ r \in billed => saw[r]

StoryInv == /\ TypeOK
            /\ \A r \in Requests : Story(r)
            /\ LatestIsAnswered

LEMMA StoryInit == Init => StoryInv
<1> SUFFICES ASSUME Init PROVE StoryInv
  OBVIOUS
<1>1. TypeOK
  BY PermitInvInit DEF PermitInv
<1>2. \A r \in Requests : Story(r)
  BY DEF Init, Story, BeforeStream, PermitPcs, Running
<1>3. LatestIsAnswered
  BY DEF Init, LatestIsAnswered
<1> QED  BY <1>1, <1>2, <1>3 DEF StoryInv

\* A step of request r is a chapter of its own story and of no other.
LEMMA StoryAction ==
  ASSUME StoryInv, NEW r \in Requests, Handler(r) \/ Stream(r) \/ Leave(r)
  PROVE  /\ \A q \in Requests : Story(q)'
         /\ LatestIsAnswered'
<1> USE DEF StoryInv, TypeOK, Story, LatestIsAnswered, BeforeStream, Running,
            PermitPcs, FreePcs, StreamPcs, LivePcs, EndPcs, Pcs, Outcomes, Step, reqVars
<1>1. CASE RejectEarly(r)
  BY BridgeAssumption, <1>1 DEF RejectEarly, Bump
<1>2. CASE Accept(r)
  BY BridgeAssumption, <1>2 DEF Accept, Bump
<1>3. CASE BadBody(r)
  BY BridgeAssumption, <1>3 DEF BadBody, FailBeforeStream, RecordOutcome, Bump
<1>4. CASE Busy(r)
  BY BridgeAssumption, <1>4 DEF Busy, FailBeforeStream, RecordOutcome, Bump
<1>5. CASE AcquirePermit(r)
  BY BridgeAssumption, <1>5 DEF AcquirePermit
<1>6. CASE GoOn(r)
  BY BridgeAssumption, <1>6 DEF GoOn
<1>7. CASE GiveUp(r)
  BY BridgeAssumption, <1>7 DEF GiveUp, FailBeforeStream, RecordOutcome, Bump
<1>8. CASE ErrorStatus(r)
  BY BridgeAssumption, <1>8 DEF ErrorStatus
<1>9. CASE ErrorBodyRead(r)
  BY BridgeAssumption, <1>9 DEF ErrorBodyRead, FailBeforeStream, RecordOutcome, Bump
<1>10. CASE Refuse(r)
  BY BridgeAssumption, <1>10 DEF Refuse
<1>11. CASE StartStream(r)
  BY BridgeAssumption, <1>11 DEF StartStream, Bump
<1>12. CASE Poll(r)
  <2>1. CASE /\ \/ Step(r, "unpolled", "waiting")
                \/ ending[r] = "open" /\ Step(r, "yielded", "waiting")
             /\ UNCHANGED <<verdict, metrics>>
    <3>1. UNCHANGED <<saw, ending, told, billed, verdict, metrics>>
      BY <1>12, <2>1 DEF Poll
    <3>2. \A q \in Requests : Story(q)'
      BY <2>1, <3>1
    <3>3. LatestIsAnswered'
      BY BridgeAssumption, <2>1, <3>1
    <3> QED  BY <3>2, <3>3
  <2>2. CASE /\ ending[r] # "open"
             /\ Step(r, "yielded", "recording")
             /\ RecordOutcome(r, ending[r])
    <3>1. metrics'.latest = metrics.latest
      BY <2>2 DEF RecordOutcome, Bump
    <3>2. \A q \in Requests : Story(q)'
      BY <1>12, <2>2 DEF Poll, RecordOutcome
    <3>3. LatestIsAnswered'
      BY BridgeAssumption, <2>2, <3>1
    <3> QED  BY <3>2, <3>3
  <2> QED  BY <1>12, <2>1, <2>2 DEF Poll
<1>13. CASE ForwardFrame(r)
  BY BridgeAssumption, <1>13 DEF ForwardFrame
<1>14. CASE BadFrame(r)
  BY BridgeAssumption, <1>14 DEF BadFrame, YieldTerminal
<1>15. CASE CompletedFrame(r)
  BY BridgeAssumption, <1>15 DEF CompletedFrame
<1>16. CASE UsageRecorded(r)
  BY BridgeAssumption, <1>16 DEF UsageRecorded
<1>17. CASE UpstreamError(r)
  BY BridgeAssumption, <1>17 DEF UpstreamError, YieldTerminal
<1>18. CASE IdleTimeout(r)
  BY BridgeAssumption, <1>18 DEF IdleTimeout, YieldTerminal
<1>19. CASE UpstreamEnd(r)
  BY BridgeAssumption, <1>19 DEF UpstreamEnd, YieldTerminal, RecordOutcome, Bump
<1>20. CASE FinishStream(r)
  BY BridgeAssumption, <1>20 DEF FinishStream
<1>21. CASE DropHandler(r)
  BY BridgeAssumption, <1>21 DEF DropHandler
<1>22. CASE DropStream(r)
  BY BridgeAssumption, <1>22 DEF DropStream
<1> QED
  BY <1>1, <1>2, <1>3, <1>4, <1>5, <1>6, <1>7, <1>8, <1>9,
     <1>10, <1>11, <1>12, <1>13, <1>14, <1>15, <1>16, <1>17, <1>18,
     <1>19, <1>20, <1>21, <1>22
  DEF Handler, Stream, Leave

LEMMA StoryStep == StoryInv /\ PermitInv /\ [Next]_vars => StoryInv'
<1> SUFFICES ASSUME StoryInv, PermitInv, [Next]_vars PROVE StoryInv'
  OBVIOUS
<1>1. TypeOK'
  BY PermitInvStep DEF PermitInv
<1>2. (\A q \in Requests : Story(q)') /\ LatestIsAnswered'
  <2>1. ASSUME NEW r \in Requests, Handler(r) \/ Stream(r) \/ Leave(r)
        PROVE  (\A q \in Requests : Story(q)') /\ LatestIsAnswered'
    BY <2>1, StoryAction
  <2>2. CASE UNCHANGED <<pc, saw, ending, told, verdict, billed, metrics>>
    BY <2>2 DEF StoryInv, Story, LatestIsAnswered
  <2>3. ASSUME NEW r \in Requests, GoQuiet(r)
        PROVE  UNCHANGED <<pc, saw, ending, told, verdict, billed, metrics>>
    BY <2>3 DEF GoQuiet, reqVars
  <2>4. Signal \/ Drained \/ DrainTimeout \/ UNCHANGED vars
          => UNCHANGED <<pc, saw, ending, told, verdict, billed, metrics>>
    BY DEF Signal, Drained, DrainTimeout, vars, reqVars
  <2> QED  BY <2>1, <2>2, <2>3, <2>4 DEF Next
<1> QED  BY <1>1, <1>2 DEF StoryInv

THEOREM StoryInvariant == Spec => []StoryInv
<1> QED  BY StoryInit, StoryStep, PermitInvariant, PTL DEF Spec

\* The outcome /v1/status counts is the one the client was told.
THEOREM VerdictsMatchClients == Spec => []VerdictMatchesClient
<1>1. StoryInv => VerdictMatchesClient
  BY DEF StoryInv, TypeOK, Story, VerdictMatchesClient, BeforeStream, Running,
         PermitPcs, StreamPcs, Outcomes, Pcs, LivePcs, EndPcs, FreePcs
<1> QED  BY <1>1, StoryInvariant, PTL

\* latest_request never shows a request that runs or whose client left.
THEOREM LatestWasAnswered == Spec => []LatestIsAnswered
<1>1. StoryInv => LatestIsAnswered
  BY DEF StoryInv
<1> QED  BY <1>1, StoryInvariant, PTL

\* After the bridge's own failure event the client is told nothing more.
THEOREM FailuresAreLast == Spec => FailureIsLast
<1>1. StoryInv /\ StoryInv' /\ [Next]_vars =>
        [\A r \in Requests :
           ending[r] # "open" => /\ told'[r] = told[r]
                                 /\ ending'[r] = ending[r]
                                 /\ pc'[r] # "waiting"]_vars
  <2> SUFFICES ASSUME StoryInv, StoryInv', Next, NEW r \in Requests, ending[r] # "open"
               PROVE  told'[r] = told[r] /\ ending'[r] = ending[r] /\ pc'[r] # "waiting"
    BY DEF vars
  <2>1. pc[r] \in {"yielded", "recording", "served", "cut"}
    BY DEF StoryInv, TypeOK, Story, BeforeStream, Running, PermitPcs, FreePcs,
           StreamPcs, LivePcs, EndPcs, Pcs
  <2>2. told'[r] = told[r] /\ ending'[r] = ending[r]
    <3>1. CASE UNCHANGED <<told, ending>>
      BY <3>1
    <3>2. ASSUME NEW q \in Requests, UNCHANGED <<told, ending>> \/ pc[q] \in {"waiting", "usage"},
                 \A p \in Requests \ {q} : told'[p] = told[p] /\ ending'[p] = ending[p]
          PROVE  told'[r] = told[r] /\ ending'[r] = ending[r]
      BY <2>1, <3>2
    <3>3. ASSUME NEW q \in Requests, Handler(q) \/ Leave(q) \/ GoQuiet(q)
          PROVE  UNCHANGED <<told, ending>>
      BY <3>3 DEF Handler, RejectEarly, Accept, BadBody, Busy, AcquirePermit, GoOn, GiveUp,
                  ErrorStatus, ErrorBodyRead, Refuse, StartStream, FailBeforeStream,
                  Leave, DropHandler, DropStream, GoQuiet, reqVars
    <3>4. Signal \/ Drained \/ DrainTimeout => UNCHANGED <<told, ending>>
      BY DEF Signal, Drained, DrainTimeout, reqVars
    <3>5. ASSUME NEW q \in Requests, Stream(q)
          PROVE  /\ UNCHANGED <<told, ending>> \/ pc[q] \in {"waiting", "usage"}
                 /\ \A p \in Requests \ {q} : told'[p] = told[p] /\ ending'[p] = ending[p]
      BY <3>5 DEF Stream, Poll, ForwardFrame, BadFrame, CompletedFrame, UsageRecorded,
                  UpstreamError, IdleTimeout, UpstreamEnd, FinishStream, YieldTerminal,
                  Step, reqVars, StoryInv, TypeOK
    <3> QED  BY <3>1, <3>2, <3>3, <3>4, <3>5 DEF Next
  <2>3. pc'[r] # "waiting"
    BY <2>2 DEF StoryInv, TypeOK, Story, Running
  <2> QED  BY <2>2, <2>3
<1> QED  BY <1>1, StoryInvariant, PTL DEF Spec, FailureIsLast

-----------------------------------------------------------------------------
(* Refinement: Bridge implements StreamSlots.                              *)

\* How a step may move one request in the abstract specification.
StageStep(r) ==
  \/ Stage(r)' = Stage(r)
  \/ Stage(r)' = "over"
  \/ Stage(r) = "new" /\ Stage(r)' = "asking"
  \/ Stage(r) = "asking" /\ Stage(r)' = "holding" /\ permits > 0

LEMMA ActionStage ==
  ASSUME TypeOK, NEW r \in Requests, Handler(r) \/ Stream(r) \/ Leave(r)
  PROVE  /\ StageStep(r)
         /\ \E to \in Pcs : pc' = [pc EXCEPT ![r] = to]
<1> USE DEF TypeOK, Stage, StageStep, Holders, At, PermitPcs, FreePcs, StreamPcs,
            LivePcs, EndPcs, Pcs, Step
<1>1. CASE RejectEarly(r)
  BY <1>1 DEF RejectEarly
<1>2. CASE Accept(r)
  BY <1>2 DEF Accept
<1>3. CASE BadBody(r)
  BY <1>3 DEF BadBody, FailBeforeStream
<1>4. CASE Busy(r)
  BY <1>4 DEF Busy, FailBeforeStream
<1>5. CASE AcquirePermit(r)
  BY <1>5 DEF AcquirePermit
<1>6. CASE GoOn(r)
  BY <1>6 DEF GoOn
<1>7. CASE GiveUp(r)
  BY <1>7 DEF GiveUp, FailBeforeStream
<1>8. CASE ErrorStatus(r)
  BY <1>8 DEF ErrorStatus
<1>9. CASE ErrorBodyRead(r)
  BY <1>9 DEF ErrorBodyRead, FailBeforeStream
<1>10. CASE Refuse(r)
  BY <1>10 DEF Refuse
<1>11. CASE StartStream(r)
  BY <1>11 DEF StartStream
<1>12. CASE Poll(r)
  BY <1>12 DEF Poll
<1>13. CASE ForwardFrame(r)
  BY <1>13 DEF ForwardFrame
<1>14. CASE BadFrame(r)
  BY <1>14 DEF BadFrame, YieldTerminal
<1>15. CASE CompletedFrame(r)
  BY <1>15 DEF CompletedFrame
<1>16. CASE UsageRecorded(r)
  BY <1>16 DEF UsageRecorded
<1>17. CASE UpstreamError(r)
  BY <1>17 DEF UpstreamError, YieldTerminal
<1>18. CASE IdleTimeout(r)
  BY <1>18 DEF IdleTimeout, YieldTerminal
<1>19. CASE UpstreamEnd(r)
  BY <1>19 DEF UpstreamEnd, YieldTerminal
<1>20. CASE FinishStream(r)
  BY <1>20 DEF FinishStream
<1>21. CASE DropHandler(r)
  BY <1>21 DEF DropHandler
<1>22. CASE DropStream(r)
  BY <1>22 DEF DropStream
<1> QED
  BY <1>1, <1>2, <1>3, <1>4, <1>5, <1>6, <1>7, <1>8, <1>9,
     <1>10, <1>11, <1>12, <1>13, <1>14, <1>15, <1>16, <1>17, <1>18,
     <1>19, <1>20, <1>21, <1>22
  DEF Handler, Stream, Leave

\* StreamSlots counts with its own instance of FiniteSets.
LEMMA SameCardinality == ASSUME NEW S PROVE Slots!Cardinality(S) = Cardinality(S)
BY Zenon DEF Slots!Cardinality, Cardinality

LEMMA HoldingIsHolders == Slots!Holding = Holders
<1>1. ASSUME NEW r \in Requests
      PROVE  Stage(r) = "holding" <=> r \in Holders
  BY DEF Stage, Holders, At, PermitPcs, StreamPcs
<1> QED  BY <1>1 DEF Slots!Holding, Holders, At

LEMMA SlotsInit == Init => Slots!Init
<1>1. Init => \A r \in Requests : Stage(r) = "new"
  BY DEF Init, Stage, Holders, At, PermitPcs, StreamPcs
<1> QED  BY <1>1 DEF Slots!Init

LEMMA SlotsStep ==
  PermitInv /\ [Next]_vars => [Slots!Next]_[r \in Requests |-> Stage(r)]
<1> DEFINE stage == [r \in Requests |-> Stage(r)]
<1> SUFFICES ASSUME PermitInv, [Next]_vars PROVE [Slots!Next]_stage
  OBVIOUS
<1>1. ASSUME NEW r \in Requests, Handler(r) \/ Stream(r) \/ Leave(r)
      PROVE  [Slots!Next]_stage
  <2>1. StageStep(r) /\ \E to \in Pcs : pc' = [pc EXCEPT ![r] = to]
    BY <1>1, ActionStage DEF PermitInv
  <2>2. \A q \in Requests \ {r} : Stage(q)' = Stage(q)
    BY <2>1 DEF PermitInv, TypeOK, Stage, Holders, At
  <2>3. stage' = [stage EXCEPT ![r] = Stage(r)']
    BY <2>2
  <2>4. CASE Stage(r)' = Stage(r)
    BY <2>3, <2>4
  <2>5. CASE Stage(r) # "over" /\ Stage(r)' = "over"
    <3>1. Slots!Over(r)
      BY <2>3, <2>5 DEF Slots!Over
    <3> QED  BY <3>1 DEF Slots!Next
  <2>6. CASE Stage(r) = "new" /\ Stage(r)' = "asking"
    <3>1. Slots!Ask(r)
      BY <2>3, <2>6 DEF Slots!Ask
    <3> QED  BY <3>1 DEF Slots!Next
  <2>7. CASE Stage(r) = "asking" /\ Stage(r)' = "holding" /\ permits > 0
    <3>1. Cardinality(Holders) < MaxStreams
      <4>1. IsFiniteSet(Holders)
        <5>1. Holders \in SUBSET Requests
          BY DEF Holders, At
        <5> QED  BY <5>1, BridgeAssumption, FS_Subset
      <4>2. Cardinality(Holders) \in Nat
        BY <4>1, FS_CardinalityType
      <4> QED  BY <2>7, <4>2, BridgeAssumption DEF PermitInv, TypeOK, PermitsConserved
    <3>2. Slots!Grant(r)
      <4>1. Slots!Cardinality(Slots!Holding) < MaxStreams
        BY <3>1, HoldingIsHolders, SameCardinality
      <4>2. stage[r] = "asking" /\ stage' = [stage EXCEPT ![r] = "holding"]
        BY <2>3, <2>7
      <4> QED  BY <4>1, <4>2 DEF Slots!Grant
    <3> QED  BY <3>2 DEF Slots!Next
  <2> QED  BY <2>1, <2>4, <2>5, <2>6, <2>7 DEF StageStep
<1>2. CASE UNCHANGED pc
  <2>1. stage' = stage
    BY <1>2 DEF Stage, Holders, At
  <2> QED  BY <2>1
<1>3. ASSUME NEW r \in Requests, GoQuiet(r)
      PROVE  UNCHANGED pc
  BY <1>3 DEF GoQuiet
<1>4. Signal \/ Drained \/ DrainTimeout \/ UNCHANGED vars => UNCHANGED pc
  BY DEF Signal, Drained, DrainTimeout, vars
<1> QED  BY <1>1, <1>2, <1>3, <1>4 DEF Next

\* The detailed bridge implements the abstract semaphore of StreamSlots.
THEOREM BridgeImplementsSlots == Spec => ImplementsSlots
<1> QED  BY SlotsInit, SlotsStep, PermitInvariant, PTL DEF Spec, ImplementsSlots, Slots!Spec

-----------------------------------------------------------------------------
(* The books.                                                              *)

Outcome(c) == c["succeeded"] + c["failed"] + c["truncated"] + c["cancelled"]

\* How a request with this suspension point and verdict stands in the books.
OwedBy(p, v)   == IF p \in LivePcs /\ v = "none" THEN 1 ELSE 0
SilentBy(p, v) == IF p \in {"rejected", "abandoned"} /\ v = "none" THEN 1 ELSE 0
TwiceBy(p, v)  == IF p = "cut" /\ v # "none" THEN 1 ELSE 0

\* A step of request r books in the counters what r's own standing gains.
Booked(r) ==
  /\ \A q \in Requests : q # r => pc'[q] = pc[q] /\ verdict'[q] = verdict[q]
  /\ metrics'.count \in [Counters -> Int]
  /\ metrics'.count["total"] + TwiceBy(pc'[r], verdict'[r])
       + Outcome(metrics.count) + OwedBy(pc[r], verdict[r]) + SilentBy(pc[r], verdict[r])
     = metrics.count["total"] + TwiceBy(pc[r], verdict[r])
       + Outcome(metrics'.count) + OwedBy(pc'[r], verdict'[r]) + SilentBy(pc'[r], verdict'[r])

\* Two sets of requests that agree but for r differ in size by r.
LEMMA CountBut ==
  ASSUME NEW r \in Requests, NEW S \in SUBSET Requests, NEW T \in SUBSET Requests,
         \A q \in Requests : q # r => (q \in S <=> q \in T)
  PROVE  /\ Cardinality(S) \in Nat /\ Cardinality(T) \in Nat
         /\ Cardinality(T) + Weight(r, S) = Cardinality(S) + Weight(r, T)
<1>1. IsFiniteSet(S) /\ IsFiniteSet(T)
  BY BridgeAssumption, FS_Subset
<1>2. Cardinality(S) \in Nat /\ Cardinality(T) \in Nat
  BY <1>1, FS_CardinalityType
<1>3. CASE r \in T
  <2>1. T = S \cup {r}  BY <1>3
  <2>2. Cardinality(T) = IF r \in S THEN Cardinality(S) ELSE Cardinality(S) + 1
    BY <1>1, <2>1, FS_AddElement
  <2> QED  BY <1>2, <1>3, <2>2 DEF Weight
<1>4. CASE r \notin T
  <2>1. T = S \ {r}  BY <1>4
  <2>2. Cardinality(T) = IF r \in S THEN Cardinality(S) - 1 ELSE Cardinality(S)
    BY <1>1, <2>1, FS_RemoveElement
  <2> QED  BY <1>2, <1>4, <2>2 DEF Weight
<1> QED  BY <1>2, <1>3, <1>4

LEMMA BookedKeepsBalance ==
  ASSUME TypeOK, BooksBalance, NEW r \in Requests, Booked(r)
  PROVE  BooksBalance'
<1> DEFINE c == metrics.count
           d == metrics'.count
<1>1. /\ Owed \in SUBSET Requests /\ Owed' \in SUBSET Requests
      /\ Silent \in SUBSET Requests /\ Silent' \in SUBSET Requests
      /\ Twice \in SUBSET Requests /\ Twice' \in SUBSET Requests
  BY DEF Owed, Silent, Twice, At
<1>2. \A q \in Requests : q # r =>
        /\ q \in Owed <=> q \in Owed'
        /\ q \in Silent <=> q \in Silent'
        /\ q \in Twice <=> q \in Twice'
  BY DEF Booked, Owed, Silent, Twice, At, Recorded
<1>3. /\ Weight(r, Owed) = OwedBy(pc[r], verdict[r])
      /\ Weight(r, Owed') = OwedBy(pc'[r], verdict'[r])
      /\ Weight(r, Silent) = SilentBy(pc[r], verdict[r])
      /\ Weight(r, Silent') = SilentBy(pc'[r], verdict'[r])
      /\ Weight(r, Twice) = TwiceBy(pc[r], verdict[r])
      /\ Weight(r, Twice') = TwiceBy(pc'[r], verdict'[r])
  BY DEF Weight, OwedBy, SilentBy, TwiceBy, Owed, Silent, Twice, At, Recorded
<1>4. /\ Cardinality(Owed) \in Nat /\ Cardinality(Owed') \in Nat
      /\ Cardinality(Owed') + Weight(r, Owed) = Cardinality(Owed) + Weight(r, Owed')
  BY <1>1, <1>2, CountBut
<1>5. /\ Cardinality(Silent) \in Nat /\ Cardinality(Silent') \in Nat
      /\ Cardinality(Silent') + Weight(r, Silent) = Cardinality(Silent) + Weight(r, Silent')
  BY <1>1, <1>2, CountBut
<1>6. /\ Cardinality(Twice) \in Nat /\ Cardinality(Twice') \in Nat
      /\ Cardinality(Twice') + Weight(r, Twice) = Cardinality(Twice) + Weight(r, Twice')
  BY <1>1, <1>2, CountBut
<1>7. /\ c["total"] \in Int /\ Outcome(c) \in Int
      /\ d["total"] \in Int /\ Outcome(d) \in Int
  BY DEF TypeOK, Booked, Outcome, Counters
<1>8. /\ Weight(r, Owed) \in Int /\ Weight(r, Owed') \in Int
      /\ Weight(r, Silent) \in Int /\ Weight(r, Silent') \in Int
      /\ Weight(r, Twice) \in Int /\ Weight(r, Twice') \in Int
  BY DEF Weight
<1>9. c["total"] + Cardinality(Twice)
        = Outcome(c) + Cardinality(Owed) + Cardinality(Silent)
  BY <1>4, <1>5, <1>6 DEF BooksBalance, Outcome, TypeOK, Counters
<1>10. d["total"] + Weight(r, Twice') + Outcome(c) + Weight(r, Owed) + Weight(r, Silent)
         = c["total"] + Weight(r, Twice) + Outcome(d) + Weight(r, Owed') + Weight(r, Silent')
  BY <1>3 DEF Booked
<1>11. d["total"] + Cardinality(Twice')
         = Outcome(d) + Cardinality(Owed') + Cardinality(Silent')
  <2> DEFINE ct == c["total"]    dt == d["total"]
             co == Outcome(c)    do == Outcome(d)
             o == Cardinality(Owed)    oo == Cardinality(Owed')
             n == Cardinality(Silent)  nn == Cardinality(Silent')
             t == Cardinality(Twice)   tt == Cardinality(Twice')
             wo == Weight(r, Owed)     woo == Weight(r, Owed')
             wn == Weight(r, Silent)   wnn == Weight(r, Silent')
             wt == Weight(r, Twice)    wtt == Weight(r, Twice')
  <2>1. /\ ct \in Int /\ dt \in Int /\ co \in Int /\ do \in Int
        /\ o \in Int /\ oo \in Int /\ n \in Int /\ nn \in Int /\ t \in Int /\ tt \in Int
        /\ wo \in Int /\ woo \in Int /\ wn \in Int /\ wnn \in Int /\ wt \in Int /\ wtt \in Int
    BY <1>4, <1>5, <1>6, <1>7, <1>8
  <2>2. /\ oo + wo = o + woo
        /\ nn + wn = n + wnn
        /\ tt + wt = t + wtt
        /\ ct + t = co + o + n
        /\ dt + wtt + co + wo + wn = ct + wt + do + woo + wnn
    BY <1>4, <1>5, <1>6, <1>9, <1>10
  <2> HIDE DEF ct, dt, co, do, o, oo, n, nn, t, tt, wo, woo, wn, wnn, wt, wtt
  <2>3. dt + tt = do + oo + nn
    BY <2>1, <2>2
  <2> QED  BY <2>3 DEF dt, tt, do, oo, nn
<1> QED  BY <1>4, <1>5, <1>6, <1>7, <1>11 DEF BooksBalance, Outcome, Booked, Counters

\* Moves that leave the verdict and the counters of the books alone.
LEMMA PlainMove ==
  ASSUME StoryInv, NEW r \in Requests, NEW from \in Pcs, NEW to \in Pcs,
         Step(r, from, to), UNCHANGED verdict,
         \A c \in Counters \ {"active"} : metrics'.count[c] = metrics.count[c],
         metrics'.count \in [Counters -> Int],
         \/ from \in LivePcs /\ to \in LivePcs
         \/ from \in {"failing", "recording"} /\ to \in {"refused", "served"}
  PROVE  Booked(r)
<1>1. /\ pc \in [Requests -> Pcs] /\ verdict \in [Requests -> Outcomes \cup {"none"}]
      /\ ending \in [Requests -> Outcomes \cup {"open"}]
      /\ Story(r)
  BY DEF StoryInv, TypeOK
<1>2. pc[r] = from /\ pc'[r] = to /\ \A q \in Requests : q # r => pc'[q] = pc[q]
  BY <1>1 DEF Step
<1>3. /\ metrics'.count["total"] = metrics.count["total"]
      /\ Outcome(metrics'.count) = Outcome(metrics.count)
  BY DEF Outcome, Counters
<1>4. /\ TwiceBy(from, verdict[r]) = TwiceBy(to, verdict[r])
      /\ OwedBy(from, verdict[r]) = OwedBy(to, verdict[r])
      /\ SilentBy(from, verdict[r]) = SilentBy(to, verdict[r])
  <2>1. CASE from \in LivePcs /\ to \in LivePcs
    BY <2>1 DEF TwiceBy, OwedBy, SilentBy, LivePcs, PermitPcs, FreePcs, StreamPcs
  <2>2. CASE from \in {"failing", "recording"} /\ to \in {"refused", "served"}
    <3>1. verdict[r] # "none"  BY <1>1, <1>2, <2>2 DEF Story, Outcomes
    <3> QED  BY <2>2, <3>1 DEF TwiceBy, OwedBy, SilentBy
  <2> QED  BY <2>1, <2>2
<1> QED  BY <1>2, <1>3, <1>4 DEF Booked

\* record_outcome(): what was owed is booked.
LEMMA RecordMove ==
  ASSUME StoryInv, NEW r \in Requests, NEW from \in LivePcs, NEW to \in {"failing", "recording"},
         NEW o \in Outcomes, from \notin {"failing", "recording"},
         Step(r, from, to), RecordOutcome(r, o)
  PROVE  Booked(r)
<1> USE DEF LivePcs, PermitPcs, FreePcs, StreamPcs
<1>1. /\ pc \in [Requests -> Pcs] /\ verdict \in [Requests -> Outcomes \cup {"none"}]
      /\ metrics \in [count : [Counters -> Nat], latest : Requests \cup {NoRequest}]
      /\ Story(r)
  BY DEF StoryInv, TypeOK
<1>2. /\ pc[r] = from /\ pc'[r] = to /\ verdict'[r] = o
      /\ \A q \in Requests : q # r => pc'[q] = pc[q] /\ verdict'[q] = verdict[q]
  BY <1>1 DEF Step, RecordOutcome
<1>3. verdict[r] = "none" /\ o # "none"
  BY <1>1, <1>2 DEF Story, BeforeStream, Running, Outcomes
<1>4. CounterOf(o) \in {"succeeded", "failed", "truncated"}  BY DEF CounterOf, Outcomes
<1>5. metrics'.count = [metrics.count EXCEPT ![CounterOf(o)] = @ + 1]
  BY <1>1 DEF RecordOutcome, Bump
<1>6. /\ metrics'.count \in [Counters -> Int]
      /\ metrics'.count["total"] = metrics.count["total"]
      /\ Outcome(metrics'.count) = Outcome(metrics.count) + 1
  BY <1>1, <1>4, <1>5 DEF Counters, Outcome
<1>7. /\ OwedBy(from, "none") = 1 /\ SilentBy(from, "none") = 0 /\ TwiceBy(from, "none") = 0
      /\ OwedBy(to, o) = 0 /\ SilentBy(to, o) = 0 /\ TwiceBy(to, o) = 0
  BY <1>3 DEF OwedBy, SilentBy, TwiceBy
<1>8. metrics.count["total"] \in Int /\ Outcome(metrics.count) \in Int
  BY <1>1 DEF Counters, Outcome
<1> QED  BY <1>2, <1>3, <1>6, <1>7, <1>8 DEF Booked

LEMMA ActionBooked ==
  ASSUME StoryInv, NEW r \in Requests, Handler(r) \/ Stream(r) \/ Leave(r)
  PROVE  Booked(r)
<1>0. /\ pc \in [Requests -> Pcs] /\ verdict \in [Requests -> Outcomes \cup {"none"}]
      /\ ending \in [Requests -> Outcomes \cup {"open"}]
      /\ metrics \in [count : [Counters -> Nat], latest : Requests \cup {NoRequest}]
      /\ Story(r)
  BY DEF StoryInv, TypeOK
<1>00. /\ metrics.count \in [Counters -> Int]
       /\ metrics.count["total"] \in Int /\ Outcome(metrics.count) \in Int
  BY <1>0 DEF Counters, Outcome
<1> USE DEF Pcs, LivePcs, EndPcs, PermitPcs, FreePcs, StreamPcs
<1>1. CASE RejectEarly(r) \/ Accept(r)
  <2>1. metrics'.count = [metrics.count EXCEPT !["total"] = @ + 1]
    BY <1>0, <1>1 DEF RejectEarly, Accept, Bump
  <2>2. /\ metrics'.count \in [Counters -> Int]
        /\ metrics'.count["total"] = metrics.count["total"] + 1
        /\ Outcome(metrics'.count) = Outcome(metrics.count)
    BY <1>00, <2>1 DEF Counters, Outcome
  <2>3. /\ verdict' = verdict /\ pc[r] = "idle" /\ pc'[r] \in {"rejected", "reading"}
        /\ \A q \in Requests : q # r => pc'[q] = pc[q]
    BY <1>0, <1>1 DEF RejectEarly, Accept, Step
  <2>4. verdict[r] = "none"  BY <1>0, <2>3 DEF Story, BeforeStream
  <2>5. /\ OwedBy(pc[r], verdict[r]) = 0 /\ SilentBy(pc[r], verdict[r]) = 0
        /\ TwiceBy(pc[r], verdict[r]) = 0 /\ TwiceBy(pc'[r], verdict'[r]) = 0
        /\ OwedBy(pc'[r], verdict'[r]) + SilentBy(pc'[r], verdict'[r]) = 1
        /\ OwedBy(pc'[r], verdict'[r]) \in Int /\ SilentBy(pc'[r], verdict'[r]) \in Int
    BY <2>3, <2>4 DEF OwedBy, SilentBy, TwiceBy
  <2> QED  BY <1>00, <2>2, <2>3, <2>5 DEF Booked
<1>2. CASE BadBody(r) \/ Busy(r) \/ GiveUp(r) \/ ErrorBodyRead(r)
  <2>1. \E from \in LivePcs \ {"failing", "recording"} : FailBeforeStream(r, from)
    BY <1>2 DEF BadBody, Busy, GiveUp, ErrorBodyRead
  <2> QED  BY <2>1, RecordMove DEF FailBeforeStream, Outcomes
<1>3. CASE AcquirePermit(r) \/ GoOn(r) \/ ErrorStatus(r)
  <2>1. UNCHANGED <<verdict, metrics>>
    BY <1>3 DEF AcquirePermit, GoOn, ErrorStatus
  <2>2. \E from \in LivePcs, to \in LivePcs : Step(r, from, to)
    BY <1>3 DEF AcquirePermit, GoOn, ErrorStatus
  <2> QED  BY <1>00, <2>1, <2>2, PlainMove
<1>4. CASE Refuse(r)
  <2>1. metrics'.count = metrics.count  BY <1>4 DEF Refuse
  <2> QED  BY <1>00, <1>4, <2>1, PlainMove DEF Refuse
<1>5. CASE StartStream(r)
  <2>1. metrics'.count = [metrics.count EXCEPT !["active"] = @ + 1]
    BY <1>0, <1>5 DEF StartStream, Bump
  <2>2. /\ metrics'.count \in [Counters -> Int]
        /\ \A c \in Counters \ {"active"} : metrics'.count[c] = metrics.count[c]
    BY <1>00, <2>1 DEF Counters
  <2> QED  BY <1>5, <2>2, PlainMove DEF StartStream
<1>6. CASE Poll(r)
  <2>1. CASE /\ \/ Step(r, "unpolled", "waiting")
                \/ ending[r] = "open" /\ Step(r, "yielded", "waiting")
             /\ UNCHANGED <<verdict, metrics>>
    BY <1>00, <2>1, PlainMove
  <2>2. CASE /\ ending[r] # "open"
             /\ Step(r, "yielded", "recording")
             /\ RecordOutcome(r, ending[r])
    <3>1. ending[r] \in Outcomes  BY <1>0, <2>2
    <3> QED  BY <2>2, <3>1, RecordMove
  <2> QED  BY <1>6, <2>1, <2>2 DEF Poll
<1>7. CASE ForwardFrame(r) \/ BadFrame(r) \/ UpstreamError(r) \/ IdleTimeout(r)
           \/ CompletedFrame(r) \/ UsageRecorded(r)
  <2>1. UNCHANGED <<verdict, metrics>>
    BY <1>7 DEF ForwardFrame, BadFrame, UpstreamError, IdleTimeout, CompletedFrame,
                UsageRecorded, YieldTerminal
  <2>2. \E from \in LivePcs, to \in LivePcs : Step(r, from, to)
    BY <1>7 DEF ForwardFrame, BadFrame, UpstreamError, IdleTimeout, CompletedFrame,
                UsageRecorded, YieldTerminal
  <2> QED  BY <1>00, <2>1, <2>2, PlainMove
<1>8. CASE UpstreamEnd(r)
  <2>1. CASE saw[r]
    <3>1. Step(r, "waiting", "recording") /\ RecordOutcome(r, "completed")
      BY <1>8, <2>1 DEF UpstreamEnd
    <3> QED  BY <3>1, RecordMove DEF Outcomes
  <2>2. CASE ~saw[r]
    <3>1. Step(r, "waiting", "yielded") /\ UNCHANGED <<verdict, metrics>>
      BY <1>8, <2>2 DEF UpstreamEnd, YieldTerminal
    <3> QED  BY <1>00, <3>1, PlainMove
  <2> QED  BY <2>1, <2>2
<1>9. CASE FinishStream(r)
  <2>1. metrics'.count = [metrics.count EXCEPT !["active"] = @ - 1]
    BY <1>0, <1>9 DEF FinishStream
  <2>2. /\ metrics'.count \in [Counters -> Int]
        /\ \A c \in Counters \ {"active"} : metrics'.count[c] = metrics.count[c]
    BY <1>00, <2>1 DEF Counters
  <2> QED  BY <1>9, <2>2, PlainMove DEF FinishStream
<1>10. CASE DropHandler(r)
  <2>1. /\ UNCHANGED <<verdict, metrics>>
        /\ pc[r] \in PermitPcs \cup FreePcs /\ pc'[r] = "abandoned"
        /\ \A q \in Requests : q # r => pc'[q] = pc[q]
    BY <1>0, <1>10 DEF DropHandler, Step
  <2>2. /\ TwiceBy(pc[r], verdict[r]) = 0 /\ TwiceBy(pc'[r], verdict'[r]) = 0
        /\ SilentBy(pc[r], verdict[r]) = 0 /\ OwedBy(pc'[r], verdict'[r]) = 0
        /\ OwedBy(pc[r], verdict[r]) = SilentBy(pc'[r], verdict'[r])
        /\ OwedBy(pc[r], verdict[r]) \in Int
    BY <2>1 DEF OwedBy, SilentBy, TwiceBy
  <2> QED  BY <1>00, <2>1, <2>2 DEF Booked
<1>11. CASE DropStream(r)
  <2>1. metrics'.count = [[metrics.count EXCEPT !["active"] = @ - 1]
                                         EXCEPT !["cancelled"] = @ + 1]
    BY <1>0, <1>11 DEF DropStream
  <2>2. /\ metrics'.count \in [Counters -> Int]
        /\ metrics'.count["total"] = metrics.count["total"]
        /\ Outcome(metrics'.count) = Outcome(metrics.count) + 1
    BY <1>0, <1>00, <2>1 DEF Counters, Outcome
  <2>3. /\ verdict' = verdict /\ pc[r] \in StreamPcs /\ pc'[r] = "cut"
        /\ \A q \in Requests : q # r => pc'[q] = pc[q]
    BY <1>0, <1>11 DEF DropStream, Step
  <2>4. /\ TwiceBy(pc[r], verdict[r]) = 0 /\ SilentBy(pc[r], verdict[r]) = 0
        /\ SilentBy(pc'[r], verdict'[r]) = 0 /\ OwedBy(pc'[r], verdict'[r]) = 0
        /\ OwedBy(pc[r], verdict[r]) + TwiceBy(pc'[r], verdict'[r]) = 1
        /\ OwedBy(pc[r], verdict[r]) \in Int /\ TwiceBy(pc'[r], verdict'[r]) \in Int
    BY <2>3 DEF OwedBy, SilentBy, TwiceBy
  <2> QED  BY <1>00, <2>2, <2>3, <2>4 DEF Booked
<1> QED
  BY <1>1, <1>2, <1>3, <1>4, <1>5, <1>6, <1>7, <1>8, <1>9, <1>10, <1>11
  DEF Handler, Stream, Leave

LEMMA BooksInit == Init => BooksBalance
<1> SUFFICES ASSUME Init PROVE BooksBalance
  OBVIOUS
<1>1. Owed = {} /\ Silent = {} /\ Twice = {}
  BY DEF Init, Owed, Silent, Twice, At, LivePcs, PermitPcs, FreePcs, StreamPcs
<1>2. Cardinality({}) = 0  BY FS_EmptySet
<1> QED  BY <1>1, <1>2 DEF Init, BooksBalance, Counters

\* Every request in the total is in exactly one outcome counter, still owed,
\* silent, or counted twice.
THEOREM BooksAreBalanced == Spec => []BooksBalance
<1>1. BooksBalance /\ StoryInv /\ [Next]_vars => BooksBalance'
  <2> SUFFICES ASSUME BooksBalance, StoryInv, [Next]_vars PROVE BooksBalance'
    OBVIOUS
  <2>1. ASSUME NEW r \in Requests, Handler(r) \/ Stream(r) \/ Leave(r)
        PROVE  BooksBalance'
    BY <2>1, ActionBooked, BookedKeepsBalance DEF StoryInv
  <2>2. CASE UNCHANGED <<pc, verdict, metrics>>
    BY <2>2 DEF BooksBalance, Owed, Silent, Twice, At, Recorded
  <2>3. ASSUME NEW r \in Requests, GoQuiet(r) PROVE UNCHANGED <<pc, verdict, metrics>>
    BY <2>3 DEF GoQuiet
  <2>4. Signal \/ Drained \/ DrainTimeout \/ UNCHANGED vars => UNCHANGED <<pc, verdict, metrics>>
    BY DEF Signal, Drained, DrainTimeout, vars
  <2> QED  BY <2>1, <2>2, <2>3, <2>4 DEF Next
<1> QED  BY <1>1, BooksInit, StoryInvariant, PTL DEF Spec

=============================================================================
