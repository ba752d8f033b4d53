---------------------------- MODULE Quota_proofs ----------------------------
(***************************************************************************)
(* Proofs about Quota, for every bound: types, the snapshot, the order of  *)
(* the published limits, and the shutdown.                                 *)
(***************************************************************************)
EXTENDS Quota, SequenceTheorems, TLAPS

-----------------------------------------------------------------------------
(* The inductive invariant: the types, in two halves that different steps  *)
(* disturb, and the number of sessions.                                    *)

Active == Greeting \cup {"select"}

DataTypes ==
  /\ snapshot \in Snapshot
  /\ requests \in Seq(Calls)
  /\ lines \in Seq(Limits \cup {None})
  /\ usage \in Limits

ControlTypes ==
  /\ pc \in Pcs
  /\ delay \in 1..MaxDelay
  /\ session \in Sessions \cup {0}
  /\ from \in Sessions \cup {0}
  /\ running \in SUBSET Sessions
  /\ piped \in SUBSET Sessions
  /\ cancelled \in BOOLEAN
  /\ late \in Nat
  /\ failures \in 0..MaxFailures

\* Every session but the open one has cost a failure, so the bound on failures
\* bounds the sessions; the open one is dead only if its death was counted.
SessionsAreCounted ==
  /\ pc \in Active => session # 0 /\ session \in piped
  /\ pc \in {"checking", "spawning", "failed", "sleeping"} => session <= failures
  /\ pc \in Active /\ session \notin running => session <= failures
  /\ session <= failures + 1

CInv == ControlTypes /\ SessionsAreCounted
IInv == DataTypes /\ CInv

LEMMA TypesInTwoHalves == TypeOK <=> DataTypes /\ ControlTypes
  BY Zenon DEF TypeOK, DataTypes, ControlTypes

\* The initial state satisfies the invariant.
LEMMA IInvInit == Init => IInv
<1>. SUFFICES ASSUME Init PROVE IInv
  OBVIOUS
<1>1. DataTypes
  <2>1. snapshot \in Snapshot /\ usage \in Limits
    BY QuotaAssumption DEF Init, Snapshot, Limits
  <2>2. requests \in Seq(Calls) /\ lines \in Seq(Limits \cup {None})
    BY DEF Init
  <2>. QED  BY <2>1, <2>2 DEF DataTypes
<1>2. CInv
  <2>1. /\ pc = "checking" /\ delay = 1 /\ session = 0 /\ from = 0 /\ late = 0
        /\ running = {} /\ piped = {} /\ cancelled = FALSE /\ failures = 0
    BY DEF Init
  <2>2. SessionsAreCounted
    BY ONLY <2>1 DEF SessionsAreCounted, Active, Greeting
  <2>3. failures \in 0..MaxFailures
    BY ONLY <2>1, QuotaAssumption
  <2>4. pc \in Pcs /\ delay \in 1..MaxDelay /\ late \in Nat
    BY <2>1 DEF Pcs, MaxDelay
  <2>5. /\ session \in Sessions \cup {0} /\ from \in Sessions \cup {0}
        /\ running \in SUBSET Sessions /\ piped \in SUBSET Sessions
        /\ cancelled \in BOOLEAN
    BY ONLY <2>1, Zenon
  <2>. QED  BY ONLY <2>2, <2>3, <2>4, <2>5 DEF CInv, ControlTypes
<1>. QED  BY <1>1, <1>2 DEF IInv

-----------------------------------------------------------------------------
(* Steps, the data.                                                        *)

\* Every step keeps the snapshot, the pipes and the account in their types.
LEMMA DataNext == ASSUME IInv, [Next]_vars PROVE DataTypes'
<1>. USE DEF IInv, DataTypes
<1>1. CASE Check
  BY <1>1 DEF Check, pipes, world
<1>2. CASE Spawn
  BY <1>2 DEF Spawn, world
<1>3. CASE SpawnFails
  BY <1>3 DEF SpawnFails, pipes, world
<1>a. ASSUME LoseSession PROVE DataTypes'
  BY <1>a DEF LoseSession, world
<1>b. ASSUME NEW call \in Calls, NEW next, Send(call, next) PROVE DataTypes'
  BY <1>a, <1>b DEF Send, world
<1>4. CASE Greet
  BY <1>b, <1>4 DEF Greet, Calls
<1>5. CASE MarkStale
  BY <1>5 DEF MarkStale, Snapshot, pipes, world
<1>6. CASE Wake
  BY <1>6 DEF Wake, pipes, world
<1>7. CASE Tick
  BY <1>b, <1>7 DEF Tick, Calls
<1>8. CASE ReadLine
  <2>1. Head(lines) \in Limits \cup {None} /\ lines' \in Seq(Limits \cup {None})
    BY <1>8 DEF ReadLine
  <2>2. snapshot' \in Snapshot
    <3>1. CASE Head(lines) = None
      BY <1>8, <3>1 DEF ReadLine, Handle
    <3>2. CASE Head(lines) # None
      <4>1. snapshot' = [state |-> "ready", stale |-> FALSE, limit |-> Head(lines), error |-> FALSE]
        BY <1>8, <3>2 DEF ReadLine, Handle
      <4>. QED  BY ONLY <2>1, <4>1 DEF Snapshot
    <3>. QED  BY <3>1, <3>2
  <2>. QED  BY <1>8, <2>1, <2>2 DEF ReadLine, world
<1>9. CASE ReadFails
  BY <1>a, <1>9 DEF ReadFails
<1>10. CASE Stop
  BY <1>10 DEF Stop, world
<1>11. ASSUME NEW reply \in Limits \cup {None}, Answer(reply) PROVE DataTypes'
  <2>1. requests' \in Seq(Calls)
    BY <1>11 DEF Answer
  <2>2. lines' = lines \/ lines' = Append(lines, reply)
    BY <1>11 DEF Answer
  <2>3. lines' \in Seq(Limits \cup {None})
    BY ONLY IInv, <2>2, <1>11
  <2>. QED  BY <1>11, <2>1, <2>3 DEF Answer, worker, world
<1>12. ASSUME NEW s \in running, Leave(s) PROVE DataTypes'
  BY <1>12 DEF Leave, worker, pipes, world
<1>13. CASE Consume
  <2>1. usage' \in Limits
    BY <1>13, QuotaAssumption DEF Consume, Limits
  <2>2. lines' = lines \/ \E line \in {usage', None} : lines' = Append(lines, line)
    BY <1>13 DEF Consume
  <2>3. lines' \in Seq(Limits \cup {None})
    BY ONLY IInv, <2>1, <2>2
  <2>. QED  BY <1>13, <2>1, <2>3 DEF Consume, worker
<1>14. CASE Die
  BY <1>14 DEF Die, worker, pipes, world
<1>15. CASE Cancel
  BY <1>15 DEF Cancel, worker, pipes
<1>16. CASE Exit
  BY <1>16 DEF Exit, world
<1>17. CASE UNCHANGED vars
  BY <1>17 DEF vars, pipes
<1>. QED
  BY <1>1, <1>2, <1>3, <1>4, <1>5, <1>6, <1>7, <1>8, <1>9, <1>10, <1>11, <1>12, <1>13,
     <1>14, <1>15, <1>16, <1>17 DEF Next, Worker, Select

-----------------------------------------------------------------------------
(* Steps, the control.                                                     *)

\* A lost session was counted and is left behind.
LEMMA LoseSessionStep ==
  ASSUME CInv, LoseSession, pc \in Active,
         failures' \in 0..MaxFailures, session <= failures'
  PROVE  CInv'
<1>1. /\ pc' = "failed" /\ piped' = piped \ {session}
      /\ UNCHANGED <<delay, session, from, running, late, cancelled>>
  BY DEF LoseSession, world
<1>2. ControlTypes'
  BY ONLY CInv, <1>1, failures' \in 0..MaxFailures DEF CInv, ControlTypes, Pcs
<1>3. SessionsAreCounted'
  <2>1. session \in Nat /\ failures' \in Nat
    BY QuotaAssumption DEF CInv, ControlTypes, Sessions
  <2>2. pc' \notin Active
    BY <1>1 DEF Active, Greeting
  <2>3. session' <= failures' /\ session' <= failures' + 1
    <3>1. PICK n \in Nat : failures' = n
      BY <2>1
    <3>2. session <= n /\ session <= n + 1
      BY ONLY <2>1, <3>1, session <= failures'
    <3>. QED  BY <1>1, <3>1, <3>2
  <2>. QED  BY <2>2, <2>3, Zenon DEF SessionsAreCounted
<1>. QED  BY <1>2, <1>3 DEF CInv

\* A write leads to the next step or loses a session that is dead.
LEMMA SendStep ==
  ASSUME CInv, pc \in Active, NEW call, NEW next \in Active, Send(call, next)
  PROVE  CInv'
<1>1. CASE session \in running
  <2>1. /\ pc' = next
        /\ UNCHANGED <<delay, session, from, running, piped, late, cancelled, failures>>
    BY <1>1 DEF Send, world
  <2>. QED
    BY ONLY CInv, pc \in Active, next \in Active, <1>1, <2>1
       DEF CInv, ControlTypes, SessionsAreCounted, Pcs, Active, Greeting
<1>2. CASE session \notin running
  BY <1>2, LoseSessionStep DEF Send, CInv, ControlTypes, SessionsAreCounted
<1>. QED  BY <1>1, <1>2

\* Every step keeps the control in its types and the sessions counted.
LEMMA ControlNext == ASSUME IInv, [Next]_vars PROVE CInv'
<1>. USE DEF CInv, ControlTypes, SessionsAreCounted, Active, Greeting
<1>0. CInv
  BY DEF IInv
<1>1. CASE Check
  BY <1>0, <1>1 DEF Check, Pcs, pipes, world
<1>2. CASE Spawn
  <2>1. session + 1 \in Sessions
    BY <1>0, <1>2, QuotaAssumption DEF Spawn, Sessions
  <2>. QED  BY <1>0, <1>2, <2>1, QuotaAssumption DEF Spawn, Pcs, world, Sessions
<1>3. CASE SpawnFails
  BY <1>0, <1>3, QuotaAssumption DEF SpawnFails, Fail, Pcs, pipes, world, Sessions
<1>4. CASE Greet
  BY <1>0, <1>4, SendStep DEF Greet
<1>5. CASE MarkStale
  <2>1. /\ pc = "failed" /\ pc' = "sleeping"
        /\ UNCHANGED <<delay, session, from, running, piped, late, failures, cancelled>>
    BY <1>5 DEF MarkStale, pipes, world
  <2>. QED  BY ONLY <1>0, <2>1 DEF Pcs
<1>6. CASE Wake
  <2>1. /\ pc = "sleeping" /\ pc' \in {"checking", "gone"}
        /\ UNCHANGED <<session, from, running, piped, late, failures, cancelled>>
    BY <1>6 DEF Wake, pipes, world
  <2>2. delay' \in 1..MaxDelay
    BY <1>0, <1>6 DEF Wake, MaxDelay
  <2>. QED  BY ONLY <1>0, <2>1, <2>2 DEF Pcs
<1>7. CASE Tick
  BY <1>0, <1>7, SendStep DEF Tick
<1>8. CASE ReadLine
  <2>1. /\ from' \in {from, session}
        /\ UNCHANGED <<pc, delay, session, running, piped, late, failures, cancelled>>
    BY <1>8 DEF ReadLine, Handle, world
  <2>. QED  BY ONLY <1>0, <2>1
<1>9. CASE ReadFails
  <2>1. pc \in Active /\ LoseSession
    BY <1>9 DEF ReadFails
  <2>2. failures' \in 0..MaxFailures /\ session <= failures'
    <3>1. CASE session \notin running
      BY <1>0, <1>9, <3>1 DEF ReadFails, LoseSession
    <3>2. CASE session \in running
      BY <1>0, <1>9, <3>2, QuotaAssumption DEF ReadFails, LoseSession, Fail, Sessions
    <3>. QED  BY <3>1, <3>2
  <2>. QED  BY <1>0, <2>1, <2>2, LoseSessionStep
<1>10. CASE Stop
  BY <1>0, <1>10 DEF Stop, Pcs, world
<1>11. ASSUME NEW reply \in Limits \cup {None}, Answer(reply) PROVE CInv'
  BY <1>0, <1>11 DEF Answer, worker, world
<1>12. ASSUME NEW s \in running, Leave(s) PROVE CInv'
  BY <1>0, <1>12 DEF Leave, worker, pipes, world
<1>13. CASE Consume
  BY <1>0, <1>13 DEF Consume, worker
<1>14. CASE Die
  BY <1>0, <1>14, QuotaAssumption DEF Die, Fail, worker, pipes, world, Sessions
<1>15. CASE Cancel
  BY <1>0, <1>15 DEF Cancel, worker, pipes
<1>16. CASE Exit
  BY <1>0, <1>16 DEF Exit, Pcs, world
<1>17. CASE UNCHANGED vars
  BY <1>0, <1>17 DEF vars, pipes
<1>. QED
  BY <1>1, <1>2, <1>3, <1>4, <1>5, <1>6, <1>7, <1>8, <1>9, <1>10, <1>11, <1>12, <1>13,
     <1>14, <1>15, <1>16, <1>17 DEF Next, Worker, Select

\* In every behaviour the types hold and the sessions are bounded by the
\* failures, which is what the other proofs rest on.
THEOREM QuotaInvariant == Spec => []IInv
<1>1. IInv /\ [Next]_vars => IInv'
  BY DataNext, ControlNext DEF IInv
<1>. QED  BY IInvInit, <1>1, PTL DEF Spec

\* In every behaviour the variables stay in their types; the delay never
\* passes thirty seconds.
THEOREM TypeCorrect == Spec => []TypeOK
<1>1. IInv => TypeOK
  BY TypesInTwoHalves DEF IInv, CInv
<1>. QED  BY <1>1, QuotaInvariant, PTL

-----------------------------------------------------------------------------
(* The snapshot and the shutdown.                                          *)

\* Every step keeps the snapshot honest: the two operators that write it set
\* all of its fields, and a lost session is marked before the next begins.
LEMMA HonestNext == ASSUME IInv, SnapshotIsHonest, [Next]_vars PROVE SnapshotIsHonest'
<1>. USE DEF SnapshotIsHonest
<1>0. snapshot \in Snapshot
  BY DEF IInv, DataTypes
<1>1. CASE Check
  BY <1>1 DEF Check
<1>2. CASE Spawn
  BY <1>2 DEF Spawn
<1>3. CASE SpawnFails
  BY <1>3 DEF SpawnFails
<1>a. ASSUME LoseSession, pc \in Active PROVE SnapshotIsHonest'
  BY <1>a DEF LoseSession
<1>b. ASSUME NEW call, NEW next, pc \in Active, Send(call, next),
             pc = "select" => next = "select" PROVE SnapshotIsHonest'
  BY <1>a, <1>b DEF Send, Active, Greeting
<1>4. CASE Greet
  BY <1>b, <1>4 DEF Greet, Active, Greeting
<1>5. CASE MarkStale
  <2>1. UNCHANGED <<session, from>>
    BY <1>5 DEF MarkStale
  <2>2. /\ snapshot'.state = IF snapshot.limit # None THEN "stale" ELSE "unavailable"
        /\ snapshot'.stale = (snapshot.limit # None)
        /\ snapshot'.error = TRUE
        /\ snapshot'.limit = snapshot.limit
    BY <1>0, <1>5 DEF MarkStale, Snapshot
  <2>. QED  BY <2>1, <2>2
<1>6. CASE Wake
  BY <1>6 DEF Wake
<1>7. CASE Tick
  BY <1>b, <1>7 DEF Tick, Active
<1>8. CASE ReadLine
  <2>1. CASE Head(lines) = None
    BY <1>8, <2>1 DEF ReadLine, Handle
  <2>2. CASE Head(lines) # None
    <3>1. /\ snapshot'.state = "ready" /\ snapshot'.stale = FALSE /\ snapshot'.error = FALSE
          /\ snapshot'.limit # None
          /\ from' = session /\ session' = session /\ pc' = "select"
      BY <1>8, <2>2 DEF ReadLine, Handle
    <3>. QED  BY <3>1
  <2>. QED  BY <2>1, <2>2
<1>9. CASE ReadFails
  BY <1>a, <1>9 DEF ReadFails, Active
<1>10. CASE Stop
  BY <1>10 DEF Stop
<1>11. ASSUME NEW reply \in Limits \cup {None}, Answer(reply) PROVE SnapshotIsHonest'
  BY <1>11 DEF Answer, worker
<1>12. ASSUME NEW s \in running, Leave(s) PROVE SnapshotIsHonest'
  BY <1>12 DEF Leave, worker
<1>13. CASE Consume
  BY <1>13 DEF Consume, worker
<1>14. CASE Die
  BY <1>14 DEF Die, worker
<1>15. CASE Cancel
  BY <1>15 DEF Cancel, worker
<1>16. CASE Exit
  BY <1>16 DEF Exit
<1>17. CASE UNCHANGED vars
  BY <1>17 DEF vars
<1>. QED
  BY <1>1, <1>2, <1>3, <1>4, <1>5, <1>6, <1>7, <1>8, <1>9, <1>10, <1>11, <1>12, <1>13,
     <1>14, <1>15, <1>16, <1>17 DEF Next, Worker, Select

\* The snapshot that /status publishes never contradicts itself and never says
\* "ready" of a limit from a session that is over and marked (quota.rs:178-198).
THEOREM ReadyIsReal == Spec => []SnapshotIsHonest
<1>1. Init => SnapshotIsHonest
  BY DEF Init, SnapshotIsHonest
<1>2. IInv /\ SnapshotIsHonest /\ [Next]_vars => SnapshotIsHonest'
  BY HonestNext
<1>. QED  BY <1>1, <1>2, QuotaInvariant, PTL DEF Spec

\* Only a spawn already past the check follows the shutdown.
Late == /\ late = 0 \/ late = 1
        /\ late = 1 => cancelled /\ pc # "spawning"

LEMMA LateNext == ASSUME Late, [Next]_vars PROVE Late'
<1>. USE DEF Late
<1>1. CASE Check
  BY <1>1 DEF Check, world
<1>2. CASE Spawn
  <2>1. late = 0 /\ pc' = "hello" /\ cancelled' = cancelled
    BY <1>2 DEF Spawn, world
  <2>2. late' = 0 \/ (late' = 1 /\ cancelled)
    BY <1>2, <2>1 DEF Spawn
  <2>. QED  BY <2>1, <2>2
<1>3. CASE SpawnFails
  BY <1>3 DEF SpawnFails, world
<1>a. ASSUME LoseSession PROVE Late'
  BY <1>a DEF LoseSession, world
<1>b. ASSUME NEW call, NEW next, next # "spawning", Send(call, next) PROVE Late'
  BY <1>a, <1>b DEF Send, world
<1>4. CASE Greet
  BY <1>b, <1>4 DEF Greet
<1>5. CASE MarkStale
  BY <1>5 DEF MarkStale, world
<1>6. CASE Wake
  BY <1>6 DEF Wake, world
<1>7. CASE Tick
  BY <1>b, <1>7 DEF Tick
<1>8. CASE ReadLine
  BY <1>8 DEF ReadLine, world
<1>9. CASE ReadFails
  BY <1>a, <1>9 DEF ReadFails
<1>10. CASE Stop
  BY <1>10 DEF Stop, world
<1>11. ASSUME NEW reply \in Limits \cup {None}, Answer(reply) PROVE Late'
  BY <1>11 DEF Answer, worker, world
<1>12. ASSUME NEW s \in running, Leave(s) PROVE Late'
  BY <1>12 DEF Leave, worker, world
<1>13. CASE Consume
  BY <1>13 DEF Consume, worker
<1>14. CASE Die
  BY <1>14 DEF Die, worker, world
<1>15. CASE Cancel
  BY <1>15 DEF Cancel, worker
<1>16. CASE Exit
  BY <1>16 DEF Exit, world
<1>17. CASE UNCHANGED vars
  BY <1>17 DEF vars
<1>. QED
  BY <1>1, <1>2, <1>3, <1>4, <1>5, <1>6, <1>7, <1>8, <1>9, <1>10, <1>11, <1>12, <1>13,
     <1>14, <1>15, <1>16, <1>17 DEF Next, Worker, Select

\* However many sessions fail before and after the shutdown, at most one app
\* server is started after it (quota.rs:91, 104).
THEOREM ShutdownStopsSpawning == Spec => []OneLateSession
<1>1. Init => Late
  BY DEF Init, Late
<1>2. Late /\ [Next]_vars => Late'
  BY LateNext
<1>3. Late => OneLateSession
  BY DEF Late, OneLateSession
<1>. QED  BY <1>1, <1>2, <1>3, PTL DEF Spec

-----------------------------------------------------------------------------
(* The order of the published limits.                                      *)

\* The limits in the pipe s are in order, none older than what is published
\* (low), none newer than the account (high).
InOrder(low, s, high) ==
  /\ low <= high
  /\ \A i \in 1..Len(s) : s[i] # None => low <= s[i] /\ s[i] <= high
  /\ \A i, j \in 1..Len(s) : i < j /\ s[i] # None /\ s[j] # None => s[i] <= s[j]

Ordered == InOrder(snapshot.limit, lines, usage)

\* The app server writes what the account is now, behind what it wrote before.
LEMMA AppendInOrder ==
  ASSUME NEW s \in Seq(Nat), NEW low \in Nat, NEW high \in Nat, NEW line \in {high, None},
         InOrder(low, s, high)
  PROVE  InOrder(low, Append(s, line), high)
<1>1. /\ Len(Append(s, line)) = Len(s) + 1 /\ Len(s) \in Nat
      /\ \A i \in 1..Len(s) : Append(s, line)[i] = s[i] /\ s[i] \in Nat
      /\ Append(s, line)[Len(s) + 1] = line
  OBVIOUS
<1>2. \A i \in 1..(Len(s) + 1) : i \in 1..Len(s) \/ i = Len(s) + 1
  BY <1>1
<1>. QED  BY <1>1, <1>2 DEF InOrder

\* What the worker reads is at least what is published, at most what follows.
LEMMA TailInOrder ==
  ASSUME NEW s \in Seq(Nat), s # <<>>, NEW low \in Nat, NEW high \in Nat, InOrder(low, s, high)
  PROVE  /\ InOrder(low, Tail(s), high)
         /\ Head(s) # None => low <= Head(s) /\ InOrder(Head(s), Tail(s), high)
<1>1. /\ Len(s) \in Nat /\ Len(s) >= 1 /\ Len(Tail(s)) = Len(s) - 1
      /\ Head(s) = s[1] /\ s[1] \in Nat
      /\ \A i \in 1..Len(Tail(s)) : Tail(s)[i] = s[i + 1]
  OBVIOUS
<1>2. \A i \in 1..Len(Tail(s)) : i + 1 \in 1..Len(s) /\ 1 < i + 1
  BY <1>1
<1>3. 1 \in 1..Len(s)
  BY <1>1
<1>4. \A i \in 1..Len(Tail(s)) : Tail(s)[i] # None => low <= Tail(s)[i] /\ Tail(s)[i] <= high
  BY <1>1, <1>2 DEF InOrder
<1>5. \A i, j \in 1..Len(Tail(s)) :
        i < j /\ Tail(s)[i] # None /\ Tail(s)[j] # None => Tail(s)[i] <= Tail(s)[j]
  BY <1>1, <1>2 DEF InOrder
<1>6. Head(s) # None => /\ low <= Head(s) /\ Head(s) <= high
                        /\ \A i \in 1..Len(Tail(s)) : Tail(s)[i] # None => Head(s) <= Tail(s)[i]
  BY <1>1, <1>2, <1>3 DEF InOrder
<1>7. low <= high
  BY DEF InOrder
<1>. QED  BY <1>4, <1>5, <1>6, <1>7 DEF InOrder

\* The account moves on.
LEMMA RaiseInOrder ==
  ASSUME NEW s \in Seq(Nat), NEW low \in Nat, NEW high \in Nat, InOrder(low, s, high)
  PROVE  InOrder(low, s, high + 1)
<1>1. \A i \in 1..Len(s) : s[i] \in Nat
  OBVIOUS
<1>. QED  BY <1>1 DEF InOrder

\* A new pipe is empty.
LEMMA EmptyInOrder ==
  ASSUME NEW low, NEW high, low <= high
  PROVE  InOrder(low, <<>>, high)
<1>1. \A i \in 1..Len(<<>>) : FALSE
  OBVIOUS
<1>. QED  BY <1>1, Zenon DEF InOrder

LEMMA OrderTypes ==
  ASSUME IInv
  PROVE  snapshot.limit \in Nat /\ lines \in Seq(Nat) /\ usage \in Nat
<1>1. Limits \subseteq Nat /\ None \in Nat
  BY DEF Limits, None
<1>2. Limits \cup {None} \subseteq Nat
  BY <1>1
<1>3. snapshot.limit \in Limits \cup {None}
  BY DEF IInv, DataTypes, Snapshot
<1>4. lines \in Seq(Nat)
  BY <1>2 DEF IInv, DataTypes
<1>5. usage \in Limits
  BY DEF IInv, DataTypes
<1>. QED  BY <1>1, <1>2, <1>3, <1>4, <1>5

\* Every step keeps the pipe in order and publishes nothing older.
LEMMA OrderNext ==
  ASSUME IInv, Ordered, [Next]_vars
  PROVE  Ordered' /\ snapshot'.limit >= snapshot.limit
<1>. DEFINE Goal == Ordered' /\ snapshot'.limit >= snapshot.limit
<1>. SUFFICES Goal
  OBVIOUS
<1>0. snapshot.limit \in Nat /\ lines \in Seq(Nat) /\ usage \in Nat
  BY OrderTypes
<1>k. ASSUME UNCHANGED <<snapshot, lines, usage>> PROVE Goal
  BY <1>0, <1>k DEF Ordered
<1>e. ASSUME UNCHANGED <<snapshot, usage>>, lines' = <<>> PROVE Goal
  <2>1. snapshot.limit <= usage
    BY DEF Ordered, InOrder
  <2>2. InOrder(snapshot.limit, <<>>, usage)
    BY <2>1, EmptyInOrder
  <2>. QED  BY <1>0, <1>e, <2>2 DEF Ordered
<1>a. ASSUME NEW line \in {usage, None}, UNCHANGED <<snapshot, usage>>,
             lines' = Append(lines, line) PROVE Goal
  <2>1. InOrder(snapshot.limit, Append(lines, line), usage)
    BY <1>0, AppendInOrder DEF Ordered
  <2>. QED  BY <1>0, <1>a, <2>1 DEF Ordered
<1>1. CASE Check
  BY <1>k, <1>1 DEF Check, pipes, world
<1>2. CASE Spawn
  BY <1>k, <1>2 DEF Spawn, world
<1>3. CASE SpawnFails
  BY <1>k, <1>3 DEF SpawnFails, pipes, world
<1>l. ASSUME LoseSession PROVE Goal
  BY <1>e, <1>l DEF LoseSession, world
<1>b. ASSUME NEW call, NEW next, Send(call, next) PROVE Goal
  BY <1>k, <1>l, <1>b DEF Send, world
<1>4. CASE Greet
  BY <1>b, <1>4 DEF Greet
<1>5. CASE MarkStale
  <2>1. snapshot'.limit = snapshot.limit /\ UNCHANGED <<lines, usage>>
    BY <1>5 DEF MarkStale, pipes, world, IInv, DataTypes, Snapshot
  <2>. QED  BY <1>0, <2>1 DEF Ordered
<1>6. CASE Wake
  BY <1>k, <1>6 DEF Wake, pipes, world
<1>7. CASE Tick
  BY <1>b, <1>7 DEF Tick
<1>8. CASE ReadLine
  <2>1. lines # <<>> /\ lines' = Tail(lines) /\ usage' = usage
    BY <1>8 DEF ReadLine, world
  <2>2. InOrder(snapshot.limit, Tail(lines), usage)
    BY <1>0, <2>1, TailInOrder DEF Ordered
  <2>3. CASE Head(lines) = None
    <3>1. snapshot' = snapshot
      BY <1>8, <2>3 DEF ReadLine, Handle
    <3>. QED  BY <1>0, <2>1, <2>2, <3>1 DEF Ordered
  <2>4. CASE Head(lines) # None
    <3>1. snapshot'.limit = Head(lines)
      BY <1>8, <2>4 DEF ReadLine, Handle
    <3>2. snapshot.limit <= Head(lines) /\ InOrder(Head(lines), Tail(lines), usage)
      BY <1>0, <2>1, <2>4, TailInOrder DEF Ordered
    <3>3. Head(lines) \in Nat
      BY <1>0, <2>1
    <3>4. Ordered'
      BY <2>1, <3>1, <3>2 DEF Ordered
    <3>5. snapshot'.limit >= snapshot.limit
      BY <1>0, <3>1, <3>2, <3>3
    <3>. QED  BY <3>4, <3>5
  <2>. QED  BY <2>3, <2>4
<1>9. CASE ReadFails
  BY <1>l, <1>9 DEF ReadFails
<1>10. CASE Stop
  BY <1>k, <1>10 DEF Stop, world
<1>11. ASSUME NEW reply \in Limits \cup {None}, Answer(reply) PROVE Goal
  <2>1. UNCHANGED <<snapshot, usage>>
    BY <1>11 DEF Answer, worker, world
  <2>2. lines' = lines \/ (reply \in {usage, None} /\ lines' = Append(lines, reply))
    BY <1>11 DEF Answer
  <2>. QED  BY <1>k, <1>a, <2>1, <2>2
<1>12. ASSUME NEW s \in running, Leave(s) PROVE Goal
  BY <1>k, <1>12 DEF Leave, worker, pipes, world
<1>13. CASE Consume
  <2>1. snapshot' = snapshot /\ usage' = usage + 1
    BY <1>13 DEF Consume, worker
  <2>2. lines' = lines \/ \E line \in {usage + 1, None} : lines' = Append(lines, line)
    BY <1>13 DEF Consume
  <2>3. InOrder(snapshot.limit, lines, usage + 1)
    BY <1>0, RaiseInOrder DEF Ordered
  <2>4. ASSUME NEW line \in {usage + 1, None}
        PROVE  InOrder(snapshot.limit, Append(lines, line), usage + 1)
    <3>1. usage + 1 \in Nat
      BY <1>0
    <3>. QED  BY <1>0, <2>3, <3>1, AppendInOrder
  <2>5. InOrder(snapshot.limit, lines', usage + 1)
    BY <2>2, <2>3, <2>4
  <2>. QED  BY <1>0, <2>1, <2>5 DEF Ordered
<1>14. CASE Die
  BY <1>k, <1>14 DEF Die, worker, pipes, world
<1>15. CASE Cancel
  BY <1>k, <1>15 DEF Cancel, worker, pipes
<1>16. CASE Exit
  BY <1>k, <1>16 DEF Exit, world
<1>17. CASE UNCHANGED vars
  BY <1>k, <1>17 DEF vars
<1>. QED
  BY <1>1, <1>2, <1>3, <1>4, <1>5, <1>6, <1>7, <1>8, <1>9, <1>10, <1>11, <1>12, <1>13,
     <1>14, <1>15, <1>16, <1>17 DEF Next, Worker, Select

\* Although replies are not matched to their requests, the published limit
\* never goes back, within a session or from one to the next
\* (quota.rs:142-176).
THEOREM NewestLimitStays == Spec => LimitNeverGoesBack
<1>1. Init => Ordered
  <2>. SUFFICES ASSUME Init PROVE Ordered
    OBVIOUS
  <2>1. snapshot.limit = 0 /\ lines = <<>> /\ usage = 1
    BY DEF Init, None
  <2>2. InOrder(0, <<>>, 1)
    BY EmptyInOrder
  <2>. QED  BY <2>1, <2>2 DEF Ordered
<1>2. IInv /\ Ordered /\ [Next]_vars => Ordered' /\ snapshot'.limit >= snapshot.limit
  BY OrderNext
<1>3. IInv /\ Ordered /\ [Next]_vars => [snapshot'.limit >= snapshot.limit]_vars
  BY <1>2
<1>. QED  BY <1>1, <1>2, <1>3, QuotaInvariant, PTL DEF Spec, LimitNeverGoesBack

=============================================================================
