--------------------------- MODULE Process_proofs ---------------------------
(***************************************************************************)
(* Theorems about Process, for any number of processes and any ports.      *)
(*                                                                         *)
(* The argument: the lock is held exactly by the process that is between   *)
(* acquire_lock and drop(lock) (Held), so two processes are never both     *)
(* there; and requests are in flight past the drain only after its         *)
(* deadline (Overdue).                                                     *)
(***************************************************************************)
EXTENDS Process, TLAPS

Held == \A p \in Procs : pc[p] \in Holding => lock = p

Overdue ==
  \A p \in Procs : inflight[p] # {} /\ pc[p] \in {"quota", "unlock", "exit"} => p \in late

LockUsed == \A p \in Procs : lock = p => pc[p] \in Holding

PortsUsed ==
  \A p \in Procs, n \in Ports : listener[n] = p => pc[p] \in Listening /\ port[p] = n

RequestsUsed ==
  \A p \in Procs : inflight[p] # {} => pc[p] \in Listening \cup Ending

Probed ==
  \A p \in Procs :
    pc[p] \in {"closing", "drain"} /\ "readyz" \in inflight[p] => p \in probed

Own == Held /\ LockUsed /\ PortsUsed /\ RequestsUsed /\ Overdue /\ Probed /\ DrainingShown

IInv == TypeOK /\ Own

LEMMA TypeStep == ProcessAssumption /\ TypeOK /\ [Next]_vars => TypeOK'
<1> SUFFICES ASSUME ProcessAssumption, TypeOK, [Next]_vars PROVE TypeOK'
  OBVIOUS
<1> USE DEF TypeOK, At, Go, Steps, Requests, ProcessAssumption
<1>1. CASE UNCHANGED vars
  BY <1>1 DEF vars
<1>2. ASSUME NEW p \in Procs, AcquireLock(p) PROVE TypeOK'
  BY <1>2 DEF AcquireLock
<1>3. ASSUME NEW p \in Procs, Create(p) PROVE TypeOK'
  BY <1>3 DEF Create
<1>4. ASSUME NEW p \in Procs, Bind(p) PROVE TypeOK'
  <2>1. port[p] \in Ports /\ pc' \in [Procs -> Steps]
    BY <1>4 DEF Bind
  <2>2. listener' \in [Ports -> Procs \cup {Free, Foreign}]
    <3>1. PICK n \in Ports : n = port[p]
      BY <2>1
    <3>2. listener' = [listener EXCEPT ![n] = p] \/ listener' = listener
      BY <1>4, <3>1 DEF Bind
    <3> QED
      BY <3>2
  <2> QED
    BY <1>4, <2>1, <2>2 DEF Bind
<1>5. ASSUME NEW p \in Procs, Drained(p) PROVE TypeOK'
  BY <1>5 DEF Drained
<1>6. ASSUME NEW p \in Procs, DrainTimeout(p) PROVE TypeOK'
  <2>1. PICK n \in Ports : n = port[p]
    OBVIOUS
  <2>2. listener' = [listener EXCEPT ![n] = IF @ = p THEN Free ELSE @]
    BY <1>6, <2>1 DEF DrainTimeout
  <2>3. listener' \in [Ports -> Procs \cup {Free, Foreign}]
    BY <2>2
  <2> QED
    BY <1>6, <2>3 DEF DrainTimeout
<1>7. ASSUME NEW p \in Procs, ShutdownQuota(p) PROVE TypeOK'
  BY <1>7 DEF ShutdownQuota
<1>8. ASSUME NEW p \in Procs, Unlock(p) PROVE TypeOK'
  BY <1>8 DEF Unlock
<1>9. ASSUME NEW p \in Procs, Exit(p) PROVE TypeOK'
  BY <1>9 DEF Exit
<1>10. ASSUME NEW p \in Procs, Launch(p) PROVE TypeOK'
  BY ZenonT(60), <1>10 DEF Launch
<1>11. ASSUME NEW p \in Procs, Signal(p) PROVE TypeOK'
  BY <1>11 DEF Signal
<1>12. ASSUME NEW p \in Procs, Kill(p) PROVE TypeOK'
  BY <1>12 DEF Kill
<1>13. ASSUME NEW p \in Procs, Respond(p) PROVE TypeOK'
  BY <1>13 DEF Respond
<1>14. ASSUME NEW p \in Procs, NEW r \in Requests, Request(p, r) PROVE TypeOK'
  BY <1>14 DEF Request
<1>15. ASSUME NEW p \in Procs, NEW ok \in BOOLEAN, Readyz(p, ok) PROVE TypeOK'
  BY <1>15 DEF Readyz
<1>16. ASSUME NEW n \in Ports, Occupy(n) PROVE TypeOK'
  BY <1>16 DEF Occupy
<1>17. CASE FetchIdentity
  BY <1>17 DEF FetchIdentity
<1>18. ASSUME NEW p \in Procs, CloseListener(p) PROVE TypeOK'
  <2>1. PICK n \in Ports : n = port[p]
    OBVIOUS
  <2>2. listener' = [listener EXCEPT ![n] = Free]
    BY <1>18, <2>1 DEF CloseListener
  <2>3. listener' \in [Ports -> Procs \cup {Free, Foreign}]
    BY <2>2
  <2> QED
    BY <1>18, <2>3 DEF CloseListener
<1> HIDE DEF TypeOK, At, Go, Steps, Requests, ProcessAssumption
<1> QED
  BY <1>1, <1>2, <1>3, <1>4, <1>5, <1>6, <1>7, <1>8, <1>9, <1>10, <1>11, <1>12,
     <1>13, <1>14, <1>15, <1>16, <1>17, <1>18, Zenon DEF Next, Run

LEMMA LeftParts == NothingLeft <=> LockUsed /\ PortsUsed /\ RequestsUsed
  BY DEF NothingLeft, LockUsed, PortsUsed, RequestsUsed

LEMMA HeldStep == ProcessAssumption /\ IInv /\ [Next]_vars => Held'
<1> SUFFICES ASSUME ProcessAssumption, IInv, [Next]_vars PROVE Held'
  OBVIOUS
<1>1. pc \in [Procs -> Steps]
  BY DEF IInv, TypeOK
<1>2. Held /\ LockUsed
  BY DEF IInv, Own
<1> USE <1>1, <1>2 DEF Held, LockUsed, Holding, At, Go, ProcessAssumption
<1>3. CASE UNCHANGED vars
  BY <1>3 DEF vars
<1>4. ASSUME NEW p \in Procs, AcquireLock(p) PROVE Held'
  BY <1>4 DEF AcquireLock
<1>5. ASSUME NEW p \in Procs, Create(p) PROVE Held'
  BY <1>5 DEF Create
<1>6. ASSUME NEW p \in Procs, Bind(p) PROVE Held'
  BY <1>6 DEF Bind
<1>7. ASSUME NEW p \in Procs, Drained(p) PROVE Held'
  BY <1>7 DEF Drained
<1>8. ASSUME NEW p \in Procs, DrainTimeout(p) PROVE Held'
  BY <1>8 DEF DrainTimeout
<1>9. ASSUME NEW p \in Procs, ShutdownQuota(p) PROVE Held'
  BY <1>9 DEF ShutdownQuota
<1>10. ASSUME NEW p \in Procs, Unlock(p) PROVE Held'
  BY <1>10 DEF Unlock
<1>11. ASSUME NEW p \in Procs, Exit(p) PROVE Held'
  BY <1>11 DEF Exit
<1>12. ASSUME NEW p \in Procs, Launch(p) PROVE Held'
  BY <1>12 DEF Launch
<1>13. ASSUME NEW p \in Procs, Signal(p) PROVE Held'
  BY <1>13 DEF Signal
<1>20. ASSUME NEW p \in Procs, CloseListener(p) PROVE Held'
  BY <1>20 DEF CloseListener
<1>14. ASSUME NEW p \in Procs, Kill(p) PROVE Held'
  BY <1>14 DEF Kill
<1>15. ASSUME NEW p \in Procs, Respond(p) PROVE Held'
  BY <1>15 DEF Respond
<1>16. ASSUME NEW p \in Procs, NEW r \in Requests, Request(p, r) PROVE Held'
  BY <1>16 DEF Request
<1>17. ASSUME NEW p \in Procs, NEW ok \in BOOLEAN, Readyz(p, ok) PROVE Held'
  BY <1>17 DEF Readyz
<1>18. ASSUME NEW n \in Ports, Occupy(n) PROVE Held'
  BY <1>18 DEF Occupy
<1>19. CASE FetchIdentity
  BY <1>19 DEF FetchIdentity
<1> HIDE DEF Held, LockUsed, Holding, At, Go, ProcessAssumption
<1> QED
  BY <1>3, <1>4, <1>5, <1>6, <1>7, <1>8, <1>9, <1>10, <1>11, <1>12, <1>13,
     <1>14, <1>15, <1>16, <1>17, <1>18, <1>19, <1>20, Zenon DEF Next, Run

LEMMA LockStep == ProcessAssumption /\ IInv /\ [Next]_vars => LockUsed'
<1> SUFFICES ASSUME ProcessAssumption, IInv, [Next]_vars PROVE LockUsed'
  OBVIOUS
<1>1. pc \in [Procs -> Steps]
  BY DEF IInv, TypeOK
<1>2. Held /\ LockUsed
  BY DEF IInv, Own
<1> USE <1>1, <1>2 DEF Held, LockUsed, Holding, At, Go, ProcessAssumption
<1>3. CASE UNCHANGED vars
  BY <1>3 DEF vars
<1>4. ASSUME NEW p \in Procs, AcquireLock(p) PROVE LockUsed'
  BY <1>4 DEF AcquireLock
<1>5. ASSUME NEW p \in Procs, Create(p) PROVE LockUsed'
  BY <1>5 DEF Create
<1>6. ASSUME NEW p \in Procs, Bind(p) PROVE LockUsed'
  BY <1>6 DEF Bind
<1>7. ASSUME NEW p \in Procs, Drained(p) PROVE LockUsed'
  BY <1>7 DEF Drained
<1>8. ASSUME NEW p \in Procs, DrainTimeout(p) PROVE LockUsed'
  BY <1>8 DEF DrainTimeout
<1>9. ASSUME NEW p \in Procs, ShutdownQuota(p) PROVE LockUsed'
  BY <1>9 DEF ShutdownQuota
<1>10. ASSUME NEW p \in Procs, Unlock(p) PROVE LockUsed'
  BY <1>10 DEF Unlock
<1>11. ASSUME NEW p \in Procs, Exit(p) PROVE LockUsed'
  BY <1>11 DEF Exit
<1>12. ASSUME NEW p \in Procs, Launch(p) PROVE LockUsed'
  BY <1>12 DEF Launch
<1>13. ASSUME NEW p \in Procs, Signal(p) PROVE LockUsed'
  BY <1>13 DEF Signal
<1>20. ASSUME NEW p \in Procs, CloseListener(p) PROVE LockUsed'
  BY <1>20 DEF CloseListener
<1>14. ASSUME NEW p \in Procs, Kill(p) PROVE LockUsed'
  BY <1>14 DEF Kill
<1>15. ASSUME NEW p \in Procs, Respond(p) PROVE LockUsed'
  BY <1>15 DEF Respond
<1>16. ASSUME NEW p \in Procs, NEW r \in Requests, Request(p, r) PROVE LockUsed'
  BY <1>16 DEF Request
<1>17. ASSUME NEW p \in Procs, NEW ok \in BOOLEAN, Readyz(p, ok) PROVE LockUsed'
  BY <1>17 DEF Readyz
<1>18. ASSUME NEW n \in Ports, Occupy(n) PROVE LockUsed'
  BY <1>18 DEF Occupy
<1>19. CASE FetchIdentity
  BY <1>19 DEF FetchIdentity
<1> HIDE DEF Held, LockUsed, Holding, At, Go, ProcessAssumption
<1> QED
  BY <1>3, <1>4, <1>5, <1>6, <1>7, <1>8, <1>9, <1>10, <1>11, <1>12, <1>13,
     <1>14, <1>15, <1>16, <1>17, <1>18, <1>19, <1>20, Zenon DEF Next, Run

LEMMA PortsStep == ProcessAssumption /\ IInv /\ [Next]_vars => PortsUsed'
<1> SUFFICES ASSUME ProcessAssumption, IInv, [Next]_vars PROVE PortsUsed'
  OBVIOUS
<1>1. pc \in [Procs -> Steps] /\ port \in [Procs -> Ports] /\ listener \in [Ports -> Procs \cup {Free, Foreign}]
  BY DEF IInv, TypeOK
<1>2. PortsUsed
  BY DEF IInv, Own
<1> USE <1>1, <1>2 DEF PortsUsed, Listening, At, Go, ProcessAssumption
<1>3. CASE UNCHANGED vars
  BY <1>3 DEF vars
<1>4. ASSUME NEW p \in Procs, AcquireLock(p) PROVE PortsUsed'
  BY <1>4 DEF AcquireLock
<1>5. ASSUME NEW p \in Procs, Create(p) PROVE PortsUsed'
  BY <1>5 DEF Create
<1>6. ASSUME NEW p \in Procs, Bind(p) PROVE PortsUsed'
  BY <1>6 DEF Bind
<1>7. ASSUME NEW p \in Procs, Drained(p) PROVE PortsUsed'
  BY <1>7 DEF Drained
<1>8. ASSUME NEW p \in Procs, DrainTimeout(p) PROVE PortsUsed'
  BY <1>8 DEF DrainTimeout
<1>9. ASSUME NEW p \in Procs, ShutdownQuota(p) PROVE PortsUsed'
  BY <1>9 DEF ShutdownQuota
<1>10. ASSUME NEW p \in Procs, Unlock(p) PROVE PortsUsed'
  BY <1>10 DEF Unlock
<1>11. ASSUME NEW p \in Procs, Exit(p) PROVE PortsUsed'
  BY <1>11 DEF Exit
<1>12. ASSUME NEW p \in Procs, Launch(p) PROVE PortsUsed'
  BY <1>12 DEF Launch
<1>13. ASSUME NEW p \in Procs, Signal(p) PROVE PortsUsed'
  BY <1>13 DEF Signal
<1>20. ASSUME NEW p \in Procs, CloseListener(p) PROVE PortsUsed'
  BY <1>20 DEF CloseListener
<1>14. ASSUME NEW p \in Procs, Kill(p) PROVE PortsUsed'
  BY <1>14 DEF Kill
<1>15. ASSUME NEW p \in Procs, Respond(p) PROVE PortsUsed'
  BY <1>15 DEF Respond
<1>16. ASSUME NEW p \in Procs, NEW r \in Requests, Request(p, r) PROVE PortsUsed'
  BY <1>16 DEF Request
<1>17. ASSUME NEW p \in Procs, NEW ok \in BOOLEAN, Readyz(p, ok) PROVE PortsUsed'
  BY <1>17 DEF Readyz
<1>18. ASSUME NEW n \in Ports, Occupy(n) PROVE PortsUsed'
  BY <1>18 DEF Occupy
<1>19. CASE FetchIdentity
  BY <1>19 DEF FetchIdentity
<1> HIDE DEF PortsUsed, Listening, At, Go, ProcessAssumption
<1> QED
  BY <1>3, <1>4, <1>5, <1>6, <1>7, <1>8, <1>9, <1>10, <1>11, <1>12, <1>13,
     <1>14, <1>15, <1>16, <1>17, <1>18, <1>19, <1>20, Zenon DEF Next, Run

LEMMA RequestsStep == ProcessAssumption /\ IInv /\ [Next]_vars => RequestsUsed'
<1> SUFFICES ASSUME ProcessAssumption, IInv, [Next]_vars PROVE RequestsUsed'
  OBVIOUS
<1>1. pc \in [Procs -> Steps] /\ inflight \in [Procs -> SUBSET Requests]
  BY DEF IInv, TypeOK
<1>2. RequestsUsed
  BY DEF IInv, Own
<1> USE <1>1, <1>2 DEF RequestsUsed, Listening, Ending, At, Go
<1>3. CASE UNCHANGED vars
  BY <1>3 DEF vars
<1>4. ASSUME NEW p \in Procs, AcquireLock(p) PROVE RequestsUsed'
  BY <1>4 DEF AcquireLock
<1>5. ASSUME NEW p \in Procs, Create(p) PROVE RequestsUsed'
  BY <1>5 DEF Create
<1>6. ASSUME NEW p \in Procs, Bind(p) PROVE RequestsUsed'
  BY <1>6 DEF Bind
<1>7. ASSUME NEW p \in Procs, Drained(p) PROVE RequestsUsed'
  BY <1>7 DEF Drained
<1>8. ASSUME NEW p \in Procs, DrainTimeout(p) PROVE RequestsUsed'
  BY <1>8 DEF DrainTimeout
<1>9. ASSUME NEW p \in Procs, ShutdownQuota(p) PROVE RequestsUsed'
  BY <1>9 DEF ShutdownQuota
<1>10. ASSUME NEW p \in Procs, Unlock(p) PROVE RequestsUsed'
  BY <1>10 DEF Unlock
<1>11. ASSUME NEW p \in Procs, Exit(p) PROVE RequestsUsed'
  BY <1>11 DEF Exit
<1>12. ASSUME NEW p \in Procs, Launch(p) PROVE RequestsUsed'
  BY <1>12 DEF Launch
<1>13. ASSUME NEW p \in Procs, Signal(p) PROVE RequestsUsed'
  BY <1>13 DEF Signal
<1>20. ASSUME NEW p \in Procs, CloseListener(p) PROVE RequestsUsed'
  BY <1>20 DEF CloseListener
<1>14. ASSUME NEW p \in Procs, Kill(p) PROVE RequestsUsed'
  BY <1>14 DEF Kill
<1>15. ASSUME NEW p \in Procs, Respond(p) PROVE RequestsUsed'
  BY <1>15 DEF Respond
<1>16. ASSUME NEW p \in Procs, NEW r \in Requests, Request(p, r) PROVE RequestsUsed'
  BY <1>16 DEF Request
<1>17. ASSUME NEW p \in Procs, NEW ok \in BOOLEAN, Readyz(p, ok) PROVE RequestsUsed'
  BY <1>17 DEF Readyz
<1>18. ASSUME NEW n \in Ports, Occupy(n) PROVE RequestsUsed'
  BY <1>18 DEF Occupy
<1>19. CASE FetchIdentity
  BY <1>19 DEF FetchIdentity
<1> HIDE DEF RequestsUsed, Listening, Ending, At, Go
<1> QED
  BY <1>3, <1>4, <1>5, <1>6, <1>7, <1>8, <1>9, <1>10, <1>11, <1>12, <1>13,
     <1>14, <1>15, <1>16, <1>17, <1>18, <1>19, <1>20, Zenon DEF Next, Run

LEMMA OverdueStep == ProcessAssumption /\ IInv /\ [Next]_vars => Overdue'
<1> SUFFICES ASSUME ProcessAssumption, IInv, [Next]_vars PROVE Overdue'
  OBVIOUS
<1>1. pc \in [Procs -> Steps] /\ inflight \in [Procs -> SUBSET Requests]
  BY DEF IInv, TypeOK
<1>2. RequestsUsed /\ Overdue
  BY DEF IInv, Own
<1> USE <1>1, <1>2 DEF RequestsUsed, Listening, Ending, Overdue, At, Go
<1>3. CASE UNCHANGED vars
  BY <1>3 DEF vars
<1>4. ASSUME NEW p \in Procs, AcquireLock(p) PROVE Overdue'
  BY <1>4 DEF AcquireLock
<1>5. ASSUME NEW p \in Procs, Create(p) PROVE Overdue'
  BY <1>5 DEF Create
<1>6. ASSUME NEW p \in Procs, Bind(p) PROVE Overdue'
  BY <1>6 DEF Bind
<1>7. ASSUME NEW p \in Procs, Drained(p) PROVE Overdue'
  BY <1>7 DEF Drained
<1>8. ASSUME NEW p \in Procs, DrainTimeout(p) PROVE Overdue'
  BY <1>8 DEF DrainTimeout
<1>9. ASSUME NEW p \in Procs, ShutdownQuota(p) PROVE Overdue'
  BY <1>9 DEF ShutdownQuota
<1>10. ASSUME NEW p \in Procs, Unlock(p) PROVE Overdue'
  BY <1>10 DEF Unlock
<1>11. ASSUME NEW p \in Procs, Exit(p) PROVE Overdue'
  BY <1>11 DEF Exit
<1>12. ASSUME NEW p \in Procs, Launch(p) PROVE Overdue'
  BY <1>12 DEF Launch
<1>13. ASSUME NEW p \in Procs, Signal(p) PROVE Overdue'
  BY <1>13 DEF Signal
<1>20. ASSUME NEW p \in Procs, CloseListener(p) PROVE Overdue'
  BY <1>20 DEF CloseListener
<1>14. ASSUME NEW p \in Procs, Kill(p) PROVE Overdue'
  BY <1>14 DEF Kill
<1>15. ASSUME NEW p \in Procs, Respond(p) PROVE Overdue'
  BY <1>15 DEF Respond
<1>16. ASSUME NEW p \in Procs, NEW r \in Requests, Request(p, r) PROVE Overdue'
  BY <1>16 DEF Request
<1>17. ASSUME NEW p \in Procs, NEW ok \in BOOLEAN, Readyz(p, ok) PROVE Overdue'
  BY <1>17 DEF Readyz
<1>18. ASSUME NEW n \in Ports, Occupy(n) PROVE Overdue'
  BY <1>18 DEF Occupy
<1>19. CASE FetchIdentity
  BY <1>19 DEF FetchIdentity
<1> HIDE DEF RequestsUsed, Listening, Ending, Overdue, At, Go
<1> QED
  BY <1>3, <1>4, <1>5, <1>6, <1>7, <1>8, <1>9, <1>10, <1>11, <1>12, <1>13,
     <1>14, <1>15, <1>16, <1>17, <1>18, <1>19, <1>20, Zenon DEF Next, Run

LEMMA ProbedStep == ProcessAssumption /\ IInv /\ [Next]_vars => Probed'
<1> SUFFICES ASSUME ProcessAssumption, IInv, [Next]_vars PROVE Probed'
  OBVIOUS
<1>1. pc \in [Procs -> Steps] /\ ready \in [Procs -> BOOLEAN]
     /\ inflight \in [Procs -> SUBSET Requests]
  BY DEF IInv, TypeOK
<1>2. Probed /\ DrainingShown
  BY DEF IInv, Own
<1> USE <1>1, <1>2 DEF Probed, Listening, DrainingShown, At, Go
<1>3. CASE UNCHANGED vars
  BY <1>3 DEF vars
<1>4. ASSUME NEW p \in Procs, AcquireLock(p) PROVE Probed'
  BY <1>4 DEF AcquireLock
<1>5. ASSUME NEW p \in Procs, Create(p) PROVE Probed'
  BY <1>5 DEF Create
<1>6. ASSUME NEW p \in Procs, Bind(p) PROVE Probed'
  BY <1>6 DEF Bind
<1>7. ASSUME NEW p \in Procs, Drained(p) PROVE Probed'
  BY <1>7 DEF Drained
<1>8. ASSUME NEW p \in Procs, DrainTimeout(p) PROVE Probed'
  BY <1>8 DEF DrainTimeout
<1>9. ASSUME NEW p \in Procs, ShutdownQuota(p) PROVE Probed'
  BY <1>9 DEF ShutdownQuota
<1>10. ASSUME NEW p \in Procs, Unlock(p) PROVE Probed'
  BY <1>10 DEF Unlock
<1>11. ASSUME NEW p \in Procs, Exit(p) PROVE Probed'
  BY <1>11 DEF Exit
<1>12. ASSUME NEW p \in Procs, Launch(p) PROVE Probed'
  BY <1>12 DEF Launch
<1>13. ASSUME NEW p \in Procs, Signal(p) PROVE Probed'
  BY <1>13 DEF Signal
<1>20. ASSUME NEW p \in Procs, CloseListener(p) PROVE Probed'
  BY <1>20 DEF CloseListener
<1>14. ASSUME NEW p \in Procs, Kill(p) PROVE Probed'
  BY <1>14 DEF Kill
<1>15. ASSUME NEW p \in Procs, Respond(p) PROVE Probed'
  BY <1>15 DEF Respond
<1>16. ASSUME NEW p \in Procs, NEW r \in Requests, Request(p, r) PROVE Probed'
  BY <1>16 DEF Request
<1>17. ASSUME NEW p \in Procs, NEW ok \in BOOLEAN, Readyz(p, ok) PROVE Probed'
  BY <1>17 DEF Readyz
<1>18. ASSUME NEW n \in Ports, Occupy(n) PROVE Probed'
  BY <1>18 DEF Occupy
<1>19. CASE FetchIdentity
  BY <1>19 DEF FetchIdentity
<1> HIDE DEF Probed, Listening, DrainingShown, At, Go
<1> QED
  BY <1>3, <1>4, <1>5, <1>6, <1>7, <1>8, <1>9, <1>10, <1>11, <1>12, <1>13,
     <1>14, <1>15, <1>16, <1>17, <1>18, <1>19, <1>20, Zenon DEF Next, Run

LEMMA DrainStep == ProcessAssumption /\ IInv /\ [Next]_vars => DrainingShown'
<1> SUFFICES ASSUME ProcessAssumption, IInv, [Next]_vars PROVE DrainingShown'
  OBVIOUS
<1>1. pc \in [Procs -> Steps] /\ ready \in [Procs -> BOOLEAN]
     /\ inflight \in [Procs -> SUBSET Requests]
  BY DEF IInv, TypeOK
<1>2. Probed /\ DrainingShown
  BY DEF IInv, Own
<1> USE <1>1, <1>2 DEF Probed, Listening, DrainingShown, At, Go
<1>3. CASE UNCHANGED vars
  BY <1>3 DEF vars
<1>4. ASSUME NEW p \in Procs, AcquireLock(p) PROVE DrainingShown'
  BY <1>4 DEF AcquireLock
<1>5. ASSUME NEW p \in Procs, Create(p) PROVE DrainingShown'
  BY <1>5 DEF Create
<1>6. ASSUME NEW p \in Procs, Bind(p) PROVE DrainingShown'
  BY <1>6 DEF Bind
<1>7. ASSUME NEW p \in Procs, Drained(p) PROVE DrainingShown'
  BY <1>7 DEF Drained
<1>8. ASSUME NEW p \in Procs, DrainTimeout(p) PROVE DrainingShown'
  BY <1>8 DEF DrainTimeout
<1>9. ASSUME NEW p \in Procs, ShutdownQuota(p) PROVE DrainingShown'
  BY <1>9 DEF ShutdownQuota
<1>10. ASSUME NEW p \in Procs, Unlock(p) PROVE DrainingShown'
  BY <1>10 DEF Unlock
<1>11. ASSUME NEW p \in Procs, Exit(p) PROVE DrainingShown'
  BY <1>11 DEF Exit
<1>12. ASSUME NEW p \in Procs, Launch(p) PROVE DrainingShown'
  BY <1>12 DEF Launch
<1>13. ASSUME NEW p \in Procs, Signal(p) PROVE DrainingShown'
  BY <1>13 DEF Signal
<1>20. ASSUME NEW p \in Procs, CloseListener(p) PROVE DrainingShown'
  BY <1>20 DEF CloseListener
<1>14. ASSUME NEW p \in Procs, Kill(p) PROVE DrainingShown'
  BY <1>14 DEF Kill
<1>15. ASSUME NEW p \in Procs, Respond(p) PROVE DrainingShown'
  BY <1>15 DEF Respond
<1>16. ASSUME NEW p \in Procs, NEW r \in Requests, Request(p, r) PROVE DrainingShown'
  BY <1>16 DEF Request
<1>17. ASSUME NEW p \in Procs, NEW ok \in BOOLEAN, Readyz(p, ok) PROVE DrainingShown'
  BY <1>17 DEF Readyz
<1>18. ASSUME NEW n \in Ports, Occupy(n) PROVE DrainingShown'
  BY <1>18 DEF Occupy
<1>19. CASE FetchIdentity
  BY <1>19 DEF FetchIdentity
<1> HIDE DEF Probed, Listening, DrainingShown, At, Go
<1> QED
  BY <1>3, <1>4, <1>5, <1>6, <1>7, <1>8, <1>9, <1>10, <1>11, <1>12, <1>13,
     <1>14, <1>15, <1>16, <1>17, <1>18, <1>19, <1>20, Zenon DEF Next, Run

\* The strengthened invariant holds in every state.
THEOREM Invariant == Spec => []IInv
<1>1. Init => IInv
  BY ProcessAssumption DEF ProcessAssumption, Init, IInv, Own, TypeOK, Held, Holding, LockUsed,
     PortsUsed, RequestsUsed, Overdue, Probed, DrainingShown, Steps, Requests
<1>2. IInv /\ [Next]_vars => IInv'
  BY TypeStep, HeldStep, LockStep, PortsStep, RequestsStep, OverdueStep, ProbedStep, DrainStep,
     ProcessAssumption DEF IInv, Own
<1> QED
  BY <1>1, <1>2, PTL DEF Spec

\* Every variable keeps its type, for any processes and ports (cli.rs run).
THEOREM TypeCorrect == Spec => []TypeOK
<1>1. IInv => TypeOK
  BY DEF IInv
<1> QED
  BY <1>1, Invariant, PTL

\* One bridge at a time is between its lock and its exit: an overlap is only
\* that of a drain past its deadline with its successor (cli.rs acquire_lock).
THEOREM OneBridgeAtATime == Spec => []OneBridge
<1>1. IInv => OneBridge
  <2> SUFFICES ASSUME IInv, NEW p \in Procs, NEW q \in Procs, p # q, pc[p] \in Holding
               PROVE /\ pc[q] \notin Holding
                     /\ inflight[q] # {} => pc[q] = "exit" /\ q \in late
    BY DEF OneBridge
  <2>1. lock = p
    BY DEF IInv, Own, Held
  <2>2. pc[q] \notin Holding
    BY <2>1 DEF IInv, Own, Held
  <2>3. inflight[q] # {} => pc[q] = "exit" /\ q \in late
    BY <2>2 DEF IInv, Own, RequestsUsed, Overdue, Holding, Listening, Ending
  <2> QED
    BY <2>2, <2>3
<1> QED
  BY <1>1, Invariant, PTL

\* No failure, deadline or kill leaves a lock, a listener or a request without the
\* process it belongs to (cli.rs run, server.rs serve).
THEOREM NothingIsLeft == Spec => []NothingLeft
<1>1. IInv => NothingLeft
  BY LeftParts DEF IInv, Own
<1> QED
  BY <1>1, Invariant, PTL

\* From the signal to the end of the drain /status says draining, or a /readyz in
\* flight then has set the flag since (metrics.rs set_ready).
THEOREM DrainIsShown == Spec => []DrainingShown
<1>1. IInv => DrainingShown
  BY DEF IInv, Own
<1> QED
  BY <1>1, Invariant, PTL
=============================================================================
