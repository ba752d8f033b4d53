---------------------------- MODULE Auth_proofs ----------------------------
(***************************************************************************)
(* Proofs about Auth: the refresh lock, the retry after a 401, and that an *)
(* undisturbed refresh neither presents a spent token nor loses the login. *)
(***************************************************************************)
EXTENDS Auth, FiniteSetTheorems, TLAPS

-----------------------------------------------------------------------------
(* The inductive invariant.                                                *)

\* Every token in memory or on disk has been minted.
Minted ==
  /\ disk # NoAuth => disk.access <= minted
  /\ \A t \in Tasks : seen[t].access <= minted /\ denied[t] <= minted
  /\ \A w \in writers : w.creds.access <= minted

\* A writer with an owner is the only one of its owner, who waits for it; it
\* brings another access token than the one its owner was denied.
Owned ==
  /\ \A w \in writers : w.owner # Nobody =>
       /\ pc[w.owner] = "writing"
       /\ w.creds.access # denied[w.owner]
  /\ \A v, w \in writers : v.owner = w.owner /\ v.owner # Nobody => v = w

\* A task POSTs only a session that has a refresh token.
Postable == \A t \in Tasks : pc[t] = "posting" => seen[t].refresh # None

\* While nothing disturbed a refresh: what is POSTed or being written was read
\* from the disk as it still is, every write has its owner and brings a refresh
\* token the endpoint accepts, or none, and the login is good or being replaced.
Settled ==
  /\ orphans = {}
  /\ \A t \in Tasks : pc[t] = "posting" => seen[t] = disk
  /\ \A w \in Unwritten : /\ w.owner # Nobody
                          /\ w.base = disk
                          /\ w.creds.refresh # None => w.creds.refresh \in live
  /\ disk # NoAuth /\ disk.refresh # None =>
       \/ disk.refresh \in live
       \/ \E w \in Unwritten : w.owner = lock /\ w.creds.refresh \in live

Calm == ~disturbed => Settled

\* What is known of a state besides Calm.
Context == TypeOK /\ Postable /\ LockHeldInside /\ Minted /\ Owned

-----------------------------------------------------------------------------
(* Types.                                                                  *)

LEMMA TokenFacts == /\ 1 \in Tokens
                    /\ Tokens \subseteq Nat
                    /\ None \notin Tokens
                    /\ \A n \in Tokens : n < MaxMinted => n + 1 \in Tokens
                    /\ Blank \notin Tokens \cup {None}
BY AuthAssumption DEF Tokens, None, Blank

LEMMA MintTypes ==
  ASSUME TypeOK, NEW token \in Tokens, NEW reply \in Replies, Mint(token, reply)
  PROVE  /\ minted' \in Tokens
         /\ minted' = minted + 1
         /\ live' \in SUBSET Tokens
         /\ reply \in [access : Access, refresh : Tokens \cup {None, Blank}]
         /\ reply.access = minted + 1
<1>1. minted + 1 \in Tokens  BY TokenFacts DEF TypeOK, Mint
<1> QED  BY <1>1 DEF TypeOK, Mint, Replies, Creds, Access, Pair

LEMMA MergeTypes ==
  ASSUME NEW base \in Creds,
         NEW reply \in [access : Access, refresh : Tokens \cup {None, Blank}]
  PROVE  /\ MergeRefresh(base, reply) \in Creds
         /\ MergeRefresh(base, reply).access = reply.access
BY DEF MergeRefresh, Creds

\* What Move() does to the writers, and to the unwritten ones.
LEMMA MoveTypes ==
  ASSUME TypeOK, NEW w \in writers, NEW step \in {"check", "flock", "rename", "ok", "bad"},
         Move(w, step)
  PROVE  writers' \in SUBSET Writer
<1>1. w \in Writer  BY DEF TypeOK
<1>2. [w EXCEPT !.step = step] \in Writer  BY <1>1 DEF Writer
<1> QED  BY <1>2 DEF Move, TypeOK

LEMMA MovedWriter ==
  ASSUME TypeOK, NEW w \in writers, NEW step \in {"check", "flock", "rename", "ok", "bad"},
         Move(w, step)
  PROVE  \E moved :
             /\ \A v \in writers' : v = moved \/ (v \in writers /\ v # w)
             /\ \A v \in writers : v # w => v \in writers'
             /\ w.owner # Nobody \/ step \notin {"ok", "bad"} => moved \in writers'
             /\ /\ moved.owner = w.owner /\ moved.base = w.base
                /\ moved.creds = w.creds /\ moved.step = step
<1> DEFINE moved == [w EXCEPT !.step = step]
<1>1. w \in Writer  BY DEF TypeOK
<1>2. /\ moved.owner = w.owner /\ moved.base = w.base
      /\ moved.creds = w.creds /\ moved.step = step
  BY <1>1 DEF Writer
<1>3. writers' = (writers \ {w}) \cup
        IF w.owner = Nobody /\ step \in {"ok", "bad"} THEN {} ELSE {moved}
  BY DEF Move
<1> HIDE DEF moved
<1>4. /\ \A v \in writers' : v = moved \/ (v \in writers /\ v # w)
      /\ \A v \in writers : v # w => v \in writers'
      /\ w.owner # Nobody \/ step \notin {"ok", "bad"} => moved \in writers'
  BY <1>3
<1> QED  BY <1>2, <1>4 DEF moved

\* The writers a dropped task leaves behind that still have an owner.
LEMMA CancelledWriters ==
  ASSUME TypeOK, NEW t \in Tasks, Cancel(t)
  PROVE  /\ \A v \in writers' : \E w \in writers :
              /\ v.creds = w.creds /\ v.base = w.base /\ v.step = w.step
              /\ v.owner = IF w.owner = t THEN Nobody ELSE w.owner
              /\ v.owner # Nobody => v = w /\ w.owner # t
         /\ \A w \in writers : w.owner # t => w \in writers'
<1> DEFINE left(w) == [w EXCEPT !.owner = IF @ = t THEN Nobody ELSE @]
<1>1. \A w \in writers : /\ left(w).creds = w.creds /\ left(w).base = w.base
                         /\ left(w).step = w.step
                         /\ left(w).owner = IF w.owner = t THEN Nobody ELSE w.owner
                         /\ w.owner # t => left(w) = w
  BY DEF TypeOK, Writer
<1>2. writers' = {left(w) : w \in {v \in writers : v.owner # t \/ v \in Unwritten}}
  BY DEF Cancel
<1> HIDE DEF left
<1>3. ASSUME NEW v \in writers'
      PROVE  \E w \in writers : /\ v.creds = w.creds /\ v.base = w.base /\ v.step = w.step
                                /\ v.owner = IF w.owner = t THEN Nobody ELSE w.owner
                                /\ v.owner # Nobody => v = w /\ w.owner # t
  <2>1. PICK w \in writers : v = left(w)  BY <1>2
  <2> QED  BY <2>1, <1>1
<1>4. ASSUME NEW w \in writers, w.owner # t PROVE w \in writers'
  BY <1>1, <1>2, <1>4
<1> QED  BY <1>3, <1>4

LEMMA TypeInit == Init => TypeOK /\ Postable
<1>1. Pair(1) \in Creds  BY TokenFacts DEF Pair, Creds, Access
<1>2. 1 \in Access  BY TokenFacts DEF Access
<1> SUFFICES ASSUME Init PROVE TypeOK /\ Postable
  OBVIOUS
<1>3. pc \in [Tasks -> Pcs] /\ Postable
  BY DEF Init, Pcs, Postable
<1>4. /\ disk \in Creds \cup {NoAuth}
      /\ seen \in [Tasks -> Creds]
      /\ denied \in [Tasks -> Access]
      /\ after \in [Tasks -> {"using", "retrying"}]
  BY <1>1, <1>2 DEF Init
<1>5. /\ minted \in Tokens
      /\ live \in SUBSET Tokens
      /\ aging \in SUBSET Access
      /\ orphans \in SUBSET Tokens
      /\ writers \in SUBSET Writer
  BY TokenFacts DEF Init
<1>6. lock \in Tasks \cup {Nobody} /\ refreshes \in Nat /\ disturbed \in BOOLEAN
  BY DEF Init
<1> QED  BY <1>3, <1>4, <1>5, <1>6 DEF TypeOK

LEMMA TypeStep == TypeOK /\ Postable /\ [Next]_vars => TypeOK'
<1> SUFFICES ASSUME TypeOK, Postable, [Next]_vars PROVE TypeOK'
  OBVIOUS
<1> USE DEF TypeOK, world, Pcs
<1>1. ASSUME NEW t \in Tasks, Task(t) PROVE TypeOK'
  <2>1. CASE LoadSession(t)
    BY <2>1 DEF LoadSession, WantRefresh, Goto, Creds
  <2>2. CASE Unauthorized(t)
    BY <2>2 DEF Unauthorized, WantRefresh, Goto, Creds
  <2>3. CASE Answered(t)
    BY <2>3 DEF Answered, Goto
  <2>4. CASE AcquireLock(t)
    BY <2>4 DEF AcquireLock, Goto
  <2>5. CASE Reload(t)
    BY <2>5 DEF Reload, Goto, Unlock
  <2>6. CASE Refreshed(t)
    <3>1. PICK reply \in Replies :
            /\ Mint(seen[t].refresh, reply)
            /\ writers' = writers \cup
                 {[owner |-> t, base |-> seen[t],
                   creds |-> MergeRefresh(seen[t], reply), step |-> "check"]}
      BY <2>6 DEF Refreshed
    <3>2. seen[t].refresh \in Tokens  BY <3>1 DEF Mint
    <3>3. /\ minted' \in Tokens /\ live' \in SUBSET Tokens
          /\ MergeRefresh(seen[t], reply) \in Creds
      BY <3>1, <3>2, MintTypes, MergeTypes
    <3>4. writers' \in SUBSET Writer  BY <3>1, <3>3 DEF Writer
    <3> QED  BY <2>6, <3>3, <3>4 DEF Refreshed, Goto
  <2>7. CASE ReplyLost(t)
    <3>1. PICK reply \in Replies : Mint(seen[t].refresh, reply)
      BY <2>7 DEF ReplyLost
    <3>2. seen[t].refresh \in Tokens  BY <3>1 DEF Mint
    <3>3. minted' \in Tokens /\ live' \in SUBSET Tokens  BY <3>1, <3>2, MintTypes
    <3> QED  BY <2>7, <3>3 DEF ReplyLost, Goto, Unlock
  <2>8. CASE Refused(t)
    BY <2>8 DEF Refused, Goto, Unlock
  <2>9. CASE WriteDone(t)
    BY <2>9 DEF WriteDone, Goto, Unlock, Unwritten, Writer
  <2> QED  BY <1>1, <2>1, <2>2, <2>3, <2>4, <2>5, <2>6, <2>7, <2>8, <2>9 DEF Task
<1>2. ASSUME NEW t \in Tasks, Cancel(t) PROVE TypeOK'
  <2>1. writers' \in SUBSET Writer
    BY <1>2 DEF Cancel, Writer
  <2>2. orphans' \in SUBSET Tokens
    BY <1>2 DEF Cancel, Creds, Postable
  <2> QED  BY <1>2, <2>1, <2>2 DEF Cancel, Goto, Unlock
<1>3. ASSUME NEW w \in writers, WriterStep(w) PROVE TypeOK'
  <2>1. writers' \in SUBSET Writer
    BY <1>3, MoveTypes DEF WriterStep, WriterCheck, WriterLock, WriterRename, WriterFail
  <2>2. disk' \in Creds \cup {NoAuth}
    BY <1>3 DEF WriterStep, WriterCheck, WriterLock, WriterRename, WriterFail, Writer
  <2> QED  BY <1>3, <2>1, <2>2 DEF WriterStep, WriterCheck, WriterLock, WriterRename, WriterFail
<1>4. ASSUME NEW token \in orphans, OrphanServed(token) PROVE TypeOK'
  BY <1>4, MintTypes DEF OrphanServed
<1>5. CASE Crash
  <2>1. orphans' \in SUBSET Tokens
    BY <1>5 DEF Crash, Creds, Postable
  <2>2. disturbed' \in BOOLEAN  BY <1>5 DEF Crash
  <2> QED  BY <1>5, <2>1, <2>2 DEF Crash
<1>6. CASE Expire
  BY <1>6 DEF Expire, Creds
<1>7. CASE CodexRefresh
  <2>1. PICK reply \in Replies : Mint(disk.refresh, reply) /\ disk' = MergeRefresh(disk, reply)
    BY <1>7 DEF CodexRefresh
  <2>2. disk \in Creds /\ disk.refresh \in Tokens  BY <1>7, <2>1 DEF CodexRefresh, Mint
  <2>3. minted' \in Tokens /\ live' \in SUBSET Tokens /\ disk' \in Creds
    BY <2>1, <2>2, MintTypes, MergeTypes
  <2> QED  BY <1>7, <2>3 DEF CodexRefresh, Outsider
<1>8. CASE CodexLogout
  BY <1>8 DEF CodexLogout, Outsider
<1>9. CASE CodexLogin
  <2>1. minted + 1 \in Tokens  BY <1>9, TokenFacts DEF CodexLogin
  <2> QED  BY <1>9, <2>1 DEF CodexLogin, Pair, Creds, Access, InFlight
<1>10. CASE UNCHANGED vars
  BY <1>10 DEF vars
<1> QED  BY <1>1, <1>2, <1>3, <1>4, <1>5, <1>6, <1>7, <1>8, <1>9, <1>10 DEF Next

LEMMA PostStep == TypeOK /\ Postable /\ [Next]_vars => Postable'
<1> SUFFICES ASSUME TypeOK, Postable, [Next]_vars PROVE Postable'
  OBVIOUS
<1> USE DEF TypeOK, Postable
<1>1. ASSUME NEW t \in Tasks, Task(t) PROVE Postable'
  BY <1>1 DEF Task, LoadSession, Unauthorized, Answered, AcquireLock, Reload, Refreshed,
              ReplyLost, Refused, WriteDone, WantRefresh, Goto
<1>2. ASSUME NEW t \in Tasks, Cancel(t) PROVE Postable'
  BY <1>2 DEF Cancel, Goto
<1>3. ASSUME NEW w \in writers, WriterStep(w) PROVE Postable'
  BY <1>3 DEF WriterStep, WriterCheck, WriterLock, WriterRename, WriterFail
<1>4. ASSUME NEW token \in orphans, OrphanServed(token) PROVE Postable'
  BY <1>4 DEF OrphanServed
<1>5. CASE Crash  BY <1>5 DEF Crash
<1>6. CASE Expire  BY <1>6 DEF Expire
<1>7. CASE CodexRefresh \/ CodexLogout \/ CodexLogin
  BY <1>7 DEF CodexRefresh, CodexLogout, CodexLogin, Outsider
<1>8. CASE UNCHANGED vars  BY <1>8 DEF vars
<1> QED  BY <1>1, <1>2, <1>3, <1>4, <1>5, <1>6, <1>7, <1>8 DEF Next

\* Every variable keeps its type, and no writer, task or orphan ever holds a
\* token that was not minted from the endpoint.
THEOREM TypeCorrect == Spec => []TypeOK
<1>1. TypeOK /\ Postable /\ [Next]_vars => (TypeOK /\ Postable)'
  BY TypeStep, PostStep
<1> QED  BY <1>1, TypeInit, PTL DEF Spec

-----------------------------------------------------------------------------
(* The lock.                                                               *)

\* The refresh lock is held by the one task inside reload, POST and write.
LEMMA LockStep == TypeOK /\ LockHeldInside /\ [Next]_vars => LockHeldInside'
<1> SUFFICES ASSUME TypeOK, LockHeldInside, [Next]_vars PROVE LockHeldInside'
  OBVIOUS
<1> USE AuthAssumption DEF TypeOK, LockHeldInside, LockedPcs
<1>1. ASSUME NEW t \in Tasks, Task(t) PROVE LockHeldInside'
  <2>1. CASE LoadSession(t) \/ Unauthorized(t) \/ Answered(t) \/ AcquireLock(t)
    BY <2>1 DEF LoadSession, Unauthorized, Answered, AcquireLock, WantRefresh, Goto
  <2>2. CASE Reload(t)
    BY <2>2 DEF Reload, Goto, Unlock
  <2>3. CASE Refreshed(t) \/ ReplyLost(t) \/ Refused(t)
    BY <2>3 DEF Refreshed, ReplyLost, Refused, Goto, Unlock
  <2>4. CASE WriteDone(t)
    BY <2>4 DEF WriteDone, Goto, Unlock
  <2> QED  BY <1>1, <2>1, <2>2, <2>3, <2>4 DEF Task
<1>2. ASSUME NEW t \in Tasks, Cancel(t) PROVE LockHeldInside'
  BY <1>2 DEF Cancel, Goto, Unlock
<1>3. ASSUME NEW w \in writers, WriterStep(w) PROVE LockHeldInside'
  BY <1>3 DEF WriterStep, WriterCheck, WriterLock, WriterRename, WriterFail
<1>4. ASSUME NEW token \in orphans, OrphanServed(token) PROVE LockHeldInside'
  BY <1>4 DEF OrphanServed
<1>5. CASE Crash  BY <1>5 DEF Crash
<1>6. CASE Expire  BY <1>6 DEF Expire
<1>7. CASE CodexRefresh \/ CodexLogout \/ CodexLogin
  BY <1>7 DEF CodexRefresh, CodexLogout, CodexLogin, Outsider
<1>8. CASE UNCHANGED vars  BY <1>8 DEF vars
<1> QED  BY <1>1, <1>2, <1>3, <1>4, <1>5, <1>6, <1>7, <1>8 DEF Next

LEMMA LockInit == Init => LockHeldInside
BY AuthAssumption DEF Init, LockHeldInside, LockedPcs

\* The lock is held exactly while its holder is inside: no error return, no
\* dropped request and no restart leaks it.
THEOREM LockIsHeldInside == Spec => []LockHeldInside
<1>1. TypeOK /\ LockHeldInside /\ [Next]_vars => LockHeldInside'  BY LockStep
<1> QED  BY <1>1, LockInit, TypeCorrect, PTL DEF Spec

-----------------------------------------------------------------------------
(* Tokens, owners of writes and the retry.                                 *)

LEMMA MintedStep == TypeOK /\ Minted /\ [Next]_vars => Minted'
<1> SUFFICES ASSUME TypeOK, Minted, [Next]_vars PROVE Minted'
  OBVIOUS
<1>0. /\ minted \in Nat
      /\ disk # NoAuth => disk \in Creds
      /\ \A c \in Creds : c.access \in Nat
      /\ \A t \in Tasks : seen[t] \in Creds /\ denied[t] \in Nat
      /\ \A w \in writers : w \in Writer /\ w.creds \in Creds
  BY TokenFacts DEF TypeOK, Creds, Access, Writer
<1> USE DEF Minted, world
<1>1. ASSUME NEW t \in Tasks, Task(t) PROVE Minted'
  <2>0. seen \in [Tasks -> Creds] /\ denied \in [Tasks -> Access]  BY DEF TypeOK
  <2>1. CASE LoadSession(t)
    BY <1>0, <2>0, <2>1 DEF LoadSession, WantRefresh
  <2>2. CASE Unauthorized(t)
    BY <1>0, <2>0, <2>2 DEF Unauthorized, WantRefresh
  <2>3. CASE Answered(t) \/ AcquireLock(t) \/ Refused(t)
    BY <2>3 DEF Answered, AcquireLock, Refused
  <2>4. CASE Reload(t)
    BY <1>0, <2>0, <2>4 DEF Reload
  <2>5. CASE Refreshed(t)
    <3>1. PICK reply \in Replies :
            /\ Mint(seen[t].refresh, reply)
            /\ writers' = writers \cup
                 {[owner |-> t, base |-> seen[t],
                   creds |-> MergeRefresh(seen[t], reply), step |-> "check"]}
      BY <2>5 DEF Refreshed
    <3>2. seen[t].refresh \in Tokens  BY <3>1 DEF Mint, TypeOK
    <3>3. /\ minted' = minted + 1
          /\ MergeRefresh(seen[t], reply).access = minted + 1
      BY <3>1, <3>2, <1>0, MintTypes, MergeTypes
    <3>4. \A w \in writers' : w.creds.access <= minted'
      BY <1>0, <3>1, <3>3
    <3> QED  BY <1>0, <2>5, <3>3, <3>4 DEF Refreshed
  <2>6. CASE ReplyLost(t)
    <3>1. PICK reply \in Replies : Mint(seen[t].refresh, reply)
      BY <2>6 DEF ReplyLost
    <3>2. minted' = minted + 1  BY <3>1 DEF Mint
    <3> QED  BY <1>0, <2>6, <3>2 DEF ReplyLost
  <2>7. CASE WriteDone(t)
    BY <1>0, <2>0, <2>7 DEF WriteDone, Unwritten
  <2> QED  BY <1>1, <2>1, <2>2, <2>3, <2>4, <2>5, <2>6, <2>7 DEF Task
<1>2. ASSUME NEW t \in Tasks, Cancel(t) PROVE Minted'
  <2>1. \A v \in writers' : v.creds.access <= minted
    BY <1>2, CancelledWriters
  <2> QED  BY <1>2, <2>1 DEF Cancel
<1>3. ASSUME NEW w \in writers, WriterStep(w) PROVE Minted'
  <2>1. PICK step \in {"check", "flock", "rename", "ok", "bad"} : Move(w, step)
    BY <1>3 DEF WriterStep, WriterCheck, WriterLock, WriterRename, WriterFail
  <2>2. \A v \in writers' : v.creds.access <= minted
    BY <2>1, MovedWriter
  <2>3. /\ minted' = minted /\ seen' = seen /\ denied' = denied
        /\ disk' = disk \/ disk' = w.creds
    BY <1>3 DEF WriterStep, WriterCheck, WriterLock, WriterRename, WriterFail
  <2> QED  BY <2>2, <2>3
<1>4. ASSUME NEW token \in orphans, OrphanServed(token) PROVE Minted'
  <2>1. minted' = minted \/ minted' = minted + 1  BY <1>4 DEF OrphanServed, Mint
  <2> QED  BY <1>0, <1>4, <2>1 DEF OrphanServed
<1>5. CASE Crash  BY <1>5 DEF Crash
<1>6. CASE Expire  BY <1>6 DEF Expire
<1>7. CASE CodexRefresh
  <2>1. PICK reply \in Replies : Mint(disk.refresh, reply) /\ disk' = MergeRefresh(disk, reply)
    BY <1>7 DEF CodexRefresh
  <2>2. disk \in Creds /\ disk.refresh \in Tokens
    BY <1>7, <1>0, <2>1 DEF CodexRefresh, Mint, TypeOK
  <2>3. minted' = minted + 1 /\ disk'.access = minted + 1
    BY <2>1, <2>2, MintTypes, MergeTypes
  <2> QED  BY <1>0, <1>7, <2>3 DEF CodexRefresh, Outsider
<1>8. CASE CodexLogout  BY <1>8 DEF CodexLogout, Outsider
<1>9. CASE CodexLogin  BY <1>0, <1>9 DEF CodexLogin, Pair
<1>10. CASE UNCHANGED vars  BY <1>10 DEF vars
<1> QED  BY <1>1, <1>2, <1>3, <1>4, <1>5, <1>6, <1>7, <1>8, <1>9, <1>10 DEF Next

LEMMA OwnedStep ==
  TypeOK /\ Minted /\ Owned /\ [Next]_vars => Owned'
<1> SUFFICES ASSUME TypeOK, Minted, Owned, [Next]_vars PROVE Owned'
  OBVIOUS
<1>0. pc \in [Tasks -> Pcs] /\ denied \in [Tasks -> Access]  BY DEF TypeOK
<1>00. \A w \in writers : w \in Writer /\ (w.owner # Nobody => w.owner \in Tasks)
  BY DEF TypeOK, Writer
<1> USE AuthAssumption DEF Owned, world
<1>1. ASSUME NEW t \in Tasks, Task(t) PROVE Owned'
  <2>1. CASE LoadSession(t) \/ Unauthorized(t)
    BY <1>0, <1>00, <2>1 DEF LoadSession, Unauthorized, WantRefresh, Goto
  <2>2. CASE Answered(t) \/ AcquireLock(t) \/ Reload(t) \/ ReplyLost(t) \/ Refused(t)
    BY <1>0, <1>00, <2>2 DEF Answered, AcquireLock, Reload, ReplyLost, Refused, Goto
  <2>3. CASE Refreshed(t)
    <3>1. PICK reply \in Replies :
            /\ Mint(seen[t].refresh, reply)
            /\ writers' = writers \cup
                 {[owner |-> t, base |-> seen[t],
                   creds |-> MergeRefresh(seen[t], reply), step |-> "check"]}
      BY <2>3 DEF Refreshed
    <3>2. MergeRefresh(seen[t], reply).access = minted + 1
      BY <3>1 DEF MergeRefresh, Replies
    <3>3. minted + 1 # denied[t]
      BY TokenFacts DEF Minted, TypeOK, Access
    <3>4. \A w \in writers : w.owner # t
      BY <2>3 DEF Refreshed
    <3>5. pc' = [pc EXCEPT ![t] = "writing"] /\ denied' = denied
      BY <2>3 DEF Refreshed, Goto
    <3> QED  BY <1>0, <1>00, <3>1, <3>2, <3>3, <3>4, <3>5
  <2>4. CASE WriteDone(t)
    <3>1. PICK w \in writers \ Unwritten : w.owner = t /\ writers' = writers \ {w}
      BY <2>4 DEF WriteDone
    <3>2. \A v \in writers' : v.owner # t  BY <3>1
    <3>3. denied' = denied /\ \A u \in Tasks : u # t => pc'[u] = pc[u]
      BY <1>0, <2>4 DEF WriteDone, Goto
    <3> QED  BY <1>00, <3>1, <3>2, <3>3
  <2> QED  BY <1>1, <2>1, <2>2, <2>3, <2>4 DEF Task
<1>2. ASSUME NEW t \in Tasks, Cancel(t) PROVE Owned'
  <2>1. \A v \in writers' : v.owner # Nobody => v \in writers /\ v.owner # t
    BY <1>2, CancelledWriters
  <2>2. denied' = denied /\ \A u \in Tasks : u # t => pc'[u] = pc[u]
    BY <1>0, <1>2 DEF Cancel, Goto
  <2> QED  BY <1>00, <2>1, <2>2
<1>3. ASSUME NEW w \in writers, WriterStep(w) PROVE Owned'
  <2>1. PICK step \in {"check", "flock", "rename", "ok", "bad"} : Move(w, step)
    BY <1>3 DEF WriterStep, WriterCheck, WriterLock, WriterRename, WriterFail
  <2>2. PICK moved :
          /\ \A v \in writers' : v = moved \/ (v \in writers /\ v # w)
          /\ moved.owner = w.owner /\ moved.creds = w.creds
    BY <2>1, MovedWriter
  <2>3. pc' = pc /\ denied' = denied
    BY <1>3 DEF WriterStep, WriterCheck, WriterLock, WriterRename, WriterFail
  <2> QED  BY <2>2, <2>3
<1>4. ASSUME NEW token \in orphans, OrphanServed(token) PROVE Owned'
  BY <1>4 DEF OrphanServed
<1>5. CASE Crash  BY <1>5 DEF Crash
<1>6. CASE Expire  BY <1>6 DEF Expire
<1>7. CASE CodexRefresh \/ CodexLogout \/ CodexLogin
  BY <1>7 DEF CodexRefresh, CodexLogout, CodexLogin, Outsider
<1>8. CASE UNCHANGED vars  BY <1>8 DEF vars
<1> QED  BY <1>1, <1>2, <1>3, <1>4, <1>5, <1>6, <1>7, <1>8 DEF Next

LEMMA RetryStep ==
  TypeOK /\ Owned /\ RetryIsDifferent /\ [Next]_vars => RetryIsDifferent'
<1> SUFFICES ASSUME TypeOK, Owned, RetryIsDifferent, [Next]_vars PROVE RetryIsDifferent'
  OBVIOUS
<1>0. /\ pc \in [Tasks -> Pcs] /\ denied \in [Tasks -> Access] /\ seen \in [Tasks -> Creds]
      /\ after \in [Tasks -> {"using", "retrying"}]
  BY DEF TypeOK
<1> USE <1>0 DEF RetryIsDifferent, world
<1>1. ASSUME NEW t \in Tasks, Task(t) PROVE RetryIsDifferent'
  <2>1. CASE LoadSession(t) \/ Unauthorized(t)
    BY <2>1 DEF LoadSession, Unauthorized, WantRefresh, Goto
  <2>2. CASE Answered(t) \/ AcquireLock(t) \/ Refreshed(t) \/ ReplyLost(t) \/ Refused(t)
    BY <2>2 DEF Answered, AcquireLock, Refreshed, ReplyLost, Refused, Goto
  <2>3. CASE Reload(t)
    BY <2>3 DEF Reload, Goto
  <2>4. CASE WriteDone(t)
    BY <2>4, AuthAssumption DEF WriteDone, Goto, Owned, Unwritten
  <2> QED  BY <1>1, <2>1, <2>2, <2>3, <2>4 DEF Task
<1>2. ASSUME NEW t \in Tasks, Cancel(t) PROVE RetryIsDifferent'
  BY <1>2 DEF Cancel, Goto
<1>3. ASSUME NEW w \in writers, WriterStep(w) PROVE RetryIsDifferent'
  BY <1>3 DEF WriterStep, WriterCheck, WriterLock, WriterRename, WriterFail
<1>4. ASSUME NEW token \in orphans, OrphanServed(token) PROVE RetryIsDifferent'
  BY <1>4 DEF OrphanServed
<1>5. CASE Crash  BY <1>5 DEF Crash
<1>6. CASE Expire  BY <1>6 DEF Expire
<1>7. CASE CodexRefresh \/ CodexLogout \/ CodexLogin
  BY <1>7 DEF CodexRefresh, CodexLogout, CodexLogin, Outsider
<1>8. CASE UNCHANGED vars  BY <1>8 DEF vars
<1> QED  BY <1>1, <1>2, <1>3, <1>4, <1>5, <1>6, <1>7, <1>8 DEF Next

LEMMA RetryInit == Init => Minted /\ Owned /\ RetryIsDifferent
BY DEF Init, Minted, Owned, RetryIsDifferent, Pair

\* The retry after a 401 never repeats the rejected access token: either the
\* file held another one under the lock, or a new one was minted, later than
\* every token ever seen.
THEOREM RetriesAreDifferent == Spec => []RetryIsDifferent
<1> DEFINE J == Minted /\ Owned /\ RetryIsDifferent
<1>1. TypeOK /\ J /\ [Next]_vars => J'  BY MintedStep, OwnedStep, RetryStep
<1>2. Init => J  BY RetryInit
<1>3. J => RetryIsDifferent  OBVIOUS
<1> QED  BY <1>1, <1>2, <1>3, TypeCorrect, PTL DEF Spec

-----------------------------------------------------------------------------
(* An undisturbed refresh.                                                 *)

\* The lock makes a calm state simple: one unwritten file at most, by the
\* holder of the lock, and none while a POST is out.
LEMMA CalmFacts ==
  ASSUME Context, Settled
  PROVE  /\ \A w \in Unwritten : /\ w \in writers
                                 /\ w.owner \in Tasks
                                 /\ pc[w.owner] = "writing"
                                 /\ lock = w.owner
         /\ \A v, w \in Unwritten : v = w
         /\ \A t \in Tasks : pc[t] = "posting" => lock = t /\ Unwritten = {}
<1>1. ASSUME NEW w \in Unwritten
      PROVE  w \in writers /\ w.owner \in Tasks /\ pc[w.owner] = "writing" /\ lock = w.owner
  <2>1. w \in writers /\ w \in Writer  BY DEF Context, TypeOK, Unwritten
  <2>2. w.owner \in Tasks  BY <2>1 DEF Settled, Writer
  <2>3. pc[w.owner] = "writing"  BY <2>1 DEF Context, Owned, Settled
  <2> QED  BY <2>1, <2>2, <2>3 DEF Context, LockHeldInside, LockedPcs
<1>2. \A v, w \in Unwritten : v = w
  BY <1>1 DEF Context, Owned, Settled
<1>3. ASSUME NEW t \in Tasks, pc[t] = "posting" PROVE lock = t /\ Unwritten = {}
  <2>1. lock = t  BY <1>3 DEF Context, LockHeldInside, LockedPcs
  <2> QED  BY <1>1, <1>3, <2>1
<1> QED  BY <1>1, <1>2, <1>3

\* A granted refresh leaves the endpoint accepting what the file will hold, if that
\* is a refresh token at all, and the old one or the new one.
LEMMA MintKeepsLogin ==
  ASSUME TypeOK, NEW base \in Creds, base.refresh # None, NEW reply \in Replies,
         Mint(base.refresh, reply)
  PROVE  /\ LET new == MergeRefresh(base, reply).refresh
            IN  new # None => new \in live'
         /\ base.refresh \in live' \/ MergeRefresh(base, reply).refresh \in live'
BY TokenFacts DEF Mint, MergeRefresh, Replies, Pair, Creds, None, TypeOK

LEMMA CalmStep == Context /\ Calm /\ [Next]_vars => Calm'
<1> SUFFICES ASSUME Context, Calm, [Next]_vars, ~disturbed' PROVE Settled'
  BY DEF Calm
<1>0. pc \in [Tasks -> Pcs] /\ seen \in [Tasks -> Creds]  BY DEF Context, TypeOK
<1> USE DEF world
<1>1. ASSUME NEW t \in Tasks, Task(t) PROVE Settled'
  <2>0. Settled
    BY <1>1 DEF Calm, Task, LoadSession, Unauthorized, Answered, AcquireLock, Reload,
                Refreshed, ReplyLost, Refused, WriteDone, Context, TypeOK
  <2>00. Unwritten' = {w \in writers' : w.step \in {"check", "flock", "rename"}}
    BY DEF Unwritten
  <2>1. CASE LoadSession(t) \/ Unauthorized(t) \/ Answered(t)
    <3>1. UNCHANGED <<disk, live, lock, writers, orphans>>
      BY <2>1 DEF LoadSession, Unauthorized, Answered
    <3>2. Unwritten' = Unwritten  BY <3>1 DEF Unwritten
    <3>3. \A u \in Tasks : pc'[u] = "posting" => pc[u] = "posting" /\ seen'[u] = seen[u]
      BY <1>0, <2>1 DEF LoadSession, Unauthorized, Answered, WantRefresh, Goto
    <3> QED  BY <2>0, <3>1, <3>2, <3>3 DEF Settled
  <2>2. CASE AcquireLock(t)
    <3>1. UNCHANGED <<disk, live, writers, orphans, seen>>  BY <2>2 DEF AcquireLock
    <3>2. Unwritten' = Unwritten  BY <3>1 DEF Unwritten
    <3>3. \A u \in Tasks : pc'[u] = "posting" => pc[u] = "posting"
      BY <1>0, <2>2 DEF AcquireLock, Goto
    <3>4. Unwritten = {}
      BY <2>0, <2>2, CalmFacts, AuthAssumption DEF AcquireLock
    <3> QED  BY <2>0, <3>1, <3>2, <3>3, <3>4 DEF Settled
  <2>3. CASE Reload(t)
    <3>1. UNCHANGED <<disk, live, writers, orphans>>  BY <2>3 DEF Reload
    <3>2. Unwritten' = Unwritten  BY <3>1 DEF Unwritten
    <3>3. \A u \in Tasks : pc'[u] = "posting" => seen'[u] = disk
      BY <1>0, <2>0, <2>3 DEF Reload, Goto, Settled, Context, TypeOK
    <3>4. pc[t] = "locked" /\ lock = t
      BY <2>3 DEF Reload, Context, LockHeldInside, LockedPcs
    <3>5. Unwritten = {}  BY <2>0, <3>4, CalmFacts
    <3> QED  BY <2>0, <3>1, <3>2, <3>3, <3>5 DEF Settled
  <2>4. CASE Refreshed(t)
    <3> DEFINE new(reply) == [owner |-> t, base |-> seen[t],
                              creds |-> MergeRefresh(seen[t], reply), step |-> "check"]
    <3>1. PICK reply \in Replies :
            Mint(seen[t].refresh, reply) /\ writers' = writers \cup {new(reply)}
      BY <2>4 DEF Refreshed
    <3>2. /\ UNCHANGED <<disk, orphans, lock, seen>>
          /\ pc[t] = "posting"
          /\ \A u \in Tasks : pc'[u] = "posting" => pc[u] = "posting"
      BY <1>0, <2>4 DEF Refreshed, Goto
    <3>3. lock = t /\ Unwritten = {} /\ seen[t] = disk /\ seen[t] \in Creds
      BY <1>0, <2>0, <3>2, CalmFacts DEF Settled
    <3>4. Unwritten' = {new(reply)}  BY <3>1, <3>3 DEF Unwritten
    <3>5. LET merged == MergeRefresh(seen[t], reply).refresh
          IN  /\ merged # None => merged \in live'
              /\ disk.refresh \in live' \/ merged \in live'
      BY <3>1, <3>2, <3>3, MintKeepsLogin DEF Context, Postable
    <3> QED  BY <2>0, <3>2, <3>3, <3>4, <3>5, AuthAssumption DEF Settled
  <2>5. CASE ReplyLost(t)
    <3>1. UNCHANGED <<disk, live, writers, orphans, seen>>
      BY <2>5 DEF ReplyLost, Context, TypeOK
    <3>2. Unwritten' = Unwritten  BY <3>1 DEF Unwritten
    <3>3. \A u \in Tasks : pc'[u] = "posting" => pc[u] = "posting"
      BY <1>0, <2>5 DEF ReplyLost, Goto
    <3>4. Unwritten = {}  BY <2>0, <2>5, CalmFacts DEF ReplyLost
    <3> QED  BY <2>0, <3>1, <3>2, <3>3, <3>4 DEF Settled
  <2>6. CASE Refused(t)
    <3>1. UNCHANGED <<disk, live, writers, orphans, seen>>  BY <2>6 DEF Refused
    <3>2. Unwritten' = Unwritten  BY <3>1 DEF Unwritten
    <3>3. \A u \in Tasks : pc'[u] = "posting" => pc[u] = "posting"
      BY <1>0, <2>6 DEF Refused, Goto
    <3>4. Unwritten = {}  BY <2>0, <2>6, CalmFacts DEF Refused
    <3> QED  BY <2>0, <3>1, <3>2, <3>3, <3>4 DEF Settled
  <2>7. CASE WriteDone(t)
    <3>1. PICK w \in writers \ Unwritten : w.owner = t /\ writers' = writers \ {w}
      BY <2>7 DEF WriteDone
    <3>2. UNCHANGED <<disk, live, orphans>> /\ pc[t] = "writing"  BY <2>7 DEF WriteDone
    <3>3. \A u \in Tasks : pc'[u] = "posting" => pc[u] = "posting" /\ seen'[u] = seen[u]
      BY <1>0, <2>7 DEF WriteDone, Goto, Context, TypeOK
    <3>4. lock = t  BY <3>2 DEF Context, LockHeldInside, LockedPcs
    <3>5. Unwritten = {}
      BY <2>0, <3>1, <3>4, CalmFacts, AuthAssumption DEF Context, Owned
    <3>6. Unwritten' = {}  BY <3>1, <3>5 DEF Unwritten
    <3> QED  BY <2>0, <3>2, <3>3, <3>5, <3>6 DEF Settled
  <2> QED  BY <1>1, <2>1, <2>2, <2>3, <2>4, <2>5, <2>6, <2>7 DEF Task
<1>2. ASSUME NEW t \in Tasks, Cancel(t) PROVE Settled'
  <2>1. Settled  BY <1>2 DEF Cancel, Calm
  <2>2. pc[t] # "posting" /\ \A w \in Unwritten : w.owner # t  BY <1>2 DEF Cancel
  <2>3. /\ UNCHANGED <<disk, live, seen, orphans>>
        /\ \A u \in Tasks : pc'[u] = "posting" => pc[u] = "posting"
    BY <1>0, <1>2, <2>2 DEF Cancel, Goto
  <2>4. lock # t => lock' = lock  BY <1>2 DEF Cancel, Unlock
  <2>5. Unwritten' = Unwritten
    <3>1. ASSUME NEW v \in Unwritten' PROVE v \in Unwritten
      <4>1. v \in writers' /\ v.step \in {"check", "flock", "rename"}  BY <3>1 DEF Unwritten
      <4>2. PICK w \in writers : /\ v.creds = w.creds /\ v.base = w.base /\ v.step = w.step
                                 /\ v.owner = IF w.owner = t THEN Nobody ELSE w.owner
                                 /\ v.owner # Nobody => v = w
        BY <1>2, <4>1, CancelledWriters DEF Context
      <4>3. w \in Unwritten  BY <4>1, <4>2 DEF Unwritten
      <4>4. w.owner # t /\ w.owner # Nobody  BY <2>1, <2>2, <4>3 DEF Settled
      <4> QED  BY <4>2, <4>3, <4>4
    <3>2. ASSUME NEW v \in Unwritten PROVE v \in Unwritten'
      <4>1. v \in writers /\ v.owner # t  BY <2>2 DEF Unwritten
      <4>2. v \in writers'  BY <1>2, <4>1, CancelledWriters DEF Context
      <4> QED  BY <4>2 DEF Unwritten
    <3> QED  BY <3>1, <3>2
  <2>6. \A w \in Unwritten : w.owner = lock => lock' = lock  BY <2>2, <2>4
  <2> QED  BY <2>1, <2>3, <2>5, <2>6 DEF Settled
<1>3. ASSUME NEW w \in writers, WriterStep(w) PROVE Settled'
  <2>0. Settled
    BY <1>3 DEF Calm, WriterStep, WriterCheck, WriterLock, WriterRename, WriterFail, Context, TypeOK
  <2>1. UNCHANGED <<live, lock, pc, seen, orphans>>
    BY <1>3 DEF WriterStep, WriterCheck, WriterLock, WriterRename, WriterFail
  <2>2. w \in Unwritten  BY <1>3 DEF WriterStep, WriterCheck, WriterLock, WriterRename, WriterFail, Unwritten
  <2>3. Unwritten = {w} /\ lock = w.owner /\ w.owner # Nobody /\ w.base = disk
        /\ \A t \in Tasks : pc[t] # "posting"
    BY <2>0, <2>2, CalmFacts DEF Settled
  <2>4. CASE WriterCheck(w) \/ WriterLock(w)
    <3>1. PICK step \in {"flock", "rename"} : Move(w, step)
      BY <2>4 DEF WriterCheck, WriterLock
    <3>2. PICK moved :
            /\ \A v \in writers' : v = moved \/ (v \in writers /\ v # w)
            /\ \A v \in writers : v # w => v \in writers'
            /\ w.owner # Nobody \/ step \notin {"ok", "bad"} => moved \in writers'
            /\ moved.owner = w.owner /\ moved.base = w.base
            /\ moved.creds = w.creds /\ moved.step = step
      BY <3>1, MovedWriter DEF Context
    <3>3. Unwritten' = {moved}  BY <2>3, <3>2 DEF Unwritten
    <3>4. disk' = disk  BY <2>4 DEF WriterCheck, WriterLock
    <3> QED  BY <2>0, <2>1, <2>3, <3>2, <3>3, <3>4 DEF Settled
  <2>5. CASE WriterRename(w) \/ WriterFail(w)
    <3>1. PICK step \in {"ok", "bad"} : Move(w, step)
      BY <2>5 DEF WriterRename, WriterFail
    <3>2. PICK moved :
            /\ \A v \in writers' : v = moved \/ (v \in writers /\ v # w)
            /\ moved.step = step
      BY <3>1, MovedWriter DEF Context
    <3>3. Unwritten' = {}  BY <2>3, <3>2 DEF Unwritten
    <3>4. disk' # NoAuth /\ disk'.refresh # None => disk'.refresh \in live
      <4>1. CASE WriterRename(w)
        BY <2>0, <2>2, <4>1 DEF WriterRename, Settled
      <4>2. CASE WriterFail(w)
        <5>1. disk' = disk /\ w.base.refresh \in live
          BY <4>2 DEF WriterFail, Context, TypeOK
        <5> QED  BY <2>3, <5>1
      <4> QED  BY <2>5, <4>1, <4>2
    <3> QED  BY <2>0, <2>1, <2>3, <3>3, <3>4 DEF Settled
  <2> QED  BY <1>3, <2>4, <2>5 DEF WriterStep
<1>4. ASSUME NEW token \in orphans, OrphanServed(token) PROVE Settled'
  BY <1>4 DEF OrphanServed, Calm, Settled
<1>5. CASE Crash
  <2>1. Settled /\ ~InFlight  BY <1>5 DEF Crash, Calm, Context, TypeOK
  <2>2. /\ \A t \in Tasks : pc[t] # "posting"
        /\ Unwritten = {} /\ orphans = {}
    BY <2>1 DEF InFlight
  <2>3. Unwritten' = {} /\ orphans' = {}  BY <1>5, <2>2 DEF Crash, Unwritten
  <2> QED  BY <1>5, <2>1, <2>2, <2>3 DEF Crash, Settled
<1>6. CASE Expire
  <2>1. UNCHANGED <<disk, live, lock, pc, seen, orphans, writers, disturbed>>
    BY <1>6 DEF Expire
  <2>2. Unwritten' = Unwritten  BY <2>1 DEF Unwritten
  <2> QED  BY <2>1, <2>2 DEF Calm, Settled
<1>7. CASE CodexRefresh \/ CodexLogout
  <2>1. Settled /\ ~InFlight
    BY <1>7 DEF CodexRefresh, CodexLogout, Outsider, Calm, Context, TypeOK
  <2>2. /\ \A t \in Tasks : pc[t] # "posting"
        /\ Unwritten = {} /\ orphans = {}
    BY <2>1 DEF InFlight
  <2>3. UNCHANGED <<pc, seen, orphans, writers>>
    BY <1>7 DEF CodexRefresh, CodexLogout, Outsider
  <2>4. Unwritten' = {}  BY <2>2, <2>3 DEF Unwritten
  <2>5. disk' # NoAuth /\ disk'.refresh # None => disk'.refresh \in live'
    <3>1. CASE CodexRefresh
      <4>1. PICK reply \in Replies : Mint(disk.refresh, reply) /\ disk' = MergeRefresh(disk, reply)
        BY <3>1 DEF CodexRefresh
      <4>2. disk \in Creds /\ disk.refresh # None
        BY <3>1 DEF CodexRefresh, Context, TypeOK
      <4> QED  BY <4>1, <4>2, MintKeepsLogin DEF Context
    <3>2. CASE CodexLogout  BY <3>2 DEF CodexLogout
    <3> QED  BY <1>7, <3>1, <3>2
  <2> QED  BY <2>2, <2>3, <2>4, <2>5 DEF Settled
<1>8. CASE CodexLogin
  <2>1. ~InFlight  BY <1>8 DEF CodexLogin
  <2>2. /\ \A t \in Tasks : pc[t] # "posting"
        /\ Unwritten = {} /\ orphans = {}
    BY <2>1 DEF InFlight
  <2>3. UNCHANGED <<pc, seen, orphans, writers>>  BY <1>8 DEF CodexLogin
  <2>4. Unwritten' = {}  BY <2>2, <2>3 DEF Unwritten
  <2>5. disk'.refresh # None => disk'.refresh \in live'
    BY <1>8 DEF CodexLogin, Pair
  <2> QED  BY <2>2, <2>3, <2>4, <2>5 DEF Settled
<1>9. CASE UNCHANGED vars
  <2>1. UNCHANGED <<disk, live, lock, pc, seen, orphans, writers, disturbed>>
    BY <1>9 DEF vars
  <2>2. Unwritten' = Unwritten  BY <2>1 DEF Unwritten
  <2> QED  BY <2>1, <2>2 DEF Calm, Settled
<1> QED  BY <1>1, <1>2, <1>3, <1>4, <1>5, <1>6, <1>7, <1>8, <1>9 DEF Next

LEMMA CalmInit == Init => Calm
BY DEF Init, Calm, Settled, Unwritten, Pair

\* The invariant all four claims about an undisturbed refresh follow from.
THEOREM RefreshInvariant == Spec => [](Context /\ Calm)
<1>1. Context /\ Calm /\ [Next]_vars => (Context /\ Calm)'
  BY TypeStep, PostStep, LockStep, MintedStep, OwnedStep, CalmStep DEF Context
<1>2. Init => Context /\ Calm
  BY TypeInit, LockInit, RetryInit, CalmInit DEF Context
<1> QED  BY <1>1, <1>2, PTL DEF Spec

\* The bridge presents a refresh token only while the endpoint accepts it.
THEOREM NoTokenIsSpentTwice == Spec => []NoSpentToken
<1>1. Context /\ Calm => NoSpentToken
  <2> SUFFICES ASSUME Context, Settled, NEW t \in Tasks, pc[t] = "posting"
               PROVE  seen[t].refresh \in live
    BY DEF Calm, NoSpentToken
  <2>1. Unwritten = {} /\ seen[t] = disk  BY CalmFacts DEF Settled
  <2>2. disk.refresh # None /\ disk # NoAuth
    BY <2>1, NoAuthAssumption DEF Context, Postable, TypeOK
  <2> QED  BY <2>1, <2>2 DEF Settled
<1> QED  BY <1>1, RefreshInvariant, PTL

\* The login on disk is good, or its replacement is being written.
THEOREM LoginIsKept == Spec => []LoginSurvives
<1>1. Context /\ Calm => LoginSurvives  BY DEF Calm, Settled, LoginSurvives
<1> QED  BY <1>1, RefreshInvariant, PTL

\* What is POSTed and what is replaced is what is on disk at that moment.
THEOREM NoWriteIsStale == Spec => []NoStaleWrite
<1>1. Context /\ Calm => NoStaleWrite  BY DEF Calm, Settled, NoStaleWrite
<1> QED  BY <1>1, RefreshInvariant, PTL

\* One POST or one write at a time, however many requests want one.
THEOREM RefreshesAreSerial == Spec => []OneRefresh
<1>1. Context /\ Calm => OneRefresh
  <2> SUFFICES ASSUME Context, Settled
               PROVE  LET posting == {t \in Tasks : pc[t] = "posting"}
                      IN  orphans = {} /\ Cardinality(posting) + Cardinality(Unwritten) <= 1
    BY DEF Calm, OneRefresh
  <2> DEFINE posting == {t \in Tasks : pc[t] = "posting"}
  <2>1. Cardinality({}) = 0  BY FS_EmptySet
  <2>2. CASE posting = {}
    <3>1. CASE Unwritten = {}
      BY <2>1, <2>2, <3>1 DEF Settled
    <3>2. CASE Unwritten # {}
      <4>1. PICK w : w \in Unwritten  BY <3>2
      <4>2. \A u, v \in Unwritten : u = v  BY CalmFacts
      <4>3. Unwritten = {w}  BY <4>1, <4>2
      <4>4. Cardinality({w}) = 1  BY FS_Singleton
      <4> QED  BY <2>1, <2>2, <4>3, <4>4 DEF Settled
    <3> QED  BY <3>1, <3>2
  <2>3. CASE posting # {}
    <3>1. PICK t \in posting : TRUE  BY <2>3
    <3>2. \A u \in Tasks : pc[u] = "posting" => lock = u /\ Unwritten = {}  BY CalmFacts
    <3>3. Unwritten = {} /\ posting = {t}  BY <3>1, <3>2
    <3>4. Cardinality({t}) = 1  BY FS_Singleton
    <3> QED  BY <2>1, <3>3, <3>4 DEF Settled
  <2> QED  BY <2>2, <2>3
<1> QED  BY <1>1, RefreshInvariant, PTL

-----------------------------------------------------------------------------
(* A logout.                                                               *)

\* `codex logout` during a refresh holds, unless the write had passed its check of
\* the file before it (secure_write_auth, auth.rs:198).
THEOREM LogoutIsKept == Spec => LogoutStays
<1> DEFINE Out    == disk = NoAuth /\ PastCheck = {}
           Stays  == PastCheck' = {} /\ (disk' # NoAuth => minted' # minted)
<1>1. ASSUME TypeOK, Out, Next PROVE Stays
  <2> USE <1>1 DEF world
  <2>1. ASSUME NEW t \in Tasks, Task(t) PROVE Stays
    <3>1. disk' = disk
      BY <2>1 DEF Task, LoadSession, Unauthorized, Answered, AcquireLock, Reload,
                  Refreshed, ReplyLost, Refused, WriteDone
    <3>2. \A v \in writers' : v \in writers \/ v.step = "check"
      BY <2>1 DEF Task, LoadSession, Unauthorized, Answered, AcquireLock, Reload,
                  Refreshed, ReplyLost, Refused, WriteDone
    <3> QED  BY <3>1, <3>2 DEF PastCheck
  <2>2. ASSUME NEW t \in Tasks, Cancel(t) PROVE Stays
    <3>1. \A v \in writers' : \E w \in writers : v.step = w.step
      BY <2>2, CancelledWriters
    <3>2. disk' = disk  BY <2>2 DEF Cancel
    <3> QED  BY <3>1, <3>2 DEF PastCheck
  <2>3. ASSUME NEW w \in writers, WriterStep(w) PROVE Stays
    <3>1. w.step \notin {"flock", "rename"}  BY DEF PastCheck
    <3>2. WriterFail(w)
      BY <2>3, <3>1 DEF WriterStep, WriterCheck, WriterLock, WriterRename
    <3>3. Move(w, "bad") /\ disk' = disk  BY <3>2 DEF WriterFail
    <3>4. \A v \in writers' : v \in writers \/ v.step = "bad"
      BY <3>3, MovedWriter
    <3> QED  BY <3>3, <3>4 DEF PastCheck
  <2>4. CASE Crash
    BY <2>4 DEF Crash, PastCheck
  <2>5. CASE CodexLogin
    BY <2>5 DEF CodexLogin, PastCheck, TypeOK, Tokens
  <2>6. ASSUME NEW token \in orphans, OrphanServed(token) PROVE Stays
    BY <2>6 DEF OrphanServed, PastCheck
  <2>7. CASE Expire \/ CodexRefresh \/ CodexLogout
    BY <2>7 DEF Expire, CodexRefresh, CodexLogout
  <2> QED  BY <2>1, <2>2, <2>3, <2>4, <2>5, <2>6, <2>7 DEF Next
<1>2. TypeOK /\ [Next]_vars => [Out => Stays]_vars  BY <1>1
<1> QED  BY <1>2, TypeCorrect, PTL DEF Spec, LogoutStays
=============================================================================
