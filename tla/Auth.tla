-------------------------------- MODULE Auth --------------------------------
(***************************************************************************)
(* AuthManager (src/src/auth.rs): requests that share one auth file, the   *)
(* refresh lock around reload, token POST and write, the blocking writer   *)
(* that outlives a cancelled request, and the world the file is shared     *)
(* with: the token endpoint, the codex CLI, the clock, a crash.            *)
(*                                                                         *)
(* A token is the number it was minted with: pair n is access token n and  *)
(* refresh token n.  A task is one request (or one /readyz) at a time.     *)
(***************************************************************************)
EXTENDS Naturals, FiniteSets

CONSTANTS
  Tasks,      \* concurrent requests
  Nobody,     \* holder of a free lock, owner of an abandoned write
  NoAuth,     \* no auth file, an invalid one, or one others may read
  MaxMinted   \* bound: token pairs minted in one behaviour

ASSUME AuthAssumption ==
  /\ IsFiniteSet(Tasks)
  /\ Nobody \notin Tasks
  /\ MaxMinted \in Nat \ {0}

Tokens == 1..MaxMinted
Access == Tokens
None   == 0                          \* no refresh token in the file or reply
Blank  == MaxMinted + 1              \* an empty one in a reply
Creds  == [access : Access, refresh : Tokens \cup {None}]
ASSUME NoAuthAssumption == NoAuth \notin Creds

VARIABLES
  disk,       \* content of the auth file
  minted,     \* token pairs minted so far
  live,       \* refresh tokens the endpoint accepts
  aging,      \* access tokens that token_expires_soon() is true of
  lock,       \* holder of refresh_lock
  pc,         \* suspension point of each task
  seen,       \* the credentials a task read last
  denied,     \* failed_token of refresh_if_unchanged()
  after,      \* where a task goes with the session it gets
  orphans,    \* refresh tokens POSTed by requests that were dropped
  writers,    \* blocking threads in secure_write_auth()
  refreshes,  \* refresh_count
  disturbed   \* a refresh in flight was cut short or overtaken

vars == <<disk, minted, live, aging, lock, pc, seen, denied, after, orphans,
          writers, refreshes, disturbed>>
world == <<minted, live, aging, orphans>>

Pcs       == {"idle", "using", "retrying", "queued", "locked", "posting", "writing"}
LockedPcs == {"locked", "posting", "writing"}
Writer    == [owner : Tasks \cup {Nobody}, base : Creds, creds : Creds,
              step : {"check", "flock", "rename", "ok", "bad"}]
Unwritten == {w \in writers : w.step \in {"check", "flock", "rename"}}

\* A refresh is under way: its POST is out or its result is not on disk yet.
InFlight  == \/ \E t \in Tasks : pc[t] = "posting"
             \/ orphans # {}
             \/ Unwritten # {}

TypeOK ==
  /\ disk \in Creds \cup {NoAuth}
  /\ minted \in Tokens
  /\ live \in SUBSET Tokens
  /\ aging \in SUBSET Access
  /\ lock \in Tasks \cup {Nobody}
  /\ pc \in [Tasks -> Pcs]
  /\ seen \in [Tasks -> Creds]
  /\ denied \in [Tasks -> Access]
  /\ after \in [Tasks -> {"using", "retrying"}]
  /\ orphans \in SUBSET Tokens
  /\ writers \in SUBSET Writer
  /\ refreshes \in Nat
  /\ disturbed \in BOOLEAN

Pair(n) == [access |-> n, refresh |-> n]

Init ==
  /\ disk = Pair(1)
  /\ minted = 1
  /\ live = {1}
  /\ aging = {}
  /\ lock = Nobody
  /\ pc = [t \in Tasks |-> "idle"]
  /\ seen = [t \in Tasks |-> Pair(1)]
  /\ denied = [t \in Tasks |-> 1]
  /\ after = [t \in Tasks |-> "using"]
  /\ orphans = {}
  /\ writers = {}
  /\ refreshes = 0
  /\ disturbed = FALSE

-----------------------------------------------------------------------------
(* A task.                                                                 *)

Goto(t, at) == pc' = [pc EXCEPT ![t] = at]
Unlock(t)   == lock' = IF lock = t THEN Nobody ELSE lock

\* refresh_if_unchanged(failed_token) up to the await of the lock.
WantRefresh(t, token, next) ==
  /\ Goto(t, "queued")
  /\ denied' = [denied EXCEPT ![t] = token]
  /\ after'  = [after EXCEPT ![t] = next]

\* session(): load_auth() without the lock.  An unreadable file is an error
\* that changes nothing.
LoadSession(t) ==
  /\ pc[t] = "idle"
  /\ disk # NoAuth
  /\ seen' = [seen EXCEPT ![t] = disk]
  /\ IF disk.access \in aging
     THEN WantRefresh(t, disk.access, "using")
     ELSE Goto(t, "using") /\ UNCHANGED <<denied, after>>
  /\ UNCHANGED <<disk, lock, writers, refreshes, disturbed, world>>

\* Upstream answers 401: one refresh, then one retry.
Unauthorized(t) ==
  /\ pc[t] = "using"
  /\ WantRefresh(t, seen[t].access, "retrying")
  /\ UNCHANGED <<disk, lock, seen, writers, refreshes, disturbed, world>>

\* Any other answer, or the answer to the retry.
Answered(t) ==
  /\ pc[t] \in {"using", "retrying"}
  /\ Goto(t, "idle")
  /\ UNCHANGED <<disk, lock, seen, denied, after, writers, refreshes, disturbed, world>>

\* Mutant: the lock is not waited for.
AcquireLock_Unguarded(t) ==
  /\ pc[t] = "queued"
  /\ lock' = t
  /\ Goto(t, "locked")
  /\ UNCHANGED <<disk, seen, denied, after, writers, refreshes, disturbed, world>>

AcquireLock(t) ==
  /\ pc[t] = "queued"
  /\ lock = Nobody
  /\ lock' = t
  /\ Goto(t, "locked")
  /\ UNCHANGED <<disk, seen, denied, after, writers, refreshes, disturbed, world>>

\* Mutant: no second read under the lock; what session() read is POSTed.
Reload_Skipped(t) ==
  /\ pc[t] = "locked"
  /\ seen[t].refresh # None
  /\ Goto(t, "posting")
  /\ UNCHANGED <<disk, lock, seen, denied, after, writers, refreshes, disturbed, world>>

\* Mutant: the guard covers only the second read.
Reload_Unlocks(t) ==
  /\ pc[t] = "locked"
  /\ disk # NoAuth
  /\ IF disk.access # denied[t] \/ disk.refresh = None
     THEN Goto(t, IF disk.access # denied[t] THEN after[t] ELSE "idle")
     ELSE Goto(t, "posting")
  /\ seen' = [seen EXCEPT ![t] = disk]
  /\ Unlock(t)
  /\ UNCHANGED <<disk, denied, after, writers, refreshes, disturbed, world>>

\* Mutant: a token that has not expired is taken for a good one.
Reload_TrustsClock(t) ==
  /\ pc[t] = "locked"
  /\ disk # NoAuth
  /\ IF disk.access \notin aging \/ disk.refresh = None
     THEN /\ Goto(t, IF disk.access \notin aging THEN after[t] ELSE "idle")
          /\ Unlock(t)
     ELSE Goto(t, "posting") /\ UNCHANGED lock
  /\ seen' = [seen EXCEPT ![t] = disk]
  /\ UNCHANGED <<disk, denied, after, writers, refreshes, disturbed, world>>

\* load_auth() under the lock: give up, take the session another task or
\* codex put there meanwhile, or POST the refresh token.
Reload(t) ==
  /\ pc[t] = "locked"
  /\ \/ /\ \/ disk = NoAuth
           \/ disk # NoAuth /\ disk.access = denied[t] /\ disk.refresh = None
        /\ Goto(t, "idle")
        /\ Unlock(t)
        /\ UNCHANGED seen
     \/ /\ disk # NoAuth
        /\ disk.access # denied[t]
        /\ Goto(t, after[t])
        /\ Unlock(t)
        /\ seen' = [seen EXCEPT ![t] = disk]
     \/ /\ disk # NoAuth
        /\ disk.access = denied[t]
        /\ disk.refresh # None
        /\ Goto(t, "posting")
        /\ seen' = [seen EXCEPT ![t] = disk]
        /\ UNCHANGED lock
  /\ UNCHANGED <<disk, denied, after, writers, refreshes, disturbed, world>>

\* The endpoint spends a refresh token: it mints an access token and rotates
\* the refresh token, or leaves it out of the reply, or empty in it.
Mint(token, reply) ==
  /\ token \in live
  /\ minted < MaxMinted
  /\ minted' = minted + 1
  /\ reply.access = minted + 1
  /\ \/ /\ reply.refresh = minted + 1
        /\ live' = (live \ {token}) \cup {minted + 1}
     \/ /\ reply.refresh \in {None, Blank}
        /\ UNCHANGED live

\* Mutant: only the access token is taken from the reply.
MergeRefresh_AccessOnly(base, reply) ==
  [access |-> reply.access, refresh |-> base.refresh]

\* merge_refresh(): a reply without a refresh token keeps the old one; an empty one
\* replaces it, and is read back as none.
MergeRefresh(base, reply) ==
  [access  |-> reply.access,
   refresh |-> CASE reply.refresh = None  -> base.refresh
                 [] reply.refresh = Blank -> None
                 [] OTHER                 -> reply.refresh]

Replies == [access : {minted + 1}, refresh : {minted + 1, None, Blank}]

\* A usable reply arrives and a blocking thread starts to write it.
Refreshed(t) ==
  /\ pc[t] = "posting"
  /\ \E reply \in Replies :
       /\ Mint(seen[t].refresh, reply)
       /\ writers' = writers \cup
            {[owner |-> t, base |-> seen[t],
              creds |-> MergeRefresh(seen[t], reply), step |-> "check"]}
  /\ Goto(t, "writing")
  /\ UNCHANGED <<disk, aging, orphans, lock, seen, denied, after, refreshes, disturbed>>

\* The endpoint minted, and its reply is lost, malformed or empty.
ReplyLost(t) ==
  /\ pc[t] = "posting"
  /\ \E reply \in Replies : Mint(seen[t].refresh, reply)
  /\ disturbed' = (disturbed \/ live' # live)
  /\ Goto(t, "idle")
  /\ Unlock(t)
  /\ UNCHANGED <<disk, aging, orphans, seen, denied, after, writers, refreshes>>

\* The endpoint refuses the token, or cannot be reached.
Refused(t) ==
  /\ pc[t] = "posting"
  /\ Goto(t, "idle")
  /\ Unlock(t)
  /\ UNCHANGED <<disk, seen, denied, after, writers, refreshes, disturbed, world>>

\* The write the task waits for is over.
WriteDone(t) ==
  /\ pc[t] = "writing"
  /\ \E w \in writers \ Unwritten :
       /\ w.owner = t
       /\ writers' = writers \ {w}
       /\ \/ /\ w.step = "ok"
             /\ refreshes' = refreshes + 1
             /\ seen' = [seen EXCEPT ![t] = w.creds]
             /\ Goto(t, after[t])
          \/ /\ w.step = "bad"
             /\ Goto(t, "idle")
             /\ UNCHANGED <<refreshes, seen>>
  /\ Unlock(t)
  /\ UNCHANGED <<disk, denied, after, disturbed, world>>

-----------------------------------------------------------------------------
(* secure_write_auth(): a blocking thread, not cancelled with its task.    *)

\* An abandoned thread's result is read by nobody.
Move(w, step) ==
  writers' = (writers \ {w}) \cup
    IF w.owner = Nobody /\ step \in {"ok", "bad"} THEN {}
    ELSE {[w EXCEPT !.step = step]}

\* Mutant: the file is written where there is none.
WriterCheck_Blind(w) ==
  /\ w.step = "check"
  /\ Move(w, "flock")
  /\ UNCHANGED <<disk, lock, pc, seen, denied, after, refreshes, disturbed, world>>

WriterCheck(w) ==
  /\ w.step = "check"
  /\ disk # NoAuth
  /\ Move(w, "flock")
  /\ UNCHANGED <<disk, lock, pc, seen, denied, after, refreshes, disturbed, world>>

WriterLock(w) ==
  /\ w.step = "flock"
  /\ \A v \in writers : v.step # "rename"
  /\ Move(w, "rename")
  /\ UNCHANGED <<disk, lock, pc, seen, denied, after, refreshes, disturbed, world>>

\* The rename replaces the file; making it durable may still fail.
WriterRename(w) ==
  /\ w.step = "rename"
  /\ disk' = w.creds
  /\ \E step \in {"ok", "bad"} : Move(w, step)
  /\ UNCHANGED <<lock, pc, seen, denied, after, refreshes, disturbed, world>>

\* The file is gone at the check, or an I/O error comes before the rename.
WriterFail(w) ==
  /\ w \in Unwritten
  /\ Move(w, "bad")
  /\ disturbed' = (disturbed \/ w.base.refresh \notin live)
  /\ UNCHANGED <<disk, lock, pc, seen, denied, after, refreshes, world>>

-----------------------------------------------------------------------------
(* The environment.                                                        *)

\* Mutant: the lock outlives the task that holds it.
Cancel_KeepsLock(t) ==
  /\ pc[t] # "idle"
  /\ Goto(t, "idle")
  /\ orphans' = IF pc[t] = "posting" THEN orphans \cup {seen[t].refresh} ELSE orphans
  /\ writers' = {[w EXCEPT !.owner = IF @ = t THEN Nobody ELSE @] :
                   w \in {v \in writers : v.owner # t \/ v \in Unwritten}}
  /\ disturbed' = (disturbed \/ pc[t] = "posting"
                             \/ \E w \in Unwritten : w.owner = t)
  /\ UNCHANGED <<disk, lock, minted, live, aging, seen, denied, after, refreshes>>

\* The client leaves and the task is dropped where it waits: the lock is
\* released, a POST stays on the wire and a writer goes on alone.
Cancel(t) ==
  /\ pc[t] # "idle"
  /\ Goto(t, "idle")
  /\ Unlock(t)
  /\ orphans' = IF pc[t] = "posting" THEN orphans \cup {seen[t].refresh} ELSE orphans
  /\ writers' = {[w EXCEPT !.owner = IF @ = t THEN Nobody ELSE @] :
                   w \in {v \in writers : v.owner # t \/ v \in Unwritten}}
  /\ disturbed' = (disturbed \/ pc[t] = "posting"
                             \/ \E w \in Unwritten : w.owner = t)
  /\ UNCHANGED <<disk, minted, live, aging, seen, denied, after, refreshes>>

\* A POST of a dropped request reaches the endpoint.  Two of them with the
\* same token are kept as one.
OrphanServed(token) ==
  /\ token \in orphans
  /\ orphans' = orphans \ {token}
  /\ \/ \E reply \in Replies : Mint(token, reply)
     \/ UNCHANGED <<minted, live>>
  /\ UNCHANGED <<disk, aging, lock, pc, seen, denied, after, writers, refreshes, disturbed>>

\* The process dies and the service manager starts it again.
Crash ==
  /\ pc' = [t \in Tasks |-> "idle"]
  /\ lock' = Nobody
  /\ orphans' = orphans \cup {seen[t].refresh : t \in {u \in Tasks : pc[u] = "posting"}}
  /\ writers' = {}
  /\ refreshes' = 0
  /\ disturbed' = (disturbed \/ InFlight)
  /\ UNCHANGED <<disk, minted, live, aging, seen, denied, after>>

Expire ==
  /\ disk # NoAuth
  /\ disk.access \notin aging
  /\ aging' = aging \cup {disk.access}
  /\ UNCHANGED <<disk, minted, live, lock, pc, seen, denied, after, orphans,
                 writers, refreshes, disturbed>>

\* The codex CLI rewrites the file: harmless, unless a refresh of the bridge
\* is in flight.
Outsider ==
  /\ disturbed' = (disturbed \/ InFlight)
  /\ UNCHANGED <<aging, lock, pc, seen, denied, after, orphans, writers, refreshes>>

CodexRefresh ==
  /\ disk # NoAuth
  /\ disk.refresh # None
  /\ \E reply \in Replies : /\ Mint(disk.refresh, reply)
                            /\ disk' = MergeRefresh(disk, reply)
  /\ Outsider

CodexLogout ==
  /\ disk # NoAuth
  /\ disk' = NoAuth
  /\ UNCHANGED <<minted, live>>
  /\ Outsider

\* `codex login`, the remedy every error message names: it heals, unless an
\* older refresh is still in flight.
CodexLogin ==
  /\ minted < MaxMinted
  /\ minted' = minted + 1
  /\ live' = live \cup {minted + 1}
  /\ disk' \in {Pair(minted + 1), [access |-> minted + 1, refresh |-> None]}
  /\ disturbed' = InFlight
  /\ UNCHANGED <<aging, lock, pc, seen, denied, after, orphans, writers, refreshes>>

-----------------------------------------------------------------------------
Task(t) == \/ LoadSession(t) \/ Unauthorized(t) \/ Answered(t) \/ AcquireLock(t)
           \/ Reload(t) \/ Refreshed(t) \/ ReplyLost(t) \/ Refused(t) \/ WriteDone(t)

WriterStep(w) == WriterCheck(w) \/ WriterLock(w) \/ WriterRename(w) \/ WriterFail(w)

Next ==
  \/ \E t \in Tasks : Task(t) \/ Cancel(t)
  \/ \E w \in writers : WriterStep(w)
  \/ \E token \in orphans : OrphanServed(token)
  \/ Crash \/ Expire \/ CodexRefresh \/ CodexLogout \/ CodexLogin

Spec == Init /\ [][Next]_vars

\* What the runtime does: tokio's Mutex is fair, blocking threads run to their
\* end, woken tasks run.  What is assumed of the world: the token endpoint
\* answers or the connection breaks (the POST has no timeout of its own).
EndpointAnswers(t) == Refreshed(t) \/ ReplyLost(t) \/ Refused(t)

Fairness ==
  /\ \A t \in Tasks : /\ SF_vars(AcquireLock(t)) /\ WF_vars(Reload(t))
                      /\ WF_vars(EndpointAnswers(t)) /\ WF_vars(WriteDone(t))
  /\ WF_vars(\E w \in writers : WriterStep(w))

FairSpec == Spec /\ Fairness

-----------------------------------------------------------------------------
(* Safety.  `disturbed` is the exact list of what breaks the claims below: *)
(* while a POST is out or its result is not on disk, the request is        *)
(* dropped, the process dies, a rotated reply or its write is lost, or     *)
(* codex rewrites the file.  A later `codex login` puts them back.         *)

\* The lock is held by the one task inside reload, POST and write, and by
\* nobody else: no error return and no dropped request leaks it.
LockHeldInside == \A t \in Tasks : lock = t <=> pc[t] \in LockedPcs

\* The bridge presents a refresh token only while the endpoint still accepts
\* it: of the requests that find the same session expired, one refreshes and
\* the others take its result (auth.rs:82-96).
NoSpentToken ==
  ~disturbed => \A t \in Tasks : pc[t] = "posting" => seen[t].refresh \in live

\* The user stays logged in: the refresh token on disk is good, or its
\* replacement is on its way there under the lock.  (Only a reply with an empty
\* refresh token leaves a file without one.)
LoginSurvives ==
  ~disturbed /\ disk # NoAuth /\ disk.refresh # None =>
    \/ disk.refresh \in live
    \/ \E w \in Unwritten : w.owner = lock /\ w.creds.refresh \in live

\* No lost update: what a refresh POSTs and what a writer replaces is what is
\* on disk at that moment, though both were read one or more awaits earlier.
NoStaleWrite ==
  ~disturbed =>
    /\ \A t \in Tasks : pc[t] = "posting" => seen[t] = disk
    /\ \A w \in Unwritten : w.base = disk

\* One refresh at a time, counting the POSTs and the writes that outlive their
\* requests.
OneRefresh ==
  ~disturbed =>
    /\ orphans = {}
    /\ Cardinality({t \in Tasks : pc[t] = "posting"}) + Cardinality(Unwritten) <= 1

\* The retry after a 401 never repeats the access token upstream rejected,
\* whoever replaced it and however often.
RetryIsDifferent ==
  \A t \in Tasks : pc[t] = "retrying" => seen[t].access # denied[t]

\* `codex logout` holds: once the file is gone, no refresh that is under way brings
\* it back, unless its write had passed its check of the file before that
\* (auth.rs:198); only a new login makes a file again.
PastCheck == {w \in writers : w.step \in {"flock", "rename"}}
LogoutStays ==
  [][disk = NoAuth /\ PastCheck = {} =>
       /\ PastCheck' = {}
       /\ disk' # NoAuth => minted' # minted]_vars

\* Every request that needs a refresh gets a session or an error: a dropped
\* lock holder, a dead codex login, a failed write never block the others.
RefreshAnswered ==
  \A t \in Tasks : pc[t] = "queued" ~> pc[t] \in {"using", "retrying", "idle"}

=============================================================================
