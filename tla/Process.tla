------------------------------- MODULE Process -------------------------------
(***************************************************************************)
(* The life of a bridge process, run() of cli.rs and serve() of server.rs: *)
(* configuration, process lock, state, listener, signal, drain, exit; the  *)
(* ready flag that /readyz and the shutdown share; and the look of doctor  *)
(* and status at the port.  Several processes may be started, by hand and  *)
(* by the service manager.                                                 *)
(*                                                                         *)
(* A request is in flight or not; what happens in it is Bridge's matter.   *)
(***************************************************************************)
EXTENDS Naturals

CONSTANTS Procs,            \* processes that are started
          Ports,            \* ports that may be configured
          DefaultPort,      \* DEFAULT_PORT
          Free, Foreign     \* nobody, and a program that is no bridge

ASSUME ProcessAssumption ==
  DefaultPort \in Ports /\ Free # Foreign /\ Free \notin Procs /\ Foreign \notin Procs

VARIABLES
  pc,           \* the step of each process
  port,         \* its configured port
  lock,         \* who holds run/codex-for-grok.lock
  listener,     \* who listens on each port
  ready,        \* Metrics::ready of each process
  inflight,     \* its requests that are in flight
  late,         \* those whose drain timed out
  probed,       \* those with a /readyz in flight at the signal, or accepted after it
  identity      \* what doctor or status said last, and whether a bridge served

vars == <<pc, port, lock, listener, ready, inflight, late, probed, identity>>

Requests == {"readyz", "other"}
Steps == {"off", "lock", "create", "bind", "serve", "closing", "drain", "quota",
          "unlock", "exit"}

\* The steps of run() between acquire_lock and drop(lock).
Holding == {"create", "bind", "serve", "closing", "drain", "quota", "unlock"}

\* Those in which its listener is open, and those from the signal, or a taken port, on.
Listening == {"serve", "closing"}
Ending    == {"closing", "drain", "quota", "unlock", "exit"}

Init ==
  /\ pc = [p \in Procs |-> "off"]
  /\ port = [p \in Procs |-> DefaultPort]
  /\ lock = Free
  /\ listener = [n \in Ports |-> Free]
  /\ ready = [p \in Procs |-> TRUE]
  /\ inflight = [p \in Procs |-> {}]
  /\ late = {}
  /\ probed = {}
  /\ identity = [said |-> "nothing", served |-> FALSE]

At(p, step) == pc[p] = step
Go(p, step) == pc' = [pc EXCEPT ![p] = step]

-----------------------------------------------------------------------------
(* run() *)

\* Config::from_env: a bad value ends the process before it has done anything.
Launch(p) ==
  /\ At(p, "off")
  /\ \E n \in Ports : port' = [port EXCEPT ![p] = n]
  /\ Go(p, "lock")
  /\ late' = late \ {p} /\ probed' = probed \ {p}
  /\ UNCHANGED <<lock, listener, ready, inflight, identity>>

\* Mutant: the error of try_lock_exclusive is dropped.
AcquireLock_Anyway(p) ==
  /\ At(p, "lock")
  /\ lock' = IF lock = Free THEN p ELSE lock
  /\ Go(p, "create")
  /\ UNCHANGED <<port, listener, ready, inflight, late, probed, identity>>

\* acquire_lock: try_lock_exclusive, or "another bridge process owns the lock".
AcquireLock(p) ==
  /\ At(p, "lock")
  /\ \/ lock = Free /\ lock' = p /\ Go(p, "create")
     \/ Go(p, "off") /\ UNCHANGED lock
  /\ UNCHANGED <<port, listener, ready, inflight, late, probed, identity>>

\* AppState::new: the metrics are ready from the start; an error returns from run,
\* which drops the lock.
Create(p) ==
  /\ At(p, "create")
  /\ \/ ready' = [ready EXCEPT ![p] = TRUE] /\ Go(p, "bind") /\ UNCHANGED lock
     \/ lock' = Free /\ Go(p, "off") /\ UNCHANGED ready
  /\ UNCHANGED <<port, listener, inflight, late, probed, identity>>

\* serve: an address in use ends serve at once, but not the rest of run.
Bind(p) ==
  /\ At(p, "bind")
  /\ IF listener[port[p]] = Free
     THEN listener' = [listener EXCEPT ![port[p]] = p] /\ Go(p, "serve")
     ELSE UNCHANGED listener /\ Go(p, "quota")
  /\ UNCHANGED <<port, lock, ready, inflight, late, probed, identity>>

\* Mutant: set_ready(false) is forgotten.
Signal_StaysReady(p) ==
  /\ At(p, "serve")
  /\ probed' = IF "readyz" \in inflight[p] THEN probed \cup {p} ELSE probed
  /\ Go(p, "closing")
  /\ UNCHANGED <<port, lock, listener, ready, inflight, late, identity>>

\* The signal future sets the flag and notifies serve in one poll.  The accept loop
\* is polled separately and learns of it later.
Signal(p) ==
  /\ At(p, "serve")
  /\ ready' = [ready EXCEPT ![p] = FALSE]
  /\ probed' = IF "readyz" \in inflight[p] THEN probed \cup {p} ELSE probed
  /\ Go(p, "closing")
  /\ UNCHANGED <<port, lock, listener, inflight, late, identity>>

\* Mutant: the shutdown future is not handed to the server, which goes on listening.
CloseListener_Kept(p) ==
  /\ At(p, "closing")
  /\ Go(p, "drain")
  /\ UNCHANGED <<port, lock, listener, ready, inflight, late, probed, identity>>

\* axum's accept loop sees the signal, drops the listener and waits for the
\* connections.
CloseListener(p) ==
  /\ At(p, "closing")
  /\ listener' = [listener EXCEPT ![port[p]] = Free]
  /\ Go(p, "drain")
  /\ UNCHANGED <<port, lock, ready, inflight, late, probed, identity>>

Drained(p) ==
  /\ At(p, "drain") /\ inflight[p] = {}
  /\ Go(p, "quota")
  /\ UNCHANGED <<port, lock, listener, ready, inflight, late, probed, identity>>

\* Mutant: the timeout looks only at idle connections.
DrainTimeout_Idle(p) ==
  /\ At(p, "drain") /\ inflight[p] = {}
  /\ late' = late \cup {p}
  /\ Go(p, "quota")
  /\ UNCHANGED <<port, lock, listener, ready, inflight, probed, identity>>

\* timeout(drain_timeout): serve returns and drops the server, with its listener if
\* that is still open; the tasks of the connections go on.
DrainTimeout(p) ==
  /\ pc[p] \in {"closing", "drain"}
  /\ late' = late \cup {p}
  /\ listener' = [listener EXCEPT ![port[p]] = IF @ = p THEN Free ELSE @]
  /\ Go(p, "quota")
  /\ UNCHANGED <<port, lock, ready, inflight, probed, identity>>

\* quota.shutdown() only cancels the token of the worker (see Quota).
ShutdownQuota(p) ==
  /\ At(p, "quota")
  /\ Go(p, "unlock")
  /\ UNCHANGED <<port, lock, listener, ready, inflight, late, probed, identity>>

\* drop(lock), before the runtime and the tasks it still runs are gone.
Unlock(p) ==
  /\ At(p, "unlock")
  /\ lock' = Free
  /\ Go(p, "exit")
  /\ UNCHANGED <<port, listener, ready, inflight, late, probed, identity>>

\* The runtime is dropped, and what was in flight with it.
Exit(p) ==
  /\ At(p, "exit")
  /\ inflight' = [inflight EXCEPT ![p] = {}]
  /\ Go(p, "off")
  /\ UNCHANGED <<port, lock, listener, ready, late, probed, identity>>

\* Killed, or signalled before the handlers are installed: the system frees what
\* the process held.
Kill(p) ==
  /\ ~At(p, "off")
  /\ lock' = IF lock = p THEN Free ELSE lock
  /\ listener' = [n \in Ports |-> IF listener[n] = p THEN Free ELSE listener[n]]
  /\ inflight' = [inflight EXCEPT ![p] = {}]
  /\ Go(p, "off")
  /\ UNCHANGED <<port, ready, late, probed, identity>>

-----------------------------------------------------------------------------
(* Requests, and the programs around the bridge *)

\* A connection is accepted while the listener is open, for a moment also after the
\* signal.
Request(p, r) ==
  /\ pc[p] \in Listening /\ r \notin inflight[p]
  /\ inflight' = [inflight EXCEPT ![p] = @ \cup {r}]
  /\ probed' = IF At(p, "closing") /\ r = "readyz" THEN probed \cup {p} ELSE probed
  /\ UNCHANGED <<pc, port, lock, listener, ready, late, identity>>

\* ready(): the flag is set to what check_ready found, also during a drain.
Readyz(p, ok) ==
  /\ "readyz" \in inflight[p]
  /\ ready' = [ready EXCEPT ![p] = ok]
  /\ inflight' = [inflight EXCEPT ![p] = @ \ {"readyz"}]
  /\ UNCHANGED <<pc, port, lock, listener, late, probed, identity>>

Respond(p) ==
  /\ "other" \in inflight[p]
  /\ inflight' = [inflight EXCEPT ![p] = @ \ {"other"}]
  /\ UNCHANGED <<pc, port, lock, listener, ready, late, probed, identity>>

\* Some other program takes or leaves a port.
Occupy(n) ==
  /\ listener[n] \in {Free, Foreign}
  /\ listener' = [listener EXCEPT ![n] = IF @ = Free THEN Foreign ELSE Free]
  /\ UNCHANGED <<pc, port, lock, ready, inflight, late, probed, identity>>

\* fetch_identity of doctor and status: whoever answers on the default port.
FetchIdentity ==
  /\ identity' = [said |-> CASE listener[DefaultPort] = Free -> "bridge unavailable"
                             [] listener[DefaultPort] = Foreign ->
                                  "listener is not codex-for-grok"
                             [] OTHER -> "ok",
                  served |-> \E p \in Procs : At(p, "serve")]
  /\ UNCHANGED <<pc, port, lock, listener, ready, inflight, late, probed>>

-----------------------------------------------------------------------------
Run(p) == \/ AcquireLock(p) \/ Create(p) \/ Bind(p) \/ CloseListener(p) \/ Drained(p)
          \/ DrainTimeout(p) \/ ShutdownQuota(p) \/ Unlock(p) \/ Exit(p)

Next ==
  \/ \E p \in Procs : \/ Run(p) \/ Launch(p) \/ Signal(p) \/ Kill(p) \/ Respond(p)
                      \/ \E r \in Requests : Request(p, r)
                      \/ \E ok \in BOOLEAN : Readyz(p, ok)
  \/ \E n \in Ports : Occupy(n)
  \/ FetchIdentity

\* run() goes on by itself; its drain ends by the timer if not before.  Nothing is
\* assumed of the requests.
Fairness == \A p \in Procs : WF_vars(Run(p))

Spec == Init /\ [][Next]_vars /\ Fairness

-----------------------------------------------------------------------------
(* Properties *)

TypeOK ==
  /\ pc \in [Procs -> Steps]
  /\ port \in [Procs -> Ports]
  /\ lock \in Procs \cup {Free}
  /\ listener \in [Ports -> Procs \cup {Free, Foreign}]
  /\ ready \in [Procs -> BOOLEAN]
  /\ inflight \in [Procs -> SUBSET Requests]
  /\ late \subseteq Procs /\ probed \subseteq Procs
  /\ identity \in [said : {"nothing", "ok", "bridge unavailable",
                           "listener is not codex-for-grok"}, served : BOOLEAN]

\* One bridge at a time: a process that created its state and has not yet given up
\* the lock is alone, and requests of another one are in flight only if its drain
\* ran into the deadline and the runtime is not gone yet.  It speaks of requests: a
\* blocking auth writer (see Auth) may outlive the one it was started for.
OneBridge ==
  \A p, q \in Procs :
    p # q /\ pc[p] \in Holding =>
      /\ pc[q] \notin Holding
      /\ inflight[q] # {} => pc[q] = "exit" /\ q \in late

\* Nothing is left behind: the lock, a listener or a request in flight belongs to a
\* process that is on its way, whatever step failed, timed out or was killed.
NothingLeft ==
  \A p \in Procs :
    /\ lock = p => pc[p] \in Holding
    /\ \A n \in Ports : listener[n] = p => pc[p] \in Listening /\ port[p] = n
    /\ inflight[p] # {} => pc[p] \in Listening \cup Ending

\* From the signal to the end of the drain /status says draining, unless a /readyz
\* that was in flight at the signal or slipped in before the listener closed has said
\* otherwise since: the flag is shared (metrics.rs set_ready).
DrainingShown ==
  \A p \in Procs : pc[p] \in {"closing", "drain"} /\ ready[p] => p \in probed

\* A bridge that got the signal, or found its port taken, ends, whatever the
\* requests in flight do ("Bounded graceful shutdown", CHANGELOG.md).
SignalEnds == \A p \in Procs : pc[p] \in Ending ~> pc[p] = "off"

\* "`doctor` checks ... bridge identity" (README.md:51), "`CODEX_FOR_GROK_PORT` ...
\* Local port" (README.md:73): a bridge that serves is not reported as missing or as
\* some other program.  fetch_identity asks the default port, whatever is configured.
BridgeIsFound == identity.served => identity.said \in {"ok", "nothing"}
=============================================================================
