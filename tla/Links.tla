-------------------------------- MODULE Links --------------------------------
(* The Host's HostLink side: the per-tenant links and their reclaim
   (compose/links.go), the routing table of each link, its Multiplexer
   (realtime/hostlink/bindings.go), the physical connections, and the live tail
   of each resident session with its supervisor (service/events.go,
   compose/publicbody.go).  A session's work resolves its tenant's link once,
   when it begins, and publishes and invalidates through that link for as long
   as it runs.  A hole is a publication a tail refused or lost; what counts is
   that no route bridges one.                                                  *)
EXTENDS Naturals, FiniteSets

CONSTANTS Tenants,
          Sessions,
          TenantOf,     \* the tenant of each session
          Steady,       \* bound: sessions that, once they work, go on working
          Conns,        \* physical connections of Factory replicas
          Muxes,        \* bound: tenant links that exist at one time
          MaxTenants,   \* links.max
          PerLink,      \* MaxBindingsPerLink
          Total,        \* MaxBindings
          None

ASSUME LinksAssumption ==
  /\ TenantOf \in [Sessions -> Tenants] /\ Steady \subseteq Sessions
  /\ IsFiniteSet(Muxes) /\ {MaxTenants, PerLink, Total} \subseteq Nat \ {0}
  /\ None \notin Muxes \cup Conns \cup Sessions \cup Tenants

VARIABLES
  byTenant,   \* links.byTenant
  closed,     \* links.closed
  mux,        \* each Multiplexer: its tenant, its mutex, and Multiplexer.count
  routes,     \* Multiplexer.links: what each connection is bound to
  conn,       \* the link a connection was handed to
  binding,    \* the session of a bind between its reads and its record
  sess,       \* each session: where its residency is, and the link its work uses
  tail,       \* Tail.end of the session's live tail, refusing and losing before
              \* the relay has invalidated the routes
  supervised, \* restartRefused, and supervisedTail.stopped
  pending,    \* links a tail that ended has still to invalidate the session on
  bridges,    \* routes that were there when their session's tail left a hole
  draining    \* Admission.Draining

vars == <<byTenant, closed, mux, routes, conn, binding, sess, tail, supervised, pending,
          bridges, draining>>

linkVars == <<byTenant, closed, conn>>
tableVars == <<mux, routes, bridges>>
tailVars == <<tail, supervised, pending>>

\* An empty table, of the tenant it is built for.
NewMultiplexer(t) == [tenant |-> t, lock |-> None, count |-> 0]

Init ==
  /\ byTenant = [t \in Tenants |-> None] /\ closed = FALSE
  /\ mux = [m \in Muxes |-> NewMultiplexer(None)]
  /\ routes = [m \in Muxes |-> {}]
  /\ conn = [c \in Conns |-> None] /\ binding = [c \in Conns |-> None]
  /\ sess = [s \in Sessions |-> [at |-> "none", link |-> None]]
  /\ tail = [s \in Sessions |-> "none"]
  /\ supervised = [s \in Sessions |-> [at |-> "off", stopped |-> FALSE]]
  /\ pending = [s \in Sessions |-> {}]
  /\ bridges = {} /\ draining = FALSE

-------------------------------------------------------------------------------
(* The tenants' links.                                                        *)

Len(m) == mux[m].count
Free(m) == mux[m].lock = None

\* A Multiplexer nothing refers to any more, so that a new one may take its name.
Unused(m) ==
  /\ \A t \in Tenants : byTenant[t] # m
  /\ \A c \in Conns : conn[c] # m
  /\ \A s \in Sessions : sess[s].link # m /\ m \notin pending[s]

Held == {t \in Tenants : byTenant[t] # None}

\* reclaimLocked: the tenants whose link holds no binding.
Reclaimable == {t \in Held : Free(byTenant[t]) /\ Len(byTenant[t]) = 0}

buildTenantLink(m, t) == [mux EXCEPT ![m] = NewMultiplexer(t)]

\* resolve hands out the tenant's link m: the one it has, or a new one, for
\* which the link of a tenant without bindings is reclaimed when there is no room.
resolve(t, m) ==
  /\ ~closed
  /\ \/ /\ byTenant[t] = m
        /\ UNCHANGED <<byTenant, mux, routes>>
     \/ /\ byTenant[t] = None /\ Unused(m)
        /\ \/ /\ Cardinality(Held) < MaxTenants
              /\ byTenant' = [byTenant EXCEPT ![t] = m]
           \/ /\ Cardinality(Held) >= MaxTenants
              /\ \E victim \in Reclaimable :
                   byTenant' = [byTenant EXCEPT ![t] = m, ![victim] = None]
        /\ mux' = buildTenantLink(m, t)
        /\ routes' = [routes EXCEPT ![m] = {}]

\* A Factory connects to its tenant's link.
Connect(c) ==
  /\ conn[c] = None
  /\ \E t \in Tenants, m \in Muxes : resolve(t, m) /\ conn' = [conn EXCEPT ![c] = m]
  /\ UNCHANGED <<closed, binding, sess, tailVars, bridges, draining>>

\* links.Close, when the Host stops.
Close ==
  /\ draining /\ ~closed
  /\ closed' = TRUE /\ byTenant' = [t \in Tenants |-> None]
  /\ UNCHANGED <<conn, tableVars, binding, sess, tailVars, draining>>

-------------------------------------------------------------------------------
(* Routing tables.  What a table drops, dropped routes included in bridges.   *)

Drop(m, gone) ==
  /\ routes' = [routes EXCEPT ![m] = @ \ gone]
  /\ mux' = [mux EXCEPT ![m].count = @ - Cardinality(routes[m] \cap gone)]
  /\ bridges' = bridges \ ({m} \X gone)

RoutesOf(c) == {c} \X Sessions
RoutesTo(s) == Conns \X {s}

\* Bind's reads see an entry that is resident and accepting; an attach in
\* progress has one, and an attach being unwound keeps it to the end.
Admits(s) == ~draining /\ sess[s].at \in {"inserted", "working", "unwinding"}

\* mutant of Bind: ownership is validated before the mutex is taken
ValidatesUnlocked(c) ==
  /\ conn[c] # None /\ binding[c] = None
  /\ \E s \in Sessions :
       /\ TenantOf[s] = mux[conn[c]].tenant /\ Admits(s)
       /\ binding' = [binding EXCEPT ![c] = s]
  /\ UNCHANGED <<linkVars, tableVars, sess, tailVars, draining>>

\* Bind takes the table's mutex and reads who owns the session ...
Bind(c) ==
  /\ conn[c] # None /\ binding[c] = None /\ Free(conn[c])
  /\ \E s \in Sessions :
       /\ TenantOf[s] = mux[conn[c]].tenant /\ Admits(s)
       /\ binding' = [binding EXCEPT ![c] = s]
  /\ mux' = [mux EXCEPT ![conn[c]].lock = c]
  /\ UNCHANGED <<linkVars, routes, bridges, sess, tailVars, draining>>

\* ... and records the route under it: a route it has already is free, another
\* must fit the link's budget and then the Host's.
HasRoom(c) ==
  \/ <<c, binding[c]>> \in routes[conn[c]]
  \/ /\ Cardinality(routes[conn[c]] \cap RoutesOf(c)) < PerLink
     /\ Len(conn[c]) < Total

Added(c) == IF <<c, binding[c]>> \in routes[conn[c]] THEN 0 ELSE 1

record(c) ==
  /\ binding[c] # None
  /\ mux[conn[c]].lock \in {None, c}
  /\ \/ /\ HasRoom(c)
        /\ routes' = [routes EXCEPT ![conn[c]] = @ \cup {<<c, binding[c]>>}]
        /\ mux' = [mux EXCEPT ![conn[c]].lock = None, ![conn[c]].count = @ + Added(c)]
     \/ /\ ~HasRoom(c)
        /\ mux' = [mux EXCEPT ![conn[c]].lock = None]
        /\ UNCHANGED routes
  /\ binding' = [binding EXCEPT ![c] = None]
  /\ UNCHANGED <<linkVars, bridges, sess, tailVars, draining>>

Unbind(c, s) ==
  /\ conn[c] # None /\ binding[c] = None /\ Free(conn[c])
  /\ <<c, s>> \in routes[conn[c]]
  /\ Drop(conn[c], {<<c, s>>})
  /\ UNCHANGED <<linkVars, binding, sess, tailVars, draining>>

\* A connection ends, by itself, with its reclaimed link or with the Host.
CloseLink(c) ==
  /\ conn[c] # None /\ binding[c] = None /\ Free(conn[c])
  /\ Drop(conn[c], RoutesOf(c))
  /\ conn' = [conn EXCEPT ![c] = None]
  /\ UNCHANGED <<byTenant, closed, binding, sess, tailVars, draining>>

InvalidateSession(m, s) == Free(m) /\ Drop(m, RoutesTo(s))

\* An RPC of a connection; a delivery and a drain request change no table, and
\* an attach is answered on its own.
dispatch(c) == Bind(c) \/ record(c) \/ \E s \in Sessions : Unbind(c, s)

\* What a connection's handlers do: its RPCs, one at a time, and its end.
install(c) == dispatch(c) \/ CloseLink(c)

-------------------------------------------------------------------------------
(* The live tail of a session and its supervisor.                             *)

TailStep == UNCHANGED <<linkVars, binding, sess, draining>>

\* mutant of EndsTail: the relay takes the failure for the Host's own stop
TakenForStop(s, end) ==
  /\ tail' = [tail EXCEPT ![s] = IF end = "refusing" THEN "refused" ELSE "lost"]
  /\ bridges' = bridges \cup ({sess[s].link} \X (routes[sess[s].link] \cap RoutesTo(s)))
  /\ UNCHANGED pending

\* The stream has a hole: the relay records the end, and has yet to invalidate.
EndsTail(s, end) ==
  /\ tail' = [tail EXCEPT ![s] = end]
  /\ bridges' = bridges \cup ({sess[s].link} \X (routes[sess[s].link] \cap RoutesTo(s)))
  /\ pending' = [pending EXCEPT ![s] = @ \cup {sess[s].link}]

\* relay, relayLive: the runtime's stream ends, or a publication is refused.
relay(s) ==
  /\ tail[s] = "running" /\ s \notin Steady
  /\ \E end \in {"refusing", "losing"} : EndsTail(s, end)
  /\ TailStep /\ UNCHANGED <<mux, routes, supervised>>

Ended(s) == CASE tail[s] = "refusing" -> "refused"
              [] tail[s] = "losing"   -> "lost"
              [] OTHER                -> tail[s]

\* Tails.invalidate, on the link the tail published through.
invalidate(s) ==
  /\ \E m \in pending[s] :
       /\ InvalidateSession(m, s)
       /\ pending' = [pending EXCEPT ![s] = @ \ {m}]
       /\ tail' = [tail EXCEPT ![s] = IF m = sess[s].link THEN Ended(s) ELSE @]
  /\ TailStep /\ UNCHANGED supervised

\* restartRefused waits for the tail's end; only a refusal is restarted.
WatchTail(s) ==
  /\ supervised[s].at = "watching" /\ tail[s] \in {"refused", "lost", "stopped"}
  /\ supervised' = [supervised EXCEPT ![s].at = IF tail[s] = "refused" THEN "backoff" ELSE "done"]
  /\ TailStep /\ UNCHANGED <<tableVars, tail, pending>>

\* After the backoff: stopped meanwhile, or the old subscription is stopped and
\* a new tail started.
Restart(s) ==
  /\ supervised[s].at = "backoff"
  /\ \/ /\ supervised[s].stopped
        /\ supervised' = [supervised EXCEPT ![s].at = "done"]
        /\ UNCHANGED tail
     \/ /\ ~supervised[s].stopped
        /\ supervised' = [supervised EXCEPT ![s].at = "started"]
        /\ tail' = [tail EXCEPT ![s] = "running"]
  /\ TailStep /\ UNCHANGED <<tableVars, pending>>

\* The new tail becomes the current one, or is stopped if Stop came between.
Install(s) ==
  /\ supervised[s].at = "started"
  /\ IF supervised[s].stopped
     THEN /\ supervised' = [supervised EXCEPT ![s].at = "done"]
          /\ tail' = [tail EXCEPT ![s] = IF @ = "running" THEN "stopped" ELSE @]
     ELSE /\ supervised' = [supervised EXCEPT ![s].at = "watching"]
          /\ UNCHANGED tail
  /\ TailStep /\ UNCHANGED <<tableVars, pending>>

\* supervisedTail.Stop: the current tail stops, and every restart.
StopTail(s) ==
  /\ supervised' = [supervised EXCEPT ![s].stopped = TRUE]
  /\ tail' = [tail EXCEPT ![s] = IF @ = "running" /\ supervised[s].at = "watching"
                                 THEN "stopped" ELSE @]

-------------------------------------------------------------------------------
(* Residencies.                                                               *)

At(s, at) == sess' = [sess EXCEPT ![s].at = at]
SessionStep == UNCHANGED <<closed, conn, binding, draining>>

\* Attach, over a link or not, up to the registry entry, resident and accepting.
Attach(s) ==
  /\ sess[s].at \in {"none", "released"} /\ ~draining
  /\ supervised[s].at \in {"off", "done"}
  /\ sess' = [sess EXCEPT ![s] = [at |-> "inserted", link |-> None]]
  /\ tail' = [tail EXCEPT ![s] = "none"]
  /\ supervised' = [supervised EXCEPT ![s] = [at |-> "off", stopped |-> FALSE]]
  /\ SessionStep /\ UNCHANGED <<byTenant, tableVars, pending>>

\* beginWork: the tenant's link is resolved, and the tail started on it.
beginWork(s) ==
  /\ sess[s].at = "inserted"
  /\ \E m \in Muxes :
       resolve(TenantOf[s], m) /\ sess' = [sess EXCEPT ![s] = [at |-> "working", link |-> m]]
  /\ tail' = [tail EXCEPT ![s] = "running"]
  /\ supervised' = [supervised EXCEPT ![s].at = "watching"]
  /\ SessionStep /\ UNCHANGED <<bridges, pending>>

\* The attach fails before its work began, for want of a link or otherwise: it
\* is unwound, and nobody has a tail to stop or a route to drop.
AttachFails(s) ==
  /\ sess[s].at = "inserted" /\ s \notin Steady
  /\ At(s, "unwinding")
  /\ SessionStep /\ UNCHANGED <<byTenant, tableVars, tailVars>>

\* The attach fails after it: the work is stopped while the entry still accepts.
FailsToCommit(s) ==
  /\ sess[s].at = "working" /\ s \notin Steady
  /\ StopTail(s) /\ InvalidateSession(sess[s].link, s)
  /\ At(s, "unwinding")
  /\ SessionStep /\ UNCHANGED <<byTenant, pending>>

Rollback(s) ==
  /\ sess[s].at = "unwinding"
  /\ At(s, "none")
  /\ SessionStep /\ UNCHANGED <<byTenant, tableVars, tailVars>>

\* A release stops admission first: the entry is not accepting, releasing, or
\* claimed by a teardown.
StopAdmitting(s) ==
  /\ sess[s].at = "working" /\ s \notin Steady
  /\ At(s, "closing")
  /\ SessionStep /\ UNCHANGED <<byTenant, tableVars, tailVars>>

\* A warm release that met work takes it back.
ResumeResident(s) ==
  /\ sess[s].at = "closing" /\ ~supervised[s].stopped
  /\ At(s, "working")
  /\ SessionStep /\ UNCHANGED <<byTenant, tableVars, tailVars>>

\* stopWork: the tail first ...
stopWork(s) ==
  /\ sess[s].at = "closing" /\ ~supervised[s].stopped
  /\ StopTail(s)
  /\ SessionStep /\ UNCHANGED <<byTenant, tableVars, sess, pending>>

\* ... and, last, every route to the session on the link its work resolved.
stopRoutes(s) ==
  /\ sess[s].at = "closing" /\ supervised[s].stopped
  /\ InvalidateSession(sess[s].link, s)
  /\ At(s, "stopped")
  /\ SessionStep /\ UNCHANGED <<byTenant, tailVars>>

\* The entry leaves the registry.
Remove(s) ==
  /\ sess[s].at = "stopped"
  /\ At(s, "released")
  /\ SessionStep /\ UNCHANGED <<byTenant, tableVars, tailVars>>

\* The Host drains: the ledger flips.
BeginDrain ==
  /\ ~draining
  /\ draining' = TRUE
  /\ UNCHANGED <<linkVars, tableVars, binding, sess, tailVars>>

-------------------------------------------------------------------------------
Next ==
  \/ Close \/ BeginDrain
  \/ \E c \in Conns : Connect(c) \/ install(c)
  \/ \E s \in Sessions : relay(s) \/ invalidate(s) \/ WatchTail(s) \/ Restart(s) \/ Install(s)
  \/ \E s \in Sessions :
       \/ Attach(s) \/ beginWork(s) \/ AttachFails(s) \/ FailsToCommit(s) \/ Rollback(s)
       \/ StopAdmitting(s) \/ ResumeResident(s) \/ stopWork(s) \/ stopRoutes(s) \/ Remove(s)

Spec == Init /\ [][Next]_vars

-------------------------------------------------------------------------------
(* Properties.                                                                *)

\* The table is exact through repeated binds, lost connections, invalidations
\* and releases in any order.  Its count is the number of its routes, within both
\* budgets, and a bind cannot outlive the release it races: once a release has
\* stopped the session's work, the link that served it has no route to the
\* session until it is attached again (bindings.go: Bind, record).
TableIsExact ==
  /\ \A m \in Muxes :
       /\ mux[m].count = Cardinality(routes[m]) /\ mux[m].count <= Total
       /\ \A c \in Conns : Cardinality(routes[m] \cap RoutesOf(c)) <= PerLink
  /\ \A s \in Sessions : sess[s].at \in {"stopped", "released"} /\ sess[s].link # None
       => routes[sess[s].link] \cap RoutesTo(s) = {}

\* A route that was there when its session's tail left a hole is being dropped:
\* no viewer goes on from before the hole to after it.
NoRouteBridgesAHole ==
  \A b \in bridges : b[1] \in pending[b[2][2]]
==============================================================================
