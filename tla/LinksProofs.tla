------------------------------ MODULE LinksProofs ------------------------------
(* Theorems about Links.tla, for any tenants, sessions, connections and budgets. *)
EXTENDS Links, FiniteSetTheorems, TLAPS

MuxRecord == [tenant : Tenants \cup {None}, lock : Conns \cup {None}, count : Nat]
Places == {"none", "inserted", "working", "unwinding", "closing", "stopped", "released"}
SessRecord == [at : Places, link : Muxes \cup {None}]
Ends == {"none", "running", "refusing", "losing", "refused", "lost", "stopped"}
TailRecord == [at : {"off", "watching", "backoff", "started", "done"}, stopped : BOOLEAN]

TypeOK ==
  /\ byTenant \in [Tenants -> Muxes \cup {None}] /\ closed \in BOOLEAN /\ draining \in BOOLEAN
  /\ mux \in [Muxes -> MuxRecord]
  /\ routes \in [Muxes -> SUBSET (Conns \X Sessions)]
  /\ conn \in [Conns -> Muxes \cup {None}]
  /\ binding \in [Conns -> Sessions \cup {None}]
  /\ sess \in [Sessions -> SessRecord]
  /\ tail \in [Sessions -> Ends]
  /\ supervised \in [Sessions -> TailRecord]
  /\ pending \in [Sessions -> SUBSET Muxes]
  /\ bridges \in SUBSET (Muxes \X (Conns \X Sessions))

\* The count is of a finite table, within both budgets.
TableInv ==
  \A m \in Muxes :
    /\ IsFiniteSet(routes[m])
    /\ mux[m].count = Cardinality(routes[m]) /\ mux[m].count <= Total
    /\ \A c \in Conns : Cardinality(routes[m] \cap RoutesOf(c)) <= PerLink

\* A table's mutex is held by the bind of a connection of that link, between its
\* reads and its record, and by nobody else.
LockInv ==
  /\ \A c \in Conns : binding[c] # None => conn[c] # None /\ mux[conn[c]].lock = c
  /\ \A m \in Muxes : mux[m].lock # None =>
       conn[mux[m].lock] = m /\ binding[mux[m].lock] # None

\* A session that works, and a tail that runs or may run again, has a link.
LinkedInv ==
  \A s \in Sessions :
    sess[s].at \in {"working", "closing", "stopped"} \/ tail[s] = "running"
      \/ supervised[s].at \in {"watching", "backoff", "started"} => sess[s].link # None

\* Once a release has stopped a session's work no route to it is left on the
\* link that served it, and no bind that read it before is about to add one.
StoppedInv ==
  \A s \in Sessions :
    sess[s].at \in {"stopped", "released"} /\ sess[s].link # None =>
      /\ routes[sess[s].link] \cap RoutesTo(s) = {}
      /\ \A c \in Conns : ~(conn[c] = sess[s].link /\ binding[c] = s)

IndInv == TypeOK /\ TableInv /\ LockInv /\ LinkedInv /\ StoppedInv /\ NoRouteBridgesAHole

-----------------------------------------------------------------------------
\* None is neither a link, a connection nor a session.
LEMMA Nones == None \notin Muxes /\ None \notin Conns /\ None \notin Sessions
  BY LinksAssumption

\* Both budgets are numbers.
LEMMA Budgets == Total \in Nat /\ PerLink \in Nat
  BY LinksAssumption

-----------------------------------------------------------------------------
(* What a step that leaves a part's variables alone cannot disturb.            *)

\* Counts and routes stay as they are.
LEMMA TableFrame ==
  ASSUME TableInv, UNCHANGED routes, \A n \in Muxes : mux'[n].count = mux[n].count
  PROVE  TableInv'
  BY DEF TableInv, RoutesOf

\* No session or tail moves.
LEMMA LinkedFrame == LinkedInv /\ UNCHANGED <<sess, tail, supervised>> => LinkedInv'
  BY DEF LinkedInv

\* No hole is met and no invalidation done.
LEMMA BridgeFrame ==
  NoRouteBridgesAHole /\ UNCHANGED pending /\ bridges' \subseteq bridges => NoRouteBridgesAHole'
  BY DEF NoRouteBridgesAHole

\* The mutexes are held by the same binds.
LEMMA LockFrame ==
  ASSUME TypeOK, LockInv, UNCHANGED <<binding, conn>>,
         \A n \in Muxes : mux'[n].lock = mux[n].lock
  PROVE  LockInv'
  BY DEF LockInv, TypeOK

\* Tables that only lose routes leave a stopped session without any.
LEMMA StoppedFrame ==
  ASSUME TypeOK, StoppedInv, UNCHANGED <<binding, conn>>,
         \A n \in Muxes : routes'[n] \subseteq routes[n],
         \A s \in Sessions : sess'[s].at \in {"stopped", "released"} =>
           sess[s].at \in {"stopped", "released"} /\ sess'[s].link = sess[s].link
  PROVE  StoppedInv'
  BY DEF StoppedInv, TypeOK, SessRecord

-----------------------------------------------------------------------------
(* The operations on tables.                                                   *)

\* Dropping routes keeps the count exact, and nobody's mutex changes hands.
LEMMA DropKeeps ==
  ASSUME IndInv, NEW m \in Muxes, NEW gone, Drop(m, gone)
  PROVE  /\ mux' \in [Muxes -> MuxRecord]
         /\ routes' \in [Muxes -> SUBSET (Conns \X Sessions)]
         /\ bridges' \in SUBSET (Muxes \X (Conns \X Sessions))
         /\ \A n \in Muxes : /\ mux'[n].lock = mux[n].lock
                             /\ routes'[n] = IF n = m THEN routes[n] \ gone ELSE routes[n]
                             /\ routes'[n] \subseteq routes[n]
         /\ TableInv'
<1> USE DEF IndInv
<1>1. IsFiniteSet(routes[m]) /\ mux[m].count = Cardinality(routes[m]) /\ mux[m].count <= Total
  BY DEF TableInv
<1>2. /\ IsFiniteSet(routes[m] \ gone)
      /\ Cardinality(routes[m] \ gone) =
           Cardinality(routes[m]) - Cardinality(routes[m] \cap gone)
  BY <1>1, FS_Difference
<1>3. Cardinality(routes[m] \ gone) \in Nat /\ Cardinality(routes[m] \cap gone) \in Nat
        /\ Cardinality(routes[m]) \in Nat
  BY <1>1, <1>2, FS_CardinalityType, FS_Intersection
<1>4. mux'[m].count = Cardinality(routes[m] \ gone) /\ mux'[m].count <= Total
  BY Budgets, <1>1, <1>2, <1>3 DEF Drop, TypeOK, MuxRecord
<1>5. mux' \in [Muxes -> MuxRecord]
  <2> DEFINE n == mux[m].count - Cardinality(routes[m] \cap gone)
  <2>1. n \in Nat
    BY <1>1, <1>2, <1>3
  <2>2. mux' = [mux EXCEPT ![m].count = n]
    BY DEF Drop
  <2> HIDE DEF n
  <2>3. mux \in [Muxes -> MuxRecord]
    BY DEF TypeOK
  <2>4. [mux[m] EXCEPT !.count = n] \in MuxRecord
    BY <2>1, <2>3 DEF MuxRecord
  <2>5. mux' = [mux EXCEPT ![m] = [mux[m] EXCEPT !.count = n]]
    BY <2>2
  <2> HIDE DEF IndInv
  <2>. QED  BY <2>3, <2>4, <2>5
<1>6. /\ routes' \in [Muxes -> SUBSET (Conns \X Sessions)]
      /\ \A n \in Muxes : routes'[n] = IF n = m THEN routes[n] \ gone ELSE routes[n]
  BY DEF Drop, TypeOK
<1>7. \A n \in Muxes : mux'[n].lock = mux[n].lock
  BY DEF Drop, TypeOK, MuxRecord
<1>8. \A n \in Muxes \ {m} : mux'[n] = mux[n]
  BY DEF Drop, TypeOK
<1>9. ASSUME NEW c \in Conns
      PROVE  Cardinality((routes[m] \ gone) \cap RoutesOf(c)) <= PerLink
  <2>1. IsFiniteSet(routes[m] \cap RoutesOf(c))
    BY <1>1, FS_Intersection
  <2>2. (routes[m] \ gone) \cap RoutesOf(c) \subseteq routes[m] \cap RoutesOf(c)
    OBVIOUS
  <2>3. /\ Cardinality((routes[m] \ gone) \cap RoutesOf(c)) <=
             Cardinality(routes[m] \cap RoutesOf(c))
        /\ IsFiniteSet((routes[m] \ gone) \cap RoutesOf(c))
    BY <2>1, <2>2, FS_Subset
  <2>4. Cardinality((routes[m] \ gone) \cap RoutesOf(c)) \in Nat
          /\ Cardinality(routes[m] \cap RoutesOf(c)) \in Nat
    BY <2>1, <2>3, FS_CardinalityType
  <2>5. Cardinality(routes[m] \cap RoutesOf(c)) <= PerLink
    BY DEF TableInv
  <2>. QED  BY Budgets, <2>3, <2>4, <2>5
<1>10. TableInv'
  <2>1. \A n \in Muxes : (\A c \in Conns : RoutesOf(c)' = RoutesOf(c))
    BY DEF RoutesOf
  <2>. QED  BY <1>2, <1>4, <1>6, <1>8, <1>9, <2>1 DEF TableInv, RoutesOf
<1>11. bridges' \in SUBSET (Muxes \X (Conns \X Sessions))
  BY DEF Drop, TypeOK
<1>. QED  BY <1>5, <1>6, <1>7, <1>10, <1>11

\* resolve hands out a table nobody refers to, or the tenant's own as it is.
LEMMA ResolveKeeps ==
  ASSUME IndInv, NEW t \in Tenants, NEW m \in Muxes, resolve(t, m)
  PROVE  /\ byTenant' \in [Tenants -> Muxes \cup {None}]
         /\ mux' \in [Muxes -> MuxRecord]
         /\ routes' \in [Muxes -> SUBSET (Conns \X Sessions)]
         /\ \A n \in Muxes : mux'[n].lock = mux[n].lock /\ routes'[n] \subseteq routes[n]
         /\ TableInv'
<1> USE DEF IndInv
<1>1. CASE UNCHANGED <<byTenant, mux, routes>>
  BY <1>1 DEF TypeOK, TableInv, RoutesOf
<1>2. CASE /\ Unused(m) /\ mux' = buildTenantLink(m, t) /\ routes' = [routes EXCEPT ![m] = {}]
           /\ \/ byTenant' = [byTenant EXCEPT ![t] = m]
              \/ \E v \in Reclaimable : byTenant' = [byTenant EXCEPT ![t] = m, ![v] = None]
  <2>1. byTenant' \in [Tenants -> Muxes \cup {None}]
    BY <1>2 DEF TypeOK
  <2>2. mux' \in [Muxes -> MuxRecord] /\ mux'[m] = NewMultiplexer(t)
          /\ \A n \in Muxes \ {m} : mux'[n] = mux[n]
    BY <1>2 DEF TypeOK, MuxRecord, buildTenantLink, NewMultiplexer
  <2>3. routes' \in [Muxes -> SUBSET (Conns \X Sessions)] /\ routes'[m] = {}
          /\ \A n \in Muxes \ {m} : routes'[n] = routes[n]
    BY <1>2 DEF TypeOK
  <2>4. mux[m].lock = None
    BY <1>2 DEF Unused, LockInv, TypeOK, MuxRecord
  <2>5. \A n \in Muxes : mux'[n].lock = mux[n].lock /\ routes'[n] \subseteq routes[n]
    BY <2>2, <2>3, <2>4 DEF NewMultiplexer
  <2>6. \A c \in Conns : {} \cap RoutesOf(c) = {}
    OBVIOUS
  <2>7. TableInv'
    <3>1. /\ IsFiniteSet(routes'[m]) /\ mux'[m].count = Cardinality(routes'[m])
          /\ mux'[m].count <= Total
          /\ \A c \in Conns : Cardinality(routes'[m] \cap RoutesOf(c)) <= PerLink
      BY Budgets, <2>2, <2>3, <2>6, FS_EmptySet DEF NewMultiplexer
    <3>. QED  BY <2>2, <2>3, <3>1 DEF TableInv, RoutesOf
  <2>. QED  BY <2>1, <2>2, <2>3, <2>5, <2>7
<1>. QED  BY <1>1, <1>2 DEF resolve

-----------------------------------------------------------------------------

\* The states a Host starts in satisfy the invariant.
LEMMA InitEstablishes == Init => IndInv
<1> SUFFICES ASSUME Init PROVE IndInv
  OBVIOUS
<1> USE DEF Init
<1>1. TypeOK
  BY DEF TypeOK, MuxRecord, NewMultiplexer, SessRecord, Places, Ends, TailRecord
<1>2. TableInv
  <2>1. \A c \in Conns : {} \cap RoutesOf(c) = {}
    OBVIOUS
  <2>. QED  BY Budgets, <2>1, FS_EmptySet DEF TableInv, NewMultiplexer
<1>3. LockInv /\ LinkedInv /\ StoppedInv /\ NoRouteBridgesAHole
  BY DEF LockInv, LinkedInv, StoppedInv, NoRouteBridgesAHole, NewMultiplexer
<1>. QED  BY <1>1, <1>2, <1>3 DEF IndInv

-----------------------------------------------------------------------------
(* Links and connections.                                                      *)

\* A connection is handed a link.
LEMMA ConnectKeeps ==
  ASSUME IndInv, NEW c \in Conns, Connect(c)
  PROVE  IndInv'
<1> USE DEF IndInv
<1>1. PICK t \in Tenants, m \in Muxes : resolve(t, m) /\ conn' = [conn EXCEPT ![c] = m]
  BY DEF Connect
<1>2. UNCHANGED <<closed, binding, sess, tail, supervised, pending, bridges, draining>>
        /\ conn[c] = None
  BY DEF Connect, tailVars
<1>3. TypeOK'
  BY <1>1, <1>2, ResolveKeeps DEF TypeOK
<1>4. TableInv'
  BY <1>1, ResolveKeeps
<1>5. binding[c] = None /\ \A d \in Conns \ {c} : conn'[d] = conn[d]
  BY <1>1, <1>2 DEF LockInv, TypeOK
<1>6. \A n \in Muxes : mux'[n].lock = mux[n].lock /\ routes'[n] \subseteq routes[n]
  BY <1>1, ResolveKeeps
<1>7. \A n \in Muxes : mux[n].lock # c
  BY Nones, <1>5 DEF LockInv
<1>8. LockInv'
  BY <1>2, <1>5, <1>6, <1>7 DEF LockInv, TypeOK, MuxRecord
<1>9. StoppedInv'
  BY Nones, <1>2, <1>5, <1>6 DEF StoppedInv, TypeOK, SessRecord
<1>. QED  BY <1>2, <1>3, <1>4, <1>8, <1>9, LinkedFrame, BridgeFrame

\* The Host stops handing out links.
LEMMA CloseKeeps ==
  ASSUME IndInv, Close
  PROVE  IndInv'
<1> USE DEF IndInv, Close, tableVars, tailVars
<1>1. TypeOK'
  BY DEF TypeOK
<1>. QED  BY <1>1, TableFrame, LockFrame, LinkedFrame, StoppedFrame, BridgeFrame

\* The Host drains.
LEMMA BeginDrainKeeps ==
  ASSUME IndInv, BeginDrain
  PROVE  IndInv'
<1> USE DEF IndInv, BeginDrain, linkVars, tableVars, tailVars
<1>1. TypeOK'
  BY DEF TypeOK
<1>. QED  BY <1>1, TableFrame, LockFrame, LinkedFrame, StoppedFrame, BridgeFrame

\* A bind takes the mutex and reads a session that still admits.
LEMMA BindKeeps ==
  ASSUME IndInv, NEW c \in Conns, Bind(c)
  PROVE  IndInv'
<1> USE DEF IndInv
<1>1. PICK s \in Sessions : Admits(s) /\ binding' = [binding EXCEPT ![c] = s]
  BY DEF Bind
<1>2. /\ conn[c] \in Muxes /\ binding[c] = None /\ mux[conn[c]].lock = None
      /\ mux' = [mux EXCEPT ![conn[c]].lock = c]
      /\ UNCHANGED <<byTenant, closed, conn, routes, bridges, sess, tail, supervised, pending,
                     draining>>
  BY DEF Bind, TypeOK, Free, linkVars, tailVars
<1>3. mux' \in [Muxes -> MuxRecord]
  BY <1>2 DEF TypeOK, MuxRecord
<1>4. TypeOK'
  BY <1>1, <1>2, <1>3 DEF TypeOK
<1>5. /\ \A n \in Muxes : mux'[n].count = mux[n].count
      /\ mux'[conn[c]].lock = c /\ \A n \in Muxes \ {conn[c]} : mux'[n] = mux[n]
  BY <1>2 DEF TypeOK, MuxRecord
<1>6. binding'[c] = s /\ \A d \in Conns \ {c} : binding'[d] = binding[d]
  BY <1>1 DEF TypeOK
<1>7. LockInv'
  BY Nones, <1>2, <1>5, <1>6 DEF LockInv, TypeOK, MuxRecord
<1>8. StoppedInv'
  BY <1>1, <1>2, <1>6 DEF StoppedInv, Admits
<1>. QED  BY <1>2, <1>4, <1>5, <1>7, <1>8, TableFrame, LinkedFrame, BridgeFrame

\* The bind records a route that fits both budgets, under the mutex it took.
LEMMA recordKeeps ==
  ASSUME IndInv, NEW c \in Conns, record(c)
  PROVE  IndInv'
<1> USE DEF IndInv
<1> DEFINE m == conn[c]
           s == binding[c]
<1>1. /\ s \in Sessions /\ m \in Muxes /\ mux[m].lock = c
      /\ binding' = [binding EXCEPT ![c] = None]
      /\ UNCHANGED <<byTenant, closed, conn, bridges, sess, tail, supervised, pending, draining>>
  BY DEF record, TypeOK, LockInv, linkVars, tailVars
<1>2. \/ /\ HasRoom(c) /\ routes' = [routes EXCEPT ![m] = @ \cup {<<c, s>>}]
         /\ mux' = [mux EXCEPT ![m].lock = None, ![m].count = @ + Added(c)]
      \/ mux' = [mux EXCEPT ![m].lock = None] /\ UNCHANGED routes
  BY DEF record
<1> HIDE DEF m, s
<1>3. IsFiniteSet(routes[m]) /\ mux[m].count = Cardinality(routes[m]) /\ mux[m].count <= Total
        /\ mux[m].count \in Nat
  BY <1>1 DEF TableInv, TypeOK, MuxRecord
<1>4. Added(c) = IF <<c, s>> \in routes[m] THEN 0 ELSE 1
  BY DEF Added, m, s
<1>5. /\ mux' \in [Muxes -> MuxRecord] /\ mux'[m].lock = None
      /\ \A n \in Muxes \ {m} : mux'[n] = mux[n]
  <2>1. mux[m] \in MuxRecord
    BY <1>1 DEF TypeOK
  <2>2. CASE mux' = [mux EXCEPT ![m].lock = None]
    BY <2>1, <2>2, <1>1 DEF TypeOK, MuxRecord
  <2>3. CASE mux' = [mux EXCEPT ![m].lock = None, ![m].count = @ + Added(c)]
    <3> DEFINE k == mux[m].count + Added(c)
    <3>1. k \in Nat
      BY <1>3, <1>4
    <3>2. mux' = [mux EXCEPT ![m] = [mux[m] EXCEPT !.lock = None, !.count = k]]
      BY <2>3
    <3> HIDE DEF k
    <3>3. [mux[m] EXCEPT !.lock = None, !.count = k] \in MuxRecord
      BY <2>1, <3>1 DEF MuxRecord
    <3>4. [mux[m] EXCEPT !.lock = None, !.count = k].lock = None
      BY <2>1 DEF MuxRecord
    <3>5. mux \in [Muxes -> MuxRecord]
      BY DEF TypeOK
    <3>. QED  BY <3>2, <3>3, <3>4, <3>5, <1>1
  <2>. QED  BY <1>2, <2>2, <2>3
<1>6. /\ routes' \in [Muxes -> SUBSET (Conns \X Sessions)]
      /\ \A n \in Muxes \ {m} : routes'[n] = routes[n]
      /\ routes'[m] \in {routes[m], routes[m] \cup {<<c, s>>}}
  BY <1>1, <1>2 DEF TypeOK
<1>7. /\ IsFiniteSet(routes'[m]) /\ mux'[m].count = Cardinality(routes'[m])
      /\ mux'[m].count <= Total
      /\ \A d \in Conns : Cardinality(routes'[m] \cap RoutesOf(d)) <= PerLink
  <2>1. CASE routes'[m] = routes[m] /\ mux'[m].count = mux[m].count
    BY <2>1, <1>1, <1>3 DEF TableInv
  <2>2. CASE /\ <<c, s>> \notin routes[m] /\ routes'[m] = routes[m] \cup {<<c, s>>}
             /\ mux'[m].count = mux[m].count + 1 /\ HasRoom(c)
    <3>1. mux[m].count < Total /\ Cardinality(routes[m] \cap RoutesOf(c)) < PerLink
      BY <2>2 DEF HasRoom, Len, m, s
    <3>2. IsFiniteSet(routes'[m]) /\ Cardinality(routes'[m]) = Cardinality(routes[m]) + 1
      <4>1. /\ IsFiniteSet(routes[m] \cup {<<c, s>>})
            /\ Cardinality(routes[m] \cup {<<c, s>>}) =
                 IF <<c, s>> \in routes[m] THEN Cardinality(routes[m])
                 ELSE Cardinality(routes[m]) + 1
        BY <1>3, FS_AddElement
      <4>. QED  BY <2>2, <4>1
    <3>3. ASSUME NEW d \in Conns
          PROVE  Cardinality(routes'[m] \cap RoutesOf(d)) <= PerLink
      <4>1. CASE d # c
        <5>1. routes'[m] \cap RoutesOf(d) = routes[m] \cap RoutesOf(d)
          BY <4>1, <2>2 DEF RoutesOf
        <5>. QED  BY <5>1, <1>1 DEF TableInv
      <4>2. CASE d = c
        <5>1. routes'[m] \cap RoutesOf(c) = (routes[m] \cap RoutesOf(c)) \cup {<<c, s>>}
          BY <2>2, <1>1 DEF RoutesOf
        <5>2. /\ IsFiniteSet(routes[m] \cap RoutesOf(c))
              /\ <<c, s>> \notin routes[m] \cap RoutesOf(c)
          BY <2>2, <1>3, FS_Intersection
        <5>3. Cardinality(routes'[m] \cap RoutesOf(c)) =
                Cardinality(routes[m] \cap RoutesOf(c)) + 1
          BY <5>1, <5>2, FS_AddElement
        <5>4. Cardinality(routes[m] \cap RoutesOf(c)) \in Nat
          BY <5>2, FS_CardinalityType
        <5>. QED  BY Budgets, <3>1, <4>2, <5>3, <5>4
      <4>. QED  BY <4>1, <4>2
    <3>. QED  BY Budgets, <2>2, <3>1, <3>2, <3>3, <1>3
  <2>3. CASE HasRoom(c) /\ routes' = [routes EXCEPT ![m] = @ \cup {<<c, s>>}]
             /\ mux' = [mux EXCEPT ![m].lock = None, ![m].count = @ + Added(c)]
    <3>1. routes'[m] = routes[m] \cup {<<c, s>>} /\ mux'[m].count = mux[m].count + Added(c)
      BY <2>3, <1>1 DEF TypeOK, MuxRecord
    <3>2. CASE <<c, s>> \in routes[m]
      <4>1. routes'[m] = routes[m] /\ mux'[m].count = mux[m].count
        BY <3>1, <3>2, <1>3, <1>4
      <4>. QED  BY <4>1, <2>1
    <3>3. CASE <<c, s>> \notin routes[m]
      BY <2>3, <3>1, <3>3, <1>4, <2>2
    <3>. QED  BY <3>2, <3>3
  <2>4. CASE mux' = [mux EXCEPT ![m].lock = None] /\ UNCHANGED routes
    <3>1. mux'[m].count = mux[m].count
      BY <2>4, <1>1 DEF TypeOK, MuxRecord
    <3>. QED  BY <2>1, <2>4, <3>1
  <2>. QED  BY <1>2, <2>3, <2>4
<1>8. TableInv'
  BY <1>1, <1>5, <1>6, <1>7 DEF TableInv, RoutesOf
<1>9. TypeOK'
  BY <1>1, <1>5, <1>6 DEF TypeOK
<1>10. binding'[c] = None /\ \A d \in Conns \ {c} : binding'[d] = binding[d]
  BY <1>1 DEF TypeOK
<1>11. LockInv'
  <2>1. \A n \in Muxes \ {m} : mux[n].lock # c
    BY <1>1, Nones DEF LockInv, m
  <2>2. \A d \in Conns \ {c} : binding[d] # None => conn[d] \in Muxes \ {m}
    BY <1>1 DEF LockInv, TypeOK
  <2>3. \A n \in Muxes : mux[n].lock \in Conns \cup {None}
    BY DEF TypeOK, MuxRecord
  <2>. QED  BY <1>1, <1>5, <1>10, <2>1, <2>2, <2>3 DEF LockInv
<1>12. StoppedInv'
  <2> SUFFICES ASSUME NEW u \in Sessions, sess[u].at \in {"stopped", "released"},
                      sess[u].link # None
               PROVE  /\ routes'[sess[u].link] \cap RoutesTo(u) = {}
                      /\ \A d \in Conns : ~(conn[d] = sess[u].link /\ binding'[d] = u)
    BY <1>1 DEF StoppedInv, RoutesTo
  <2>1. routes[sess[u].link] \cap RoutesTo(u) = {} /\ sess[u].link \in Muxes
    BY DEF StoppedInv, TypeOK, SessRecord
  <2>2. \A d \in Conns : ~(conn[d] = sess[u].link /\ binding[d] = u)
    BY DEF StoppedInv
  <2>3. sess[u].link = m => s # u
    BY <2>2 DEF m, s
  <2>4. routes'[sess[u].link] \cap RoutesTo(u) = {}
    BY <2>1, <2>3, <1>6 DEF RoutesTo
  <2>5. \A d \in Conns : ~(conn[d] = sess[u].link /\ binding'[d] = u)
    BY Nones, <2>2, <1>10
  <2>. QED  BY <2>4, <2>5
<1>. QED  BY <1>1, <1>8, <1>9, <1>11, <1>12, LinkedFrame, BridgeFrame

\* Routes are dropped one by one, with their connection, or with their session.
LEMMA UnbindKeeps ==
  ASSUME IndInv, NEW c \in Conns, NEW s \in Sessions, Unbind(c, s)
  PROVE  IndInv'
<1> USE DEF IndInv
<1>1. /\ conn[c] \in Muxes /\ Drop(conn[c], {<<c, s>>})
      /\ UNCHANGED <<byTenant, closed, conn, binding, sess, tail, supervised, pending, draining>>
  BY DEF Unbind, TypeOK, linkVars, tailVars
<1>2. TypeOK' /\ TableInv'
  BY <1>1, DropKeeps DEF TypeOK
<1>3. \A n \in Muxes : mux'[n].lock = mux[n].lock /\ routes'[n] \subseteq routes[n]
  BY <1>1, DropKeeps
<1>4. bridges' \subseteq bridges
  BY <1>1 DEF Drop
<1>. QED  BY <1>1, <1>2, <1>3, <1>4, LockFrame, LinkedFrame, StoppedFrame, BridgeFrame

\* A connection's end leaves none of its routes and no bind of it.
LEMMA CloseLinkKeeps ==
  ASSUME IndInv, NEW c \in Conns, CloseLink(c)
  PROVE  IndInv'
<1> USE DEF IndInv
<1>1. /\ conn[c] \in Muxes /\ Drop(conn[c], RoutesOf(c)) /\ conn' = [conn EXCEPT ![c] = None]
      /\ mux[conn[c]].lock = None /\ binding[c] = None
      /\ UNCHANGED <<byTenant, closed, binding, sess, tail, supervised, pending, draining>>
  BY DEF CloseLink, TypeOK, tailVars, Free
<1>2. TypeOK' /\ TableInv'
  BY <1>1, DropKeeps DEF TypeOK
<1>3. \A n \in Muxes : mux'[n].lock = mux[n].lock /\ routes'[n] \subseteq routes[n]
  BY <1>1, DropKeeps
<1>4. bridges' \subseteq bridges
  BY <1>1 DEF Drop
<1>5. conn'[c] = None /\ \A d \in Conns \ {c} : conn'[d] = conn[d]
  BY <1>1 DEF TypeOK
<1>6. LockInv'
  <2>1. \A n \in Muxes : mux[n].lock # c
    BY Nones, <1>1 DEF LockInv
  <2>2. \A n \in Muxes : mux[n].lock \in Conns \cup {None}
    BY DEF TypeOK, MuxRecord
  <2>3. \A d \in Conns \ {c} : binding[d] # None => conn[d] \in Muxes
    BY DEF LockInv, TypeOK
  <2>. QED  BY <1>1, <1>3, <1>5, <2>1, <2>2, <2>3 DEF LockInv
<1>7. StoppedInv'
  BY <1>1, <1>3, <1>5 DEF StoppedInv, TypeOK, SessRecord
<1>. QED  BY <1>1, <1>2, <1>4, <1>6, <1>7, LinkedFrame, BridgeFrame

-----------------------------------------------------------------------------
(* The tails.                                                                  *)

\* The routes there when a tail leaves a hole are pending from the same step.
LEMMA relayKeeps ==
  ASSUME IndInv, NEW s \in Sessions, relay(s)
  PROVE  IndInv'
<1> USE DEF IndInv
<1>1. PICK end \in {"refusing", "losing"} : EndsTail(s, end)
  BY DEF relay
<1>2. /\ tail[s] = "running"
      /\ UNCHANGED <<byTenant, closed, conn, binding, sess, draining, mux, routes, supervised>>
  BY DEF relay, TailStep, linkVars
<1>3. sess[s].link \in Muxes
  BY <1>2 DEF LinkedInv, TypeOK, SessRecord
<1>4. /\ tail' \in [Sessions -> Ends]
      /\ \A u \in Sessions : tail'[u] = "running" => tail[u] = "running"
  BY <1>1 DEF EndsTail, TypeOK, Ends
<1>5. pending' \in [Sessions -> SUBSET Muxes]
      /\ \A u \in Sessions : pending[u] \subseteq pending'[u]
      /\ sess[s].link \in pending'[s]
  BY <1>1, <1>3 DEF EndsTail, TypeOK
<1>6. bridges' = bridges \cup ({sess[s].link} \X (routes[sess[s].link] \cap RoutesTo(s)))
  BY <1>1 DEF EndsTail
<1>7. routes[sess[s].link] \subseteq Conns \X Sessions
  BY <1>3 DEF TypeOK
<1>8. bridges' \in SUBSET (Muxes \X (Conns \X Sessions))
  BY <1>3, <1>6, <1>7 DEF TypeOK
<1>9. TypeOK'
  BY <1>2, <1>4, <1>5, <1>8 DEF TypeOK
<1>10. NoRouteBridgesAHole'
  <2> SUFFICES ASSUME NEW b \in bridges' PROVE b[1] \in pending'[b[2][2]]
    BY DEF NoRouteBridgesAHole
  <2>1. CASE b \in bridges
    BY <2>1, <1>5 DEF NoRouteBridgesAHole, TypeOK
  <2>2. CASE b \in {sess[s].link} \X (routes[sess[s].link] \cap RoutesTo(s))
    BY <2>2, <1>5 DEF RoutesTo
  <2>. QED  BY <1>6, <2>1, <2>2
<1>11. LinkedInv'
  BY <1>2, <1>4 DEF LinkedInv
<1>. QED  BY <1>2, <1>9, <1>10, <1>11, TableFrame, LockFrame, StoppedFrame

\* An invalidation is done with a link once it has dropped the routes there.
LEMMA invalidateKeeps ==
  ASSUME IndInv, NEW s \in Sessions, invalidate(s)
  PROVE  IndInv'
<1> USE DEF IndInv
<1>1. PICK m \in pending[s] :
        /\ Drop(m, RoutesTo(s)) /\ pending' = [pending EXCEPT ![s] = @ \ {m}]
        /\ tail' = [tail EXCEPT ![s] = IF m = sess[s].link THEN Ended(s) ELSE @]
  BY DEF invalidate, InvalidateSession
<1>2. m \in Muxes /\ UNCHANGED <<byTenant, closed, conn, binding, sess, draining, supervised>>
  BY DEF invalidate, TailStep, linkVars, TypeOK
<1>3. /\ tail' \in [Sessions -> Ends]
      /\ \A u \in Sessions : tail'[u] = "running" => tail[u] = "running"
  BY <1>1 DEF TypeOK, Ends, Ended
<1>4. pending' \in [Sessions -> SUBSET Muxes]
  BY <1>1 DEF TypeOK
<1>5. TypeOK' /\ TableInv'
  BY <1>1, <1>2, <1>3, <1>4, DropKeeps DEF TypeOK
<1>6. \A n \in Muxes : mux'[n].lock = mux[n].lock /\ routes'[n] \subseteq routes[n]
  BY <1>1, <1>2, DropKeeps
<1>7. NoRouteBridgesAHole'
  <2> SUFFICES ASSUME NEW b \in bridges' PROVE b[1] \in pending'[b[2][2]]
    BY DEF NoRouteBridgesAHole
  <2>1. b \in bridges /\ b \notin {m} \X RoutesTo(s)
    BY <1>1 DEF Drop
  <2>2. PICK n \in Muxes, c \in Conns, u \in Sessions : b = <<n, <<c, u>>>>
    BY <2>1 DEF TypeOK
  <2>3. n \in pending[u]
    BY <2>1, <2>2 DEF NoRouteBridgesAHole
  <2>4. ~(n = m /\ u = s)
    BY <2>1, <2>2 DEF RoutesTo
  <2>5. n \in pending'[u]
    BY <2>3, <2>4, <1>1 DEF TypeOK
  <2>. QED  BY <2>2, <2>5
<1>8. LinkedInv'
  BY <1>2, <1>3 DEF LinkedInv
<1>. QED  BY <1>2, <1>5, <1>6, <1>7, <1>8, LockFrame, StoppedFrame

\* The supervisor moves with its tail.
LEMMA SupervisorKeeps ==
  ASSUME IndInv, NEW s \in Sessions, WatchTail(s) \/ Restart(s) \/ Install(s)
  PROVE  IndInv'
<1> USE DEF IndInv
<1>1. UNCHANGED <<byTenant, closed, conn, binding, sess, draining, mux, routes, bridges, pending>>
  BY DEF WatchTail, Restart, Install, TailStep, linkVars, tableVars
<1>2. /\ \E at \in {"watching", "backoff", "started", "done"} :
           supervised' = [supervised EXCEPT ![s].at = at]
      /\ supervised[s].at \in {"watching", "backoff", "started"}
  BY DEF WatchTail, Restart, Install
<1>3. /\ supervised' \in [Sessions -> TailRecord]
      /\ \A u \in Sessions \ {s} : supervised'[u] = supervised[u]
  BY <1>2 DEF TypeOK, TailRecord
<1>4. tail' \in [Sessions -> Ends] /\ \A u \in Sessions \ {s} : tail'[u] = tail[u]
  <2>1. \/ UNCHANGED tail
        \/ tail' = [tail EXCEPT ![s] = "running"]
        \/ tail' = [tail EXCEPT ![s] = IF @ = "running" THEN "stopped" ELSE @]
    BY DEF WatchTail, Restart, Install
  <2>. QED  BY <2>1 DEF TypeOK, Ends
<1>5. TypeOK'
  BY <1>1, <1>3, <1>4 DEF TypeOK
<1>6. LinkedInv'
  BY <1>1, <1>2, <1>3, <1>4 DEF LinkedInv
<1>. QED  BY <1>1, <1>5, <1>6, TableFrame, LockFrame, StoppedFrame, BridgeFrame

-----------------------------------------------------------------------------
(* Residencies.                                                                *)

\* A residency's place changes and its link does not.
LEMMA AtTyped ==
  ASSUME TypeOK, NEW s \in Sessions, NEW at \in Places, At(s, at)
  PROVE  /\ sess' \in [Sessions -> SessRecord]
         /\ sess'[s].at = at /\ sess'[s].link = sess[s].link
         /\ \A u \in Sessions \ {s} : sess'[u] = sess[u]
<1>1. sess[s] \in SessRecord /\ sess \in [Sessions -> SessRecord]
  BY DEF TypeOK
<1>2. sess' = [sess EXCEPT ![s] = [sess[s] EXCEPT !.at = at]]
  BY DEF At
<1>3. /\ [sess[s] EXCEPT !.at = at] \in SessRecord
      /\ [sess[s] EXCEPT !.at = at].at = at /\ [sess[s] EXCEPT !.at = at].link = sess[s].link
  BY <1>1 DEF SessRecord
<1>. QED  BY <1>1, <1>2, <1>3

\* A stop concerns one session's tail and its supervisor.
LEMMA StopTailTyped ==
  ASSUME TypeOK, NEW s \in Sessions, StopTail(s)
  PROVE  /\ tail' \in [Sessions -> Ends] /\ supervised' \in [Sessions -> TailRecord]
         /\ \A u \in Sessions \ {s} : tail'[u] = tail[u] /\ supervised'[u] = supervised[u]
<1>1. tail' \in [Sessions -> Ends] /\ \A u \in Sessions \ {s} : tail'[u] = tail[u]
  BY DEF StopTail, TypeOK, Ends
<1>2. /\ supervised' \in [Sessions -> TailRecord]
      /\ \A u \in Sessions \ {s} : supervised'[u] = supervised[u]
  <2>1. supervised \in [Sessions -> TailRecord] /\ supervised[s] \in TailRecord
    BY DEF TypeOK
  <2>2. [supervised[s] EXCEPT !.stopped = TRUE] \in TailRecord
    BY <2>1 DEF TailRecord
  <2>3. supervised' = [supervised EXCEPT ![s] = [supervised[s] EXCEPT !.stopped = TRUE]]
    BY DEF StopTail
  <2>. QED  BY <2>1, <2>2, <2>3
<1>. QED  BY <1>1, <1>2

\* A session is attached with no link and no tail.
LEMMA AttachKeeps ==
  ASSUME IndInv, NEW s \in Sessions, Attach(s)
  PROVE  IndInv'
<1> USE DEF IndInv, Attach, SessionStep, tableVars
<1>1. sess' \in [Sessions -> SessRecord] /\ tail' \in [Sessions -> Ends]
        /\ supervised' \in [Sessions -> TailRecord]
  BY DEF TypeOK, SessRecord, Places, Ends, TailRecord
<1>2. TypeOK'
  BY <1>1 DEF TypeOK
<1>3. LinkedInv'
  BY DEF LinkedInv, TypeOK
<1>4. StoppedInv'
  BY StoppedFrame DEF TypeOK
<1>. QED  BY <1>2, <1>3, <1>4, TableFrame, LockFrame, BridgeFrame

\* A session's work resolves the link it keeps.
LEMMA beginWorkKeeps ==
  ASSUME IndInv, NEW s \in Sessions, beginWork(s)
  PROVE  IndInv'
<1> USE DEF IndInv
<1>1. PICK m \in Muxes :
        resolve(TenantOf[s], m) /\ sess' = [sess EXCEPT ![s] = [at |-> "working", link |-> m]]
  BY DEF beginWork
<1>2. /\ tail' = [tail EXCEPT ![s] = "running"]
      /\ supervised' = [supervised EXCEPT ![s].at = "watching"]
      /\ UNCHANGED <<closed, conn, binding, draining, bridges, pending>>
  BY DEF beginWork, SessionStep
<1>3. TenantOf[s] \in Tenants
  BY LinksAssumption
<1>4. /\ sess' \in [Sessions -> SessRecord] /\ tail' \in [Sessions -> Ends]
      /\ supervised' \in [Sessions -> TailRecord]
  <2>1. sess' \in [Sessions -> SessRecord]
    BY <1>1 DEF TypeOK, SessRecord, Places
  <2>2. tail' \in [Sessions -> Ends]
    BY <1>2 DEF TypeOK, Ends
  <2>3. supervised' \in [Sessions -> TailRecord]
    BY <1>2 DEF TypeOK, TailRecord
  <2>. QED  BY <2>1, <2>2, <2>3
<1>5. TypeOK' /\ TableInv'
  BY <1>1, <1>2, <1>3, <1>4, ResolveKeeps DEF TypeOK
<1>6. \A n \in Muxes : mux'[n].lock = mux[n].lock /\ routes'[n] \subseteq routes[n]
  BY <1>1, <1>3, ResolveKeeps
<1>7. LinkedInv'
  BY Nones, <1>1, <1>2 DEF LinkedInv, TypeOK
<1>8. StoppedInv'
  BY <1>1, <1>2, <1>6, StoppedFrame DEF TypeOK
<1>. QED  BY <1>2, <1>5, <1>6, <1>7, <1>8, LockFrame, BridgeFrame

\* A residency moves on without touching a table: from stopped to released, and
\* otherwise to a place where its session is not stopped.
LEMMA MovesKeep ==
  ASSUME IndInv, NEW s \in Sessions,
         AttachFails(s) \/ Rollback(s) \/ StopAdmitting(s) \/ ResumeResident(s) \/ Remove(s)
  PROVE  IndInv'
<1> USE DEF IndInv
<1>1. UNCHANGED <<byTenant, closed, conn, binding, draining, mux, routes, bridges, tail,
                  supervised, pending>>
  BY DEF AttachFails, Rollback, StopAdmitting, ResumeResident, Remove, SessionStep, tableVars,
         tailVars
<1>2. PICK at \in Places :
        /\ At(s, at)
        /\ at \in {"working", "closing"} => sess[s].at \in {"working", "closing"}
        /\ at \in {"stopped", "released"} => sess[s].at = "stopped"
  BY DEF AttachFails, Rollback, StopAdmitting, ResumeResident, Remove, Places
<1>3. /\ sess' \in [Sessions -> SessRecord]
      /\ sess'[s].at = at /\ sess'[s].link = sess[s].link
      /\ \A u \in Sessions \ {s} : sess'[u] = sess[u]
  BY <1>2, AtTyped
<1>4. TypeOK'
  BY <1>1, <1>3 DEF TypeOK
<1>5. LinkedInv'
  BY <1>1, <1>2, <1>3 DEF LinkedInv
<1>6. StoppedInv'
  BY <1>1, <1>2, <1>3, StoppedFrame
<1>. QED  BY <1>1, <1>4, <1>5, <1>6, TableFrame, LockFrame, BridgeFrame

\* Work whose attach failed is stopped and its routes dropped in one go.
LEMMA FailsToCommitKeeps ==
  ASSUME IndInv, NEW s \in Sessions, FailsToCommit(s)
  PROVE  IndInv'
<1> USE DEF IndInv
<1>1. /\ sess[s].at = "working" /\ Drop(sess[s].link, RoutesTo(s))
      /\ At(s, "unwinding") /\ StopTail(s)
      /\ UNCHANGED <<byTenant, closed, conn, binding, draining, pending>>
  BY DEF FailsToCommit, InvalidateSession, SessionStep
<1>2. sess[s].link \in Muxes
  BY <1>1 DEF LinkedInv, TypeOK, SessRecord
<1>3. /\ sess' \in [Sessions -> SessRecord] /\ sess'[s].at = "unwinding"
      /\ sess'[s].link = sess[s].link /\ \A u \in Sessions \ {s} : sess'[u] = sess[u]
  BY <1>1, AtTyped DEF Places
<1>4. /\ tail' \in [Sessions -> Ends] /\ supervised' \in [Sessions -> TailRecord]
      /\ \A u \in Sessions \ {s} : tail'[u] = tail[u] /\ supervised'[u] = supervised[u]
  BY <1>1, StopTailTyped
<1>5. TypeOK' /\ TableInv'
  BY <1>1, <1>2, <1>3, <1>4, DropKeeps DEF TypeOK
<1>6. \A n \in Muxes : mux'[n].lock = mux[n].lock /\ routes'[n] \subseteq routes[n]
  BY <1>1, <1>2, DropKeeps
<1>7. bridges' \subseteq bridges
  BY <1>1 DEF Drop
<1>8. LinkedInv'
  BY Nones, <1>2, <1>3, <1>4 DEF LinkedInv
<1>9. StoppedInv'
  BY <1>1, <1>3, <1>6, StoppedFrame
<1>. QED  BY <1>1, <1>5, <1>6, <1>7, <1>8, <1>9, LockFrame, BridgeFrame

\* A release stops the tail first ...
LEMMA stopWorkKeeps ==
  ASSUME IndInv, NEW s \in Sessions, stopWork(s)
  PROVE  IndInv'
<1> USE DEF IndInv
<1>1. /\ sess[s].at = "closing" /\ StopTail(s)
      /\ UNCHANGED <<byTenant, closed, conn, binding, draining, mux, routes, bridges, sess, pending>>
  BY DEF stopWork, SessionStep, tableVars
<1>2. /\ tail' \in [Sessions -> Ends] /\ supervised' \in [Sessions -> TailRecord]
      /\ \A u \in Sessions \ {s} : tail'[u] = tail[u] /\ supervised'[u] = supervised[u]
  BY <1>1, StopTailTyped
<1>3. TypeOK'
  BY <1>1, <1>2 DEF TypeOK
<1>4. LinkedInv'
  BY <1>1, <1>2 DEF LinkedInv
<1>. QED  BY <1>1, <1>3, <1>4, TableFrame, LockFrame, StoppedFrame, BridgeFrame

\* ... and the routes under the table's mutex, so that no bind that read the
\* session before is left to record one after.
LEMMA stopRoutesKeeps ==
  ASSUME IndInv, NEW s \in Sessions, stopRoutes(s)
  PROVE  IndInv'
<1> USE DEF IndInv
<1> DEFINE m == sess[s].link
<1>1. /\ sess[s].at = "closing" /\ mux[m].lock = None /\ Drop(m, RoutesTo(s))
      /\ At(s, "stopped")
      /\ UNCHANGED <<byTenant, closed, conn, binding, draining, tail, supervised, pending>>
  BY DEF stopRoutes, InvalidateSession, Free, SessionStep, tailVars
<1>2. m \in Muxes
  BY <1>1 DEF LinkedInv, TypeOK, SessRecord
<1>3. /\ sess' \in [Sessions -> SessRecord] /\ sess'[s].at = "stopped"
      /\ sess'[s].link = m /\ \A u \in Sessions \ {s} : sess'[u] = sess[u]
  BY <1>1, AtTyped DEF Places
<1> HIDE DEF m
<1>4. TypeOK' /\ TableInv'
  BY <1>1, <1>2, <1>3, DropKeeps DEF TypeOK
<1>5. /\ \A n \in Muxes : mux'[n].lock = mux[n].lock /\ routes'[n] \subseteq routes[n]
      /\ routes'[m] = routes[m] \ RoutesTo(s)
  BY <1>1, <1>2, DropKeeps
<1>6. bridges' \subseteq bridges
  BY <1>1 DEF Drop
<1>7. LinkedInv'
  BY Nones, <1>1, <1>2, <1>3 DEF LinkedInv
<1>8. \A c \in Conns : ~(conn[c] = m /\ binding[c] = s)
  <2>1. mux[m].lock = None
    BY <1>1
  <2>2. \A c \in Conns : binding[c] # None => mux[conn[c]].lock = c
    BY DEF LockInv
  <2>. QED  BY Nones, <2>1, <2>2
<1>9. StoppedInv'
  <2>1. \A u \in Sessions \ {s} :
          sess'[u].at \in {"stopped", "released"} /\ sess'[u].link # None =>
            /\ routes'[sess'[u].link] \cap RoutesTo(u) = {}
            /\ \A c \in Conns : ~(conn'[c] = sess'[u].link /\ binding'[c] = u)
    <3>1. \A u \in Sessions : sess[u].link \in Muxes \cup {None}
      BY DEF TypeOK, SessRecord
    <3>2. UNCHANGED <<conn, binding>>
      BY <1>1
    <3>. QED  BY <1>3, <1>5, <3>1, <3>2 DEF StoppedInv
  <2>2. routes'[m] \cap RoutesTo(s) = {}
    BY <1>5
  <2>. QED  BY <2>1, <2>2, <1>1, <1>3, <1>8 DEF StoppedInv, RoutesTo
<1>. QED  BY <1>1, <1>4, <1>5, <1>6, <1>7, <1>9, LockFrame, BridgeFrame

-----------------------------------------------------------------------------

\* Every step keeps the invariant.
LEMMA NextKeeps == IndInv /\ [Next]_vars => IndInv'
<1> SUFFICES ASSUME IndInv, [Next]_vars PROVE IndInv'
  OBVIOUS
<1>1. CASE Close \/ BeginDrain
  BY <1>1, CloseKeeps, BeginDrainKeeps
<1>2. ASSUME NEW c \in Conns, Connect(c) \/ install(c)
      PROVE  IndInv'
  BY <1>2, ConnectKeeps, BindKeeps, recordKeeps, UnbindKeeps, CloseLinkKeeps DEF install, dispatch
<1>3. ASSUME NEW s \in Sessions,
             relay(s) \/ invalidate(s) \/ WatchTail(s) \/ Restart(s) \/ Install(s)
      PROVE  IndInv'
  BY <1>3, relayKeeps, invalidateKeeps, SupervisorKeeps
<1>4. ASSUME NEW s \in Sessions,
             \/ Attach(s) \/ beginWork(s) \/ AttachFails(s) \/ FailsToCommit(s) \/ Rollback(s)
             \/ StopAdmitting(s) \/ ResumeResident(s) \/ stopWork(s) \/ stopRoutes(s) \/ Remove(s)
      PROVE  IndInv'
  BY <1>4, AttachKeeps, beginWorkKeeps, MovesKeep, FailsToCommitKeeps, stopWorkKeeps,
     stopRoutesKeeps
<1>5. CASE UNCHANGED vars
  <2> USE <1>5 DEF IndInv, vars
  <2>1. TypeOK'
    BY DEF TypeOK
  <2>. QED  BY <2>1, TableFrame, LockFrame, LinkedFrame, StoppedFrame, BridgeFrame
<1>. QED  BY <1>1, <1>2, <1>3, <1>4, <1>5 DEF Next

\* The invariant holds throughout every behaviour of the links.
THEOREM Inductive == Spec => []IndInv
  BY InitEstablishes, NextKeeps, PTL DEF Spec

\* Every table's count is the number of its routes, within both budgets, and a
\* released session has no route on the link that served it: the mutex a bind
\* holds from its reads to its record is the one its release has to take.
THEOREM TablesAreExact == Spec => []TableIsExact
<1>1. IndInv => TableIsExact
  BY DEF IndInv, TableInv, StoppedInv, TableIsExact
<1>. QED  BY <1>1, Inductive, PTL

\* Every route that was there when its session's tail left a hole is dropped by
\* an invalidation still to come, on the very link it is a route of.
THEOREM HolesAreInvalidated == Spec => []NoRouteBridgesAHole
<1>1. IndInv => NoRouteBridgesAHole
  BY DEF IndInv
<1>. QED  BY <1>1, Inductive, PTL

=============================================================================
