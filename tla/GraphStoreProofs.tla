-------------------------- MODULE GraphStoreProofs --------------------------
(* The theorems of GraphStore: types, the ids vertices carry, the cascade of a
   delete, and the three action properties that relate memory to what a start
   would hold.  The argument:
     - GInv is inductive: memory is a Graph (maps of the declared vertex labels,
       vertices under the id they carry, finitely many edges between declared
       ends), a start would hold a Graph or does not load, and the repository
       holds Files that were written from a Graph;
     - each live write but Delete leaves in memory what ApplyToGraphDB of its
       one record leaves (OneRecord), so two contents that are equal entry by
       entry (Alike) stay equal when the one takes the write and the other the
       replay of its record (ApplyAlike);
     - the records of a Delete only take entries away, and what is left is what
       none of them names (Left): the order does not matter, and a prefix that
       lacks the last record leaves the vertex;
     - a vertex file is keyed by the ids the vertices carry, and an edge file
       that is read and written again is the same file (FileAgain).          *)
EXTENDS GraphStore, InductionLemmas, TLAPS
-----------------------------------------------------------------------------
(* Maps *)

\* A function.
IsMap(f) == f = [x \in DOMAIN f |-> f[x]]

\* A Put changes one key.
LEMMA PutIs ==
  ASSUME NEW f, NEW k, NEW v
  PROVE  /\ DOMAIN Put(f, k, v) = DOMAIN f \cup {k} /\ Put(f, k, v)[k] = v
         /\ \A x \in DOMAIN f : x # k => Put(f, k, v)[x] = f[x]
         /\ IsMap(Put(f, k, v))
BY Zenon DEF Put, IsMap

\* A Drop takes one key away.
LEMMA DropIs ==
  ASSUME NEW f, NEW k
  PROVE  /\ DOMAIN Drop(f, k) = DOMAIN f \ {k} /\ \A x \in DOMAIN f \ {k} : Drop(f, k)[x] = f[x]
         /\ IsMap(Drop(f, k))
BY Zenon DEF Drop, IsMap

\* The empty map.
LEMMA NoneIs == DOMAIN None = {}
BY Zenon DEF None

\* The edge is there.
Has(edges, l, f, t) == l \in DOMAIN edges /\ f \in DOMAIN edges[l] /\ t \in DOMAIN edges[l][f]

\* Targets are the edges of a label that leave an id.
LEMMA TargetsAre ==
  ASSUME NEW edges, NEW l, NEW f
  PROVE  /\ \A t : t \in DOMAIN Targets(edges, l, f) <=> Has(edges, l, f, t)
         /\ \A t : Has(edges, l, f, t) => Targets(edges, l, f)[t] = edges[l][f][t]
<1>1. CASE l \in DOMAIN edges /\ f \in DOMAIN edges[l]
  <2>1. Targets(edges, l, f) = edges[l][f]
    BY <1>1, Zenon DEF Targets, At
  <2> QED BY <1>1, <2>1, Zenon DEF Has
<1>2. CASE ~(l \in DOMAIN edges /\ f \in DOMAIN edges[l])
  <2>1. Targets(edges, l, f) = None
    BY <1>2, NoneIs, Zenon DEF Targets, At
  <2> QED BY <1>2, <2>1, NoneIs, Zenon DEF Has
<1> QED BY <1>1, <1>2

\* An edge that is not there has no properties.
LEMMA GetEdgeIs ==
  ASSUME NEW edges, NEW l, NEW f, NEW t
  PROVE  GetEdge(edges, l, f, t) = IF Has(edges, l, f, t) THEN edges[l][f][t] ELSE NoProps
BY TargetsAre DEF GetEdge, At

\* The edge maps with one edge more, or with other properties for it.
Adds(edges, l, f, t, p, new) ==
  /\ DOMAIN new = DOMAIN edges \cup {l} /\ IsMap(new)
  /\ \A k, g, u : Has(new, k, g, u) <=> Has(edges, k, g, u) \/ (k = l /\ g = f /\ u = t)
  /\ new[l][f][t] = p
  /\ \A k, g, u : Has(edges, k, g, u) /\ ~(k = l /\ g = f /\ u = t) => new[k][g][u] = edges[k][g][u]

\* PutEdge touches one edge, whichever of the two outer maps it has to make.
LEMMA PutAdds ==
  ASSUME NEW edges, NEW l, NEW f, NEW t, NEW p, NEW new, new = PutEdge(edges, l, f, t, p)
  PROVE  Adds(edges, l, f, t, p, new)
<1> DEFINE adj == At(edges, l, None)
           tg == Targets(edges, l, f)
           Y == Put(tg, t, p)
           X == Put(adj, f, Y)
<1>1. new = Put(edges, l, X)
  BY Zenon DEF PutEdge
<1>2. /\ \A g : g \in DOMAIN adj <=> l \in DOMAIN edges /\ g \in DOMAIN edges[l]
      /\ l \in DOMAIN edges => adj = edges[l]
  BY NoneIs, Zenon DEF At
<1>3. /\ \A u : u \in DOMAIN tg <=> Has(edges, l, f, u)
      /\ \A u : Has(edges, l, f, u) => tg[u] = edges[l][f][u]
  BY TargetsAre
<1> HIDE DEF adj, tg
<1>4. DOMAIN Y = DOMAIN tg \cup {t} /\ Y[t] = p /\ \A u \in DOMAIN tg : u # t => Y[u] = tg[u]
  BY Zenon DEF Put
<1> HIDE DEF Y
<1>5. DOMAIN X = DOMAIN adj \cup {f} /\ X[f] = Y /\ \A g \in DOMAIN adj : g # f => X[g] = adj[g]
  BY Zenon DEF Put
<1> HIDE DEF X
<1>6. /\ DOMAIN new = DOMAIN edges \cup {l} /\ new[l] = X
      /\ \A k \in DOMAIN edges : k # l => new[k] = edges[k]
      /\ IsMap(new)
  BY <1>1, Zenon DEF Put, IsMap
<1>7. ASSUME NEW k, NEW g, NEW u
      PROVE  /\ Has(new, k, g, u) <=> Has(edges, k, g, u) \/ (k = l /\ g = f /\ u = t)
             /\ Has(edges, k, g, u) /\ ~(k = l /\ g = f /\ u = t) => new[k][g][u] = edges[k][g][u]
  <2>1. CASE k # l
    BY <1>6, <2>1, Zenon DEF Has
  <2>2. CASE k = l /\ g # f
    <3>1. Has(new, k, g, u) <=> g \in DOMAIN adj /\ u \in DOMAIN adj[g]
      BY <1>5, <1>6, <2>2, Zenon DEF Has
    <3>2. Has(edges, k, g, u) <=> g \in DOMAIN adj /\ u \in DOMAIN adj[g]
      BY <1>2, <2>2, Zenon DEF Has
    <3>3. Has(edges, k, g, u) => new[k][g][u] = edges[k][g][u]
      BY <1>2, <1>5, <1>6, <2>2, <3>2, Zenon
    <3> QED BY <2>2, <3>1, <3>2, <3>3, Zenon
  <2>3. CASE k = l /\ g = f
    <3>1. Has(new, k, g, u) <=> u \in DOMAIN tg \/ u = t
      BY <1>4, <1>5, <1>6, <2>3, Zenon DEF Has
    <3>2. Has(edges, k, g, u) <=> u \in DOMAIN tg
      BY <1>3, <2>3, Zenon
    <3>3. Has(edges, k, g, u) /\ u # t => new[k][g][u] = edges[k][g][u]
      BY <1>3, <1>4, <1>5, <1>6, <2>3, <3>2, Zenon
    <3> QED BY <2>3, <3>1, <3>2, <3>3, Zenon
  <2> QED BY <2>1, <2>2, <2>3
<1>8. new[l][f][t] = p
  BY <1>4, <1>5, <1>6, Zenon
<1>9. \A k, g, u : Has(new, k, g, u) <=> Has(edges, k, g, u) \/ (k = l /\ g = f /\ u = t)
  BY <1>7
<1>10. \A k, g, u : Has(edges, k, g, u) /\ ~(k = l /\ g = f /\ u = t) => new[k][g][u] = edges[k][g][u]
  BY <1>7
<1> QED BY <1>6, <1>8, <1>9, <1>10, Zenon DEF Adds

\* A map whose entry goes when it becomes empty.
Shrunk(f, k, v, new) ==
  /\ \A u : (k \in DOMAIN new /\ u \in DOMAIN new[k]) <=> u \in DOMAIN v
  /\ \A u : u \in DOMAIN v => new[k][u] = v[u]
  /\ \A x : x # k => (x \in DOMAIN new <=> x \in DOMAIN f)
  /\ \A x : x # k /\ x \in DOMAIN f => new[x] = f[x]
  /\ DOMAIN new \subseteq DOMAIN f \cup {k} /\ IsMap(new)

\* Either way the key holds the entries of v, and no other key changes.
LEMMA ShrunkIs ==
  ASSUME NEW f, NEW k, NEW v, NEW new, new = IF v = None THEN Drop(f, k) ELSE Put(f, k, v)
  PROVE  Shrunk(f, k, v, new)
<1>1. CASE v = None
  <2>1. new = Drop(f, k)
    BY <1>1, Zenon
  <2> QED BY <1>1, <2>1, Zenon DEF Drop, None, IsMap, Shrunk
<1>2. CASE v # None
  <2>1. new = Put(f, k, v)
    BY <1>2, Zenon
  <2> QED BY <2>1, Zenon DEF Put, IsMap, Shrunk
<1> QED BY <1>1, <1>2

\* The edge maps with one edge less.
Cuts(edges, l, f, t, new) ==
  /\ DOMAIN new \subseteq DOMAIN edges /\ IsMap(new)
  /\ \A k, g, u : Has(new, k, g, u) <=> Has(edges, k, g, u) /\ ~(k = l /\ g = f /\ u = t)
  /\ \A k, g, u : Has(new, k, g, u) => new[k][g][u] = edges[k][g][u]

\* CutEdge takes one edge away, whichever of the outer maps go with it.
LEMMA CutCuts ==
  ASSUME NEW edges, IsMap(edges), NEW l, NEW f, NEW t, NEW new, new = CutEdge(edges, l, f, t)
  PROVE  Cuts(edges, l, f, t, new)
<1>1. CASE l \notin DOMAIN edges \/ f \notin DOMAIN At(edges, l, None)
  <2>1. new = edges
    BY <1>1, Zenon DEF CutEdge
  <2>2. \A u : ~Has(edges, l, f, u)
    BY <1>1, Zenon DEF Has, At
  <2> QED BY <2>1, <2>2, Zenon DEF Cuts
<1>2. CASE ~(l \notin DOMAIN edges \/ f \notin DOMAIN At(edges, l, None))
  <2>1. l \in DOMAIN edges /\ f \in DOMAIN edges[l]
    BY <1>2, Zenon DEF At
  <2>2. PICK to : to = Drop(Targets(edges, l, f), t)
    BY Zenon
  <2> PICK adj : adj = edges[l]
    BY Zenon
  <2>3. PICK from : from = IF to = None THEN Drop(adj, f) ELSE Put(adj, f, to)
    BY Zenon
  <2>4. new = IF from = None THEN Drop(edges, l) ELSE Put(edges, l, from)
    BY <1>2, <2>2, <2>3, Zenon DEF CutEdge
  <2>5. /\ \A u : u \in DOMAIN to <=> Has(edges, l, f, u) /\ u # t
        /\ \A u : u \in DOMAIN to => to[u] = edges[l][f][u]
    BY <2>2, TargetsAre DEF Drop
  <2>6. Shrunk(adj, f, to, from)
    BY <2>3, ShrunkIs, Zenon
  <2>7. Shrunk(edges, l, from, new)
    BY <2>4, ShrunkIs, Zenon
  <2>8. ASSUME NEW k, NEW g, NEW u
        PROVE  /\ Has(new, k, g, u) <=> Has(edges, k, g, u) /\ ~(k = l /\ g = f /\ u = t)
               /\ Has(new, k, g, u) => new[k][g][u] = edges[k][g][u]
    <3>1. CASE k # l
      BY <2>7, <3>1, Zenon DEF Has, Shrunk
    <3>2. CASE k = l /\ g # f
      <4>1. Has(new, k, g, u) <=> g \in DOMAIN adj /\ u \in DOMAIN adj[g]
        BY <2>6, <2>7, <3>2, Zenon DEF Has, Shrunk
      <4>2. Has(new, k, g, u) => new[k][g][u] = edges[k][g][u]
        BY <2>6, <2>7, <3>2, <4>1, Zenon DEF Shrunk
      <4> QED BY <2>1, <3>2, <4>1, <4>2, Zenon DEF Has, Shrunk
    <3>3. CASE k = l /\ g = f
      <4>1. Has(new, k, g, u) <=> u \in DOMAIN to
        BY <2>6, <2>7, <3>3, Zenon DEF Has, Shrunk
      <4>2. Has(new, k, g, u) => new[k][g][u] = edges[k][g][u]
        BY <2>5, <2>6, <2>7, <3>3, <4>1, Zenon DEF Has, Shrunk
      <4> QED BY <2>5, <3>3, <4>1, <4>2, Zenon
    <3> QED BY <3>1, <3>2, <3>3
  <2>9. DOMAIN new \subseteq DOMAIN edges /\ IsMap(new)
    BY <2>1, <2>7, Zenon DEF Shrunk
  <2>10. \A k, g, u : Has(new, k, g, u) <=> Has(edges, k, g, u) /\ ~(k = l /\ g = f /\ u = t)
    BY <2>8
  <2>11. \A k, g, u : Has(new, k, g, u) => new[k][g][u] = edges[k][g][u]
    BY <2>8
  <2> QED BY <2>9, <2>10, <2>11, Zenon DEF Cuts
<1> QED BY <1>1, <1>2

-----------------------------------------------------------------------------
(* What a graph is *)

\* A vertex with an id field has the id it is stored under.
Carries(id, v) == "id" \in DOMAIN v => v["id"] = id

\* Vertex maps: one for each declared label, over the ids.
VertexMaps(vs) ==
  /\ IsMap(vs) /\ DOMAIN vs = VLabels
  /\ \A l \in VLabels : DOMAIN vs[l] \subseteq IDs /\ \A id \in DOMAIN vs[l] : Carries(id, vs[l][id])

\* The edges as triples.
Arcs(edges) == {a \in AllLabels \X IDs \X IDs : Has(edges, a[1], a[2], a[3])}

\* Edge maps: of known labels, between declared ends, finitely many edges.
EdgeMaps(edges) ==
  /\ IsMap(edges) /\ DOMAIN edges \subseteq AllLabels
  /\ \A l, f, t : Has(edges, l, f, t) => <<f, t>> \in Ends
  /\ IsFiniteSet(Arcs(edges))

\* A graph as a process holds it.
Graph(st) ==
  /\ st = [vertices |-> st.vertices, edges |-> st.edges, loads |-> TRUE]
  /\ VertexMaps(st.vertices) /\ EdgeMaps(st.edges)

\* The ends of an edge are ids.
LEMMA EndsAreIds == ASSUME NEW f, NEW t, <<f, t>> \in Ends PROVE f \in IDs /\ t \in IDs
BY GraphAssumption, SMT DEF GraphAssumption

\* A vertex written under the id it carries keeps the maps well formed.
LEMMA PutVertexMaps ==
  ASSUME NEW vs, VertexMaps(vs), NEW l \in VLabels, NEW id \in IDs, NEW v, Carries(id, v)
  PROVE  VertexMaps(Put(vs, l, Put(vs[l], id, v)))
<1> DEFINE data == Put(vs[l], id, v)
           new == Put(vs, l, data)
<1>1. DOMAIN data = DOMAIN vs[l] \cup {id} /\ data[id] = v /\ \A x \in DOMAIN vs[l] : x # id => data[x] = vs[l][x]
  BY Zenon DEF Put
<1> HIDE DEF data
<1>2. /\ DOMAIN new = DOMAIN vs \cup {l} /\ new[l] = data /\ \A k \in DOMAIN vs : k # l => new[k] = vs[k]
      /\ IsMap(new)
  BY Zenon DEF Put, IsMap
<1> HIDE DEF new
<1>3. ASSUME NEW k \in VLabels PROVE DOMAIN new[k] \subseteq IDs /\ \A x \in DOMAIN new[k] : Carries(x, new[k][x])
  <2>1. CASE k # l
    BY <1>2, <2>1, Zenon DEF VertexMaps
  <2>2. CASE k = l
    <3>1. DOMAIN vs[l] \subseteq IDs /\ \A x \in DOMAIN vs[l] : Carries(x, vs[l][x])
      BY Zenon DEF VertexMaps
    <3> QED BY <1>1, <1>2, <2>2, <3>1, Zenon
  <2> QED BY <2>1, <2>2
<1>4. DOMAIN new = VLabels
  BY <1>2, Zenon DEF VertexMaps
<1>5. VertexMaps(new)
  BY <1>2, <1>3, <1>4, Zenon DEF VertexMaps
<1> QED BY <1>5 DEF new, data

\* A vertex dropped keeps the maps well formed.
LEMMA DropVertexMaps ==
  ASSUME NEW vs, VertexMaps(vs), NEW l \in VLabels, NEW id
  PROVE  VertexMaps(Put(vs, l, Drop(vs[l], id)))
<1> DEFINE data == Drop(vs[l], id)
           new == Put(vs, l, data)
<1>1. DOMAIN data = DOMAIN vs[l] \ {id} /\ \A x \in DOMAIN vs[l] \ {id} : data[x] = vs[l][x]
  BY Zenon DEF Drop
<1> HIDE DEF data
<1>2. /\ DOMAIN new = DOMAIN vs \cup {l} /\ new[l] = data /\ \A k \in DOMAIN vs : k # l => new[k] = vs[k]
      /\ IsMap(new)
  BY Zenon DEF Put, IsMap
<1> HIDE DEF new
<1>3. ASSUME NEW k \in VLabels PROVE DOMAIN new[k] \subseteq IDs /\ \A x \in DOMAIN new[k] : Carries(x, new[k][x])
  <2>1. CASE k # l
    BY <1>2, <2>1, Zenon DEF VertexMaps
  <2>2. CASE k = l
    <3>1. DOMAIN vs[l] \subseteq IDs /\ \A x \in DOMAIN vs[l] : Carries(x, vs[l][x])
      BY Zenon DEF VertexMaps
    <3> QED BY <1>1, <1>2, <2>2, <3>1, Zenon
  <2> QED BY <2>1, <2>2
<1>4. DOMAIN new = VLabels
  BY <1>2, Zenon DEF VertexMaps
<1>5. VertexMaps(new)
  BY <1>2, <1>3, <1>4, Zenon DEF VertexMaps
<1> QED BY <1>5 DEF new, data

\* Maps with fewer edges are well formed.
LEMMA FewerArcs ==
  ASSUME NEW edges, EdgeMaps(edges), NEW new, IsMap(new), DOMAIN new \subseteq DOMAIN edges,
         \A l, f, t : Has(new, l, f, t) => Has(edges, l, f, t)
  PROVE  EdgeMaps(new)
<1>1. Arcs(new) \subseteq Arcs(edges)
  BY Zenon DEF Arcs
<1>2. IsFiniteSet(Arcs(new))
  BY <1>1, FS_Subset, Zenon DEF EdgeMaps
<1> QED BY <1>2, Zenon DEF EdgeMaps

\* An edge cut keeps the maps well formed.
LEMMA CutEdgeMaps ==
  ASSUME NEW edges, EdgeMaps(edges), NEW l, NEW f, NEW t
  PROVE  EdgeMaps(CutEdge(edges, l, f, t))
<1> DEFINE new == CutEdge(edges, l, f, t)
<1>1. IsMap(edges) /\ new = CutEdge(edges, l, f, t)
  BY Zenon DEF EdgeMaps
<1> HIDE DEF new
<1>2. DOMAIN new \subseteq DOMAIN edges /\ IsMap(new) /\ \A k, g, u : Has(new, k, g, u) => Has(edges, k, g, u)
  <2>1. Cuts(edges, l, f, t, new)
    BY <1>1, CutCuts, Zenon
  <2> QED BY <2>1, Zenon DEF Cuts
<1>3. EdgeMaps(new)
  BY <1>2, FewerArcs, Zenon
<1> QED BY <1>1, <1>3, Zenon

\* An edge between declared ends keeps the maps well formed.
LEMMA PutEdgeMaps ==
  ASSUME NEW edges, EdgeMaps(edges), NEW l \in AllLabels, NEW f, NEW t, <<f, t>> \in Ends, NEW p
  PROVE  EdgeMaps(PutEdge(edges, l, f, t, p))
<1> DEFINE new == PutEdge(edges, l, f, t, p)
<1>1. new = PutEdge(edges, l, f, t, p)
  OBVIOUS
<1> HIDE DEF new
<1>2. /\ DOMAIN new = DOMAIN edges \cup {l} /\ IsMap(new)
      /\ \A k, g, u : Has(new, k, g, u) => Has(edges, k, g, u) \/ (k = l /\ g = f /\ u = t)
  <2>1. Adds(edges, l, f, t, p, new)
    BY <1>1, PutAdds, Zenon
  <2> QED BY <2>1, Zenon DEF Adds
<1>3. Arcs(new) \subseteq Arcs(edges) \cup {<<l, f, t>>}
  <2>1. ASSUME NEW a \in Arcs(new) PROVE a \in Arcs(edges) \cup {<<l, f, t>>}
    <3>1. a \in AllLabels \X IDs \X IDs /\ Has(new, a[1], a[2], a[3]) /\ a = <<a[1], a[2], a[3]>>
      BY SMT DEF Arcs
    <3>2. Has(edges, a[1], a[2], a[3]) \/ (a[1] = l /\ a[2] = f /\ a[3] = t)
      BY <1>2, <3>1
    <3>3. CASE Has(edges, a[1], a[2], a[3])
      BY <3>1, <3>3, Zenon DEF Arcs
    <3>4. CASE a[1] = l /\ a[2] = f /\ a[3] = t
      BY <3>1, <3>4, Zenon
    <3> QED BY <3>2, <3>3, <3>4
  <2> QED BY <2>1
<1>4. IsFiniteSet(Arcs(new))
  <2> DEFINE A == Arcs(edges)
             B == A \cup {<<l, f, t>>}
  <2>1. IsFiniteSet(A)
    BY Zenon DEF EdgeMaps
  <2> HIDE DEF A
  <2>2. IsFiniteSet(B)
    BY <2>1, FS_AddElement, Zenon
  <2>3. Arcs(new) \in SUBSET B
    BY <1>3 DEF A
  <2> HIDE DEF B
  <2> QED BY <2>2, <2>3, FS_Subset, Zenon
<1>5. DOMAIN new \subseteq AllLabels /\ \A k, g, u : Has(new, k, g, u) => <<g, u>> \in Ends
  <2>1. ASSUME NEW k, NEW g, NEW u, Has(new, k, g, u) PROVE <<g, u>> \in Ends
    <3>1. CASE Has(edges, k, g, u)
      BY <3>1, Zenon DEF EdgeMaps
    <3>2. CASE g = f /\ u = t
      BY <3>2
    <3> QED BY <1>2, <2>1, <3>1, <3>2
  <2> QED BY <1>2, <2>1, Zenon DEF EdgeMaps
<1>6. EdgeMaps(new)
  BY <1>2, <1>4, <1>5, Zenon DEF EdgeMaps
<1> QED BY <1>1, <1>6, Zenon

\* A merge keeps the id that both sides agree on.
LEMMA MergeCarries ==
  ASSUME NEW id, NEW old, old # NoProps => Carries(id, old), NEW o, ValidId(id, o, FALSE)
  PROVE  Carries(id, JSONMerge(old, o))
<1> DEFINE base == IF old = NoProps THEN None ELSE old
           m == JSONMerge(old, o)
<1>1. Carries(id, base)
  BY Zenon DEF Carries, None
<1>2. m = [k \in DOMAIN base \cup DOMAIN o |-> At(o, k, At(base, k, k))]
  BY Zenon DEF JSONMerge
<1>3. "id" \in DOMAIN o => o["id"] = id
  BY Zenon DEF ValidId
<1> HIDE DEF base, m
<1>4. Carries(id, m)
  BY <1>1, <1>2, <1>3 DEF Carries, At
<1> QED BY <1>4 DEF m

-----------------------------------------------------------------------------
(* One record *)

\* What the records of the writes and of the poller give: ids and declared ends.
GoodRecord(r) ==
  /\ r.op \in {"set_vertex", "patch_vertex"} => r.id \in IDs
  /\ r.op \in {"add_edge", "set_edge", "patch_edge"} => r.label \in AllLabels /\ <<r.from, r.to>> \in Ends

\* A graph with both its maps replaced.
LEMMA BothFields ==
  ASSUME NEW x, NEW y, NEW vs, NEW es, NEW loads, NEW st, st = [vertices |-> x, edges |-> y, loads |-> loads],
         NEW s, s = [st EXCEPT !.vertices = vs, !.edges = es]
  PROVE  s = [vertices |-> vs, edges |-> es, loads |-> loads]
<1>2. PICK t : t = [vertices |-> vs, edges |-> es, loads |-> loads]
  BY Zenon
<1>3. DOMAIN s = {"vertices", "edges", "loads"} /\ DOMAIN t = {"vertices", "edges", "loads"}
  BY <1>2
<1>4. s["vertices"] = t["vertices"] /\ s["edges"] = t["edges"] /\ s["loads"] = t["loads"]
  BY <1>2
<1>5. s = [k \in DOMAIN s |-> s[k]]
  OBVIOUS
<1>6. t = [k \in DOMAIN t |-> t[k]]
  BY <1>2
<1>7. s = t
  <2>1. \A k \in {"vertices", "edges", "loads"} : s[k] = t[k]
    BY <1>4
  <2> QED BY <1>3, <2>1, <1>5, <1>6, Zenon
<1> QED BY <1>2, <1>7, Zenon

\* What a record that is not rejected leaves.
LEMMA ApplyIs ==
  ASSUME NEW st, Graph(st), NEW r, ~Rejected(st, r)
  PROVE  ApplyToGraphDB(st, r) = [vertices |-> VerticesAfter(st, r), edges |-> EdgesAfter(st, r), loads |-> TRUE]
<1> DEFINE vs == VerticesAfter(st, r)
           es == EdgesAfter(st, r)
<1> PICK s : s = ApplyToGraphDB(st, r)
  BY Zenon
<1>1. s = [st EXCEPT !.vertices = vs, !.edges = es]
  BY Zenon DEF ApplyToGraphDB
<1> HIDE DEF vs, es
<1>2. PICK x, y : st = [vertices |-> x, edges |-> y, loads |-> TRUE]
  BY Zenon DEF Graph
<1>3. s = [vertices |-> vs, edges |-> es, loads |-> TRUE]
  BY <1>1, <1>2, BothFields
<1> QED BY <1>3, Zenon DEF vs, es

\* Well-formed maps make a graph.
LEMMA MakeGraph ==
  ASSUME NEW vs, VertexMaps(vs), NEW es, EdgeMaps(es)
  PROVE  Graph([vertices |-> vs, edges |-> es, loads |-> TRUE])
BY Zenon DEF Graph

\* The vertices after a record are those before, or one label's map is replaced.
LEMMA VerticesAfterIs ==
  ASSUME NEW st, NEW r
  PROVE  LET data == st.vertices[r.label]
         IN  /\ r.op = "set_vertex" => VerticesAfter(st, r) = Put(st.vertices, r.label, Put(data, r.id, r.value))
             /\ r.op = "patch_vertex" => VerticesAfter(st, r) =
                  Put(st.vertices, r.label, Put(data, r.id, JSONMerge(At(data, r.id, NoProps), r.value)))
             /\ r.op = "delete_vertex" => VerticesAfter(st, r) = Put(st.vertices, r.label, Drop(data, r.id))
             /\ r.op \notin {"set_vertex", "patch_vertex", "delete_vertex"} => VerticesAfter(st, r) = st.vertices
<1> DEFINE data == st.vertices[r.label]
           a == Put(st.vertices, r.label, Put(data, r.id, r.value))
           b == Put(st.vertices, r.label, Put(data, r.id, JSONMerge(At(data, r.id, NoProps), r.value)))
           c == Put(st.vertices, r.label, Drop(data, r.id))
           d == st.vertices
<1>1. VerticesAfter(st, r) =
        CASE r.op = "set_vertex" -> a [] r.op = "patch_vertex" -> b [] r.op = "delete_vertex" -> c [] OTHER -> d
  BY Zenon DEF VerticesAfter
<1>2. PICK op : op = r.op
  BY Zenon
<1> HIDE DEF a, b, c, d
<1>3. /\ op = "set_vertex" => VerticesAfter(st, r) = a
      /\ op = "patch_vertex" => VerticesAfter(st, r) = b
      /\ op = "delete_vertex" => VerticesAfter(st, r) = c
      /\ op \notin {"set_vertex", "patch_vertex", "delete_vertex"} => VerticesAfter(st, r) = d
  BY <1>1, <1>2
<1> QED BY <1>2, <1>3 DEF a, b, c, d

\* The edges after a record, operation by operation.
LEMMA EdgesAfterIs ==
  ASSUME NEW st, NEW r
  PROVE  LET es == st.edges
         IN  /\ r.op \in {"add_edge", "set_edge"} => EdgesAfter(st, r) = PutEdge(es, r.label, r.from, r.to, r.value)
             /\ r.op = "patch_edge" => EdgesAfter(st, r) =
                  PutEdge(es, r.label, r.from, r.to, JSONMerge(GetEdge(es, r.label, r.from, r.to), r.value))
             /\ r.op \in {"remove_edge", "delete_edge"} => EdgesAfter(st, r) = CutEdge(es, r.label, r.from, r.to)
             /\ r.op \notin {"add_edge", "set_edge", "patch_edge", "remove_edge", "delete_edge"} => EdgesAfter(st, r) = es
<1> DEFINE a == PutEdge(st.edges, r.label, r.from, r.to, r.value)
           b == PutEdge(st.edges, r.label, r.from, r.to, JSONMerge(GetEdge(st.edges, r.label, r.from, r.to), r.value))
           c == CutEdge(st.edges, r.label, r.from, r.to)
           d == st.edges
<1>1. EdgesAfter(st, r) =
        CASE r.op \in {"add_edge", "set_edge"} -> a [] r.op = "patch_edge" -> b
          [] r.op \in {"remove_edge", "delete_edge"} -> c [] OTHER -> d
  BY Zenon DEF EdgesAfter
<1>2. PICK op : op = r.op
  BY Zenon
<1> HIDE DEF a, b, c, d
<1>3. /\ op \in {"add_edge", "set_edge"} => EdgesAfter(st, r) = a
      /\ op = "patch_edge" => EdgesAfter(st, r) = b
      /\ op \in {"remove_edge", "delete_edge"} => EdgesAfter(st, r) = c
      /\ op \notin {"add_edge", "set_edge", "patch_edge", "remove_edge", "delete_edge"} => EdgesAfter(st, r) = d
  BY <1>1, <1>2
<1> QED BY <1>2, <1>3 DEF a, b, c, d

\* A record keeps a graph a graph: replay rejects the vertex records that carry
\* another id (ErrVertexIDMismatch).
LEMMA ApplyGraph ==
  ASSUME NEW st, Graph(st), NEW r, GoodRecord(r)
  PROVE  Graph(ApplyToGraphDB(st, r))
<1>1. CASE Rejected(st, r)
  BY <1>1, Zenon DEF ApplyToGraphDB
<1>2. CASE ~Rejected(st, r)
  <2>1. VertexMaps(st.vertices) /\ EdgeMaps(st.edges)
    BY Zenon DEF Graph
  <2>2. VertexMaps(VerticesAfter(st, r))
    <3> PICK vs : vs = st.vertices
      BY Zenon
    <3>1. DOMAIN vs = VLabels
      BY <2>1, Zenon DEF VertexMaps
    <3>2. CASE r.op = "set_vertex"
      <4>1. r.label \in VLabels /\ ValidId(r.id, r.value, TRUE) /\ r.id \in IDs
        BY <1>2, <3>1, <3>2 DEF Rejected, GoodRecord
      <4>2. Carries(r.id, r.value)
        BY <4>1, Zenon DEF ValidId, Carries
      <4>3. VertexMaps(Put(vs, r.label, Put(vs[r.label], r.id, r.value)))
        BY <2>1, <4>1, <4>2, PutVertexMaps, Zenon
      <4> QED BY <3>2, <4>3, VerticesAfterIs, Zenon
    <3>3. CASE r.op = "patch_vertex"
      <4> DEFINE v == JSONMerge(At(vs[r.label], r.id, NoProps), r.value)
      <4>1. r.label \in VLabels /\ ValidId(r.id, r.value, FALSE) /\ r.id \in IDs
        BY <1>2, <3>1, <3>3 DEF Rejected, GoodRecord
      <4>2. Carries(r.id, v)
        <5>1. PICK old : old = At(vs[r.label], r.id, NoProps)
          BY Zenon
        <5>2. old # NoProps => Carries(r.id, old)
          BY <2>1, <4>1, <5>1, Zenon DEF At, VertexMaps
        <5> QED BY <4>1, <5>1, <5>2, MergeCarries, Zenon
      <4>3. VertexMaps(Put(vs, r.label, Put(vs[r.label], r.id, v)))
        <5> HIDE DEF v
        <5> QED BY <2>1, <4>1, <4>2, PutVertexMaps, Zenon
      <4> QED BY <3>3, <4>3, VerticesAfterIs, Zenon
    <3>4. CASE r.op = "delete_vertex"
      <4>1. r.label \in VLabels
        BY <1>2, <3>1, <3>4 DEF Rejected
      <4>3. VertexMaps(Put(vs, r.label, Drop(vs[r.label], r.id)))
        BY <2>1, <4>1, DropVertexMaps, Zenon
      <4> QED BY <3>4, <4>3, VerticesAfterIs, Zenon
    <3>5. CASE r.op \notin {"set_vertex", "patch_vertex", "delete_vertex"}
      BY <2>1, <3>5, VerticesAfterIs, Zenon
    <3> QED BY <3>2, <3>3, <3>4, <3>5, Zenon
  <2>3. EdgeMaps(EdgesAfter(st, r))
    <3>1. CASE r.op \in {"add_edge", "set_edge", "patch_edge"}
      <4>1. r.label \in AllLabels /\ <<r.from, r.to>> \in Ends
        BY <3>1 DEF GoodRecord
      <4>2. ASSUME NEW p PROVE EdgeMaps(PutEdge(st.edges, r.label, r.from, r.to, p))
        BY <2>1, <4>1, PutEdgeMaps, Zenon
      <4>3. CASE r.op \in {"add_edge", "set_edge"}
        BY <4>2, <4>3, EdgesAfterIs, Zenon
      <4>4. CASE r.op = "patch_edge"
        BY <4>2, <4>4, EdgesAfterIs, Zenon
      <4> QED BY <3>1, <4>3, <4>4, Zenon
    <3>2. CASE r.op \in {"remove_edge", "delete_edge"}
      <4>1. EdgeMaps(CutEdge(st.edges, r.label, r.from, r.to))
        BY <2>1, CutEdgeMaps, Zenon
      <4> QED BY <3>2, <4>1, EdgesAfterIs, Zenon
    <3>3. CASE r.op \notin {"add_edge", "set_edge", "patch_edge", "remove_edge", "delete_edge"}
      BY <2>1, <3>3, EdgesAfterIs, Zenon
    <3> QED BY <3>1, <3>2, <3>3, Zenon
  <2> QED BY <1>2, <2>2, <2>3, ApplyIs, MakeGraph, Zenon
<1> QED BY <1>1, <1>2

-----------------------------------------------------------------------------
(* Replay *)

\* The states after each of the records.
Replays(f, st, records) == f[0] = st /\ \A k \in 1..Len(records) : f[k] = ApplyToGraphDB(f[k - 1], records[k])

\* A replay is a chain of graphs, one record after the other.
LEMMA ReplaySteps ==
  ASSUME NEW st, st.loads = TRUE, NEW records, Len(records) \in Nat
  PROVE  \E f : Replays(f, st, records) /\ Replay(st, records) = f[Len(records)]
<1> DEFINE n == Len(records)
           Up(f, m) == f = [k \in 0..m |-> IF k = 0 THEN st ELSE ApplyToGraphDB(f[k - 1], records[k])]
           T == {m \in Nat : \E f : Up(f, m)}
<1>1. 0 \in T
  <2> DEFINE f == [k \in 0..0 |-> st]
  <2>1. Up(f, 0)
    <3>1. \A k \in 0..0 : k = 0
      OBVIOUS
    <3> QED BY <3>1, Zenon
  <2> HIDE DEF f
  <2> QED BY <2>1, Zenon
<1>2. ASSUME NEW m \in Nat, m \in T PROVE m + 1 \in T
  <2>1. PICK f : Up(f, m)
    BY <1>2, Zenon
  <2> DEFINE g == [k \in 0..(m + 1) |-> IF k \in 0..m THEN f[k] ELSE ApplyToGraphDB(f[m], records[m + 1])]
  <2>2. \A k \in 0..(m + 1) : /\ k = 0 => k \in 0..m
                              /\ k # 0 /\ k \in 0..m => k - 1 \in 0..m /\ k - 1 \in 0..(m + 1)
                              /\ k \notin 0..m => k = m + 1 /\ k # 0 /\ k - 1 = m /\ m \in 0..m /\ m \in 0..(m + 1)
    OBVIOUS
  <2>3. ASSUME NEW k \in 0..(m + 1) PROVE g[k] = IF k = 0 THEN st ELSE ApplyToGraphDB(g[k - 1], records[k])
    <3>1. CASE k = 0
      <4>1. g[k] = f[k] /\ k \in 0..m
        BY <2>2, <3>1, Zenon
      <4>2. f[k] = st
        BY <2>1, <3>1, <4>1, Zenon
      <4> QED BY <3>1, <4>1, <4>2, Zenon
    <3>2. CASE k # 0 /\ k \in 0..m
      <4>1. g[k] = f[k] /\ g[k - 1] = f[k - 1]
        BY <2>2, <3>2, Zenon
      <4>2. f[k] = ApplyToGraphDB(f[k - 1], records[k])
        BY <2>1, <3>2, Zenon
      <4> QED BY <3>2, <4>1, <4>2, Zenon
    <3>3. CASE k \notin 0..m
      <4>1. k = m + 1 /\ k # 0 /\ k - 1 = m /\ m \in 0..m /\ m \in 0..(m + 1)
        BY <2>2, <3>3, Zenon
      <4>2. g[k] = ApplyToGraphDB(f[m], records[m + 1]) /\ g[m] = f[m]
        BY <3>3, <4>1, Zenon
      <4> QED BY <4>1, <4>2, Zenon
    <3> QED BY <2>2, <3>1, <3>2, <3>3
  <2>4. Up(g, m + 1)
    <3>1. g = [k \in 0..(m + 1) |-> g[k]]
      BY Zenon
    <3> HIDE DEF g
    <3> QED BY <2>3, <3>1, Zenon
  <2> HIDE DEF g, Up
  <2> QED BY <2>4
<1>3. Nat \subseteq T
  <2> HIDE DEF T
  <2> QED BY <1>1, <1>2, SetInduction
<1> DEFINE f == CHOOSE g : Up(g, n)
<1>4. Up(f, n)
  <2>1. \E g : Up(g, n)
    BY <1>3
  <2> QED BY <2>1, Zenon
<1>5. Replay(st, records) = f[n]
  BY Zenon DEF Replay
<1> HIDE DEF f
<1>6. Replays(f, st, records)
  <2>1. 0 \in 0..n /\ \A k \in 1..n : k \in 0..n /\ k # 0
    <3> HIDE DEF n
    <3> QED BY DEF n
  <2> QED BY <1>4, <2>1, Zenon DEF Replays
<1> QED BY <1>5, <1>6, Zenon

\* Replay keeps a graph a graph.
LEMMA ReplayGraph ==
  ASSUME NEW st, Graph(st), NEW records, Len(records) \in Nat, \A k \in 1..Len(records) : GoodRecord(records[k])
  PROVE  Graph(Replay(st, records))
<1> DEFINE n == Len(records)
<1>1. st.loads = TRUE
  BY SMT DEF Graph
<1>2. PICK f : Replays(f, st, records) /\ Replay(st, records) = f[n]
  BY <1>1, ReplaySteps, Zenon
<1> DEFINE T == {m \in Nat : m <= n => Graph(f[m])}
<1>3. 0 \in T
  BY <1>2 DEF Replays
<1>4. ASSUME NEW m \in Nat, m \in T PROVE m + 1 \in T
  <2>1. CASE m + 1 <= n
    <3>1. m <= n /\ m + 1 \in 1..n /\ (m + 1) - 1 = m
      <4> HIDE DEF n
      <4> QED BY <2>1 DEF n
    <3>2. Graph(f[m])
      BY <1>4, <3>1, Zenon
    <3>3. f[m + 1] = ApplyToGraphDB(f[m], records[m + 1])
      BY <1>2, <3>1, Zenon DEF Replays
    <3>4. Graph(f[m + 1])
      BY <3>1, <3>2, <3>3, ApplyGraph, Zenon
    <3> QED BY <3>4
  <2>2. CASE ~(m + 1 <= n)
    BY <2>2
  <2> QED BY <2>1, <2>2
<1>5. Nat \subseteq T
  <2> HIDE DEF T
  <2> QED BY <1>3, <1>4, SetInduction
<1>6. Graph(f[n])
  <2>1. n \in Nat /\ n <= n
    OBVIOUS
  <2> QED BY <1>5, <2>1, Zenon
<1> QED BY <1>2, <1>6, Zenon

\* The replay of a single record.
LEMMA ReplayOne ==
  ASSUME NEW st, st.loads = TRUE, NEW r
  PROVE  Replay(st, <<r>>) = ApplyToGraphDB(st, r)
<1>1. Len(<<r>>) = 1 /\ <<r>>[1] = r /\ 1 \in 1..1 /\ 1 - 1 = 0 /\ 1 \in Nat
  OBVIOUS
<1> DEFINE rs == <<r>>
<1>2. Len(rs) = 1 /\ rs[1] = r
  BY <1>1
<1> HIDE DEF rs
<1>3. PICK f : Replays(f, st, rs) /\ Replay(st, rs) = f[Len(rs)]
  BY <1>1, <1>2, ReplaySteps, Zenon
<1>4. f[0] = st /\ f[1] = ApplyToGraphDB(f[1 - 1], rs[1])
  BY <1>1, <1>2, <1>3, Zenon DEF Replays
<1>5. Replay(st, rs) = ApplyToGraphDB(st, r)
  BY <1>1, <1>2, <1>3, <1>4, Zenon
<1> QED BY <1>5 DEF rs

-----------------------------------------------------------------------------
(* What a write leaves in memory is what its record gives *)

\* The memory with another vertex map.
LEMMA SetVerticesIs ==
  ASSUME Graph(db), NEW l \in VLabels, NEW data
  PROVE  SetVertices(l, data) = [vertices |-> Put(db.vertices, l, data), edges |-> db.edges, loads |-> TRUE]
<1> PICK vs, es : db = [vertices |-> vs, edges |-> es, loads |-> TRUE]
  BY Zenon DEF Graph
<1>1. db.vertices = vs /\ db.edges = es
  OBVIOUS
<1>2. IsMap(vs) /\ l \in DOMAIN vs
  BY <1>1, Zenon DEF Graph, VertexMaps
<1>3. PICK new : new = [vs EXCEPT ![l] = data]
  BY Zenon
<1>4. new = Put(vs, l, data)
  <2>1. DOMAIN new = DOMAIN vs \cup {l} /\ \A k \in DOMAIN vs : new[k] = IF k = l THEN data ELSE vs[k]
    BY <1>2, <1>3, Zenon DEF IsMap
  <2>2. new = [k \in DOMAIN new |-> new[k]]
    BY <1>2, <1>3, Zenon
  <2> QED BY <1>2, <2>1, <2>2, Zenon DEF Put
<1>5. PICK s : s = SetVertices(l, data)
  BY Zenon
<1>6. s = [db EXCEPT !.vertices = new]
  BY <1>1, <1>3, <1>5 DEF SetVertices
<1>7. DOMAIN s = {"vertices", "edges", "loads"} /\ s["vertices"] = new /\ s["edges"] = es /\ s["loads"] = TRUE
  BY <1>6
<1>8. s = [k \in DOMAIN s |-> s[k]]
  BY <1>6
<1>9. PICK t : t = [vertices |-> new, edges |-> es, loads |-> TRUE]
  BY Zenon
<1>10. DOMAIN t = {"vertices", "edges", "loads"} /\ t["vertices"] = new /\ t["edges"] = es /\ t["loads"] = TRUE
       /\ t = [k \in DOMAIN t |-> t[k]]
  BY <1>9
<1>11. s = t
  <2>1. \A k \in {"vertices", "edges", "loads"} : s[k] = t[k]
    BY <1>7, <1>10
  <2> QED BY <1>7, <1>8, <1>10, <2>1, Zenon
<1> QED BY <1>1, <1>4, <1>5, <1>9, <1>11, Zenon

\* The memory with other edge maps.
LEMMA SetEdgesIs ==
  ASSUME Graph(db), NEW edges
  PROVE  SetEdges(edges) = [vertices |-> db.vertices, edges |-> edges, loads |-> TRUE]
<1> PICK vs, es : db = [vertices |-> vs, edges |-> es, loads |-> TRUE]
  BY Zenon DEF Graph
<1>1. db.vertices = vs
  OBVIOUS
<1>5. PICK s : s = SetEdges(edges)
  BY Zenon
<1>6. s = [db EXCEPT !.edges = edges]
  BY <1>5 DEF SetEdges
<1>7. DOMAIN s = {"vertices", "edges", "loads"} /\ s["vertices"] = vs /\ s["edges"] = edges /\ s["loads"] = TRUE
  BY <1>6
<1>8. s = [k \in DOMAIN s |-> s[k]]
  BY <1>6
<1>9. PICK t : t = [vertices |-> vs, edges |-> edges, loads |-> TRUE]
  BY Zenon
<1>10. DOMAIN t = {"vertices", "edges", "loads"} /\ t["vertices"] = vs /\ t["edges"] = edges /\ t["loads"] = TRUE
       /\ t = [k \in DOMAIN t |-> t[k]]
  BY <1>9
<1>11. s = t
  <2>1. \A k \in {"vertices", "edges", "loads"} : s[k] = t[k]
    BY <1>7, <1>10
  <2> QED BY <1>7, <1>8, <1>10, <2>1, Zenon
<1> QED BY <1>1, <1>5, <1>9, <1>11, Zenon

\* Set leaves what the replay of its record leaves.
LEMMA SetIsReplayed ==
  ASSUME Graph(db), NEW l \in VLabels, NEW id \in IDs, NEW o, ValidId(id, o, TRUE)
  PROVE  LET r == VertexRecord("set_vertex", l, id, o)
         IN  GoodRecord(r) /\ SetVertices(l, Put(db.vertices[l], id, o)) = ApplyToGraphDB(db, r)
<1> DEFINE r == VertexRecord("set_vertex", l, id, o)
<1>1. r.op = "set_vertex" /\ r.label = l /\ r.id = id /\ r.value = o
  BY DEF VertexRecord
<1> HIDE DEF r
<1>2. DOMAIN db.vertices = VLabels
  BY Zenon DEF Graph, VertexMaps
<1>3. ~Rejected(db, r) /\ GoodRecord(r)
  BY <1>1, <1>2 DEF Rejected, GoodRecord
<1>4. VerticesAfter(db, r) = Put(db.vertices, l, Put(db.vertices[l], id, o))
  BY <1>1, VerticesAfterIs, Zenon
<1>5. EdgesAfter(db, r) = db.edges
  <2>1. r.op \notin {"add_edge", "set_edge", "patch_edge", "remove_edge", "delete_edge"}
    BY <1>1
  <2> QED BY <2>1, EdgesAfterIs, Zenon
<1>6. SetVertices(l, Put(db.vertices[l], id, o)) = ApplyToGraphDB(db, r)
  BY <1>3, <1>4, <1>5, ApplyIs, SetVerticesIs, Zenon
<1> QED BY <1>3, <1>6 DEF r

\* Patch leaves what the replay of its record leaves.
LEMMA PatchIsReplayed ==
  ASSUME Graph(db), NEW l \in VLabels, NEW id \in IDs, NEW o, ValidId(id, o, FALSE)
  PROVE  LET r == VertexRecord("patch_vertex", l, id, o)
         IN  /\ GoodRecord(r)
             /\ SetVertices(l, Put(db.vertices[l], id, JSONMerge(At(db.vertices[l], id, NoProps), o))) = ApplyToGraphDB(db, r)
<1> DEFINE r == VertexRecord("patch_vertex", l, id, o)
           data == Put(db.vertices[l], id, JSONMerge(At(db.vertices[l], id, NoProps), o))
<1>1. r.op = "patch_vertex" /\ r.label = l /\ r.id = id /\ r.value = o
  BY DEF VertexRecord
<1> HIDE DEF r
<1>2. DOMAIN db.vertices = VLabels
  BY Zenon DEF Graph, VertexMaps
<1>3. ~Rejected(db, r) /\ GoodRecord(r)
  BY <1>1, <1>2 DEF Rejected, GoodRecord
<1>4. VerticesAfter(db, r) = Put(db.vertices, l, data)
  BY <1>1, VerticesAfterIs, Zenon
<1>5. EdgesAfter(db, r) = db.edges
  <2>1. r.op \notin {"add_edge", "set_edge", "patch_edge", "remove_edge", "delete_edge"}
    BY <1>1
  <2> QED BY <2>1, EdgesAfterIs, Zenon
<1>6. SetVertices(l, data) = ApplyToGraphDB(db, r)
  BY <1>3, <1>4, <1>5, ApplyIs, SetVerticesIs, Zenon
<1> QED BY <1>3, <1>6 DEF r

\* The live edge writes; p is what the record leads to.
LEMMA EdgeWriteIsReplayed ==
  ASSUME Graph(db), NEW l \in AllLabels, NEW f, NEW t, <<f, t>> \in Ends, NEW op, NEW o, NEW p,
         \/ op \in {"add_edge", "set_edge"} /\ p = o
         \/ op = "patch_edge" /\ p = JSONMerge(GetEdge(db.edges, l, f, t), o)
  PROVE  LET r == EdgeRecord(op, l, f, t, o)
         IN  GoodRecord(r) /\ SetEdges(PutEdge(db.edges, l, f, t, p)) = ApplyToGraphDB(db, r)
<1> DEFINE r == EdgeRecord(op, l, f, t, o)
<1>1. r.op = op /\ r.label = l /\ r.from = f /\ r.to = t /\ r.value = o
  BY DEF EdgeRecord
<1> HIDE DEF r
<1>2. op \in {"add_edge", "set_edge", "patch_edge"}
  OBVIOUS
<1>3. ~Rejected(db, r) /\ GoodRecord(r) /\ op \notin {"set_vertex", "patch_vertex", "delete_vertex"}
  BY <1>1, <1>2 DEF Rejected, GoodRecord
<1>4. VerticesAfter(db, r) = db.vertices
  BY <1>1, <1>3, VerticesAfterIs, Zenon
<1>5. EdgesAfter(db, r) = PutEdge(db.edges, l, f, t, p)
  BY <1>1, EdgesAfterIs, Zenon
<1>6. SetEdges(PutEdge(db.edges, l, f, t, p)) = ApplyToGraphDB(db, r)
  BY <1>3, <1>4, <1>5, ApplyIs, SetEdgesIs, Zenon
<1> QED BY <1>3, <1>6 DEF r

\* RemoveEdge leaves what the replay of its record leaves.
LEMMA RemoveIsReplayed ==
  ASSUME Graph(db), NEW l, NEW f, NEW t
  PROVE  LET r == EdgeRecord("remove_edge", l, f, t, NoProps)
         IN  GoodRecord(r) /\ SetEdges(CutEdge(db.edges, l, f, t)) = ApplyToGraphDB(db, r)
<1> DEFINE r == EdgeRecord("remove_edge", l, f, t, NoProps)
<1>1. r.op = "remove_edge" /\ r.label = l /\ r.from = f /\ r.to = t
  BY DEF EdgeRecord
<1> HIDE DEF r
<1>3. /\ ~Rejected(db, r) /\ GoodRecord(r) /\ r.op \notin {"set_vertex", "patch_vertex", "delete_vertex"}
      /\ r.op \in {"remove_edge", "delete_edge"}
  BY <1>1 DEF Rejected, GoodRecord
<1>4. VerticesAfter(db, r) = db.vertices
  BY <1>3, VerticesAfterIs, Zenon
<1>5. EdgesAfter(db, r) = CutEdge(db.edges, l, f, t)
  BY <1>1, <1>3, EdgesAfterIs, Zenon
<1>6. SetEdges(CutEdge(db.edges, l, f, t)) = ApplyToGraphDB(db, r)
  BY <1>3, <1>4, <1>5, ApplyIs, SetEdgesIs, Zenon
<1> QED BY <1>3, <1>6 DEF r

-----------------------------------------------------------------------------
(* The same content, entry by entry *)

\* Equal vertices, entry by entry.
SameVertices(vs, ws) ==
  \A l \in VLabels : DOMAIN vs[l] = DOMAIN ws[l] /\ \A id \in DOMAIN vs[l] : vs[l][id] = ws[l][id]

\* Equal edges, entry by entry.
SameEdges(es, gs) ==
  /\ \A l, f, t : Has(es, l, f, t) <=> Has(gs, l, f, t)
  /\ \A l, f, t : Has(es, l, f, t) => es[l][f][t] = gs[l][f][t]

\* The entries of the vertex content.
LEMMA InVertexContent ==
  ASSUME NEW st, DOMAIN st.vertices = VLabels
  PROVE  /\ \A l, id, v : <<l, id, v>> \in VertexContent(st) <=>
                            l \in VLabels /\ id \in DOMAIN st.vertices[l] /\ v = st.vertices[l][id]
         /\ \A c \in VertexContent(st) : c = <<c[1], c[2], c[3]>>
<1> DEFINE vs == st.vertices
           At1(l) == {<<l, id, vs[l][id]>> : id \in DOMAIN vs[l]}
<1>1. \A c : c \in VertexContent(st) <=> \E l \in VLabels : c \in At1(l)
  BY Zenon DEF VertexContent
<1>2. \A l, c : c \in At1(l) <=> \E id \in DOMAIN vs[l] : c = <<l, id, vs[l][id]>>
  BY Zenon
<1> HIDE DEF At1
<1>3. ASSUME NEW l, NEW id, NEW v
      PROVE  <<l, id, v>> \in VertexContent(st) <=> l \in VLabels /\ id \in DOMAIN vs[l] /\ v = vs[l][id]
  <2>1. ASSUME <<l, id, v>> \in VertexContent(st) PROVE l \in VLabels /\ id \in DOMAIN vs[l] /\ v = vs[l][id]
    <3>1. PICK k \in VLabels : <<l, id, v>> \in At1(k)
      BY <1>1, <2>1, Zenon
    <3>2. PICK x \in DOMAIN vs[k] : <<l, id, v>> = <<k, x, vs[k][x]>>
      BY <1>2, <3>1, Zenon
    <3>3. l = k /\ id = x /\ v = vs[k][x]
      <4>1. PICK w : w = vs[k][x]
        BY Zenon
      <4>2. <<l, id, v>> = <<k, x, w>>
        BY <3>2, <4>1, Zenon
      <4>3. l = k /\ id = x /\ v = w
        BY <4>2
      <4> QED BY <4>1, <4>3, Zenon
    <3> QED BY <3>1, <3>2, <3>3, Zenon
  <2>2. ASSUME l \in VLabels, id \in DOMAIN vs[l], v = vs[l][id] PROVE <<l, id, v>> \in VertexContent(st)
    BY <1>1, <1>2, <2>2, Zenon
  <2> QED BY <2>1, <2>2, Zenon
<1>4. ASSUME NEW c \in VertexContent(st) PROVE c = <<c[1], c[2], c[3]>>
  <2>1. PICK k \in VLabels : c \in At1(k)
    BY <1>1, Zenon
  <2>2. PICK x \in DOMAIN vs[k] : c = <<k, x, vs[k][x]>>
    BY <1>2, <2>1, Zenon
  <2> PICK w : w = vs[k][x]
    BY Zenon
  <2>3. c = <<k, x, w>>
    BY <2>2, Zenon
  <2>4. c[1] = k /\ c[2] = x /\ c[3] = w
    BY <2>3
  <2> QED BY <2>3, <2>4, Zenon
<1> QED BY <1>3, <1>4, Zenon

\* Vertex contents are equal when they are equal entry by entry.
LEMMA SameVerticesIs ==
  ASSUME NEW s, DOMAIN s.vertices = VLabels, NEW t, DOMAIN t.vertices = VLabels
  PROVE  VertexContent(s) = VertexContent(t) <=> SameVertices(s.vertices, t.vertices)
<1> DEFINE vs == s.vertices
           ws == t.vertices
<1>1. /\ \A l, id, v : <<l, id, v>> \in VertexContent(s) <=> l \in VLabels /\ id \in DOMAIN vs[l] /\ v = vs[l][id]
      /\ \A c \in VertexContent(s) : c = <<c[1], c[2], c[3]>>
  BY InVertexContent, Zenon
<1>2. /\ \A l, id, v : <<l, id, v>> \in VertexContent(t) <=> l \in VLabels /\ id \in DOMAIN ws[l] /\ v = ws[l][id]
      /\ \A c \in VertexContent(t) : c = <<c[1], c[2], c[3]>>
  BY InVertexContent, Zenon
<1> HIDE DEF vs, ws
<1>3. ASSUME VertexContent(s) = VertexContent(t) PROVE SameVertices(vs, ws)
  <2>1. ASSUME NEW l \in VLabels, NEW id
        PROVE  (id \in DOMAIN vs[l] <=> id \in DOMAIN ws[l]) /\ (id \in DOMAIN vs[l] => vs[l][id] = ws[l][id])
    <3>1. ASSUME NEW v PROVE (id \in DOMAIN vs[l] /\ v = vs[l][id]) <=> (id \in DOMAIN ws[l] /\ v = ws[l][id])
      <4>1. <<l, id, v>> \in VertexContent(s) <=> id \in DOMAIN vs[l] /\ v = vs[l][id]
        BY <1>1, Zenon
      <4>2. <<l, id, v>> \in VertexContent(t) <=> id \in DOMAIN ws[l] /\ v = ws[l][id]
        BY <1>2, Zenon
      <4> QED BY <1>3, <4>1, <4>2, Zenon
    <3> QED BY <3>1, Zenon
  <2> QED BY <2>1, Zenon DEF SameVertices
<1>4. ASSUME SameVertices(vs, ws) PROVE VertexContent(s) = VertexContent(t)
  <2>1. ASSUME NEW l, NEW id, NEW v PROVE <<l, id, v>> \in VertexContent(s) <=> <<l, id, v>> \in VertexContent(t)
    <3>1. CASE l \in VLabels
      <4>1. DOMAIN vs[l] = DOMAIN ws[l] /\ (id \in DOMAIN vs[l] => vs[l][id] = ws[l][id])
        BY <1>4, <3>1, Zenon DEF SameVertices
      <4>2. <<l, id, v>> \in VertexContent(s) <=> id \in DOMAIN vs[l] /\ v = vs[l][id]
        BY <1>1, <3>1, Zenon
      <4>3. <<l, id, v>> \in VertexContent(t) <=> id \in DOMAIN ws[l] /\ v = ws[l][id]
        BY <1>2, <3>1, Zenon
      <4> QED BY <4>1, <4>2, <4>3, Zenon
    <3>2. CASE l \notin VLabels
      BY <1>1, <1>2, <3>2, Zenon
    <3> QED BY <3>1, <3>2, Zenon
  <2>2. ASSUME NEW c PROVE c \in VertexContent(s) <=> c \in VertexContent(t)
    <3>1. ASSUME c \in VertexContent(s) PROVE c \in VertexContent(t)
      <4>1. c = <<c[1], c[2], c[3]>>
        BY <1>1, <3>1, Zenon
      <4>2. <<c[1], c[2], c[3]>> \in VertexContent(t)
        BY <2>1, <3>1, <4>1, Zenon
      <4> QED BY <4>1, <4>2, Zenon
    <3>2. ASSUME c \in VertexContent(t) PROVE c \in VertexContent(s)
      <4>1. c = <<c[1], c[2], c[3]>>
        BY <1>2, <3>2, Zenon
      <4>2. <<c[1], c[2], c[3]>> \in VertexContent(s)
        BY <2>1, <3>2, <4>1, Zenon
      <4> QED BY <4>1, <4>2, Zenon
    <3> QED BY <3>1, <3>2, Zenon
  <2> QED BY <2>2, Zenon
<1> QED BY <1>3, <1>4, Zenon DEF vs, ws

\* The entries of the edge content.
LEMMA InEdgeContent ==
  ASSUME NEW st, EdgeMaps(st.edges)
  PROVE  /\ \A l, f, t, p : <<l, <<f, t>>, p>> \in EdgeContent(st) <=>
                              Has(st.edges, l, f, t) /\ p = st.edges[l][f][t]
         /\ \A c \in EdgeContent(st) : c = <<c[1], <<c[2][1], c[2][2]>>, c[3]>>
<1> DEFINE es == st.edges
           Entry(l, e) == <<l, e, es[l][e[1]][e[2]]>>
           At1(l) == {Entry(l, e) : e \in EdgeEntries(es[l])}
<1>1. \A c : c \in EdgeContent(st) <=> \E l \in DOMAIN es : c \in At1(l)
  BY Zenon DEF EdgeContent
<1>2. \A l, c : c \in At1(l) <=> \E e \in EdgeEntries(es[l]) : c = Entry(l, e)
  BY Zenon
<1>e. \A l, e : Entry(l, e) = <<l, e, es[l][e[1]][e[2]]>>
  BY Zenon
<1> HIDE DEF At1, Entry
<1>3. ASSUME NEW l \in DOMAIN es, NEW e
      PROVE  e \in EdgeEntries(es[l]) <=> e \in IDs \X IDs /\ Has(es, l, e[1], e[2])
  BY Zenon DEF EdgeEntries, Has, At
<1>4. \A l, f, t : Has(es, l, f, t) => f \in IDs /\ t \in IDs /\ l \in DOMAIN es
  BY EndsAreIds, Zenon DEF EdgeMaps, Has
<1>5. ASSUME NEW l, NEW f, NEW t, NEW p
      PROVE  <<l, <<f, t>>, p>> \in EdgeContent(st) <=> Has(es, l, f, t) /\ p = es[l][f][t]
  <2>1. ASSUME <<l, <<f, t>>, p>> \in EdgeContent(st) PROVE Has(es, l, f, t) /\ p = es[l][f][t]
    <3>1. PICK k \in DOMAIN es : <<l, <<f, t>>, p>> \in At1(k)
      BY <1>1, <2>1, Zenon
    <3>2. PICK e \in EdgeEntries(es[k]) : <<l, <<f, t>>, p>> = Entry(k, e)
      BY <1>2, <3>1, Zenon
    <3>3. PICK w, d : w = es[k][e[1]][e[2]] /\ d = <<f, t>>
      BY Zenon
    <3>4. l = k /\ d = e /\ p = w
      <4>1. <<l, d, p>> = <<k, e, w>>
        BY <1>e, <3>2, <3>3, Zenon
      <4> QED BY <4>1
    <3>5. e[1] = f /\ e[2] = t
      BY <3>3, <3>4
    <3> QED BY <1>3, <3>2, <3>3, <3>4, <3>5, Zenon
  <2>2. ASSUME Has(es, l, f, t), p = es[l][f][t] PROVE <<l, <<f, t>>, p>> \in EdgeContent(st)
    <3> PICK e : e = <<f, t>>
      BY Zenon
    <3>1. e[1] = f /\ e[2] = t /\ e \in IDs \X IDs /\ l \in DOMAIN es
      BY <1>4, <2>2
    <3>2. e \in EdgeEntries(es[l])
      BY <1>3, <2>2, <3>1, Zenon
    <3>3. <<l, e, p>> \in At1(l)
      BY <1>2, <1>e, <2>2, <3>1, <3>2, Zenon
    <3> QED BY <1>1, <3>1, <3>3, Zenon
  <2> QED BY <2>1, <2>2, Zenon
<1>6. ASSUME NEW c \in EdgeContent(st) PROVE c = <<c[1], <<c[2][1], c[2][2]>>, c[3]>>
  <2>1. PICK k \in DOMAIN es : c \in At1(k)
    BY <1>1, Zenon
  <2>2. PICK e \in EdgeEntries(es[k]) : c = Entry(k, e)
    BY <1>2, <2>1, Zenon
  <2>3. PICK w : w = es[k][e[1]][e[2]]
    BY Zenon
  <2>4. c = <<k, e, w>>
    BY <1>e, <2>2, <2>3, Zenon
  <2>5. c[1] = k /\ c[2] = e /\ c[3] = w
    BY <2>4
  <2>6. e \in IDs \X IDs
    BY <1>3, Zenon
  <2>7. e = <<e[1], e[2]>>
    BY <2>6
  <2> QED BY <2>4, <2>5, <2>7, Zenon
<1>7. \A l, f, t, p : <<l, <<f, t>>, p>> \in EdgeContent(st) <=> Has(es, l, f, t) /\ p = es[l][f][t]
  BY <1>5
<1> QED BY <1>6, <1>7, Zenon

\* Edge contents are equal when they are equal edge by edge: maps that are empty
\* are not seen.
LEMMA SameEdgesIs ==
  ASSUME NEW s, EdgeMaps(s.edges), NEW t, EdgeMaps(t.edges)
  PROVE  EdgeContent(s) = EdgeContent(t) <=> SameEdges(s.edges, t.edges)
<1> DEFINE es == s.edges
           gs == t.edges
<1>1. /\ \A l, f, u, p : <<l, <<f, u>>, p>> \in EdgeContent(s) <=> Has(es, l, f, u) /\ p = es[l][f][u]
      /\ \A c \in EdgeContent(s) : c = <<c[1], <<c[2][1], c[2][2]>>, c[3]>>
  BY InEdgeContent, Zenon
<1>2. /\ \A l, f, u, p : <<l, <<f, u>>, p>> \in EdgeContent(t) <=> Has(gs, l, f, u) /\ p = gs[l][f][u]
      /\ \A c \in EdgeContent(t) : c = <<c[1], <<c[2][1], c[2][2]>>, c[3]>>
  BY InEdgeContent, Zenon
<1> HIDE DEF es, gs
<1>3. ASSUME EdgeContent(s) = EdgeContent(t) PROVE SameEdges(es, gs)
  <2>1. ASSUME NEW l, NEW f, NEW u
        PROVE  (Has(es, l, f, u) <=> Has(gs, l, f, u)) /\ (Has(es, l, f, u) => es[l][f][u] = gs[l][f][u])
    <3>1. ASSUME NEW p PROVE Has(es, l, f, u) /\ p = es[l][f][u] <=> Has(gs, l, f, u) /\ p = gs[l][f][u]
      <4>1. <<l, <<f, u>>, p>> \in EdgeContent(s) <=> Has(es, l, f, u) /\ p = es[l][f][u]
        BY <1>1
      <4>2. <<l, <<f, u>>, p>> \in EdgeContent(t) <=> Has(gs, l, f, u) /\ p = gs[l][f][u]
        BY <1>2
      <4> QED BY <1>3, <4>1, <4>2, Zenon
    <3> QED BY <3>1, Zenon
  <2> QED BY <2>1 DEF SameEdges
<1>4. ASSUME SameEdges(es, gs) PROVE EdgeContent(s) = EdgeContent(t)
  <2>1. ASSUME NEW l, NEW f, NEW u, NEW p
        PROVE  <<l, <<f, u>>, p>> \in EdgeContent(s) <=> <<l, <<f, u>>, p>> \in EdgeContent(t)
    <3>1. (Has(es, l, f, u) <=> Has(gs, l, f, u)) /\ (Has(es, l, f, u) => es[l][f][u] = gs[l][f][u])
      BY <1>4 DEF SameEdges
    <3>2. <<l, <<f, u>>, p>> \in EdgeContent(s) <=> Has(es, l, f, u) /\ p = es[l][f][u]
      BY <1>1
    <3>3. <<l, <<f, u>>, p>> \in EdgeContent(t) <=> Has(gs, l, f, u) /\ p = gs[l][f][u]
      BY <1>2
    <3> QED BY <3>1, <3>2, <3>3, Zenon
  <2>2. ASSUME NEW c PROVE c \in EdgeContent(s) <=> c \in EdgeContent(t)
    <3> DEFINE d == <<c[1], <<c[2][1], c[2][2]>>, c[3]>>
    <3>1. d \in EdgeContent(s) <=> d \in EdgeContent(t)
      BY <2>1, Zenon
    <3>2. (c \in EdgeContent(s) => c = d) /\ (c \in EdgeContent(t) => c = d)
      BY <1>1, <1>2, Zenon
    <3> HIDE DEF d
    <3> QED BY <3>1, <3>2, Zenon
  <2> QED BY <2>2, Zenon
<1> QED BY <1>3, <1>4, Zenon DEF es, gs

\* Same, entry by entry.
LEMMA SameIs ==
  ASSUME NEW s, Graph(s), NEW t, Graph(t)
  PROVE  Same(s, t) <=> SameVertices(s.vertices, t.vertices) /\ SameEdges(s.edges, t.edges)
<1>1. /\ DOMAIN s.vertices = VLabels /\ DOMAIN t.vertices = VLabels
      /\ EdgeMaps(s.edges) /\ EdgeMaps(t.edges)
  BY Zenon DEF Graph, VertexMaps
<1>2. VertexContent(s) = VertexContent(t) <=> SameVertices(s.vertices, t.vertices)
  BY <1>1, SameVerticesIs, Zenon
<1>3. EdgeContent(s) = EdgeContent(t) <=> SameEdges(s.edges, t.edges)
  BY <1>1, SameEdgesIs, Zenon
<1> QED BY <1>2, <1>3, Zenon DEF Same

-----------------------------------------------------------------------------
(* One record applied to equal contents *)

\* The same vertex written into equal contents.
LEMMA PutSameVertices ==
  ASSUME NEW vs, VertexMaps(vs), NEW ws, VertexMaps(ws), SameVertices(vs, ws), NEW l \in VLabels, NEW id, NEW v
  PROVE  SameVertices(Put(vs, l, Put(vs[l], id, v)), Put(ws, l, Put(ws[l], id, v)))
<1> DEFINE a == Put(vs[l], id, v)
           b == Put(ws[l], id, v)
           new == Put(vs, l, a)
           other == Put(ws, l, b)
<1>1. DOMAIN a = DOMAIN vs[l] \cup {id} /\ \A x \in DOMAIN vs[l] \cup {id} : a[x] = IF x = id THEN v ELSE vs[l][x]
  BY Zenon DEF Put
<1>2. DOMAIN b = DOMAIN ws[l] \cup {id} /\ \A x \in DOMAIN ws[l] \cup {id} : b[x] = IF x = id THEN v ELSE ws[l][x]
  BY Zenon DEF Put
<1> HIDE DEF a, b
<1>3. \A k \in DOMAIN vs : new[k] = IF k = l THEN a ELSE vs[k]
  BY Zenon DEF Put
<1>4. \A k \in DOMAIN ws : other[k] = IF k = l THEN b ELSE ws[k]
  BY Zenon DEF Put
<1> HIDE DEF new, other
<1>5. DOMAIN vs = VLabels /\ DOMAIN ws = VLabels
  BY Zenon DEF VertexMaps
<1>6. DOMAIN vs[l] = DOMAIN ws[l] /\ \A x \in DOMAIN vs[l] : vs[l][x] = ws[l][x]
  BY Zenon DEF SameVertices
<1>7. ASSUME NEW k \in VLabels PROVE DOMAIN new[k] = DOMAIN other[k] /\ \A x \in DOMAIN new[k] : new[k][x] = other[k][x]
  <2>1. CASE k = l
    <3>1. DOMAIN a = DOMAIN b /\ \A x \in DOMAIN a : a[x] = b[x]
      BY <1>1, <1>2, <1>6, Zenon
    <3>2. new[k] = a /\ other[k] = b
      BY <1>3, <1>4, <1>5, <2>1, Zenon
    <3> QED BY <3>1, <3>2, Zenon
  <2>2. CASE k # l
    BY <1>3, <1>4, <1>5, <2>2, Zenon DEF SameVertices
  <2> QED BY <2>1, <2>2
<1>8. SameVertices(new, other)
  BY <1>7, Zenon DEF SameVertices
<1> QED BY <1>8 DEF new, other, a, b

\* The same vertex dropped from equal contents.
LEMMA DropSameVertices ==
  ASSUME NEW vs, VertexMaps(vs), NEW ws, VertexMaps(ws), SameVertices(vs, ws), NEW l \in VLabels, NEW id
  PROVE  SameVertices(Put(vs, l, Drop(vs[l], id)), Put(ws, l, Drop(ws[l], id)))
<1> DEFINE a == Drop(vs[l], id)
           b == Drop(ws[l], id)
           new == Put(vs, l, a)
           other == Put(ws, l, b)
<1>1. DOMAIN a = DOMAIN vs[l] \ {id} /\ \A x \in DOMAIN vs[l] \ {id} : a[x] = vs[l][x]
  BY Zenon DEF Drop
<1>2. DOMAIN b = DOMAIN ws[l] \ {id} /\ \A x \in DOMAIN ws[l] \ {id} : b[x] = ws[l][x]
  BY Zenon DEF Drop
<1> HIDE DEF a, b
<1>3. \A k \in DOMAIN vs : new[k] = IF k = l THEN a ELSE vs[k]
  BY Zenon DEF Put
<1>4. \A k \in DOMAIN ws : other[k] = IF k = l THEN b ELSE ws[k]
  BY Zenon DEF Put
<1> HIDE DEF new, other
<1>5. DOMAIN vs = VLabels /\ DOMAIN ws = VLabels
  BY Zenon DEF VertexMaps
<1>6. DOMAIN vs[l] = DOMAIN ws[l] /\ \A x \in DOMAIN vs[l] : vs[l][x] = ws[l][x]
  BY Zenon DEF SameVertices
<1>7. ASSUME NEW k \in VLabels PROVE DOMAIN new[k] = DOMAIN other[k] /\ \A x \in DOMAIN new[k] : new[k][x] = other[k][x]
  <2>1. CASE k = l
    <3>1. DOMAIN a = DOMAIN b /\ \A x \in DOMAIN a : a[x] = b[x]
      BY <1>1, <1>2, <1>6, Zenon
    <3>2. new[k] = a /\ other[k] = b
      BY <1>3, <1>4, <1>5, <2>1, Zenon
    <3> QED BY <3>1, <3>2, Zenon
  <2>2. CASE k # l
    BY <1>3, <1>4, <1>5, <2>2, Zenon DEF SameVertices
  <2> QED BY <2>1, <2>2
<1>8. SameVertices(new, other)
  BY <1>7, Zenon DEF SameVertices
<1> QED BY <1>8 DEF new, other, a, b

\* The same edge written into equal contents.
LEMMA PutSameEdges ==
  ASSUME NEW es, NEW gs, SameEdges(es, gs), NEW l, NEW f, NEW t, NEW p
  PROVE  SameEdges(PutEdge(es, l, f, t, p), PutEdge(gs, l, f, t, p))
<1> PICK new : new = PutEdge(es, l, f, t, p)
  BY Zenon
<1> PICK other : other = PutEdge(gs, l, f, t, p)
  BY Zenon
<1>1. Adds(es, l, f, t, p, new) /\ Adds(gs, l, f, t, p, other)
  BY PutAdds, Zenon
<1>2. ASSUME NEW k, NEW g, NEW u
      PROVE  (Has(new, k, g, u) <=> Has(other, k, g, u)) /\ (Has(new, k, g, u) => new[k][g][u] = other[k][g][u])
  <2>1. (Has(es, k, g, u) <=> Has(gs, k, g, u)) /\ (Has(es, k, g, u) => es[k][g][u] = gs[k][g][u])
    BY DEF SameEdges
  <2>2. /\ Has(new, k, g, u) <=> Has(es, k, g, u) \/ (k = l /\ g = f /\ u = t)
        /\ Has(other, k, g, u) <=> Has(gs, k, g, u) \/ (k = l /\ g = f /\ u = t)
    BY <1>1 DEF Adds
  <2>3. CASE k = l /\ g = f /\ u = t
    <3>1. new[l][f][t] = p /\ other[l][f][t] = p
      BY <1>1 DEF Adds
    <3> QED BY <2>2, <2>3, <3>1, Zenon
  <2>4. CASE ~(k = l /\ g = f /\ u = t)
    <3>1. Has(es, k, g, u) => new[k][g][u] = es[k][g][u]
      BY <1>1, <2>4 DEF Adds
    <3>2. Has(gs, k, g, u) => other[k][g][u] = gs[k][g][u]
      BY <1>1, <2>4 DEF Adds
    <3> QED BY <2>1, <2>2, <2>4, <3>1, <3>2, Zenon
  <2> QED BY <2>3, <2>4
<1>3. SameEdges(new, other)
  BY <1>2 DEF SameEdges
<1> QED BY <1>3, Zenon

\* The same edge cut from equal contents.
LEMMA CutSameEdges ==
  ASSUME NEW es, IsMap(es), NEW gs, IsMap(gs), SameEdges(es, gs), NEW l, NEW f, NEW t
  PROVE  SameEdges(CutEdge(es, l, f, t), CutEdge(gs, l, f, t))
<1> PICK new : new = CutEdge(es, l, f, t)
  BY Zenon
<1> PICK other : other = CutEdge(gs, l, f, t)
  BY Zenon
<1>1. Cuts(es, l, f, t, new) /\ Cuts(gs, l, f, t, other)
  BY CutCuts, Zenon
<1>2. ASSUME NEW k, NEW g, NEW u
      PROVE  (Has(new, k, g, u) <=> Has(other, k, g, u)) /\ (Has(new, k, g, u) => new[k][g][u] = other[k][g][u])
  <2>1. (Has(es, k, g, u) <=> Has(gs, k, g, u)) /\ (Has(es, k, g, u) => es[k][g][u] = gs[k][g][u])
    BY DEF SameEdges
  <2>2. /\ Has(new, k, g, u) <=> Has(es, k, g, u) /\ ~(k = l /\ g = f /\ u = t)
        /\ Has(other, k, g, u) <=> Has(gs, k, g, u) /\ ~(k = l /\ g = f /\ u = t)
    BY <1>1 DEF Cuts
  <2>3. Has(new, k, g, u) => new[k][g][u] = es[k][g][u]
    BY <1>1 DEF Cuts
  <2>4. Has(other, k, g, u) => other[k][g][u] = gs[k][g][u]
    BY <1>1 DEF Cuts
  <2> QED BY <2>1, <2>2, <2>3, <2>4, Zenon
<1>3. SameEdges(new, other)
  BY <1>2 DEF SameEdges
<1> QED BY <1>3, Zenon

\* Two graphs with the same content.
Alike(s, t) == SameVertices(s.vertices, t.vertices) /\ SameEdges(s.edges, t.edges)

\* A record leaves equal vertices in equal graphs.
LEMMA ApplySameVertices ==
  ASSUME NEW s, Graph(s), NEW t, Graph(t), Alike(s, t), NEW r, ~Rejected(s, r)
  PROVE  SameVertices(VerticesAfter(s, r), VerticesAfter(t, r))
<1> DEFINE vs == s.vertices
           ws == t.vertices
<1>1. VertexMaps(vs) /\ VertexMaps(ws) /\ SameVertices(vs, ws)
  BY Zenon DEF Graph, Alike
<1>2. r.op \in {"set_vertex", "patch_vertex", "delete_vertex"} => r.label \in VLabels
  BY <1>1, Zenon DEF Rejected, VertexMaps
<1>3. CASE r.op = "set_vertex"
  <2>1. SameVertices(Put(vs, r.label, Put(vs[r.label], r.id, r.value)), Put(ws, r.label, Put(ws[r.label], r.id, r.value)))
    BY <1>1, <1>2, <1>3, PutSameVertices
  <2> QED BY <1>3, <2>1, VerticesAfterIs, Zenon
<1>4. CASE r.op = "patch_vertex"
  <2>0. r.label \in VLabels
    BY <1>2, <1>4
  <2>1. At(vs[r.label], r.id, NoProps) = At(ws[r.label], r.id, NoProps)
    BY <1>1, <2>0, Zenon DEF At, SameVertices
  <2> DEFINE v == JSONMerge(At(vs[r.label], r.id, NoProps), r.value)
  <2>2. v = JSONMerge(At(ws[r.label], r.id, NoProps), r.value)
    BY <2>1, Zenon
  <2>3. VerticesAfter(s, r) = Put(vs, r.label, Put(vs[r.label], r.id, v))
    BY <1>4, VerticesAfterIs, Zenon
  <2>4. VerticesAfter(t, r) = Put(ws, r.label, Put(ws[r.label], r.id, v))
    BY <1>4, <2>2, VerticesAfterIs, Zenon
  <2> HIDE DEF v, vs, ws
  <2>5. SameVertices(Put(vs, r.label, Put(vs[r.label], r.id, v)), Put(ws, r.label, Put(ws[r.label], r.id, v)))
    BY <1>1, <2>0, PutSameVertices, Zenon
  <2> QED BY <2>3, <2>4, <2>5, Zenon
<1>5. CASE r.op = "delete_vertex"
  <2>1. SameVertices(Put(vs, r.label, Drop(vs[r.label], r.id)), Put(ws, r.label, Drop(ws[r.label], r.id)))
    BY <1>1, <1>2, <1>5, DropSameVertices
  <2> QED BY <1>5, <2>1, VerticesAfterIs, Zenon
<1>6. CASE r.op \notin {"set_vertex", "patch_vertex", "delete_vertex"}
  BY <1>1, <1>6, VerticesAfterIs, Zenon
<1> QED BY <1>3, <1>4, <1>5, <1>6, Zenon

\* A record leaves equal edges in equal graphs.
LEMMA ApplySameEdges ==
  ASSUME NEW s, Graph(s), NEW t, Graph(t), Alike(s, t), NEW r
  PROVE  SameEdges(EdgesAfter(s, r), EdgesAfter(t, r))
<1> DEFINE es == s.edges
           gs == t.edges
<1>1. IsMap(es) /\ IsMap(gs) /\ SameEdges(es, gs)
  BY Zenon DEF Graph, EdgeMaps, Alike
<1>2. CASE r.op \in {"add_edge", "set_edge"}
  <2>1. SameEdges(PutEdge(es, r.label, r.from, r.to, r.value), PutEdge(gs, r.label, r.from, r.to, r.value))
    BY <1>1, PutSameEdges, Zenon
  <2> QED BY <1>2, <2>1, EdgesAfterIs, Zenon
<1>3. CASE r.op = "patch_edge"
  <2> DEFINE p == JSONMerge(GetEdge(es, r.label, r.from, r.to), r.value)
  <2>1. GetEdge(es, r.label, r.from, r.to) = GetEdge(gs, r.label, r.from, r.to)
    <3> PICK a, b, c : a = r.label /\ b = r.from /\ c = r.to
      BY Zenon
    <3>1. (Has(es, a, b, c) <=> Has(gs, a, b, c)) /\ (Has(es, a, b, c) => es[a][b][c] = gs[a][b][c])
      BY <1>1 DEF SameEdges
    <3>2. /\ GetEdge(es, a, b, c) = IF Has(es, a, b, c) THEN es[a][b][c] ELSE NoProps
          /\ GetEdge(gs, a, b, c) = IF Has(gs, a, b, c) THEN gs[a][b][c] ELSE NoProps
      BY GetEdgeIs, Zenon
    <3>3. GetEdge(es, a, b, c) = GetEdge(gs, a, b, c)
      BY <3>1, <3>2, Zenon
    <3> QED BY <3>3, Zenon
  <2>2. EdgesAfter(s, r) = PutEdge(es, r.label, r.from, r.to, p)
    BY <1>3, EdgesAfterIs, Zenon
  <2>3. EdgesAfter(t, r) = PutEdge(gs, r.label, r.from, r.to, p)
    BY <1>3, <2>1, EdgesAfterIs, Zenon
  <2> HIDE DEF p, es, gs
  <2>4. SameEdges(PutEdge(es, r.label, r.from, r.to, p), PutEdge(gs, r.label, r.from, r.to, p))
    BY <1>1, PutSameEdges, Zenon
  <2> QED BY <2>2, <2>3, <2>4, Zenon
<1>4. CASE r.op \in {"remove_edge", "delete_edge"}
  <2>1. SameEdges(CutEdge(es, r.label, r.from, r.to), CutEdge(gs, r.label, r.from, r.to))
    BY <1>1, CutSameEdges, Zenon
  <2> QED BY <1>4, <2>1, EdgesAfterIs, Zenon
<1>5. CASE r.op \notin {"add_edge", "set_edge", "patch_edge", "remove_edge", "delete_edge"}
  BY <1>1, <1>5, EdgesAfterIs, Zenon
<1> QED BY <1>2, <1>3, <1>4, <1>5, Zenon

\* A record keeps equal contents equal.
LEMMA ApplyAlike ==
  ASSUME NEW s, Graph(s), NEW t, Graph(t), Alike(s, t), NEW r
  PROVE  Alike(ApplyToGraphDB(s, r), ApplyToGraphDB(t, r))
<1>1. Rejected(s, r) <=> Rejected(t, r)
  <2>1. DOMAIN s.vertices = DOMAIN t.vertices
    BY Zenon DEF Graph, VertexMaps
  <2> QED BY <2>1, Zenon DEF Rejected
<1>2. CASE Rejected(s, r)
  BY <1>1, <1>2, Zenon DEF ApplyToGraphDB
<1>3. CASE ~Rejected(s, r)
  <2> PICK a, b, c, d : a = VerticesAfter(s, r) /\ b = VerticesAfter(t, r) /\ c = EdgesAfter(s, r) /\ d = EdgesAfter(t, r)
    BY Zenon
  <2>1. ApplyToGraphDB(s, r) = [vertices |-> a, edges |-> c, loads |-> TRUE]
    BY <1>3, ApplyIs, Zenon
  <2>2. ApplyToGraphDB(t, r) = [vertices |-> b, edges |-> d, loads |-> TRUE]
    BY <1>1, <1>3, ApplyIs, Zenon
  <2>3. SameVertices(a, b) /\ SameEdges(c, d)
    BY <1>3, ApplySameVertices, ApplySameEdges, Zenon
  <2>4. /\ ApplyToGraphDB(s, r).vertices = a /\ ApplyToGraphDB(s, r).edges = c
        /\ ApplyToGraphDB(t, r).vertices = b /\ ApplyToGraphDB(t, r).edges = d
    BY <2>1, <2>2
  <2> QED BY <2>3, <2>4, Zenon DEF Alike
<1> QED BY <1>2, <1>3

-----------------------------------------------------------------------------
(* The records of a delete *)

\* An edge as the queries list it.
Arc(k, f, t) == [label |-> k, from |-> f, to |-> t]

\* OutEdges lists the edges that leave an id.
LEMMA OutEdgesAre ==
  ASSUME NEW edges, NEW id, NEW e
  PROVE  e \in OutEdges(edges, id) <=> \E k, t : Has(edges, k, id, t) /\ e = Arc(k, id, t)
<1>1. ASSUME e \in OutEdges(edges, id) PROVE \E k, t : Has(edges, k, id, t) /\ e = Arc(k, id, t)
  <2>1. PICK k \in DOMAIN edges : e \in {[label |-> k, from |-> id, to |-> t] : t \in DOMAIN Targets(edges, k, id)}
    BY <1>1, Zenon DEF OutEdges
  <2>2. PICK t \in DOMAIN Targets(edges, k, id) : e = [label |-> k, from |-> id, to |-> t]
    BY <2>1, Zenon
  <2>3. Has(edges, k, id, t)
    BY TargetsAre
  <2> QED BY <2>2, <2>3, Zenon DEF Arc
<1>2. ASSUME NEW k, NEW t, Has(edges, k, id, t), e = Arc(k, id, t) PROVE e \in OutEdges(edges, id)
  <2>1. t \in DOMAIN Targets(edges, k, id)
    BY <1>2, TargetsAre
  <2>2. k \in DOMAIN edges
    BY <1>2, Zenon DEF Has
  <2> QED BY <1>2, <2>1, <2>2 DEF OutEdges, Arc
<1> QED BY <1>1, <1>2, Zenon

\* InEdges lists the edges that enter it.
LEMMA InEdgesAre ==
  ASSUME NEW edges, NEW id, NEW e
  PROVE  e \in InEdges(edges, id) <=> \E k, f : Has(edges, k, f, id) /\ e = Arc(k, f, id)
<1>1. ASSUME e \in InEdges(edges, id) PROVE \E k, f : Has(edges, k, f, id) /\ e = Arc(k, f, id)
  <2>1. PICK k \in DOMAIN edges : e \in {[label |-> k, from |-> f, to |-> id] :
                                            f \in {g \in DOMAIN edges[k] : id \in DOMAIN edges[k][g]}}
    BY <1>1, Zenon DEF InEdges
  <2>2. PICK f \in {g \in DOMAIN edges[k] : id \in DOMAIN edges[k][g]} : e = [label |-> k, from |-> f, to |-> id]
    BY <2>1, Zenon
  <2>3. Has(edges, k, f, id)
    BY Zenon DEF Has
  <2> QED BY <2>2, <2>3, Zenon DEF Arc
<1>2. ASSUME NEW k, NEW f, Has(edges, k, f, id), e = Arc(k, f, id) PROVE e \in InEdges(edges, id)
  <2>1. k \in DOMAIN edges /\ f \in {g \in DOMAIN edges[k] : id \in DOMAIN edges[k][g]}
    BY <1>2, Zenon DEF Has
  <2> QED BY <1>2, <2>1 DEF InEdges, Arc
<1> QED BY <1>1, <1>2, Zenon

\* The edge is at the vertex.
Touches(id, f, t) == f = id \/ t = id

\* The fields of the record of an edge that goes with its vertex.
LEMMA CutRecordIs ==
  ASSUME NEW k, NEW f, NEW t
  PROVE  LET r == CutRecord(k, f, t) IN r.op = "delete_edge" /\ r.label = k /\ r.from = f /\ r.to = t
BY DEF CutRecord, EdgeRecord

\* The loop over the edges that leave the vertex finds these.
LEMMA LeavingAre ==
  ASSUME NEW edges, NEW id, NEW r
  PROVE  r \in Leaving(edges, id) <=> \E k, t : Has(edges, k, id, t) /\ r = CutRecord(k, id, t)
<1>1. ASSUME NEW k \in DOMAIN edges, NEW t PROVE t \in DOMAIN At(edges[k], id, None) <=> Has(edges, k, id, t)
  BY NoneIs, Zenon DEF At, Has
<1>2. ASSUME r \in Leaving(edges, id) PROVE \E k, t : Has(edges, k, id, t) /\ r = CutRecord(k, id, t)
  <2>1. PICK k \in DOMAIN edges : r \in {CutRecord(k, id, t) : t \in DOMAIN At(edges[k], id, None)}
    BY <1>2, Zenon DEF Leaving
  <2>2. PICK t \in DOMAIN At(edges[k], id, None) : r = CutRecord(k, id, t)
    BY <2>1, Zenon
  <2> QED BY <1>1, <2>2, Zenon
<1>3. ASSUME NEW k, NEW t, Has(edges, k, id, t), r = CutRecord(k, id, t) PROVE r \in Leaving(edges, id)
  <2>1. k \in DOMAIN edges
    BY <1>3, Zenon DEF Has
  <2>2. t \in DOMAIN At(edges[k], id, None)
    BY <1>1, <1>3, <2>1, Zenon
  <2> QED BY <1>3, <2>1, <2>2 DEF Leaving
<1> QED BY <1>2, <1>3, Zenon

\* The loop over the edges that enter it finds these.
LEMMA EnteringAre ==
  ASSUME NEW edges, NEW id, NEW r
  PROVE  r \in Entering(edges, id) <=> \E k, f : Has(edges, k, f, id) /\ f # id /\ r = CutRecord(k, f, id)
<1>1. ASSUME r \in Entering(edges, id) PROVE \E k, f : Has(edges, k, f, id) /\ f # id /\ r = CutRecord(k, f, id)
  <2>1. PICK k \in DOMAIN edges : r \in {CutRecord(k, f, id) : f \in {g \in DOMAIN edges[k] \ {id} : id \in DOMAIN edges[k][g]}}
    BY <1>1, Zenon DEF Entering
  <2>2. PICK f \in {g \in DOMAIN edges[k] \ {id} : id \in DOMAIN edges[k][g]} : r = CutRecord(k, f, id)
    BY <2>1, Zenon
  <2>3. Has(edges, k, f, id) /\ f # id
    BY Zenon DEF Has
  <2> QED BY <2>2, <2>3, Zenon
<1>2. ASSUME NEW k, NEW f, Has(edges, k, f, id), f # id, r = CutRecord(k, f, id) PROVE r \in Entering(edges, id)
  <2>1. k \in DOMAIN edges /\ f \in {g \in DOMAIN edges[k] \ {id} : id \in DOMAIN edges[k][g]}
    BY <1>2, Zenon DEF Has
  <2> QED BY <1>2, <2>1 DEF Entering
<1> QED BY <1>1, <1>2, Zenon

\* Together the two loops find the edges at the vertex, no others.
LEMMA CascadeIs ==
  ASSUME NEW edges, NEW id
  PROVE  \A r : r \in Cascade(edges, id) <=>
                  \E k, f, t : Has(edges, k, f, t) /\ Touches(id, f, t) /\ r = CutRecord(k, f, t)
<1> TAKE r
<1>1. r \in Leaving(edges, id) <=> \E k, t : Has(edges, k, id, t) /\ r = CutRecord(k, id, t)
  BY LeavingAre
<1>2. r \in Entering(edges, id) <=> \E k, f : Has(edges, k, f, id) /\ f # id /\ r = CutRecord(k, f, id)
  BY EnteringAre
<1> QED BY <1>1, <1>2, Zenon DEF Cascade, Touches

\* The record of an edge is in the cascade if and only if the edge is there and
\* at the vertex.
LEMMA CascadeHas ==
  ASSUME NEW edges, NEW id, NEW k, NEW f, NEW t
  PROVE  CutRecord(k, f, t) \in Cascade(edges, id) <=> Has(edges, k, f, t) /\ Touches(id, f, t)
<1>1. ASSUME CutRecord(k, f, t) \in Cascade(edges, id) PROVE Has(edges, k, f, t) /\ Touches(id, f, t)
  <2>1. PICK l, g, u : Has(edges, l, g, u) /\ Touches(id, g, u) /\ CutRecord(k, f, t) = CutRecord(l, g, u)
    BY <1>1, CascadeIs
  <2>2. k = l /\ f = g /\ t = u
    BY <2>1, CutRecordIs
  <2> QED BY <2>1, <2>2, Zenon
<1> QED BY <1>1, CascadeIs, Zenon

\* They are finitely many.
LEMMA CascadeFinite ==
  ASSUME NEW edges, EdgeMaps(edges), NEW id
  PROVE  IsFiniteSet(Cascade(edges, id))
<1> DEFINE A == {a \in Arcs(edges) : Touches(id, a[2], a[3])}
           S == Cascade(edges, id)
           g == [a \in A |-> CutRecord(a[1], a[2], a[3])]
<1>1. IsFiniteSet(A)
  <2>1. A \in SUBSET Arcs(edges)
    BY Zenon
  <2> HIDE DEF A
  <2> QED BY <2>1, FS_Subset, Zenon DEF EdgeMaps
<1>2. \A r : r \in S <=> \E k, f, t : Has(edges, k, f, t) /\ Touches(id, f, t) /\ r = CutRecord(k, f, t)
  BY CascadeIs
<1> HIDE DEF S
<1>3. ASSUME NEW a \in A PROVE g[a] \in S
  <2>1. Has(edges, a[1], a[2], a[3]) /\ Touches(id, a[2], a[3])
    BY Zenon DEF Arcs
  <2> QED BY <1>2, <2>1, Zenon
<1>4. ASSUME NEW r \in S PROVE \E a \in A : g[a] = r
  <2>1. PICK k, f, t : Has(edges, k, f, t) /\ Touches(id, f, t) /\ r = CutRecord(k, f, t)
    BY <1>2, Zenon
  <2>2. k \in AllLabels /\ f \in IDs /\ t \in IDs
    BY <2>1, EndsAreIds, Zenon DEF EdgeMaps, Has
  <2>3. PICK a : a = <<k, f, t>>
    BY Zenon
  <2>4. a \in AllLabels \X IDs \X IDs /\ a[1] = k /\ a[2] = f /\ a[3] = t
    BY <2>2, <2>3
  <2>5. a \in A
    BY <2>1, <2>4, Zenon DEF Arcs
  <2> QED BY <2>1, <2>4, <2>5, Zenon
<1>5. g \in Surjection(A, S)
  <2>1. g \in [A -> S]
    BY <1>3, Zenon
  <2> HIDE DEF g
  <2> QED BY <2>1, <1>4, Zenon DEF Surjection
<1>6. IsFiniteSet(S)
  <2> HIDE DEF A, g
  <2> QED BY <1>1, <1>5, FS_Surjection, Zenon
<1> QED BY <1>6 DEF S

\* A sequence of a set has the members of the set.
LEMMA SetToSeqsAre ==
  ASSUME NEW S, IsFiniteSet(S), NEW s \in SetToSeqs(S)
  PROVE  /\ s \in Seq(S) /\ Len(s) \in Nat /\ \A k \in 1..Len(s) : s[k] \in S
         /\ \A r \in S : \E k \in 1..Len(s) : s[k] = r
<1> DEFINE n == Cardinality(S)
<1>1. n \in Nat
  BY FS_CardinalityType, Zenon
<1>2. s \in [1..n -> S] /\ \A i, j \in 1..n : i # j => s[i] # s[j]
  BY Zenon DEF SetToSeqs
<1>3. s \in Injection(1..n, S)
  <2> HIDE DEF n
  <2> QED BY <1>2, Zenon DEF Injection, IsInjective
<1>4. Cardinality(1..n) = n
  <2> HIDE DEF n
  <2>1. 1 \in Int /\ n \in Int
    BY <1>1
  <2>2. Cardinality(1..n) = IF 1 > n THEN 0 ELSE n - 1 + 1
    BY <2>1, FS_Interval, Zenon
  <2> QED BY <1>1, <2>2
<1>5. s \in Surjection(1..n, S)
  <2>1. Cardinality(1..n) = Cardinality(S) <=> s \in Surjection(1..n, S)
    BY <1>3, FS_Injection, Zenon
  <2> QED BY <1>4, <2>1, Zenon
<1> HIDE DEF n
<1>6. s \in Seq(S) /\ Len(s) = n
  BY <1>1, <1>2
<1>7. \A r \in S : \E k \in 1..n : s[k] = r
  BY <1>5, Zenon DEF Surjection
<1>8. \A k \in 1..n : s[k] \in S
  BY <1>2, Zenon
<1> QED BY <1>1, <1>6, <1>7, <1>8, Zenon

-----------------------------------------------------------------------------
(* The replay of a delete, in any order *)

\* A record of a delete.
IsDelete(r) == r.op = "delete_edge" \/ (r.op = "delete_vertex" /\ r.label \in VLabels)
\* The record of the edge, of the vertex.
CutsArc(r, k, f, t) == r.op = "delete_edge" /\ r.label = k /\ r.from = f /\ r.to = t
DropsVertex(r, l, id) == r.op = "delete_vertex" /\ r.label = l /\ r.id = id

\* One of the first m records is that of the edge, of the vertex.
CutUpTo(records, m, k, f, t) == \E j \in 1..m : CutsArc(records[j], k, f, t)
DroppedUpTo(records, m, l, id) == \E j \in 1..m : DropsVertex(records[j], l, id)

\* What is left of the edges and of the vertices after the first m of the records.
EdgesLeft(es, new, records, m) ==
  /\ \A k, f, t : Has(new, k, f, t) <=> Has(es, k, f, t) /\ ~CutUpTo(records, m, k, f, t)
  /\ \A k, f, t : Has(new, k, f, t) => new[k][f][t] = es[k][f][t]

VerticesLeft(vs, new, records, m) ==
  \A l \in VLabels :
    /\ \A id : id \in DOMAIN new[l] <=> id \in DOMAIN vs[l] /\ ~DroppedUpTo(records, m, l, id)
    /\ \A id \in DOMAIN new[l] : new[l][id] = vs[l][id]

Left(st, new, records, m) ==
  Graph(new) /\ EdgesLeft(st.edges, new.edges, records, m) /\ VerticesLeft(st.vertices, new.vertices, records, m)

\* One record more cuts or drops what the record names.
LEMMA OneMore ==
  ASSUME NEW records, NEW m \in Nat
  PROVE  /\ \A k, f, t : CutUpTo(records, m + 1, k, f, t) <=>
                           CutUpTo(records, m, k, f, t) \/ CutsArc(records[m + 1], k, f, t)
         /\ \A l, id : DroppedUpTo(records, m + 1, l, id) <=>
                         DroppedUpTo(records, m, l, id) \/ DropsVertex(records[m + 1], l, id)
<1>1. \A j : j \in 1..(m + 1) <=> j \in 1..m \/ j = m + 1
  OBVIOUS
<1>2. ASSUME NEW k, NEW f, NEW t
      PROVE  CutUpTo(records, m + 1, k, f, t) <=> CutUpTo(records, m, k, f, t) \/ CutsArc(records[m + 1], k, f, t)
  BY <1>1, Zenon DEF CutUpTo
<1>3. ASSUME NEW l, NEW id
      PROVE  DroppedUpTo(records, m + 1, l, id) <=> DroppedUpTo(records, m, l, id) \/ DropsVertex(records[m + 1], l, id)
  BY <1>1, Zenon DEF DroppedUpTo
<1> QED BY <1>2, <1>3

\* One delete record more.
LEMMA DeleteOne ==
  ASSUME NEW st, NEW mid, NEW records, NEW m \in Nat, Left(st, mid, records, m), IsDelete(records[m + 1])
  PROVE  Left(st, ApplyToGraphDB(mid, records[m + 1]), records, m + 1)
<1> DEFINE r == records[m + 1]
<1> PICK new : new = ApplyToGraphDB(mid, r)
  BY Zenon
<1>1. Graph(mid) /\ EdgesLeft(st.edges, mid.edges, records, m) /\ VerticesLeft(st.vertices, mid.vertices, records, m)
  BY Zenon DEF Left
<1>2. DOMAIN mid.vertices = VLabels /\ IsMap(mid.edges)
  BY <1>1, Zenon DEF Graph, VertexMaps, EdgeMaps
<1>3. IsDelete(r)
  OBVIOUS
<1>4. /\ \A k, f, t : CutUpTo(records, m + 1, k, f, t) <=> CutUpTo(records, m, k, f, t) \/ CutsArc(r, k, f, t)
      /\ \A l, id : DroppedUpTo(records, m + 1, l, id) <=> DroppedUpTo(records, m, l, id) \/ DropsVertex(r, l, id)
  BY OneMore
<1> HIDE DEF r
<1>5. ~Rejected(mid, r) /\ GoodRecord(r)
  BY <1>2, <1>3 DEF IsDelete, Rejected, GoodRecord
<1>6. Graph(new)
  BY <1>1, <1>5, ApplyGraph, Zenon
<1>7. new = [vertices |-> VerticesAfter(mid, r), edges |-> EdgesAfter(mid, r), loads |-> TRUE]
  BY <1>1, <1>5, ApplyIs, Zenon
<1>8. new.vertices = VerticesAfter(mid, r) /\ new.edges = EdgesAfter(mid, r)
  BY <1>7
<1>9. CASE r.op = "delete_edge"
  <2>0. /\ r.op \in {"remove_edge", "delete_edge"} /\ r.op \notin {"set_vertex", "patch_vertex", "delete_vertex"}
        /\ \A l, id : ~DropsVertex(r, l, id)
        /\ \A k, f, t : CutsArc(r, k, f, t) <=> k = r.label /\ f = r.from /\ t = r.to
    BY <1>9 DEF DropsVertex, CutsArc
  <2>1. new.vertices = mid.vertices
    BY <1>8, <2>0, VerticesAfterIs, Zenon
  <2>2. Cuts(mid.edges, r.label, r.from, r.to, new.edges)
    BY <1>2, <1>8, <2>0, EdgesAfterIs, CutCuts, Zenon
  <2>3. ASSUME NEW k, NEW f, NEW t
        PROVE  /\ Has(new.edges, k, f, t) <=> Has(st.edges, k, f, t) /\ ~CutUpTo(records, m + 1, k, f, t)
               /\ Has(new.edges, k, f, t) => new.edges[k][f][t] = st.edges[k][f][t]
    <3>1. /\ Has(new.edges, k, f, t) <=> Has(mid.edges, k, f, t) /\ ~CutsArc(r, k, f, t)
          /\ Has(new.edges, k, f, t) => new.edges[k][f][t] = mid.edges[k][f][t]
      BY <2>0, <2>2 DEF Cuts
    <3>2. /\ Has(mid.edges, k, f, t) <=> Has(st.edges, k, f, t) /\ ~CutUpTo(records, m, k, f, t)
          /\ Has(mid.edges, k, f, t) => mid.edges[k][f][t] = st.edges[k][f][t]
      BY <1>1 DEF EdgesLeft
    <3>3. CutUpTo(records, m + 1, k, f, t) <=> CutUpTo(records, m, k, f, t) \/ CutsArc(r, k, f, t)
      BY <1>4
    <3> QED BY <3>1, <3>2, <3>3, Zenon
  <2>4. EdgesLeft(st.edges, new.edges, records, m + 1)
    BY <2>3 DEF EdgesLeft
  <2>5. VerticesLeft(st.vertices, new.vertices, records, m + 1)
    <3>1. \A l, id : DroppedUpTo(records, m + 1, l, id) <=> DroppedUpTo(records, m, l, id)
      BY <1>4, <2>0
    <3>2. ASSUME NEW l \in VLabels, NEW id
          PROVE  /\ id \in DOMAIN new.vertices[l] <=> id \in DOMAIN st.vertices[l] /\ ~DroppedUpTo(records, m + 1, l, id)
                 /\ id \in DOMAIN new.vertices[l] => new.vertices[l][id] = st.vertices[l][id]
      <4>1. /\ id \in DOMAIN mid.vertices[l] <=> id \in DOMAIN st.vertices[l] /\ ~DroppedUpTo(records, m, l, id)
            /\ id \in DOMAIN mid.vertices[l] => mid.vertices[l][id] = st.vertices[l][id]
        BY <1>1, Zenon DEF VerticesLeft
      <4> QED BY <2>1, <3>1, <4>1
    <3> QED BY <3>2, Zenon DEF VerticesLeft
  <2> QED BY <1>6, <2>4, <2>5, Zenon DEF Left, r
<1>10. CASE r.op = "delete_vertex" /\ r.label \in VLabels
  <2>0. /\ r.op \notin {"add_edge", "set_edge", "patch_edge", "remove_edge", "delete_edge"}
        /\ \A l, id : DropsVertex(r, l, id) <=> l = r.label /\ id = r.id
        /\ \A k, f, t : ~CutsArc(r, k, f, t)
    BY <1>10 DEF DropsVertex, CutsArc
  <2>1. new.edges = mid.edges
    BY <1>8, <2>0, EdgesAfterIs, Zenon
  <2> PICK data : data = Drop(mid.vertices[r.label], r.id)
    BY Zenon
  <2>2. new.vertices = Put(mid.vertices, r.label, data)
    BY <1>8, <1>10, VerticesAfterIs, Zenon
  <2>3. \A l \in VLabels : new.vertices[l] = IF l = r.label THEN data ELSE mid.vertices[l]
    BY <1>2, <2>2, Zenon DEF Put
  <2>4. /\ \A id : id \in DOMAIN data <=> id \in DOMAIN mid.vertices[r.label] /\ id # r.id
        /\ \A id \in DOMAIN data : data[id] = mid.vertices[r.label][id]
    BY Zenon DEF Drop
  <2>5. EdgesLeft(st.edges, new.edges, records, m + 1)
    <3>1. ASSUME NEW k, NEW f, NEW t PROVE CutUpTo(records, m + 1, k, f, t) <=> CutUpTo(records, m, k, f, t)
      BY <1>4, <2>0
    <3>2. ASSUME NEW k, NEW f, NEW t
          PROVE  /\ Has(new.edges, k, f, t) <=> Has(st.edges, k, f, t) /\ ~CutUpTo(records, m + 1, k, f, t)
                 /\ Has(new.edges, k, f, t) => new.edges[k][f][t] = st.edges[k][f][t]
      <4>1. /\ Has(mid.edges, k, f, t) <=> Has(st.edges, k, f, t) /\ ~CutUpTo(records, m, k, f, t)
            /\ Has(mid.edges, k, f, t) => mid.edges[k][f][t] = st.edges[k][f][t]
        BY <1>1 DEF EdgesLeft
      <4> QED BY <2>1, <3>1, <4>1, Zenon
    <3> QED BY <3>2 DEF EdgesLeft
  <2>6. ASSUME NEW l \in VLabels, NEW id
        PROVE  /\ id \in DOMAIN new.vertices[l] <=> id \in DOMAIN st.vertices[l] /\ ~DroppedUpTo(records, m + 1, l, id)
               /\ id \in DOMAIN new.vertices[l] => new.vertices[l][id] = st.vertices[l][id]
    <3>1. /\ id \in DOMAIN mid.vertices[l] <=> id \in DOMAIN st.vertices[l] /\ ~DroppedUpTo(records, m, l, id)
          /\ id \in DOMAIN mid.vertices[l] => mid.vertices[l][id] = st.vertices[l][id]
      BY <1>1, Zenon DEF VerticesLeft
    <3>2. DroppedUpTo(records, m + 1, l, id) <=> DroppedUpTo(records, m, l, id) \/ (l = r.label /\ id = r.id)
      BY <1>4, <2>0
    <3>3. /\ id \in DOMAIN new.vertices[l] <=> id \in DOMAIN mid.vertices[l] /\ ~(l = r.label /\ id = r.id)
          /\ id \in DOMAIN new.vertices[l] => new.vertices[l][id] = mid.vertices[l][id]
      BY <2>3, <2>4, Zenon
    <3> QED BY <3>1, <3>2, <3>3, Zenon
  <2>7. VerticesLeft(st.vertices, new.vertices, records, m + 1)
    BY <2>6, Zenon DEF VerticesLeft
  <2> QED BY <1>6, <2>5, <2>7, Zenon DEF Left, r
<1> QED BY <1>3, <1>9, <1>10, Zenon DEF IsDelete

\* The records of deletes leave what none of them names, in whatever order they
\* are applied.
LEMMA DeletesReplay ==
  ASSUME NEW st, Graph(st), NEW records, Len(records) \in Nat, \A k \in 1..Len(records) : IsDelete(records[k])
  PROVE  Left(st, Replay(st, records), records, Len(records))
<1> DEFINE n == Len(records)
<1>1. st.loads = TRUE
  BY SMT DEF Graph
<1>2. PICK f : Replays(f, st, records) /\ Replay(st, records) = f[n]
  BY <1>1, ReplaySteps, Zenon
<1> DEFINE T == {m \in Nat : m <= n => Left(st, f[m], records, m)}
<1>3. 0 \in T
  <2>1. f[0] = st
    BY <1>2, Zenon DEF Replays
  <2>2. \A j : j \notin 1..0
    OBVIOUS
  <2>3. EdgesLeft(st.edges, st.edges, records, 0) /\ VerticesLeft(st.vertices, st.vertices, records, 0)
    BY <2>2, Zenon DEF EdgesLeft, VerticesLeft, CutUpTo, DroppedUpTo
  <2>4. Left(st, f[0], records, 0)
    BY <2>1, <2>3, Zenon DEF Left
  <2> QED BY <2>4
<1>4. ASSUME NEW m \in Nat, m \in T PROVE m + 1 \in T
  <2>1. CASE m + 1 <= n
    <3>1. m <= n /\ m + 1 \in 1..n /\ (m + 1) - 1 = m
      <4> HIDE DEF n
      <4> QED BY <2>1 DEF n
    <3>2. Left(st, f[m], records, m)
      BY <1>4, <3>1, Zenon
    <3>3. f[m + 1] = ApplyToGraphDB(f[m], records[m + 1])
      BY <1>2, <3>1, Zenon DEF Replays
    <3>4. IsDelete(records[m + 1])
      BY <3>1, Zenon
    <3>5. Left(st, f[m + 1], records, m + 1)
      BY <3>2, <3>3, <3>4, DeleteOne, Zenon
    <3> QED BY <3>5
  <2>2. CASE ~(m + 1 <= n)
    BY <2>2
  <2> QED BY <2>1, <2>2
<1>5. Nat \subseteq T
  <2> HIDE DEF T
  <2> QED BY <1>3, <1>4, SetInduction
<1>6. Left(st, f[n], records, n)
  <2>1. n \in Nat /\ n <= n
    OBVIOUS
  <2> QED BY <1>5, <2>1, Zenon
<1> QED BY <1>2, <1>6, Zenon

-----------------------------------------------------------------------------
(* What a delete appends and what it leaves in memory *)

\* The fields of the record of a vertex.
LEMMA DropRecordIs ==
  ASSUME NEW l, NEW id
  PROVE  LET r == DropRecord(l, id) IN r.op = "delete_vertex" /\ r.label = l /\ r.id = id
BY DEF DropRecord, VertexRecord

\* The last of the records of a delete is that of the vertex, the others are
\* those of the edges.
DeleteRecordsHolds(records, l, id) ==
  \E n \in Nat : /\ records \in Seq(Cascade(db.edges, id) \cup {DropRecord(l, id)})
                 /\ Len(records) = n + 1 /\ DOMAIN records = 1..(n + 1)
                 /\ \A k \in 1..n : records[k] \in Cascade(db.edges, id)
                 /\ records[n + 1] = DropRecord(l, id)
                 /\ \A r \in Cascade(db.edges, id) : \E k \in 1..n : records[k] = r

\* The records that Delete appends.
LEMMA DeleteRecordsAre ==
  ASSUME Graph(db), NEW l, NEW id, NEW records, records \in DeleteRecords(l, id)
  PROVE  DeleteRecordsHolds(records, l, id)
<1> DEFINE C == Cascade(db.edges, id)
           d == DropRecord(l, id)
<1>1. PICK s \in SetToSeqs(C) : records = Append(s, d)
  BY Zenon DEF DeleteRecords
<1>2. IsFiniteSet(C)
  BY CascadeFinite, Zenon DEF Graph
<1> HIDE DEF C, d
<1>3. /\ s \in Seq(C) /\ Len(s) \in Nat /\ \A k \in 1..Len(s) : s[k] \in C
      /\ \A r \in C : \E k \in 1..Len(s) : s[k] = r
  BY <1>2, SetToSeqsAre, ZenonT(40)
<1> PICK n : n = Len(s)
  BY Zenon
<1>4. s \in Seq(C \cup {d}) /\ d \in C \cup {d}
  BY <1>3
<1>5. /\ Len(records) = n + 1 /\ DOMAIN records = 1..(n + 1) /\ records[n + 1] = d
      /\ \A k \in 1..n : records[k] = s[k]
      /\ records \in Seq(C \cup {d})
  <2> PICK S : S = C \cup {d}
    BY Zenon
  <2>1. s \in Seq(S) /\ d \in S
    BY <1>4
  <2> QED BY <1>1, <2>1
<1>6. \A k \in 1..n : records[k] \in C
  BY <1>3, <1>5, Zenon
<1>7. \A r \in C : \E k \in 1..n : records[k] = r
  BY <1>3, <1>5, Zenon
<1> QED BY <1>3, <1>5, <1>6, <1>7, Zenon DEF C, d, DeleteRecordsHolds

\* The record of an edge drops no vertex.
LEMMA CutRecordDeletes ==
  ASSUME NEW edges, NEW id, NEW r \in Cascade(edges, id)
  PROVE  IsDelete(r) /\ r.op # "delete_vertex"
<1>1. PICK k, f, t : r = CutRecord(k, f, t)
  BY CascadeIs
<1>2. r.op = "delete_edge"
  BY <1>1, CutRecordIs
<1>3. r.op # "delete_vertex"
  <2> PICK op : op = r.op
    BY Zenon
  <2>1. op = "delete_edge"
    BY <1>2
  <2>2. op # "delete_vertex"
    BY <2>1
  <2> QED BY <2>2, Zenon
<1>4. IsDelete(r)
  BY <1>2 DEF IsDelete
<1> QED BY <1>3, <1>4

\* The sequence has the records of a delete and no others.
HasRecords(order, S) ==
  Len(order) \in Nat /\ (\A k \in 1..Len(order) : order[k] \in S) /\ \A r \in S : \E k \in 1..Len(order) : order[k] = r

\* In any order they are the same records.
LEMMA OrdersAre ==
  ASSUME Graph(db), NEW l, NEW id, NEW records \in DeleteRecords(l, id), NEW order \in AnyOrder(records)
  PROVE  HasRecords(order, Cascade(db.edges, id) \cup {DropRecord(l, id)})
<1> DEFINE C == Cascade(db.edges, id)
           d == DropRecord(l, id)
           S == C \cup {d}
<1>1. PICK n \in Nat : /\ DOMAIN records = 1..(n + 1) /\ \A k \in 1..n : records[k] \in C
                       /\ records[n + 1] = d /\ \A r \in C : \E k \in 1..n : records[k] = r
  <2>1. DeleteRecordsHolds(records, l, id)
    BY DeleteRecordsAre, Zenon
  <2> QED BY <2>1, Zenon DEF DeleteRecordsHolds
<1>2. IsFiniteSet(C)
  BY CascadeFinite, Zenon DEF Graph
<1> HIDE DEF C, d
<1>3. IsFiniteSet(S)
  BY <1>2, FS_AddElement, Zenon
<1>4. ToSet(records) = S
  <2>1. \A k : k \in 1..(n + 1) <=> k \in 1..n \/ k = n + 1
    BY <1>1
  <2>2. ToSet(records) = {records[k] : k \in 1..(n + 1)}
    BY <1>1, Zenon DEF ToSet
  <2>3. \A r : r \in ToSet(records) <=> r \in S
    BY <1>1, <2>1, <2>2, Zenon
  <2> QED BY <2>3, Zenon
<1>5. order \in SetToSeqs(S)
  BY <1>4, Zenon DEF AnyOrder
<1> HIDE DEF S
<1>6. HasRecords(order, S)
  <2>1. /\ Len(order) \in Nat /\ \A k \in 1..Len(order) : order[k] \in S
        /\ \A r \in S : \E k \in 1..Len(order) : order[k] = r
    BY <1>3, <1>5, SetToSeqsAre
  <2> QED BY <2>1, Zenon DEF HasRecords
<1> QED BY <1>6 DEF S, C, d

\* The memory after a delete.
LEMMA WithoutVertexIs ==
  ASSUME Graph(db), NEW l \in VLabels, NEW id, NEW new, new = WithoutVertex(l, id)
  PROVE  /\ new = [vertices |-> Put(db.vertices, l, Drop(db.vertices[l], id)), edges |-> new.edges, loads |-> TRUE]
         /\ IsMap(new.edges) /\ DOMAIN new.edges = DOMAIN db.edges
         /\ \A k, f, t : Has(new.edges, k, f, t) <=> Has(db.edges, k, f, t) /\ ~Touches(id, f, t)
         /\ \A k, f, t : Has(new.edges, k, f, t) => new.edges[k][f][t] = db.edges[k][f][t]
<1> PICK vs, es : db = [vertices |-> vs, edges |-> es, loads |-> TRUE]
  BY Zenon DEF Graph
<1>1. db.vertices = vs /\ db.edges = es
  OBVIOUS
<1>2. IsMap(vs) /\ l \in DOMAIN vs
  BY <1>1, Zenon DEF Graph, VertexMaps
<1> DEFINE Stays(k, f, t) == CutRecord(k, f, t) \notin Cascade(es, id)
           data == Drop(vs[l], id)
           ws == [vs EXCEPT ![l] = data]
           gs == [k \in DOMAIN es |-> [f \in DOMAIN es[k] |-> [t \in {u \in DOMAIN es[k][f] : Stays(k, f, u)} |-> es[k][f][t]]]]
<1>3. new = [db EXCEPT !.vertices = ws, !.edges = gs]
  BY <1>1 DEF WithoutVertex
<1>4. \A k, f, t : Stays(k, f, t) <=> ~(Has(es, k, f, t) /\ Touches(id, f, t))
  BY CascadeHas
<1> HIDE DEF Stays
<1>5. DOMAIN gs = DOMAIN es /\ IsMap(gs)
  BY Zenon DEF IsMap
<1>6. ASSUME NEW k, NEW f, NEW t
      PROVE  /\ Has(gs, k, f, t) <=> Has(es, k, f, t) /\ ~Touches(id, f, t)
             /\ Has(gs, k, f, t) => gs[k][f][t] = es[k][f][t]
  <2>1. CASE k \in DOMAIN es /\ f \in DOMAIN es[k]
    <3>1. gs[k][f] = [u \in {u \in DOMAIN es[k][f] : Stays(k, f, u)} |-> es[k][f][u]]
      BY <2>1, Zenon
    <3>2. DOMAIN gs[k] = DOMAIN es[k]
      BY <2>1, Zenon
    <3> HIDE DEF gs
    <3> QED BY <1>4, <1>5, <2>1, <3>1, <3>2, Zenon DEF Has
  <2>2. CASE ~(k \in DOMAIN es /\ f \in DOMAIN es[k])
    <3>1. k \in DOMAIN es => DOMAIN gs[k] = DOMAIN es[k]
      BY Zenon
    <3> HIDE DEF gs
    <3> QED BY <1>5, <2>2, <3>1, Zenon DEF Has
  <2> QED BY <2>1, <2>2
<1>7. ws = Put(vs, l, data)
  <2> HIDE DEF data
  <2>1. DOMAIN ws = DOMAIN vs \cup {l} /\ \A k \in DOMAIN vs : ws[k] = IF k = l THEN data ELSE vs[k]
    BY <1>2, Zenon DEF IsMap
  <2>2. ws = [k \in DOMAIN ws |-> ws[k]]
    BY <1>2, Zenon
  <2> QED BY <1>2, <2>1, <2>2, Zenon DEF Put
<1> HIDE DEF ws, gs, data
<1>8. new = [vertices |-> ws, edges |-> gs, loads |-> TRUE]
  BY <1>3, BothFields
<1>9. new.edges = gs
  BY <1>8
<1> QED BY <1>1, <1>5, <1>6, <1>7, <1>8, <1>9 DEF data

-----------------------------------------------------------------------------
(* Snapshot and load *)

\* The edges in the files.
TreeArcs(files) ==
  {a \in AllLabels \X IDs \X IDs : a[1] \in DOMAIN files /\ <<a[2], a[3]>> \in DOMAIN files[a[1]]}

\* What the repository holds: vertex files whose ids are ids, edge files of declared ends.
VertexFiles(files) ==
  /\ DOMAIN files \subseteq VLabels
  /\ \A l \in DOMAIN files : \A o \in files[l] : "id" \in DOMAIN o => o["id"] \in IDs

EdgeFiles(files) ==
  /\ DOMAIN files \subseteq AllLabels
  /\ \A l \in DOMAIN files : DOMAIN files[l] \subseteq Ends
  /\ IsFiniteSet(TreeArcs(files))

Files(tr) == VertexFiles(tr.vertices) /\ EdgeFiles(tr.edges)

\* A vertex file is read into a map keyed by the id fields.
LEMMA LoadVertexFileIs ==
  ASSUME NEW records, \A o \in records : "id" \in DOMAIN o /\ o["id"] \in IDs
  PROVE  LET data == LoadVertexFile(records)
         IN  /\ DOMAIN data = {o["id"] : o \in records} /\ DOMAIN data \subseteq IDs
             /\ \A id \in DOMAIN data : data[id] \in records /\ data[id]["id"] = id
<1> PICK data : data = LoadVertexFile(records)
  BY Zenon
<1>1. data = [id \in {o["id"] : o \in records} |-> CHOOSE o \in records : o["id"] = id]
  BY Zenon DEF LoadVertexFile
<1>2. DOMAIN data = {o["id"] : o \in records}
  BY <1>1, Zenon
<1>3. ASSUME NEW id \in DOMAIN data PROVE id \in IDs /\ data[id] \in records /\ data[id]["id"] = id
  <2>1. PICK o \in records : id = o["id"]
    BY <1>2, Zenon
  <2>2. data[id] = CHOOSE q \in records : q["id"] = id
    BY <1>1, <1>2, Zenon
  <2>3. data[id] \in records /\ data[id]["id"] = id
    BY <2>1, <2>2, Zenon
  <2> QED BY <2>1, <2>3, Zenon
<1>4. DOMAIN data \subseteq IDs
  BY <1>3, Zenon
<1>5. \A id \in DOMAIN data : data[id] \in records /\ data[id]["id"] = id
  BY <1>3, Zenon
<1> QED BY <1>2, <1>4, <1>5, Zenon

\* An edge file is read into maps with the entries of the file.
LEMMA LoadEdgeFileIs ==
  ASSUME NEW file, DOMAIN file \subseteq Ends, NEW adj, adj = LoadEdgeFile(file)
  PROVE  /\ \A f, t : (f \in DOMAIN adj /\ t \in DOMAIN adj[f]) <=> <<f, t>> \in DOMAIN file
         /\ \A f, t : <<f, t>> \in DOMAIN file => adj[f][t] = file[<<f, t>>]
<1> DEFINE D == DOMAIN file
           To(f) == {e[2] : e \in {d \in D : d[1] = f}}
           Row(f) == [t \in To(f) |-> file[<<f, t>>]]
<1>1. adj = [f \in {e[1] : e \in D} |-> Row(f)]
  BY Zenon DEF LoadEdgeFile
<1>2. \A e \in D : e = <<e[1], e[2]>>
  BY GraphAssumption, SMT DEF GraphAssumption
<1>3. \A f, t : t \in To(f) <=> <<f, t>> \in D
  <2>1. ASSUME NEW f, NEW t, t \in To(f) PROVE <<f, t>> \in D
    <3>1. PICK e \in D : e[1] = f /\ t = e[2]
      BY <2>1, Zenon
    <3> QED BY <1>2, <3>1, Zenon
  <2>2. ASSUME NEW f, NEW t, <<f, t>> \in D PROVE t \in To(f)
    <3> PICK e : e = <<f, t>>
      BY Zenon
    <3>1. e[1] = f /\ e[2] = t
      OBVIOUS
    <3>2. e \in D
      BY <2>2, Zenon
    <3> QED BY <3>1, <3>2, Zenon
  <2> QED BY <2>1, <2>2, Zenon
<1>4. \A f : DOMAIN Row(f) = To(f) /\ \A t \in To(f) : Row(f)[t] = file[<<f, t>>]
  BY Zenon
<1>5. ASSUME NEW f, NEW t, <<f, t>> \in D PROVE f \in {e[1] : e \in D}
  <2> PICK e : e = <<f, t>>
    BY Zenon
  <2>1. e[1] = f
    OBVIOUS
  <2>2. e \in D
    BY <1>5, Zenon
  <2> QED BY <2>1, <2>2, Zenon
<1> HIDE DEF To, Row
<1>6. DOMAIN adj = {e[1] : e \in D} /\ \A f \in DOMAIN adj : adj[f] = Row(f)
  BY <1>1, Zenon
<1>7. ASSUME NEW f, NEW t PROVE (f \in DOMAIN adj /\ t \in DOMAIN adj[f]) <=> <<f, t>> \in DOMAIN file
  <2>1. ASSUME f \in DOMAIN adj, t \in DOMAIN adj[f] PROVE <<f, t>> \in D
    <3>1. t \in To(f)
      BY <1>4, <1>6, <2>1, Zenon
    <3> QED BY <1>3, <3>1, Zenon
  <2>2. ASSUME <<f, t>> \in D PROVE f \in DOMAIN adj /\ t \in DOMAIN adj[f]
    <3>1. f \in DOMAIN adj
      BY <1>5, <1>6, <2>2, Zenon
    <3>2. t \in To(f)
      BY <1>3, <2>2, Zenon
    <3> QED BY <1>4, <1>6, <3>1, <3>2, Zenon
  <2> QED BY <2>1, <2>2, Zenon
<1>8. ASSUME NEW f, NEW t, <<f, t>> \in DOMAIN file PROVE adj[f][t] = file[<<f, t>>]
  <2>1. f \in DOMAIN adj /\ t \in To(f)
    BY <1>3, <1>7, <1>8, Zenon
  <2> QED BY <1>4, <1>6, <2>1, Zenon
<1> QED BY <1>7, <1>8

\* The files load unless a vertex has no id field (ErrVertexMissingID); what
\* loads is a graph.
LEMMA LoadIs ==
  ASSUME NEW tr, Files(tr), NEW new, new = LoadGraphState(tr)
  PROVE  /\ \/ new = Unloadable /\ \E l \in VLabels : \E o \in At(tr.vertices, l, {}) : "id" \notin DOMAIN o
            \/ Graph(new) /\ \A l \in VLabels : \A o \in At(tr.vertices, l, {}) : "id" \in DOMAIN o
         /\ Graph(new) => /\ \A l \in VLabels : new.vertices[l] = LoadVertexFile(At(tr.vertices, l, {}))
                          /\ DOMAIN new.edges = ELabels
                          /\ \A l \in ELabels : new.edges[l] = LoadEdgeFile(At(tr.edges, l, None))
<1> DEFINE NoId == \E l \in VLabels : \E o \in At(tr.vertices, l, {}) : "id" \notin DOMAIN o
           vs == [l \in VLabels |-> LoadVertexFile(At(tr.vertices, l, {}))]
           es == [l \in ELabels |-> LoadEdgeFile(At(tr.edges, l, None))]
<1>1. new = IF NoId THEN Unloadable ELSE [vertices |-> vs, edges |-> es, loads |-> TRUE]
  BY Zenon DEF LoadGraphState
<1>2. ~Graph(Unloadable)
  <2>1. Unloadable.loads = FALSE
    BY DEF Unloadable
  <2>2. \A st : Graph(st) => st.loads = TRUE
    BY SMT DEF Graph
  <2> QED BY <2>1, <2>2
<1>3. CASE NoId
  BY <1>1, <1>2, <1>3, Zenon
<1>4. CASE ~NoId
  <2>1. ASSUME NEW l \in VLabels PROVE DOMAIN vs[l] \subseteq IDs /\ \A id \in DOMAIN vs[l] : Carries(id, vs[l][id])
    <3>1. PICK records : records = At(tr.vertices, l, {})
      BY Zenon
    <3>2. ASSUME NEW o \in records PROVE "id" \in DOMAIN o /\ o["id"] \in IDs
      <4>1. "id" \in DOMAIN o
        BY <1>4, <3>1, Zenon
      <4>2. l \in DOMAIN tr.vertices /\ o \in tr.vertices[l]
        BY <3>1, Zenon DEF At
      <4> QED BY <4>1, <4>2, Zenon DEF Files, VertexFiles
    <3> PICK data : data = LoadVertexFile(records)
      BY Zenon
    <3>3. DOMAIN data \subseteq IDs /\ \A id \in DOMAIN data : data[id]["id"] = id
      BY <3>2, LoadVertexFileIs, Zenon
    <3>4. vs[l] = data
      BY <3>1, Zenon
    <3> QED BY <3>3, <3>4, Zenon DEF Carries
  <2>2. VertexMaps(vs)
    <3>1. IsMap(vs) /\ DOMAIN vs = VLabels
      BY Zenon DEF IsMap
    <3> HIDE DEF vs
    <3> QED BY <2>1, <3>1, Zenon DEF VertexMaps
  <2>3. ASSUME NEW l, NEW f, NEW t
        PROVE  Has(es, l, f, t) => l \in DOMAIN tr.edges /\ <<f, t>> \in DOMAIN tr.edges[l]
    <3> SUFFICES ASSUME Has(es, l, f, t) PROVE l \in DOMAIN tr.edges /\ <<f, t>> \in DOMAIN tr.edges[l]
      BY Zenon
    <3>1. l \in ELabels /\ f \in DOMAIN es[l] /\ t \in DOMAIN es[l][f]
      BY Zenon DEF Has
    <3>2. PICK file : file = At(tr.edges, l, None)
      BY Zenon
    <3>3. es[l] = LoadEdgeFile(file)
      BY <3>1, <3>2, Zenon
    <3>4. DOMAIN file \subseteq Ends
      BY <3>2, NoneIs, Zenon DEF At, Files, EdgeFiles
    <3>5. <<f, t>> \in DOMAIN file
      <4> PICK adj : adj = es[l]
        BY Zenon
      <4>1. f \in DOMAIN adj /\ t \in DOMAIN adj[f] /\ adj = LoadEdgeFile(file)
        BY <3>1, <3>3, Zenon
      <4> QED BY <3>4, <4>1, LoadEdgeFileIs
    <3> QED BY <3>2, <3>5, NoneIs, Zenon DEF At
  <2>4. EdgeMaps(es)
    <3>1. IsMap(es) /\ DOMAIN es = ELabels /\ ELabels \subseteq AllLabels
      BY Zenon DEF IsMap, AllLabels
    <3> HIDE DEF es
    <3>2. Arcs(es) \in SUBSET TreeArcs(tr.edges)
      BY <2>3, Zenon DEF Arcs, TreeArcs
    <3>3. IsFiniteSet(Arcs(es))
      BY <3>2, FS_Subset, Zenon DEF Files, EdgeFiles
    <3>4. \A l, f, t : Has(es, l, f, t) => <<f, t>> \in Ends
      BY <2>3, Zenon DEF Files, EdgeFiles
    <3> QED BY <3>1, <3>3, <3>4, Zenon DEF EdgeMaps
  <2>5. /\ \A l \in VLabels : vs[l] = LoadVertexFile(At(tr.vertices, l, {}))
        /\ DOMAIN es = ELabels /\ \A l \in ELabels : es[l] = LoadEdgeFile(At(tr.edges, l, None))
    BY Zenon
  <2>6. \A l \in VLabels : \A o \in At(tr.vertices, l, {}) : "id" \in DOMAIN o
    BY <1>4, Zenon
  <2>7. new = [vertices |-> vs, edges |-> es, loads |-> TRUE]
    BY <1>1, <1>4, Zenon
  <2> HIDE DEF vs, es
  <2>8. Graph(new)
    BY <2>2, <2>4, <2>7, MakeGraph, Zenon
  <2>9. new.vertices = vs /\ new.edges = es
    BY <2>7
  <2> QED BY <2>5, <2>6, <2>8, <2>9, Zenon
<1> QED BY <1>3, <1>4, Zenon

\* The entries of an edge file.
LEMMA EdgeFileIs ==
  ASSUME NEW adj, NEW file, file = EdgeFile(adj)
  PROVE  /\ IsMap(file) /\ DOMAIN file \subseteq IDs \X IDs
         /\ \A f \in IDs, t \in IDs : <<f, t>> \in DOMAIN file <=> f \in DOMAIN adj /\ t \in DOMAIN adj[f]
         /\ \A f, t : <<f, t>> \in DOMAIN file => file[<<f, t>>] = Written(adj[f][t])
<1> DEFINE Entry(e) == Written(adj[e[1]][e[2]])
<1>1. file = [e \in EdgeEntries(adj) |-> Entry(e)]
  BY Zenon DEF EdgeFile
<1>2. \A e : e \in EdgeEntries(adj) <=> e \in IDs \X IDs /\ e[1] \in DOMAIN adj /\ e[2] \in DOMAIN adj[e[1]]
  BY Zenon DEF EdgeEntries, At
<1>3. \A f, t : <<f, t>>[1] = f /\ <<f, t>>[2] = t
  OBVIOUS
<1>4. ASSUME NEW f, NEW t PROVE Entry(<<f, t>>) = Written(adj[f][t])
  BY <1>3
<1> HIDE DEF Entry
<1>5. IsMap(file) /\ DOMAIN file = EdgeEntries(adj)
  BY <1>1, Zenon DEF IsMap
<1>6. ASSUME NEW f \in IDs, NEW t \in IDs
      PROVE  <<f, t>> \in DOMAIN file <=> f \in DOMAIN adj /\ t \in DOMAIN adj[f]
  <2> PICK e : e = <<f, t>>
    BY Zenon
  <2>1. e \in IDs \X IDs /\ e[1] = f /\ e[2] = t
    OBVIOUS
  <2>2. e \in DOMAIN file <=> f \in DOMAIN adj /\ t \in DOMAIN adj[f]
    BY <1>2, <1>5, <2>1, Zenon
  <2> QED BY <2>2, Zenon
<1>7. ASSUME NEW f, NEW t, <<f, t>> \in DOMAIN file PROVE file[<<f, t>>] = Written(adj[f][t])
  BY <1>1, <1>4, <1>5, <1>7, Zenon
<1>8. DOMAIN file \subseteq IDs \X IDs
  BY <1>2, <1>5, Zenon
<1> QED BY <1>5, <1>6, <1>7, <1>8, Zenon

\* An empty object is written like none, and none is read as none.
LEMMA WrittenTwice == ASSUME NEW p PROVE Written(Written(p)) = Written(p)
BY Zenon DEF Written

\* An edge file that is read and written again is the same file.
LEMMA FileAgain ==
  ASSUME NEW adj, NEW file, file = EdgeFile(adj), DOMAIN file \subseteq Ends
  PROVE  EdgeFile(LoadEdgeFile(file)) = file
<1> PICK new : new = LoadEdgeFile(file)
  BY Zenon
<1> PICK again : again = EdgeFile(new)
  BY Zenon
<1>1. /\ IsMap(file) /\ DOMAIN file \subseteq IDs \X IDs
      /\ \A f, t : <<f, t>> \in DOMAIN file => file[<<f, t>>] = Written(adj[f][t])
  BY EdgeFileIs
<1>2. /\ \A f, t : (f \in DOMAIN new /\ t \in DOMAIN new[f]) <=> <<f, t>> \in DOMAIN file
      /\ \A f, t : <<f, t>> \in DOMAIN file => new[f][t] = file[<<f, t>>]
  BY LoadEdgeFileIs
<1>3. /\ IsMap(again) /\ DOMAIN again \subseteq IDs \X IDs
      /\ \A f \in IDs, t \in IDs : <<f, t>> \in DOMAIN again <=> f \in DOMAIN new /\ t \in DOMAIN new[f]
      /\ \A f, t : <<f, t>> \in DOMAIN again => again[<<f, t>>] = Written(new[f][t])
  BY EdgeFileIs
<1>4. ASSUME NEW e \in IDs \X IDs
      PROVE  (e \in DOMAIN again <=> e \in DOMAIN file) /\ (e \in DOMAIN file => again[e] = file[e])
  <2> PICK f \in IDs, t \in IDs : e = <<f, t>>
    OBVIOUS
  <2>1. <<f, t>> \in DOMAIN again <=> <<f, t>> \in DOMAIN file
    BY <1>2, <1>3
  <2>2. ASSUME <<f, t>> \in DOMAIN file PROVE again[<<f, t>>] = file[<<f, t>>]
    <3>1. again[<<f, t>>] = Written(new[f][t])
      BY <1>3, <2>1, <2>2
    <3>2. new[f][t] = file[<<f, t>>] /\ file[<<f, t>>] = Written(adj[f][t])
      BY <1>1, <1>2, <2>2
    <3> QED BY <3>1, <3>2, WrittenTwice, Zenon
  <2> QED BY <2>1, <2>2, Zenon
<1>5. DOMAIN again = DOMAIN file
  BY <1>1, <1>3, <1>4, Zenon
<1>6. again = file
  BY <1>1, <1>3, <1>4, <1>5, Zenon DEF IsMap
<1> QED BY <1>6, Zenon

\* The files that a Checkpoint leaves in the repository.
LEMMA SnapshotIs ==
  ASSUME Graph(db), Files(tree), NEW new, new = CreateTree(Snapshot(db))
  PROVE  /\ Files(new) /\ DOMAIN new.vertices = VLabels
         /\ \A l \in VLabels : new.vertices[l] = {db.vertices[l][id] : id \in DOMAIN db.vertices[l]}
         /\ \A l \in DOMAIN db.edges : l \in DOMAIN new.edges /\ new.edges[l] = EdgeFile(db.edges[l])
<1> DEFINE vs == db.vertices
           es == db.edges
           va == [l \in DOMAIN vs |-> {vs[l][id] : id \in DOMAIN vs[l]}]
           ea == [l \in DOMAIN es |-> EdgeFile(es[l])]
           nv == Overlay(tree.vertices, va)
           ne == Overlay(tree.edges, ea)
<1>1. Snapshot(db) = [vertices |-> va, edges |-> ea]
  BY Zenon DEF Snapshot
<1>2. VertexMaps(vs) /\ EdgeMaps(es) /\ VertexFiles(tree.vertices) /\ EdgeFiles(tree.edges)
  BY Zenon DEF Graph, Files
<1>3. DOMAIN va = VLabels /\ \A l \in VLabels : va[l] = {vs[l][id] : id \in DOMAIN vs[l]}
  BY <1>2, Zenon DEF VertexMaps
<1>4. DOMAIN ea = DOMAIN es /\ \A l \in DOMAIN es : ea[l] = EdgeFile(es[l])
  BY Zenon
<1>5. /\ DOMAIN nv = DOMAIN tree.vertices \cup DOMAIN va
      /\ \A l \in DOMAIN va : nv[l] = va[l]
  BY Zenon DEF Overlay, At
<1>6. /\ DOMAIN ne = DOMAIN tree.edges \cup DOMAIN ea
      /\ \A l \in DOMAIN ea : ne[l] = ea[l]
      /\ \A l \in DOMAIN tree.edges : l \notin DOMAIN ea => ne[l] = tree.edges[l]
  BY Zenon DEF Overlay, At
<1>7. new.vertices = nv /\ new.edges = ne
  <2> PICK snap : snap = Snapshot(db)
    BY Zenon
  <2> HIDE DEF va, ea
  <2>1. snap.vertices = va /\ snap.edges = ea
    BY <1>1
  <2>2. new = [vertices |-> Overlay(tree.vertices, snap.vertices), edges |-> Overlay(tree.edges, snap.edges)]
    BY Zenon DEF CreateTree
  <2>3. new.vertices = Overlay(tree.vertices, snap.vertices) /\ new.edges = Overlay(tree.edges, snap.edges)
    BY <2>2
  <2> QED BY <2>1, <2>3, Zenon
<1> HIDE DEF va, ea, nv, ne
<1>8. DOMAIN nv = VLabels
  BY <1>2, <1>3, <1>5, Zenon DEF VertexFiles
<1>9. VertexFiles(nv)
  <2>1. ASSUME NEW l \in VLabels, NEW o \in nv[l], "id" \in DOMAIN o PROVE o["id"] \in IDs
    <3>0. nv[l] = {vs[l][id] : id \in DOMAIN vs[l]}
      BY <1>3, <1>5, Zenon
    <3>1. PICK id \in DOMAIN vs[l] : o = vs[l][id]
      BY <3>0, Zenon
    <3>2. Carries(id, o) /\ id \in IDs
      BY <1>2, <3>1, Zenon DEF VertexMaps
    <3>3. o["id"] = id
      BY <2>1, <3>2, Zenon DEF Carries
    <3> QED BY <3>2, <3>3, Zenon
  <2> QED BY <1>8, <2>1, Zenon DEF VertexFiles
<1>10. ASSUME NEW l \in DOMAIN es, NEW e \in DOMAIN ea[l]
       PROVE  \E f, t : e = <<f, t>> /\ Has(es, l, f, t)
  <2> PICK file : file = EdgeFile(es[l])
    BY Zenon
  <2> PICK adj : adj = es[l]
    BY Zenon
  <2>1. /\ DOMAIN file \subseteq IDs \X IDs
        /\ \A f \in IDs, t \in IDs : <<f, t>> \in DOMAIN file <=> f \in DOMAIN adj /\ t \in DOMAIN adj[f]
    BY EdgeFileIs
  <2>2. e \in DOMAIN file
    BY <1>4, Zenon
  <2>3. PICK f \in IDs, t \in IDs : e = <<f, t>>
    BY <2>1, <2>2
  <2> QED BY <2>1, <2>2, <2>3, Zenon DEF Has
<1>11. DOMAIN ne \subseteq AllLabels
  BY <1>2, <1>4, <1>6, Zenon DEF EdgeFiles, EdgeMaps
<1>12. ASSUME NEW l \in DOMAIN ne, NEW e \in DOMAIN ne[l]
       PROVE  \/ l \in DOMAIN tree.edges /\ e \in DOMAIN tree.edges[l]
              \/ l \in DOMAIN es /\ e \in DOMAIN ea[l]
  BY <1>4, <1>6, Zenon
<1>13. ASSUME NEW l \in DOMAIN ne PROVE DOMAIN ne[l] \subseteq Ends
  <2>1. ASSUME NEW e \in DOMAIN ne[l] PROVE e \in Ends
    <3>1. CASE l \in DOMAIN tree.edges /\ e \in DOMAIN tree.edges[l]
      BY <1>2, <3>1, Zenon DEF EdgeFiles
    <3>2. CASE l \in DOMAIN es /\ e \in DOMAIN ea[l]
      <4>1. PICK f, t : e = <<f, t>> /\ Has(es, l, f, t)
        BY <1>10, <3>2
      <4> QED BY <1>2, <4>1, Zenon DEF EdgeMaps
    <3> QED BY <1>12, <3>1, <3>2
  <2> QED BY <2>1
<1>14. IsFiniteSet(TreeArcs(ne))
  <2> DEFINE both == TreeArcs(tree.edges) \cup Arcs(es)
  <2>1. IsFiniteSet(both)
    BY <1>2, FS_Union, Zenon DEF EdgeFiles, EdgeMaps
  <2>2. ASSUME NEW a \in TreeArcs(ne) PROVE a \in both
    <3>1. a \in AllLabels \X IDs \X IDs /\ a[1] \in DOMAIN ne /\ <<a[2], a[3]>> \in DOMAIN ne[a[1]]
      BY Zenon DEF TreeArcs
    <3>2. CASE a[1] \in DOMAIN tree.edges /\ <<a[2], a[3]>> \in DOMAIN tree.edges[a[1]]
      BY <3>1, <3>2, Zenon DEF TreeArcs
    <3>3. CASE a[1] \in DOMAIN es /\ <<a[2], a[3]>> \in DOMAIN ea[a[1]]
      <4>1. PICK f, t : <<a[2], a[3]>> = <<f, t>> /\ Has(es, a[1], f, t)
        BY <1>10, <3>3
      <4>2. a[2] = f /\ a[3] = t
        BY <4>1
      <4>3. Has(es, a[1], a[2], a[3])
        BY <4>1, <4>2, Zenon
      <4> QED BY <3>1, <4>3, Zenon DEF Arcs
    <3> QED BY <1>12, <3>1, <3>2, <3>3
  <2>3. TreeArcs(ne) \in SUBSET both
    BY <2>2, Zenon
  <2> HIDE DEF both
  <2> QED BY <2>1, <2>3, FS_Subset, Zenon
<1>15. EdgeFiles(ne)
  BY <1>11, <1>13, <1>14, Zenon DEF EdgeFiles
<1>16. Files(new)
  BY <1>7, <1>9, <1>15, Zenon DEF Files
<1>17. \A l \in VLabels : nv[l] = {vs[l][id] : id \in DOMAIN vs[l]}
  BY <1>3, <1>5, Zenon
<1>18. \A l \in DOMAIN es : l \in DOMAIN ne /\ ne[l] = EdgeFile(es[l])
  BY <1>4, <1>6, Zenon
<1> QED BY <1>7, <1>8, <1>16, <1>17, <1>18, Zenon

-----------------------------------------------------------------------------
(* The inductive invariant *)

\* Memory is a graph, a start holds a graph or does not load, and the tree holds
\* files whose vertices carry ids and whose edges have declared ends.
GInv ==
  /\ Graph(db) /\ (start = Unloadable \/ Graph(start)) /\ Files(tree)
  /\ hasCheckpointed \in BOOLEAN /\ ops \in 0..MaxOps

\* What does not load is no graph.
LEMMA UnloadableIs == Unloadable.loads = FALSE /\ ~Graph(Unloadable)
<1>1. Unloadable.loads = FALSE
  BY DEF Unloadable
<1>2. \A st : Graph(st) => st.loads = TRUE
  BY SMT DEF Graph
<1> QED BY <1>1, <1>2

\* What a start would hold is a graph exactly when it loads.
LEMMA LoadsIs ==
  ASSUME start = Unloadable \/ Graph(start)
  PROVE  /\ start.loads <=> Graph(start)
         /\ start.loads \/ start = Unloadable
<1>1. CASE start = Unloadable
  BY <1>1, UnloadableIs
<1>2. CASE Graph(start)
  <2>1. start.loads = TRUE
    BY <1>2, SMT DEF Graph
  <2> QED BY <1>2, <2>1
<1> QED BY <1>1, <1>2

\* No record makes a tree load.
LEMMA ReplayUnloadable == ASSUME NEW records PROVE Replay(Unloadable, records) = Unloadable
BY UnloadableIs DEF Replay

\* The write of one record that is not a delete.
OneRecord(r) == GoodRecord(r) /\ r.op # "delete_vertex" /\ Write(ApplyToGraphDB(db, r), <<r>>)

\* A Set is the write of one record.
LEMMA SetWrites ==
  ASSUME Graph(db), NEW l \in VLabels, NEW id \in IDs, NEW o, Set(l, id, o) PROVE \E r : OneRecord(r)
<1> DEFINE r == VertexRecord("set_vertex", l, id, o)
<1>1. r.op # "delete_vertex"
  BY DEF VertexRecord
<1>2. ValidId(id, o, TRUE) /\ Write(SetVertices(l, Put(db.vertices[l], id, o)), <<r>>)
  BY Zenon DEF Set
<1>3. GoodRecord(r) /\ SetVertices(l, Put(db.vertices[l], id, o)) = ApplyToGraphDB(db, r)
  BY <1>2, SetIsReplayed
<1> HIDE DEF r
<1>4. OneRecord(r)
  BY <1>1, <1>2, <1>3, Zenon DEF OneRecord
<1> QED BY <1>4, Zenon

\* A Patch is the write of one record.
LEMMA PatchWrites ==
  ASSUME Graph(db), NEW l \in VLabels, NEW id \in IDs, NEW o, Patch(l, id, o) PROVE \E r : OneRecord(r)
<1> DEFINE r == VertexRecord("patch_vertex", l, id, o)
           new == SetVertices(l, Put(db.vertices[l], id, JSONMerge(At(db.vertices[l], id, NoProps), o)))
<1>1. r.op # "delete_vertex"
  BY DEF VertexRecord
<1>2. ValidId(id, o, FALSE) /\ Write(new, <<r>>)
  BY Zenon DEF Patch
<1>3. GoodRecord(r) /\ new = ApplyToGraphDB(db, r)
  BY <1>2, PatchIsReplayed
<1> HIDE DEF r, new
<1>4. OneRecord(r)
  BY <1>1, <1>2, <1>3, Zenon DEF OneRecord
<1> QED BY <1>4, Zenon

\* AddEdge, SetEdge and PatchEdge are writes of one record.
LEMMA EdgeWrites ==
  ASSUME Graph(db), NEW l \in AllLabels, NEW f, NEW t, <<f, t>> \in Ends, NEW op, NEW o, NEW p,
         \/ op \in {"add_edge", "set_edge"} /\ p = o
         \/ op = "patch_edge" /\ p = JSONMerge(GetEdge(db.edges, l, f, t), o),
         Write(SetEdges(PutEdge(db.edges, l, f, t, p)), <<EdgeRecord(op, l, f, t, o)>>)
  PROVE  \E r : OneRecord(r)
<1> DEFINE r == EdgeRecord(op, l, f, t, o)
<1>1. r.op = op
  BY DEF EdgeRecord
<1>2. op # "delete_vertex"
  OBVIOUS
<1>3. GoodRecord(r) /\ SetEdges(PutEdge(db.edges, l, f, t, p)) = ApplyToGraphDB(db, r)
  BY EdgeWriteIsReplayed
<1>4. Write(SetEdges(PutEdge(db.edges, l, f, t, p)), <<r>>)
  OBVIOUS
<1> HIDE DEF r
<1>5. OneRecord(r)
  BY <1>1, <1>2, <1>3, <1>4, Zenon DEF OneRecord
<1> QED BY <1>5, Zenon

\* A RemoveEdge is the write of one record.
LEMMA RemoveWrites ==
  ASSUME Graph(db), NEW l, NEW f, NEW t, RemoveEdge(l, f, t) PROVE \E r : OneRecord(r)
<1> DEFINE r == EdgeRecord("remove_edge", l, f, t, NoProps)
<1>1. r.op # "delete_vertex"
  BY DEF EdgeRecord
<1>2. Write(SetEdges(CutEdge(db.edges, l, f, t)), <<r>>)
  BY Zenon DEF RemoveEdge
<1>3. GoodRecord(r) /\ SetEdges(CutEdge(db.edges, l, f, t)) = ApplyToGraphDB(db, r)
  BY RemoveIsReplayed
<1> HIDE DEF r
<1>4. OneRecord(r)
  BY <1>1, <1>2, <1>3, Zenon DEF OneRecord
<1> QED BY <1>4, Zenon

\* The vertex records that another process may have appended.
LEMMA VertexRecordGood ==
  ASSUME NEW op, op \in {"set_vertex", "patch_vertex"}, NEW l, NEW id \in IDs, NEW o
  PROVE  LET r == VertexRecord(op, l, id, o) IN GoodRecord(r) /\ r.op # "delete_vertex"
<1> PICK r : r = VertexRecord(op, l, id, o)
  BY Zenon
<1>1. r.op = op /\ r.id = id
  BY DEF VertexRecord
<1>2. r.op # "delete_vertex" /\ r.op \notin {"add_edge", "set_edge", "patch_edge"}
  BY <1>1
<1>3. GoodRecord(r)
  BY <1>1, <1>2, Zenon DEF GoodRecord
<1> QED BY <1>2, <1>3, Zenon

\* The edge records that another process may have appended.
LEMMA PatchEdgeRecordGood ==
  ASSUME NEW l \in AllLabels, NEW f, NEW t, <<f, t>> \in Ends, NEW o
  PROVE  LET r == EdgeRecord("patch_edge", l, f, t, o) IN GoodRecord(r) /\ r.op # "delete_vertex"
<1> PICK r : r = EdgeRecord("patch_edge", l, f, t, o)
  BY Zenon
<1>1. r.op = "patch_edge" /\ r.label = l /\ r.from = f /\ r.to = t
  BY DEF EdgeRecord
<1>2. r.op # "delete_vertex" /\ r.op \notin {"set_vertex", "patch_vertex"}
  BY <1>1
<1>3. GoodRecord(r)
  BY <1>1, <1>2, Zenon DEF GoodRecord
<1> QED BY <1>2, <1>3, Zenon

\* A Poll is the write of one record.
LEMMA PollWrites ==
  ASSUME NEW r \in ForeignRecords, Poll(r) PROVE \E s : OneRecord(s)
<1>1. \/ \E l, id, o : id \in IDs /\ (r = VertexRecord("set_vertex", l, id, o) \/ r = VertexRecord("patch_vertex", l, id, o))
      \/ \E l \in AllLabels, e \in Ends : \E o : r = EdgeRecord("patch_edge", l, e[1], e[2], o)
  <2> DEFINE A == {VertexRecord("set_vertex", l, id, WithId(other, o)) :
                     l \in VLabels \cup DynLabels, id \in IDs, other \in IDs, o \in Objects}
             B == {VertexRecord("patch_vertex", l, id, WithId(other, o)) :
                     l \in VLabels, id \in IDs, other \in IDs, o \in Objects}
             C == {EdgeRecord("patch_edge", l, e[1], e[2], o) : l \in AllLabels, e \in Ends, o \in Objects}
  <2>1. \A x \in A : \E l, id, o : id \in IDs /\ x = VertexRecord("set_vertex", l, id, o)
    OBVIOUS
  <2>2. \A x \in B : \E l, id, o : id \in IDs /\ x = VertexRecord("patch_vertex", l, id, o)
    OBVIOUS
  <2>3. \A x \in C : \E l \in AllLabels, e \in Ends : \E o : x = EdgeRecord("patch_edge", l, e[1], e[2], o)
    OBVIOUS
  <2>4. r \in A \/ r \in B \/ r \in C
    BY DEF ForeignRecords
  <2> HIDE DEF A, B, C
  <2> QED BY <2>1, <2>2, <2>3, <2>4
<1>2. GoodRecord(r) /\ r.op # "delete_vertex"
  <2>1. ASSUME NEW l, NEW id \in IDs, NEW o,
               r = VertexRecord("set_vertex", l, id, o) \/ r = VertexRecord("patch_vertex", l, id, o)
        PROVE  GoodRecord(r) /\ r.op # "delete_vertex"
    BY <2>1, VertexRecordGood
  <2>2. ASSUME NEW l \in AllLabels, NEW e \in Ends, NEW o, r = EdgeRecord("patch_edge", l, e[1], e[2], o)
        PROVE  GoodRecord(r) /\ r.op # "delete_vertex"
    <3>1. <<e[1], e[2]>> \in Ends
      BY GraphAssumption, SMT DEF GraphAssumption
    <3> QED BY <2>2, <3>1, PatchEdgeRecordGood
  <2> QED BY <1>1, <2>1, <2>2
<1> QED BY <1>2, Zenon DEF OneRecord, Poll

\* The steps of the graph.
LEMMA NextIs ==
  ASSUME Graph(db), Next
  PROVE  \/ \E r : OneRecord(r)
         \/ \E l \in VLabels, id \in IDs : Delete(l, id) \/ CrashInDelete(l, id)
         \/ Checkpoint \/ Restart
<1>1. CASE VertexWrite
  <2>1. PICK l \in VLabels, id \in IDs :
          \/ \E o \in Objects, other \in IDs : Set(l, id, WithId(other, o)) \/ Patch(l, id, WithId(other, o))
          \/ \E o \in Objects : Patch(l, id, o)
          \/ Delete(l, id) \/ CrashInDelete(l, id)
    BY <1>1, Zenon DEF VertexWrite
  <2>2. ASSUME NEW o, Set(l, id, o) \/ Patch(l, id, o) PROVE \E r : OneRecord(r)
    BY <2>2, SetWrites, PatchWrites
  <2> QED BY <2>1, <2>2, Zenon
<1>2. CASE EdgeWrite
  <2>1. PICK l \in AllLabels, e \in Ends :
          \/ AddEdge(l, e[1], e[2]) \/ RemoveEdge(l, e[1], e[2])
          \/ \E o \in Objects : SetEdge(l, e[1], e[2], o) \/ PatchEdge(l, e[1], e[2], o)
    BY <1>2, Zenon DEF EdgeWrite
  <2> PICK f, t : f = e[1] /\ t = e[2]
    BY Zenon
  <2>2. <<f, t>> \in Ends
    BY GraphAssumption, SMT DEF GraphAssumption
  <2>3. CASE AddEdge(l, e[1], e[2])
    <3>1. Write(SetEdges(PutEdge(db.edges, l, f, t, NoProps)), <<EdgeRecord("add_edge", l, f, t, NoProps)>>)
      BY <2>3, Zenon DEF AddEdge
    <3>2. "add_edge" \in {"add_edge", "set_edge"}
      OBVIOUS
    <3> QED BY <2>2, <3>1, <3>2, EdgeWrites, Zenon
  <2>4. CASE RemoveEdge(l, e[1], e[2])
    BY <2>4, RemoveWrites, Zenon
  <2>5. ASSUME NEW o, SetEdge(l, e[1], e[2], o) PROVE \E r : OneRecord(r)
    <3>1. Write(SetEdges(PutEdge(db.edges, l, f, t, o)), <<EdgeRecord("set_edge", l, f, t, o)>>)
      BY <2>5, Zenon DEF SetEdge
    <3>2. "set_edge" \in {"add_edge", "set_edge"}
      OBVIOUS
    <3> QED BY <2>2, <3>1, <3>2, EdgeWrites, Zenon
  <2>6. ASSUME NEW o, PatchEdge(l, e[1], e[2], o) PROVE \E r : OneRecord(r)
    <3> PICK p : p = JSONMerge(GetEdge(db.edges, l, f, t), o)
      BY Zenon
    <3>1. Write(SetEdges(PutEdge(db.edges, l, f, t, p)), <<EdgeRecord("patch_edge", l, f, t, o)>>)
      BY <2>6, Zenon DEF PatchEdge
    <3> QED BY <2>2, <3>1, EdgeWrites, Zenon
  <2> QED BY <2>1, <2>3, <2>4, <2>5, <2>6, Zenon
<1>3. ASSUME NEW r \in ForeignRecords, Poll(r) PROVE \E s : OneRecord(s)
  BY <1>3, PollWrites
<1> QED BY <1>1, <1>2, <1>3, Zenon DEF Next

-----------------------------------------------------------------------------
(* Each step *)

\* The write of one record applies it to memory and to what a start would hold.
LEMMA OneRecordStep ==
  ASSUME GInv, NEW r, OneRecord(r)
  PROVE  /\ db' = ApplyToGraphDB(db, r) /\ Graph(db') /\ tree' = tree /\ hasCheckpointed' = hasCheckpointed
         /\ Graph(start) => start' = ApplyToGraphDB(start, r) /\ Graph(start')
         /\ start = Unloadable => start' = Unloadable
         /\ ops' \in 0..MaxOps
<1>1. GoodRecord(r) /\ Write(ApplyToGraphDB(db, r), <<r>>) /\ Graph(db)
  BY Zenon DEF OneRecord, GInv
<1>2. /\ db' = ApplyToGraphDB(db, r) /\ start' = Replay(start, <<r>>)
      /\ tree' = tree /\ hasCheckpointed' = hasCheckpointed /\ ops < MaxOps /\ ops' = ops + 1
  BY <1>1, Zenon DEF Write
<1>3. Graph(db')
  BY <1>1, <1>2, ApplyGraph, Zenon
<1>4. ASSUME Graph(start) PROVE start' = ApplyToGraphDB(start, r) /\ Graph(start')
  <2>1. start.loads = TRUE
    BY <1>4, SMT DEF Graph
  <2>2. start' = ApplyToGraphDB(start, r)
    BY <1>2, <2>1, ReplayOne, Zenon
  <2> QED BY <1>1, <1>4, <2>2, ApplyGraph, Zenon
<1>5. start = Unloadable => start' = Unloadable
  BY <1>2, ReplayUnloadable, Zenon
<1>6. ops' \in 0..MaxOps
  BY <1>2, GraphAssumption, SMT DEF GInv, GraphAssumption
<1> QED BY <1>2, <1>3, <1>4, <1>5, <1>6, Zenon

\* In any order the records of a delete cut the edges at the vertex, and drop it.
LEMMA OrderCuts ==
  ASSUME Graph(db), NEW l \in VLabels, NEW id, NEW records \in DeleteRecords(l, id), NEW order \in AnyOrder(records)
  PROVE  /\ Len(order) \in Nat /\ \A k \in 1..Len(order) : IsDelete(order[k])
         /\ \A k, f, t : CutUpTo(order, Len(order), k, f, t) <=> Has(db.edges, k, f, t) /\ Touches(id, f, t)
         /\ \A k, x : DroppedUpTo(order, Len(order), k, x) <=> k = l /\ x = id
<1> DEFINE C == Cascade(db.edges, id)
           d == DropRecord(l, id)
           n == Len(order)
<1>1. /\ n \in Nat /\ \A k \in 1..n : order[k] \in C \cup {d}
      /\ \A r \in C \cup {d} : \E k \in 1..n : order[k] = r
  <2>1. HasRecords(order, C \cup {d})
    BY OrdersAre, Zenon
  <2> QED BY <2>1, Zenon DEF HasRecords
<1>2. d.op = "delete_vertex" /\ d.label = l /\ d.id = id
  BY DropRecordIs
<1>3. \A r \in C : IsDelete(r) /\ r.op # "delete_vertex"
  BY CutRecordDeletes
<1>4. \A r : r \in C <=> \E k, f, t : Has(db.edges, k, f, t) /\ Touches(id, f, t) /\ r = CutRecord(k, f, t)
  BY CascadeIs
<1>5. d \notin C /\ IsDelete(d) /\ d.op # "delete_edge"
  <2>1. d.op # "delete_edge"
    <3> HIDE DEF d
    <3> PICK op : op = d.op
      BY Zenon
    <3>1. op # "delete_edge"
      BY <1>2
    <3> QED BY <3>1, Zenon
  <2> HIDE DEF d, C
  <2> QED BY <1>2, <1>3, <2>1, Zenon DEF IsDelete
<1> HIDE DEF C, d, n
<1>6. \A k \in 1..n : IsDelete(order[k])
  BY <1>1, <1>3, <1>5, Zenon
<1>7. ASSUME NEW k, NEW f, NEW t
      PROVE  CutUpTo(order, n, k, f, t) <=> Has(db.edges, k, f, t) /\ Touches(id, f, t)
  <2>1. ASSUME CutUpTo(order, n, k, f, t) PROVE Has(db.edges, k, f, t) /\ Touches(id, f, t)
    <3>1. PICK j \in 1..n : CutsArc(order[j], k, f, t)
      BY <2>1, Zenon DEF CutUpTo
    <3>2. PICK r : r = order[j]
      BY Zenon
    <3>3. r.op = "delete_edge" /\ r.label = k /\ r.from = f /\ r.to = t
      BY <3>1, <3>2, Zenon DEF CutsArc
    <3>4. r \in C
      BY <1>1, <1>5, <3>2, <3>3, Zenon
    <3>5. PICK a, b, c : Has(db.edges, a, b, c) /\ Touches(id, b, c) /\ r = CutRecord(a, b, c)
      BY <1>4, <3>4
    <3>6. a = k /\ b = f /\ c = t
      BY <3>3, <3>5, CutRecordIs
    <3> QED BY <3>5, <3>6, Zenon
  <2>2. ASSUME Has(db.edges, k, f, t), Touches(id, f, t) PROVE CutUpTo(order, n, k, f, t)
    <3> PICK r : r = CutRecord(k, f, t)
      BY Zenon
    <3>1. r \in C
      BY <1>4, <2>2
    <3>2. PICK j \in 1..n : order[j] = r
      BY <1>1, <3>1, Zenon
    <3>3. CutsArc(r, k, f, t)
      BY CutRecordIs DEF CutsArc
    <3> QED BY <3>2, <3>3, Zenon DEF CutUpTo
  <2> QED BY <2>1, <2>2, Zenon
<1>8. ASSUME NEW k, NEW x PROVE DroppedUpTo(order, n, k, x) <=> k = l /\ x = id
  <2>1. ASSUME DroppedUpTo(order, n, k, x) PROVE k = l /\ x = id
    <3>1. PICK j \in 1..n : DropsVertex(order[j], k, x)
      BY <2>1, Zenon DEF DroppedUpTo
    <3>2. order[j] = d
      BY <1>1, <1>3, <3>1, Zenon DEF DropsVertex
    <3> QED BY <1>2, <3>1, <3>2, Zenon DEF DropsVertex
  <2>2. ASSUME k = l, x = id PROVE DroppedUpTo(order, n, k, x)
    <3>1. PICK j \in 1..n : order[j] = d
      BY <1>1, Zenon
    <3> QED BY <1>2, <2>2, <3>1, Zenon DEF DroppedUpTo, DropsVertex
  <2> QED BY <2>1, <2>2, Zenon
<1>9. \A k, f, t : CutUpTo(order, n, k, f, t) <=> Has(db.edges, k, f, t) /\ Touches(id, f, t)
  BY <1>7
<1>10. \A k, x : DroppedUpTo(order, n, k, x) <=> k = l /\ x = id
  BY <1>8
<1> QED BY <1>1, <1>6, <1>9, <1>10, Zenon DEF n

\* A graph without the edges at a vertex and without the vertex.
Lacks(st, new, edges, l, id) ==
  /\ Graph(new)
  /\ \A k, f, t : Has(new.edges, k, f, t) <=> Has(st.edges, k, f, t) /\ ~(Has(edges, k, f, t) /\ Touches(id, f, t))
  /\ \A k, f, t : Has(new.edges, k, f, t) => new.edges[k][f][t] = st.edges[k][f][t]
  /\ \A k \in VLabels : \A x : x \in DOMAIN new.vertices[k] <=> x \in DOMAIN st.vertices[k] /\ ~(k = l /\ x = id)
  /\ \A k \in VLabels : \A x \in DOMAIN new.vertices[k] : new.vertices[k][x] = st.vertices[k][x]

\* The records of a delete, in any order, take from a graph the vertex and those
\* of its edges that memory had.
LEMMA ReplayLacks ==
  ASSUME Graph(db), NEW st, Graph(st), NEW l \in VLabels, NEW id,
         NEW records \in DeleteRecords(l, id), NEW order \in AnyOrder(records)
  PROVE  Lacks(st, Replay(st, order), db.edges, l, id)
<1> PICK new : new = Replay(st, order)
  BY Zenon
<1> PICK n : n = Len(order)
  BY Zenon
<1>1. /\ n \in Nat /\ \A k \in 1..n : IsDelete(order[k])
      /\ \A k, f, t : CutUpTo(order, n, k, f, t) <=> Has(db.edges, k, f, t) /\ Touches(id, f, t)
      /\ \A k, x : DroppedUpTo(order, n, k, x) <=> k = l /\ x = id
  BY OrderCuts
<1>2. Left(st, new, order, n)
  BY <1>1, DeletesReplay, Zenon
<1>3. Graph(new) /\ EdgesLeft(st.edges, new.edges, order, n) /\ VerticesLeft(st.vertices, new.vertices, order, n)
  BY <1>2, Zenon DEF Left
<1>4. ASSUME NEW k, NEW f, NEW t
      PROVE  /\ Has(new.edges, k, f, t) <=> Has(st.edges, k, f, t) /\ ~(Has(db.edges, k, f, t) /\ Touches(id, f, t))
             /\ Has(new.edges, k, f, t) => new.edges[k][f][t] = st.edges[k][f][t]
  <2>1. /\ Has(new.edges, k, f, t) <=> Has(st.edges, k, f, t) /\ ~CutUpTo(order, n, k, f, t)
        /\ Has(new.edges, k, f, t) => new.edges[k][f][t] = st.edges[k][f][t]
    BY <1>3 DEF EdgesLeft
  <2>2. CutUpTo(order, n, k, f, t) <=> Has(db.edges, k, f, t) /\ Touches(id, f, t)
    BY <1>1
  <2> QED BY <2>1, <2>2, Zenon
<1>5. ASSUME NEW k \in VLabels, NEW x
      PROVE  /\ x \in DOMAIN new.vertices[k] <=> x \in DOMAIN st.vertices[k] /\ ~(k = l /\ x = id)
             /\ x \in DOMAIN new.vertices[k] => new.vertices[k][x] = st.vertices[k][x]
  <2>1. /\ x \in DOMAIN new.vertices[k] <=> x \in DOMAIN st.vertices[k] /\ ~DroppedUpTo(order, n, k, x)
        /\ x \in DOMAIN new.vertices[k] => new.vertices[k][x] = st.vertices[k][x]
    BY <1>3, Zenon DEF VerticesLeft
  <2>2. DroppedUpTo(order, n, k, x) <=> k = l /\ x = id
    BY <1>1
  <2> QED BY <2>1, <2>2, Zenon
<1>6. Lacks(st, new, db.edges, l, id)
  BY <1>3, <1>4, <1>5 DEF Lacks
<1> QED BY <1>6, Zenon

\* So does the delete in memory.
LEMMA WithoutLacks ==
  ASSUME Graph(db), NEW l \in VLabels, NEW id
  PROVE  Lacks(db, WithoutVertex(l, id), db.edges, l, id)
<1> PICK new : new = WithoutVertex(l, id)
  BY Zenon
<1> PICK data : data = Drop(db.vertices[l], id)
  BY Zenon
<1> PICK vs : vs = Put(db.vertices, l, data)
  BY Zenon
<1>1. /\ new = [vertices |-> vs, edges |-> new.edges, loads |-> TRUE]
      /\ IsMap(new.edges) /\ DOMAIN new.edges = DOMAIN db.edges
      /\ \A k, f, t : Has(new.edges, k, f, t) <=> Has(db.edges, k, f, t) /\ ~Touches(id, f, t)
      /\ \A k, f, t : Has(new.edges, k, f, t) => new.edges[k][f][t] = db.edges[k][f][t]
  BY WithoutVertexIs
<1>2. VertexMaps(db.vertices) /\ EdgeMaps(db.edges)
  BY Zenon DEF Graph
<1>3. VertexMaps(vs)
  BY <1>2, DropVertexMaps, Zenon
<1>4. EdgeMaps(new.edges)
  <2>1. \A k, f, t : Has(new.edges, k, f, t) => Has(db.edges, k, f, t)
    BY <1>1
  <2>2. IsMap(new.edges) /\ DOMAIN new.edges \subseteq DOMAIN db.edges
    BY <1>1, Zenon
  <2> QED BY <1>2, <2>1, <2>2, FewerArcs, Zenon
<1>5. Graph(new)
  BY <1>1, <1>3, <1>4, MakeGraph, Zenon
<1>6. new.vertices = vs
  BY <1>1
<1>7. /\ \A k \in VLabels : vs[k] = IF k = l THEN data ELSE db.vertices[k]
      /\ \A x : x \in DOMAIN data <=> x \in DOMAIN db.vertices[l] /\ x # id
      /\ \A x \in DOMAIN data : data[x] = db.vertices[l][x]
  <2>1. DOMAIN db.vertices = VLabels
    BY <1>2, Zenon DEF VertexMaps
  <2> QED BY <2>1, Zenon DEF Put, Drop
<1>8. ASSUME NEW k \in VLabels, NEW x
      PROVE  /\ x \in DOMAIN new.vertices[k] <=> x \in DOMAIN db.vertices[k] /\ ~(k = l /\ x = id)
             /\ x \in DOMAIN new.vertices[k] => new.vertices[k][x] = db.vertices[k][x]
  BY <1>6, <1>7, Zenon
<1>9. ASSUME NEW k, NEW f, NEW t
      PROVE  /\ Has(new.edges, k, f, t) <=> Has(db.edges, k, f, t) /\ ~(Has(db.edges, k, f, t) /\ Touches(id, f, t))
             /\ Has(new.edges, k, f, t) => new.edges[k][f][t] = db.edges[k][f][t]
  BY <1>1
<1>10. Lacks(db, new, db.edges, l, id)
  BY <1>5, <1>8, <1>9 DEF Lacks
<1> QED BY <1>10, Zenon

\* A Delete takes the same from memory and from what a start would hold.
LEMMA DeleteStep ==
  ASSUME GInv, NEW l \in VLabels, NEW id, Delete(l, id)
  PROVE  /\ Lacks(db, db', db.edges, l, id) /\ tree' = tree /\ hasCheckpointed' = hasCheckpointed
         /\ Graph(start) => Lacks(start, start', db.edges, l, id)
         /\ start = Unloadable => start' = Unloadable
         /\ ops' \in 0..MaxOps
<1>1. PICK records \in DeleteRecords(l, id) : \E order \in AnyOrder(records) : Write(WithoutVertex(l, id), order)
  BY Zenon DEF Delete
<1>2. PICK order \in AnyOrder(records) : Write(WithoutVertex(l, id), order)
  BY <1>1
<1>3. /\ db' = WithoutVertex(l, id) /\ start' = Replay(start, order)
      /\ tree' = tree /\ hasCheckpointed' = hasCheckpointed /\ ops < MaxOps /\ ops' = ops + 1
  BY <1>2, Zenon DEF Write
<1>4. Graph(db)
  BY Zenon DEF GInv
<1>5. Lacks(db, db', db.edges, l, id)
  BY <1>3, <1>4, WithoutLacks, Zenon
<1>6. Graph(start) => Lacks(start, start', db.edges, l, id)
  BY <1>3, <1>4, ReplayLacks
<1>7. start = Unloadable => start' = Unloadable
  BY <1>3, ReplayUnloadable, Zenon
<1>8. ops' \in 0..MaxOps
  BY <1>3, GraphAssumption, SMT DEF GInv, GraphAssumption
<1> QED BY <1>3, <1>5, <1>6, <1>7, <1>8, Zenon

\* A prefix of the records of a delete leaves the vertex.
LEMMA CrashStep ==
  ASSUME GInv, NEW l \in VLabels, NEW id, CrashInDelete(l, id)
  PROVE  /\ Graph(start) /\ Graph(start') /\ db' = start' /\ tree' = tree /\ hasCheckpointed' = FALSE
         /\ \A k \in VLabels : DOMAIN start'.vertices[k] = DOMAIN start.vertices[k]
         /\ ops' \in 0..MaxOps
<1>1. PICK records \in DeleteRecords(l, id) : \E n \in 0..Len(records) - 1 :
        /\ ops < MaxOps /\ ops' = ops + 1 /\ start.loads
        /\ db' = Replay(start, SubSeq(records, 1, n)) /\ start' = db'
        /\ hasCheckpointed' = FALSE /\ UNCHANGED tree
  BY Zenon DEF CrashInDelete
<1>2. PICK n \in 0..Len(records) - 1 :
        /\ ops < MaxOps /\ ops' = ops + 1 /\ start.loads
        /\ db' = Replay(start, SubSeq(records, 1, n)) /\ start' = db'
        /\ hasCheckpointed' = FALSE /\ tree' = tree
  BY <1>1
<1>3. Graph(db) /\ Graph(start)
  BY <1>2, LoadsIs, Zenon DEF GInv
<1> DEFINE C == Cascade(db.edges, id)
           S == C \cup {DropRecord(l, id)}
<1>4. PICK m \in Nat : records \in Seq(S) /\ Len(records) = m + 1 /\ \A k \in 1..m : records[k] \in C
  <2>1. DeleteRecordsHolds(records, l, id)
    BY <1>3, DeleteRecordsAre, Zenon
  <2> QED BY <2>1, Zenon DEF DeleteRecordsHolds
<1> HIDE DEF C, S
<1> PICK prefix : prefix = SubSeq(records, 1, n)
  BY Zenon
<1>5. n \in 0..m
  BY <1>4
<1>6. Len(prefix) = n /\ n \in Nat /\ \A k \in 1..n : prefix[k] = records[k] /\ k \in 1..m
  BY <1>4, <1>5
<1>7. ASSUME NEW k \in 1..n PROVE IsDelete(prefix[k]) /\ prefix[k].op # "delete_vertex"
  <2>1. prefix[k] \in C
    BY <1>4, <1>6, Zenon
  <2> QED BY <2>1, CutRecordDeletes DEF C
<1>8. Left(start, start', prefix, n)
  BY <1>2, <1>3, <1>6, <1>7, DeletesReplay, Zenon
<1>9. \A k, x : ~DroppedUpTo(prefix, n, k, x)
  BY <1>7, Zenon DEF DroppedUpTo, DropsVertex
<1>10. Graph(start') /\ VerticesLeft(start.vertices, start'.vertices, prefix, n)
  BY <1>8, Zenon DEF Left
<1>11. ASSUME NEW k \in VLabels PROVE DOMAIN start'.vertices[k] = DOMAIN start.vertices[k]
  BY <1>9, <1>10, Zenon DEF VerticesLeft
<1>12. ops' \in 0..MaxOps
  BY <1>2, GraphAssumption, SMT DEF GInv, GraphAssumption
<1> QED BY <1>2, <1>3, <1>10, <1>11, <1>12, Zenon

\* The files load again if and only if every vertex has its id field.
LEMMA CheckpointStep ==
  ASSUME GInv, Checkpoint
  PROVE  /\ db' = db /\ hasCheckpointed' = TRUE /\ hasCheckpointed = FALSE /\ Files(tree') /\ ops' \in 0..MaxOps
         /\ start' = Unloadable \/ Graph(start')
         /\ Graph(start') <=> \A l \in VLabels : \A id \in DOMAIN db.vertices[l] : "id" \in DOMAIN db.vertices[l][id]
         /\ Graph(start') => /\ SameVertices(start'.vertices, db.vertices)
                             /\ \A l \in ELabels \cap DOMAIN db.edges :
                                  EdgeFile(start'.edges[l]) = EdgeFile(db.edges[l])
<1>1. /\ hasCheckpointed' = TRUE /\ ~hasCheckpointed /\ ops < MaxOps /\ ops' = ops + 1
      /\ tree' = CreateTree(Snapshot(db)) /\ start' = LoadGraphState(tree') /\ db' = db
  BY Zenon DEF Checkpoint
<1>2. Graph(db) /\ Files(tree) /\ hasCheckpointed \in BOOLEAN
  BY Zenon DEF GInv
<1> DEFINE vs == db.vertices
           es == db.edges
           nv == tree'.vertices
           ne == tree'.edges
<1>3. /\ Files(tree') /\ DOMAIN nv = VLabels
      /\ \A l \in VLabels : nv[l] = {vs[l][id] : id \in DOMAIN vs[l]}
      /\ \A l \in DOMAIN es : l \in DOMAIN ne /\ ne[l] = EdgeFile(es[l])
  BY <1>1, <1>2, SnapshotIs
<1>4. /\ \/ start' = Unloadable /\ \E l \in VLabels : \E o \in At(nv, l, {}) : "id" \notin DOMAIN o
         \/ Graph(start') /\ \A l \in VLabels : \A o \in At(nv, l, {}) : "id" \in DOMAIN o
      /\ Graph(start') => /\ \A l \in VLabels : start'.vertices[l] = LoadVertexFile(At(nv, l, {}))
                          /\ DOMAIN start'.edges = ELabels
                          /\ \A l \in ELabels : start'.edges[l] = LoadEdgeFile(At(ne, l, None))
  BY <1>1, <1>3, LoadIs
<1> HIDE DEF nv, ne
<1>5. \A l \in VLabels : At(nv, l, {}) = {vs[l][id] : id \in DOMAIN vs[l]}
  BY <1>3, Zenon DEF At
<1>6. start' = Unloadable \/ Graph(start')
  BY <1>4, Zenon
<1>7. Graph(start') <=> \A l \in VLabels : \A id \in DOMAIN vs[l] : "id" \in DOMAIN vs[l][id]
  <2>1. ASSUME Graph(start'), NEW l \in VLabels, NEW id \in DOMAIN vs[l] PROVE "id" \in DOMAIN vs[l][id]
    <3>1. start' # Unloadable
      BY <2>1, UnloadableIs, Zenon
    <3>2. \A o \in At(nv, l, {}) : "id" \in DOMAIN o
      BY <1>4, <3>1, Zenon
    <3>3. vs[l][id] \in At(nv, l, {})
      BY <1>5, Zenon
    <3> QED BY <3>2, <3>3, Zenon
  <2>2. ASSUME \A l \in VLabels : \A id \in DOMAIN vs[l] : "id" \in DOMAIN vs[l][id] PROVE Graph(start')
    <3>1. ASSUME NEW l \in VLabels, NEW o \in At(nv, l, {}) PROVE "id" \in DOMAIN o
      <4>1. PICK id \in DOMAIN vs[l] : o = vs[l][id]
        BY <1>5, Zenon
      <4> QED BY <2>2, <4>1, Zenon
    <3> QED BY <1>4, <3>1, Zenon
  <2> QED BY <2>1, <2>2, Zenon
<1>8. VertexMaps(vs) /\ EdgeMaps(es)
  BY <1>2, Zenon DEF Graph
<1>9. ASSUME Graph(start') PROVE SameVertices(start'.vertices, vs)
  <2>1. ASSUME NEW l \in VLabels
        PROVE  /\ DOMAIN start'.vertices[l] = DOMAIN vs[l]
               /\ \A id \in DOMAIN start'.vertices[l] : start'.vertices[l][id] = vs[l][id]
    <3> PICK records : records = At(nv, l, {})
      BY Zenon
    <3> PICK data : data = start'.vertices[l]
      BY Zenon
    <3>1. data = LoadVertexFile(records)
      BY <1>4, <1>9, Zenon
    <3>2. \A id \in DOMAIN vs[l] : id \in IDs /\ "id" \in DOMAIN vs[l][id] /\ vs[l][id]["id"] = id
      BY <1>7, <1>8, <1>9, Zenon DEF VertexMaps, Carries
    <3>3. \A o : o \in records <=> \E id \in DOMAIN vs[l] : o = vs[l][id]
      BY <1>5, Zenon
    <3>4. \A o \in records : "id" \in DOMAIN o /\ o["id"] \in IDs
      BY <3>2, <3>3, Zenon
    <3>5. /\ DOMAIN data = {o["id"] : o \in records}
          /\ \A id \in DOMAIN data : data[id] \in records /\ data[id]["id"] = id
      BY <3>1, <3>4, LoadVertexFileIs, Zenon
    <3>6. ASSUME NEW id \in DOMAIN data PROVE id \in DOMAIN vs[l] /\ data[id] = vs[l][id]
      <4>1. PICK x \in DOMAIN vs[l] : data[id] = vs[l][x]
        BY <3>3, <3>5, Zenon
      <4>2. data[id]["id"] = x /\ data[id]["id"] = id
        BY <3>2, <3>5, <4>1, Zenon
      <4>3. x = id
        BY <4>2, Zenon
      <4> QED BY <4>1, <4>3, Zenon
    <3>7. ASSUME NEW id \in DOMAIN vs[l] PROVE id \in DOMAIN data
      <4> PICK o : o = vs[l][id]
        BY Zenon
      <4>1. o \in records /\ o["id"] = id
        BY <3>2, <3>3, Zenon
      <4> QED BY <3>5, <4>1, Zenon
    <3> QED BY <3>6, <3>7, Zenon
  <2> QED BY <2>1, Zenon DEF SameVertices
<1>10. ASSUME Graph(start'), NEW l \in ELabels \cap DOMAIN es PROVE EdgeFile(start'.edges[l]) = EdgeFile(es[l])
  <2> PICK file : file = EdgeFile(es[l])
    BY Zenon
  <2>1. l \in DOMAIN ne /\ ne[l] = file
    BY <1>3, Zenon
  <2>2. start'.edges[l] = LoadEdgeFile(file)
    BY <1>4, <1>10, <2>1, Zenon DEF At
  <2>3. DOMAIN file \subseteq Ends
    BY <1>3, <2>1, Zenon DEF Files, EdgeFiles, ne
  <2> QED BY <2>2, <2>3, FileAgain, Zenon
<1>11. ops' \in 0..MaxOps
  BY <1>1, GraphAssumption, SMT DEF GInv, GraphAssumption
<1>12. hasCheckpointed = FALSE
  BY <1>1, <1>2, Zenon
<1> QED BY <1>1, <1>3, <1>6, <1>7, <1>9, <1>10, <1>11, <1>12, Zenon

-----------------------------------------------------------------------------
(* Induction *)

\* The empty tree loads as the empty graph.
LEMMA InitGInv == Init => GInv
<1> SUFFICES ASSUME Init PROVE GInv
  OBVIOUS
<1>1. /\ tree = [vertices |-> None, edges |-> None] /\ db = LoadGraphState(tree) /\ start = db
      /\ hasCheckpointed = FALSE /\ ops = 0
  BY Zenon DEF Init
<1>2. tree.vertices = None /\ tree.edges = None
  BY <1>1
<1>3. DOMAIN tree.vertices = {} /\ DOMAIN tree.edges = {}
  BY <1>2, NoneIs, Zenon
<1>4. Files(tree)
  <2>1. TreeArcs(tree.edges) = {}
    BY <1>3, Zenon DEF TreeArcs
  <2>2. IsFiniteSet(TreeArcs(tree.edges))
    BY <2>1, FS_EmptySet, Zenon
  <2>3. VertexFiles(tree.vertices) /\ EdgeFiles(tree.edges)
    BY <1>3, <2>2, Zenon DEF VertexFiles, EdgeFiles
  <2> QED BY <2>3, Zenon DEF Files
<1>5. \A l : At(tree.vertices, l, {}) = {}
  BY <1>3, Zenon DEF At
<1>6. Graph(db)
  <2>1. \/ db = Unloadable /\ \E l \in VLabels : \E o \in At(tree.vertices, l, {}) : "id" \notin DOMAIN o
        \/ Graph(db) /\ \A l \in VLabels : \A o \in At(tree.vertices, l, {}) : "id" \in DOMAIN o
    BY <1>1, <1>4, LoadIs
  <2> QED BY <1>5, <2>1, Zenon
<1>7. ops \in 0..MaxOps
  BY <1>1, GraphAssumption, SMT DEF GraphAssumption
<1> QED BY <1>1, <1>4, <1>6, <1>7, Zenon DEF GInv

\* A restart takes over what loads.
LEMMA RestartStep ==
  ASSUME GInv, Restart
  PROVE  /\ Graph(db') /\ db' = start /\ tree' = tree /\ start' = start /\ ops' = ops /\ hasCheckpointed' = FALSE
<1>1. start.loads /\ db' = start /\ tree' = tree /\ start' = start /\ ops' = ops /\ hasCheckpointed' = FALSE
  BY Zenon DEF Restart
<1>2. Graph(start)
  BY <1>1, LoadsIs, Zenon DEF GInv
<1> QED BY <1>1, <1>2, Zenon

\* Every step keeps the invariant.
LEMMA NextGInv == GInv /\ [Next]_vars => GInv'
<1> SUFFICES ASSUME GInv, [Next]_vars PROVE GInv'
  OBVIOUS
<1>0. Graph(db) /\ (start = Unloadable \/ Graph(start)) /\ Files(tree) /\ hasCheckpointed \in BOOLEAN
  BY Zenon DEF GInv
<1>1. ASSUME NEW r, OneRecord(r) PROVE GInv'
  <2>1. /\ Graph(db') /\ tree' = tree /\ hasCheckpointed' = hasCheckpointed /\ ops' \in 0..MaxOps
        /\ Graph(start) => Graph(start')
        /\ start = Unloadable => start' = Unloadable
    BY <1>1, OneRecordStep, Zenon
  <2> QED BY <1>0, <2>1, Zenon DEF GInv
<1>2. ASSUME NEW l \in VLabels, NEW id, Delete(l, id) PROVE GInv'
  <2>1. /\ Lacks(db, db', db.edges, l, id) /\ tree' = tree /\ hasCheckpointed' = hasCheckpointed /\ ops' \in 0..MaxOps
        /\ Graph(start) => Lacks(start, start', db.edges, l, id)
        /\ start = Unloadable => start' = Unloadable
    BY <1>2, DeleteStep, Zenon
  <2> QED BY <1>0, <2>1, Zenon DEF GInv, Lacks
<1>3. ASSUME NEW l \in VLabels, NEW id, CrashInDelete(l, id) PROVE GInv'
  <2>1. Graph(start') /\ db' = start' /\ tree' = tree /\ hasCheckpointed' = FALSE /\ ops' \in 0..MaxOps
    BY <1>3, CrashStep, Zenon
  <2> QED BY <1>0, <2>1, Zenon DEF GInv
<1>4. CASE Checkpoint
  <2>1. /\ db' = db /\ hasCheckpointed' = TRUE /\ Files(tree') /\ ops' \in 0..MaxOps
        /\ start' = Unloadable \/ Graph(start')
    BY <1>4, CheckpointStep, Zenon
  <2> QED BY <1>0, <2>1, Zenon DEF GInv
<1>5. CASE Restart
  <2>1. /\ Graph(db') /\ tree' = tree /\ start' = start /\ ops' = ops /\ hasCheckpointed' = FALSE
    BY <1>5, RestartStep, Zenon
  <2> QED BY <1>0, <2>1, Zenon DEF GInv
<1>6. CASE UNCHANGED vars
  BY <1>0, <1>6, Zenon DEF GInv, vars
<1> QED BY <1>0, <1>1, <1>2, <1>3, <1>4, <1>5, <1>6, NextIs, Zenon

\* The graph of a process is well formed, what a start would hold is well formed
\* or does not load, and the files in the repository are keyed by ids.
THEOREM Inductive == Spec => []GInv
<1>1. Init => GInv
  BY InitGInv, Zenon
<1>2. GInv /\ [Next]_vars => GInv'
  BY NextGInv, Zenon
<1> QED BY <1>1, <1>2, PTL DEF Spec

\* Memory and a tree that loads are graphs.
LEMMA StoresAreGraphs == ASSUME GInv PROVE \A st \in Stores : Graph(st)
<1>1. CASE start.loads
  <2>1. Graph(db) /\ Graph(start)
    BY <1>1, LoadsIs, Zenon DEF GInv
  <2> QED BY <1>1, <2>1, Zenon DEF Stores
<1>2. CASE ~start.loads
  BY <1>2, Zenon DEF Stores, GInv
<1> QED BY <1>1, <1>2

\* The invariant gives the types.
LEMMA GInvTyped == GInv => TypeOK
<1> SUFFICES ASSUME GInv PROVE TypeOK
  OBVIOUS
<1>1. ASSUME NEW st \in Stores
      PROVE  /\ DOMAIN st.vertices = VLabels /\ DOMAIN st.edges \subseteq AllLabels
             /\ \A l \in VLabels : DOMAIN st.vertices[l] \subseteq IDs
             /\ \A l \in DOMAIN st.edges : \A f \in DOMAIN st.edges[l] :
                  {<<f, t>> : t \in DOMAIN st.edges[l][f]} \subseteq Ends
  <2>1. VertexMaps(st.vertices) /\ EdgeMaps(st.edges)
    BY StoresAreGraphs, Zenon DEF Graph
  <2>2. \A l \in DOMAIN st.edges : \A f \in DOMAIN st.edges[l] : \A t \in DOMAIN st.edges[l][f] : <<f, t>> \in Ends
    BY <2>1, Zenon DEF EdgeMaps, Has
  <2>3. DOMAIN st.vertices = VLabels /\ \A l \in VLabels : DOMAIN st.vertices[l] \subseteq IDs
    BY <2>1, Zenon DEF VertexMaps
  <2>4. DOMAIN st.edges \subseteq AllLabels
    BY <2>1, Zenon DEF EdgeMaps
  <2>5. ASSUME NEW l \in DOMAIN st.edges, NEW f \in DOMAIN st.edges[l]
        PROVE  {<<f, t>> : t \in DOMAIN st.edges[l][f]} \subseteq Ends
    BY <2>2, Zenon
  <2> QED BY <2>3, <2>4, <2>5, Zenon
<1>2. /\ DOMAIN tree.vertices \subseteq VLabels /\ DOMAIN tree.edges \subseteq AllLabels
      /\ hasCheckpointed \in BOOLEAN /\ ops \in 0..MaxOps
  BY Zenon DEF GInv, Files, VertexFiles, EdgeFiles
<1> QED BY <1>1, <1>2, Zenon DEF TypeOK

\* For every choice of labels, ids, ends and objects, memory and what a start
\* would hold are maps of the declared vertex labels and of known edge labels.
THEOREM TypeInvariant == Spec => []TypeOK
BY Inductive, GInvTyped, PTL

\* The invariant gives the ids.
LEMMA GInvCarry == GInv => VerticesCarryTheirId
<1> SUFFICES ASSUME GInv PROVE VerticesCarryTheirId
  OBVIOUS
<1>1. ASSUME NEW st \in Stores, NEW l \in VLabels, NEW id \in DOMAIN st.vertices[l]
      PROVE  "id" \in DOMAIN st.vertices[l][id] => st.vertices[l][id]["id"] = id
  <2>1. VertexMaps(st.vertices)
    BY StoresAreGraphs, Zenon DEF Graph
  <2>2. Carries(id, st.vertices[l][id])
    BY <2>1, Zenon DEF VertexMaps
  <2> QED BY <2>2, Zenon DEF Carries
<1> QED BY <1>1, Zenon DEF VerticesCarryTheirId

\* A vertex that has an id field has the id it is stored under, whichever mix of
\* Set, Patch, polled records, replays and loads wrote it: the checks of
\* validateVertexID on the two write paths and in applyToGraphDB are enough for
\* the snapshot, which is keyed by that field alone.
THEOREM SnapshotsKeepTheirKeys == Spec => []VerticesCarryTheirId
BY Inductive, GInvCarry, PTL

-----------------------------------------------------------------------------
(* The action properties *)

\* What WritesReplay says of one step: memory and a start that agree go on to
\* agree after a write.
WritesReplayStep == ops' # ops /\ ~Checkpoints /\ start.loads /\ Same(db, start) => Same(db', start')

\* Equal contents are equal after the same delete.
LEMMA LacksAlike ==
  ASSUME NEW s, NEW t, NEW s2, NEW t2, NEW edges, NEW l, NEW id, Alike(s, t),
         Lacks(s, s2, edges, l, id), Lacks(t, t2, edges, l, id)
  PROVE  Alike(s2, t2)
<1>1. ASSUME NEW k, NEW f, NEW u
      PROVE  /\ Has(s2.edges, k, f, u) <=> Has(t2.edges, k, f, u)
             /\ Has(s2.edges, k, f, u) => s2.edges[k][f][u] = t2.edges[k][f][u]
  <2>1. /\ Has(s.edges, k, f, u) <=> Has(t.edges, k, f, u)
        /\ Has(s.edges, k, f, u) => s.edges[k][f][u] = t.edges[k][f][u]
    BY DEF Alike, SameEdges
  <2>2. /\ Has(s2.edges, k, f, u) <=> Has(s.edges, k, f, u) /\ ~(Has(edges, k, f, u) /\ Touches(id, f, u))
        /\ Has(s2.edges, k, f, u) => s2.edges[k][f][u] = s.edges[k][f][u]
    BY DEF Lacks
  <2>3. /\ Has(t2.edges, k, f, u) <=> Has(t.edges, k, f, u) /\ ~(Has(edges, k, f, u) /\ Touches(id, f, u))
        /\ Has(t2.edges, k, f, u) => t2.edges[k][f][u] = t.edges[k][f][u]
    BY DEF Lacks
  <2> QED BY <2>1, <2>2, <2>3, Zenon
<1>2. ASSUME NEW k \in VLabels, NEW x
      PROVE  /\ x \in DOMAIN s2.vertices[k] <=> x \in DOMAIN t2.vertices[k]
             /\ x \in DOMAIN s2.vertices[k] => s2.vertices[k][x] = t2.vertices[k][x]
  <2>1. /\ x \in DOMAIN s.vertices[k] <=> x \in DOMAIN t.vertices[k]
        /\ x \in DOMAIN s.vertices[k] => s.vertices[k][x] = t.vertices[k][x]
    BY Zenon DEF Alike, SameVertices
  <2>2. /\ x \in DOMAIN s2.vertices[k] <=> x \in DOMAIN s.vertices[k] /\ ~(k = l /\ x = id)
        /\ x \in DOMAIN s2.vertices[k] => s2.vertices[k][x] = s.vertices[k][x]
    BY DEF Lacks
  <2>3. /\ x \in DOMAIN t2.vertices[k] <=> x \in DOMAIN t.vertices[k] /\ ~(k = l /\ x = id)
        /\ x \in DOMAIN t2.vertices[k] => t2.vertices[k][x] = t.vertices[k][x]
    BY DEF Lacks
  <2> QED BY <2>1, <2>2, <2>3, Zenon
<1>3. SameEdges(s2.edges, t2.edges)
  BY <1>1 DEF SameEdges
<1>4. SameVertices(s2.vertices, t2.vertices)
  <2>1. ASSUME NEW k \in VLabels
        PROVE  /\ DOMAIN s2.vertices[k] = DOMAIN t2.vertices[k]
               /\ \A x \in DOMAIN s2.vertices[k] : s2.vertices[k][x] = t2.vertices[k][x]
    BY <1>2, Zenon
  <2> QED BY <2>1, Zenon DEF SameVertices
<1> QED BY <1>3, <1>4, Zenon DEF Alike

\* Each write, action by action.
LEMMA WritesReplayed == GInv /\ [Next]_vars => WritesReplayStep
<1> SUFFICES ASSUME GInv, [Next]_vars, ops' # ops, ~Checkpoints, start.loads, Same(db, start)
             PROVE  Same(db', start')
  BY Zenon DEF WritesReplayStep
<1>1. Graph(db) /\ Graph(start)
  BY LoadsIs, Zenon DEF GInv
<1>2. Alike(db, start)
  BY <1>1, SameIs, Zenon DEF Alike
<1>3. ASSUME Graph(db'), Graph(start'), Alike(db', start') PROVE Same(db', start')
  BY <1>3, SameIs, Zenon DEF Alike
<1>4. ASSUME NEW r, OneRecord(r) PROVE Same(db', start')
  <2>1. /\ db' = ApplyToGraphDB(db, r) /\ Graph(db')
        /\ start' = ApplyToGraphDB(start, r) /\ Graph(start')
    BY <1>1, <1>4, OneRecordStep, Zenon
  <2>2. Alike(ApplyToGraphDB(db, r), ApplyToGraphDB(start, r))
    BY <1>1, <1>2, ApplyAlike, Zenon
  <2> QED BY <1>3, <2>1, <2>2, Zenon
<1>5. ASSUME NEW l \in VLabels, NEW id, Delete(l, id) PROVE Same(db', start')
  <2>1. Lacks(db, db', db.edges, l, id) /\ Lacks(start, start', db.edges, l, id)
    BY <1>1, <1>5, DeleteStep, Zenon
  <2>2. Alike(db', start')
    BY <1>2, <2>1, LacksAlike, Zenon
  <2> QED BY <1>3, <2>1, <2>2, Zenon DEF Lacks
<1>6. ASSUME NEW l \in VLabels, NEW id, CrashInDelete(l, id) PROVE Same(db', start')
  <2>1. db' = start'
    BY <1>6, CrashStep, Zenon
  <2> QED BY <2>1, Zenon DEF Same
<1>7. CASE Checkpoint
  BY <1>7, Zenon DEF Checkpoint, Checkpoints
<1>8. CASE Restart
  BY <1>8, Zenon DEF Restart
<1>9. CASE UNCHANGED vars
  BY <1>9, Zenon DEF vars
<1> QED BY <1>1, <1>4, <1>5, <1>6, <1>7, <1>8, <1>9, NextIs, Zenon

\* The live write paths of graph.go and applyToGraphDB of load.go agree: when
\* memory and a start hold the same content they do after every write, for every
\* order in which the records of a Delete are replayed.
THEOREM ReplayIsTheWrite == Spec => WritesReplay
<1>1. GInv /\ [Next]_vars => [WritesReplayStep]_vars
  BY WritesReplayed, Zenon
<1>2. Spec => [][WritesReplayStep]_vars
  BY Inductive, <1>1, PTL DEF Spec
<1> QED BY <1>2, Zenon DEF WritesReplay, WritesReplayStep

\* A record that is no delete leaves every vertex.
LEMMA ApplyKeeps ==
  ASSUME NEW st, Graph(st), NEW r, GoodRecord(r), r.op # "delete_vertex", NEW l \in VLabels, NEW id \in DOMAIN st.vertices[l]
  PROVE  id \in DOMAIN ApplyToGraphDB(st, r).vertices[l]
<1>1. CASE Rejected(st, r)
  BY <1>1, Zenon DEF ApplyToGraphDB
<1>2. CASE ~Rejected(st, r)
  <2> PICK new : new = ApplyToGraphDB(st, r)
    BY Zenon
  <2>1. new = [vertices |-> VerticesAfter(st, r), edges |-> EdgesAfter(st, r), loads |-> TRUE]
    BY <1>2, ApplyIs, Zenon
  <2>2. new.vertices = VerticesAfter(st, r)
    BY <2>1
  <2>3. ASSUME NEW k, NEW x, NEW v PROVE id \in DOMAIN Put(st.vertices, k, Put(st.vertices[k], x, v))[l]
    <3>1. DOMAIN st.vertices = VLabels
      BY Zenon DEF Graph, VertexMaps
    <3>2. Put(st.vertices, k, Put(st.vertices[k], x, v))[l] = IF l = k THEN Put(st.vertices[k], x, v) ELSE st.vertices[l]
      BY <3>1, Zenon DEF Put
    <3>3. DOMAIN Put(st.vertices[k], x, v) = DOMAIN st.vertices[k] \cup {x}
      BY Zenon DEF Put
    <3> QED BY <3>2, <3>3, Zenon
  <2>4. ASSUME r.op = "set_vertex" PROVE id \in DOMAIN new.vertices[l]
    <3>1. VerticesAfter(st, r) = Put(st.vertices, r.label, Put(st.vertices[r.label], r.id, r.value))
      BY <2>4, VerticesAfterIs, Zenon
    <3>2. id \in DOMAIN Put(st.vertices, r.label, Put(st.vertices[r.label], r.id, r.value))[l]
      BY <2>3, Zenon
    <3>3. id \in DOMAIN new.vertices[l]
      BY <2>2, <3>1, <3>2, Zenon
    <3> QED BY <3>3, Zenon
  <2>5. ASSUME r.op = "patch_vertex" PROVE id \in DOMAIN new.vertices[l]
    <3> PICK v : v = JSONMerge(At(st.vertices[r.label], r.id, NoProps), r.value)
      BY Zenon
    <3>1. VerticesAfter(st, r) = Put(st.vertices, r.label, Put(st.vertices[r.label], r.id, v))
      BY <2>5, VerticesAfterIs, Zenon
    <3>2. id \in DOMAIN Put(st.vertices, r.label, Put(st.vertices[r.label], r.id, v))[l]
      BY <2>3, Zenon
    <3>3. id \in DOMAIN new.vertices[l]
      BY <2>2, <3>1, <3>2, Zenon
    <3> QED BY <3>3, Zenon
  <2>6. ASSUME r.op \notin {"set_vertex", "patch_vertex", "delete_vertex"} PROVE id \in DOMAIN new.vertices[l]
    BY <2>2, <2>6, VerticesAfterIs, Zenon
  <2>7. id \in DOMAIN new.vertices[l]
    BY <2>4, <2>5, <2>6
  <2> QED BY <2>7, Zenon
<1> QED BY <1>1, <1>2

\* What NoHalfDelete says of one step: a start that finds the vertex gone finds
\* no edge at it.
HalfDeleteStep ==
  \A l \in VLabels, id \in IDs :
    /\ start.loads /\ start'.loads /\ Same(db, start)
    /\ id \in DOMAIN start.vertices[l] /\ id \notin DOMAIN start'.vertices[l]
    => OutEdges(start'.edges, id) \cup InEdges(start'.edges, id) = {}

\* Only a whole Delete takes a vertex from what a start would hold.
LEMMA NoneHalfDeleted == GInv /\ [Next]_vars => HalfDeleteStep
<1> SUFFICES ASSUME GInv, [Next]_vars, NEW l \in VLabels, NEW id \in IDs, start.loads, start'.loads, Same(db, start),
                    id \in DOMAIN start.vertices[l], id \notin DOMAIN start'.vertices[l]
             PROVE  OutEdges(start'.edges, id) \cup InEdges(start'.edges, id) = {}
  BY Zenon DEF HalfDeleteStep
<1>1. Graph(db) /\ Graph(start)
  BY LoadsIs, Zenon DEF GInv
<1>2. SameVertices(db.vertices, start.vertices) /\ SameEdges(db.edges, start.edges)
  BY <1>1, SameIs, Zenon
<1>3. ASSUME NEW r, OneRecord(r) PROVE FALSE
  <2>1. start' = ApplyToGraphDB(start, r)
    BY <1>1, <1>3, OneRecordStep, Zenon
  <2>2. GoodRecord(r) /\ r.op # "delete_vertex"
    BY <1>3, Zenon DEF OneRecord
  <2> QED BY <1>1, <2>1, <2>2, ApplyKeeps, Zenon
<1>4. ASSUME NEW k \in VLabels, NEW x, Delete(k, x)
      PROVE  OutEdges(start'.edges, id) \cup InEdges(start'.edges, id) = {}
  <2>1. Lacks(start, start', db.edges, k, x)
    BY <1>1, <1>4, DeleteStep, Zenon
  <2>2. k = l /\ x = id
    <3>1. id \in DOMAIN start'.vertices[l] <=> id \in DOMAIN start.vertices[l] /\ ~(l = k /\ id = x)
      BY <2>1 DEF Lacks
    <3> QED BY <3>1, Zenon
  <2>3. \A a, f, t : Has(start'.edges, a, f, t) => ~Touches(id, f, t)
    <3> SUFFICES ASSUME NEW a, NEW f, NEW t, Has(start'.edges, a, f, t) PROVE ~Touches(id, f, t)
      OBVIOUS
    <3>1. Has(start'.edges, a, f, t) <=> Has(start.edges, a, f, t) /\ ~(Has(db.edges, a, f, t) /\ Touches(x, f, t))
      BY <2>1 DEF Lacks
    <3>2. Has(db.edges, a, f, t) <=> Has(start.edges, a, f, t)
      BY <1>2 DEF SameEdges
    <3> QED BY <2>2, <3>1, <3>2, Zenon
  <2> PICK edges : edges = start'.edges
    BY Zenon
  <2>4. ASSUME NEW e \in OutEdges(edges, id) PROVE FALSE
    <3>1. PICK a, t : Has(edges, a, id, t) /\ e = Arc(a, id, t)
      BY OutEdgesAre
    <3> QED BY <2>3, <3>1 DEF Touches
  <2>5. ASSUME NEW e \in InEdges(edges, id) PROVE FALSE
    <3>1. PICK a, f : Has(edges, a, f, id) /\ e = Arc(a, f, id)
      BY InEdgesAre
    <3> QED BY <2>3, <3>1 DEF Touches
  <2>6. OutEdges(edges, id) \cup InEdges(edges, id) = {}
    BY <2>4, <2>5, Zenon
  <2> QED BY <2>6, Zenon
<1>5. ASSUME NEW k \in VLabels, NEW x, CrashInDelete(k, x) PROVE FALSE
  <2>1. \A a \in VLabels : DOMAIN start'.vertices[a] = DOMAIN start.vertices[a]
    BY <1>5, CrashStep, Zenon
  <2> QED BY <2>1, Zenon
<1>6. CASE Checkpoint
  <2>1. /\ start' = Unloadable \/ Graph(start')
        /\ Graph(start') => SameVertices(start'.vertices, db.vertices)
    BY <1>6, CheckpointStep, Zenon
  <2>2. Graph(start')
    BY <2>1, UnloadableIs
  <2>3. DOMAIN start'.vertices[l] = DOMAIN start.vertices[l]
    BY <1>2, <2>1, <2>2, Zenon DEF SameVertices
  <2> QED BY <2>3, Zenon
<1>7. CASE Restart
  BY <1>7, Zenon DEF Restart
<1>8. CASE UNCHANGED vars
  BY <1>8, Zenon DEF vars
<1> QED BY <1>1, <1>3, <1>4, <1>5, <1>6, <1>7, <1>8, NextIs, Zenon

\* No start finds a vertex gone and edges at it left, also when the process
\* stopped inside the Delete: the record of the vertex is appended last.
THEOREM NoVertexHalfDeleted == Spec => NoHalfDelete
<1>1. GInv /\ [Next]_vars => [HalfDeleteStep]_vars
  BY NoneHalfDeleted, Zenon
<1>2. Spec => [][HalfDeleteStep]_vars
  BY Inductive, <1>1, PTL DEF Spec
<1> QED BY <1>2, Zenon DEF NoHalfDelete, HalfDeleteStep

\* What SnapshotRestores says of one step: the files of a Checkpoint give back
\* the vertices and the declared edges of memory, or do not load.
SnapshotStep ==
  Checkpoints =>
    /\ (\A v \in VertexContent(db) : "id" \in DOMAIN v[3]) => start'.loads
    /\ start'.loads =>
         /\ VertexContent(start') = VertexContent(db)
         /\ \A l \in ELabels \cap DOMAIN db.edges :
              EdgeFile(start'.edges[l]) = EdgeFile(db.edges[l])

\* The files of a Checkpoint, loaded again.
LEMMA SnapshotsRestore == GInv /\ [Next]_vars => SnapshotStep
<1> SUFFICES ASSUME GInv, [Next]_vars, Checkpoints
             PROVE  /\ (\A v \in VertexContent(db) : "id" \in DOMAIN v[3]) => start'.loads
                    /\ start'.loads =>
                         /\ VertexContent(start') = VertexContent(db)
                         /\ \A l \in ELabels \cap DOMAIN db.edges :
                              EdgeFile(start'.edges[l]) = EdgeFile(db.edges[l])
  BY Zenon DEF SnapshotStep
<1>1. Graph(db) /\ hasCheckpointed \in BOOLEAN
  BY Zenon DEF GInv
<1>2. ~hasCheckpointed /\ hasCheckpointed'
  BY Zenon DEF Checkpoints
<1>3. Checkpoint
  <2>1. ASSUME NEW r, OneRecord(r) PROVE FALSE
    <3>1. hasCheckpointed' = hasCheckpointed
      BY <2>1, OneRecordStep, Zenon
    <3> QED BY <1>2, <3>1, Zenon
  <2>2. ASSUME NEW l \in VLabels, NEW id, Delete(l, id) PROVE FALSE
    <3>1. hasCheckpointed' = hasCheckpointed
      BY <2>2, DeleteStep, Zenon
    <3> QED BY <1>2, <3>1, Zenon
  <2>3. ASSUME NEW l \in VLabels, NEW id, CrashInDelete(l, id) PROVE FALSE
    <3>1. hasCheckpointed' = FALSE
      BY <2>3, CrashStep, Zenon
    <3> QED BY <1>2, <3>1, Zenon
  <2>4. CASE Restart
    BY <1>2, <2>4, Zenon DEF Restart
  <2>5. CASE UNCHANGED vars
    BY <1>2, <2>5, Zenon DEF vars
  <2> QED BY <1>1, <2>1, <2>2, <2>3, <2>4, <2>5, NextIs, Zenon
<1> DEFINE vs == db.vertices
           AllIds == \A l \in VLabels : \A id \in DOMAIN vs[l] : "id" \in DOMAIN vs[l][id]
<1>4. /\ start' = Unloadable \/ Graph(start')
      /\ Graph(start') <=> AllIds
      /\ Graph(start') => /\ SameVertices(start'.vertices, vs)
                          /\ \A l \in ELabels \cap DOMAIN db.edges :
                               EdgeFile(start'.edges[l]) = EdgeFile(db.edges[l])
  BY <1>3, CheckpointStep, Zenon
<1>5. AllIds <=> \A v \in VertexContent(db) : "id" \in DOMAIN v[3]
  <2>1. /\ \A l, id, v : <<l, id, v>> \in VertexContent(db) <=>
                            l \in VLabels /\ id \in DOMAIN vs[l] /\ v = vs[l][id]
        /\ \A c \in VertexContent(db) : c = <<c[1], c[2], c[3]>>
    <3>1. DOMAIN vs = VLabels
      BY <1>1, Zenon DEF Graph, VertexMaps
    <3> QED BY <3>1, InVertexContent, Zenon
  <2> HIDE DEF vs
  <2>2. ASSUME AllIds, NEW c \in VertexContent(db) PROVE "id" \in DOMAIN c[3]
    <3> PICK a, b, d : a = c[1] /\ b = c[2] /\ d = c[3]
      BY Zenon
    <3>1. <<a, b, d>> \in VertexContent(db)
      BY <2>1, Zenon
    <3>2. a \in VLabels /\ b \in DOMAIN vs[a] /\ d = vs[a][b]
      BY <2>1, <3>1
    <3> QED BY <2>2, <3>2, Zenon
  <2>3. ASSUME \A v \in VertexContent(db) : "id" \in DOMAIN v[3], NEW l \in VLabels, NEW id \in DOMAIN vs[l]
        PROVE  "id" \in DOMAIN vs[l][id]
    <3> PICK d, c : d = vs[l][id] /\ c = <<l, id, d>>
      BY Zenon
    <3>1. c \in VertexContent(db)
      BY <2>1
    <3>2. c[3] = d
      OBVIOUS
    <3> QED BY <2>3, <3>1, <3>2, Zenon
  <2> QED BY <2>2, <2>3, Zenon
<1> HIDE DEF AllIds
<1>6. (start'.loads <=> Graph(start')) /\ start'.loads \in BOOLEAN
  <2>1. CASE start' = Unloadable
    <3>1. start'.loads = FALSE /\ ~Graph(start')
      BY <2>1, UnloadableIs, Zenon
    <3> QED BY <3>1
  <2>2. CASE Graph(start')
    <3>1. start'.loads = TRUE
      BY <2>2, SMT DEF Graph
    <3> QED BY <2>2, <3>1
  <2> QED BY <1>4, <2>1, <2>2
<1>7. (\A v \in VertexContent(db) : "id" \in DOMAIN v[3]) => start'.loads
  BY <1>4, <1>5, <1>6, Zenon
<1>8. ASSUME Graph(start') PROVE VertexContent(start') = VertexContent(db)
  <2>1. DOMAIN start'.vertices = VLabels /\ DOMAIN db.vertices = VLabels
    BY <1>1, <1>8, Zenon DEF Graph, VertexMaps
  <2> QED BY <1>4, <1>8, <2>1, SameVerticesIs, Zenon
<1> QED BY <1>4, <1>6, <1>7, <1>8, Zenon

\* A Checkpoint's tree loads when every vertex has its id field, and what loads
\* gives back all vertices and, for the declared labels that memory holds,
\* exactly the edges of memory.
THEOREM SnapshotsLoadAgain == Spec => SnapshotRestores
<1>1. GInv /\ [Next]_vars => [SnapshotStep]_vars
  BY SnapshotsRestore, Zenon
<1>2. Spec => [][SnapshotStep]_vars
  BY Inductive, <1>1, PTL DEF Spec
<1> QED BY <1>2, Zenon DEF SnapshotRestores, SnapshotStep
=============================================================================
