----------------------------- MODULE GraphStore -----------------------------
(* The graph store of ghdb/graph/graph.go with the two ways its content comes
   back at a start: the snapshot a Checkpoint writes, overlaid on the tree of
   the repository and read again by base/load.go, and the replay of mutation
   records by applyToGraphDB.  The variable start is what a process that starts
   now would hold: the loaded tree with every record since the last Checkpoint
   applied to it.  A Checkpoint is one step here, with its pull request merged;
   CheckpointLease and WriteCheckpoint take it apart.  A JSON object is a
   function from field names to data; maps are functions with a finite domain,
   so a label with an empty map and an absent label are different states, as
   they are in the code.                                                     *)
EXTENDS Naturals, FiniteSets, Sequences, SequencesExt

CONSTANTS
  VLabels,    \* vertex labels of db_meta.json (cfg.Vertices)
  ELabels,    \* edge labels of db_meta.json (cfg.Edges)
  DynLabels,  \* edge labels only mutations use
  IDs,        \* vertex ids
  Ends,       \* the pairs of ids written as edges
  Objects,    \* the JSON objects written, without their id field
  NoProps,    \* the nil properties of an edge without properties
  MaxOps      \* bound on the number of operations

ASSUME GraphAssumption ==
  /\ ELabels \cap DynLabels = {} /\ Ends \subseteq IDs \X IDs
  /\ \A o \in Objects : "id" \notin DOMAIN o
  /\ MaxOps \in Nat

VARIABLES
  db,     \* the process: vertices and edges
  tree,   \* the repository: vertices/<label>.json and edges/<label>.json
  start,  \* what a start would hold now, or Unloadable
  hasCheckpointed,  \* a process completes one Checkpoint
  ops     \* number of operations so far

vars == <<db, tree, start, hasCheckpointed, ops>>
-----------------------------------------------------------------------------
(* Maps *)
None == [x \in {} |-> x]
At(f, k, absent) == IF k \in DOMAIN f THEN f[k] ELSE absent
Put(f, k, v) == [x \in DOMAIN f \cup {k} |-> IF x = k THEN v ELSE f[x]]
Drop(f, k) == [x \in DOMAIN f \ {k} |-> f[x]]

AllLabels == ELabels \cup DynLabels
Unloadable == [vertices |-> None, edges |-> None, loads |-> FALSE]

WithId(id, o) == Put(o, "id", id)

JSONMerge(existing, fields) ==
  LET old == IF existing = NoProps THEN None ELSE existing
  IN  [k \in DOMAIN old \cup DOMAIN fields |-> At(fields, k, At(old, k, k))]
-----------------------------------------------------------------------------
(* The edge maps: label -> from -> to -> properties *)
Targets(edges, l, f) == At(At(edges, l, None), f, None)

GetEdge(edges, l, f, t) == At(Targets(edges, l, f), t, NoProps)

PutEdge(edges, l, f, t, props) ==
  Put(edges, l, Put(At(edges, l, None), f, Put(Targets(edges, l, f), t, props)))

(* remove_edge and delete_edge: maps that become empty go with their last entry *)
CutEdge(edges, l, f, t) ==
  LET to == Drop(Targets(edges, l, f), t)
      from == IF to = None THEN Drop(edges[l], f) ELSE Put(edges[l], f, to)
  IN  IF l \notin DOMAIN edges \/ f \notin DOMAIN At(edges, l, None) THEN edges
      ELSE IF from = None THEN Drop(edges, l) ELSE Put(edges, l, from)

OutEdges(edges, id) ==
  UNION {{[label |-> l, from |-> id, to |-> t] : t \in DOMAIN Targets(edges, l, id)} : l \in DOMAIN edges}

InEdges(edges, id) ==
  UNION {{[label |-> l, from |-> f, to |-> id] : f \in {g \in DOMAIN edges[l] : id \in DOMAIN edges[l][g]}}
            : l \in DOMAIN edges}
-----------------------------------------------------------------------------
(* Mutation records and their replay *)
VertexRecord(op, l, id, o) == [op |-> op, label |-> l, id |-> id, value |-> o]
EdgeRecord(op, l, f, t, o) == [op |-> op, label |-> l, from |-> f, to |-> t, value |-> o]

ValidId(id, fields, requirePresent) ==
  IF "id" \in DOMAIN fields THEN fields["id"] = id ELSE ~requirePresent

(* Mutant: replay does not look at the id of a vertex. *)
RejectedUnknownOnly(st, r) ==
  r.op \in {"set_vertex", "patch_vertex", "delete_vertex"} /\ r.label \notin DOMAIN st.vertices

Rejected(st, r) ==
  /\ r.op \in {"set_vertex", "patch_vertex", "delete_vertex"}
  /\ \/ r.label \notin DOMAIN st.vertices
     \/ r.op = "set_vertex" /\ ~ValidId(r.id, r.value, TRUE)
     \/ r.op = "patch_vertex" /\ ~ValidId(r.id, r.value, FALSE)

VerticesAfter(st, r) ==
  LET data == st.vertices[r.label]
  IN  CASE r.op = "set_vertex" -> Put(st.vertices, r.label, Put(data, r.id, r.value))
        [] r.op = "patch_vertex" ->
             Put(st.vertices, r.label, Put(data, r.id, JSONMerge(At(data, r.id, NoProps), r.value)))
        [] r.op = "delete_vertex" -> Put(st.vertices, r.label, Drop(data, r.id))
        [] OTHER -> st.vertices

(* Mutant: a replayed patch replaces the properties. *)
EdgesAfterPatchReplaces(st, r) ==
  CASE r.op \in {"add_edge", "set_edge", "patch_edge"} -> PutEdge(st.edges, r.label, r.from, r.to, r.value)
    [] r.op \in {"remove_edge", "delete_edge"} -> CutEdge(st.edges, r.label, r.from, r.to)
    [] OTHER -> st.edges

EdgesAfter(st, r) ==
  CASE r.op \in {"add_edge", "set_edge"} -> PutEdge(st.edges, r.label, r.from, r.to, r.value)
    [] r.op = "patch_edge" ->
         PutEdge(st.edges, r.label, r.from, r.to, JSONMerge(GetEdge(st.edges, r.label, r.from, r.to), r.value))
    [] r.op \in {"remove_edge", "delete_edge"} -> CutEdge(st.edges, r.label, r.from, r.to)
    [] OTHER -> st.edges

ApplyToGraphDB(st, r) ==
  IF Rejected(st, r) THEN st
  ELSE [st EXCEPT !.vertices = VerticesAfter(st, r), !.edges = EdgesAfter(st, r)]

Replay(st, records) ==
  LET after[k \in 0..Len(records)] == IF k = 0 THEN st ELSE ApplyToGraphDB(after[k - 1], records[k])
  IN  IF st.loads THEN after[Len(records)] ELSE st
-----------------------------------------------------------------------------
(* Snapshot and load *)
EdgeEntries(adj) == {e \in IDs \X IDs : e[1] \in DOMAIN adj /\ e[2] \in DOMAIN At(adj, e[1], None)}

(* an empty object is written like no properties at all (omitempty) *)
Written(props) == IF props = None THEN NoProps ELSE props

EdgeFile(adj) == [e \in EdgeEntries(adj) |-> Written(adj[e[1]][e[2]])]

Snapshot(st) ==
  [vertices |-> [l \in DOMAIN st.vertices |-> {st.vertices[l][id] : id \in DOMAIN st.vertices[l]}],
   edges |-> [l \in DOMAIN st.edges |-> EdgeFile(st.edges[l])]]

(* Mutant: a file the tree already has is kept. *)
OverlayKeepsOld(old, new) == [p \in DOMAIN old \cup DOMAIN new |-> At(old, p, At(new, p, None))]

(* CreateTree overlays the files on the tree of the default branch. *)
Overlay(old, new) == [p \in DOMAIN old \cup DOMAIN new |-> At(new, p, At(old, p, None))]

CreateTree(files) ==
  [vertices |-> Overlay(tree.vertices, files.vertices), edges |-> Overlay(tree.edges, files.edges)]

LoadVertexFile(records) ==
  [id \in {o["id"] : o \in records} |-> CHOOSE o \in records : o["id"] = id]

LoadEdgeFile(file) ==
  [f \in {e[1] : e \in DOMAIN file} |-> [t \in {e[2] : e \in {d \in DOMAIN file : d[1] = f}} |-> file[<<f, t>>]]]

(* Mutant: a label without a file gets no map. *)
LoadGraphStateFilesOnly(files) ==
  [vertices |-> [l \in VLabels \cap DOMAIN files.vertices |-> LoadVertexFile(files.vertices[l])],
   edges |-> [l \in ELabels \cap DOMAIN files.edges |-> LoadEdgeFile(files.edges[l])],
   loads |-> TRUE]

LoadGraphState(files) ==
  IF \E l \in VLabels : \E o \in At(files.vertices, l, {}) : "id" \notin DOMAIN o
  THEN Unloadable
  ELSE [vertices |-> [l \in VLabels |-> LoadVertexFile(At(files.vertices, l, {}))],
        edges |-> [l \in ELabels |-> LoadEdgeFile(At(files.edges, l, None))],
        loads |-> TRUE]

Init ==
  /\ tree = [vertices |-> None, edges |-> None]
  /\ db = LoadGraphState(tree) /\ start = db
  /\ hasCheckpointed = FALSE /\ ops = 0
-----------------------------------------------------------------------------
(* The writes: the memory of the process, and the records it appends *)
Write(newDb, records) ==
  /\ ops < MaxOps /\ ops' = ops + 1
  /\ db' = newDb /\ start' = Replay(start, records)
  /\ UNCHANGED <<tree, hasCheckpointed>>

SetVertices(l, data) == [db EXCEPT !.vertices[l] = data]
SetEdges(edges) == [db EXCEPT !.edges = edges]

Set(l, id, o) ==
  /\ ValidId(id, o, TRUE)
  /\ Write(SetVertices(l, Put(db.vertices[l], id, o)), <<VertexRecord("set_vertex", l, id, o)>>)

Patch(l, id, o) ==
  /\ ValidId(id, o, FALSE)
  /\ Write(SetVertices(l, Put(db.vertices[l], id, JSONMerge(At(db.vertices[l], id, NoProps), o))),
           <<VertexRecord("patch_vertex", l, id, o)>>)

AddEdge(l, f, t) ==
  Write(SetEdges(PutEdge(db.edges, l, f, t, NoProps)), <<EdgeRecord("add_edge", l, f, t, NoProps)>>)

SetEdge(l, f, t, o) ==
  Write(SetEdges(PutEdge(db.edges, l, f, t, o)), <<EdgeRecord("set_edge", l, f, t, o)>>)

PatchEdge(l, f, t, o) ==
  Write(SetEdges(PutEdge(db.edges, l, f, t, JSONMerge(GetEdge(db.edges, l, f, t), o))),
        <<EdgeRecord("patch_edge", l, f, t, o)>>)

RemoveEdge(l, f, t) ==
  Write(SetEdges(CutEdge(db.edges, l, f, t)), <<EdgeRecord("remove_edge", l, f, t, NoProps)>>)

(* Delete walks over every label: first over the edges that leave the vertex,
   then over the others that enter it, so that an edge of the vertex to itself
   is found once.  It cuts what it found, but leaves the maps that become empty,
   and appends one record per edge, in the order Go happens to iterate its maps
   in, and then the record of the vertex. *)
CutRecord(l, f, t) == EdgeRecord("delete_edge", l, f, t, NoProps)

Leaving(edges, id) ==
  UNION {{CutRecord(l, id, t) : t \in DOMAIN At(edges[l], id, None)} : l \in DOMAIN edges}

Entering(edges, id) ==
  UNION {{CutRecord(l, f, id) : f \in {g \in DOMAIN edges[l] \ {id} : id \in DOMAIN edges[l][g]}}
            : l \in DOMAIN edges}

Cascade(edges, id) == Leaving(edges, id) \cup Entering(edges, id)

WithoutVertex(l, id) ==
  [db EXCEPT !.vertices[l] = Drop(@, id),
             !.edges = [k \in DOMAIN @ |-> [f \in DOMAIN @[k] |->
                [t \in {u \in DOMAIN @[k][f] : CutRecord(k, f, u) \notin Cascade(@, id)} |-> @[k][f][t]]]]]

DropRecord(l, id) == VertexRecord("delete_vertex", l, id, None)

(* Mutant: the record of the vertex is appended first. *)
DeleteRecordsVertexFirst(l, id) ==
  {<<DropRecord(l, id)>> \o s : s \in SetToSeqs(Cascade(db.edges, id))}

DeleteRecords(l, id) == {Append(s, DropRecord(l, id)) : s \in SetToSeqs(Cascade(db.edges, id))}

(* The records of a delete share one time, and the replay sorts them with an
   unstable sort: any order of them may be the one that is applied. *)
AnyOrder(records) == SetToSeqs(ToSet(records))

Delete(l, id) ==
  \E records \in DeleteRecords(l, id) : \E order \in AnyOrder(records) : Write(WithoutVertex(l, id), order)

(* The process stops inside a Delete, after the flusher has stored the records
   appended so far: the next start applies these alone. *)
CrashInDelete(l, id) ==
  \E records \in DeleteRecords(l, id) : \E n \in 0..Len(records) - 1 :
    /\ ops < MaxOps /\ ops' = ops + 1 /\ start.loads
    /\ db' = Replay(start, SubSeq(records, 1, n)) /\ start' = db'
    /\ hasCheckpointed' = FALSE /\ UNCHANGED tree
-----------------------------------------------------------------------------
(* A record of another process, applied by the poller: valid or not.  Which of
   several records is the newer one is the subject of Replication. *)
ForeignRecords ==
  {VertexRecord("set_vertex", l, id, WithId(other, o)) : l \in VLabels \cup DynLabels, id \in IDs, other \in IDs, o \in Objects}
  \cup {VertexRecord("patch_vertex", l, id, WithId(other, o)) : l \in VLabels, id \in IDs, other \in IDs, o \in Objects}
  \cup {EdgeRecord("patch_edge", l, e[1], e[2], o) : l \in AllLabels, e \in Ends, o \in Objects}

Poll(r) == Write(ApplyToGraphDB(db, r), <<r>>)

Checkpoint ==
  /\ ~hasCheckpointed /\ hasCheckpointed' = TRUE
  /\ ops < MaxOps /\ ops' = ops + 1
  /\ tree' = CreateTree(Snapshot(db)) /\ start' = LoadGraphState(tree') /\ UNCHANGED db

Restart == start.loads /\ db' = start /\ hasCheckpointed' = FALSE /\ UNCHANGED <<tree, start, ops>>

VertexWrite ==
  \E l \in VLabels, id \in IDs :
    \/ \E o \in Objects, other \in IDs : Set(l, id, WithId(other, o)) \/ Patch(l, id, WithId(other, o))
    \/ \E o \in Objects : Patch(l, id, o)
    \/ Delete(l, id)
    \/ CrashInDelete(l, id)

EdgeWrite ==
  \E l \in AllLabels, e \in Ends :
    \/ AddEdge(l, e[1], e[2])
    \/ RemoveEdge(l, e[1], e[2])
    \/ \E o \in Objects : SetEdge(l, e[1], e[2], o) \/ PatchEdge(l, e[1], e[2], o)

Next == VertexWrite \/ EdgeWrite \/ (\E r \in ForeignRecords : Poll(r)) \/ Checkpoint \/ Restart

Spec == Init /\ [][Next]_vars
-----------------------------------------------------------------------------
(* Properties *)
VertexContent(st) ==
  UNION {{<<l, id, st.vertices[l][id]>> : id \in DOMAIN st.vertices[l]} : l \in DOMAIN st.vertices}

EdgeContent(st) ==
  UNION {{<<l, e, st.edges[l][e[1]][e[2]]>> : e \in EdgeEntries(st.edges[l])} : l \in DOMAIN st.edges}

Same(s, t) == VertexContent(s) = VertexContent(t) /\ EdgeContent(s) = EdgeContent(t)

Stores == {db} \cup (IF start.loads THEN {start} ELSE {})

(* Memory and what a start would hold are maps of the declared vertex labels
   and of any edge labels, over the ids. *)
TypeOK ==
  /\ \A st \in Stores :
       /\ DOMAIN st.vertices = VLabels /\ DOMAIN st.edges \subseteq AllLabels
       /\ \A l \in VLabels : DOMAIN st.vertices[l] \subseteq IDs
       /\ \A l \in DOMAIN st.edges : \A f \in DOMAIN st.edges[l] :
            {<<f, t>> : t \in DOMAIN st.edges[l][f]} \subseteq Ends
  /\ DOMAIN tree.vertices \subseteq VLabels /\ DOMAIN tree.edges \subseteq AllLabels
  /\ hasCheckpointed \in BOOLEAN /\ ops \in 0..MaxOps

(* A vertex that has an id field has the id it is stored under, whoever wrote
   it: the snapshot is keyed by that field alone (ErrVertexIDMismatch). *)
VerticesCarryTheirId ==
  \A st \in Stores : \A l \in VLabels : \A id \in DOMAIN st.vertices[l] :
    LET v == st.vertices[l][id] IN "id" \in DOMAIN v => v["id"] = id

Checkpoints == ~hasCheckpointed /\ hasCheckpointed'

(* The live write and the replay of its records are two pieces of code: when
   memory and a start agree they agree after any write, for every order of the
   records of a delete. *)
WritesReplay == [][ops' # ops /\ ~Checkpoints /\ start.loads /\ Same(db, start) => Same(db', start')]_vars

(* A start never finds a vertex gone while edges at it are left, also when the
   process stopped inside the delete: the record of the vertex is the last. *)
NoHalfDelete ==
  [][\A l \in VLabels, id \in IDs :
       /\ start.loads /\ start'.loads /\ Same(db, start)
       /\ id \in DOMAIN start.vertices[l] /\ id \notin DOMAIN start'.vertices[l]
       => OutEdges(start'.edges, id) \cup InEdges(start'.edges, id) = {}]_vars

(* A checkpoint of a graph whose vertices all have their id field loads again,
   and what loads gives back all vertices and, for the declared labels that
   memory holds, exactly the edges of memory, with empty properties as none.  The
   two conditions are those that CheckpointLoads and SnapshotIsCurrentState
   leave out, and that the code needs. *)
SnapshotRestores ==
  [][Checkpoints =>
       /\ (\A v \in VertexContent(db) : "id" \in DOMAIN v[3]) => start'.loads
       /\ start'.loads =>
            /\ VertexContent(start') = VertexContent(db)
            /\ \A l \in ELabels \cap DOMAIN db.edges :
                 EdgeFile(start'.edges[l]) = EdgeFile(db.edges[l])]_vars

(* README.md:189 "the constraint is what keeps a checkpointed graph openable":
   the check of the id fields lets no checkpoint through that a start refuses. *)
CheckpointLoads == [][Checkpoints => start'.loads]_vars

(* README.md:145 "commits a full snapshot of current state": the edges of the
   declared labels after the next start are those of memory. *)
SnapshotIsCurrentState ==
  [][Checkpoints /\ start'.loads =>
       {<<e[1], e[2]>> : e \in EdgeContent(start')} = {<<e[1], e[2]>> : e \in {d \in EdgeContent(db) : d[1] \in ELabels}}]_vars
=============================================================================
