------------------------------- MODULE RepoIndex -------------------------------
(***************************************************************************)
(* The index of a project's code (repo_intelligence): RepoIndexer with its *)
(* parser, the embeddings in PostgreSQL, and the graph of files, chunks    *)
(* and imports in Neo4j that GraphBuilder and DependencyMapper write.      *)
(*                                                                         *)
(* Several calls run at once, and the files change under them.  Each query *)
(* is a transaction of its own and an await: a call is the list of the     *)
(* queries it has still to send, made from what it read of the files.      *)
(***************************************************************************)
EXTENDS Naturals, SequencesExt

CONSTANTS
    Files,          \* bound: the source files
    Contents,       \* what a file may hold: the chunks parsed from it, the files it imports
    Disk,           \* what they hold at the beginning
    Requests,       \* bound: the calls
    Calls,          \* what a call may be: [op, files]
    MaxEdits,       \* bound: changes of files
    MaxRefused,     \* bound: queries that fail
    None

ASSUME IndexAssumption ==
    /\ IsFiniteSet(Files) /\ None \notin Contents /\ None \notin {"file", "external"}
    /\ Disk \in [Files -> Contents \cup {None}]
    /\ \A c \in Contents : IsFiniteSet(c.defs) /\ c.imports \subseteq Files
    /\ Calls \subseteq [op : {"index", "update", "delete"}, files : Seq(Files)]
    /\ MaxEdits \in Nat /\ MaxRefused \in Nat

VARIABLES
    disk,           \* the files: contents, or None for one that is absent
    rows,           \* forge_code_embeddings: a chunk is its file, and its name and first line
    node,           \* the ForgeFile nodes: None, "file", or "external"
    chunks,         \* the ForgeChunk nodes
    contains,       \* those with an edge from their file
    imports,        \* the IMPORTS edges between files
    call,           \* what each request does
    pc,             \* the part it is in
    todo,           \* the queries it has to send in this part
    read,           \* what it read of the files for it
    edits, refused,
    disturbed,      \* history: the requests of which a query failed, or that ran
                    \* while a deletion did
    moved,          \* history: those that ran while a file changed
    due,            \* history: what the latest index that was not disturbed had read
    bare            \* history: the files that were imported when they had no chunk

store == <<rows, node, chunks, contains, imports>>
vars == <<disk, store, call, pc, todo, read, edits, refused, disturbed, moved, due, bare>>

Init ==
    /\ disk = Disk
    /\ rows = {} /\ node = [f \in Files |-> None]
    /\ chunks = {} /\ contains = {} /\ imports = {}
    /\ call \in [Requests -> Calls]
    /\ pc = [r \in Requests |-> "new"]
    /\ todo = [r \in Requests |-> <<>>]
    /\ read = [r \in Requests |-> [f \in Files |-> None]]
    /\ edits = 0 /\ refused = 0
    /\ disturbed = {} /\ moved = {} /\ due = None /\ bare = {}

-----------------------------------------------------------------------------
(* The queries.                                                             *)

\* parse_file: the chunks of a file; none of one that is absent or unreadable.
Chunks(files, f) == IF files[f] = None THEN {} ELSE {<<f, d>> : d \in files[f].defs}

\* The chunks of the files of S, in the order of the walk and of the parser.
AllChunks(files, S) == SetToSeq(UNION {Chunks(files, f) : f \in S})

Row(chunk)    == [op |-> "row", at |-> chunk]
File(f)       == [op |-> "file", at |-> f]
Chunk(chunk)  == [op |-> "chunk", at |-> chunk]
Attach(chunk) == [op |-> "attach", at |-> chunk]
Target(pair)  == [op |-> "target", at |-> pair]
Edge(pair)    == [op |-> "edge", at |-> pair]
Raw           == [op |-> "raw", at |-> None]

\* embed_chunks_batch and upsert_embedding, chunk by chunk.
Embedding(files, S) == LET all == AllChunks(files, S) IN [i \in DOMAIN all |-> Row(all[i])]

\* The queries of two lists in turn.
Alternately(first, second) ==
    [i \in 1..2 * Len(first) |-> IF i % 2 = 1 THEN first[(i + 1) \div 2] ELSE second[i \div 2]]

\* upsert_chunk_node and _create_contains_edge, chunk by chunk.
ChunkNodes(files, S) ==
    LET all == AllChunks(files, S)
    IN  Alternately([i \in DOMAIN all |-> Chunk(all[i])], [i \in DOMAIN all |-> Attach(all[i])])

\* build_project_graph: first the files that have a chunk; last the imports by the
\* name they are written with, which become nodes and edges of their own that are
\* left out here, but whose queries may fail.
Graph(files) ==
    LET seen == SetToSeq({f \in Files : Chunks(files, f) # {}})
    IN  [i \in DOMAIN seen |-> File(seen[i])] \o ChunkNodes(files, Files) \o
        IF seen = <<>> THEN <<>> ELSE <<Raw>>

\* _resolve_import_path: the imports of a file that has chunks, those that are
\* files on the disk.
Resolved(files) ==
    {p \in Files \X Files :
        Chunks(files, p[1]) # {} /\ p[2] \in files[p[1]].imports /\ files[p[2]] # None}

\* create_dependency_edge for each import.
Edges(files) ==
    LET all == SetToSeq(Resolved(files))
    IN  Alternately([i \in DOMAIN all |-> Target(all[i])], [i \in DOMAIN all |-> Edge(all[i])])

\* Mutant: the edges first, when the files may have no node.
MappingEdgesFirst(files) == Edges(files) \o Graph(files)

\* map_project: the graph once more, then the edges.
Mapping(files) == Graph(files) \o Edges(files)

\* update_file: the file's node, whether it has chunks or not, and its chunks.
Updating(files, f) == <<File(f)>> \o ChunkNodes(files, {f})

\* Mutant: the mark is set whoever created the node.
MergeMarksAlways(f, kind) ==
    [node EXCEPT ![f] = IF @ = None \/ kind = "external" THEN kind ELSE @]

\* Cypher's MERGE: a file that is the target of an import before it has a node is
\* marked external, and nothing takes the mark away.
Merge(f, kind) == [node EXCEPT ![f] = IF @ = None THEN kind ELSE @]

\* The queries on the graph.  MATCH that finds nothing makes the query do nothing.
Execute(q) ==
    \/ /\ q.op = "row" /\ rows' = rows \cup {q.at}
       /\ UNCHANGED <<node, chunks, contains, imports>>
    \/ /\ q.op = "file" /\ node' = Merge(q.at, "file")
       /\ UNCHANGED <<rows, chunks, contains, imports>>
    \/ /\ q.op = "chunk" /\ chunks' = chunks \cup {q.at}
       /\ UNCHANGED <<rows, node, contains, imports>>
    \/ /\ q.op = "attach"
       /\ contains' = IF node[q.at[1]] # None /\ q.at \in chunks
                      THEN contains \cup {q.at} ELSE contains
       /\ UNCHANGED <<rows, node, chunks, imports>>
    \/ /\ q.op = "target" /\ node' = Merge(q.at[2], "external")
       /\ UNCHANGED <<rows, chunks, contains, imports>>
    \/ /\ q.op = "edge"
       /\ imports' = IF node[q.at[1]] # None /\ node[q.at[2]] # None
                     THEN imports \cup {q.at} ELSE imports
       /\ UNCHANGED <<rows, node, chunks, contains>>
    \/ q.op = "raw" /\ UNCHANGED store

-----------------------------------------------------------------------------
(* index_project.                                                           *)

InFlight == {r \in Requests : pc[r] \notin {"new", "done"}}
Deleting == {r \in InFlight : call[r].op = "delete"}

\* A request that writes begins.
Begin(r) == disturbed' = IF Deleting # {} THEN disturbed \cup {r} ELSE disturbed

\* A part of a call begins: it reads the files and has queries to send.
Enter(r, part, queries) ==
    /\ pc' = [pc EXCEPT ![r] = part]
    /\ todo' = [todo EXCEPT ![r] = queries]
    /\ read' = [read EXCEPT ![r] = disk]

\* Every file is parsed before the first await.
StartIndex(r) ==
    /\ pc[r] = "new" /\ call[r].op = "index"
    /\ Enter(r, "embed", Embedding(disk, Files))
    /\ Begin(r)
    /\ UNCHANGED <<disk, store, call, edits, refused, moved, due, bare>>

\* The graph is built from the same chunks.
StartGraph(r) ==
    /\ pc[r] = "embed" /\ call[r].op = "index" /\ todo[r] = <<>>
    /\ pc' = [pc EXCEPT ![r] = "graph"]
    /\ todo' = [todo EXCEPT ![r] = Graph(read[r])]
    /\ UNCHANGED <<disk, store, call, read, edits, refused, disturbed, moved, due, bare>>

\* The mapper walks and parses again.
StartMapping(r) ==
    /\ pc[r] = "graph" /\ todo[r] = <<>>
    /\ Enter(r, "map", Mapping(disk))
    /\ bare' = bare \cup {p[2] : p \in {p \in Resolved(disk) : Chunks(disk, p[2]) = {}}}
    /\ UNCHANGED <<disk, store, call, edits, refused, disturbed, moved, due>>

IndexReturns(r) ==
    /\ pc[r] = "map" /\ call[r].op = "index" /\ todo[r] = <<>>
    /\ pc' = [pc EXCEPT ![r] = "done"]
    /\ due' = IF r \in disturbed THEN due ELSE read[r]
    /\ UNCHANGED <<disk, store, call, todo, read, edits, refused, disturbed, moved, bare>>

-----------------------------------------------------------------------------
(* update_index, file by file.                                              *)

NextFile(r) == [call EXCEPT ![r].files = Tail(@)]

\* A file that cannot be parsed, or in which no chunk is found, is passed over.
StartFile(r) ==
    /\ pc[r] \in {"new", "next"} /\ call[r].op = "update" /\ call[r].files # <<>>
    /\ LET f == Head(call[r].files) IN
       IF Chunks(disk, f) = {}
       THEN Enter(r, "next", <<>>) /\ call' = NextFile(r)
       ELSE Enter(r, "embed", Embedding(disk, {f})) /\ UNCHANGED call
    /\ Begin(r)
    /\ UNCHANGED <<disk, store, edits, refused, moved, due, bare>>

\* DependencyMapper.update_file parses again; the imports are not touched.
UpdateFile(r) ==
    /\ pc[r] = "embed" /\ call[r].op = "update" /\ todo[r] = <<>>
    /\ LET f == Head(call[r].files)
       IN  Enter(r, "map", IF disk[f] = None THEN <<>> ELSE Updating(disk, f))
    /\ UNCHANGED <<disk, store, call, edits, refused, disturbed, moved, due, bare>>

FileUpdated(r) ==
    /\ pc[r] = "map" /\ call[r].op = "update" /\ todo[r] = <<>>
    /\ pc' = [pc EXCEPT ![r] = "next"] /\ call' = NextFile(r)
    /\ UNCHANGED <<disk, store, todo, read, edits, refused, disturbed, moved, due, bare>>

UpdateReturns(r) ==
    /\ pc[r] \in {"new", "next"} /\ call[r].op = "update" /\ call[r].files = <<>>
    /\ pc' = [pc EXCEPT ![r] = "done"]
    /\ UNCHANGED <<disk, store, call, todo, read, edits, refused, disturbed, moved, due, bare>>

-----------------------------------------------------------------------------
(* The queries of an index or an update are sent one by one.                *)

Send(r) ==
    /\ pc[r] \in {"embed", "graph", "map"} /\ todo[r] # <<>>
    /\ Execute(Head(todo[r]))
    /\ todo' = [todo EXCEPT ![r] = Tail(@)]
    /\ UNCHANGED <<disk, call, pc, read, edits, refused, disturbed, moved, due, bare>>

\* A query fails, or the embedding of its chunks.  The error of an edge is caught at
\* the edge, every other one at the end of the part, which it ends.
Refuse(r) ==
    /\ pc[r] \in {"embed", "graph", "map"} /\ todo[r] # <<>> /\ refused < MaxRefused
    /\ \/ Head(todo[r]).op = "target" /\ todo' = [todo EXCEPT ![r] = Tail(Tail(@))]
       \/ Head(todo[r]).op = "edge" /\ todo' = [todo EXCEPT ![r] = Tail(@)]
       \/ Head(todo[r]).op \notin {"target", "edge"} /\ todo' = [todo EXCEPT ![r] = <<>>]
    /\ refused' = refused + 1 /\ disturbed' = disturbed \cup {r}
    /\ UNCHANGED <<disk, store, call, pc, read, edits, moved, due, bare>>

-----------------------------------------------------------------------------
(* delete_index sends its two queries together.                             *)

StartDelete(r) ==
    /\ pc[r] = "new" /\ call[r].op = "delete"
    /\ pc' = [pc EXCEPT ![r] = "delete"]
    /\ todo' = [todo EXCEPT ![r] = <<[op |-> "delete rows"], [op |-> "delete graph"]>>]
    /\ disturbed' = disturbed \cup (InFlight \ Deleting)
    /\ UNCHANGED <<disk, store, call, read, edits, refused, moved, due, bare>>

Answered(r, q) ==
    /\ pc[r] = "delete"
    /\ \E i \in DOMAIN todo[r] :
          todo[r][i] = q /\ todo' = [todo EXCEPT ![r] = RemoveAt(@, i)]
    /\ pc' = IF Len(todo[r]) = 1 THEN [pc EXCEPT ![r] = "done"] ELSE pc

DeleteRows(r) ==
    /\ Answered(r, [op |-> "delete rows"])
    /\ rows' = {}
    /\ UNCHANGED <<disk, node, chunks, contains, imports, call, read, edits, refused,
                   disturbed, moved, due, bare>>

\* Mutant: only the files are deleted, and their edges.
DeleteFiles(r) ==
    /\ Answered(r, [op |-> "delete graph"])
    /\ node' = [f \in Files |-> None] /\ contains' = {} /\ imports' = {}
    /\ due' = None
    /\ UNCHANGED <<disk, rows, chunks, call, read, edits, refused, disturbed, moved, bare>>

\* DETACH DELETE of all that has the project's id.
DeleteGraph(r) ==
    /\ Answered(r, [op |-> "delete graph"])
    /\ node' = [f \in Files |-> None] /\ chunks' = {} /\ contains' = {} /\ imports' = {}
    /\ due' = None
    /\ UNCHANGED <<disk, rows, call, read, edits, refused, disturbed, moved, bare>>

\* The other query goes on when one has failed.
DeleteRefused(r) ==
    /\ refused < MaxRefused /\ refused' = refused + 1
    /\ \E q \in ToSet(todo[r]) : Answered(r, q)
    /\ disturbed' = disturbed \cup {r}
    /\ UNCHANGED <<disk, store, call, read, edits, moved, due, bare>>

-----------------------------------------------------------------------------

\* Somebody works on the project.
Edit(f, content) ==
    /\ edits < MaxEdits /\ content # disk[f]
    /\ disk' = [disk EXCEPT ![f] = content] /\ edits' = edits + 1
    /\ moved' = moved \cup InFlight
    /\ UNCHANGED <<store, call, pc, todo, read, refused, disturbed, due, bare>>

Next ==
    \/ \E r \in Requests :
          \/ StartIndex(r) \/ StartGraph(r) \/ StartMapping(r) \/ IndexReturns(r)
          \/ StartFile(r) \/ UpdateFile(r) \/ FileUpdated(r) \/ UpdateReturns(r)
          \/ Send(r) \/ Refuse(r)
          \/ StartDelete(r) \/ DeleteRows(r) \/ DeleteGraph(r) \/ DeleteRefused(r)
    \/ \E f \in Files, content \in Contents \cup {None} : Edit(f, content)

Spec == Init /\ [][Next]_vars
=============================================================================
