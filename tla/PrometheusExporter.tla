-------------------------- MODULE PrometheusExporter --------------------------
(***************************************************************************)
(* lib/prometheus_exporter.cpp: the queue listener that counts traces in a *)
(* tree of call paths, and the scrape that prints the tree and starts a    *)
(* new phase.  A node is named by its path from the root, outermost        *)
(* address first.  The scrape is run by the processor thread's poll and    *)
(* writes synchronously, so it is one step.  HTTP and the acceptor are     *)
(* left out: a request other than GET /metrics changes nothing.            *)
(***************************************************************************)
EXTENDS CircularQueue, SymbolTable

VARIABLES
    tree,      \* path -> node
    scraped,   \* history: there has been a scrape
    recorded   \* history: what was recorded since, path -> its counts

prometheusVars == <<tree, scraped, recorded>>

root == << >>
\* A node has a count for each signal: cpuCount for SIGPROF, else wallclockCount.
NoCount == [signum \in Signals |-> 0]

\* A node after reset.
ProfileNode(locations) == [locations |-> locations, seenInPhase |-> FALSE, count |-> NoCount]

\* prometheus_queue_listener
PrometheusInit ==
    /\ tree = [p \in {root} |-> ProfileNode(<< >>)]
    /\ scraped = FALSE
    /\ recorded = << >>

-----------------------------------------------------------------------------
(* recordStackTrace *)

\* The frames of a trace without the handler's, outermost first.
Frames(s) ==
    LET fs == SubSeq(frame_buffer_[s], NUMBER_OF_SIGNAL_HANDLER_FRAMES + 1, slots[s].num_frames)
    IN  Reverse(fs)
PathOf(fs) == [k \in DOMAIN fs |-> fs[k].frame]

\* The nodes from the root's child to the path's own.
Nodes(path) == {SubSeq(path, 1, k) : k \in 1 .. Len(path)}

\* The tables after the lookups for the nodes that are new.
LookupNew(fs) ==
    LET isNew(k) == SubSeq(PathOf(fs), 1, k) \notin DOMAIN tree
    IN  FoldLeft(LAMBDA st, k : IF isNew(k) THEN lookup_locations(st, fs[k].frame, fs[k].isForeign)
                                ELSE st,
                 Tables, [k \in DOMAIN fs |-> k])

\* The node at p as the trace finds it or makes it.
NodeAt(p, addrs) == IF p \in DOMAIN tree THEN tree[p] ELSE ProfileNode(addrs[Last(p)])

\* Mutant: only a new node is marked.
MarkNew(p, node) == IF p \in DOMAIN tree THEN node ELSE [node EXCEPT !.seenInPhase = TRUE]

\* A node on the way, new or not, is seen in this phase.
Mark(p, node) == [node EXCEPT !.seenInPhase = TRUE]

Walked(path, addrs) ==
    [p \in DOMAIN tree \cup Nodes(path) |->
        IF p \in Nodes(path) THEN Mark(p, NodeAt(p, addrs)) ELSE tree[p]]

\* A broken trace is dropped, any other counted at the end of its path.
recordTrace(s) ==
    IF slots[s].num_frames < 0 THEN UNCHANGED <<tree, recorded, symbolVars>>
    ELSE LET fs == Frames(s)
             path == PathOf(fs)
             c == slots[s].signum
             lookup == LookupNew(fs)
         IN  /\ Update(lookup)
             /\ tree' = [Walked(path, lookup.addrs) EXCEPT ![path].count[c] = @ + 1]
             /\ recorded' = Known(recorded, path,
                    [(IF path \in DOMAIN recorded THEN recorded[path] ELSE NoCount)
                        EXCEPT ![c] = @ + 1])

-----------------------------------------------------------------------------
(* The scrape *)

\* A node's functions: "(root)", or those of the locations at its address,
\* none if there are none.
functions(p) ==
    IF p = root THEN << <<"(root)">> >>
    ELSE [k \in DOMAIN tree[p].locations |-> tree[p].locations[k].functionName]

\* The nodes write_profile_node comes to: it goes on below any node seen in
\* this phase, with functions or without.
Shown == {p \in DOMAIN tree :
            tree[root].seenInPhase /\ \A n \in Nodes(p) : tree[n].seenInPhase}

\* commonStr at the j-th function of p: the functions of the nodes above it
\* and its own up to the j-th.
commonStr(p, j) ==
    FlattenSeq([k \in 1 .. Len(p) |-> functions(SubSeq(p, 1, k - 1))])
        \o SubSeq(functions(p), 1, j)

\* A line, with the node it is for: two addresses of a function have lines
\* of the same signature.
Line(p, signature, count) == [node |-> p, signature |-> signature, count |-> count]

\* write_profile_node from the root: each node's count is written once for
\* each of its functions, a count of 0 too.
write_profile_node(c) ==
    UNION {{Line(p, commonStr(p, j), tree[p].count[c]) : j \in DOMAIN functions(p)} : p \in Shown}

\* Mutant: the counts go on over the phases.
end_phase_nodeUncounted ==
    [p \in DOMAIN tree |-> [tree[p] EXCEPT !.seenInPhase = FALSE]]

\* end_phase_node from the root: every node is reset and kept.
end_phase_node == [p \in DOMAIN tree |-> ProfileNode(tree[p].locations)]

\* GET /metrics: print, end the phase, mark the root.
Scrape ==
    /\ tree' = [end_phase_node EXCEPT ![root].seenInPhase = TRUE]
    /\ scraped' = TRUE
    /\ recorded' = << >>
    /\ UNCHANGED <<queueVars, symbolVars>>

-----------------------------------------------------------------------------
(* Properties *)

\* The functions at the end of a path as they are found without a table,
\* and the signature of the j-th.
FunctionsAt(p) ==
    IF p = root THEN << <<"(root)">> >>
    ELSE LET pc == Last(p) IN
         [k \in DOMAIN Pcinfo[pc] |->
             FunctionName(pc, handleSyminfo(pc, pc \in Foreign), Pcinfo[pc][k])]
Signature(p, j) ==
    FlattenSeq([k \in 1 .. Len(p) |-> FunctionsAt(SubSeq(p, 1, k - 1))])
        \o SubSeq(FunctionsAt(p), 1, j)

\* The paths on the way to what was recorded, and what was recorded at one.
RecordedPaths == {root} \cup UNION {Nodes(q) : q \in DOMAIN recorded}
CountAt(p) == IF p \in DOMAIN recorded THEN recorded[p] ELSE NoCount

\* From the second scrape on, a scrape prints the nodes on the paths that
\* were recorded since the one before and no others, for each function
\* inlined at the node's address one line: with the functions found without
\* cache or tree and the count recorded at that very path.  No sample is
\* missing because a node on its path was made in an earlier phase, and no
\* phase prints what an earlier one printed.
ScrapeExact ==
    scraped => \A c \in Signals :
        write_profile_node(c) =
            UNION {{Line(p, Signature(p, j), CountAt(p)[c]) : j \in DOMAIN FunctionsAt(p)} :
                      p \in RecordedPaths}

==============================================================================
