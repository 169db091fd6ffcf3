---------------------------- MODULE ComputeGraph ----------------------------
(***************************************************************************)
(* The compute graph of a GpuDevice (swamp-gpu/src/compute_graph.rs) and   *)
(* the part of GpuComputeContext that fills and submits it                 *)
(* (swamp-gpu/src/lib.rs).  The graph is one per device, behind a mutex;   *)
(* node_count is one per context.  Every operation below holds the mutex   *)
(* from its first to its last access of the graph, so each is one step.    *)
(***************************************************************************)
EXTENDS Naturals, Sequences, FiniteSets

CONSTANT Contexts    \* the GpuComputeContexts made over one GpuDevice

VARIABLES
    nodes,       \* ComputeGraph.nodes: [uid, op, deps]; deps index this sequence
    nodeCount,   \* GpuComputeContext.node_count, per context
    submitted    \* the last command buffer handed to the queue: node uid |->
                 \* the barriers recorded for it

graphVars == <<nodes, nodeCount, submitted>>

Empty == [u \in {} |-> {}]

GraphInit ==
    /\ nodes = <<>>
    /\ nodeCount = [c \in Contexts |-> 0]
    /\ submitted = Empty

Node(uid, op, deps) == [uid |-> uid, op |-> op, deps |-> deps]

\* Mutant: the node is added and not counted
AddCounted_uncounted(c, node) ==
    /\ nodes' = Append(nodes, node)
    /\ UNCHANGED <<nodeCount, submitted>>

\* add_gemv_q4k_node, add_attention_node, add_barrier
AddCounted(c, node) ==
    /\ nodes' = Append(nodes, node)
    /\ nodeCount' = [nodeCount EXCEPT ![c] = @ + 1]
    /\ UNCHANGED submitted

\* The ops whose output buffer build() knows how to put a barrier on
HasOutput == {"gemv", "attention", "rmsnorm"}

\* build(): what is recorded for each node is the buffer barriers of its
\* dependencies and, for a MemoryBarrier node, a full barrier; no dispatch.
Recorded(ns, i) ==
    {ns[d].uid : d \in {d \in ns[i].deps \cap DOMAIN ns : ns[d].op \in HasOutput}}
        \cup (IF ns[i].op = "barrier" THEN {"all"} ELSE {})

UidsOf(ns) == {ns[i].uid : i \in DOMAIN ns}

CommandBuffer(ns) ==
    [u \in UidsOf(ns) |-> Recorded(ns, CHOOSE i \in DOMAIN ns : ns[i].uid = u)]

\* submit_and_wait over the graph ns by a context that counts k nodes.  With
\* k = 0 it returns at once and leaves the graph alone.  Otherwise build,
\* submit and wait run with their results ignored (any of them may fail) and
\* the graph and the count are reset.
SubmitGraph(c, ns, k) ==
    \/ /\ k = 0
       /\ nodes' = ns
       /\ UNCHANGED <<nodeCount, submitted>>
    \/ /\ k > 0
       /\ nodes' = <<>>
       /\ nodeCount' = [nodeCount EXCEPT ![c] = 0]
       /\ submitted' \in {CommandBuffer(ns), Empty}

SubmitAndWait(c) == SubmitGraph(c, nodes, nodeCount[c])
=============================================================================
