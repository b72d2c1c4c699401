----------------------------- MODULE LinearGraph -----------------------------
(***************************************************************************)
(* What the graph write lock promises to the callers of the mutating MCP   *)
(* tools and of the web service's import: a call takes effect at one       *)
(* moment, on the graph as it is then, or not at all, so no call           *)
(* overwrites another.  Once the lock is broken a write may leave any      *)
(* graph behind, but nothing except a call's write ever changes it.        *)
(***************************************************************************)
CONSTANTS
    Callers,        \* the processes that write the graph
    Objects,        \* ids of graph objects
    Ops,            \* the writes a caller can ask for
    NoCall,         \* the caller has asked for nothing
    Accepts(_, _),  \* can the write be made on the graph?
    Apply(_, _)     \* the graph after a write

VARIABLES
    graph,          \* the set of objects in the canonical graph
    call,           \* the write each caller waits for
    broken          \* the lock let two writers in

Init ==
    /\ graph \in SUBSET Objects
    /\ call = [c \in Callers |-> NoCall]
    /\ broken = FALSE

Ask(c) ==
    /\ call[c] = NoCall
    /\ \E op \in Ops : call' = [call EXCEPT ![c] = op]
    /\ UNCHANGED <<graph, broken>>

Write(c) ==
    /\ call[c] \in Ops
    /\ graph' \in SUBSET Objects
    /\ ~broken => Accepts(graph, call[c]) /\ graph' = Apply(graph, call[c])
    /\ call' = [call EXCEPT ![c] = NoCall]
    /\ UNCHANGED broken

\* The call is refused, times out, or dies with its process.
GiveUp(c) ==
    /\ call' = [call EXCEPT ![c] = NoCall]
    /\ UNCHANGED <<graph, broken>>

Break == ~broken /\ broken' /\ UNCHANGED <<graph, call>>

Next == Break \/ \E c \in Callers : Ask(c) \/ Write(c) \/ GiveUp(c)

Spec == Init /\ [][Next]_<<graph, call, broken>>
=============================================================================
