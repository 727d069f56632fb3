------------------------------ MODULE MCPullSG ------------------------------
(***************************************************************************)
(* Instances of PullSG for TLC: two instances, two or three positions, and *)
(* the queue sizes at which the limits are met.                            *)
(***************************************************************************)
EXTENDS PullSG

Full(pos) == [pos |-> pos, empty |-> FALSE]

Empty(pos) == [pos |-> pos, empty |-> TRUE]

Layout(input, dest, stall, receive, send) ==
    [input |-> input, dest |-> dest, stall |-> stall, retries |-> 1,
     receive |-> receive, send |-> send]

\* Chunks that cross between queues of one; an input that stalls, so that a
\* position is answered twice; a replicated chunk that fills the send queue;
\* streams with a limit of their own and a common pool; an empty chunk; only
\* replicated chunks and a stall.
mcLayouts ==
    {Layout(<<<<Full(1), Full(2)>>, <<Full(1)>>>>, <<2, 1>>, <<0, 0>>, 1, 1),
     Layout(<<<<Full(1), Full(2), Full(3)>>, <<>>>>, <<2, 1, 1>>, <<1, 0>>, 1, 2),
     Layout(<<<<Full(1), Full(2)>>, <<Full(2)>>>>, <<All, 1>>, <<0, 0>>, 2, 1),
     Layout(<<<<Full(1), Full(2)>>, <<Full(2)>>>>, <<1, 1>>, <<0, 0>>, 4, 2),
     Layout(<<<<Full(3)>>, <<Empty(1), Full(3)>>>>, <<1, 2, 1>>, <<0, 0>>, 2, 1),
     Layout(<<<<Full(1)>>, <<Full(2)>>>>, <<All, All>>, <<1, 0>>, 2, 1)}
==============================================================================
