----------------------------- MODULE Chunking -----------------------------
(***************************************************************************)
(* The sliding window of _chunk_text (app/rag/pipeline.py): the parts      *)
(* <<first, end>> of a text of n characters that are made its chunks.      *)
(***************************************************************************)
EXTENDS Integers

\* How far the window moves.
Step(size, overlap) == IF size - overlap > 1 THEN size - overlap ELSE 1

\* start, while it is less than n.
Starts(n, size, overlap) == {i \in 0..(n - 1) : i % Step(size, overlap) = 0}

\* text[start : start + size], which the end of the text cuts off.
Window(i, n, size) == <<i, IF i + size =< n THEN i + size ELSE n>>

Windows(n, size, overlap) ==
    IF n = 0 THEN {}
    ELSE IF n =< size THEN {<<0, n>>}
    ELSE {Window(i, n, size) : i \in Starts(n, size, overlap)}

\* The part from i to j lies in one window.
InOneWindow(i, j, n, size, overlap) ==
    \E w \in Windows(n, size, overlap) : w[1] =< i /\ j =< w[2]
=============================================================================
