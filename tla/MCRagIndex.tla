---------------------------- MODULE MCRagIndex ----------------------------
(***************************************************************************)
(* Instances of RagIndex for TLC.                                          *)
(***************************************************************************)
EXTENDS RagIndex

CONSTANTS F1, F2, A, B

TwoFiles == {F1, F2}

\* No text, blanks, texts of one chunk and of several, with and without repetitions.
SomeTexts == {<<>>, <<Space>>, <<A>>, <<Space, A, B>>, <<A, A, A, A>>, <<A, B, A, B, A>>,
              <<B, A, A, B, Space, A>>, <<A, B, B, A, A, B, Space>>, <<A, Space, B, A, A, A, A, B>>}
=============================================================================
