----------------------------- MODULE RagIndex -----------------------------
(***************************************************************************)
(* What the bot can retrieve: the documents of its image, the collection   *)
(* of chunks that outlives the container, and RagPipeline.seed             *)
(* (app/rag/pipeline.py), which the bot runs when it starts (app/main.py)  *)
(* and an operator runs beside it (seed_rag.py, with or without --force).  *)
(*                                                                         *)
(* Chroma is external: the id of a chunk is a hash of its file and its     *)
(* text, which the pair stands for; upsert replaces what has the same id   *)
(* and refuses a call in which an id comes twice.  Which chunks a query    *)
(* finds is up to the embedding and is not modelled.                       *)
(***************************************************************************)
EXTENDS Chunking, Sequences, FiniteSets

CONSTANTS
    Files,
    Contents,     \* what a file may hold: sequences of characters
    Space,        \* the character that strip removes
    Size, Overlap,
    MaxDeploys    \* bound: new images

ASSUME RagAssumption ==
    /\ Size \in Nat \ {0} /\ Overlap \in Nat /\ MaxDeploys \in Nat
    /\ \A text \in Contents : text \in Seq({text[i] : i \in DOMAIN text})

VARIABLES
    docs,      \* the content of the files
    index,     \* the collection: <<file, chunk>>
    bot,       \* "down" or "up"
    deploys,
    seeded     \* the documents of the last seed that stored anything, or none

vars == <<docs, index, bot, deploys, seeded>>

Documents == [Files -> Contents]
NoDocuments == <<>>

-----------------------------------------------------------------------------
Ink(text) == {i \in 1..Len(text) : text[i] # Space}

\* text.strip().
Strip(text) ==
    IF Ink(text) = {} THEN <<>>
    ELSE SubSeq(text, CHOOSE i \in Ink(text) : \A j \in Ink(text) : i =< j,
                      CHOOSE i \in Ink(text) : \A j \in Ink(text) : i >= j)

\* Mutant of WindowsOf: the text is cut without the overlap.
WindowsOfMutant(text) == Windows(Len(Strip(text)), Size, 0)

WindowsOf(text) == Windows(Len(Strip(text)), Size, Overlap)

Part(text, w) == SubSeq(Strip(text), w[1] + 1, w[2])

\* The chunks of all files, with their ids.
Chunks(D) == UNION {{<<f, Part(D[f], w)>> : w \in WindowsOf(D[f])} : f \in Files}

\* A file has the same chunk twice.
Repeats(D) ==
    \E f \in Files : \E v, w \in WindowsOf(D[f]) : v # w /\ Part(D[f], v) = Part(D[f], w)

TypeOK ==
    /\ docs \in Documents
    /\ \A c \in index : c[1] \in Files /\ Len(c[2]) \in 1..Size
    /\ bot \in {"down", "up"} /\ deploys \in 0..MaxDeploys
    /\ seeded \in Documents \cup {NoDocuments}

Init ==
    /\ docs \in Documents
    /\ index = {} /\ bot = "down" /\ deploys = 0 /\ seeded = NoDocuments

-----------------------------------------------------------------------------
\* Mutant of Skips: a start seeds, whatever is stored.
SkipsMutant(force) == FALSE

\* seed skips a collection that has anything in it, unless it is forced.
Skips(force) == index # {} /\ ~force

\* upsert of the chunks of all files,
Upsert ==
    /\ Chunks(docs) # {} /\ ~Repeats(docs)
    /\ index' = index \cup Chunks(docs)
    /\ seeded' = docs

\* which are not there, or which it refuses.
NoChunks == Chunks(docs) = {} /\ UNCHANGED <<index, seeded>>
Refused == Chunks(docs) # {} /\ Repeats(docs)

\* A new image has other documents; the bot goes down for it.
Deploy(D) ==
    /\ deploys < MaxDeploys /\ D # docs
    /\ deploys' = deploys + 1 /\ docs' = D /\ bot' = "down"
    /\ UNCHANGED <<index, seeded>>

\* The bot starts when seed returns.
Start ==
    /\ bot = "down"
    /\ (Skips(FALSE) /\ UNCHANGED <<index, seeded>>) \/ (~Skips(FALSE) /\ (Upsert \/ NoChunks))
    /\ bot' = "up"
    /\ UNCHANGED <<docs, deploys>>

\* It does not when seed raises, and the container starts it again.
StartFails ==
    /\ bot = "down" /\ ~Skips(FALSE) /\ Refused
    /\ UNCHANGED vars

Stop ==
    /\ bot = "up" /\ bot' = "down"
    /\ UNCHANGED <<docs, index, deploys, seeded>>

\* seed_rag.py, in the container of the bot.
SeedScript(force) ==
    /\ bot = "up" /\ ~Skips(force) /\ Upsert
    /\ UNCHANGED <<docs, bot, deploys>>

Next ==
    \/ \E D \in Documents : Deploy(D)
    \/ Start \/ StartFails \/ Stop
    \/ \E force \in BOOLEAN : SeedScript(force)

Spec == Init /\ [][Next]_vars

\* The container is started again until the bot is up.
FairSpec == Spec /\ WF_vars(Start)

-----------------------------------------------------------------------------
\* Nothing falls between two chunks: of the documents that were stored last, every
\* passage no longer than the overlap and one character is found in one piece, in
\* whatever order seeds, restarts and new documents come.
PassagesWhole ==
    seeded # NoDocuments =>
        \A f \in Files :
            LET text == Strip(seeded[f])
            IN  \A i \in 1..Len(text), j \in 1..Len(text) :
                    (i =< j /\ j - i =< Overlap /\ j - i < Size) =>
                        \E c \in index : \E k \in 1..Len(c[2]) :
                            /\ c[1] = f /\ k + (j - i) =< Len(c[2])
                            /\ SubSeq(c[2], k, k + (j - i)) = SubSeq(text, i, j)

\* The bot comes up, whatever its documents are, unless they repeat themselves while
\* nothing is stored yet: documents that seed cannot store do not keep a bot down that
\* has others to answer from.
BotComesUp == bot = "down" ~> \/ bot = "up"
                              \/ index = {} /\ Repeats(docs)

-----------------------------------------------------------------------------
\* What was stored last is still there: the inductive invariant behind PassagesWhole.
RagInv ==
    /\ TypeOK
    /\ seeded # NoDocuments => Chunks(seeded) \subseteq index

-----------------------------------------------------------------------------
\* What the repository says of the index and TLC refutes.

\* The bot answers from its documents ("RPG docs are chunked, embedded with MiniLM,
\* stored in ChromaDB", README.md:197): what it retrieves is of the documents it has.
IndexOfDocs == bot = "up" => index = Chunks(docs)
=============================================================================
