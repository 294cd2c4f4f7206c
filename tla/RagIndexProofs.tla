-------------------------- MODULE RagIndexProofs --------------------------
(***************************************************************************)
(* What the windows of Chunking are worth for every text, size and         *)
(* overlap, and what the index of RagIndex holds for all documents.        *)
(***************************************************************************)
EXTENDS RagIndex, SequenceTheorems, FiniteSetTheorems, WellFoundedInduction, TLAPS

\* A multiple of step leaves no remainder.
LEMMA Multiple ==
    ASSUME NEW k \in Nat, NEW step \in Nat \ {0}
    PROVE  (step * k) % step = 0
BY SMT

\* The last window to start at or before i starts less than a step before it.
LEMMA StartBefore ==
    ASSUME NEW i \in Nat, NEW step \in Nat \ {0}
    PROVE  \E s \in 0..i : i - s < step /\ s % step = 0
<1> DEFINE k == i \div step
<1>1. k \in Nat /\ i = step * k + (i % step)
  BY SMT
<1>2. i % step \in 0..(step - 1)
  BY SMT
<1>3. (step * k) % step = 0
  BY <1>1, Multiple
<1>4. step * k \in Int
  BY <1>1, SMT
<1>5. step * k \in 0..i /\ i - step * k < step
  <2> HIDE DEF k
  <2> QED BY <1>1, <1>2, <1>4, SMT
<1> HIDE DEF k
<1> QED BY <1>3, <1>5

\* The window moves at least one character, and not past its own size less the overlap.
LEMMA StepBound ==
    ASSUME NEW size \in Nat \ {0}, NEW overlap \in Nat
    PROVE  /\ Step(size, overlap) \in Nat \ {0}
           /\ overlap < size => Step(size, overlap) + overlap = size
           /\ overlap >= size => Step(size, overlap) = 1
BY DEF Step

\* _chunk_text cuts no short passage: in a text of any length, with any size and
\* overlap, a passage of at most one character more than the overlap, and at most a
\* window long, lies in one chunk.  seed may therefore take each chunk for itself.
THEOREM PassageInOneWindow ==
    ASSUME NEW n \in Nat, NEW size \in Nat \ {0}, NEW overlap \in Nat,
           NEW i \in Nat, NEW j \in Nat,
           i < j, j =< n, j - i =< overlap + 1, j - i =< size
    PROVE  InOneWindow(i, j, n, size, overlap)
<1>1. CASE n =< size
  <2>1. n # 0 /\ <<0, n>> \in Windows(n, size, overlap)
    BY <1>1 DEF Windows
  <2> QED BY <2>1 DEF InOneWindow
<1>2. CASE n > size
  <2> DEFINE step == Step(size, overlap)
  <2>1. /\ step \in Nat \ {0}
        /\ overlap < size => step + overlap = size
        /\ overlap >= size => step = 1
    BY StepBound
  <2>2. PICK s \in 0..i : i - s < step /\ s % step = 0
    BY <2>1, StartBefore
  <2>3. s \in Starts(n, size, overlap)
    BY <2>2 DEF Starts
  <2>4. Window(s, n, size) \in Windows(n, size, overlap)
    BY <1>2, <2>3 DEF Windows
  <2>5. j =< s + size
    <3> HIDE DEF step
    <3> QED BY <2>1, <2>2
  <2>6. /\ Window(s, n, size)[1] =< i
        /\ j =< Window(s, n, size)[2]
    BY <2>2, <2>5 DEF Window
  <2> QED BY <2>4, <2>6 DEF InOneWindow
<1> QED BY <1>1, <1>2

\* No chunk is longer than a window, none is empty, and all are parts of the text: what
\* seed embeds is what the files say.
THEOREM WindowsInText ==
    ASSUME NEW n \in Nat, NEW size \in Nat \ {0}, NEW overlap \in Nat,
           NEW w \in Windows(n, size, overlap)
    PROVE  /\ w[1] \in 0..(n - 1) /\ w[2] \in 1..n
           /\ w[1] < w[2] /\ w[2] - w[1] =< size
<1>1. CASE n = 0
  BY <1>1 DEF Windows
<1>2. CASE n # 0 /\ n =< size
  BY <1>2 DEF Windows
<1>3. CASE n > size
  <2>1. PICK s \in Starts(n, size, overlap) : w = Window(s, n, size)
    BY <1>3 DEF Windows
  <2>2. s \in 0..(n - 1)
    BY <2>1 DEF Starts
  <2> QED BY <2>1, <2>2 DEF Window
<1> QED BY <1>1, <1>2, <1>3

-----------------------------------------------------------------------------
\* A set of positions has a first one; it is where the set of the positions up to one
\* is least.
LEMMA FirstExists ==
    ASSUME NEW n \in Nat, NEW I \in SUBSET (1..n), I # {}
    PROVE  \E i \in I : \A j \in I : i =< j
<1> DEFINE UpTo(x) == {y \in I : y =< x}
           F == {UpTo(x) : x \in I}
<1>1. IsFiniteSet(1..n)
    BY FS_Interval
<1>2. F \subseteq FiniteSubsetsOf(1..n) /\ F # {}
    <2>1. \A x \in I : UpTo(x) \in SUBSET (1..n)
        OBVIOUS
    <2>2. FiniteSubsetsOf(1..n) = SUBSET (1..n)
        BY <1>1, FS_FiniteSubsetsOfFinite
    <2>3. \E x \in I : UpTo(x) \in F
        OBVIOUS
    <2>4. \A T \in F : T \in SUBSET (1..n)
        BY <2>1
    <2> QED
        BY <2>2, <2>3, <2>4
<1>3. PICK T \in F : \A U \in F : <<U, T>> \notin StrictSubsetOrdering(1..n)
    BY <1>2, FS_StrictSubsetOrderingWellFounded, WFMin
<1>4. PICK i \in I : T = UpTo(i)
    BY <1>3
<1>5. ASSUME NEW j \in I, ~(i =< j)
      PROVE  FALSE
    <2> i \in Nat /\ j \in Nat /\ \A y \in I : y \in Nat
        OBVIOUS
    <2>1. UpTo(j) \subseteq UpTo(i) /\ i \in UpTo(i) /\ i \notin UpTo(j)
        <3>1. \A y \in I : y =< j => y =< i
            BY <1>5
        <3>2. i =< i /\ ~(i =< j)
            BY <1>5
        <3>3. UpTo(j) \subseteq UpTo(i)
            BY <3>1
        <3> QED
            BY <3>2, <3>3
    <2>2. UpTo(i) \in SUBSET (1..n) /\ UpTo(j) \in SUBSET (1..n) /\ UpTo(j) # UpTo(i)
        BY <2>1
    <2>3. <<UpTo(j), UpTo(i)>> \in StrictSubsetOrdering(1..n)
        BY <2>1, <2>2 DEF StrictSubsetOrdering
    <2> QED
        BY <2>3, <1>3, <1>4
<1> QED
    BY <1>4, <1>5

\* And a last one, the first counted from the end.
LEMMA LastExists ==
    ASSUME NEW n \in Nat, NEW I \in SUBSET (1..n), I # {}
    PROVE  \E i \in I : \A j \in I : i >= j
<1> DEFINE J == {n + 1 - i : i \in I}
<1>1. J \in SUBSET (1..n) /\ J # {}
  <2>1. ASSUME NEW i \in I
        PROVE  n + 1 - i \in 1..n
    <3>1. i \in Int /\ 1 =< i /\ i =< n
        OBVIOUS
    <3> QED
        BY <3>1
  <2>2. PICK i \in I : TRUE
    OBVIOUS
  <2>3. n + 1 - i \in J
    OBVIOUS
  <2>4. ASSUME NEW k \in J
        PROVE  k \in 1..n
    BY <2>1
  <2> QED
    BY <2>3, <2>4
<1>2. PICK k \in J : \A j \in J : k =< j
    BY <1>1, FirstExists
<1>3. PICK i \in I : k = n + 1 - i
    BY <1>2
<1>4. \A j \in I : n + 1 - j \in J
    OBVIOUS
<1>5. i \in Int /\ \A j \in I : j \in Int /\ n + 1 - i =< n + 1 - j
    BY <1>2, <1>3, <1>4
<1> QED
    BY <1>5

\* What strip returns is a part of the text that begins and ends with ink.
LEMMA StripType ==
    ASSUME NEW S, NEW text \in Seq(S)
    PROVE  Strip(text) \in Seq(S)
<1>1. CASE Ink(text) = {}
    BY <1>1 DEF Strip
<1>2. CASE Ink(text) # {}
    <2> DEFINE First == CHOOSE i \in Ink(text) : \A j \in Ink(text) : i =< j
               Last == CHOOSE i \in Ink(text) : \A j \in Ink(text) : i >= j
    <2>1. Len(text) \in Nat /\ Ink(text) \in SUBSET (1..Len(text))
        BY DEF Ink
    <2>2. First \in Ink(text) /\ Last \in Ink(text)
        BY <2>1, <1>2, FirstExists, LastExists
    <2>3. First \in 1..Len(text) /\ Last \in 1..Len(text)
        BY <2>1, <2>2
    <2>4. Strip(text) = SubSeq(text, First, Last)
        BY <1>2 DEF Strip
    <2> HIDE DEF First, Last
    <2>5. \A i \in First..Last : text[i] \in S
        BY <2>1, <2>3
    <2>6. First \in Int /\ Last \in Int
        BY <2>3
    <2> QED
        BY <2>4, <2>5, <2>6, SubSeqProperties
<1> QED
    BY <1>1, <1>2

\* A chunk is a part of its file, neither empty nor longer than Size.
LEMMA ChunkType ==
    ASSUME NEW text \in Contents, NEW w \in WindowsOf(text)
    PROVE  /\ Len(Part(text, w)) = w[2] - w[1]
           /\ Len(Part(text, w)) \in 1..Size
<1> DEFINE S == {text[i] : i \in DOMAIN text}
           stripped == Strip(text)
<1>1. stripped \in Seq(S)
    BY RagAssumption, StripType
<1> HIDE DEF S, stripped
<1>2. Len(stripped) \in Nat
    BY <1>1
<1>3. w \in Windows(Len(stripped), Size, Overlap)
    BY DEF WindowsOf, stripped
<1>4. /\ w[1] \in 0..(Len(stripped) - 1) /\ w[2] \in 1..Len(stripped)
      /\ w[1] < w[2] /\ w[2] - w[1] =< Size
    BY <1>2, <1>3, RagAssumption, WindowsInText
<1>5. \A i \in (w[1] + 1)..w[2] : stripped[i] \in S
    BY <1>1, <1>2, <1>4
<1>6. Part(text, w) = SubSeq(stripped, w[1] + 1, w[2])
    BY DEF Part, stripped
<1>7. Len(Part(text, w)) = IF w[1] + 1 =< w[2] THEN w[2] - (w[1] + 1) + 1 ELSE 0
    BY <1>2, <1>4, <1>5, <1>6, SubSeqProperties
<1> QED
    BY <1>2, <1>4, <1>7, RagAssumption

LEMMA ChunksType ==
    ASSUME NEW D \in Documents, NEW c \in Chunks(D)
    PROVE  c[1] \in Files /\ Len(c[2]) \in 1..Size
<1>1. PICK f \in Files : \E w \in WindowsOf(D[f]) : c = <<f, Part(D[f], w)>>
    BY DEF Chunks
<1>2. D[f] \in Contents
    BY DEF Documents
<1> QED
    BY <1>1, <1>2, ChunkType

\* What a step does to the container, and whether it stores anything.
LEMMA ContainerStep ==
    ASSUME TypeOK, [Next]_vars
    PROVE  /\ docs' \in Documents /\ bot' \in {"down", "up"} /\ deploys' \in 0..MaxDeploys
           /\ MaxDeploys = 0 => docs' = docs
           /\ \/ Upsert /\ UNCHANGED docs
              \/ UNCHANGED <<index, seeded>> /\
                    (bot' = "up" => bot = "up" \/ index # {} \/ Chunks(docs) = {})
<1> USE RagAssumption DEF TypeOK
<1>1. ASSUME NEW D \in Documents, Deploy(D)
      PROVE  /\ docs' = D /\ bot' = "down" /\ deploys' = deploys + 1
             /\ deploys < MaxDeploys /\ UNCHANGED <<index, seeded>>
    BY <1>1 DEF Deploy
<1>2. CASE Start
    BY <1>2 DEF Start, NoChunks, Skips
<1>3. CASE StartFails \/ UNCHANGED vars
    BY <1>3 DEF StartFails, vars
<1>4. CASE Stop
    BY <1>4 DEF Stop
<1>5. ASSUME NEW force \in BOOLEAN, SeedScript(force)
      PROVE  Upsert /\ UNCHANGED <<docs, bot, deploys>>
    BY <1>5 DEF SeedScript
<1>6. CASE \E D \in Documents : Deploy(D)
    <2>1. deploys < MaxDeploys /\ deploys' = deploys + 1 /\ docs' \in Documents /\ bot' = "down"
          /\ UNCHANGED <<index, seeded>>
        BY <1>6, <1>1
    <2>2. MaxDeploys # 0 /\ deploys' \in 0..MaxDeploys
        BY <2>1
    <2> QED
        BY <2>1, <2>2
<1>7. CASE \E force \in BOOLEAN : SeedScript(force)
    BY <1>7, <1>5
<1> QED
    BY <1>2, <1>3, <1>4, <1>6, <1>7 DEF Next

LEMMA RagInvStep == RagInv /\ [Next]_vars => RagInv'
<1> SUFFICES ASSUME RagInv, [Next]_vars
             PROVE  RagInv'
    OBVIOUS
<1> USE DEF RagInv, TypeOK
<1>1. CASE Upsert /\ UNCHANGED docs
    <2>1. docs \in Documents /\ index' = index \cup Chunks(docs) /\ seeded' = docs
        BY <1>1 DEF Upsert
    <2>2. \A c \in index' : c[1] \in Files /\ Len(c[2]) \in 1..Size
        BY <2>1, ChunksType
    <2>3. bot' \in {"down", "up"} /\ deploys' \in 0..MaxDeploys
        BY ContainerStep
    <2>4. (seeded # NoDocuments => Chunks(seeded) \subseteq index)'
        BY <2>1
    <2> QED
        BY <2>1, <2>2, <2>3, <2>4, <1>1
<1>2. CASE UNCHANGED <<index, seeded>>
    <2>1. docs' \in Documents /\ bot' \in {"down", "up"} /\ deploys' \in 0..MaxDeploys
        BY ContainerStep
    <2>2. Chunks(seeded)' = Chunks(seeded)
        BY <1>2 DEF Chunks, Part, WindowsOf
    <2> QED
        BY <1>2, <2>1, <2>2
<1> QED
    BY <1>1, <1>2, ContainerStep

LEMMA RagInvHolds == Spec => []RagInv
<1>1. Init => RagInv
    BY RagAssumption DEF Init, RagInv, TypeOK
<1> QED
    BY <1>1, RagInvStep, PTL DEF Spec

-----------------------------------------------------------------------------
\* The collection holds chunks of files that are neither empty nor longer than a
\* window, whatever the documents are.
THEOREM RagTypeCorrect == Spec => []TypeOK
<1>1. RagInv => TypeOK
    BY DEF RagInv
<1> QED
    BY <1>1, RagInvHolds, PTL

\* Every short passage of the documents that were stored last can be retrieved in one
\* piece, for all documents, sizes and overlaps, in whatever order seeds, restarts and
\* new images come.
THEOREM PassagesAreWhole == Spec => []PassagesWhole
<1>1. ASSUME RagInv, seeded # NoDocuments, NEW f \in Files,
             NEW i \in 1..Len(Strip(seeded[f])), NEW j \in 1..Len(Strip(seeded[f])),
             i =< j, j - i =< Overlap, j - i < Size
      PROVE  \E c \in index : \E k \in 1..Len(c[2]) :
                 /\ c[1] = f /\ k + (j - i) =< Len(c[2])
                 /\ SubSeq(c[2], k, k + (j - i)) = SubSeq(Strip(seeded[f]), i, j)
    <2> DEFINE text == seeded[f]
               stripped == Strip(text)
               S == {text[x] : x \in DOMAIN text}
               n == Len(stripped)
    <2>1. text \in Contents
        BY <1>1 DEF RagInv, TypeOK, Documents
    <2>2. stripped \in Seq(S)
        BY <2>1, RagAssumption, StripType
    <2>3. n \in Nat /\ i \in 1..n /\ j \in 1..n
        BY <2>2
    <2> HIDE DEF S, stripped, n
    <2>4. InOneWindow(i - 1, j, n, Size, Overlap)
        <3>1. i - 1 \in Nat /\ i - 1 < j /\ j =< n /\ j \in Nat
              /\ j - (i - 1) =< Overlap + 1 /\ j - (i - 1) =< Size
            BY <1>1, <2>3, RagAssumption
        <3> QED
            BY <3>1, <2>3, RagAssumption, PassageInOneWindow
    <2>5. PICK w \in Windows(n, Size, Overlap) : w[1] =< i - 1 /\ j =< w[2]
        BY <2>4 DEF InOneWindow
    <2>6. w[1] \in 0..(n - 1) /\ w[2] \in 1..n
        BY <2>3, <2>5, RagAssumption, WindowsInText
    <2>7. w \in WindowsOf(text)
        BY <2>5 DEF WindowsOf, n, stripped
    <2> DEFINE c == <<f, Part(text, w)>>
               k == i - w[1]
    <2>8. c \in index
        <3>1. c \in Chunks(seeded)
            BY <2>7 DEF Chunks
        <3> QED
            BY <3>1, <1>1 DEF RagInv
    <2>9. Len(Part(text, w)) = w[2] - w[1]
        BY <2>1, <2>7, ChunkType
    <2>10. k \in 1..Len(c[2]) /\ k + (j - i) =< Len(c[2]) /\ k + (j - i) \in 1..Len(c[2])
        <3>1. w[1] \in Int /\ w[2] \in Int /\ i \in Int /\ j \in Int
            BY <2>3, <2>6
        <3>2. Len(c[2]) = w[2] - w[1]
            BY <2>9
        <3>3. k \in Int /\ 1 =< k /\ k + (j - i) = j - w[1] /\ k =< k + (j - i)
            BY <1>1, <2>5, <3>1
        <3>4. j - w[1] =< w[2] - w[1]
            BY <2>5, <3>1
        <3> HIDE DEF k, c
        <3> QED
            BY <3>1, <3>2, <3>3, <3>4
    <2>11. SubSeq(c[2], k, k + (j - i)) = SubSeq(stripped, i, j)
        <3> DEFINE a == w[1] + 1
                   b == w[2]
                   l == k + (j - i)
        <3>1. a \in 1..n /\ b \in 1..n
            BY <2>3, <2>6
        <3>2. k \in 1..(b - a + 1) /\ l \in 1..(b - a + 1)
            BY <2>6, <2>9, <2>10
        <3>3. a + k - 1 = i /\ a + l - 1 = j
            BY <2>3, <2>6
        <3>4. c[2] = SubSeq(stripped, a, b)
            BY DEF Part, stripped
        <3> HIDE DEF a, b, k, l, c
        <3>5. SubSeq(SubSeq(stripped, a, b), k, l) = SubSeq(stripped, a + k - 1, a + l - 1)
            BY <2>2, <3>1, <3>2, SubSeqOfSubSeq DEF n
        <3> QED
            BY <3>3, <3>4, <3>5 DEF l
    <2> QED
        BY <2>8, <2>10, <2>11 DEF stripped
<1>2. RagInv => PassagesWhole
    BY <1>1 DEF PassagesWhole
<1> QED
    BY <1>2, RagInvHolds, PTL

\* It is only a new image that leaves the bot with documents it does not have: as long
\* as there is none, what is retrieved is of the documents in the container.
THEOREM IndexIsOfDocs == ASSUME MaxDeploys = 0 PROVE Spec => []IndexOfDocs
<1> DEFINE Inv == /\ TypeOK
                  /\ index = {} \/ index = Chunks(docs)
                  /\ IndexOfDocs
<1>1. Init => Inv
    BY RagAssumption DEF Init, TypeOK, IndexOfDocs
<1>2. RagInv' /\ Inv /\ [Next]_vars => Inv'
    <2> SUFFICES ASSUME RagInv', Inv, [Next]_vars
                 PROVE  Inv'
        OBVIOUS
    <2>1. docs' = docs
        BY ContainerStep
    <2>2. Chunks(docs)' = Chunks(docs)
        BY <2>1 DEF Chunks, Part, WindowsOf
    <2>3. \/ index' = index \cup Chunks(docs)
          \/ index' = index /\ (bot' = "up" => bot = "up" \/ index # {} \/ Chunks(docs) = {})
        BY ContainerStep DEF Upsert
    <2> QED
        BY <2>2, <2>3 DEF IndexOfDocs, RagInv
<1> QED
    BY <1>1, <1>2, RagInvHolds, PTL DEF Spec
=============================================================================
