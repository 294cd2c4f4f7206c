\* Two files of texts long and short, blank and repetitive; a new image.
CONSTANTS
    F1 = F1  F2 = F2  A = A  B = B
    Space = Space
    Files <- TwoFiles
    Contents <- SomeTexts
    Size = 3
    Overlap = 1
    MaxDeploys = 1
SPECIFICATION FairSpec
INVARIANTS PassagesWhole
PROPERTIES BotComesUp
