\* Two lines, two takes, edits and stopped runs of all engines.
CONSTANTS
    l1 = l1  l2 = l2  t1 = t1  t2 = t2
    Lines = {l1, l2}
    Takes = {t1, t2}
    Only = Only
    Texts = {"old", "new"}
    NoText = NoText
    Scripts <- Versions
    MaxRuns = 4
    MaxRecordings = 2
    Threshold <- Minus45
    Margin = 6
    MinPause = 3
    Slack = 1
    Back = 2
    Ahead = 3
SPECIFICATION Spec
INVARIANTS ClipsSayTheText DurationsOfClips CutsAreInPauses LinesAreCut SentencesFromOneTake
PROPERTIES UnchangedIsKept
SYMMETRY Symmetry
CHECK_DEADLOCK FALSE
