----------------------------- MODULE MCNarration -----------------------------
(***************************************************************************)
(* An instance of Narration for TLC, and the bounded inputs over which the *)
(* functions of TakeCuts and VoiceChoice are evaluated.                    *)
(***************************************************************************)
EXTENDS Narration, TakeCuts, VoiceChoice

Symmetry == Permutations(Lines) \cup Permutations(Takes)

(* The narration, and versions with one line edited and the others dropped. *)
Versions ==
    {[l \in Lines |-> "old"]}
    \cup {[l \in Lines |-> IF l = m THEN "new" ELSE NoText] : m \in Lines}

(* The functions are evaluated once, before any script has run.             *)
AtStart == Init

(* Loudness: silence, quiet speech and loud speech, against a threshold of  *)
(* -45 dB; takes without silence are among them.                            *)
Minus45 == -45
Levels == {-60, -30, -20}
Loudness == UNION {[1 .. n -> Levels] : n \in 3 .. 7}

(* Whatever a take sounds like, a cut is the middle of the longest pause    *)
(* between two words (quietest), and check() is not told otherwise.         *)
CutsAreInPauses == AtStart =>
    \A db \in Loudness : \A lo \in 0 .. 5, hi \in 1 .. 7 :
        lo <= hi => CutsThePause(db, lo, hi)

(* Four words in order, the middle two perhaps spelled out of one (short,   *)
(* or longer than the searches for a cut), in four lines, with up to three  *)
(* silences.                                                                *)
Word(start, end) == [start |-> start, end |-> end]
Heard == {<<Word(0, 1), Word(1, 3), Word(3 + g, c), Word(c, 9)>> :
             g \in 0 .. 1, c \in 6 .. 7}
         \cup {<<Word(0, 1), Word(1, c), Word(1, c), Word(c, 9)>> : c \in {2, 3, 8}}
Alignments == {m \in [1 .. 4 -> SUBSET (1 .. 4)] :
                  /\ m[1] # {} /\ m[4] # {}
                  /\ \A i, j \in 1 .. 4 : i < j =>
                        \A v \in m[i], w \in m[j] : v < w}
Silences == {<<>>} \cup {<<<<s, s + 2>>>> : s \in 0 .. 6}
            \cup {<<<<s, s + n>>, <<t, t + 1>>>> : s \in 0 .. 2, n \in 1 .. 2, t \in 5 .. 6}
            \cup {<<<<1, 2>>, <<3, 5>>, <<6, 7>>>>}
Speech == {<<-20, -20, -20, -60, -60, -20, -60, -20, -20>>,
           <<-20, -30, -20, -30, -30, -20, -20, -20, -20>>,
           <<-20, -20, -20, -20, -20, -20, -60, -20, -20>>}

(* Whatever words Whisper misses, cut_points gives every line its own clip, *)
(* next to its own words, or gives up: clips never shift against the lines. *)
LinesAreCut == AtStart =>
    \A matched \in Alignments, words \in Heard, gaps \in Silences, db \in Speech :
        OneCutPerLine(matched, words, gaps, db)

ScriptLines == [scene : {"Intro", "Demo"}, ends : BOOLEAN]
TakenClips == [clean : BOOLEAN, match : BOOLEAN, voice : 1 .. 2]

(* pick_voice.py never stitches a sentence from two takes, and a take with  *)
(* a fault is chosen only when all have one.                                *)
SentencesFromOneTake == AtStart =>
    /\ \A lines \in UNION {[1 .. n -> ScriptLines] : n \in 0 .. 4} :
          SentencesAreWhole(lines)
    /\ \A n \in 1 .. 2 : \A clips \in [1 .. 2 -> [1 .. n -> TakenClips]] :
          FaultsAreLast(clips)
=============================================================================
