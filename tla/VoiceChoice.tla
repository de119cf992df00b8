----------------------------- MODULE VoiceChoice -----------------------------
(***************************************************************************)
(* How pick_voice.py chooses among the takes: sentences groups the lines   *)
(* of a sentence, and main keeps for each group the take with the best     *)
(* score.  The likeness of a clip's voice to the reference voice is an     *)
(* argument here.                                                          *)
(***************************************************************************)
EXTENDS Integers, Sequences, SequencesExt, FiniteSetsExt

(* Mutant: a sentence may run on into the next scene. *)
GroupedAcross(groups, line) ==
    IF groups # <<>> /\ ~Last(Last(groups)).ends
    THEN [groups EXCEPT ![Len(groups)] = Append(@, line)]
    ELSE Append(groups, <<line>>)

(* A line joins the group before it when that is of its scene and its text  *)
(* does not end a sentence.                                                 *)
Grouped(groups, line) ==
    IF /\ groups # <<>>
       /\ Last(Last(groups)).scene = line.scene
       /\ ~Last(Last(groups)).ends
    THEN [groups EXCEPT ![Len(groups)] = Append(@, line)]
    ELSE Append(groups, <<line>>)

Sentences(lines) == FoldLeft(Grouped, <<>>, lines)

(* clips[t][i]: the clip of take t for the i-th line of a sentence.         *)
AllClean(clips) == \A i \in DOMAIN clips : clips[i].clean
AllMatch(clips) == \A i \in DOMAIN clips : clips[i].match
Voice(clips) == FoldLeft(LAMBDA sum, clip : sum + clip.voice, 0, clips)

(* Mutant: the likeness of the voice comes first. *)
VoiceFirst(a, b) == Voice(a) > Voice(b)

(* The order of the scores: clean edges, then the text, then the voice.     *)
Better(a, b) ==
    \/ AllClean(a) /\ ~AllClean(b)
    \/ /\ AllClean(a) = AllClean(b)
       /\ \/ AllMatch(a) /\ ~AllMatch(b)
          \/ AllMatch(a) = AllMatch(b) /\ Voice(a) > Voice(b)

(* max keeps the first of several best takes.                               *)
BestTake(clips) ==
    Min({t \in DOMAIN clips : \A u \in DOMAIN clips : ~Better(clips[u], clips[t])})

-----------------------------------------------------------------------------
(* Sentences are the maximal stretches of lines of one scene in which only  *)
(* the last line ends a sentence: no sentence is stitched from two takes    *)
(* and none holds lines of two scenes.                                      *)
SentencesAreWhole(lines) ==
    LET groups == Sentences(lines)
    IN  /\ FlattenSeq(groups) = lines
        /\ \A g \in DOMAIN groups : groups[g] # <<>> /\
              \A i \in 1 .. Len(groups[g]) - 1 :
                 groups[g][i].scene = groups[g][i + 1].scene /\ ~groups[g][i].ends
        /\ \A g \in 1 .. Len(groups) - 1 :
              \/ Last(groups[g]).ends
              \/ Last(groups[g]).scene # Head(groups[g + 1]).scene

(* A take that drifted, garbled a line or was cut inside a word is only     *)
(* chosen when every take of the sentence has such a fault.                 *)
FaultsAreLast(clips) ==
    LET best == clips[BestTake(clips)]
        faultless(c) == AllClean(c) /\ AllMatch(c)
    IN  (\E t \in DOMAIN clips : faultless(clips[t])) =>
           /\ faultless(best)
           /\ \A t \in DOMAIN clips : faultless(clips[t]) => Voice(clips[t]) <= Voice(best)
=============================================================================
