------------------------------ MODULE TakeCuts ------------------------------
(***************************************************************************)
(* How tts.py cuts a take into lines: quietest, in_pause, cut_points and   *)
(* check, as functions of the loudness of the take and of the words that   *)
(* Whisper heard.  Times are counted in frames of 10 ms, cuts in half      *)
(* frames.  Which heard words belong to which line is difflib's answer and *)
(* an argument here: it never crosses the order of the words.              *)
(***************************************************************************)
EXTENDS Integers, Sequences, FiniteSets, SequencesExt, FiniteSetsExt

CONSTANTS
    Threshold,   \* dB up to which a frame is quiet: -45
    Margin,      \* dB above the quietest frame that pass for quiet: 6
    MinPause,    \* frames of a clear pause: 8
    Slack,       \* frames by which a word's edges are off: 5
    Back, Ahead  \* frames searched into the words around a cut: 30 and 80

ASSUME LoudnessAssumption == Threshold \in Int /\ Margin \in Nat
ASSUME SearchAssumption == Slack \in Nat \ {0} /\ {Back, Ahead} \subseteq Nat

(* The frames of db from a up to b - 1, as Python numbers them.             *)
Window(db, a, b) == SubSeq(db, a + 1, b)

QuietFrames(window) ==
    LET below(level) == {i \in 1 .. Len(window) : window[i] <= level}
    IN  IF below(Threshold) # {} THEN below(Threshold)
        ELSE below(Min(ToSet(window)) + Margin)

(* Mutant: the run is not reset at a loud frame. *)
ScanOn(window) ==
    LET quiet == QuietFrames(window)
        after[i \in 0 .. Len(window)] ==
          IF i = 0 THEN [best |-> <<0, 0>>, run |-> 0, start |-> 0]
          ELSE LET s == after[i - 1]
                   start == IF s.run = 0 THEN i - 1 ELSE s.start
               IN  IF i \notin quiet THEN s
                   ELSE [best |-> IF s.run + 1 > s.best[2] - s.best[1]
                                  THEN <<start, i>> ELSE s.best,
                         run |-> s.run + 1, start |-> start]
    IN  after[Len(window)].best

(* The loop of quietest: the first of the longest runs of quiet frames.     *)
Scan(window) ==
    LET quiet == QuietFrames(window)
        after[i \in 0 .. Len(window)] ==
          IF i = 0 THEN [best |-> <<0, 0>>, run |-> 0, start |-> 0]
          ELSE LET s == after[i - 1]
                   start == IF s.run = 0 THEN i - 1 ELSE s.start
               IN  IF i \notin quiet THEN [s EXCEPT !.run = 0]
                   ELSE [best |-> IF s.run + 1 > s.best[2] - s.best[1]
                                  THEN <<start, i>> ELSE s.best,
                         run |-> s.run + 1, start |-> start]
    IN  after[Len(window)].best

Quietest(db, lo, hi) ==
    LET a == Max({0, lo})
        b == Min({Len(db), hi + 1})
        best == Scan(Window(db, a, b))
    IN  IF b - a < 3 THEN lo + hi ELSE 2 * a + best[1] + best[2]

(* The frame of a cut lies in enough quiet frames on end.                   *)
InPause(db, cut) ==
    LET at == cut \div 2 + 1
        still(i, j) == \A k \in i .. j : db[k] <= Threshold
    IN  /\ at \in 1 .. Len(db)
        /\ \E i \in 1 .. at : \E j \in at .. Len(db) :
              j - i + 1 >= MinPause /\ still(i, j)

-----------------------------------------------------------------------------
(* cut_points.  matched[n]: the heard words of line n; gaps: the silences   *)
(* ffmpeg found, in order.  Not placed: the script exits.                   *)

Placed(cuts) == [placed |-> TRUE, cuts |-> cuts]
NotPlaced == [placed |-> FALSE, cuts |-> <<>>]

(* The place of i in S, and S as a list, by an order: pairs of its elements. *)
Rank(i, S, order) == Cardinality({j \in S : <<j, i>> \in order})

InOrder(S, order) ==
    [n \in 1 .. Cardinality(S) |-> CHOOSE i \in S : Rank(i, S, order) = n - 1]

LongerFirst(gaps, inside) ==
    LET size(i) == gaps[i][2] - gaps[i][1]
    IN  {p \in inside \X inside :
           size(p[1]) > size(p[2]) \/ (size(p[1]) = size(p[2]) /\ p[1] < p[2])}

(* The k longest of the gaps inside, the earlier of two of one length first. *)
Longest(gaps, inside, k) ==
    {i \in inside : Rank(i, inside, LongerFirst(gaps, inside)) < k}

(* The middle, in half frames, of the part of gap i between lo and hi.      *)
Middle(gaps, lo, hi, i) == Max({gaps[i][1], lo}) + Min({gaps[i][2], hi})

EarlierFirst(gaps, chosen, lo, hi) ==
    LET middle(i) == Middle(gaps, lo, hi, i)
    IN  {p \in chosen \X chosen :
           middle(p[1]) < middle(p[2]) \/ (middle(p[1]) = middle(p[2]) /\ p[1] < p[2])}

(* The middles of chosen gaps, in order.                                    *)
Middles(gaps, chosen, lo, hi) ==
    LET order == InOrder(chosen, EarlierFirst(gaps, chosen, lo, hi))
    IN  [n \in 1 .. Cardinality(chosen) |-> Middle(gaps, lo, hi, order[n])]

Inside(gaps, lo, hi) == {i \in DOMAIN gaps : gaps[i][2] > lo /\ gaps[i][1] < hi}

(* Mutant: one pause for every line without a matched word. *)
PausesOneShort(gaps, lo, hi, unmatched) ==
    LET inside == Inside(gaps, lo, hi)
    IN  IF Cardinality(inside) < unmatched THEN NotPlaced
        ELSE Placed(Middles(gaps, Longest(gaps, inside, unmatched), lo, hi))

(* The cuts around lines without a matched word, at the longest pauses.     *)
Pauses(gaps, lo, hi, unmatched) ==
    LET inside == Inside(gaps, lo, hi)
    IN  IF Cardinality(inside) < unmatched + 1 THEN NotPlaced
        ELSE Placed(Middles(gaps, Longest(gaps, inside, unmatched + 1), lo, hi))

(* The cuts from line n on, where line n - 1 has a matched word.            *)
CutPoints(matched, words, gaps, db) ==
    LET lines == Len(matched)
        unmatched(n) == Min({k \in 0 .. lines - n : matched[n + k] # {}})
        last(n) == words[Max(matched[n - 1])]
        first(n) == words[Min(matched[n + unmatched(n)])]
        lo(n) == last(n).end - Slack
        hi(n) == first(n).start + Slack
        cutsAt(n) ==
          IF unmatched(n) = 0
          THEN Placed(<<Quietest(db, Max({last(n).start, last(n).end - Back}),
                 Max({hi(n), Min({first(n).end, first(n).start + Ahead})}))>>)
          ELSE Pauses(gaps, lo(n), hi(n), unmatched(n))
        from[n \in 2 .. lines + 1] ==
          IF n > lines THEN Placed(<<>>)
          ELSE LET here == cutsAt(n)
                   rest == from[n + unmatched(n) + 1]
               IN  IF here.placed /\ rest.placed THEN Placed(here.cuts \o rest.cuts)
                                                ELSE NotPlaced
    IN  IF matched[1] = {} \/ matched[lines] = {} THEN NotPlaced ELSE from[2]

(* check: the words whose middle lies in the clip of a line.                *)
HeardIn(words, start, end) ==
    {w \in DOMAIN words : LET middle == words[w].start + words[w].end
                          IN  start <= middle /\ middle < end}

Bounds(cuts, length) == [i \in 1 .. Len(cuts) + 1 |->
    <<IF i = 1 THEN 0 ELSE cuts[i - 1], IF i = Len(cuts) + 1 THEN length ELSE cuts[i]>>]

-----------------------------------------------------------------------------
(* The properties, for all takes of a bounded set.                          *)

(* Maximal stretches of quiet frames of a window, as pairs of edges.        *)
Stretches(window) ==
    LET quiet == QuietFrames(window)
    IN  {p \in (0 .. Len(window)) \X (0 .. Len(window)) :
            /\ p[1] < p[2]
            /\ (p[1] + 1) .. p[2] \subseteq quiet
            /\ p[1] \notin quiet /\ p[2] + 1 \notin quiet}

(* The cut is the middle of the longest quiet stretch between the words,    *)
(* the first of several, and never in a shorter one inside a word; when it  *)
(* is long enough the cut is known to be in a clear pause.                  *)
CutsThePause(db, lo, hi) ==
    LET a == Max({0, lo})
        window == Window(db, a, Min({Len(db), hi + 1}))
        cut == Quietest(db, lo, hi)
        size(p) == p[2] - p[1]
    IN  Len(window) >= 3 =>
          \E p \in Stretches(window) :
             /\ cut = 2 * a + p[1] + p[2]
             /\ \A q \in Stretches(window) :
                   size(q) < size(p) \/ (size(q) = size(p) /\ q[1] >= p[1])
             /\ size(p) >= MinPause /\ window[p[2]] <= Threshold => InPause(db, cut)

(* Every line after the first gets one cut, also where Whisper missed whole *)
(* lines, so that clips and lines are paired right; every cut lies near the *)
(* matched words around it, or within the one long word both come from; and *)
(* no clip ends before it starts, unless the first and the last matched     *)
(* word of a line are one or nearly so, where the searches around both of   *)
(* its cuts overlap.                                                        *)
OneCutPerLine(matched, words, gaps, db) ==
    LET result == CutPoints(matched, words, gaps, db)
        cuts == result.cuts
        before(n) == Max(UNION {matched[m] : m \in 1 .. n - 1})
        after(n) == Min(UNION {matched[m] : m \in n .. Len(matched)})
        apart(v, w) == v.start + Slack <= w.start /\ w.start + Slack <= w.end
    IN  result.placed =>
          /\ Len(cuts) = Len(matched) - 1
          /\ \A n \in 2 .. Len(matched) :
                /\ cuts[n - 1] >= 2 * (words[before(n)].start - Slack)
                /\ \/ cuts[n - 1] <= 2 * (words[after(n)].start + Max({Ahead, Slack})) + 1
                   \/ cuts[n - 1] <= 2 * words[before(n)].end + 1
          /\ \A n \in 2 .. Len(matched) - 1 :
                \/ cuts[n - 1] <= cuts[n]
                \/ /\ matched[n] # {}
                   /\ ~apart(words[Min(matched[n])], words[Max(matched[n])])
=============================================================================
