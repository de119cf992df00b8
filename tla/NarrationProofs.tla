--------------------------- MODULE NarrationProofs ---------------------------
(***************************************************************************)
(* What a run of the voice-over's scripts leaves, proved for every set of  *)
(* lines, texts and takes, every set of versions of the narration and any  *)
(* number of runs and recordings, of all engines, in any order.            *)
(*                                                                         *)
(* A run knows of the runs before it only through files, and those may be  *)
(* torn, or older than the files they describe.  The invariant says of     *)
(* each file that describes others what it can be trusted with as long as  *)
(* those are not loose (HashesFit, DigestsFit, CandidatesFit), and of the  *)
(* run under way how far it has come (the rest).                           *)
(***************************************************************************)
EXTENDS Narration, TLAPS

AnyScript == [Lines -> Texts \cup {NoText}]
Recorded == [kind : {"clip"}, text : Texts, recording : Nat]
Audio == {NoFile, TornFile} \cup Recorded
Hashed == [kind : {"hashes"}, texts : AnyScript]
Taken == [kind : {"take"}, script : AnyScript, recording : Nat]

Steps == {"rest", "line", "hash", "hashes", "durations", "take", "request", "digest",
          "cut", "candidates", "choose", "copy"}
Engines == {"none", "chirp", "gemini", "takes", "pick"}
Choices == {<<>>} \cup UNION {[S -> Takes] : S \in SUBSET Lines}
Runs == [at : Steps, engine : Engines, script : AnyScript, todo : SUBSET Lines,
         takes : SUBSET Dirs, line : Lines \cup {"none"}, now : Dirs,
         kept : AnyScript, lengths : [Lines -> Audio], choice : Choices, attempt : Nat,
         misled : SUBSET Lines]

FilesOK ==
    /\ clip \in [Dirs \X Lines -> Audio]
    /\ hashes \in {NoFile, TornFile} \cup Hashed
    /\ take \in [Dirs -> {NoFile, TornFile} \cup Taken]
    /\ digest \in [Dirs -> {NoFile, TornFile} \cup Hashed]
    /\ recordings \in Nat
    /\ looseClips \subseteq Lines /\ looseCandidates \subseteq Lines

HashOf(l) == IF hashes \in {NoFile, TornFile} THEN NoText ELSE hashes.texts[l]
InUse(l) == clip[<<Only, l>>]
Says(c, text) == c \in Recorded /\ c.text = text
Holds(t, script) == t \in Taken /\ t.script = script

(* Unless it is loose, a clip that is there is the one of hashes.json.      *)
HashesFit ==
    \A l \in Lines \ looseClips :
        InUse(l) # NoFile => HashOf(l) \in Texts /\ InUse(l) = Clip(HashOf(l), 0)

(* Unless it is loose, a take that is there is the one of its digest.       *)
DigestsFit ==
    \A n \in Dirs \ looseTakes :
        digest[n] \in Hashed /\ take[n] # NoFile => Holds(take[n], digest[n].texts)

(* candidates.json names clips that are there, and unless these are loose   *)
(* they are those it has measured and say the lines.                        *)
CandidatesFit ==
    candidates \notin {NoFile, TornFile} =>
        /\ candidates.script \in AnyScript
        /\ \A n \in Takes, l \in InScript(candidates.script) :
              /\ candidates.clips[<<n, l>>] \in Audio
              /\ clip[<<n, l>>] # NoFile
              /\ l \notin looseCandidates =>
                    /\ candidates.clips[<<n, l>>] = clip[<<n, l>>]
                    /\ Says(clip[<<n, l>>], candidates.script[l])

Places ==
    /\ run.engine = "none" => At("rest")
    /\ run.engine = "chirp" => run.at \in {"line", "hash", "hashes", "durations"}
    /\ run.engine = "gemini" =>
          run.at \in {"take", "request", "digest", "cut", "line", "durations"}
    /\ run.engine = "takes" =>
          run.at \in {"take", "request", "digest", "cut", "line", "candidates"}
    /\ run.engine = "pick" => run.at \in {"choose", "copy", "durations"}
    /\ run.engine # "takes" => run.now = Only /\ run.takes \subseteq {Only}
    /\ run.engine = "takes" => run.takes \subseteq Takes
    /\ run.engine \in {"gemini", "takes"} /\ run.at \in {"request", "digest", "cut", "line"}
          => run.now \in run.takes

(* What the locals of a run hold at each step.                              *)
Running ==
    /\ ~At("rest") => durations = NoFile
    /\ run.todo \subseteq InScript(run.script)
    /\ run.at \in {"choose", "take", "request", "digest", "cut", "candidates"} =>
          run.todo = InScript(run.script)
    /\ run.at \in {"hashes", "durations"} => run.todo = {}
    /\ run.engine = "chirp" => hashes # TornFile
    /\ run.engine = "chirp" /\ ~At("durations") => \A l \in Lines : run.kept[l] = HashOf(l)
    /\ At("hash") => /\ run.line \in run.todo
                     /\ InUse(run.line) = Clip(run.script[run.line], 0)
    /\ At("copy") => \A l \in run.todo : run.choice[l] \in Takes
    /\ run.engine \in {"gemini", "takes"} =>
          InScript(run.script) # {} /\ run.misled \in {{}, InScript(run.script)}
    /\ run.engine = "pick" =>
          /\ candidates \notin {NoFile, TornFile} /\ candidates.script = run.script
          /\ run.misled = looseCandidates \cap InScript(run.script)

(* The take at hand holds the script, unless its digest was older than it.  *)
TakeFits ==
    /\ At("digest") => Holds(take[run.now], run.script)
    /\ \/ At("cut")
       \/ At("line") /\ run.engine \in {"gemini", "takes"}
       \/ At("durations") /\ run.engine = "gemini"
       => /\ take[run.now] # NoFile
          /\ run.misled # {} \/ Holds(take[run.now], run.script)

(* The lines a run has done are in use, measured and as they should be.     *)
LineFits(l) ==
    /\ InUse(l) # NoFile
    /\ run.engine # "pick" \/ l \notin run.misled => run.lengths[l] = InUse(l)
    /\ l \notin run.misled =>
          /\ Says(InUse(l), run.script[l])
          /\ run.engine = "chirp" => InUse(l).recording = 0
          /\ run.engine = "gemini" => InUse(l).recording = take[run.now].recording

LinesFit ==
    /\ \A l \in Lines :
          IF l \in InScript(run.script) \ run.todo /\ run.engine # "takes"
          THEN LineFits(l)
          ELSE run.lengths[l] = NoFile
    /\ \/ At("line") /\ run.engine = "gemini"
       \/ At("hashes")
       \/ At("durations") /\ run.engine # "pick"
       => \A l \in Lines \ InScript(run.script) : InUse(l) = NoFile

(* The clips of the takes that are cut say the lines.                       *)
Cut(n, l) ==
    /\ clip[<<n, l>>] # NoFile
    /\ l \notin run.misled => Says(clip[<<n, l>>], run.script[l])

CutsFit ==
    run.engine = "takes" =>
        /\ \A n \in Takes \ run.takes, l \in InScript(run.script) : Cut(n, l)
        /\ \A l \in InScript(run.script) \ run.todo : Cut(run.now, l)
        /\ At("candidates") => run.takes = {}

FilesFit == FilesOK /\ HashesFit /\ DigestsFit /\ CandidatesFit
RunFits == run \in Runs /\ Places /\ Running /\ TakeFits /\ LinesFit /\ CutsFit
Ended == ClipsSayTheText /\ DurationsOfClips

NarrationInv == FilesFit /\ RunFits /\ Ended

-----------------------------------------------------------------------------

(* A run at rest is a run.                                                  *)
LEMMA RestIsRun == Resting \in Runs /\ NoScript \in AnyScript /\ NoClips \in [Lines -> Audio]
<1>1. NoScript \in AnyScript /\ NoClips \in [Lines -> Audio]
  BY DEF NoScript, NoClips, AnyScript, Audio
<1>2. <<>> \in Choices
  BY DEF Choices
<1> QED
  BY <1>1, <1>2 DEF Resting, Runs, Steps, Engines, Dirs

(* A clip is neither missing nor torn.                                      *)
LEMMA ClipIsWhole ==
    /\ \A text \in Texts, recording \in Nat :
          /\ Clip(text, recording) \in Recorded
          /\ Clip(text, recording).text = text /\ Clip(text, recording).recording = recording
    /\ \A c \in Recorded : c \notin {NoFile, TornFile}
    /\ \A h \in Hashed : h \notin {NoFile, TornFile}
    /\ \A t \in Taken : t \notin {NoFile, TornFile}
    /\ NoFile # TornFile
BY DEF Clip, Recorded, Hashed, Taken, NoFile, TornFile

(* A line of a script has a text.                                           *)
LEMMA LinesHaveTexts ==
    ASSUME NEW script \in AnyScript, NEW l \in InScript(script)
    PROVE  l \in Lines /\ script[l] \in Texts
BY DEF AnyScript, InScript

(* The takes are kept in directories of their own.                          *)
LEMMA DirsDiffer == Only \in Dirs /\ \A n \in Takes : n \in Dirs /\ n # Only
BY NarrationAssumption DEF Dirs

(* While a run is under way, and after one that was stopped, nothing is     *)
(* promised.                                                                *)
LEMMA DuringRun ==
    ASSUME durations' \in {NoFile, TornFile}
    PROVE  Ended'
BY DEF Ended, ClipsSayTheText, DurationsOfClips, ended

(* One clip is written, or some of those in use are deleted.                *)
LEMMA OneWritten ==
    ASSUME FilesOK, NEW d \in Dirs, NEW l \in Lines, NEW audio \in Audio,
           clip' = [clip EXCEPT ![<<d, l>>] = audio]
    PROVE  /\ clip' \in [Dirs \X Lines -> Audio]
           /\ \A e \in Dirs, m \in Lines :
                 clip'[<<e, m>>] = IF e = d /\ m = l THEN audio ELSE clip[<<e, m>>]
BY DEF FilesOK

LEMMA SomeUnlinked ==
    ASSUME FilesOK, NEW lines \in SUBSET Lines, clip' = Unlinked(lines)
    PROVE  /\ clip' \in [Dirs \X Lines -> Audio]
           /\ \A e \in Dirs, m \in Lines :
                 clip'[<<e, m>>] = IF e = Only /\ m \in lines THEN NoFile ELSE clip[<<e, m>>]
BY DEF FilesOK, Unlinked, Audio

(* Deleting clips in use leaves what is said of files true.                 *)
LEMMA UnlinkingFits ==
    ASSUME FilesFit, NEW lines \in SUBSET Lines, clip' = Unlinked(lines),
           UNCHANGED <<hashes, take, digest, recordings, candidates,
                       looseClips, looseTakes, looseCandidates>>
    PROVE  FilesFit'
<1>clip. /\ clip' \in [Dirs \X Lines -> Audio]
         /\ \A e \in Dirs, m \in Lines :
               clip'[<<e, m>>] = IF e = Only /\ m \in lines THEN NoFile ELSE clip[<<e, m>>]
  BY SomeUnlinked DEF FilesFit
<1>1. FilesOK' /\ DigestsFit'
  BY <1>clip DEF FilesFit, FilesOK, DigestsFit, Holds
<1>2. HashesFit'
  BY <1>clip, DirsDiffer DEF FilesFit, HashesFit, HashOf, InUse
<1>3. CandidatesFit'
  BY <1>clip, DirsDiffer DEF FilesFit, CandidatesFit, Says, InScript
<1> QED
  BY <1>1, <1>2, <1>3 DEF FilesFit

(* So does writing a clip, which is loose from then on.                     *)
LEMMA WritingFits ==
    ASSUME FilesFit, NEW l \in Lines, NEW audio \in Audio \ {NoFile}, run.now \in Dirs,
           WriteClip(l, audio)
    PROVE  /\ FilesFit'
           /\ \A e \in Dirs, m \in Lines :
                 clip'[<<e, m>>] = IF e = run.now /\ m = l THEN audio ELSE clip[<<e, m>>]
<1>clip. /\ clip' \in [Dirs \X Lines -> Audio]
         /\ \A e \in Dirs, m \in Lines :
               clip'[<<e, m>>] = IF e = run.now /\ m = l THEN audio ELSE clip[<<e, m>>]
  BY OneWritten DEF FilesFit, WriteClip
<1>same. UNCHANGED <<hashes, take, digest, candidates, recordings, looseTakes>>
  BY DEF WriteClip, counts
<1>loose. /\ looseClips \subseteq looseClips' /\ looseCandidates \subseteq looseCandidates'
          /\ looseClips' \subseteq Lines /\ looseCandidates' \subseteq Lines
          /\ IF run.now = Only THEN l \in looseClips' ELSE l \in looseCandidates'
  BY DEF WriteClip, Loosens, FilesFit, FilesOK
<1>1. FilesOK' /\ DigestsFit'
  BY <1>clip, <1>same, <1>loose DEF FilesFit, FilesOK, DigestsFit, Holds
<1>2. HashesFit'
  BY <1>clip, <1>same, <1>loose, DirsDiffer DEF FilesFit, HashesFit, HashOf, InUse
<1>3. CandidatesFit'
  BY <1>clip, <1>same, <1>loose, DirsDiffer DEF FilesFit, CandidatesFit, Says, InScript
<1> QED
  BY <1>1, <1>2, <1>3, <1>clip DEF FilesFit

(* A run that has ended or was stopped leaves no locals.                    *)
LEMMA RestFits == run = Resting => RunFits
<1> SUFFICES ASSUME run = Resting
             PROVE  RunFits
  OBVIOUS
<1>run. /\ run.at = "rest" /\ run.engine = "none" /\ run.script = NoScript /\ run.todo = {}
        /\ run.takes = {} /\ run.now = Only /\ run.lengths = NoClips /\ run.misled = {}
  BY DEF Resting
<1>1. run \in Runs
  BY RestIsRun
<1>2. Places /\ Running
  BY <1>run DEF Places, Running, At
<1>3. TakeFits /\ LinesFit /\ CutsFit
  BY <1>run DEF TakeFits, LinesFit, CutsFit, NoClips, InScript, NoScript, At
<1> QED
  BY <1>1, <1>2, <1>3 DEF RunFits

(* So it is of the next state.                                              *)
LEMMA RestFitsNext == (run = Resting => RunFits)'
BY RestFits, PTL


LEMMA KeepLineKeeps ==
    ASSUME NarrationInv, NEW l \in Lines, KeepLine(l)
    PROVE  NarrationInv'
<1>run. /\ run'.at = run.at
        /\ run'.engine = run.engine
        /\ run'.script = run.script
        /\ run'.todo = run.todo \ {l}
        /\ run'.takes = run.takes
        /\ run'.line = run.line
        /\ run'.now = run.now
        /\ run'.kept = run.kept
        /\ run'.lengths = [run.lengths EXCEPT ![l] = InUse(l)]
        /\ run'.choice = run.choice
        /\ run'.attempt = run.attempt
        /\ run'.misled = run.misled \cup ({l} \cap looseClips)
  BY DEF KeepLine, InUse, NarrationInv, RunFits, Runs
<1>same. UNCHANGED <<clip, hashes, take, digest, recordings, candidates,
                     durations, looseClips, looseTakes, looseCandidates>>
  BY DEF KeepLine, InUse, files, counts, loose
<1>here. /\ run.at = "line" /\ run.engine = "chirp"
         /\ l \in run.todo /\ l \in InScript(run.script) /\ run.script[l] \in Texts
         /\ InUse(l) # NoFile /\ HashOf(l) = run.script[l]
         /\ durations = NoFile
         /\ run.script \in AnyScript
  BY LinesHaveTexts
     DEF KeepLine, NarrationInv, RunFits, Runs, Engines, Places, Running, At,
         Unchanged, InUse
<1>1. FilesOK'
  BY <1>run, <1>same, <1>here DEF NarrationInv, FilesFit, FilesOK
<1>2. run' \in Runs
  <2>1. InUse(l) \in Audio
    BY DirsDiffer DEF NarrationInv, FilesFit, FilesOK, InUse
  <2> QED
    BY <1>here, <2>1 DEF NarrationInv, RunFits, Runs, KeepLine, InUse
<1>3. HashesFit'
  BY <1>run, <1>same, <1>here DEF NarrationInv, FilesFit, HashesFit, HashOf, InUse
<1>4. DigestsFit'
  BY <1>run, <1>same, <1>here DEF NarrationInv, FilesFit, DigestsFit, Holds
<1>5. CandidatesFit'
  BY <1>run, <1>same, <1>here
     DEF NarrationInv, FilesFit, CandidatesFit, Says, InScript
<1>6. Places'
  BY <1>run, <1>same, <1>here DEF NarrationInv, RunFits, Places, At
<1>7. Running'
  BY <1>run, <1>same, <1>here
     DEF NarrationInv, RunFits, Running, At, InScript, HashOf, InUse
<1>8. TakeFits'
  BY <1>run, <1>same, <1>here DEF NarrationInv, RunFits, TakeFits, At, Holds
<1>9. LinesFit'
  <2>0. run.lengths \in [Lines -> Audio] /\ l \in Lines /\ InScript(run.script)' = InScript(run.script)
    BY <1>run, <1>here DEF NarrationInv, RunFits, Runs, InScript
  <2>1. l \in InScript(run.script)' \ run.todo' /\ run.engine' # "takes" /\ LineFits(l)'
    <3>1. ASSUME l \notin run'.misled
          PROVE  InUse(l) = Clip(run.script[l], 0)
      BY <1>run, <1>here, <3>1 DEF NarrationInv, FilesFit, HashesFit
    <3>2. Says(Clip(run.script[l], 0), run.script[l]) /\ Clip(run.script[l], 0).recording = 0
      BY <1>here, ClipIsWhole DEF Says
    <3> QED
      BY <1>run, <1>same, <1>here, <2>0, <3>1, <3>2 DEF LineFits, InUse, Says
  <2>2. ASSUME NEW m \in Lines, m # l
        PROVE  IF m \in InScript(run.script)' \ run.todo' /\ run.engine' # "takes"
               THEN LineFits(m)' ELSE run'.lengths[m] = NoFile
    BY <1>run, <1>same, <1>here, <2>0, <2>2
       DEF NarrationInv, RunFits, LinesFit, LineFits, InUse, Says
  <2>3. run'.at = "line" /\ run'.engine = "chirp"
    BY <1>run, <1>here
  <2> QED
    BY <1>run, <2>1, <2>2, <2>3 DEF LinesFit, At, InScript
<1>10. CutsFit'
  BY <1>run, <1>same, <1>here
     DEF NarrationInv, RunFits, CutsFit, Cut, At, Says, InScript
<1>11. Ended'
  BY <1>same, <1>here, DuringRun
<1> QED
  BY <1>1, <1>2, <1>3, <1>4, <1>5, <1>6, <1>7, <1>8, <1>9, <1>10, <1>11
     DEF NarrationInv, FilesFit, RunFits

LEMMA SpeakLineKeeps ==
    ASSUME NarrationInv, NEW l \in Lines, SpeakLine(l)
    PROVE  NarrationInv'
<1>run. /\ run'.at = "hash"
        /\ run'.engine = run.engine
        /\ run'.script = run.script
        /\ run'.todo = run.todo
        /\ run'.takes = run.takes
        /\ run'.line = l
        /\ run'.now = run.now
        /\ run'.kept = run.kept
        /\ run'.lengths = run.lengths
        /\ run'.choice = run.choice
        /\ run'.attempt = run.attempt
        /\ run'.misled = run.misled
  BY DEF SpeakLine, NarrationInv, RunFits, Runs
<1>same. UNCHANGED <<hashes, take, digest, recordings, candidates, durations,
                     looseTakes, looseCandidates>>
  BY DEF SpeakLine, files, counts, loose
<1>here. /\ run.at = "line" /\ run.engine = "chirp"
         /\ l \in run.todo /\ l \in InScript(run.script) /\ run.script[l] \in Texts
         /\ run.now = Only
         /\ durations = NoFile
         /\ run.script \in AnyScript
  BY LinesHaveTexts
     DEF SpeakLine, NarrationInv, RunFits, Runs, Engines, Places, Running, At
<1>clip. /\ clip' \in [Dirs \X Lines -> Audio]
         /\ \A e \in Dirs, m \in Lines :
               clip'[<<e, m>>] = IF e = Only /\ m = l THEN Clip(run.script[l], 0)
                                                    ELSE clip[<<e, m>>]
  <2>1. Clip(run.script[l], 0) \in Audio
    BY <1>here, ClipIsWhole DEF Audio
  <2> QED
    BY <2>1, OneWritten, DirsDiffer DEF SpeakLine, NarrationInv, FilesFit
<1>loose. looseClips' = looseClips \cup {l}
  BY DEF SpeakLine
<1>1. FilesOK'
  BY <1>run, <1>same, <1>here, <1>clip, <1>loose
     DEF NarrationInv, FilesFit, FilesOK
<1>2. run' \in Runs
  BY DEF NarrationInv, RunFits, Runs, Steps, SpeakLine
<1>3. HashesFit'
  BY <1>same, <1>clip, <1>loose, DirsDiffer
     DEF NarrationInv, FilesFit, HashesFit, HashOf, InUse
<1>4. DigestsFit'
  BY <1>run, <1>same, <1>here, <1>clip, <1>loose
     DEF NarrationInv, FilesFit, DigestsFit, Holds
<1>5. CandidatesFit'
  BY <1>same, <1>clip, DirsDiffer
     DEF NarrationInv, FilesFit, CandidatesFit, Says, InScript
<1>6. Places'
  BY <1>run, <1>same, <1>here, <1>clip, <1>loose
     DEF NarrationInv, RunFits, Places, At
<1>7. Running'
  <2>1. InUse(l)' = Clip(run.script[l], 0)
    BY <1>clip, DirsDiffer DEF InUse
  <2> QED
    BY <1>run, <1>same, <1>here, <2>1
       DEF NarrationInv, RunFits, Running, At, InScript, HashOf
<1>8. TakeFits'
  BY <1>run, <1>same, <1>here, <1>clip, <1>loose
     DEF NarrationInv, RunFits, TakeFits, At, Holds
<1>9. LinesFit'
  <2>1. InScript(run.script)' = InScript(run.script)
    BY <1>run DEF InScript
  <2>2. \A m \in Lines : m # l => InUse(m)' = InUse(m)
    BY <1>clip, DirsDiffer DEF InUse
  <2>3. ASSUME NEW m \in Lines
        PROVE  IF m \in InScript(run.script)' \ run.todo' /\ run.engine' # "takes"
               THEN LineFits(m)' ELSE run'.lengths[m] = NoFile
    BY <1>run, <1>same, <1>here, <2>1, <2>2
       DEF NarrationInv, RunFits, LinesFit, LineFits, Says
  <2> QED
    BY <1>run, <1>here, <2>3 DEF LinesFit, At
<1>10. CutsFit'
  BY <1>run, <1>same, <1>here, <1>clip, <1>loose
     DEF NarrationInv, RunFits, CutsFit, Cut, At, Says, InScript
<1>11. Ended'
  BY <1>same, <1>here, DuringRun
<1> QED
  BY <1>1, <1>2, <1>3, <1>4, <1>5, <1>6, <1>7, <1>8, <1>9, <1>10, <1>11
     DEF NarrationInv, FilesFit, RunFits

LEMMA SaveHashKeeps ==
    ASSUME NarrationInv, SaveHash
    PROVE  NarrationInv'
<1>run. /\ run'.at = "line"
        /\ run'.engine = run.engine
        /\ run'.script = run.script
        /\ run'.todo = run.todo \ {run.line}
        /\ run'.takes = run.takes
        /\ run'.line = run.line
        /\ run'.now = run.now
        /\ run'.kept = HashedLine
        /\ run'.lengths = [run.lengths EXCEPT ![run.line] = InUse(run.line)]
        /\ run'.choice = run.choice
        /\ run'.attempt = run.attempt
        /\ run'.misled = run.misled
  BY DEF SaveHash, LineDone, InUse, NarrationInv, RunFits, Runs
<1>same. UNCHANGED <<clip, take, digest, recordings, candidates, durations,
                     looseTakes, looseCandidates>>
  BY DEF SaveHash, LineDone, InUse, files, counts, loose
<1>here. /\ run.at = "hash" /\ run.engine = "chirp"
         /\ run.line \in run.todo /\ run.line \in Lines
         /\ run.line \in InScript(run.script) /\ run.script[run.line] \in Texts
         /\ InUse(run.line) = Clip(run.script[run.line], 0)
         /\ durations = NoFile
         /\ run.script \in AnyScript
  BY LinesHaveTexts
     DEF SaveHash, NarrationInv, RunFits, Runs, Engines, Places, Running, At,
         InUse
<1>loose. looseClips' = looseClips \ {run.line}
  BY DEF SaveHash, LineDone
<1>kept. /\ HashedLine \in AnyScript
         /\ \A l \in Lines : HashedLine[l] = IF l = run.line THEN run.script[l] ELSE HashOf(l)
  BY <1>here DEF HashedLine, NarrationInv, RunFits, Runs, AnyScript, Running, At
<1>hash. /\ hashes' \in Hashed /\ hashes' \notin {NoFile, TornFile}
         /\ \A l \in Lines : HashOf(l)' = HashedLine[l]
  BY <1>kept, ClipIsWhole DEF SaveHash, Hashes, Hashed, HashOf, NoFile, TornFile
<1>1. FilesOK'
  BY <1>run, <1>same, <1>here, <1>loose, <1>kept, <1>hash
     DEF NarrationInv, FilesFit, FilesOK
<1>2. run' \in Runs
  <2>1. InUse(run.line) \in Audio
    BY <1>here, DirsDiffer DEF NarrationInv, FilesFit, FilesOK, InUse
  <2>2. [run.lengths EXCEPT ![run.line] = InUse(run.line)] \in [Lines -> Audio]
    BY <2>1 DEF NarrationInv, RunFits, Runs
  <2> QED
    BY <1>here, <1>kept, <2>2
       DEF NarrationInv, RunFits, Runs, Steps, SaveHash, LineDone, InUse
<1>3. HashesFit'
  BY <1>run, <1>same, <1>here, <1>loose, <1>kept, <1>hash
     DEF NarrationInv, FilesFit, HashesFit, HashOf, InUse
<1>4. DigestsFit'
  BY <1>run, <1>same, <1>here, <1>loose, <1>kept, <1>hash
     DEF NarrationInv, FilesFit, DigestsFit, Holds
<1>5. CandidatesFit'
  BY <1>run, <1>same, <1>here, <1>loose, <1>kept, <1>hash
     DEF NarrationInv, FilesFit, CandidatesFit, Says, InScript
<1>6. Places'
  BY <1>run, <1>same, <1>here, <1>loose, <1>kept, <1>hash
     DEF NarrationInv, RunFits, Places, At
<1>7. Running'
  BY <1>run, <1>same, <1>here, <1>loose, <1>kept, <1>hash
     DEF NarrationInv, RunFits, Running, At, InScript, HashOf, InUse
<1>8. TakeFits'
  BY <1>run, <1>same, <1>here, <1>loose, <1>kept, <1>hash
     DEF NarrationInv, RunFits, TakeFits, At, Holds
<1>9. LinesFit'
  <2>0. run.lengths \in [Lines -> Audio] /\ run.line \in Lines /\ InScript(run.script)' = InScript(run.script)
    BY <1>run, <1>here DEF NarrationInv, RunFits, Runs, InScript
  <2>1. /\ run.line \in InScript(run.script)' \ run.todo'
        /\ run.engine' # "takes" /\ (LineFits(run.line))'
    <3>1. /\ Says(InUse(run.line), run.script[run.line]) /\ InUse(run.line).recording = 0
          /\ InUse(run.line) # NoFile
      BY <1>here, ClipIsWhole DEF Says
    <3> QED
      BY <1>run, <1>same, <1>here, <2>0, <3>1 DEF LineFits, InUse, Says
  <2>2. ASSUME NEW m \in Lines, m # run.line
        PROVE  IF m \in InScript(run.script)' \ run.todo' /\ run.engine' # "takes"
               THEN LineFits(m)' ELSE run'.lengths[m] = NoFile
    BY <1>run, <1>same, <1>here, <2>0, <2>2
       DEF NarrationInv, RunFits, LinesFit, LineFits, InUse, Says
  <2>3. run'.at = "line" /\ run'.engine = "chirp"
    BY <1>run, <1>here
  <2> QED
    BY <1>run, <2>1, <2>2, <2>3 DEF LinesFit, At, InScript
<1>10. CutsFit'
  BY <1>run, <1>same, <1>here, <1>loose, <1>kept, <1>hash
     DEF NarrationInv, RunFits, CutsFit, Cut, At, Says, InScript
<1>11. Ended'
  BY <1>same, <1>here, DuringRun
<1> QED
  BY <1>1, <1>2, <1>3, <1>4, <1>5, <1>6, <1>7, <1>8, <1>9, <1>10, <1>11
     DEF NarrationInv, FilesFit, RunFits

LEMMA TidyKeeps ==
    ASSUME NarrationInv, Tidy
    PROVE  NarrationInv'
<1>run. /\ run'.at = "hashes"
        /\ run'.engine = run.engine
        /\ run'.script = run.script
        /\ run'.todo = run.todo
        /\ run'.takes = run.takes
        /\ run'.line = run.line
        /\ run'.now = run.now
        /\ run'.kept = run.kept
        /\ run'.lengths = run.lengths
        /\ run'.choice = run.choice
        /\ run'.attempt = run.attempt
        /\ run'.misled = run.misled
  BY DEF Tidy, NarrationInv, RunFits, Runs
<1>same. UNCHANGED <<hashes, take, digest, recordings, candidates, durations,
                     looseClips, looseTakes, looseCandidates>>
  BY DEF Tidy, files, counts, loose
<1>here. /\ run.at = "line" /\ run.engine = "chirp" /\ run.todo = {}
         /\ durations = NoFile
         /\ run.script \in AnyScript
  BY DEF Tidy, NarrationInv, RunFits, Runs, Engines, Places, Running, At
<1>done. /\ NotInRun \in SUBSET Lines
         /\ \A l \in Lines : l \in NotInRun <=> l \notin InScript(run.script)
  BY <1>here DEF NotInRun, NarrationInv, RunFits, LinesFit, LineFits
<1>clip. /\ clip' = Unlinked(NotInRun)
         /\ \A e \in Dirs, m \in Lines :
               clip'[<<e, m>>] = IF e = Only /\ m \in NotInRun THEN NoFile ELSE clip[<<e, m>>]
  BY <1>done, SomeUnlinked DEF Tidy, NarrationInv, FilesFit
<1>1. FilesFit'
  BY <1>same, <1>done, <1>clip, UnlinkingFits DEF NarrationInv
<1>2. run' \in Runs
  BY DEF NarrationInv, RunFits, Runs, Steps, Tidy
<1>3. Places'
  BY <1>run, <1>same, <1>here, <1>done, <1>clip
     DEF NarrationInv, RunFits, Places, At
<1>4. Running'
  BY <1>run, <1>same, <1>here, <1>done, <1>clip
     DEF NarrationInv, RunFits, Running, At, InScript, HashOf, InUse
<1>5. TakeFits'
  BY <1>run, <1>same, <1>here, <1>done, <1>clip
     DEF NarrationInv, RunFits, TakeFits, At, Holds
<1>6. LinesFit'
  <2>1. \A l \in Lines : InUse(l)' = IF l \in InScript(run.script) THEN InUse(l) ELSE NoFile
    BY <1>done, <1>clip, DirsDiffer DEF InUse
  <2>2. ASSUME NEW m \in Lines
        PROVE  IF m \in InScript(run'.script) \ run'.todo /\ run'.engine # "takes"
               THEN LineFits(m)' ELSE run'.lengths[m] = NoFile
    BY <1>run, <1>same, <1>here, <2>1
       DEF NarrationInv, RunFits, LinesFit, LineFits, Says, InScript
  <2> QED
    BY <1>run, <2>1, <2>2 DEF LinesFit, At, InScript
<1>7. CutsFit'
  BY <1>run, <1>same, <1>here, <1>done, <1>clip
     DEF NarrationInv, RunFits, CutsFit, Cut, At, Says, InScript
<1>8. Ended'
  BY <1>same, <1>here, DuringRun
<1> QED
  BY <1>1, <1>2, <1>3, <1>4, <1>5, <1>6, <1>7, <1>8
     DEF NarrationInv, RunFits

LEMMA SaveHashesKeeps ==
    ASSUME NarrationInv, SaveHashes
    PROVE  NarrationInv'
<1>run. /\ run'.at = "durations"
        /\ run'.engine = run.engine
        /\ run'.script = run.script
        /\ run'.todo = run.todo
        /\ run'.takes = run.takes
        /\ run'.line = run.line
        /\ run'.now = run.now
        /\ run'.kept = run.kept
        /\ run'.lengths = run.lengths
        /\ run'.choice = run.choice
        /\ run'.attempt = run.attempt
        /\ run'.misled = run.misled
  BY DEF SaveHashes, NarrationInv, RunFits, Runs
<1>same. UNCHANGED <<clip, take, digest, recordings, candidates, durations,
                     looseClips, looseTakes, looseCandidates>>
  BY DEF SaveHashes, files, counts, loose
<1>here. /\ run.at = "hashes" /\ run.engine = "chirp" /\ run.todo = {}
         /\ durations = NoFile
         /\ run.script \in AnyScript
  BY DEF SaveHashes, NarrationInv, RunFits, Runs, Engines, Places, Running, At
<1>kept. \A l \in Lines : run.kept[l] = HashOf(l) /\ run.kept[l] \in Texts \cup {NoText}
  BY <1>here DEF NarrationInv, RunFits, Runs, AnyScript, Running, At
<1>done. \A l \in Lines : l \in NotInRun => InUse(l) = NoFile
  BY <1>here DEF NotInRun, NarrationInv, RunFits, LinesFit, LineFits, At
<1>hash. /\ hashes' \in Hashed /\ hashes' \notin {NoFile, TornFile}
         /\ \A l \in Lines : HashOf(l)' = IF l \in NotInRun THEN NoText ELSE HashOf(l)
  <2>1. hashes' = Hashes([l \in Lines |-> IF l \in NotInRun THEN NoText ELSE run.kept[l]])
    BY DEF SaveHashes
  <2>2. hashes' \in Hashed
    BY <1>kept, <2>1 DEF Hashes, Hashed, AnyScript
  <2>3. hashes' \notin {NoFile, TornFile}
    BY <2>2, ClipIsWhole
  <2> QED
    BY <1>kept, <2>1, <2>2, <2>3 DEF Hashes, HashOf
<1>1. FilesOK'
  BY <1>run, <1>same, <1>here, <1>kept, <1>done, <1>hash
     DEF NarrationInv, FilesFit, FilesOK
<1>2. run' \in Runs
  BY DEF NarrationInv, RunFits, Runs, Steps, SaveHashes
<1>3. HashesFit'
  BY <1>run, <1>same, <1>here, <1>kept, <1>done, <1>hash
     DEF NarrationInv, FilesFit, HashesFit, HashOf, InUse
<1>4. DigestsFit'
  BY <1>run, <1>same, <1>here, <1>kept, <1>done, <1>hash
     DEF NarrationInv, FilesFit, DigestsFit, Holds
<1>5. CandidatesFit'
  BY <1>run, <1>same, <1>here, <1>kept, <1>done, <1>hash
     DEF NarrationInv, FilesFit, CandidatesFit, Says, InScript
<1>6. Places'
  BY <1>run, <1>same, <1>here, <1>kept, <1>done, <1>hash
     DEF NarrationInv, RunFits, Places, At
<1>7. Running'
  BY <1>run, <1>same, <1>here, <1>kept, <1>done, <1>hash
     DEF NarrationInv, RunFits, Running, At, InScript, HashOf, InUse
<1>8. TakeFits'
  BY <1>run, <1>same, <1>here, <1>kept, <1>done, <1>hash
     DEF NarrationInv, RunFits, TakeFits, At, Holds
<1>9. LinesFit'
  BY <1>run, <1>same, <1>here, <1>kept, <1>done, <1>hash
     DEF NarrationInv, RunFits, LinesFit, LineFits, At, InUse, Says, InScript
<1>10. CutsFit'
  BY <1>run, <1>same, <1>here, <1>kept, <1>done, <1>hash
     DEF NarrationInv, RunFits, CutsFit, Cut, At, Says, InScript
<1>11. Ended'
  BY <1>same, <1>here, DuringRun
<1> QED
  BY <1>1, <1>2, <1>3, <1>4, <1>5, <1>6, <1>7, <1>8, <1>9, <1>10, <1>11
     DEF NarrationInv, FilesFit, RunFits

LEMMA ReuseTakeKeeps ==
    ASSUME NarrationInv, NEW n \in Dirs, ReuseTake(n)
    PROVE  NarrationInv'
<1>run. /\ run'.at = "cut"
        /\ run'.engine = run.engine
        /\ run'.script = run.script
        /\ run'.todo = run.todo
        /\ run'.takes = run.takes
        /\ run'.line = run.line
        /\ run'.now = n
        /\ run'.kept = run.kept
        /\ run'.lengths = run.lengths
        /\ run'.choice = run.choice
        /\ run'.attempt = run.attempt
        /\ run'.misled = run.misled \cup (IF n \in looseTakes THEN run.todo ELSE {})
  BY DEF ReuseTake, NarrationInv, RunFits, Runs
<1>same. UNCHANGED <<clip, hashes, take, digest, recordings, candidates,
                     durations, looseClips, looseTakes, looseCandidates>>
  BY DEF ReuseTake, files, counts, loose
<1>here. /\ run.at = "take" /\ run.engine \in {"gemini", "takes"}
         /\ n \in run.takes /\ run.todo = InScript(run.script)
         /\ take[n] # NoFile /\ digest[n] = Hashes(run.script)
         /\ durations = NoFile
         /\ run.script \in AnyScript
  BY 
     DEF ReuseTake, NarrationInv, RunFits, Runs, Engines, Places, Running, At,
         HaveTake
<1>1. FilesOK'
  BY <1>run, <1>same, <1>here DEF NarrationInv, FilesFit, FilesOK
<1>2. run' \in Runs
  BY DEF NarrationInv, RunFits, Runs, Steps, ReuseTake
<1>3. HashesFit'
  BY <1>run, <1>same, <1>here DEF NarrationInv, FilesFit, HashesFit, HashOf, InUse
<1>4. DigestsFit'
  BY <1>run, <1>same, <1>here DEF NarrationInv, FilesFit, DigestsFit, Holds
<1>5. CandidatesFit'
  BY <1>run, <1>same, <1>here
     DEF NarrationInv, FilesFit, CandidatesFit, Says, InScript
<1>6. Places'
  BY <1>run, <1>same, <1>here DEF NarrationInv, RunFits, Places, At
<1>7. Running'
  BY <1>run, <1>same, <1>here
     DEF NarrationInv, RunFits, Running, At, InScript, HashOf, InUse
<1>8. TakeFits'
  <2>1. SUFFICES ASSUME run'.misled = {}
                 PROVE  Holds(take[n], run.script)
    BY <1>run, <1>same, <1>here DEF TakeFits, At, Holds
  <2>2. n \notin looseTakes
    BY <1>run, <1>here, <2>1 DEF NarrationInv, RunFits, Running
  <2>3. digest[n] \in Hashed /\ digest[n].texts = run.script
    BY <1>here DEF Hashes, Hashed
  <2> QED
    BY <1>here, <2>2, <2>3 DEF NarrationInv, FilesFit, DigestsFit
<1>9. LinesFit'
  BY <1>run, <1>same, <1>here
     DEF NarrationInv, RunFits, LinesFit, LineFits, At, InUse, Says, InScript
<1>10. CutsFit'
  BY <1>run, <1>same, <1>here
     DEF NarrationInv, RunFits, CutsFit, Cut, At, Says, InScript
<1>11. Ended'
  BY <1>same, <1>here, DuringRun
<1> QED
  BY <1>1, <1>2, <1>3, <1>4, <1>5, <1>6, <1>7, <1>8, <1>9, <1>10, <1>11
     DEF NarrationInv, FilesFit, RunFits

LEMMA RequestTakeKeeps ==
    ASSUME NarrationInv, NEW n \in Dirs, RequestTake(n)
    PROVE  NarrationInv'
<1>run. /\ run'.at = "request"
        /\ run'.engine = run.engine
        /\ run'.script = run.script
        /\ run'.todo = run.todo
        /\ run'.takes = run.takes
        /\ run'.line = run.line
        /\ run'.now = n
        /\ run'.kept = run.kept
        /\ run'.lengths = run.lengths
        /\ run'.choice = run.choice
        /\ run'.attempt = run.attempt
        /\ run'.misled = run.misled
  BY DEF RequestTake, NarrationInv, RunFits, Runs
<1>same. UNCHANGED <<clip, hashes, take, digest, recordings, candidates,
                     durations, looseClips, looseTakes, looseCandidates>>
  BY DEF RequestTake, files, counts, loose
<1>here. /\ run.at = "take" /\ run.engine \in {"gemini", "takes"}
         /\ n \in run.takes /\ run.todo = InScript(run.script)
         /\ durations = NoFile
         /\ run.script \in AnyScript
  BY DEF RequestTake, NarrationInv, RunFits, Runs, Engines, Places, Running, At
<1>1. FilesOK'
  BY <1>run, <1>same, <1>here DEF NarrationInv, FilesFit, FilesOK
<1>2. run' \in Runs
  BY DEF NarrationInv, RunFits, Runs, Steps, RequestTake
<1>3. HashesFit'
  BY <1>run, <1>same, <1>here DEF NarrationInv, FilesFit, HashesFit, HashOf, InUse
<1>4. DigestsFit'
  BY <1>run, <1>same, <1>here DEF NarrationInv, FilesFit, DigestsFit, Holds
<1>5. CandidatesFit'
  BY <1>run, <1>same, <1>here
     DEF NarrationInv, FilesFit, CandidatesFit, Says, InScript
<1>6. Places'
  BY <1>run, <1>same, <1>here DEF NarrationInv, RunFits, Places, At
<1>7. Running'
  BY <1>run, <1>same, <1>here
     DEF NarrationInv, RunFits, Running, At, InScript, HashOf, InUse
<1>8. TakeFits'
  BY <1>run, <1>same, <1>here DEF NarrationInv, RunFits, TakeFits, At, Holds
<1>9. LinesFit'
  BY <1>run, <1>same, <1>here
     DEF NarrationInv, RunFits, LinesFit, LineFits, At, InUse, Says, InScript
<1>10. CutsFit'
  BY <1>run, <1>same, <1>here
     DEF NarrationInv, RunFits, CutsFit, Cut, At, Says, InScript
<1>11. Ended'
  BY <1>same, <1>here, DuringRun
<1> QED
  BY <1>1, <1>2, <1>3, <1>4, <1>5, <1>6, <1>7, <1>8, <1>9, <1>10, <1>11
     DEF NarrationInv, FilesFit, RunFits

LEMMA RequestAgainKeeps ==
    ASSUME NarrationInv, RequestAgain
    PROVE  NarrationInv'
<1>run. /\ run'.at = run.at
        /\ run'.engine = run.engine
        /\ run'.script = run.script
        /\ run'.todo = run.todo
        /\ run'.takes = run.takes
        /\ run'.line = run.line
        /\ run'.now = run.now
        /\ run'.kept = run.kept
        /\ run'.lengths = run.lengths
        /\ run'.choice = run.choice
        /\ run'.attempt = run.attempt + 1
        /\ run'.misled = run.misled
  BY DEF RequestAgain, NarrationInv, RunFits, Runs
<1>same. UNCHANGED <<clip, hashes, take, digest, recordings, candidates,
                     durations, looseClips, looseTakes, looseCandidates>>
  BY DEF RequestAgain, files, counts, loose
<1>here. /\ run.at = "request" /\ run.engine \in {"gemini", "takes"}
         /\ durations = NoFile
         /\ run.script \in AnyScript
  BY DEF RequestAgain, NarrationInv, RunFits, Runs, Engines, Places, Running, At
<1>1. FilesOK'
  BY <1>run, <1>same, <1>here DEF NarrationInv, FilesFit, FilesOK
<1>2. run' \in Runs
  BY DEF NarrationInv, RunFits, Runs, Steps, RequestAgain
<1>3. HashesFit'
  BY <1>run, <1>same, <1>here DEF NarrationInv, FilesFit, HashesFit, HashOf, InUse
<1>4. DigestsFit'
  BY <1>run, <1>same, <1>here DEF NarrationInv, FilesFit, DigestsFit, Holds
<1>5. CandidatesFit'
  BY <1>run, <1>same, <1>here
     DEF NarrationInv, FilesFit, CandidatesFit, Says, InScript
<1>6. Places'
  BY <1>run, <1>same, <1>here DEF NarrationInv, RunFits, Places, At
<1>7. Running'
  BY <1>run, <1>same, <1>here
     DEF NarrationInv, RunFits, Running, At, InScript, HashOf, InUse
<1>8. TakeFits'
  BY <1>run, <1>same, <1>here DEF NarrationInv, RunFits, TakeFits, At, Holds
<1>9. LinesFit'
  BY <1>run, <1>same, <1>here
     DEF NarrationInv, RunFits, LinesFit, LineFits, At, InUse, Says, InScript
<1>10. CutsFit'
  BY <1>run, <1>same, <1>here
     DEF NarrationInv, RunFits, CutsFit, Cut, At, Says, InScript
<1>11. Ended'
  BY <1>same, <1>here, DuringRun
<1> QED
  BY <1>1, <1>2, <1>3, <1>4, <1>5, <1>6, <1>7, <1>8, <1>9, <1>10, <1>11
     DEF NarrationInv, FilesFit, RunFits

LEMMA RecordTakeKeeps ==
    ASSUME NarrationInv, RecordTake
    PROVE  NarrationInv'
<1>run. /\ run'.at = "digest"
        /\ run'.engine = run.engine
        /\ run'.script = run.script
        /\ run'.todo = run.todo
        /\ run'.takes = run.takes
        /\ run'.line = run.line
        /\ run'.now = run.now
        /\ run'.kept = run.kept
        /\ run'.lengths = run.lengths
        /\ run'.choice = run.choice
        /\ run'.attempt = 0
        /\ run'.misled = run.misled
  BY DEF RecordTake, NarrationInv, RunFits, Runs
<1>same. UNCHANGED <<clip, hashes, digest, candidates, durations, looseClips,
                     looseCandidates>>
  BY DEF RecordTake, files, counts, loose
<1>here. /\ run.at = "request" /\ run.engine \in {"gemini", "takes"}
         /\ run.now \in run.takes /\ run.now \in Dirs
         /\ durations = NoFile
         /\ run.script \in AnyScript
  BY DEF RecordTake, NarrationInv, RunFits, Runs, Engines, Places, Running, At
<1>take. /\ recordings' = recordings + 1 /\ recordings \in Nat
         /\ looseTakes' = looseTakes \cup {run.now}
         /\ take' \in [Dirs -> {NoFile, TornFile} \cup Taken]
         /\ Holds(take'[run.now], run.script)
         /\ \A n \in Dirs \ {run.now} : take'[n] = take[n]
  <2> DEFINE new == [kind |-> "take", script |-> run.script, recording |-> recordings + 1]
  <2>1. recordings' = recordings + 1 /\ recordings \in Nat
    BY DEF RecordTake, NarrationInv, FilesFit, FilesOK
  <2>2. Holds(new, run.script)
    BY <1>here, <2>1 DEF Holds, Taken
  <2> QED
    BY <1>here, <2>1, <2>2 DEF RecordTake, NarrationInv, FilesFit, FilesOK, Holds
<1>1. FilesOK'
  BY <1>run, <1>same, <1>here, <1>take DEF NarrationInv, FilesFit, FilesOK
<1>2. run' \in Runs
  BY DEF NarrationInv, RunFits, Runs, Steps, RecordTake
<1>3. HashesFit'
  BY <1>run, <1>same, <1>here, <1>take
     DEF NarrationInv, FilesFit, HashesFit, HashOf, InUse
<1>4. DigestsFit'
  BY <1>run, <1>same, <1>here, <1>take
     DEF NarrationInv, FilesFit, DigestsFit, Holds
<1>5. CandidatesFit'
  BY <1>run, <1>same, <1>here, <1>take
     DEF NarrationInv, FilesFit, CandidatesFit, Says, InScript
<1>6. Places'
  BY <1>run, <1>same, <1>here, <1>take DEF NarrationInv, RunFits, Places, At
<1>7. Running'
  BY <1>run, <1>same, <1>here, <1>take
     DEF NarrationInv, RunFits, Running, At, InScript, HashOf, InUse
<1>8. TakeFits'
  BY <1>run, <1>same, <1>here, <1>take
     DEF NarrationInv, RunFits, TakeFits, At, Holds
<1>9. LinesFit'
  <2>1. InScript(run.script) = run.todo
    BY <1>here DEF NarrationInv, RunFits, Running
  <2> QED
    BY <1>run, <1>here, <2>1 DEF NarrationInv, RunFits, LinesFit, At, InScript
<1>10. CutsFit'
  BY <1>run, <1>same, <1>here, <1>take
     DEF NarrationInv, RunFits, CutsFit, Cut, At, Says, InScript
<1>11. Ended'
  BY <1>same, <1>here, DuringRun
<1> QED
  BY <1>1, <1>2, <1>3, <1>4, <1>5, <1>6, <1>7, <1>8, <1>9, <1>10, <1>11
     DEF NarrationInv, FilesFit, RunFits

LEMMA SaveDigestKeeps ==
    ASSUME NarrationInv, SaveDigest
    PROVE  NarrationInv'
<1>run. /\ run'.at = "cut"
        /\ run'.engine = run.engine
        /\ run'.script = run.script
        /\ run'.todo = run.todo
        /\ run'.takes = run.takes
        /\ run'.line = run.line
        /\ run'.now = run.now
        /\ run'.kept = run.kept
        /\ run'.lengths = run.lengths
        /\ run'.choice = run.choice
        /\ run'.attempt = run.attempt
        /\ run'.misled = run.misled
  BY DEF SaveDigest, NarrationInv, RunFits, Runs
<1>same. UNCHANGED <<clip, hashes, take, recordings, candidates, durations,
                     looseClips, looseCandidates>>
  BY DEF SaveDigest, files, counts, loose
<1>here. /\ run.at = "digest" /\ run.engine \in {"gemini", "takes"}
         /\ run.now \in run.takes /\ run.now \in Dirs
         /\ Holds(take[run.now], run.script)
         /\ durations = NoFile
         /\ run.script \in AnyScript
  BY 
     DEF SaveDigest, NarrationInv, RunFits, Runs, Engines, Places, Running, At,
         TakeFits
<1>digest. /\ looseTakes' = looseTakes \ {run.now}
           /\ digest' \in [Dirs -> {NoFile, TornFile} \cup Hashed]
           /\ digest'[run.now].texts = run.script
           /\ \A n \in Dirs \ {run.now} : digest'[n] = digest[n]
  BY <1>here DEF SaveDigest, NarrationInv, FilesFit, FilesOK, Hashes, Hashed
<1>1. FilesOK'
  BY <1>run, <1>same, <1>here, <1>digest DEF NarrationInv, FilesFit, FilesOK
<1>2. run' \in Runs
  BY DEF NarrationInv, RunFits, Runs, Steps, SaveDigest
<1>3. HashesFit'
  BY <1>run, <1>same, <1>here, <1>digest
     DEF NarrationInv, FilesFit, HashesFit, HashOf, InUse
<1>4. DigestsFit'
  BY <1>run, <1>same, <1>here, <1>digest
     DEF NarrationInv, FilesFit, DigestsFit, Holds
<1>5. CandidatesFit'
  BY <1>run, <1>same, <1>here, <1>digest
     DEF NarrationInv, FilesFit, CandidatesFit, Says, InScript
<1>6. Places'
  BY <1>run, <1>same, <1>here, <1>digest DEF NarrationInv, RunFits, Places, At
<1>7. Running'
  BY <1>run, <1>same, <1>here, <1>digest
     DEF NarrationInv, RunFits, Running, At, InScript, HashOf, InUse
<1>8. TakeFits'
  BY <1>run, <1>same, <1>here, <1>digest, ClipIsWhole
     DEF NarrationInv, RunFits, TakeFits, At, Holds
<1>9. LinesFit'
  BY <1>run, <1>same, <1>here, <1>digest
     DEF NarrationInv, RunFits, LinesFit, LineFits, At, InUse, Says, InScript
<1>10. CutsFit'
  BY <1>run, <1>same, <1>here, <1>digest
     DEF NarrationInv, RunFits, CutsFit, Cut, At, Says, InScript
<1>11. Ended'
  BY <1>same, <1>here, DuringRun
<1> QED
  BY <1>1, <1>2, <1>3, <1>4, <1>5, <1>6, <1>7, <1>8, <1>9, <1>10, <1>11
     DEF NarrationInv, FilesFit, RunFits

LEMMA UnlinkAllKeeps ==
    ASSUME NarrationInv, UnlinkAll
    PROVE  NarrationInv'
<1>run. /\ run'.at = "line"
        /\ run'.engine = run.engine
        /\ run'.script = run.script
        /\ run'.todo = run.todo
        /\ run'.takes = run.takes
        /\ run'.line = run.line
        /\ run'.now = run.now
        /\ run'.kept = run.kept
        /\ run'.lengths = run.lengths
        /\ run'.choice = run.choice
        /\ run'.attempt = run.attempt
        /\ run'.misled = run.misled
  BY DEF UnlinkAll, NarrationInv, RunFits, Runs
<1>same. UNCHANGED <<hashes, take, digest, recordings, candidates, durations,
                     looseClips, looseTakes, looseCandidates>>
  BY DEF UnlinkAll, files, counts, loose
<1>here. /\ run.at = "cut" /\ run.engine = "gemini"
         /\ run.todo = InScript(run.script)
         /\ durations = NoFile
         /\ run.script \in AnyScript
  BY DEF UnlinkAll, NarrationInv, RunFits, Runs, Engines, Places, Running, At
<1>clip. /\ clip' = Unlinked(Lines)
         /\ \A e \in Dirs, m \in Lines :
               clip'[<<e, m>>] = IF e = Only THEN NoFile ELSE clip[<<e, m>>]
  BY SomeUnlinked DEF UnlinkAll, NarrationInv, FilesFit
<1>1. FilesFit'
  BY <1>same, <1>clip, UnlinkingFits DEF NarrationInv
<1>2. run' \in Runs
  BY DEF NarrationInv, RunFits, Runs, Steps, UnlinkAll
<1>3. Places'
  BY <1>run, <1>same, <1>here, <1>clip DEF NarrationInv, RunFits, Places, At
<1>4. Running'
  BY <1>run, <1>same, <1>here, <1>clip
     DEF NarrationInv, RunFits, Running, At, InScript, HashOf, InUse
<1>5. TakeFits'
  BY <1>run, <1>same, <1>here, <1>clip
     DEF NarrationInv, RunFits, TakeFits, At, Holds
<1>6. LinesFit'
  <2>1. \A l \in Lines : InUse(l)' = NoFile
    BY <1>clip, DirsDiffer DEF InUse
  <2> QED
    BY <1>run, <1>here, <2>1 DEF NarrationInv, RunFits, LinesFit, At, InScript
<1>7. CutsFit'
  BY <1>run, <1>same, <1>here, <1>clip
     DEF NarrationInv, RunFits, CutsFit, Cut, At, Says, InScript
<1>8. Ended'
  BY <1>same, <1>here, DuringRun
<1> QED
  BY <1>1, <1>2, <1>3, <1>4, <1>5, <1>6, <1>7, <1>8
     DEF NarrationInv, RunFits

LEMMA MakeClipDirKeeps ==
    ASSUME NarrationInv, MakeClipDir
    PROVE  NarrationInv'
<1>run. /\ run'.at = "line"
        /\ run'.engine = run.engine
        /\ run'.script = run.script
        /\ run'.todo = run.todo
        /\ run'.takes = run.takes
        /\ run'.line = run.line
        /\ run'.now = run.now
        /\ run'.kept = run.kept
        /\ run'.lengths = run.lengths
        /\ run'.choice = run.choice
        /\ run'.attempt = run.attempt
        /\ run'.misled = run.misled
  BY DEF MakeClipDir, NarrationInv, RunFits, Runs
<1>same. UNCHANGED <<clip, hashes, take, digest, recordings, candidates,
                     durations, looseClips, looseTakes, looseCandidates>>
  BY DEF MakeClipDir, files, counts, loose
<1>here. /\ run.at = "cut" /\ run.engine = "takes"
         /\ run.todo = InScript(run.script)
         /\ durations = NoFile
         /\ run.script \in AnyScript
  BY DEF MakeClipDir, NarrationInv, RunFits, Runs, Engines, Places, Running, At
<1>1. FilesOK'
  BY <1>run, <1>same, <1>here DEF NarrationInv, FilesFit, FilesOK
<1>2. run' \in Runs
  BY DEF NarrationInv, RunFits, Runs, Steps, MakeClipDir
<1>3. HashesFit'
  BY <1>run, <1>same, <1>here DEF NarrationInv, FilesFit, HashesFit, HashOf, InUse
<1>4. DigestsFit'
  BY <1>run, <1>same, <1>here DEF NarrationInv, FilesFit, DigestsFit, Holds
<1>5. CandidatesFit'
  BY <1>run, <1>same, <1>here
     DEF NarrationInv, FilesFit, CandidatesFit, Says, InScript
<1>6. Places'
  BY <1>run, <1>same, <1>here DEF NarrationInv, RunFits, Places, At
<1>7. Running'
  BY <1>run, <1>same, <1>here
     DEF NarrationInv, RunFits, Running, At, InScript, HashOf, InUse
<1>8. TakeFits'
  BY <1>run, <1>same, <1>here DEF NarrationInv, RunFits, TakeFits, At, Holds
<1>9. LinesFit'
  BY <1>run, <1>same, <1>here
     DEF NarrationInv, RunFits, LinesFit, LineFits, At, InUse, Says, InScript
<1>10. CutsFit'
  BY <1>run, <1>same, <1>here
     DEF NarrationInv, RunFits, CutsFit, Cut, At, Says, InScript
<1>11. Ended'
  BY <1>same, <1>here, DuringRun
<1> QED
  BY <1>1, <1>2, <1>3, <1>4, <1>5, <1>6, <1>7, <1>8, <1>9, <1>10, <1>11
     DEF NarrationInv, FilesFit, RunFits

LEMMA CutLineKeeps ==
    ASSUME NarrationInv, NEW l \in Lines, CutLine(l)
    PROVE  NarrationInv'
<1>run. /\ run'.at = IF run.todo = {l} THEN "durations" ELSE "line"
        /\ run'.engine = run.engine
        /\ run'.script = run.script
        /\ run'.todo = run.todo \ {l}
        /\ run'.takes = run.takes
        /\ run'.line = run.line
        /\ run'.now = run.now
        /\ run'.kept = run.kept
        /\ run'.lengths = [run.lengths EXCEPT ![l] = LineOfTake(l)]
        /\ run'.choice = run.choice
        /\ run'.attempt = run.attempt
        /\ run'.misled = run.misled
  BY DEF CutLine, WriteClip, NarrationInv, RunFits, Runs
<1>same. UNCHANGED <<hashes, take, digest, recordings, candidates, durations,
                     looseTakes>>
  BY DEF CutLine, WriteClip, files, counts, loose, Loosens
<1>here. /\ run.at = "line" /\ run.engine = "gemini"
         /\ l \in run.todo /\ l \in InScript(run.script) /\ run.script[l] \in Texts
         /\ run.now = Only /\ run.now \in Dirs
         /\ durations = NoFile
         /\ run.script \in AnyScript
  BY LinesHaveTexts
     DEF CutLine, NarrationInv, RunFits, Runs, Engines, Places, Running, At
<1>audio. /\ LineOfTake(l) \in Audio \ {NoFile}
          /\ run.misled = {} =>
                /\ Says(LineOfTake(l), run.script[l])
                /\ LineOfTake(l).recording = take[run.now].recording
  <2>1. take[run.now] \in {TornFile} \cup Taken
    BY <1>here DEF NarrationInv, FilesFit, FilesOK, RunFits, TakeFits, At
  <2>2. ASSUME Holds(take[run.now], run.script)
        PROVE  /\ LineOfTake(l) = Clip(run.script[l], take[run.now].recording)
               /\ take[run.now].recording \in Nat
    BY <2>2, ClipIsWhole DEF Holds, LineOfTake, Taken
  <2>3. run.misled = {} => Holds(take[run.now], run.script)
    BY <1>here DEF NarrationInv, RunFits, TakeFits, At
  <2>4. CASE Holds(take[run.now], run.script)
    BY <1>here, <2>2, <2>4, ClipIsWhole DEF Says, Audio
  <2>5. CASE ~Holds(take[run.now], run.script)
    <3>1. LineOfTake(l) = TornFile
      BY <1>here, <2>1, <2>5 DEF Holds, LineOfTake
    <3> QED
      BY <2>3, <2>5, <3>1, ClipIsWhole DEF Audio
  <2> QED
    BY <2>4, <2>5
<1>files. /\ FilesFit'
          /\ \A e \in Dirs, m \in Lines :
                clip'[<<e, m>>] = IF e = Only /\ m = l THEN LineOfTake(l) ELSE clip[<<e, m>>]
  BY <1>here, <1>audio, WritingFits DEF CutLine, NarrationInv
<1>1. FilesFit'
  BY <1>files
<1>2. run' \in Runs
  <2>1. [run.lengths EXCEPT ![l] = LineOfTake(l)] \in [Lines -> Audio]
    BY <1>audio DEF NarrationInv, RunFits, Runs
  <2> QED
    BY <1>here, <2>1 DEF NarrationInv, RunFits, Runs, Steps, CutLine
<1>3. Places'
  BY <1>run, <1>same, <1>here, <1>audio, <1>files
     DEF NarrationInv, RunFits, Places, At
<1>4. Running'
  BY <1>run, <1>same, <1>here, <1>audio, <1>files
     DEF NarrationInv, RunFits, Running, At, InScript, HashOf, InUse
<1>5. TakeFits'
  BY <1>run, <1>same, <1>here, <1>audio, <1>files
     DEF NarrationInv, RunFits, TakeFits, At, Holds
<1>6. LinesFit'
  <2>0. run.lengths \in [Lines -> Audio] /\ l \in Lines /\ InScript(run.script)' = InScript(run.script)
    BY <1>run, <1>here DEF NarrationInv, RunFits, Runs, InScript
  <2>1. l \in InScript(run.script)' \ run.todo' /\ run.engine' # "takes" /\ LineFits(l)'
    <3>1. InUse(l)' = LineOfTake(l) /\ run'.lengths[l] = LineOfTake(l)
      BY <1>run, <1>files, <2>0, DirsDiffer DEF InUse
    <3>2. l \notin run.misled => run.misled = {}
      BY <1>here DEF NarrationInv, RunFits, Running
    <3> QED
      BY <1>run, <1>same, <1>here, <1>audio, <2>0, <3>1, <3>2 DEF LineFits, Says
  <2>2. ASSUME NEW m \in Lines, m # l
        PROVE  IF m \in InScript(run.script)' \ run.todo' /\ run.engine' # "takes"
               THEN LineFits(m)' ELSE run'.lengths[m] = NoFile
    BY <1>run, <1>same, <1>here, <1>files, <2>0, DirsDiffer, <2>2
       DEF NarrationInv, RunFits, LinesFit, LineFits, InUse, Says
  <2>3. \A m \in Lines \ InScript(run.script) : InUse(m)' = NoFile
    BY <1>here, <1>files, DirsDiffer DEF NarrationInv, RunFits, LinesFit, InUse, At
  <2> QED
    BY <1>run, <2>1, <2>2, <2>3 DEF LinesFit, At, InScript
<1>7. CutsFit'
  BY <1>run, <1>same, <1>here, <1>audio, <1>files
     DEF NarrationInv, RunFits, CutsFit, Cut, At, Says, InScript
<1>8. Ended'
  BY <1>same, <1>here, DuringRun
<1> QED
  BY <1>1, <1>2, <1>3, <1>4, <1>5, <1>6, <1>7, <1>8
     DEF NarrationInv, RunFits

LEMMA CutCandidateKeeps ==
    ASSUME NarrationInv, NEW l \in Lines, CutCandidate(l)
    PROVE  NarrationInv'
<1>run. /\ run'.at = IF run.todo # {l} THEN run.at ELSE IF run.takes = {run.now} THEN "candidates" ELSE "take"
        /\ run'.engine = run.engine
        /\ run'.script = run.script
        /\ run'.todo = IF run.todo = {l} THEN InScript(run.script) ELSE run.todo \ {l}
        /\ run'.takes = IF run.todo = {l} THEN run.takes \ {run.now} ELSE run.takes
        /\ run'.line = run.line
        /\ run'.now = run.now
        /\ run'.kept = run.kept
        /\ run'.lengths = run.lengths
        /\ run'.choice = run.choice
        /\ run'.attempt = run.attempt
        /\ run'.misled = run.misled
  BY DEF CutCandidate, WriteClip, NarrationInv, RunFits, Runs
<1>same. UNCHANGED <<hashes, take, digest, recordings, candidates, durations,
                     looseTakes>>
  BY DEF CutCandidate, WriteClip, files, counts, loose, Loosens
<1>here. /\ run.at = "line" /\ run.engine = "takes"
         /\ l \in run.todo /\ l \in InScript(run.script) /\ run.script[l] \in Texts
         /\ run.takes \subseteq Takes /\ run.now \in run.takes /\ run.now \in Dirs
         /\ durations = NoFile
         /\ run.script \in AnyScript
  BY LinesHaveTexts
     DEF CutCandidate, NarrationInv, RunFits, Runs, Engines, Places, Running,
         At
<1>audio. /\ LineOfTake(l) \in Audio \ {NoFile}
          /\ run.misled = {} =>
                /\ Says(LineOfTake(l), run.script[l])
                /\ LineOfTake(l).recording = take[run.now].recording
  <2>1. take[run.now] \in {TornFile} \cup Taken
    BY <1>here DEF NarrationInv, FilesFit, FilesOK, RunFits, TakeFits, At
  <2>2. ASSUME Holds(take[run.now], run.script)
        PROVE  /\ LineOfTake(l) = Clip(run.script[l], take[run.now].recording)
               /\ take[run.now].recording \in Nat
    BY <2>2, ClipIsWhole DEF Holds, LineOfTake, Taken
  <2>3. run.misled = {} => Holds(take[run.now], run.script)
    BY <1>here DEF NarrationInv, RunFits, TakeFits, At
  <2>4. CASE Holds(take[run.now], run.script)
    BY <1>here, <2>2, <2>4, ClipIsWhole DEF Says, Audio
  <2>5. CASE ~Holds(take[run.now], run.script)
    <3>1. LineOfTake(l) = TornFile
      BY <1>here, <2>1, <2>5 DEF Holds, LineOfTake
    <3> QED
      BY <2>3, <2>5, <3>1, ClipIsWhole DEF Audio
  <2> QED
    BY <2>4, <2>5
<1>files. /\ FilesFit'
          /\ \A e \in Dirs, m \in Lines :
                clip'[<<e, m>>] = IF e = run.now /\ m = l THEN LineOfTake(l) ELSE clip[<<e, m>>]
  BY <1>here, <1>audio, WritingFits DEF CutCandidate, NarrationInv
<1>1. FilesFit'
  BY <1>files
<1>2. run' \in Runs
  BY <1>here DEF NarrationInv, RunFits, Runs, Steps, CutCandidate, InScript
<1>3. Places'
  BY <1>run, <1>same, <1>here, <1>audio, <1>files
     DEF NarrationInv, RunFits, Places, At
<1>4. Running'
  BY <1>run, <1>same, <1>here, <1>audio, <1>files
     DEF NarrationInv, RunFits, Running, At, InScript, HashOf, InUse
<1>5. TakeFits'
  BY <1>run, <1>same, <1>here, <1>audio, <1>files
     DEF NarrationInv, RunFits, TakeFits, At, Holds
<1>6. LinesFit'
  BY <1>run, <1>same, <1>here, <1>audio, <1>files
     DEF NarrationInv, RunFits, LinesFit, LineFits, At, InUse, Says, InScript
<1>7. CutsFit'
  <2>1. InScript(run.script)' = InScript(run.script) /\ l \in Lines
    BY <1>run DEF InScript
  <2>2. ASSUME NEW n \in Takes, n # run.now, NEW m \in InScript(run.script), Cut(n, m)
        PROVE  Cut(n, m)'
    BY <1>run, <1>files, <2>1, <2>2, DirsDiffer DEF Cut, Says, InScript
  <2>3. l \notin run.misled => run.misled = {}
    BY <1>here DEF NarrationInv, RunFits, Running
  <2>4. ASSUME NEW m \in InScript(run.script), m = l \/ Cut(run.now, m)
        PROVE  (clip[<<run.now, m>>] # NoFile
                /\ (m \notin run.misled => Says(clip[<<run.now, m>>], run.script[m])))'
    BY <1>run, <1>here, <1>audio, <1>files, <2>1, <2>3, <2>4 DEF Cut, Says, InScript
  <2>5. \A m \in InScript(run.script) \ run.todo : Cut(run.now, m)
    BY <1>here DEF NarrationInv, RunFits, CutsFit
  <2>6. \A n \in Takes \ run.takes, m \in InScript(run.script) : n # run.now /\ Cut(n, m)
    BY <1>here DEF NarrationInv, RunFits, CutsFit
  <2>7. ASSUME NEW n \in Takes \ run'.takes, NEW m \in InScript(run.script)
        PROVE  Cut(n, m)'
    <3>1. CASE n \in Takes \ run.takes
      BY <2>2, <2>6, <3>1
    <3>2. CASE n \in run.takes
      <4>1. n = run.now /\ run.todo = {l}
        BY <1>run, <2>7, <3>2
      <4> QED
        BY <1>run, <2>4, <2>5, <4>1 DEF Cut
    <3> QED
      BY <3>1, <3>2
  <2>8. ASSUME NEW m \in InScript(run.script) \ run'.todo
        PROVE  Cut(run.now, m)'
    BY <1>run, <2>4, <2>5, <2>8 DEF Cut
  <2>9. run'.at = "candidates" => run'.takes = {}
    BY <1>run, <1>here
  <2> QED
    BY <1>run, <2>1, <2>7, <2>8, <2>9 DEF CutsFit, At
<1>8. Ended'
  BY <1>same, <1>here, DuringRun
<1> QED
  BY <1>1, <1>2, <1>3, <1>4, <1>5, <1>6, <1>7, <1>8
     DEF NarrationInv, RunFits

LEMMA ChooseKeeps ==
    ASSUME NarrationInv, Choose
    PROVE  NarrationInv'
<1>run. /\ run'.at = "copy"
        /\ run'.engine = run.engine
        /\ run'.script = run.script
        /\ run'.todo = run.todo
        /\ run'.takes = run.takes
        /\ run'.line = run.line
        /\ run'.now = run.now
        /\ run'.kept = run.kept
        /\ run'.lengths = run.lengths
        /\ run'.attempt = run.attempt
        /\ run'.misled = run.misled
  BY DEF Choose, NarrationInv, RunFits, Runs
<1>same. UNCHANGED <<clip, hashes, take, digest, recordings, candidates,
                     durations, looseClips, looseTakes, looseCandidates>>
  BY DEF Choose, files, counts, loose
<1>here. /\ run.at = "choose" /\ run.engine = "pick"
         /\ durations = NoFile
         /\ run.script \in AnyScript
  BY DEF Choose, NarrationInv, RunFits, Runs, Engines, Places, Running, At
<1>choice. PICK choice \in [run.todo -> Takes] :
               run' = [run EXCEPT !.choice = choice, !.at = "copy"]
  BY DEF Choose
<1>1. FilesOK'
  BY <1>run, <1>same, <1>here, <1>choice DEF NarrationInv, FilesFit, FilesOK
<1>2. run' \in Runs
  <2>1. choice \in Choices
    BY DEF Choices, NarrationInv, RunFits, Runs
  <2> QED
    BY <1>choice, <2>1 DEF NarrationInv, RunFits, Runs, Steps
<1>3. HashesFit'
  BY <1>run, <1>same, <1>here, <1>choice
     DEF NarrationInv, FilesFit, HashesFit, HashOf, InUse
<1>4. DigestsFit'
  BY <1>run, <1>same, <1>here, <1>choice
     DEF NarrationInv, FilesFit, DigestsFit, Holds
<1>5. CandidatesFit'
  BY <1>run, <1>same, <1>here, <1>choice
     DEF NarrationInv, FilesFit, CandidatesFit, Says, InScript
<1>6. Places'
  BY <1>run, <1>same, <1>here, <1>choice DEF NarrationInv, RunFits, Places, At
<1>7. Running'
  <2>1. run'.choice = choice
    BY <1>choice DEF NarrationInv, RunFits, Runs
  <2> QED
    BY <1>run, <1>same, <1>here, <2>1
       DEF NarrationInv, RunFits, Running, At, InScript, HashOf, InUse
<1>8. TakeFits'
  BY <1>run, <1>same, <1>here, <1>choice
     DEF NarrationInv, RunFits, TakeFits, At, Holds
<1>9. LinesFit'
  BY <1>run, <1>same, <1>here, <1>choice
     DEF NarrationInv, RunFits, LinesFit, LineFits, At, InUse, Says, InScript
<1>10. CutsFit'
  BY <1>run, <1>same, <1>here, <1>choice
     DEF NarrationInv, RunFits, CutsFit, Cut, At, Says, InScript
<1>11. Ended'
  BY <1>same, <1>here, DuringRun
<1> QED
  BY <1>1, <1>2, <1>3, <1>4, <1>5, <1>6, <1>7, <1>8, <1>9, <1>10, <1>11
     DEF NarrationInv, FilesFit, RunFits

LEMMA CopyLineKeeps ==
    ASSUME NarrationInv, NEW l \in Lines, CopyLine(l)
    PROVE  NarrationInv'
<1>run. /\ run'.at = IF run.todo = {l} THEN "durations" ELSE "copy"
        /\ run'.engine = run.engine
        /\ run'.script = run.script
        /\ run'.todo = run.todo \ {l}
        /\ run'.takes = run.takes
        /\ run'.line = run.line
        /\ run'.now = run.now
        /\ run'.kept = run.kept
        /\ run'.lengths = [run.lengths EXCEPT ![l] = candidates.clips[<<run.choice[l], l>>]]
        /\ run'.choice = run.choice
        /\ run'.attempt = run.attempt
        /\ run'.misled = run.misled
  BY DEF CopyLine, WriteClip, NarrationInv, RunFits, Runs
<1>same. UNCHANGED <<hashes, take, digest, recordings, candidates, durations,
                     looseTakes>>
  BY DEF CopyLine, WriteClip, files, counts, loose, Loosens
<1>here. /\ run.at = "copy" /\ run.engine = "pick"
         /\ l \in run.todo /\ l \in InScript(run.script) /\ run.script[l] \in Texts
         /\ run.now = Only /\ run.now \in Dirs /\ run.choice[l] \in Takes
         /\ durations = NoFile
         /\ run.script \in AnyScript
  BY LinesHaveTexts
     DEF CopyLine, NarrationInv, RunFits, Runs, Engines, Places, Running, At
<1>audio. LET c == candidates.clips[<<run.choice[l], l>>]
              d == clip[<<run.choice[l], l>>]
          IN  /\ c \in Audio /\ d \in Audio \ {NoFile}
              /\ l \notin run.misled => c = d /\ Says(d, run.script[l])
  BY <1>here, DirsDiffer
     DEF NarrationInv, RunFits, Running, FilesFit, FilesOK, CandidatesFit
<1>files. /\ FilesFit'
          /\ \A e \in Dirs, m \in Lines :
                clip'[<<e, m>>] = IF e = Only /\ m = l THEN clip[<<run.choice[l], l>>]
                                                     ELSE clip[<<e, m>>]
  BY <1>here, <1>audio, WritingFits DEF CopyLine, NarrationInv
<1>loose. UNCHANGED looseCandidates
  BY <1>here DEF CopyLine, WriteClip, Loosens
<1>1. FilesFit'
  BY <1>files
<1>2. run' \in Runs
  <2>1. [run.lengths EXCEPT ![l] = candidates.clips[<<run.choice[l], l>>]]
            \in [Lines -> Audio]
    BY <1>audio DEF NarrationInv, RunFits, Runs
  <2> QED
    BY <1>here, <2>1 DEF NarrationInv, RunFits, Runs, Steps, CopyLine
<1>3. Places'
  BY <1>run, <1>same, <1>here, <1>audio, <1>files, <1>loose
     DEF NarrationInv, RunFits, Places, At
<1>4. Running'
  BY <1>run, <1>same, <1>here, <1>audio, <1>files, <1>loose
     DEF NarrationInv, RunFits, Running, At, InScript, HashOf, InUse
<1>5. TakeFits'
  BY <1>run, <1>same, <1>here, <1>audio, <1>files, <1>loose
     DEF NarrationInv, RunFits, TakeFits, At, Holds
<1>6. LinesFit'
  <2>0. run.lengths \in [Lines -> Audio] /\ l \in Lines /\ InScript(run.script)' = InScript(run.script)
    BY <1>run, <1>here DEF NarrationInv, RunFits, Runs, InScript
  <2>1. l \in InScript(run.script)' \ run.todo' /\ run.engine' # "takes" /\ LineFits(l)'
    <3>1. /\ InUse(l)' = clip[<<run.choice[l], l>>]
          /\ run'.lengths[l] = candidates.clips[<<run.choice[l], l>>]
      BY <1>run, <1>files, <2>0, DirsDiffer DEF InUse
    <3> QED
      BY <1>run, <1>here, <1>audio, <2>0, <3>1 DEF LineFits, Says
  <2>2. ASSUME NEW m \in Lines, m # l
        PROVE  IF m \in InScript(run.script)' \ run.todo' /\ run.engine' # "takes"
               THEN LineFits(m)' ELSE run'.lengths[m] = NoFile
    BY <1>run, <1>same, <1>here, <1>files, <2>0, DirsDiffer, <2>2
       DEF NarrationInv, RunFits, LinesFit, LineFits, InUse, Says
  <2>3. run'.engine = "pick" /\ run'.at \in {"copy", "durations"}
    BY <1>run, <1>here
  <2> QED
    BY <1>run, <2>1, <2>2, <2>3 DEF LinesFit, At, InScript
<1>7. CutsFit'
  BY <1>run, <1>same, <1>here, <1>audio, <1>files, <1>loose
     DEF NarrationInv, RunFits, CutsFit, Cut, At, Says, InScript
<1>8. Ended'
  BY <1>same, <1>here, DuringRun
<1> QED
  BY <1>1, <1>2, <1>3, <1>4, <1>5, <1>6, <1>7, <1>8
     DEF NarrationInv, RunFits

(* A run starts from files that fit.                                        *)
LEMMA StartsKeeps ==
    ASSUME NarrationInv, NEW engine \in Engines \ {"none"}, NEW step,
           NEW script \in AnyScript, NEW takes, NEW kept \in AnyScript,
           NEW misled \in SUBSET InScript(script),
           Starts(engine, step, script, takes, kept, misled),
           \/ engine = "chirp" /\ step = "line" /\ takes = {} /\ misled = {}
              /\ hashes # TornFile /\ \A l \in Lines : kept[l] = HashOf(l)
           \/ engine = "gemini" /\ step = "take" /\ takes = {Only} /\ misled = {}
              /\ InScript(script) # {}
           \/ engine = "takes" /\ step = "take" /\ takes = Takes /\ misled = {}
              /\ InScript(script) # {}
           \/ engine = "pick" /\ step = "choose" /\ takes = {}
              /\ candidates \notin {NoFile, TornFile} /\ candidates.script = script
              /\ misled = looseCandidates \cap InScript(script)
    PROVE  NarrationInv'
<1>run. /\ run'.at = step
        /\ run'.engine = engine
        /\ run'.script = script
        /\ run'.todo = InScript(script)
        /\ run'.takes = takes
        /\ run'.now = Only
        /\ run'.kept = kept
        /\ run'.lengths = NoClips
        /\ run'.misled = misled
  BY DEF Starts, Resting
<1>same. /\ UNCHANGED <<clip, hashes, take, digest, recordings, candidates,
                        looseClips, looseTakes, looseCandidates>>
         /\ durations' = NoFile
  BY DEF Starts, files, loose
<1>1. FilesOK' /\ HashesFit' /\ DigestsFit' /\ CandidatesFit'
  BY <1>same
     DEF NarrationInv, FilesFit, FilesOK, HashesFit, DigestsFit, CandidatesFit,
         HashOf, InUse, Holds, Says, InScript
<1>2. run' \in Runs
  <2>1. InScript(script) \in SUBSET Lines /\ takes \in SUBSET Dirs /\ step \in Steps
    BY DEF InScript, Dirs, Steps
  <2> QED
    BY <2>1, RestIsRun DEF Starts, Resting, Runs
<1>3. Places' /\ Running'
  BY <1>run, <1>same DEF Places, Running, At, InScript, HashOf, InUse
<1>4. TakeFits' /\ LinesFit' /\ CutsFit'
  BY <1>run DEF TakeFits, LinesFit, CutsFit, NoClips, At, InScript
<1>5. Ended'
  BY <1>same, DuringRun
<1> QED
  BY <1>1, <1>2, <1>3, <1>4, <1>5 DEF NarrationInv, FilesFit, RunFits

LEMMA EveryStartKeeps ==
    ASSUME NarrationInv,
           \/ \E script \in Scripts :
                 StartChirp(script) \/ StartGemini(script) \/ StartTakes(script)
           \/ StartPick
    PROVE  NarrationInv'
<1>1. ASSUME NEW script \in Scripts, StartChirp(script)
      PROVE  NarrationInv'
  <2> DEFINE kept == IF hashes = NoFile THEN NoScript ELSE hashes.texts
  <2>1. hashes \in {NoFile} \cup Hashed
    BY <1>1 DEF StartChirp, NarrationInv, FilesFit, FilesOK
  <2>2. kept \in AnyScript /\ \A l \in Lines : kept[l] = HashOf(l)
    BY <2>1, RestIsRun, ClipIsWhole DEF Hashed, HashOf, NoScript
  <2>3. Starts("chirp", "line", script, {}, kept, {}) /\ hashes # TornFile
    BY <1>1 DEF StartChirp
  <2> QED
    BY <2>2, <2>3, StartsKeeps, NarrationAssumption DEF AnyScript, Engines
<1>2. ASSUME NEW script \in Scripts, StartGemini(script) \/ StartTakes(script)
      PROVE  NarrationInv'
  <2>1. script \in AnyScript /\ InScript(script) # {}
    BY NarrationAssumption DEF AnyScript
  <2>2. CASE StartGemini(script)
    BY <2>1, <2>2, StartsKeeps, RestIsRun DEF StartGemini, Engines
  <2>3. CASE StartTakes(script)
    BY <2>1, <2>3, StartsKeeps, RestIsRun DEF StartTakes, Engines
  <2> QED
    BY <1>2, <2>2, <2>3
<1>3. ASSUME StartPick
      PROVE  NarrationInv'
  <2>1. candidates \notin {NoFile, TornFile} /\ candidates.script \in AnyScript
    BY <1>3 DEF StartPick, NarrationInv, FilesFit, CandidatesFit
  <2> QED
    BY <1>3, <2>1, StartsKeeps, RestIsRun DEF StartPick, Engines
<1> QED
  BY <1>1, <1>2, <1>3

LEMMA DropTornHashesKeeps ==
    ASSUME NarrationInv, DropTornHashes
    PROVE  NarrationInv'
<1>same. /\ UNCHANGED <<clip, take, digest, recordings, candidates, durations, run,
                        looseClips, looseTakes, looseCandidates>>
         /\ hashes = TornFile /\ hashes' = NoFile /\ run.at = "rest"
  BY DEF DropTornHashes, counts, loose, At
<1>1. \A l \in Lines : HashOf(l)' = HashOf(l)
  BY <1>same DEF HashOf
<1>2. FilesOK' /\ HashesFit' /\ DigestsFit' /\ CandidatesFit'
  BY <1>same, <1>1
     DEF NarrationInv, FilesFit, FilesOK, HashesFit, DigestsFit, CandidatesFit,
         InUse, Holds, Says, InScript
<1>3. run' \in Runs /\ Places' /\ Running'
  BY <1>same DEF NarrationInv, RunFits, Places, Running, At, InScript, InUse
<1>4. TakeFits' /\ LinesFit' /\ CutsFit'
  BY <1>same
     DEF NarrationInv, RunFits, TakeFits, LinesFit, LineFits, CutsFit, Cut, At, InScript,
         InUse, Holds, Says
<1>5. Ended'
  BY <1>same DEF NarrationInv, Ended, ClipsSayTheText, DurationsOfClips, ended, InScript
<1> QED
  BY <1>2, <1>3, <1>4, <1>5 DEF NarrationInv, FilesFit, RunFits

LEMMA SaveCandidatesKeeps ==
    ASSUME NarrationInv, SaveCandidates
    PROVE  NarrationInv'
<1>here. /\ run.at = "candidates" /\ run.engine = "takes" /\ run.takes = {}
         /\ run.todo = InScript(run.script) /\ run.script \in AnyScript
         /\ run.misled \subseteq Lines /\ durations = NoFile
  BY DEF SaveCandidates, NarrationInv, RunFits, Runs, Engines, Places, Running, CutsFit, At
<1>same. /\ UNCHANGED <<clip, hashes, take, digest, recordings, durations,
                        looseClips, looseTakes>>
         /\ looseCandidates' = run.misled /\ run' = Resting
  BY DEF SaveCandidates, counts
<1>cand. /\ candidates'.script = run.script
         /\ \A n \in Takes, l \in InScript(run.script) :
               candidates'.clips[<<n, l>>] = clip[<<n, l>>]
  BY <1>here DEF SaveCandidates
<1>1. FilesOK' /\ HashesFit' /\ DigestsFit'
  BY <1>here, <1>same
     DEF NarrationInv, FilesFit, FilesOK, HashesFit, DigestsFit, HashOf, InUse, Holds
<1>2. CandidatesFit'
  <2>1. ASSUME NEW n \in Takes, NEW l \in InScript(run.script)
        PROVE  /\ clip[<<n, l>>] \in Audio \ {NoFile}
               /\ l \notin run.misled => Says(clip[<<n, l>>], run.script[l])
    BY <1>here, DirsDiffer
       DEF NarrationInv, FilesFit, FilesOK, RunFits, CutsFit, Cut, InScript
  <2> QED
    BY <1>here, <1>same, <1>cand, <2>1 DEF CandidatesFit, Says, InScript
<1>3. RunFits'
  BY <1>same, RestFitsNext
<1>4. Ended'
  BY <1>here, <1>same, DuringRun
<1> QED
  BY <1>1, <1>2, <1>3, <1>4 DEF NarrationInv, FilesFit

LEMMA SaveDurationsKeeps ==
    ASSUME NarrationInv, SaveDurations
    PROVE  NarrationInv'
<1>here. /\ run.at = "durations" /\ run.todo = {} /\ run.engine # "takes"
         /\ run.script \in AnyScript
  BY DEF SaveDurations, NarrationInv, RunFits, Runs, Places, Running, At
<1>same. /\ UNCHANGED <<clip, hashes, take, digest, recordings, candidates,
                        looseClips, looseTakes, looseCandidates>>
         /\ run' = Resting
         /\ durations'.script = run.script /\ durations'.engine = run.engine
         /\ durations'.misled = run.misled /\ durations'.clips = run.lengths
  BY DEF SaveDurations, files, counts, loose
<1>1. FilesOK' /\ HashesFit' /\ DigestsFit' /\ CandidatesFit'
  BY <1>same
     DEF NarrationInv, FilesFit, FilesOK, HashesFit, DigestsFit, CandidatesFit,
         HashOf, InUse, Holds, Says, InScript
<1>2. RunFits'
  BY <1>same, RestFitsNext
<1>fit. \A l \in InScript(run.script) : l \in Lines /\ LineFits(l)
  BY <1>here DEF NarrationInv, RunFits, LinesFit, InScript
<1>3. ClipsSayTheText'
  <2>1. ASSUME NEW l \in InScript(run.script) \ run.misled
        PROVE  /\ InUse(l) \notin {NoFile, TornFile} /\ InUse(l).text = run.script[l]
               /\ run.engine = "chirp" => InUse(l).recording = 0
               /\ run.engine = "gemini" =>
                     \A m \in InScript(run.script) : InUse(m).recording = InUse(l).recording
    <3>1. Says(InUse(l), run.script[l])
      BY <1>fit DEF LineFits
    <3>2. run.engine = "gemini" => run.misled = {}
      BY <2>1 DEF NarrationInv, RunFits, Running
    <3> QED
      BY <1>fit, <2>1, <3>1, <3>2, ClipIsWhole DEF LineFits, Says
  <2> QED
    BY <1>same, <2>1 DEF ClipsSayTheText, InUse, InScript
<1>4. DurationsOfClips'
  <2>1. run.engine # "pick" => \A l \in Lines \ InScript(run.script) : InUse(l) = NoFile
    BY <1>here DEF NarrationInv, RunFits, LinesFit, At
  <2> QED
    BY <1>same, <1>fit, <2>1 DEF DurationsOfClips, LineFits, InUse, InScript
<1> QED
  BY <1>1, <1>2, <1>3, <1>4 DEF NarrationInv, FilesFit, Ended

(* However a run is stopped, what is said of files stays true.              *)
LEMMA StoppedFits ==
    ASSUME NarrationInv, Stop, FilesFit', durations' \in {durations, TornFile}
    PROVE  NarrationInv'
<1>1. durations = NoFile /\ run' = Resting
  BY DEF Stop, NarrationInv, RunFits, Running
<1>2. RunFits' /\ Ended'
  BY <1>1, RestFitsNext, DuringRun
<1> QED
  BY <1>2 DEF NarrationInv

LEMMA StopAtRestKeeps ==
    ASSUME NarrationInv, StopAtRest
    PROVE  NarrationInv'
<1>1. FilesFit'
  BY DEF NarrationInv, FilesFit, FilesOK, HashesFit, DigestsFit, CandidatesFit, HashOf,
         InUse, Holds, Says, InScript, StopAtRest, Stop, files, counts, loose
<1> QED
  BY <1>1, StoppedFits DEF StopAtRest

LEMMA TearClipKeeps ==
    ASSUME NarrationInv, NEW l \in Lines, TearClip(l)
    PROVE  NarrationInv'
<1>1. TornFile \in Audio \ {NoFile} /\ run.now \in Dirs
  BY ClipIsWhole DEF Audio, NarrationInv, RunFits, Runs
<1>2. FilesFit'
  BY <1>1, WritingFits DEF TearClip, NarrationInv
<1> QED
  BY <1>2, StoppedFits DEF TearClip, WriteClip

LEMMA StopUnlinkingKeeps ==
    ASSUME NarrationInv, StopUnlinking
    PROVE  NarrationInv'
<1>1. \E lines \in SUBSET Lines : clip' = Unlinked(lines)
  BY DEF StopUnlinking, NotInRun
<1>2. UNCHANGED <<hashes, take, digest, recordings, candidates, durations,
                  looseClips, looseTakes, looseCandidates>>
  BY DEF StopUnlinking, Stop, counts, loose
<1>3. FilesFit'
  BY <1>1, <1>2, UnlinkingFits DEF NarrationInv
<1> QED
  BY <1>2, <1>3, StoppedFits DEF StopUnlinking

LEMMA TearTakeKeeps ==
    ASSUME NarrationInv, TearTake
    PROVE  NarrationInv'
<1>same. UNCHANGED <<clip, hashes, recordings, candidates, durations,
                     looseClips, looseCandidates>>
  BY DEF TearTake, Stop, counts
<1>torn. TornFile \notin Hashed /\ run.now \in Dirs
  BY ClipIsWhole DEF NarrationInv, RunFits, Runs
<1>1. /\ \A n \in Dirs : \/ take'[n] = take[n] \/ n \in looseTakes'
      /\ \A n \in Dirs : \/ digest'[n] = digest[n] \/ digest'[n] = TornFile
      /\ looseTakes \subseteq looseTakes'
      /\ take' \in [Dirs -> {NoFile, TornFile} \cup Taken]
      /\ digest' \in [Dirs -> {NoFile, TornFile} \cup Hashed]
  BY <1>torn DEF TearTake, NarrationInv, FilesFit, FilesOK
<1>2. FilesOK' /\ HashesFit' /\ CandidatesFit'
  BY <1>same, <1>1
     DEF NarrationInv, FilesFit, FilesOK, HashesFit, CandidatesFit, HashOf, InUse, Says,
         InScript
<1>3. DigestsFit'
  BY <1>torn, <1>1 DEF NarrationInv, FilesFit, DigestsFit, Holds
<1> QED
  BY <1>same, <1>2, <1>3, StoppedFits DEF TearTake, FilesFit

LEMMA TearJsonKeeps ==
    ASSUME NarrationInv, TearJson
    PROVE  NarrationInv'
<1>same. UNCHANGED <<clip, take, digest, recordings, looseTakes, looseCandidates>>
  BY DEF TearJson, Stop, counts
<1>1. /\ \/ hashes' = hashes /\ looseClips' = looseClips
         \/ hashes' = TornFile /\ looseClips' = Lines
      /\ candidates' \in {candidates, TornFile}
      /\ durations' \in {durations, TornFile}
  BY DEF TearJson
<1>2. FilesOK' /\ DigestsFit'
  BY <1>same, <1>1 DEF NarrationInv, FilesFit, FilesOK, DigestsFit, Holds
<1>3. HashesFit' /\ CandidatesFit'
  BY <1>same, <1>1
     DEF NarrationInv, FilesFit, HashesFit, CandidatesFit, HashOf, InUse, Says, InScript
<1> QED
  BY <1>1, <1>2, <1>3, StoppedFits DEF TearJson, FilesFit

LEMMA StutterKeeps ==
    ASSUME NarrationInv, UNCHANGED vars
    PROVE  NarrationInv'
<1>1. FilesFit'
  BY DEF NarrationInv, FilesFit, FilesOK, HashesFit, DigestsFit, CandidatesFit, HashOf,
         InUse, Holds, Says, InScript, vars, files, counts, loose
<1>2. RunFits'
  BY DEF NarrationInv, RunFits, Places, Running, TakeFits, LinesFit, LineFits, CutsFit, Cut,
         At, InScript, HashOf, InUse, Holds, Says, vars, files, counts, loose
<1>3. Ended'
  BY DEF NarrationInv, Ended, ClipsSayTheText, DurationsOfClips, ended, InScript, vars,
         files
<1> QED
  BY <1>1, <1>2, <1>3 DEF NarrationInv

-----------------------------------------------------------------------------
LEMMA InitInv == Init => NarrationInv
<1> SUFFICES ASSUME Init
             PROVE  NarrationInv
  OBVIOUS
<1>1. FilesFit
  BY ClipIsWhole
     DEF Init, FilesFit, FilesOK, HashesFit, DigestsFit, CandidatesFit, InUse, Audio, Dirs
<1>2. RunFits
  BY RestFits DEF Init
<1>3. Ended
  BY DEF Init, Ended, ClipsSayTheText, DurationsOfClips, ended
<1> QED
  BY <1>1, <1>2, <1>3 DEF NarrationInv

LEMMA StepInv ==
    ASSUME NarrationInv, [Next]_vars
    PROVE  NarrationInv'
BY EveryStartKeeps, DropTornHashesKeeps, KeepLineKeeps, SpeakLineKeeps, SaveHashKeeps,
   TidyKeeps, SaveHashesKeeps, ReuseTakeKeeps, RequestTakeKeeps, RequestAgainKeeps,
   RecordTakeKeeps, SaveDigestKeeps, UnlinkAllKeeps, MakeClipDirKeeps, CutLineKeeps,
   CutCandidateKeeps, SaveCandidatesKeeps, ChooseKeeps, CopyLineKeeps, SaveDurationsKeeps,
   StopAtRestKeeps, TearClipKeeps, StopUnlinkingKeeps, TearTakeKeeps, TearJsonKeeps,
   StutterKeeps
   DEF Next

(* The invariant holds in every state, whatever is run, edited and stopped. *)
THEOREM NarrationInvariant == Spec => []NarrationInv
<1>1. NarrationInv /\ [Next]_vars => NarrationInv'
  BY StepInv
<1> QED
  BY <1>1, InitInv, PTL DEF Spec

(* A run that has come to its end leaves, for every line it was not misled  *)
(* about by a description older than the file, a whole clip that says the   *)
(* text: chirp's in the preset voice, gemini's all from one recording.      *)
THEOREM ClipsFitTheText == Spec => []ClipsSayTheText
<1>1. NarrationInv => ClipsSayTheText
  BY DEF NarrationInv, Ended
<1> QED
  BY <1>1, NarrationInvariant, PTL

(* Its lengths are those of the clips in use, and tts.py leaves no clip of  *)
(* a line that is not in the script.                                        *)
THEOREM LengthsFitTheClips == Spec => []DurationsOfClips
<1>1. NarrationInv => DurationsOfClips
  BY DEF NarrationInv, Ended
<1> QED
  BY <1>1, NarrationInvariant, PTL

(* chirp synthesizes a line whose clip is in use again only if that clip    *)
(* was written by a run that was stopped before it had saved the hash, or   *)
(* hashes.json was left half-written.                                       *)
THEOREM OnlyTheUnsavedIsSpokenAgain == Spec => UnchangedIsKept
<1>1. ASSUME NarrationInv, NEW l \in Lines, SpeakLine(l),
             clip[<<Only, l>>] = Clip(run.script[l], 0)
      PROVE  l \in looseClips
  <2>1. /\ run.engine = "chirp" /\ run.at = "line"
        /\ run.script \in AnyScript /\ l \in InScript(run.script)
    BY <1>1 DEF SpeakLine, NarrationInv, RunFits, Runs, Running, At
  <2>2. run.script[l] \in Texts /\ run.kept[l] = HashOf(l)
    BY <2>1, <1>1, LinesHaveTexts DEF NarrationInv, RunFits, Running, At
  <2>3. /\ clip[<<Only, l>>] # NoFile
        /\ \A text \in Texts : clip[<<Only, l>>] = Clip(text, 0) => text = run.script[l]
    BY <1>1, <2>2 DEF Clip, NoFile
  <2>4. run.kept[l] # run.script[l]
    BY <1>1, <2>3 DEF SpeakLine, Unchanged
  <2> QED
    BY <1>1, <2>2, <2>3, <2>4 DEF NarrationInv, FilesFit, HashesFit, InUse
<1>2. NarrationInv /\ [Next]_vars =>
         [\A l \in Lines : SpeakLine(l) /\ clip[<<Only, l>>] = Clip(run.script[l], 0)
             => l \in looseClips]_vars
  BY <1>1
<1> QED
  BY <1>2, NarrationInvariant, PTL DEF Spec, UnchangedIsKept
=============================================================================
