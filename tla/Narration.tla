------------------------------ MODULE Narration ------------------------------
(***************************************************************************)
(* The voice-over of the explainer video (tts.py, pick_voice.py): scripts  *)
(* that an author runs again and again, with any engine and any version of *)
(* the narration.  All they know of earlier runs is in files, and a run    *)
(* may be stopped at any moment, also in the middle of writing a file.     *)
(*                                                                         *)
(* A recording is the number of the request it came from, 0 for the preset *)
(* voice, which speaks a text the same way every time.                     *)
(***************************************************************************)
EXTENDS Integers, FiniteSets

CONSTANTS
    Lines,          \* line ids, <Scene>-<n>
    Texts, NoText,  \* what a line may say; NoText: the line is not there
    Scripts,        \* the versions of the narration, the text of each line
    Takes,          \* the takes recorded as candidates
    Only,           \* the single take, and the directory of the clips in use
    MaxRuns,        \* bound: runs started
    MaxRecordings   \* bound: takes recorded

InScript(script) == {l \in Lines : script[l] # NoText}

ASSUME NarrationAssumption ==
    /\ Only \notin Takes
    /\ NoText \notin Texts
    /\ Scripts \subseteq [Lines -> Texts \cup {NoText}]
    /\ \A script \in Scripts : InScript(script) # {}
    /\ {MaxRuns, MaxRecordings} \subseteq Nat

NoFile == [kind |-> "none"]
TornFile == [kind |-> "torn"]   \* half-written, or cut from a wrong take

VARIABLES
    clip,         \* clip[d, l]: the mp3 of line l in directory d
    hashes,       \* hashes.json: the text of each clip chirp synthesized
    take, digest, \* take[n], digest[n]: take<n>.wav and take<n>.sha256
    runs,         \* runs started
    recordings,   \* recordings made by Gemini
    candidates,   \* candidates.json
    durations,    \* vo-durations.json; forgotten when the next run starts
    run,          \* the script that runs, and its locals
    looseClips, looseTakes, looseCandidates
                  \* lines and takes whose files were written since hashes.json,
                  \* the digest and candidates.json were: no guard reads these

Dirs == Takes \cup {Only}
files == <<clip, hashes, take, digest, candidates>>
loose == <<looseClips, looseTakes, looseCandidates>>
counts == <<runs, recordings>>
vars == <<files, counts, durations, run, loose>>

NoScript == [l \in Lines |-> NoText]
NoClips == [l \in Lines |-> NoFile]

Clip(text, recording) == [kind |-> "clip", text |-> text, recording |-> recording]

(* at: where the script is; todo, takes: the lines and takes yet to be done; *)
(* line, now: those at hand; kept, lengths: the locals hashes and durations; *)
(* choice: the take chosen for each line; misled: the lines for which it has *)
(* gone by a file that was loose.                                            *)
Resting == [at |-> "rest", engine |-> "none", script |-> NoScript,
            todo |-> {}, takes |-> {}, line |-> "none", now |-> Only,
            kept |-> NoScript, lengths |-> NoClips, choice |-> <<>>, attempt |-> 0,
            misled |-> {}]

Init ==
    /\ clip = [p \in Dirs \X Lines |-> NoFile]
    /\ hashes = NoFile
    /\ take = [n \in Dirs |-> NoFile]
    /\ digest = [n \in Dirs |-> NoFile]
    /\ runs = 0 /\ recordings = 0
    /\ candidates = NoFile
    /\ durations = NoFile
    /\ run = Resting
    /\ looseClips = {} /\ looseTakes = {} /\ looseCandidates = {}

At(step) == run.at = step

(* A script starts.                                                         *)
Starts(engine, step, script, takes, kept, misled) ==
    /\ At("rest")
    /\ run' = [Resting EXCEPT !.at = step, !.engine = engine, !.script = script,
                              !.todo = InScript(script), !.takes = takes,
                              !.kept = kept, !.misled = misled]
    /\ runs < MaxRuns
    /\ runs' = runs + 1
    /\ durations' = NoFile
    /\ UNCHANGED <<files, recordings, loose>>

-----------------------------------------------------------------------------
(* chirp: one request per line; the hashes are saved after every line.      *)

StartChirp(script) ==
    /\ hashes # TornFile
    /\ Starts("chirp", "line", script, {},
              IF hashes = NoFile THEN NoScript ELSE hashes.texts, {})

(* With half a hashes.json every run of chirp fails at once; the author has  *)
(* to take the file away, and all lines are synthesized anew.                *)
DropTornHashes ==
    /\ At("rest")
    /\ hashes = TornFile
    /\ hashes' = NoFile
    /\ UNCHANGED <<clip, take, digest, candidates, counts, durations, run, loose>>

(* Mutant: any clip that is there is kept. *)
UnchangedIfThere(l) == clip[<<Only, l>>] # NoFile

Unchanged(l) == run.kept[l] = run.script[l] /\ clip[<<Only, l>>] # NoFile

KeepLine(l) ==
    /\ At("line") /\ run.engine = "chirp"
    /\ l \in run.todo /\ Unchanged(l)
    /\ run' = [run EXCEPT !.todo = @ \ {l}, !.lengths[l] = clip[<<Only, l>>],
                          !.misled = @ \cup ({l} \cap looseClips)]
    /\ UNCHANGED <<files, counts, durations, loose>>

SpeakLine(l) ==
    /\ At("line") /\ run.engine = "chirp"
    /\ l \in run.todo /\ ~Unchanged(l)
    /\ clip' = [clip EXCEPT ![<<Only, l>>] = Clip(run.script[l], 0)]
    /\ looseClips' = looseClips \cup {l}
    /\ run' = [run EXCEPT !.at = "hash", !.line = l]
    /\ UNCHANGED <<hashes, take, digest, candidates, counts, durations,
                   looseTakes, looseCandidates>>

Hashes(texts) == [kind |-> "hashes", texts |-> texts]
HashedLine == [run.kept EXCEPT ![run.line] = run.script[run.line]]
LineDone ==
    /\ run' = [run EXCEPT !.at = "line", !.todo = @ \ {run.line}, !.kept = HashedLine,
                          !.lengths[run.line] = clip[<<Only, run.line>>]]
    /\ looseClips' = looseClips \ {run.line}
    /\ UNCHANGED <<clip, take, digest, candidates, counts, durations,
                   looseTakes, looseCandidates>>

(* Mutant: the hashes are only saved at the end. *)
SaveHashLater ==
    /\ At("hash")
    /\ LineDone
    /\ UNCHANGED hashes

SaveHash ==
    /\ At("hash")
    /\ LineDone
    /\ hashes' = Hashes(HashedLine)

(* Mutant: clips that are no longer wanted stay. *)
NothingUnlinked(lines) == clip

Unlinked(lines) == [p \in Dirs \X Lines |->
                       IF p[1] = Only /\ p[2] \in lines THEN NoFile ELSE clip[p]]

NotInRun == {l \in Lines : run.lengths[l] = NoFile}

Tidy ==
    /\ At("line") /\ run.engine = "chirp" /\ run.todo = {}
    /\ clip' = Unlinked(NotInRun)
    /\ run' = [run EXCEPT !.at = "hashes"]
    /\ UNCHANGED <<hashes, take, digest, candidates, counts, durations, loose>>

SaveHashes ==
    /\ At("hashes")
    /\ hashes' = Hashes([l \in Lines |-> IF l \in NotInRun THEN NoText ELSE run.kept[l]])
    /\ run' = [run EXCEPT !.at = "durations"]
    /\ UNCHANGED <<clip, take, digest, candidates, counts, durations, loose>>

-----------------------------------------------------------------------------
(* gemini: the script in one take, or in several for pick_voice.py to       *)
(* choose from.                                                             *)

StartGemini(script) == Starts("gemini", "take", script, {Only}, NoScript, {})

StartTakes(script) == Starts("takes", "take", script, Takes, NoScript, {})

HaveTake(n) == take[n] # NoFile /\ digest[n] = Hashes(run.script)

ReuseTake(n) ==
    /\ At("take") /\ n \in run.takes /\ HaveTake(n)
    /\ run' = [run EXCEPT !.now = n, !.at = "cut",
                          !.misled = @ \cup (IF n \in looseTakes THEN run.todo ELSE {})]
    /\ UNCHANGED <<files, counts, durations, loose>>

RequestTake(n) ==
    /\ At("take") /\ n \in run.takes /\ ~HaveTake(n)
    /\ run' = [run EXCEPT !.now = n, !.at = "request"]
    /\ UNCHANGED <<files, counts, durations, loose>>

(* synthesize: three more requests for an overloaded service, or for audio  *)
(* that is not complete.                                                    *)
RequestAgain ==
    /\ At("request")
    /\ run.attempt < 3
    /\ run' = [run EXCEPT !.attempt = @ + 1]
    /\ UNCHANGED <<files, counts, durations, loose>>

RecordTake ==
    /\ At("request")
    /\ recordings < MaxRecordings
    /\ recordings' = recordings + 1
    /\ take' = [take EXCEPT ![run.now] =
                   [kind |-> "take", script |-> run.script, recording |-> recordings']]
    /\ looseTakes' = looseTakes \cup {run.now}
    /\ run' = [run EXCEPT !.at = "digest", !.attempt = 0]
    /\ UNCHANGED <<clip, hashes, digest, candidates, runs, durations,
                   looseClips, looseCandidates>>

SaveDigest ==
    /\ At("digest")
    /\ digest' = [digest EXCEPT ![run.now] = Hashes(run.script)]
    /\ looseTakes' = looseTakes \ {run.now}
    /\ run' = [run EXCEPT !.at = "cut"]
    /\ UNCHANGED <<clip, hashes, take, candidates, counts, durations,
                   looseClips, looseCandidates>>

(* The clips in use go before the first of their successors is cut.         *)
UnlinkAll ==
    /\ At("cut") /\ run.engine = "gemini"
    /\ clip' = Unlinked(Lines)
    /\ run' = [run EXCEPT !.at = "line"]
    /\ UNCHANGED <<hashes, take, digest, candidates, counts, durations, loose>>

MakeClipDir ==
    /\ At("cut") /\ run.engine = "takes"
    /\ run' = [run EXCEPT !.at = "line"]
    /\ UNCHANGED <<files, counts, durations, loose>>

(* A clip is that of the line if the take is of the script and not torn.    *)
LineOfTake(l) ==
    IF take[run.now] # TornFile /\ take[run.now].script = run.script
    THEN Clip(run.script[l], take[run.now].recording)
    ELSE TornFile

(* The clip of line l in the directory of the run is written.               *)
Loosens(l) ==
    IF run.now = Only
    THEN looseClips' = looseClips \cup {l} /\ UNCHANGED looseCandidates
    ELSE looseCandidates' = looseCandidates \cup {l} /\ UNCHANGED looseClips

WriteClip(l, audio) ==
    /\ clip' = [clip EXCEPT ![<<run.now, l>>] = audio]
    /\ Loosens(l)
    /\ UNCHANGED <<hashes, take, digest, candidates, counts, durations, looseTakes>>

CutLine(l) ==
    /\ At("line") /\ run.engine = "gemini" /\ l \in run.todo
    /\ WriteClip(l, LineOfTake(l))
    /\ run' = [run EXCEPT !.todo = @ \ {l}, !.lengths[l] = LineOfTake(l),
                          !.at = IF run.todo = {l} THEN "durations" ELSE "line"]

CutCandidate(l) ==
    /\ At("line") /\ run.engine = "takes" /\ l \in run.todo
    /\ WriteClip(l, LineOfTake(l))
    /\ run' = IF run.todo # {l} THEN [run EXCEPT !.todo = @ \ {l}]
              ELSE [run EXCEPT !.todo = InScript(run.script), !.takes = @ \ {run.now},
                               !.at = IF run.takes = {run.now} THEN "candidates" ELSE "take"]

SaveCandidates ==
    /\ At("candidates")
    /\ candidates' = [kind |-> "candidates", script |-> run.script,
                      clips |-> [p \in Takes \X run.todo |-> clip[p]]]
    /\ looseCandidates' = run.misled
    /\ run' = Resting
    /\ UNCHANGED <<clip, hashes, take, digest, counts, durations,
                   looseClips, looseTakes>>

-----------------------------------------------------------------------------
(* pick_voice.py works from candidates.json and the clips it names.         *)

StartPick ==
    /\ candidates \notin {NoFile, TornFile}
    /\ Starts("pick", "choose", candidates.script, {}, NoScript,
              looseCandidates \cap InScript(candidates.script))

(* The best take of each sentence, see VoiceChoice.                         *)
Choose ==
    /\ At("choose")
    /\ \E choice \in [run.todo -> Takes] :
          run' = [run EXCEPT !.choice = choice, !.at = "copy"]
    /\ UNCHANGED <<files, counts, durations, loose>>

CopyLine(l) ==
    /\ At("copy") /\ l \in run.todo
    /\ WriteClip(l, clip[<<run.choice[l], l>>])
    /\ run' = [run EXCEPT !.todo = @ \ {l},
                          !.lengths[l] = candidates.clips[<<run.choice[l], l>>],
                          !.at = IF run.todo = {l} THEN "durations" ELSE "copy"]

-----------------------------------------------------------------------------
(* The end of every run that replaces clips.                                *)

SaveDurations ==
    /\ At("durations")
    /\ durations' = [kind |-> "durations", clips |-> run.lengths, engine |-> run.engine,
                     script |-> run.script, misled |-> run.misled]
    /\ run' = Resting
    /\ UNCHANGED <<files, counts, loose>>

(* A run is stopped, by sys.exit when a request has failed, by an exception *)
(* or from outside.  A file it was writing may be left torn.                *)
Stop ==
    /\ ~At("rest")
    /\ run' = Resting
    /\ UNCHANGED counts

StopAtRest ==
    /\ Stop
    /\ UNCHANGED <<files, durations, loose>>

Writing(l) ==
    /\ l \in run.todo
    /\ At("line") \/ At("copy")
    /\ run.engine = "chirp" => ~Unchanged(l)

TearClip(l) ==
    /\ Stop
    /\ Writing(l)
    /\ WriteClip(l, TornFile)

(* Of the clips to be deleted some are.                                     *)
StopUnlinking ==
    /\ Stop
    /\ \E lines \in SUBSET (IF At("cut") THEN Lines ELSE NotInRun) :
          clip' = Unlinked(lines)
    /\ \/ At("cut") /\ run.engine = "gemini"
       \/ At("line") /\ run.engine = "chirp" /\ run.todo = {}
    /\ UNCHANGED <<hashes, take, digest, candidates, durations, loose>>

TearTake ==
    /\ Stop
    /\ \/ /\ At("request")
          /\ take' = [take EXCEPT ![run.now] = TornFile]
          /\ looseTakes' = looseTakes \cup {run.now}
          /\ UNCHANGED digest
       \/ /\ At("digest")
          /\ digest' = [digest EXCEPT ![run.now] = TornFile]
          /\ UNCHANGED <<take, looseTakes>>
    /\ UNCHANGED <<clip, hashes, candidates, durations, looseClips, looseCandidates>>

TearJson ==
    /\ Stop
    /\ \/ /\ At("hash") \/ At("hashes")
          /\ hashes' = TornFile
          /\ looseClips' = Lines
          /\ UNCHANGED <<candidates, durations>>
       \/ /\ At("candidates")
          /\ candidates' = TornFile
          /\ UNCHANGED <<hashes, durations, looseClips>>
       \/ /\ At("durations")
          /\ durations' = TornFile
          /\ UNCHANGED <<hashes, candidates, looseClips>>
    /\ UNCHANGED <<clip, take, digest, looseTakes, looseCandidates>>

Next ==
    \/ \E script \in Scripts :
          StartChirp(script) \/ StartGemini(script) \/ StartTakes(script)
    \/ DropTornHashes \/ SaveHash \/ Tidy \/ SaveHashes
    \/ RequestAgain \/ RecordTake \/ SaveDigest \/ UnlinkAll \/ MakeClipDir
    \/ SaveCandidates
    \/ StartPick \/ Choose
    \/ SaveDurations
    \/ \E l \in Lines : \/ KeepLine(l) \/ SpeakLine(l)
                        \/ CutLine(l) \/ CutCandidate(l) \/ CopyLine(l)
    \/ \E n \in Dirs : ReuseTake(n) \/ RequestTake(n)
    \/ \E l \in Lines : TearClip(l)
    \/ StopAtRest \/ StopUnlinking \/ TearTake \/ TearJson

Spec == Init /\ [][Next]_vars

-----------------------------------------------------------------------------
(* Properties.  `ended': a run has come to its end and no other has started. *)

ended == durations \notin {NoFile, TornFile}

(* A run that has come to its end has left, for every line of its script, a  *)
(* whole clip that says the text: of chirp in the preset voice, of gemini    *)
(* all from one recording.  So it is after any runs of any engine, on any    *)
(* versions of the narration in any order, stopped anywhere.  Excepted are   *)
(* the lines for which the run went by a description older than the file:    *)
(* chirp by the hash of a clip that was written after it, by Gemini, by      *)
(* pick_voice.py or by a run stopped before it saved the new hash; gemini by *)
(* the digest of a take recorded after it; pick_voice.py by candidates cut   *)
(* after candidates.json was written, or from such a take.                   *)
ClipsSayTheText ==
    ended =>
        \A l \in InScript(durations.script) \ durations.misled :
            LET c == clip[<<Only, l>>]
            IN  /\ c \notin {NoFile, TornFile} /\ c.text = durations.script[l]
                /\ durations.engine = "chirp" => c.recording = 0
                /\ durations.engine = "gemini" =>
                      \A m \in InScript(durations.script) :
                          clip[<<Only, m>>].recording = c.recording

(* Then vo-durations.json, which times the scenes, has the lengths of the   *)
(* very clips in use, also of those kept or cut by mistake, save that       *)
(* pick_voice.py takes them from a candidates.json that may be older than   *)
(* the clips; and no clip of a dropped line is left by tts.py.              *)
DurationsOfClips ==
    ended =>
        /\ \A l \in InScript(durations.script) :
              \/ durations.clips[l] = clip[<<Only, l>>] /\ clip[<<Only, l>>] # NoFile
              \/ durations.engine = "pick" /\ l \in durations.misled
        /\ durations.engine # "pick" =>
              \A l \in Lines \ InScript(durations.script) : clip[<<Only, l>>] = NoFile

(* A line whose very clip is in use is synthesized again only if the run    *)
(* that synthesized it was stopped before it had saved the hash, or         *)
(* hashes.json was left half-written ("Unchanged lines are not              *)
(* re-synthesized", docstring of tts.py, is true but for these stops).      *)
UnchangedIsKept ==
    [][\A l \in Lines :
          SpeakLine(l) /\ clip[<<Only, l>>] = Clip(run.script[l], 0)
              => l \in looseClips]_vars
=============================================================================
