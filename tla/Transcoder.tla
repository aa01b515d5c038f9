------------------------------ MODULE Transcoder ------------------------------
(***************************************************************************)
(* MediaTranscoder.run_transcoder: the audio, then one pair of ffmpeg      *)
(* processes per rendition, then the files.  A pair is a reader that       *)
(* decodes the segment to raw frames and an encoder that takes them from   *)
(* the reader's pipe; the worker reads the encoder's output.  A pipe holds *)
(* so much and no more, and whoever writes to a full one waits.            *)
(***************************************************************************)
EXTENDS Naturals, FiniteSets

CONSTANTS
  NumRenditions,  \* video renditions
  NumFrames,      \* frames of the segment
  SourceSize,     \* units of data in a raw frame of the source
  OutSize,        \* units of data in a raw frame of a rendition
  PipeSize        \* units that fit into a pipe

ASSUME TranscoderAssumption ==
  /\ NumRenditions \in Nat \ {0}
  /\ NumFrames \in Nat
  /\ SourceSize \in Nat \ {0}
  /\ OutSize \in Nat \ {0}
  /\ PipeSize \in Nat \ {0}

Process == {"reader", "encoder"}
Total == NumFrames * SourceSize

VARIABLES
  pc,        \* where run_transcoder is
  proc,      \* the two processes of the current rendition
  ends,      \* who holds a read end of the pipe between them
  raw,       \* units in that pipe
  decoded,   \* units the reader has written to it
  taken,     \* units the encoder has taken from it
  out,       \* units in the encoder's stdout
  errors,    \* messages in the stderr of each process
  upset,     \* processes that have a message to write before they go on
  results,   \* per finished rendition, the units its bytes encode
  saved      \* files written

pipeVars == <<proc, ends, raw, decoded, taken, out, errors, upset>>
fileVars == <<results, saved>>
vars == <<pc, pipeVars, fileVars>>

Done == DOMAIN results
Running(p) == proc[p] = "running"
Ended(p) == proc[p] \in {"ok", "bad"}

Init ==
  /\ pc = "audio"
  /\ proc = [p \in Process |-> "none"]
  /\ ends = {}
  /\ raw = 0
  /\ decoded = 0
  /\ taken = 0
  /\ out = 0
  /\ errors = [p \in Process |-> 0]
  /\ upset = {}
  /\ results = [i \in {} |-> 0]
  /\ saved = 0

-----------------------------------------------------------------------------
(* The worker.                                                              *)

(* An exception leaves run_transcoder; nothing here catches it.             *)
RaiseAt(point) == pc = point /\ pc' = "raised" /\ UNCHANGED <<pipeVars, fileVars>>

(* One process, all of whose output communicate() reads.                    *)
ExtractAudio ==
  \/ pc = "audio" /\ pc' = "reader" /\ UNCHANGED <<pipeVars, fileVars>>
  \/ RaiseAt("audio")

(* The frame rate is probed and the reader started.                         *)
StartReader ==
  \/ /\ pc = "reader"
     /\ pc' = "encoder"
     /\ proc' = [reader |-> "running", encoder |-> "none"]
     /\ ends' = {"worker"}
     /\ raw' = 0
     /\ decoded' = 0
     /\ taken' = 0
     /\ out' = 0
     /\ errors' = [p \in Process |-> 0]
     /\ upset' = {}
     /\ UNCHANGED fileVars
  \/ RaiseAt("reader")

(* The encoder inherits the read end of the pipe. If it cannot be started,  *)
(* the reader runs on.                                                      *)
StartEncoder ==
  \/ /\ pc = "encoder"
     /\ pc' = "close"
     /\ proc' = [proc EXCEPT !.encoder = "running"]
     /\ ends' = ends \cup {"encoder"}
     /\ UNCHANGED <<raw, decoded, taken, out, errors, upset, fileVars>>
  \/ RaiseAt("encoder")

(* Mutant: the worker keeps its read end open.                               *)
KeepOpen == pc = "close" /\ pc' = "drain" /\ UNCHANGED <<pipeVars, fileVars>>

(* process1.stdout.close().                                                 *)
CloseStdout ==
  /\ pc = "close"
  /\ pc' = "drain"
  /\ ends' = ends \ {"worker"}
  /\ UNCHANGED <<proc, raw, decoded, taken, out, errors, upset, fileVars>>

(* process2.communicate() reads both outputs of the encoder as they come,   *)
(* and returns once the encoder has ended and both are empty.               *)
Communicate ==
  /\ pc = "drain"
  /\ \/ /\ out > 0
        /\ out' = out - 1
        /\ UNCHANGED <<pc, errors>>
     \/ /\ errors["encoder"] > 0
        /\ errors' = [errors EXCEPT !["encoder"] = @ - 1]
        /\ UNCHANGED <<pc, out>>
     \/ /\ Ended("encoder")
        /\ out = 0 /\ errors["encoder"] = 0
        /\ pc' = "wait"
        /\ UNCHANGED <<out, errors>>
  /\ UNCHANGED <<proc, ends, raw, decoded, taken, upset, fileVars>>

(* Mutant: only the return code of the encoder is looked at.                 *)
EncoderOk == proc["encoder"] = "ok"

BothOk == \A p \in Process : proc[p] = "ok"

(* Mutant: a pair that has failed is started again.                          *)
WaitAndRetry ==
  /\ pc = "wait"
  /\ Ended("reader")
  /\ pc' = "reader"
  /\ UNCHANGED <<pipeVars, fileVars>>

(* process1.wait(), and the two return codes.                               *)
Wait ==
  /\ pc = "wait"
  /\ Ended("reader")
  /\ \/ /\ ~BothOk
        /\ pc' = "raised"
        /\ UNCHANGED results
     \/ /\ BothOk
        /\ \E n \in 1..NumRenditions :
             /\ Done = 1..(n - 1)
             /\ results' = [k \in 1..n |-> IF k = n THEN taken ELSE results[k]]
             /\ pc' = IF n = NumRenditions THEN "save" ELSE "reader"
  /\ UNCHANGED <<pipeVars, saved>>

(* Mutant: the loop runs once too often.                                     *)
SaveOneMore ==
  \/ /\ pc = "save"
     /\ saved' = saved + 1
     /\ pc' = IF saved' = NumRenditions + 2 THEN "returned" ELSE "save"
     /\ UNCHANGED <<pipeVars, results>>
  \/ RaiseAt("save")

(* save_renditions: one file after the other, the audio the last.           *)
Save ==
  \/ /\ pc = "save"
     /\ saved' = saved + 1
     /\ pc' = IF saved' = NumRenditions + 1 THEN "returned" ELSE "save"
     /\ UNCHANGED <<pipeVars, results>>
  \/ RaiseAt("save")

(* The frame of the failed call is freed, and with it the worker's ends.    *)
Free ==
  /\ pc = "raised"
  /\ pc' = "freed"
  /\ ends' = ends \ {"worker"}
  /\ UNCHANGED <<proc, raw, decoded, taken, out, errors, upset, fileVars>>
-----------------------------------------------------------------------------
(* The processes.                                                           *)

(* p has done something else than complain; it may have a message now.      *)
GoesOn(p) == p \notin upset /\ upset' \in {upset, upset \cup {p}}

(* The reader decodes on, unless the pipe is full; it fails when nobody is  *)
(* left to read from it.                                                    *)
Decode ==
  /\ Running("reader")
  /\ decoded < Total
  /\ GoesOn("reader")
  /\ \/ /\ ends # {}
        /\ raw < PipeSize
        /\ raw' = raw + 1
        /\ decoded' = decoded + 1
        /\ UNCHANGED proc
     \/ /\ ends = {}
        /\ proc' = [proc EXCEPT !.reader = "bad"]
        /\ UNCHANGED <<raw, decoded>>
  /\ UNCHANGED <<pc, ends, taken, out, errors, fileVars>>

DecodeEnds ==
  /\ Running("reader")
  /\ decoded = Total
  /\ "reader" \notin upset
  /\ proc' = [proc EXCEPT !.reader = "ok"]
  /\ UNCHANGED <<pc, ends, raw, decoded, taken, out, errors, upset, fileVars>>

(* The encoder takes what is in the pipe, OutSize units to a frame, and      *)
(* writes a unit of output for every frame.                                 *)
Encode ==
  /\ Running("encoder")
  /\ raw > 0
  /\ out < PipeSize
  /\ GoesOn("encoder")
  /\ raw' = raw - 1
  /\ taken' = taken + 1
  /\ out' = IF taken' % OutSize = 0 THEN out + 1 ELSE out
  /\ UNCHANGED <<pc, proc, ends, decoded, errors, fileVars>>

(* It meets the end of its input once the reader, however it ended, is gone  *)
(* and the pipe is empty.                                                   *)
EncodeEnds ==
  /\ Running("encoder")
  /\ raw = 0
  /\ Ended("reader")
  /\ "encoder" \notin upset
  /\ proc' = [proc EXCEPT !.encoder = "ok"]
  /\ ends' = ends \ {"encoder"}
  /\ UNCHANGED <<pc, raw, decoded, taken, out, errors, upset, fileVars>>

(* p writes its message, unless its stderr is full; when the worker has      *)
(* freed its end of that pipe the message is lost and p goes on.            *)
Complain(p) ==
  /\ Running(p)
  /\ p \in upset
  /\ \/ /\ pc # "freed"
        /\ errors[p] < PipeSize
        /\ errors' = [errors EXCEPT ![p] = @ + 1]
     \/ pc = "freed" /\ UNCHANGED errors
  /\ upset' = upset \ {p}
  /\ UNCHANGED <<pc, proc, ends, raw, decoded, taken, out, fileVars>>

(* p fails or is killed; what it has written stays in the pipes.            *)
Die(p) ==
  /\ Running(p)
  /\ proc' = [proc EXCEPT ![p] = "bad"]
  /\ ends' = ends \ {p}
  /\ UNCHANGED <<pc, raw, decoded, taken, out, errors, upset, fileVars>>

-----------------------------------------------------------------------------

WorkerStep ==
  \/ ExtractAudio
  \/ StartReader
  \/ StartEncoder
  \/ CloseStdout
  \/ Communicate
  \/ Wait
  \/ Save
  \/ Free

ReaderStep == Decode \/ DecodeEnds \/ Complain("reader")
EncoderStep == Encode \/ EncodeEnds \/ Complain("encoder")

Next == WorkerStep \/ ReaderStep \/ EncoderStep \/ \E p \in Process : Die(p)

Spec == Init /\ [][Next]_vars

(* All three are processes of the operating system and go on when they can.  *)
FairSpec ==
  Spec /\ WF_vars(WorkerStep) /\ WF_vars(ReaderStep) /\ WF_vars(EncoderStep)

-----------------------------------------------------------------------------
(* Properties.                                                              *)

Pc == {"audio", "reader", "encoder", "close", "drain", "wait", "save",
       "returned", "raised", "freed"}

(* TranscoderTypeOK: every variable keeps its type; in particular no pipe    *)
(* ever holds more than fits into it, and no more files are written than    *)
(* there are results.                                                       *)
TranscoderTypeOK ==
  /\ pc \in Pc
  /\ proc \in [Process -> {"none", "running", "ok", "bad"}]
  /\ ends \subseteq {"worker", "encoder"}
  /\ raw \in 0..PipeSize
  /\ decoded \in 0..Total
  /\ taken \in 0..Total
  /\ out \in 0..PipeSize
  /\ errors \in [Process -> 0..PipeSize]
  /\ upset \subseteq Process
  /\ \E n \in 0..NumRenditions : results \in [1..n -> 0..Total]
  /\ saved \in 0..(NumRenditions + 1)

(* NothingTruncated: a rendition that is kept was encoded from the whole      *)
(* segment. When the reader dies the encoder just meets the end of its      *)
(* input and ends well, with the frames it has got.                         *)
NothingTruncated == \A i \in Done : results[i] = Total

(* The reader waits for room in its stderr, which nobody reads.             *)
Clogged ==
  Running("reader") /\ "reader" \in upset /\ errors["reader"] = PipeSize /\ pc # "freed"

(* The call is over and has left no process behind.                         *)
Over == pc \in {"returned", "freed"} /\ \A p \in Process : ~Running(p)

(* What the worker and the processes of a pair need to go on.               *)
WorkerMoves ==
  \/ pc \in {"audio", "reader", "encoder", "close", "save", "raised"}
  \/ pc = "drain" /\ (out > 0 \/ errors["encoder"] > 0 \/ Ended("encoder"))
  \/ /\ pc = "wait" /\ Ended("reader")
     /\ ~BothOk \/ \E n \in 1..NumRenditions : Done = 1..(n - 1)

MayComplain(p) == Running(p) /\ p \in upset /\ (errors[p] < PipeSize \/ pc = "freed")

ReaderMoves ==
  \/ MayComplain("reader")
  \/ /\ Running("reader") /\ "reader" \notin upset
     /\ decoded = Total \/ ends = {} \/ raw < PipeSize

EncoderMoves ==
  \/ MayComplain("encoder")
  \/ /\ Running("encoder") /\ "encoder" \notin upset
     /\ (raw > 0 /\ out < PipeSize) \/ (raw = 0 /\ Ended("reader"))

(* SomebodyMoves: the worker and the two processes never all wait for each    *)
(* other, on full pipes, empty pipes or ends of pipes that somebody still   *)
(* holds, whoever has died before; except behind a clogged reader.          *)
SomebodyMoves == Over \/ Clogged \/ WorkerMoves \/ ReaderMoves \/ EncoderMoves

(* How much is still to be done. A unit of raw video is worth the steps and  *)
(* the messages it may cost on its way; a rendition, all its units.         *)
ProcessCost(p) == IF Running(p) THEN (IF p \in upset THEN 3 ELSE 1) ELSE 0
PairCost ==
  7 * (Total - decoded) + 4 * raw + out + errors["reader"] + errors["encoder"]
    + ProcessCost("reader") + ProcessCost("encoder")
Stage ==
  CASE pc = "audio" -> 7 * Total + 12
    [] pc = "reader" -> 7 * Total + 11
    [] pc = "encoder" -> 9
    [] pc = "close" -> 5
    [] pc = "drain" -> 4
    [] pc = "wait" -> 3
    [] pc = "save" -> 2
    [] pc = "raised" -> 1
    [] OTHER -> 0
Cost == (NumRenditions - Cardinality(Done)) * (7 * Total + 9) + Stage + PairCost
          + (NumRenditions + 1 - saved)

(* EveryStepCosts: every step, of the worker or of a process, uses up some of *)
(* a finite budget, so that no run goes on for ever, be the scheduling what *)
(* it may. With SomebodyMoves: it can only end where it should, or clogged. *)
EveryStepCosts == [][Cost' >= 0 /\ Cost' < Cost]_vars

(* RunEnds: run_transcoder returns or raises, and leaves no process behind,  *)
(* whichever process dies and when: nobody waits for ever on a full or an   *)
(* empty pipe, but for one exception. A reader whose messages fill its      *)
(* stderr pipe blocks all three for ever.                                   *)
RunEnds == <>[]Over \/ <>[]Clogged

(* FramesAreKept: transcoder.py:17-18 has process 1 read the input            *)
(* "frame-by-frame" and process 2 transcode "the raw frames". The reader is *)
(* told no size and writes frames of the source's size; the encoder cuts    *)
(* what it gets into frames of the rendition's size.                        *)
FramesAreKept == \A i \in Done : results[i] \div OutSize = NumFrames
=============================================================================
