--------------------------- MODULE TranscoderProofs ---------------------------
(***************************************************************************)
(* The pipes of the transcoder never overflow, and no rendition that is    *)
(* kept was cut short: for any number of renditions and frames, any sizes  *)
(* of frames and pipes, and whichever process dies when.                   *)
(***************************************************************************)
EXTENDS Transcoder, FiniteSetTheorems, TLAPS

(* What the encoder has taken is what the reader has written, but for what  *)
(* is still in the pipe.                                                    *)
Flow == decoded = taken + raw

(* A process that ended well has done all its work: the reader has decoded  *)
(* the whole segment, the encoder has emptied the pipe of an ended reader.  *)
EndedWell ==
  /\ proc["reader"] = "ok" => decoded = Total
  /\ proc["encoder"] = "ok" => raw = 0 /\ Ended("reader")

(* The last file is written with the return.                                *)
FilesLeft == pc = "returned" \/ saved <= NumRenditions

PipeInv == TranscoderTypeOK /\ Flow /\ EndedWell /\ FilesLeft /\ NothingTruncated

(* TotalIsNat: the reader writes so many units of raw video.                  *)
LEMMA TotalIsNat == Total \in Nat
BY TranscoderAssumption DEF Total

(* InitPipe: nothing has been started, so nothing is in a pipe.              *)
LEMMA InitPipe == Init => PipeInv
<1> SUFFICES ASSUME Init PROVE PipeInv
  OBVIOUS
<1>1. \E n \in 0..NumRenditions : results \in [1..n -> 0..Total]
  <2>1. results \in [1..0 -> 0..Total]
    BY TotalIsNat DEF Init
  <2> QED BY <2>1, TranscoderAssumption
<1>2. /\ proc \in [Process -> {"none", "running", "ok", "bad"}]
      /\ errors \in [Process -> 0..PipeSize]
  BY TranscoderAssumption DEF Init
<1>3. TranscoderTypeOK
  BY <1>1, <1>2, TotalIsNat, TranscoderAssumption DEF Init, TranscoderTypeOK, Pc
<1>4. Flow /\ EndedWell /\ FilesLeft /\ NothingTruncated
  BY TotalIsNat, TranscoderAssumption
  DEF Init, Flow, EndedWell, FilesLeft, NothingTruncated, Done, Process
<1> QED BY <1>3, <1>4 DEF PipeInv

(* StillPipe: a step that changes neither the pipes nor the files keeps the  *)
(* invariant if it goes to a point where no file is missing.                *)
LEMMA StillPipe ==
  ASSUME PipeInv, UNCHANGED <<pipeVars, fileVars>>, pc' \in Pc,
         pc' = "returned" \/ saved <= NumRenditions
  PROVE  PipeInv'
BY DEF PipeInv, TranscoderTypeOK, Flow, EndedWell, FilesLeft, NothingTruncated, Done,
       Ended, pipeVars, fileVars, Pc

(* StartPipe: starting the processes, and closing the worker's ends.        *)
LEMMA StartPipe ==
  ASSUME PipeInv,
         \/ ExtractAudio
         \/ StartReader
         \/ StartEncoder
         \/ CloseStdout
         \/ Free
  PROVE  PipeInv'
<1> USE TotalIsNat, TranscoderAssumption DEF PipeInv
<1>1. CASE ExtractAudio
  BY <1>1, StillPipe DEF ExtractAudio, RaiseAt, FilesLeft, Pc
<1>2. CASE StartReader
  <2>1. CASE RaiseAt("reader")
    BY <2>1, StillPipe DEF RaiseAt, FilesLeft, Pc
  <2>2. CASE ~RaiseAt("reader")
    <3>1. TranscoderTypeOK'
      BY <1>2, <2>2 DEF StartReader, TranscoderTypeOK, Pc, Process, fileVars
    <3>2. (Flow /\ EndedWell /\ FilesLeft /\ NothingTruncated)'
      BY <1>2, <2>2
      DEF StartReader, TranscoderTypeOK, Flow, EndedWell, FilesLeft, NothingTruncated,
          Done, fileVars
    <3> QED BY <3>1, <3>2
  <2> QED BY <2>1, <2>2
<1>3. CASE StartEncoder
  <2>1. CASE RaiseAt("encoder")
    BY <2>1, StillPipe DEF RaiseAt, FilesLeft, Pc
  <2>2. CASE ~RaiseAt("encoder")
    <3>1. TranscoderTypeOK'
      BY <1>3, <2>2 DEF StartEncoder, TranscoderTypeOK, Pc, Process, fileVars
    <3>2. (Flow /\ EndedWell /\ FilesLeft /\ NothingTruncated)'
      BY <1>3, <2>2
      DEF StartEncoder, TranscoderTypeOK, Flow, EndedWell, FilesLeft, NothingTruncated,
          Done, Ended, Process, fileVars
    <3> QED BY <3>1, <3>2
  <2> QED BY <2>1, <2>2
<1>4. CASE CloseStdout \/ Free
  BY <1>4
  DEF CloseStdout, Free, TranscoderTypeOK, Flow, EndedWell, FilesLeft, NothingTruncated,
      Done, Ended, Pc, fileVars
<1> QED BY <1>1, <1>2, <1>3, <1>4

(* CommunicatePipe: reading the encoder's outputs only makes room in them.   *)
LEMMA CommunicatePipe ==
  ASSUME PipeInv, Communicate
  PROVE  PipeInv'
<1> USE TotalIsNat, TranscoderAssumption DEF PipeInv
<1>1. TranscoderTypeOK'
  <2>1. out' \in 0..PipeSize /\ pc' \in Pc
    BY DEF Communicate, TranscoderTypeOK, Pc
  <2>2. errors' \in [Process -> 0..PipeSize]
    BY DEF Communicate, TranscoderTypeOK, Process
  <2> QED BY <2>1, <2>2 DEF Communicate, TranscoderTypeOK, fileVars
<1>2. (Flow /\ EndedWell /\ FilesLeft /\ NothingTruncated)'
  BY DEF Communicate, Flow, EndedWell, FilesLeft, NothingTruncated, Done, Ended, fileVars
<1> QED BY <1>1, <1>2

(* WaitPipe: a rendition is kept only when both have ended well; the reader  *)
(* has then decoded everything and the pipe is empty, so everything has     *)
(* been taken.                                                              *)
LEMMA WaitPipe ==
  ASSUME PipeInv, Wait
  PROVE  PipeInv'
<1> USE TotalIsNat, TranscoderAssumption DEF PipeInv
<1>1. CASE ~BothOk
  BY <1>1, StillPipe DEF Wait, FilesLeft, Pc, fileVars
<1>2. CASE BothOk
  <2>1. PICK n \in 1..NumRenditions :
          /\ Done = 1..(n - 1)
          /\ results' = [k \in 1..n |-> IF k = n THEN taken ELSE results[k]]
          /\ pc' = IF n = NumRenditions THEN "save" ELSE "reader"
    BY <1>2 DEF Wait
  <2>2. taken = Total
    BY <1>2 DEF BothOk, Process, EndedWell, Flow, TranscoderTypeOK
  <2>3. \A k \in 1..n : (IF k = n THEN taken ELSE results[k]) = Total
    <3> TAKE k \in 1..n
    <3>1. CASE k = n
      BY <3>1, <2>2
    <3>2. CASE k # n
      BY <3>2, <2>1 DEF NothingTruncated
    <3> QED BY <3>1, <3>2
  <2>4. results' \in [1..n -> 0..Total]
    BY <2>1, <2>3
  <2>5. \E m \in 0..NumRenditions : results' \in [1..m -> 0..Total]
    BY <2>4
  <2>6. TranscoderTypeOK'
    BY <2>1, <2>5 DEF Wait, TranscoderTypeOK, pipeVars, Pc
  <2>7. NothingTruncated'
    BY <2>1, <2>3 DEF NothingTruncated, Done
  <2>8. (Flow /\ EndedWell /\ FilesLeft)'
    BY <2>1 DEF Wait, Flow, EndedWell, FilesLeft, Ended, pipeVars
  <2> QED BY <2>6, <2>7, <2>8
<1> QED BY <1>1, <1>2

(* SavePipe: one file for every rendition and one for the audio.             *)
LEMMA SavePipe ==
  ASSUME PipeInv, Save
  PROVE  PipeInv'
<1> USE TotalIsNat, TranscoderAssumption DEF PipeInv
<1>1. CASE RaiseAt("save")
  BY <1>1, StillPipe DEF RaiseAt, FilesLeft, Pc
<1>2. CASE ~RaiseAt("save")
  <2>1. /\ pc = "save"
        /\ saved' = saved + 1
        /\ pc' = IF saved' = NumRenditions + 1 THEN "returned" ELSE "save"
        /\ UNCHANGED <<pipeVars, results>>
    BY <1>2 DEF Save
  <2>2. saved \in 0..NumRenditions
    BY <2>1 DEF FilesLeft, TranscoderTypeOK
  <2>3. saved' \in 0..(NumRenditions + 1) /\ FilesLeft'
    BY <2>1, <2>2 DEF FilesLeft
  <2>4. TranscoderTypeOK'
    BY <2>1, <2>3 DEF TranscoderTypeOK, pipeVars, Pc
  <2>5. (Flow /\ EndedWell /\ NothingTruncated)'
    BY <2>1 DEF Flow, EndedWell, NothingTruncated, Done, Ended, pipeVars
  <2> QED BY <2>3, <2>4, <2>5
<1> QED BY <1>1, <1>2

(* ReaderPipe: the reader fills the pipe only where there is room, and ends  *)
(* well only after its last frame.                                          *)
LEMMA ReaderPipe ==
  ASSUME PipeInv, Decode \/ DecodeEnds
  PROVE  PipeInv'
<1> USE TotalIsNat, TranscoderAssumption DEF PipeInv
<1>1. TranscoderTypeOK'
  <2>1. proc' \in [Process -> {"none", "running", "ok", "bad"}]
    BY DEF Decode, DecodeEnds, TranscoderTypeOK, Process
  <2>2. raw' \in 0..PipeSize /\ decoded' \in 0..Total
    BY DEF Decode, DecodeEnds, TranscoderTypeOK
  <2>3. upset' \subseteq Process
    BY DEF Decode, DecodeEnds, GoesOn, TranscoderTypeOK, Process
  <2> QED BY <2>1, <2>2, <2>3 DEF Decode, DecodeEnds, TranscoderTypeOK, fileVars
<1>2. Flow'
  BY DEF Decode, DecodeEnds, TranscoderTypeOK, Flow
<1>3. EndedWell'
  BY DEF Decode, DecodeEnds, TranscoderTypeOK, EndedWell, Running, Ended, Process
<1>4. (FilesLeft /\ NothingTruncated)'
  BY DEF Decode, DecodeEnds, FilesLeft, NothingTruncated, Done, fileVars
<1> QED BY <1>1, <1>2, <1>3, <1>4

(* EncoderPipe: the encoder takes only what is there, and ends well only     *)
(* when the reader has ended and the pipe is empty.                         *)
LEMMA EncoderPipe ==
  ASSUME PipeInv, Encode \/ EncodeEnds
  PROVE  PipeInv'
<1>1. TranscoderTypeOK /\ Flow /\ EndedWell /\ FilesLeft /\ NothingTruncated
  BY DEF PipeInv
<1>2. /\ UNCHANGED <<pc, decoded, errors, fileVars>>
      /\ \/ raw > 0 /\ raw' = raw - 1 /\ taken' = taken + 1
         \/ UNCHANGED <<raw, taken>>
      /\ out' = out \/ (out' = out + 1 /\ out < PipeSize)
      /\ ends' \subseteq ends /\ upset' \subseteq upset \cup {"encoder"}
      /\ \/ UNCHANGED proc /\ Running("encoder")
         \/ /\ proc' = [proc EXCEPT !.encoder = "ok"]
            /\ raw' = 0 /\ Ended("reader")
  BY DEF Encode, EncodeEnds, GoesOn
<1>3. raw' \in 0..PipeSize /\ taken' \in 0..Total /\ Flow'
  <2>1. raw \in 0..PipeSize /\ decoded \in 0..Total /\ taken \in 0..Total
    BY <1>1 DEF TranscoderTypeOK
  <2>2. PipeSize \in Nat /\ Total \in Nat
    BY TotalIsNat, TranscoderAssumption
  <2>3. decoded = taken + raw /\ decoded' = decoded
    BY <1>1, <1>2 DEF Flow
  <2>4. CASE raw > 0 /\ raw' = raw - 1 /\ taken' = taken + 1
    <3>1. taken + 1 <= decoded /\ taken' + raw' = taken + raw
      BY <2>1, <2>2, <2>3, <2>4
    <3> QED BY <2>1, <2>2, <2>3, <2>4, <3>1 DEF Flow
  <2>5. CASE UNCHANGED <<raw, taken>>
    BY <2>1, <2>3, <2>5 DEF Flow
  <2> QED BY <1>2, <2>4, <2>5
<1>4. out' \in 0..PipeSize
  BY <1>1, <1>2, TranscoderAssumption DEF TranscoderTypeOK
<1>5. TranscoderTypeOK'
  BY <1>1, <1>2, <1>3, <1>4 DEF TranscoderTypeOK, Process, fileVars
<1>6. EndedWell'
  BY <1>1, <1>2 DEF TranscoderTypeOK, EndedWell, Running, Ended, Process
<1>7. (FilesLeft /\ NothingTruncated)'
  BY <1>1, <1>2 DEF FilesLeft, NothingTruncated, Done, fileVars
<1> QED BY <1>3, <1>5, <1>6, <1>7 DEF PipeInv

(* AnyPipe: a message, or the end of a process at any moment, moves no frame *)
(* and makes nobody end well.                                               *)
LEMMA AnyPipe ==
  ASSUME PipeInv, NEW p \in Process, Complain(p) \/ Die(p)
  PROVE  PipeInv'
<1> USE TotalIsNat, TranscoderAssumption DEF PipeInv
<1>1. TranscoderTypeOK'
  <2>1. proc' \in [Process -> {"none", "running", "ok", "bad"}]
    BY DEF Complain, Die, TranscoderTypeOK
  <2>2. errors' \in [Process -> 0..PipeSize]
    <3>1. CASE Complain(p) /\ pc # "freed"
      BY <3>1 DEF Complain, TranscoderTypeOK
    <3>2. CASE Die(p) \/ pc = "freed"
      BY <3>2 DEF Complain, Die, TranscoderTypeOK
    <3> QED BY <3>1, <3>2
  <2>3. upset' \subseteq Process /\ ends' \subseteq {"worker", "encoder"}
    BY DEF Complain, Die, TranscoderTypeOK
  <2>4. UNCHANGED <<pc, raw, decoded, taken, out, fileVars>>
    BY DEF Complain, Die
  <2> QED BY <2>1, <2>2, <2>3, <2>4 DEF TranscoderTypeOK, fileVars
<1>2. EndedWell'
  BY DEF Complain, Die, TranscoderTypeOK, EndedWell, Running, Ended, Process
<1>3. (Flow /\ FilesLeft /\ NothingTruncated)'
  BY DEF Complain, Die, Flow, FilesLeft, NothingTruncated, Done, fileVars
<1> QED BY <1>1, <1>2, <1>3

(* PipeInductive: no step breaks the invariant.                              *)
LEMMA PipeInductive == PipeInv /\ [Next]_vars => PipeInv'
<1> SUFFICES ASSUME PipeInv, [Next]_vars PROVE PipeInv'
  OBVIOUS
<1>1. CASE WorkerStep
  BY <1>1, StartPipe, CommunicatePipe, WaitPipe, SavePipe DEF WorkerStep
<1>2. CASE ReaderStep
  BY <1>2, ReaderPipe, AnyPipe DEF ReaderStep, Process
<1>3. CASE EncoderStep
  BY <1>3, EncoderPipe, AnyPipe DEF EncoderStep, Process
<1>4. CASE \E p \in Process : Die(p)
  BY <1>4, AnyPipe
<1>5. CASE UNCHANGED vars
  <2>1. pc' \in Pc /\ (pc' = "returned" \/ saved <= NumRenditions)
    BY <1>5 DEF vars, PipeInv, TranscoderTypeOK, FilesLeft
  <2> QED BY <1>5, <2>1, StillPipe DEF vars
<1> QED BY <1>1, <1>2, <1>3, <1>4, <1>5 DEF Next

(* PipesHold: run_transcoder and its processes never put more into a pipe    *)
(* than it holds and write one file for each rendition and the audio; the   *)
(* model's variables keep their types.                                      *)
THEOREM PipesHold == Spec => []TranscoderTypeOK
<1>1. PipeInv => TranscoderTypeOK
  BY DEF PipeInv
<1> QED BY <1>1, InitPipe, PipeInductive, PTL DEF Spec

(* KeptIsWhole: every rendition that run_transcoder keeps was encoded from   *)
(* the whole segment, as it looks at both return codes.                     *)
THEOREM KeptIsWhole == Spec => []NothingTruncated
<1>1. PipeInv => NothingTruncated
  BY DEF PipeInv
<1> QED BY <1>1, InitPipe, PipeInductive, PTL DEF Spec

-----------------------------------------------------------------------------
(* Nobody waits for ever on a pipe.                                         *)

(* Who holds the ends of the reader's pipe, which processes there are at     *)
(* each point of the worker, and how far the renditions have come.          *)
EndsHeld ==
  /\ "encoder" \in ends => Running("encoder")
  /\ "worker" \in ends => pc \in {"encoder", "close", "raised"}

PairThere ==
  /\ pc \notin {"close", "drain"} => ~Running("encoder")
  /\ pc \in {"audio", "reader", "save", "returned"} => ~Running("reader")
  /\ pc \in {"encoder", "close", "drain", "wait"} => Running("reader") \/ Ended("reader")
  /\ pc \in {"close", "drain", "wait"} => Running("encoder") \/ Ended("encoder")

InLoop == pc \in {"audio", "reader", "encoder", "close", "drain", "wait"}
RenditionsLeft == InLoop => \E n \in 1..NumRenditions : Done = 1..(n - 1)

MoveInv == EndsHeld /\ PairThere /\ RenditionsLeft

LEMMA InitMove == Init => MoveInv
<1> SUFFICES ASSUME Init PROVE MoveInv
  OBVIOUS
<1>1. Done = 1..(1 - 1) /\ 1 \in 1..NumRenditions
  BY TranscoderAssumption DEF Init, Done
<1>2. RenditionsLeft
  BY <1>1 DEF RenditionsLeft
<1> QED
  BY <1>2 DEF Init, MoveInv, EndsHeld, PairThere, Running, Process

LEMMA WorkerKeepsMoves ==
  ASSUME PipeInv, MoveInv, WorkerStep PROVE MoveInv'
<1> USE DEF PipeInv, MoveInv, TranscoderTypeOK, EndsHeld, PairThere, RenditionsLeft, InLoop,
            Done, Running, Ended, Process, pipeVars, fileVars
<1>1. CASE ExtractAudio
  BY <1>1 DEF ExtractAudio, RaiseAt
<1>2. CASE StartReader
  BY <1>2 DEF StartReader, RaiseAt
<1>3. CASE StartEncoder
  BY <1>3 DEF StartEncoder, RaiseAt
<1>4. CASE CloseStdout \/ Free
  BY <1>4 DEF CloseStdout, Free
<1>5. CASE Communicate
  BY <1>5 DEF Communicate
<1>6. CASE Save
  BY <1>6 DEF Save, RaiseAt
<1>7. CASE Wait /\ ~BothOk
  BY <1>7 DEF Wait
<1>8. CASE Wait /\ BothOk
  <2>1. PICK n \in 1..NumRenditions :
          /\ results' = [k \in 1..n |-> IF k = n THEN taken ELSE results[k]]
          /\ pc' = IF n = NumRenditions THEN "save" ELSE "reader"
    BY <1>8 DEF Wait
  <2>2. RenditionsLeft'
    <3>1. CASE n = NumRenditions
      BY <2>1, <3>1
    <3>2. CASE n # NumRenditions
      <4>1. n + 1 \in 1..NumRenditions /\ 1..n = 1..((n + 1) - 1)
        BY <3>2, TranscoderAssumption
      <4>2. DOMAIN results' = 1..n
        BY <2>1
      <4> QED
        BY <4>1, <4>2
    <3> QED
      BY <3>1, <3>2
  <2>3. \A p \in Process : ~Running(p)
    BY <1>8 DEF BothOk
  <2>4. UNCHANGED <<ends, proc>> /\ pc = "wait"
    BY <1>8 DEF Wait
  <2>5. EndsHeld' /\ PairThere'
    BY <2>1, <2>3, <2>4
  <2> QED
    BY <2>2, <2>5
<1> QED
  BY <1>1, <1>2, <1>3, <1>4, <1>5, <1>6, <1>7, <1>8 DEF WorkerStep

LEMMA ProcessesKeepMoves ==
  ASSUME PipeInv, MoveInv, ReaderStep \/ EncoderStep \/ \E p \in Process : Die(p)
  PROVE  MoveInv'
<1> USE DEF PipeInv, MoveInv, TranscoderTypeOK, EndsHeld, PairThere, RenditionsLeft, InLoop,
            Done, Running, Ended, Process, fileVars
<1>1. CASE Decode \/ DecodeEnds
  BY <1>1 DEF Decode, DecodeEnds
<1>2. CASE Encode \/ EncodeEnds
  BY <1>2 DEF Encode, EncodeEnds
<1>3. ASSUME NEW p \in Process, Complain(p) \/ Die(p) PROVE MoveInv'
  BY <1>3 DEF Complain, Die
<1> QED
  BY <1>1, <1>2, <1>3 DEF ReaderStep, EncoderStep

LEMMA MoveInductive == PipeInv /\ MoveInv /\ [Next]_vars => MoveInv'
<1>1. ASSUME MoveInv, UNCHANGED vars PROVE MoveInv'
  BY <1>1 DEF MoveInv, EndsHeld, PairThere, RenditionsLeft, InLoop, Done, Running, Ended,
              vars, pipeVars, fileVars
<1> QED
  BY <1>1, WorkerKeepsMoves, ProcessesKeepMoves DEF Next

(* While the worker reads, the encoder takes from the reader; while it waits *)
(* for the reader, or has given up, nobody holds the pipe's read end.       *)
LEMMA MovesFollow == PipeInv /\ MoveInv => SomebodyMoves
<1> SUFFICES ASSUME PipeInv, MoveInv, ~Over, ~Clogged PROVE WorkerMoves \/ ReaderMoves \/ EncoderMoves
  BY DEF SomebodyMoves
<1>1. /\ raw \in 0..PipeSize /\ out \in 0..PipeSize /\ decoded \in 0..Total
      /\ errors["reader"] \in 0..PipeSize /\ errors["encoder"] \in 0..PipeSize
      /\ ends \subseteq {"worker", "encoder"} /\ pc \in Pc
      /\ PipeSize \in Nat \ {0} /\ Total \in Nat
  BY TotalIsNat, TranscoderAssumption DEF PipeInv, TranscoderTypeOK, Process
<1>2. ASSUME Running("reader"), raw = 0 \/ ends = {} PROVE ReaderMoves
  BY <1>1, <1>2 DEF ReaderMoves, MayComplain, Clogged
<1>3. CASE pc = "drain"
  <2> SUFFICES ASSUME out = 0, errors["encoder"] = 0, Running("encoder")
               PROVE  ReaderMoves \/ EncoderMoves
    BY <1>1, <1>3 DEF WorkerMoves, MoveInv, PairThere, Process
  <2>1. CASE "encoder" \in upset
    BY <1>1, <2>1 DEF EncoderMoves, MayComplain
  <2>2. CASE "encoder" \notin upset /\ raw > 0
    BY <1>1, <2>2 DEF EncoderMoves
  <2>3. CASE "encoder" \notin upset /\ raw = 0
    BY <1>2, <1>3, <2>3 DEF EncoderMoves, MoveInv, PairThere, Process
  <2> QED
    BY <1>1, <2>1, <2>2, <2>3
<1>4. CASE pc = "wait"
  <2>1. ends = {}
    BY <1>1, <1>4 DEF MoveInv, EndsHeld, PairThere
  <2>2. Running("reader") \/ Ended("reader")
    BY <1>4 DEF MoveInv, PairThere, Process
  <2>3. \E n \in 1..NumRenditions : Done = 1..(n - 1)
    BY <1>4 DEF MoveInv, RenditionsLeft, InLoop
  <2> QED
    BY <1>2, <1>4, <2>1, <2>2, <2>3 DEF WorkerMoves
<1>5. CASE pc \in {"returned", "freed"}
  <2>1. ends = {} /\ ~Running("encoder")
    BY <1>1, <1>5 DEF MoveInv, EndsHeld, PairThere
  <2>2. Running("reader")
    BY <1>5, <2>1 DEF Over, Process
  <2> QED
    BY <1>2, <2>1, <2>2
<1> QED
  BY <1>1, <1>3, <1>4, <1>5 DEF Pc, WorkerMoves

LEMMA MoveCorrect == Spec => [](PipeInv /\ MoveInv)
BY InitPipe, PipeInductive, InitMove, MoveInductive, PTL DEF Spec

(* SomebodyMoves: with any number of frames, of any size, and pipes of any    *)
(* size, run_transcoder and its ffmpeg processes are never all waiting for  *)
(* each other, except behind a reader whose stderr, which nobody reads, is  *)
(* full.                                                                    *)
THEOREM NobodyWaitsForEver == Spec => []SomebodyMoves
BY MovesFollow, MoveCorrect, PTL

-----------------------------------------------------------------------------
(* No step can be repeated for ever.                                        *)

RenditionsCost == (NumRenditions - Cardinality(Done)) * (7 * Total + 9)
FilesCost == NumRenditions + 1 - saved

(* CountDone: the results are those of the first renditions.                 *)
LEMMA CountDone ==
  ASSUME NEW n \in Nat, Done = 1..n PROVE Cardinality(Done) = n
BY FS_Interval

(* BudgetInv: every part of the budget is a natural number.                  *)
BudgetInv ==
  /\ RenditionsCost \in Nat
  /\ Stage \in Nat
  /\ PairCost \in Nat
  /\ FilesCost \in Nat
  /\ Total - decoded \in Nat
  /\ raw \in Nat
  /\ out \in Nat
  /\ errors["reader"] \in Nat
  /\ errors["encoder"] \in Nat
  /\ ProcessCost("reader") \in 0..3
  /\ ProcessCost("encoder") \in 0..3

(* CostsAreNat: nothing in the budget is ever negative.                      *)
LEMMA CostsAreNat == PipeInv => BudgetInv
<1> SUFFICES ASSUME PipeInv PROVE BudgetInv
  OBVIOUS
<1> USE TotalIsNat, TranscoderAssumption
<1>1. RenditionsCost \in Nat
  <2>1. PICK n \in 0..NumRenditions : results \in [1..n -> 0..Total]
    BY DEF PipeInv, TranscoderTypeOK
  <2>2. Cardinality(Done) = n
    BY <2>1, CountDone DEF Done
  <2>3. \A a, b \in Nat : a * b \in Nat
    OBVIOUS
  <2> QED
    BY <2>1, <2>2, <2>3 DEF RenditionsCost
<1>2. FilesCost \in Nat
  BY DEF PipeInv, TranscoderTypeOK, FilesCost
<1>3. Stage \in Nat
  BY DEF Stage
<1>4. /\ Total - decoded \in Nat /\ raw \in Nat /\ out \in Nat
      /\ errors["reader"] \in Nat /\ errors["encoder"] \in Nat
  BY DEF PipeInv, TranscoderTypeOK, Process
<1>5. \A p \in Process : ProcessCost(p) \in 0..3
  BY DEF ProcessCost
<1>6. PairCost \in Nat
  BY <1>4, <1>5 DEF PairCost, Process
<1> QED
  BY <1>1, <1>2, <1>3, <1>4, <1>5, <1>6 DEF BudgetInv, Process

(* CostDrops: the parts may grow as long as others shrink by more.           *)
LEMMA CostDrops ==
  ASSUME BudgetInv, BudgetInv', NEW i \in Int, NEW j \in Int, NEW k \in Int, NEW l \in Int,
         RenditionsCost' <= RenditionsCost + i, Stage' <= Stage + j,
         PairCost' <= PairCost + k, FilesCost' <= FilesCost + l,
         i + j + k + l < 0
  PROVE  Cost' >= 0 /\ Cost' < Cost
<1>1. PICK a \in Nat, b \in Nat, c \in Nat, d \in Nat :
        a = RenditionsCost /\ b = Stage /\ c = PairCost /\ d = FilesCost
  BY DEF BudgetInv
<1>2. PICK e \in Nat, f \in Nat, g \in Nat, h \in Nat :
        e = RenditionsCost' /\ f = Stage' /\ g = PairCost' /\ h = FilesCost'
  BY DEF BudgetInv
<1>3. Cost = a + b + c + d
  BY <1>1 DEF Cost, RenditionsCost, FilesCost
<1>4. Cost' = e + f + g + h
  BY <1>2 DEF Cost, RenditionsCost, FilesCost
<1>5. e <= a + i /\ f <= b + j /\ g <= c + k /\ h <= d + l
  BY <1>1, <1>2
<1>6. e + f + g + h >= 0 /\ e + f + g + h < a + b + c + d
  BY <1>5
<1> QED
  BY <1>3, <1>4, <1>6

(* PairDrops: the same for what a pair of processes still has to do.         *)
LEMMA PairDrops ==
  ASSUME BudgetInv, BudgetInv', NEW i \in Int, NEW j \in Int, NEW k \in Int,
         NEW l \in Int, NEW m \in Int, NEW n \in Int, NEW o \in Int,
         Total - decoded' = Total - decoded + i, raw' = raw + j, out' <= out + k,
         errors'["reader"] <= errors["reader"] + l,
         errors'["encoder"] <= errors["encoder"] + m,
         ProcessCost("reader")' <= ProcessCost("reader") + n,
         ProcessCost("encoder")' <= ProcessCost("encoder") + o
  PROVE  PairCost' <= PairCost + (7 * i + 4 * j + k + l + m + n + o)
<1> DEFINE left == Total - decoded
           reader == ProcessCost("reader")
           encoder == ProcessCost("encoder")
<1>a. /\ left \in Nat /\ raw \in Nat /\ out \in Nat
      /\ errors["reader"] \in Nat /\ errors["encoder"] \in Nat /\ reader \in Nat /\ encoder \in Nat
  BY DEF BudgetInv
<1>b. /\ left' \in Nat /\ raw' \in Nat /\ out' \in Nat
      /\ errors'["reader"] \in Nat /\ errors'["encoder"] \in Nat
      /\ reader' \in Nat /\ encoder' \in Nat
  BY DEF BudgetInv
<1>c. left' = Total - decoded'
  BY DEF Total
<1> HIDE DEF left, reader, encoder
<1>1. PICK a \in Nat, b \in Nat, c \in Nat, d \in Nat, e \in Nat, f \in Nat, g \in Nat :
        /\ a = left /\ b = raw /\ c = out /\ d = errors["reader"] /\ e = errors["encoder"]
        /\ f = reader /\ g = encoder
  BY <1>a, Zenon
<1>2. PICK a2 \in Nat, b2 \in Nat, c2 \in Nat, d2 \in Nat, e2 \in Nat, f2 \in Nat, g2 \in Nat :
        /\ a2 = left' /\ b2 = raw' /\ c2 = out' /\ d2 = errors'["reader"]
        /\ e2 = errors'["encoder"] /\ f2 = reader' /\ g2 = encoder'
  BY <1>b, Zenon
<1>3. PairCost = 7 * a + 4 * b + c + d + e + f + g
  BY <1>1 DEF PairCost, left, reader, encoder
<1>4. PairCost' = 7 * a2 + 4 * b2 + c2 + d2 + e2 + f2 + g2
  BY <1>2, <1>c DEF PairCost, left, reader, encoder
<1>5. /\ a2 = a + i /\ b2 = b + j /\ c2 <= c + k /\ d2 <= d + l /\ e2 <= e + m
      /\ f2 <= f + n /\ g2 <= g + o
  BY <1>1, <1>2, <1>c DEF left, reader, encoder
<1>6. 7 * a2 + 4 * b2 + c2 + d2 + e2 + f2 + g2
        <= 7 * a + 4 * b + c + d + e + f + g + (7 * i + 4 * j + k + l + m + n + o)
  BY <1>5
<1> QED
  BY <1>3, <1>4, <1>6

(* Integers: the changes that the steps make.                                *)
LEMMA Integers == 0 \in Int /\ 1 \in Int /\ 2 \in Int /\ 3 \in Int
                    /\ -1 \in Int /\ -2 \in Int /\ -4 \in Int
OBVIOUS

(* PairStays: what leaves the pair alone costs it nothing.                   *)
LEMMA PairStays ==
  ASSUME PipeInv, PipeInv', UNCHANGED <<proc, raw, decoded, out, errors, upset>>
  PROVE  PairCost' <= PairCost + 0
<1>1. PairCost' = PairCost
  BY DEF PairCost, ProcessCost, Running
<1>2. PairCost \in Nat
  BY CostsAreNat DEF BudgetInv
<1> QED
  BY <1>1, <1>2

(* FilesStay: what leaves the results and the files alone.                   *)
LEMMA FilesStay ==
  ASSUME BudgetInv, UNCHANGED fileVars
  PROVE  RenditionsCost' <= RenditionsCost + 0 /\ FilesCost' <= FilesCost + 0
<1>1. RenditionsCost' = RenditionsCost /\ FilesCost' = FilesCost
  BY DEF fileVars, RenditionsCost, Done, FilesCost
<1>2. RenditionsCost \in Nat /\ FilesCost \in Nat
  BY DEF BudgetInv
<1> QED
  BY <1>1, <1>2

(* StartPays: starting the pair, and closing the worker's ends.              *)
LEMMA StartPays ==
  ASSUME PipeInv, PipeInv',
         ExtractAudio \/ StartReader \/ StartEncoder \/ CloseStdout \/ Free \/ RaiseAt("save")
  PROVE  Cost' >= 0 /\ Cost' < Cost
<1>1. BudgetInv
  BY CostsAreNat
<1>2. BudgetInv'
  BY CostsAreNat, PTL
<1>3. RenditionsCost' <= RenditionsCost + 0 /\ FilesCost' <= FilesCost + 0
  <2>1. UNCHANGED fileVars
    BY DEF ExtractAudio, StartReader, StartEncoder, CloseStdout, Free, RaiseAt
  <2> QED
    BY <1>1, <2>1, FilesStay
<1>4. Total \in Nat
  BY TotalIsNat
<1>5. CASE ExtractAudio \/ CloseStdout \/ Free
             \/ RaiseAt("reader") \/ RaiseAt("encoder") \/ RaiseAt("save")
  <2>1. PairCost' <= PairCost + 0
    <3>1. UNCHANGED <<proc, raw, decoded, out, errors, upset>>
      BY <1>5 DEF ExtractAudio, CloseStdout, Free, RaiseAt, pipeVars
    <3> QED
      BY <3>1, PairStays
  <2>2. Stage' <= Stage + (-1)
    BY <1>4, <1>5 DEF ExtractAudio, CloseStdout, Free, RaiseAt, Stage
  <2>3. 0 + (-1) + 0 + 0 < 0
    OBVIOUS
  <2> QED
    BY <1>1, <1>2, <1>3, <2>1, <2>2, <2>3, CostDrops, Integers, Zenon
<1>6. CASE StartReader /\ ~RaiseAt("reader")
  <2>1. PICK t \in Nat : t = Total
    BY <1>4
  <2>2. Stage' <= Stage + (-7 * t - 2)
    <3>1. Stage = 7 * t + 11 /\ Stage' = 9
      BY <1>6, <2>1 DEF StartReader, Stage
    <3> QED
      BY <3>1
  <2>3. PairCost' <= PairCost + (7 * t + 1)
    <3>1. PairCost' = 7 * t + 1
      <4>1. ProcessCost("reader")' = 1 /\ ProcessCost("encoder")' = 0
        BY <1>6 DEF StartReader, ProcessCost, Running
      <4>2. decoded' = 0 /\ raw' = 0 /\ out' = 0 /\ errors'["reader"] = 0 /\ errors'["encoder"] = 0
        BY <1>6 DEF StartReader, Process
      <4>3. PairCost' = 7 * (t - 0) + 4 * 0 + 0 + 0 + 0 + 1 + 0
        BY <2>1, <4>1, <4>2 DEF PairCost, Total
      <4> QED
        BY <4>3
    <3>2. PICK c \in Nat : c = PairCost
      BY <1>1 DEF BudgetInv
    <3> QED
      BY <3>1, <3>2
  <2>4. 0 + (-7 * t - 2) + (7 * t + 1) + 0 < 0 /\ -7 * t - 2 \in Int /\ 7 * t + 1 \in Int
    OBVIOUS
  <2> QED
    BY <1>1, <1>2, <1>3, <2>2, <2>3, <2>4, CostDrops, Integers, Zenon
<1>7. CASE StartEncoder /\ ~RaiseAt("encoder")
  <2>1. Stage' <= Stage + (-4)
    <3>1. Stage = 9 /\ Stage' = 5
      BY <1>7 DEF StartEncoder, Stage
    <3> QED
      BY <3>1
  <2>2. PairCost' <= PairCost + (7 * 0 + 4 * 0 + 0 + 0 + 0 + 0 + 3)
    <3>1. /\ Total - decoded' = Total - decoded + 0 /\ raw' = raw + 0 /\ out' <= out + 0
          /\ errors'["reader"] <= errors["reader"] + 0
          /\ errors'["encoder"] <= errors["encoder"] + 0
      BY <1>1, <1>7 DEF StartEncoder, BudgetInv
    <3>2. ProcessCost("reader")' <= ProcessCost("reader") + 0
      <4>1. ProcessCost("reader")' = ProcessCost("reader")
        BY <1>7 DEF StartEncoder, ProcessCost, Running, PipeInv, TranscoderTypeOK, Process
      <4> QED
        BY <1>1, <4>1 DEF BudgetInv
    <3>3. ProcessCost("encoder")' <= ProcessCost("encoder") + 3
      BY <1>1, <1>2 DEF BudgetInv
    <3> QED
      BY <1>1, <1>2, <3>1, <3>2, <3>3, PairDrops, Integers, Zenon
  <2>3. PairCost' <= PairCost + 3
    BY <2>2
  <2>4. 0 + (-4) + 3 + 0 < 0
    OBVIOUS
  <2> QED
    BY <1>1, <1>2, <1>3, <2>1, <2>3, <2>4, CostDrops, Integers, Zenon
<1> QED
  BY <1>5, <1>6, <1>7 DEF StartReader, StartEncoder

(* CommunicatePays: a unit is read, or the encoder is found to have ended.   *)
LEMMA CommunicatePays ==
  ASSUME PipeInv, PipeInv', Communicate
  PROVE  Cost' >= 0 /\ Cost' < Cost
<1>1. BudgetInv
  BY CostsAreNat
<1>2. BudgetInv'
  BY CostsAreNat, PTL
<1>3. RenditionsCost' <= RenditionsCost + 0 /\ FilesCost' <= FilesCost + 0
  <2>1. UNCHANGED fileVars
    BY DEF Communicate
  <2> QED
    BY <1>1, <2>1, FilesStay
<1>4. /\ Total - decoded' = Total - decoded + 0 /\ raw' = raw + 0
      /\ ProcessCost("reader")' <= ProcessCost("reader") + 0
      /\ ProcessCost("encoder")' <= ProcessCost("encoder") + 0
  <2>1. UNCHANGED <<decoded, raw, proc, upset>>
    BY DEF Communicate
  <2>2. /\ ProcessCost("reader")' = ProcessCost("reader")
        /\ ProcessCost("encoder")' = ProcessCost("encoder")
    BY <2>1 DEF ProcessCost, Running
  <2> QED
    BY <1>1, <2>1, <2>2 DEF BudgetInv
<1>5. 0 + 0 + (-1) + 0 < 0 /\ 0 + (-1) + 0 + 0 < 0
  OBVIOUS
<1>6. ASSUME pc' = pc PROVE Stage' <= Stage + 0
  <2>1. Stage' = Stage
    BY <1>6 DEF Stage
  <2> QED
    BY <1>1, <2>1 DEF BudgetInv
<1>7. CASE pc' = pc /\ out' = out - 1 /\ UNCHANGED errors
  <2>1. /\ out' <= out + (-1)
        /\ errors'["reader"] <= errors["reader"] + 0
        /\ errors'["encoder"] <= errors["encoder"] + 0
    BY <1>1, <1>7 DEF BudgetInv
  <2>2. PairCost' <= PairCost + (7 * 0 + 4 * 0 + (-1) + 0 + 0 + 0 + 0)
    BY <1>1, <1>2, <1>4, <2>1, PairDrops, Integers, Zenon
  <2>3. PairCost' <= PairCost + (-1)
    BY <2>2
  <2> QED
    BY <1>1, <1>2, <1>3, <1>5, <1>6, <1>7, <2>3, CostDrops, Integers, Zenon
<1>8. CASE pc' = pc /\ UNCHANGED out /\ errors' = [errors EXCEPT !["encoder"] = @ - 1]
  <2>1. errors'["reader"] = errors["reader"] /\ errors'["encoder"] = errors["encoder"] - 1
    BY <1>8 DEF PipeInv, TranscoderTypeOK, Process
  <2>2. /\ out' <= out + 0
        /\ errors'["reader"] <= errors["reader"] + 0
        /\ errors'["encoder"] <= errors["encoder"] + (-1)
    BY <1>1, <1>8, <2>1 DEF BudgetInv
  <2>3. PairCost' <= PairCost + (7 * 0 + 4 * 0 + 0 + 0 + (-1) + 0 + 0)
    BY <1>1, <1>2, <1>4, <2>2, PairDrops, Integers, Zenon
  <2>4. PairCost' <= PairCost + (-1)
    BY <2>3
  <2> QED
    BY <1>1, <1>2, <1>3, <1>5, <1>6, <1>8, <2>4, CostDrops, Integers, Zenon
<1>9. CASE pc = "drain" /\ pc' = "wait" /\ UNCHANGED <<out, errors>>
  <2>1. Stage' <= Stage + (-1)
    <3>1. Stage = 4 /\ Stage' = 3
      BY <1>9 DEF Stage
    <3> QED
      BY <3>1
  <2>2. PairCost' <= PairCost + 0
    <3>1. UNCHANGED <<proc, raw, decoded, out, errors, upset>>
      BY <1>9 DEF Communicate
    <3> QED
      BY <3>1, PairStays
  <2> QED
    BY <1>1, <1>2, <1>3, <1>5, <2>1, <2>2, CostDrops, Integers, Zenon
<1> QED
  BY <1>7, <1>8, <1>9 DEF Communicate

(* SavePays: one file less is to be written.                                 *)
LEMMA SavePays ==
  ASSUME PipeInv, PipeInv', Save, ~RaiseAt("save")
  PROVE  Cost' >= 0 /\ Cost' < Cost
<1>1. BudgetInv
  BY CostsAreNat
<1>2. BudgetInv'
  BY CostsAreNat, PTL
<1>3. PairCost' <= PairCost + 0
  <2>1. UNCHANGED <<proc, raw, decoded, out, errors, upset>>
    BY DEF Save, pipeVars
  <2> QED
    BY <2>1, PairStays
<1>4. Stage' <= Stage + 0
  BY DEF Save, Stage
<1>5. RenditionsCost' <= RenditionsCost + 0
  <2>1. RenditionsCost' = RenditionsCost
    BY DEF Save, RenditionsCost, Done
  <2> QED
    BY <1>1, <2>1 DEF BudgetInv
<1>6. FilesCost' <= FilesCost + (-1)
  <2>1. saved \in Nat /\ saved' = saved + 1
    BY TranscoderAssumption DEF Save, PipeInv, TranscoderTypeOK
  <2> QED
    BY <2>1, TranscoderAssumption DEF FilesCost
<1>7. 0 + 0 + 0 + (-1) < 0
  OBVIOUS
<1> QED
  BY <1>1, <1>2, <1>3, <1>4, <1>5, <1>6, <1>7, CostDrops, Integers, Zenon

(* WaitPays: the next pair is paid for by the rendition that is done.        *)
LEMMA WaitPays ==
  ASSUME PipeInv, PipeInv', Wait
  PROVE  Cost' >= 0 /\ Cost' < Cost
<1>1. BudgetInv
  BY CostsAreNat
<1>2. BudgetInv'
  BY CostsAreNat, PTL
<1>3. PairCost' <= PairCost + 0
  <2>1. UNCHANGED <<proc, raw, decoded, out, errors, upset>>
    BY DEF Wait, pipeVars
  <2> QED
    BY <2>1, PairStays
<1>4. FilesCost' <= FilesCost + 0
  <2>1. FilesCost' = FilesCost
    BY DEF Wait, FilesCost
  <2> QED
    BY <1>1, <2>1 DEF BudgetInv
<1>5. PICK t \in Nat : t = Total
  BY TotalIsNat
<1>6. CASE ~BothOk
  <2>1. Stage' <= Stage + (-2)
    <3>1. Stage = 3 /\ Stage' = 1
      BY <1>6 DEF Wait, Stage
    <3> QED
      BY <3>1
  <2>2. RenditionsCost' <= RenditionsCost + 0
    <3>1. RenditionsCost' = RenditionsCost
      BY <1>6 DEF Wait, RenditionsCost, Done
    <3> QED
      BY <1>1, <3>1 DEF BudgetInv
  <2>3. 0 + (-2) + 0 + 0 < 0
    OBVIOUS
  <2> QED
    BY <1>1, <1>2, <1>3, <1>4, <2>1, <2>2, <2>3, CostDrops, Integers, Zenon
<1>7. CASE BothOk
  <2>1. PICK n \in 1..NumRenditions :
          /\ Done = 1..(n - 1)
          /\ results' = [k \in 1..n |-> IF k = n THEN taken ELSE results[k]]
          /\ pc' \in {"save", "reader"}
    BY <1>7 DEF Wait
  <2>2. Stage' <= Stage + (7 * t + 8)
    <3>1. Stage = 3 /\ (Stage' = 2 \/ Stage' = 7 * t + 11)
      BY <1>5, <2>1 DEF Wait, Stage
    <3> QED
      BY <3>1
  <2>3. Cardinality(Done) = n - 1
    BY <2>1, CountDone
  <2>4. Cardinality(Done') = n
    <3>1. Done' = 1..n
      BY <2>1 DEF Done
    <3> QED
      BY <3>1, FS_Interval
  <2>5. RenditionsCost' <= RenditionsCost + (-7 * t - 9)
    <3>1. PICK r \in Int : r = NumRenditions - n
      BY TranscoderAssumption
    <3>2. RenditionsCost' = r * (7 * t + 9)
      BY <1>5, <2>4, <3>1 DEF RenditionsCost, Total
    <3>3. RenditionsCost = (r + 1) * (7 * t + 9)
      <4>1. NumRenditions - (n - 1) = r + 1
        BY <3>1, TranscoderAssumption
      <4> QED
        BY <1>5, <2>3, <4>1 DEF RenditionsCost
    <3>4. \A a, b \in Int : (a + 1) * b = a * b + b /\ a * b \in Int
      OBVIOUS
    <3>5. PICK p \in Int : p = r * (7 * t + 9) /\ (r + 1) * (7 * t + 9) = p + (7 * t + 9)
      BY <3>4
    <3> QED
      BY <3>2, <3>3, <3>5
  <2>6. /\ (-7 * t - 9) + (7 * t + 8) + 0 + 0 < 0
        /\ -7 * t - 9 \in Int /\ 7 * t + 8 \in Int
    OBVIOUS
  <2> QED
    BY <1>1, <1>2, <1>3, <1>4, <2>2, <2>5, <2>6, CostDrops, Integers, Zenon
<1> QED
  BY <1>6, <1>7

(* ProcessesPay: a unit of raw video is decoded, encoded and read, or a      *)
(* process writes its message or ends.                                      *)
LEMMA ProcessesPay ==
  ASSUME PipeInv, PipeInv',
         \/ Decode \/ DecodeEnds \/ Encode \/ EncodeEnds
         \/ \E p \in Process : Complain(p) \/ Die(p)
  PROVE  Cost' >= 0 /\ Cost' < Cost
<1>1. BudgetInv
  BY CostsAreNat
<1>2. BudgetInv'
  BY CostsAreNat, PTL
<1>3. RenditionsCost' <= RenditionsCost + 0 /\ FilesCost' <= FilesCost + 0
  <2>1. UNCHANGED fileVars
    BY DEF Decode, DecodeEnds, Encode, EncodeEnds, Complain, Die
  <2> QED
    BY <1>1, <2>1, FilesStay
<1>4. Stage' <= Stage + 0
  <2>1. Stage' = Stage
    BY DEF Decode, DecodeEnds, Encode, EncodeEnds, Complain, Die, Stage, Total
  <2> QED
    BY <1>1, <2>1 DEF BudgetInv
<1>5. 0 + 0 + (-1) + 0 < 0
  OBVIOUS
<1>6. SUFFICES PairCost' <= PairCost + (-1)
  BY <1>1, <1>2, <1>3, <1>4, <1>5, CostDrops, Integers, Zenon
<1>7. /\ decoded \in Nat /\ Total \in Nat
      /\ proc \in [Process -> {"none", "running", "ok", "bad"}]
      /\ errors \in [Process -> 0..PipeSize]
  BY TotalIsNat DEF PipeInv, TranscoderTypeOK
<1> USE DEF Running
<1>8. CASE UNCHANGED <<decoded, raw, out, errors>>
  <2>1. /\ Total - decoded' = Total - decoded + 0 /\ raw' = raw + 0 /\ out' <= out + 0
        /\ errors'["reader"] <= errors["reader"] + 0
        /\ errors'["encoder"] <= errors["encoder"] + 0
    BY <1>1, <1>8 DEF BudgetInv
  <2>2. CASE DecodeEnds \/ (Decode /\ ends = {}) \/ Die("reader")
             \/ (Complain("reader") /\ UNCHANGED errors)
    <3>1. ProcessCost("reader")' <= ProcessCost("reader") + (-1)
      BY <1>7, <2>2 DEF DecodeEnds, Decode, GoesOn, Die, Complain, ProcessCost, Process
    <3>2. ProcessCost("encoder")' <= ProcessCost("encoder") + 0
      <4>1. ProcessCost("encoder")' = ProcessCost("encoder")
        BY <1>7, <2>2 DEF DecodeEnds, Decode, GoesOn, Die, Complain, ProcessCost, Process
      <4> QED
        BY <1>1, <4>1 DEF BudgetInv
    <3>3. PairCost' <= PairCost + (7 * 0 + 4 * 0 + 0 + 0 + 0 + (-1) + 0)
      BY <1>1, <1>2, <2>1, <3>1, <3>2, PairDrops, Integers, Zenon
    <3> QED
      BY <3>3
  <2>3. CASE EncodeEnds \/ Die("encoder") \/ (Complain("encoder") /\ UNCHANGED errors)
    <3>1. ProcessCost("encoder")' <= ProcessCost("encoder") + (-1)
      BY <1>7, <2>3 DEF EncodeEnds, Die, Complain, ProcessCost, Process
    <3>2. ProcessCost("reader")' <= ProcessCost("reader") + 0
      <4>1. ProcessCost("reader")' = ProcessCost("reader")
        BY <1>7, <2>3 DEF EncodeEnds, Die, Complain, ProcessCost, Process
      <4> QED
        BY <1>1, <4>1 DEF BudgetInv
    <3>3. PairCost' <= PairCost + (7 * 0 + 4 * 0 + 0 + 0 + 0 + 0 + (-1))
      BY <1>1, <1>2, <2>1, <3>1, <3>2, PairDrops, Integers, Zenon
    <3> QED
      BY <3>3
  <2>4. ~Encode /\ (Decode => ends = {})
    <3>1. raw \in Nat
      BY <1>1 DEF BudgetInv
    <3> QED
      BY <1>8, <3>1 DEF Encode, Decode
  <2> QED
    BY <1>8, <2>2, <2>3, <2>4 DEF Process
<1>9. CASE Decode /\ ends # {}
  <2>1. decoded' = decoded + 1 /\ raw' = raw + 1 /\ UNCHANGED <<out, errors, proc>>
    BY <1>9 DEF Decode
  <2>2. /\ Total - decoded' = Total - decoded + (-1) /\ raw' = raw + 1 /\ out' <= out + 0
        /\ errors'["reader"] <= errors["reader"] + 0
        /\ errors'["encoder"] <= errors["encoder"] + 0
    BY <1>1, <1>7, <2>1 DEF BudgetInv
  <2>3. /\ ProcessCost("reader")' <= ProcessCost("reader") + 2
        /\ ProcessCost("encoder")' <= ProcessCost("encoder") + 0
    BY <1>9, <2>1 DEF Decode, GoesOn, ProcessCost
  <2>4. PairCost' <= PairCost + (7 * (-1) + 4 * 1 + 0 + 0 + 0 + 2 + 0)
    BY <1>1, <1>2, <2>2, <2>3, PairDrops, Integers, Zenon
  <2> QED
    BY <2>4
<1>10. CASE Encode
  <2>1. raw' = raw - 1 /\ UNCHANGED <<decoded, errors, proc>> /\ out' \in {out, out + 1}
    BY <1>10 DEF Encode
  <2>2. /\ Total - decoded' = Total - decoded + 0 /\ raw' = raw + (-1) /\ out' <= out + 1
        /\ errors'["reader"] <= errors["reader"] + 0
        /\ errors'["encoder"] <= errors["encoder"] + 0
    BY <1>1, <2>1 DEF BudgetInv
  <2>3. /\ ProcessCost("reader")' <= ProcessCost("reader") + 0
        /\ ProcessCost("encoder")' <= ProcessCost("encoder") + 2
    BY <1>10, <2>1 DEF Encode, GoesOn, ProcessCost
  <2>4. PairCost' <= PairCost + (7 * 0 + 4 * (-1) + 1 + 0 + 0 + 0 + 2)
    BY <1>1, <1>2, <2>2, <2>3, PairDrops, Integers, Zenon
  <2> QED
    BY <2>4
<1>11. CASE Complain("reader") /\ errors' = [errors EXCEPT !["reader"] = @ + 1]
  <2>1. UNCHANGED <<decoded, raw, out, proc>>
    BY <1>11 DEF Complain
  <2>2. errors'["reader"] = errors["reader"] + 1 /\ errors'["encoder"] = errors["encoder"]
    BY <1>7, <1>11 DEF Process
  <2>3. /\ Total - decoded' = Total - decoded + 0 /\ raw' = raw + 0 /\ out' <= out + 0
        /\ errors'["reader"] <= errors["reader"] + 1
        /\ errors'["encoder"] <= errors["encoder"] + 0
    BY <1>1, <2>1, <2>2 DEF BudgetInv
  <2>4. /\ ProcessCost("reader")' <= ProcessCost("reader") + (-2)
        /\ ProcessCost("encoder")' <= ProcessCost("encoder") + 0
    BY <1>11, <2>1 DEF Complain, ProcessCost
  <2>5. PairCost' <= PairCost + (7 * 0 + 4 * 0 + 0 + 1 + 0 + (-2) + 0)
    BY <1>1, <1>2, <2>3, <2>4, PairDrops, Integers, Zenon
  <2> QED
    BY <2>5
<1>12. CASE Complain("encoder") /\ errors' = [errors EXCEPT !["encoder"] = @ + 1]
  <2>1. UNCHANGED <<decoded, raw, out, proc>>
    BY <1>12 DEF Complain
  <2>2. errors'["encoder"] = errors["encoder"] + 1 /\ errors'["reader"] = errors["reader"]
    BY <1>7, <1>12 DEF Process
  <2>3. /\ Total - decoded' = Total - decoded + 0 /\ raw' = raw + 0 /\ out' <= out + 0
        /\ errors'["reader"] <= errors["reader"] + 0
        /\ errors'["encoder"] <= errors["encoder"] + 1
    BY <1>1, <2>1, <2>2 DEF BudgetInv
  <2>4. /\ ProcessCost("reader")' <= ProcessCost("reader") + 0
        /\ ProcessCost("encoder")' <= ProcessCost("encoder") + (-2)
    BY <1>12, <2>1 DEF Complain, ProcessCost
  <2>5. PairCost' <= PairCost + (7 * 0 + 4 * 0 + 0 + 0 + 1 + 0 + (-2))
    BY <1>1, <1>2, <2>3, <2>4, PairDrops, Integers, Zenon
  <2> QED
    BY <2>5
<1> QED
  <2>1. CASE \E p \in Process : Die(p)
    BY <1>8, <2>1 DEF Die
  <2>2. CASE \E p \in Process : Complain(p)
    BY <1>8, <1>11, <1>12, <2>2 DEF Complain, Process
  <2>3. CASE Decode \/ DecodeEnds \/ Encode \/ EncodeEnds
    BY <1>8, <1>9, <1>10, <2>3 DEF Decode, DecodeEnds, EncodeEnds
  <2> QED
    BY <2>1, <2>2, <2>3

(* EveryStepPays: of the worker or of a process, whatever the scheduling.    *)
LEMMA EveryStepPays ==
  PipeInv /\ PipeInv' /\ [Next]_vars => [Cost' >= 0 /\ Cost' < Cost]_vars
<1> SUFFICES ASSUME PipeInv, PipeInv', Next PROVE Cost' >= 0 /\ Cost' < Cost
  OBVIOUS
<1>1. CASE WorkerStep
  BY <1>1, StartPays, CommunicatePays, WaitPays, SavePays DEF WorkerStep
<1>2. CASE ReaderStep \/ EncoderStep \/ \E p \in Process : Die(p)
  BY <1>2, ProcessesPay DEF ReaderStep, EncoderStep, Process
<1> QED
  BY <1>1, <1>2 DEF Next

(* EveryStepCosts: with any number of renditions and frames, each of any      *)
(* size, every step of run_transcoder and of its ffmpeg processes uses up   *)
(* some of a finite budget: no run is endless. As NobodyWaitsForEver says   *)
(* where a run may stop, the two together leave of RunEnds only the         *)
(* fairness.                                                                *)
THEOREM EveryRunIsFinite == Spec => EveryStepCosts
<1>1. PipeInv /\ [Next]_vars => PipeInv'
  BY PipeInductive
<1>2. Spec => [][Cost' >= 0 /\ Cost' < Cost]_vars
  BY <1>1, InitPipe, EveryStepPays, PTL DEF Spec
<1> QED
  BY <1>2 DEF EveryStepCosts

=============================================================================
