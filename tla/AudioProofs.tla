---------------------------- MODULE AudioProofs ----------------------------
(***************************************************************************)
(* Proofs about the microphone's files: what AudioControlProofs shows      *)
(* holds of the whole, every frame captured before the stop is kept, and a *)
(* file that was acked gets no more frames.                                *)
(***************************************************************************)
EXTENDS Audio, AudioControlProofs

\* The whole behaves, on the side of the controls, as AudioControl allows.
LEMMA ControlSide == [Next]_vars => [ControlNext]_controlVars
<1> SUFFICES ASSUME [Next]_vars PROVE [ControlNext]_controlVars
  OBVIOUS
<1>1. CASE Control
  BY <1>1 DEF Control, ControlNext
<1>2. CASE Capture
  BY <1>2 DEF Capture, ControlNext
<1>3. CASE FlushStep
  BY <1>3 DEF FlushStep, FlushWakes, FlushRotates, FlushWrites
<1>4. CASE TapeStep
  BY <1>4 DEF TapeStep, FlushJoined, LastRotation, LastFrames, FinalAck,
              CloseFile
<1>5. CASE VideoStep
  BY <1>5 DEF VideoStep, FirstFrame, RotateVideo, CloseVideo, EndChunk
<1>6. CASE ReaderStep
  BY <1>6 DEF ReaderStep, TakeChunk, TakeAck, WaitTimesOut
<1>7. CASE UNCHANGED vars
  BY <1>7 DEF vars
<1> QED BY <1>1, <1>2, <1>3, <1>4, <1>5, <1>6, <1>7 DEF Next

\* Files, rotation and reading leave the controls to themselves: Audio
\* implements AudioControl, so each of its properties holds here.
THEOREM ImplementsControl == Spec => ControlSpec
<1>1. Init => ControlInit
  BY DEF Init
<1> QED BY <1>1, ControlSide, PTL DEF Spec, ControlSpec

-----------------------------------------------------------------------------
(* Types.                                                                  *)

Rotations == [idx : Chunks, final : BOOLEAN]
Videos == [writer : BOOLEAN, idx : Chunks, since : Times, ended : BOOLEAN]
Tapes == [buffer : Seq(Frames), file : [Chunks -> Seq(Frames)],
          idx : Chunks, writer : BOOLEAN, finalized : BOOLEAN]
Procs == [job : Seq(Jobs), read : [Chunks -> {"no", "acked", "timeout"}],
          torn : SUBSET Chunks, text : [Chunks -> SUBSET Frames]]

FilesTyped ==
  /\ tape \in Tapes
  /\ flush \in {"waiting", "rotating", "ended"}
  /\ ending \in {"join", "remaining", "ack", "close", "done"}
  /\ rotQ \in Seq(Rotations) /\ ackQ \in Seq(Rotations)
  /\ video \in Videos
  /\ procQ \in Seq(Jobs)
  /\ proc \in Procs

\* The rotations that wait are of successive chunks from the current one, and
\* only the last is final.
RotationsInOrder ==
  /\ \A i \in DOMAIN rotQ :
       /\ tape.idx <= rotQ[i].idx
       /\ IF rotQ[i].final THEN video.ended /\ i = Len(rotQ)
                           ELSE rotQ[i].idx < video.idx
       /\ \A j \in DOMAIN rotQ : i < j => rotQ[i].idx < rotQ[j].idx
       /\ rotQ[i].idx <= video.idx
  /\ tape.idx <= video.idx
  /\ tape.finalized => video.ended /\ rotQ = <<>>

LEMMA WrittenIs ==
  ASSUME tape \in Tapes
  PROVE  /\ Written \in Tapes
         /\ Written.buffer = <<>>
         /\ Written.idx = tape.idx /\ Written.finalized = tape.finalized
         /\ \A k \in Chunks : k # tape.idx => Written.file[k] = tape.file[k]
         /\ Written.file[tape.idx] = tape.file[tape.idx] \o tape.buffer
<1>1. tape.file[tape.idx] \o tape.buffer \in Seq(Frames)
  BY DEF Tapes
<1>2. <<>> \in Seq(Frames)
  OBVIOUS
<1> QED BY <1>1, <1>2 DEF Tapes, Written

LEMMA RotateIs ==
  ASSUME FilesTyped, RotationsInOrder, Rotate
  PROVE  /\ tape' \in Tapes
         /\ tape'.buffer = <<>> /\ tape'.file = Written.file
         /\ ~tape.finalized
         /\ rotQ' = Tail(rotQ) /\ rotQ # <<>>
         /\ Head(rotQ) \in Rotations /\ Head(rotQ) = rotQ[1]
         /\ ackQ' = Append(ackQ, [final |-> FALSE, idx |-> tape.idx])
         /\ tape'.finalized = Head(rotQ).final
         /\ IF Head(rotQ).final THEN tape'.idx = tape.idx
                                ELSE tape'.idx = Head(rotQ).idx + 1
<1> USE AudioAssumption
<1>1. /\ rotQ # <<>> /\ rotQ' = Tail(rotQ) /\ tape \in Tapes
      /\ rotQ \in Seq(Rotations)
      /\ ackQ' = Append(ackQ, [final |-> FALSE, idx |-> tape.idx])
      /\ video.idx \in Chunks
  BY DEF Rotate, FilesTyped, Videos
<1>2. Head(rotQ) \in Rotations /\ Head(rotQ) = rotQ[1] /\ 1 \in DOMAIN rotQ
  BY <1>1, HeadIs, QueueIs
<1>3. ~tape.finalized
  BY <1>1 DEF RotationsInOrder
<1>4. ~Head(rotQ).final => Head(rotQ).idx + 1 \in Chunks
  BY <1>1, <1>2 DEF RotationsInOrder, Chunks, Rotations
<1>5. /\ Written \in Tapes /\ Written.buffer = <<>>
      /\ Written.idx = tape.idx /\ Written.finalized = tape.finalized
  BY <1>1, WrittenIs
<1> HIDE DEF Written
<1>6. tape' = [Written EXCEPT
                !.writer = FALSE,
                !.finalized = @ \/ Head(rotQ).final,
                !.idx = IF Head(rotQ).final THEN @ ELSE Head(rotQ).idx + 1]
  BY DEF Rotate
<1>7. Head(rotQ).final \in BOOLEAN /\ Head(rotQ).idx \in Chunks
  BY <1>2 DEF Rotations
<1>8. (Written.finalized \/ Head(rotQ).final) = Head(rotQ).final
  BY <1>1, <1>3, <1>5, <1>7
<1>9. (IF Head(rotQ).final THEN Written.idx ELSE Head(rotQ).idx + 1) \in Chunks
  BY <1>1, <1>4, <1>5 DEF Tapes
<1>10. tape' \in Tapes
  BY <1>5, <1>6, <1>7, <1>8, <1>9 DEF Tapes
<1>11. /\ tape'.buffer = Written.buffer /\ tape'.file = Written.file
       /\ tape'.finalized = Head(rotQ).final
       /\ tape'.idx = IF Head(rotQ).final THEN Written.idx
                                          ELSE Head(rotQ).idx + 1
  BY <1>5, <1>6, <1>8 DEF Tapes
<1> QED BY <1>1, <1>2, <1>3, <1>5, <1>10, <1>11

LEMMA TranscribeIs ==
  ASSUME FilesTyped, proc.job # <<>>, NEW how \in {"acked", "timeout"},
         Transcribe(how)
  PROVE  /\ proc' \in Procs
         /\ proc'.read = [proc.read EXCEPT ![proc.job[1].idx] = how]
<1>1. proc \in Procs /\ tape \in Tapes
  BY DEF FilesTyped
<1>2. proc.job[1] \in Jobs
  <2> DEFINE q == proc.job
  <2>1. q \in Seq(Jobs) /\ q # <<>>
    BY <1>1 DEF Procs
  <2> HIDE DEF q
  <2>2. Head(q) \in Jobs /\ Head(q) = q[1]
    BY <2>1, HeadIs
  <2> QED BY <2>2 DEF q
<1> DEFINE job == proc.job[1]
           file == tape.file[job.idx]
           words == {file[i] : i \in {j \in DOMAIN file :
                                        ~Dropped(j, job.from, job.to)}}
           tears == IF tape.writer /\ tape.idx = job.idx
                      THEN proc.torn \cup {job.idx} ELSE proc.torn
<1>3. job.idx \in Chunks
  BY <1>2 DEF Jobs
<1>4. words \subseteq Frames
  <2>1. file \in Seq(Frames)
    BY <1>1, <1>3 DEF Tapes
  <2>2. \A i \in DOMAIN file : file[i] \in Frames
    BY <2>1, QueueIs
  <2> HIDE DEF file
  <2> QED BY <2>2
<1>5. tears \in SUBSET Chunks
  BY <1>1, <1>3 DEF Procs
<1>6. proc' = [proc EXCEPT !.job = <<>>, !.read[job.idx] = how,
                           !.torn = tears, !.text[job.idx] = words]
  BY DEF Transcribe
<1> DEFINE k == job.idx
<1>7. k \in Chunks /\ k = proc.job[1].idx /\ <<>> \in Seq(Jobs)
  BY <1>3
<1>8. proc' = [proc EXCEPT !.job = <<>>, !.read[k] = how,
                           !.torn = tears, !.text[k] = words]
  BY <1>6
<1>9. /\ [proc.read EXCEPT ![k] = how] \in [Chunks -> {"no", "acked", "timeout"}]
      /\ words \in SUBSET Frames
      /\ [proc.text EXCEPT ![k] = words] \in [Chunks -> SUBSET Frames]
  BY <1>1, <1>4, <1>7 DEF Procs
<1> HIDE DEF words, tears, k
<1>10. proc' \in Procs
  BY <1>1, <1>5, <1>7, <1>8, <1>9 DEF Procs
<1>11. proc'.read = [proc.read EXCEPT ![k] = how]
  BY <1>1, <1>8 DEF Procs
<1> QED BY <1>7, <1>10, <1>11
LEMMA FilesInit == Init => FilesTyped /\ RotationsInOrder
<1> SUFFICES ASSUME Init PROVE FilesTyped /\ RotationsInOrder
  OBVIOUS
<1> USE AudioAssumption, ControlAssumption
<1>1. 0 \in Chunks /\ 0 \in Times
  BY DEF Chunks, Times
<1>2. /\ <<>> \in Seq(Frames) /\ <<>> \in Seq(Jobs)
      /\ <<>> \in Seq(Rotations)
  OBVIOUS
<1>3. tape \in Tapes /\ proc \in Procs
  BY <1>1, <1>2 DEF Init, Tapes, Procs
<1>4. /\ rotQ = <<>> /\ ackQ = <<>> /\ procQ = <<>>
      /\ flush = "waiting" /\ ending = "join"
      /\ video = [writer |-> FALSE, idx |-> 0, since |-> 0, ended |-> FALSE]
      /\ tape.idx = 0 /\ ~tape.finalized
  BY DEF Init
<1> QED BY <1>1, <1>2, <1>3, <1>4 DEF FilesTyped, RotationsInOrder, Videos

\* What an end of a chunk appends keeps the rotations in order.
LEMMA EndChunkIs ==
  ASSUME ControlTyped, FilesTyped, RotationsInOrder, NEW final \in BOOLEAN,
         EndChunk(final), ~video.ended,
         video' \in Videos,
         video'.ended = final,
         final => video'.idx = video.idx,
         ~final => video'.idx = video.idx + 1
  PROVE  FilesTyped' /\ RotationsInOrder'
<1> DEFINE m == [idx |-> video.idx, final |-> final]
           job == [idx |-> video.idx, final |-> final,
                   from |-> video.since, to |-> now]
<1>1. /\ rotQ \in Seq(Rotations) /\ procQ \in Seq(Jobs)
      /\ video.idx \in Chunks /\ video.since \in Times /\ now \in Times
      /\ tape.idx \in Chunks
  BY DEF FilesTyped, ControlTyped, ControlTypeOK, Tapes, Videos
<1>2. m \in Rotations /\ job \in Jobs /\ m.idx = video.idx /\ m.final = final
  BY <1>1 DEF Rotations, Jobs
<1>3. /\ rotQ' = Append(rotQ, m) /\ procQ' = Append(procQ, job)
      /\ UNCHANGED <<flush, ending, tape, ackQ, proc>>
  BY DEF EndChunk, threads
<1> HIDE DEF m, job
<1>4. procQ' \in Seq(Jobs)
  BY <1>1, <1>2, <1>3, AppendIs
<1>5. /\ rotQ' \in Seq(Rotations)
      /\ Len(rotQ) \in Nat /\ Len(rotQ') = Len(rotQ) + 1
      /\ \A i \in 1 .. Len(rotQ) : rotQ'[i] = rotQ[i]
      /\ rotQ'[Len(rotQ) + 1] = m
  BY <1>1, <1>2, <1>3, AppendIs
<1>6. DOMAIN rotQ = 1 .. Len(rotQ) /\ DOMAIN rotQ' = 1 .. Len(rotQ) + 1
  BY <1>1, <1>5, QueueIs
<1>7. FilesTyped'
  BY <1>3, <1>4, <1>5 DEF FilesTyped
<1>8. \A i \in DOMAIN rotQ :
        /\ rotQ[i] \in Rotations
        /\ tape.idx <= rotQ[i].idx /\ rotQ[i].idx < video.idx
        /\ ~rotQ[i].final
        /\ \A j \in DOMAIN rotQ : i < j => rotQ[i].idx < rotQ[j].idx
  BY <1>1, QueueIs DEF RotationsInOrder
<1>9. tape.idx <= video.idx /\ ~tape.finalized /\ video.idx \in Int
  BY <1>1 DEF RotationsInOrder, Chunks
<1>10. ASSUME NEW i \in DOMAIN rotQ'
       PROVE  /\ tape.idx <= rotQ'[i].idx
              /\ IF rotQ'[i].final THEN video'.ended /\ i = Len(rotQ')
                                   ELSE rotQ'[i].idx < video'.idx
              /\ \A j \in DOMAIN rotQ' : i < j => rotQ'[i].idx < rotQ'[j].idx
              /\ rotQ'[i].idx <= video'.idx
  <2>1. CASE i \in DOMAIN rotQ
    <3>1. rotQ'[i] = rotQ[i] /\ rotQ[i].idx \in Int
      BY <1>5, <1>6, <1>8, <2>1 DEF Rotations, Chunks
    <3>2. ASSUME NEW j \in DOMAIN rotQ', i < j
          PROVE  rotQ'[i].idx < rotQ'[j].idx
      <4>1. CASE j \in DOMAIN rotQ
        BY <1>5, <1>6, <1>8, <2>1, <3>1, <3>2, <4>1
      <4>2. CASE j = Len(rotQ) + 1
        BY <1>2, <1>5, <1>8, <2>1, <3>1, <4>2
      <4> QED BY <1>6, <3>2, <4>1, <4>2
    <3>3. rotQ'[i].idx < video'.idx
      BY <1>8, <1>9, <2>1, <3>1
    <3> QED BY <1>8, <1>9, <2>1, <3>1, <3>2, <3>3
  <2>2. CASE i = Len(rotQ) + 1
    BY <1>2, <1>5, <1>6, <1>9, <2>2
  <2> QED BY <1>5, <1>6, <1>10, <2>1, <2>2
<1>11. tape.idx <= video'.idx
  BY <1>1, <1>9 DEF Chunks
<1> QED BY <1>3, <1>7, <1>9, <1>10, <1>11 DEF RotationsInOrder

\* And so does what a rotation takes from them.
LEMMA RotateKeeps ==
  ASSUME FilesTyped, RotationsInOrder, Rotate,
         flush' \in {"waiting", "rotating", "ended"}, ending' = ending,
         UNCHANGED <<video, reader>>
  PROVE  FilesTyped' /\ RotationsInOrder'
<1>1. /\ rotQ \in Seq(Rotations) /\ ackQ \in Seq(Rotations)
      /\ tape.idx \in Chunks
  BY DEF FilesTyped, Tapes
<1>2. /\ tape' \in Tapes /\ rotQ' = Tail(rotQ) /\ rotQ # <<>>
      /\ ackQ' = Append(ackQ, [final |-> FALSE, idx |-> tape.idx])
      /\ Head(rotQ) \in Rotations /\ Head(rotQ) = rotQ[1]
      /\ tape'.finalized = Head(rotQ).final
      /\ IF Head(rotQ).final THEN tape'.idx = tape.idx
                             ELSE tape'.idx = Head(rotQ).idx + 1
  BY RotateIs
<1>3. /\ rotQ' \in Seq(Rotations)
      /\ Len(rotQ') = Len(rotQ) - 1 /\ Len(rotQ) \in Nat \ {0}
      /\ \A i \in 1 .. Len(rotQ) - 1 : rotQ'[i] = rotQ[i + 1]
  BY <1>1, <1>2, HeadIs
<1>4. DOMAIN rotQ = 1 .. Len(rotQ) /\ DOMAIN rotQ' = 1 .. Len(rotQ) - 1
      /\ \A i \in DOMAIN rotQ : rotQ[i] \in Rotations
  BY <1>1, <1>3, QueueIs
<1>5. ackQ' \in Seq(Rotations)
  <2>1. [final |-> FALSE, idx |-> tape.idx] \in Rotations
    BY <1>1 DEF Rotations
  <2> QED BY <1>1, <1>2, <2>1, AppendIs
<1>6. FilesTyped'
  BY <1>2, <1>3, <1>5 DEF FilesTyped, reader
<1>7. \A i \in DOMAIN rotQ : rotQ[i].idx \in Int /\ rotQ[i].final \in BOOLEAN
  BY <1>4 DEF Rotations, Chunks
<1>8. /\ tape.idx <= video.idx
      /\ Head(rotQ).final => video.ended /\ Len(rotQ) = 1
      /\ ~Head(rotQ).final => Head(rotQ).idx < video.idx
      /\ tape.idx <= Head(rotQ).idx
      /\ video.idx \in Int /\ tape.idx \in Int /\ Head(rotQ).idx \in Int
  <2>1. 1 \in DOMAIN rotQ
    BY <1>3, <1>4
  <2>2. video.idx \in Int /\ tape.idx \in Int
    BY <1>1 DEF FilesTyped, Chunks, Videos
  <2> QED BY <1>2, <1>7, <2>1, <2>2 DEF RotationsInOrder
<1>9. ASSUME NEW i \in DOMAIN rotQ'
      PROVE  /\ tape'.idx <= rotQ'[i].idx
             /\ IF rotQ'[i].final THEN video.ended /\ i = Len(rotQ')
                                  ELSE rotQ'[i].idx < video.idx
             /\ \A j \in DOMAIN rotQ' : i < j => rotQ'[i].idx < rotQ'[j].idx
             /\ rotQ'[i].idx <= video.idx
  <2>1. /\ i + 1 \in DOMAIN rotQ /\ rotQ'[i] = rotQ[i + 1]
        /\ 1 \in DOMAIN rotQ /\ 1 < i + 1
    BY <1>3, <1>4, <1>9
  <2>2. rotQ[1].idx < rotQ[i + 1].idx
    BY <2>1 DEF RotationsInOrder
  <2>3. ~Head(rotQ).final
    BY <1>3, <1>4, <1>8, <2>1
  <2>4. tape'.idx <= rotQ'[i].idx
    BY <1>2, <1>7, <1>8, <2>1, <2>2, <2>3
  <2>5. IF rotQ'[i].final THEN video.ended /\ i = Len(rotQ')
                          ELSE rotQ'[i].idx < video.idx
    BY <1>3, <1>4, <2>1 DEF RotationsInOrder
  <2>6. ASSUME NEW j \in DOMAIN rotQ', i < j
        PROVE  rotQ'[i].idx < rotQ'[j].idx
    <3>1. /\ j + 1 \in DOMAIN rotQ /\ rotQ'[j] = rotQ[j + 1]
          /\ i + 1 < j + 1
      BY <1>3, <1>4, <2>6
    <3> QED BY <2>1, <3>1 DEF RotationsInOrder
  <2>7. rotQ'[i].idx <= video.idx
    BY <2>1 DEF RotationsInOrder
  <2> QED BY <2>4, <2>5, <2>6, <2>7
<1>10. tape'.idx <= video.idx
  BY <1>2, <1>8
<1>11. tape'.finalized => video.ended /\ rotQ' = <<>>
  <2>1. SUFFICES ASSUME tape'.finalized PROVE video.ended /\ Len(rotQ') = 0
    BY <1>3
  <2> QED BY <1>2, <1>3, <1>8, <2>1
<1> QED BY <1>6, <1>9, <1>10, <1>11 DEF RotationsInOrder
\* A step that leaves the rotations and the current chunk alone.
LEMMA OrderKept ==
  ASSUME RotationsInOrder, UNCHANGED <<rotQ, video>>,
         tape'.idx = tape.idx, tape'.finalized = tape.finalized
  PROVE  RotationsInOrder'
BY DEF RotationsInOrder

LEMMA FilesStep ==
  ControlTyped /\ FilesTyped /\ RotationsInOrder /\ [Next]_vars
    => FilesTyped' /\ RotationsInOrder'
<1> SUFFICES ASSUME ControlTyped, FilesTyped, RotationsInOrder, [Next]_vars
             PROVE  FilesTyped' /\ RotationsInOrder'
  OBVIOUS
<1> USE AudioAssumption, ControlAssumption
<1>0. /\ tape \in Tapes /\ rotQ \in Seq(Rotations) /\ ackQ \in Seq(Rotations)
      /\ procQ \in Seq(Jobs) /\ proc \in Procs /\ tape.idx \in Chunks
      /\ video \in Videos
      /\ now \in Times /\ want \in BOOLEAN
  BY DEF FilesTyped, ControlTyped, ControlTypeOK, Tapes
<1>1. /\ Written \in Tapes /\ Written.buffer = <<>> /\ Written.idx = tape.idx
      /\ Written.finalized = tape.finalized
  BY <1>0, WrittenIs
<1>2. CASE Control \/ UNCHANGED vars
  <2>1. UNCHANGED <<tape, rotQ, ackQ, flush, ending, video, procQ, proc>>
    BY <1>2 DEF Control, vars, tapeVars, threads, reader
  <2> QED BY <2>1, OrderKept DEF FilesTyped
<1>3. CASE Capture
  <2>1. UNCHANGED <<rotQ, ackQ, flush, ending, video, procQ, proc>>
    BY <1>3 DEF Capture, threads, reader
  <2> DEFINE f == [at |-> now, muted |-> want]
  <2>2. f \in Frames
    BY <1>0 DEF Frames
  <2> HIDE DEF f
  <2>3. Append(tape.buffer, f) \in Seq(Frames)
    BY <1>0, <2>2 DEF Tapes
  <2>4. tape' \in {tape, [tape EXCEPT !.buffer = Append(tape.buffer, f)]}
    BY <1>3 DEF Capture, f
  <2>5. tape' \in Tapes /\ tape'.idx = tape.idx
        /\ tape'.finalized = tape.finalized
    BY <1>0, <2>3, <2>4 DEF Tapes
  <2> QED BY <2>1, <2>5, OrderKept DEF FilesTyped
<1>4. CASE FlushWakes \/ FlushJoined
  <2>1. UNCHANGED <<tape, rotQ, ackQ, video, procQ, proc>>
        /\ flush' \in {flush, "ended", "rotating"}
        /\ ending' \in {ending, "remaining"}
    BY <1>4 DEF FlushWakes, FlushJoined, tapeVars, reader
  <2> QED BY <2>1, OrderKept DEF FilesTyped
<1>5. CASE FlushRotates \/ LastRotation
  <2>1. Rotate /\ UNCHANGED <<flush, ending, video, reader>>
    BY <1>5 DEF FlushRotates, LastRotation, threads
  <2> QED BY <2>1, RotateKeeps DEF FilesTyped
<1>6. CASE FlushWrites \/ LastFrames
  <2>1. /\ UNCHANGED <<rotQ, ackQ, video, procQ, proc>>
        /\ tape' \in {tape, Written}
        /\ flush' \in {flush, "ended", "waiting"}
        /\ ending' \in {ending, "ack"}
    BY <1>6 DEF FlushWrites, LastFrames, reader
  <2> QED BY <1>0, <1>1, <2>1, OrderKept DEF FilesTyped
<1>7. CASE FinalAck
  <2> DEFINE a == [final |-> TRUE, idx |-> tape.idx]
  <2>1. a \in Rotations
    BY <1>0 DEF Rotations
  <2>2. /\ UNCHANGED <<flush, tape, rotQ, video, procQ, proc>>
        /\ ackQ' = Append(ackQ, a) /\ ending' = "close"
    BY <1>7 DEF FinalAck, reader
  <2> HIDE DEF a
  <2>3. ackQ' \in Seq(Rotations)
    BY <1>0, <2>1, <2>2, AppendIs
  <2> QED BY <2>2, <2>3, OrderKept DEF FilesTyped
<1>8. CASE CloseFile
  <2>1. /\ UNCHANGED <<flush, rotQ, ackQ, video, procQ, proc>>
        /\ tape' = [tape EXCEPT !.writer = FALSE] /\ ending' = "done"
    BY <1>8 DEF CloseFile, reader
  <2>2. tape' \in Tapes /\ tape'.idx = tape.idx
        /\ tape'.finalized = tape.finalized
    BY <1>0, <2>1 DEF Tapes
  <2> QED BY <2>1, <2>2, OrderKept DEF FilesTyped
<1>9. CASE RotateVideo
  <2>1. /\ EndChunk(FALSE) /\ ~video.ended
        /\ video' = [video EXCEPT !.idx = @ + 1, !.since = now]
        /\ video.idx + 1 < MaxChunks
    BY <1>9 DEF RotateVideo
  <2>2. video.idx + 1 \in Chunks
    BY <1>0, <2>1 DEF Chunks, Videos
  <2>3. /\ video' \in Videos
        /\ video'.ended = FALSE /\ video'.idx = video.idx + 1
    BY <1>0, <2>1, <2>2 DEF Videos
  <2> QED BY <2>1, <2>3, EndChunkIs
<1>10. CASE FirstFrame \/ CloseVideo
  <2>1. /\ ~video.ended
        /\ video' \in Videos /\ video'.idx = video.idx
        /\ FirstFrame \/ video'.ended = TRUE
        /\ \/ EndChunk(TRUE) /\ CloseVideo
           \/ UNCHANGED <<controlVars, tapeVars, threads, reader>>
    BY <1>0, <1>10 DEF FirstFrame, CloseVideo, Videos
  <2>2. CASE EndChunk(TRUE) /\ CloseVideo
    <3>1. video'.ended = TRUE
      BY <1>0, <2>2 DEF CloseVideo, Videos
    <3> QED BY <2>1, <2>2, <3>1, EndChunkIs
  <2>3. CASE UNCHANGED <<controlVars, tapeVars, threads, reader>>
    <3>1. FilesTyped'
      BY <2>1, <2>3 DEF FilesTyped, tapeVars, threads, reader
    <3>2. RotationsInOrder'
      BY <2>1, <2>3 DEF RotationsInOrder, tapeVars
    <3> QED BY <3>1, <3>2
  <2> QED BY <2>1, <2>2, <2>3
<1>11. CASE TakeChunk
  <2>1. /\ UNCHANGED <<tape, rotQ, ackQ, flush, ending, video>>
        /\ procQ # <<>> /\ procQ' = Tail(procQ)
        /\ proc' = [proc EXCEPT !.job = <<Head(procQ)>>]
    BY <1>11 DEF TakeChunk, tapeVars, threads
  <2>2. Head(procQ) \in Jobs /\ procQ' \in Seq(Jobs)
    BY <1>0, <2>1, HeadIs
  <2>3. <<Head(procQ)>> \in Seq(Jobs)
    BY <2>2
  <2>4. proc' \in Procs
    BY <1>0, <2>1, <2>3 DEF Procs
  <2> QED BY <2>1, <2>2, <2>4, OrderKept DEF FilesTyped
<1>12. CASE TakeAck \/ WaitTimesOut
  <2>1. /\ UNCHANGED <<tape, rotQ, flush, ending, video, procQ>>
        /\ ackQ' = ackQ \/ (ackQ # <<>> /\ ackQ' = Tail(ackQ))
        /\ proc.job # <<>>
        /\ proc' = proc \/ Transcribe("acked") \/ Transcribe("timeout")
    BY <1>12 DEF TakeAck, WaitTimesOut, tapeVars, threads
  <2>2. ackQ' \in Seq(Rotations)
    <3>1. CASE ackQ # <<>> /\ ackQ' = Tail(ackQ)
      BY <1>0, <3>1, HeadIs
    <3> QED BY <1>0, <2>1, <3>1
  <2>3. proc' \in Procs
    <3>1. CASE Transcribe("acked")
      BY <2>1, <3>1, TranscribeIs
    <3>2. CASE Transcribe("timeout")
      BY <2>1, <3>2, TranscribeIs
    <3> QED BY <1>0, <2>1, <3>1, <3>2
  <2> QED BY <2>1, <2>2, <2>3, OrderKept DEF FilesTyped
<1> QED BY <1>2, <1>3, <1>4, <1>5, <1>6, <1>7, <1>8, <1>9, <1>10, <1>11, <1>12
        DEF Next, FlushStep, TapeStep, VideoStep, ReaderStep

LEMMA FilesAlwaysTyped ==
  Spec => [](ControlTyped /\ FilesTyped /\ RotationsInOrder)
<1>1. Init => ControlTyped /\ FilesTyped /\ RotationsInOrder
  BY ControlTypedInit, FilesInit DEF Init
<1>2. ControlTyped /\ FilesTyped /\ RotationsInOrder /\ [Next]_vars
        => (ControlTyped /\ FilesTyped /\ RotationsInOrder)'
  BY ControlSide, ControlTypedStep, FilesStep
<1> QED BY <1>1, <1>2, PTL DEF Spec

\* The tape, the queues between the processes, the video writer and the
\* processor keep their types; the chunk to be written is always a chunk.
THEOREM TypesHold == Spec => []TypeOK
<1>1. ControlTyped /\ FilesTyped => TypeOK
  BY DEF ControlTyped, FilesTyped, TypeOK, Tapes, Videos, Procs, Rotations
<1> QED BY <1>1, FilesAlwaysTyped, PTL
-----------------------------------------------------------------------------
(* Every frame captured before the stop is kept, and a file that was acked *)
(* gets no more of them.                                                   *)

\* No file is written any more; chunk k's is not.
Still == tape.finalized \/ ending \notin {"join", "remaining"}
Sealed(k) == Still \/ k < tape.idx

\* The order of the stop: the last drain of the commands, the flush thread,
\* the teardown; and a final rotation.
Ends ==
  /\ ~Running => stopAt <= now
  /\ main.last => ~Running
  /\ main.at \notin {"mutes", "pauses"} => main.last
  /\ flush = "ended" => main.at = "files" \/ tape.finalized
  /\ ending # "join" => main.at = "files" /\ flush = "ended"
  /\ video.ended => ~Running

\* No frame leaves the buffer but into a file, and what remains there when no
\* file is written any more came after the stop.
Keeps ==
  /\ \A f \in heard : InFile(f) \/ InBuffer(f)
  /\ Still => \A i \in DOMAIN tape.buffer : stopAt <= tape.buffer[i].at

\* What was acked, and what was read by an ack, is not written any more.
Acks ==
  /\ \A i \in DOMAIN ackQ :
       /\ \A k \in Chunks : ackQ[i].idx = k => Sealed(k)
       /\ ackQ[i].final => Still
  /\ \A k \in Chunks : proc.read[k] = "acked" => Sealed(k)

FilesOK == ControlTyped /\ FilesTyped /\ RotationsInOrder

LEMMA EndsInit == Init => Ends /\ Keeps /\ Acks
BY DEF Init, ControlInit, Ends, Running, Open, Keeps, Acks

LEMMA EndsStep == FilesOK /\ Ends /\ [Next]_vars => Ends'
<1> SUFFICES ASSUME FilesOK, Ends, [Next]_vars PROVE Ends'
  OBVIOUS
<1>0. /\ now \in Int /\ now # Open /\ stopAt \in Int
      /\ main \in [at : {"mutes", "pauses", "shutdown", "closing", "files"},
                   last : BOOLEAN]
      /\ tape \in Tapes
      /\ video \in Videos
  BY DEF FilesOK, ControlTyped, ControlTypeOK, FilesTyped, Times, Open
<1>1. CASE Control
  <2>1. UNCHANGED <<tape, flush, ending, video>>
    BY <1>1 DEF Control, tapeVars, threads
  <2>2. CASE Stop
    BY <1>0, <2>1, <2>2 DEF Stop, Ends, Running, Open
  <2>3. CASE PausesApplied
    <3>1. UNCHANGED <<now, stopAt>>
      BY <2>3 DEF PausesApplied
    <3> QED BY <1>0, <2>1, <2>3, <3>1 DEF PausesApplied, Ends, Running
  <2>4. CASE MutesApplied \/ Shutdown \/ CloseSpan
    <3>1. /\ UNCHANGED <<now, stopAt>> /\ main'.last = main.last
          /\ main'.at \notin {"mutes", "pauses"}
               => main.at \notin {"mutes", "pauses"}
          /\ main.at # "files"
      BY <1>0, <2>4 DEF MutesApplied, Shutdown, CloseSpan, Go
    <3> QED BY <2>1, <3>1 DEF Ends, Running
  <2>5. CASE SetMuted \/ SetPaused \/ NextMute \/ NextPause
    <3>1. UNCHANGED <<now, stopAt, main>>
      BY <2>5 DEF SetMuted, SetPaused, NextMute, NextPause
    <3> QED BY <2>1, <3>1 DEF Ends, Running
  <2> QED BY <1>1, <2>2, <2>3, <2>4, <2>5 DEF Control, ControlStep
<1>2. CASE Capture
  <2>1. /\ now' = now + 1 /\ UNCHANGED <<stopAt, main, flush, ending, video>>
        /\ tape'.finalized = tape.finalized
    BY <1>0, <1>2 DEF Capture, Tick, threads, Tapes
  <2> QED BY <1>0, <2>1 DEF Ends, Running
<1>3. CASE FlushWakes
  <2>1. UNCHANGED <<now, stopAt, main, tape, ending, video>> /\ flush = "waiting"
    BY <1>3 DEF FlushWakes, controlVars, tapeVars
  <2> QED BY <1>3, <2>1 DEF FlushWakes, Ends, Running
<1>4. CASE FlushRotates \/ LastRotation
  <2>1. Rotate /\ UNCHANGED <<now, stopAt, main, flush, ending, video>>
    BY <1>4 DEF FlushRotates, LastRotation, controlVars, threads
  <2>2. ~tape.finalized
    BY <2>1, RotateIs DEF FilesOK
  <2> QED BY <2>1, <2>2 DEF Ends, Running
<1>5. CASE FlushWrites
  <2>1. /\ UNCHANGED <<now, stopAt, main, ending, video>> /\ flush = "rotating"
        /\ \/ tape.finalized /\ flush' = "ended" /\ tape' = tape
           \/ flush' = "waiting" /\ tape' = Written
    BY <1>5 DEF FlushWrites, controlVars
  <2> QED BY <2>1 DEF Ends, Running
<1>6. CASE FlushJoined
  <2>1. UNCHANGED <<now, stopAt, main, tape, flush, video>>
    BY <1>6 DEF FlushJoined, controlVars, tapeVars
  <2> QED BY <1>6, <2>1 DEF FlushJoined, Ends, Running
<1>7. CASE LastFrames \/ FinalAck \/ CloseFile
  <2>1. /\ UNCHANGED <<now, stopAt, main, flush, video>> /\ ending # "join"
        /\ ending' # "join"
    BY <1>7 DEF LastFrames, FinalAck, CloseFile, controlVars
  <2> QED BY <2>1 DEF Ends, Running
<1>8. CASE VideoStep
  <2>1. UNCHANGED <<now, stopAt, main, tape, flush, ending>>
    BY <1>8 DEF VideoStep, FirstFrame, RotateVideo, CloseVideo, EndChunk,
                controlVars, tapeVars, threads
  <2>2. video'.ended => ~Running
    BY <1>0, <1>8 DEF Ends, Videos, VideoStep, FirstFrame, RotateVideo, CloseVideo
  <2> QED BY <1>0, <2>1, <2>2 DEF Ends, Running
<1>9. CASE ReaderStep \/ UNCHANGED vars
  <2>1. UNCHANGED <<now, stopAt, main, tape, flush, ending, video>>
    BY <1>9 DEF ReaderStep, TakeChunk, TakeAck, WaitTimesOut, vars, controlVars,
                tapeVars, threads
  <2> QED BY <2>1 DEF Ends, Running
<1> QED BY <1>1, <1>2, <1>3, <1>4, <1>5, <1>6, <1>7, <1>8, <1>9
        DEF Next, FlushStep, TapeStep

\* The buffer's frames get into the current chunk's file.
LEMMA WrittenKeeps ==
  ASSUME tape \in Tapes, NEW f, InFile(f) \/ InBuffer(f)
  PROVE  \E k \in Chunks : \E i \in DOMAIN Written.file[k] :
           Written.file[k][i] = f
<1>1. /\ \A k \in Chunks : k # tape.idx => Written.file[k] = tape.file[k]
      /\ Written.file[tape.idx] = tape.file[tape.idx] \o tape.buffer
  BY WrittenIs
<1> DEFINE now1 == tape.file[tape.idx]
           next == tape.buffer
<1>2. tape.idx \in Chunks /\ now1 \in Seq(Frames) /\ next \in Seq(Frames)
  BY DEF Tapes
<1> HIDE DEF now1, next
<1>3. /\ Len(now1) \in Nat /\ Len(next) \in Nat
      /\ DOMAIN now1 = 1 .. Len(now1) /\ DOMAIN next = 1 .. Len(next)
      /\ DOMAIN (now1 \o next) = 1 .. Len(now1) + Len(next)
      /\ \A i \in 1 .. Len(now1) : (now1 \o next)[i] = now1[i]
      /\ \A i \in 1 .. Len(next) : (now1 \o next)[Len(now1) + i] = next[i]
  BY <1>2
<1>4. CASE InFile(f)
  <2>1. PICK k \in Chunks : \E i \in DOMAIN tape.file[k] : tape.file[k][i] = f
    BY <1>4 DEF InFile
  <2>2. CASE k # tape.idx
    BY <1>1, <2>1, <2>2
  <2>3. CASE k = tape.idx
    <3>1. PICK i \in DOMAIN now1 : now1[i] = f
      BY <2>1, <2>3 DEF now1
    <3>2. i \in DOMAIN (now1 \o next) /\ (now1 \o next)[i] = f
      BY <1>3, <3>1
    <3> QED BY <1>1, <1>2, <3>2 DEF now1, next
  <2> QED BY <2>2, <2>3
<1>5. CASE InBuffer(f)
  <2>1. PICK i \in DOMAIN next : next[i] = f
    BY <1>5 DEF InBuffer, next
  <2>2. /\ Len(now1) + i \in DOMAIN (now1 \o next)
        /\ (now1 \o next)[Len(now1) + i] = f
    BY <1>3, <2>1
  <2> QED BY <1>1, <1>2, <2>2 DEF now1, next
<1> QED BY <1>4, <1>5

\* Nothing is written any more only once the recording has been stopped.
LEMMA StillStopped == FilesOK /\ Ends /\ Still => ~Running
BY DEF FilesOK, RotationsInOrder, Ends, Still, FilesTyped

LEMMA KeepsStep == FilesOK /\ Ends /\ Keeps /\ [Next]_vars => Keeps'
<1> SUFFICES ASSUME FilesOK, Ends, Keeps, [Next]_vars PROVE Keeps'
  OBVIOUS
<1>0. /\ now \in Times /\ stopAt \in Int /\ want \in BOOLEAN
      /\ tape \in Tapes /\ tape.buffer \in Seq(Frames)
  BY DEF FilesOK, ControlTyped, ControlTypeOK, FilesTyped, Times, Open, Tapes
<1>1. CASE UNCHANGED <<heard, tape.buffer, tape.file>>
           /\ (Still' => Still /\ stopAt' = stopAt)
  BY <1>1 DEF Keeps, InFile, InBuffer
<1>2. CASE UNCHANGED heard /\ tape'.file = Written.file /\ tape'.buffer = <<>>
  <2>1. ASSUME NEW f \in heard PROVE InFile(f)'
    BY <1>0, <1>2, WrittenKeeps DEF Keeps, InFile
  <2> QED BY <1>2, <2>1 DEF Keeps
<1>3. CASE Control
  <2>1. /\ UNCHANGED <<heard, tape, ending>>
        /\ stopAt' = stopAt \/ Running
    BY <1>3 DEF Control, ControlStep, SetMuted, SetPaused, Stop, NextMute,
                MutesApplied, NextPause, PausesApplied, Shutdown, CloseSpan,
                tapeVars, threads
  <2> QED BY <1>1, <2>1, StillStopped DEF Still
<1>4. CASE Capture
  <2>1. /\ UNCHANGED <<stopAt, ending>> /\ tape'.finalized = tape.finalized
        /\ tape'.file = tape.file
    BY <1>0, <1>4 DEF Capture, Tick, threads, Tapes
  <2>2. CASE ~ctl.capturing
    <3>1. UNCHANGED <<tape, heard>>
      BY <1>4, <2>2 DEF Capture, Tick
    <3> QED BY <1>1, <2>1, <3>1 DEF Still
  <2>3. CASE ctl.capturing
    <3> DEFINE g == [at |-> now, muted |-> want]
               b == tape.buffer
    <3>1. g \in Frames /\ g.at = now
      BY <1>0 DEF Frames
    <3>2. heard' = heard \cup {g} /\ tape'.buffer = Append(b, g)
      BY <1>0, <1>4, <2>3 DEF Capture, Tick, Tapes
    <3>3. b \in Seq(Frames) /\ b = tape.buffer
      BY <1>0
    <3> HIDE DEF g, b
    <3>4. /\ Len(b) \in Nat /\ DOMAIN b = 1 .. Len(b)
          /\ DOMAIN Append(b, g) = 1 .. Len(b) + 1
          /\ \A i \in 1 .. Len(b) : Append(b, g)[i] = b[i]
          /\ Append(b, g)[Len(b) + 1] = g
      BY <3>1, <3>3
    <3>5. ASSUME NEW f \in heard' PROVE InFile(f)' \/ InBuffer(f)'
      <4>1. CASE f = g
        <5>1. Len(b) + 1 \in DOMAIN Append(b, g)
          BY <3>4
        <5> QED BY <3>2, <3>4, <4>1, <5>1 DEF InBuffer
      <4>2. CASE f \in heard /\ InFile(f)
        BY <2>1, <4>2 DEF InFile
      <4>3. CASE f \in heard /\ InBuffer(f)
        <5>1. PICK i \in DOMAIN b : b[i] = f
          BY <3>3, <4>3 DEF InBuffer
        <5>2. i \in DOMAIN Append(b, g) /\ Append(b, g)[i] = f
          BY <3>4, <5>1
        <5> QED BY <3>2, <5>2 DEF InBuffer
      <4> QED BY <3>2, <3>5, <4>1, <4>2, <4>3 DEF Keeps
    <3>6. ASSUME Still', NEW i \in DOMAIN tape'.buffer
          PROVE  stopAt <= tape'.buffer[i].at
      <4>1. Still
        BY <2>1, <3>6 DEF Still
      <4>2. stopAt <= now
        BY <4>1, StillStopped DEF Ends
      <4>3. CASE i \in DOMAIN b
        BY <3>2, <3>3, <3>4, <4>1, <4>3 DEF Keeps
      <4>4. CASE i = Len(b) + 1
        BY <3>1, <3>2, <3>4, <4>2, <4>4
      <4> QED BY <3>2, <3>4, <3>6, <4>3, <4>4
    <3> QED BY <2>1, <3>5, <3>6 DEF Keeps
  <2> QED BY <2>2, <2>3
<1>5. CASE FlushWakes \/ FlushJoined
  <2>1. /\ UNCHANGED <<heard, tape, stopAt>>
        /\ ending' \in {"join", "remaining"} \/ ending' = ending
    BY <1>5 DEF FlushWakes, FlushJoined, controlVars, tapeVars
  <2> QED BY <1>1, <2>1 DEF Still
<1>6. CASE FlushRotates \/ LastRotation
  <2>1. Rotate /\ UNCHANGED heard
    BY <1>6 DEF FlushRotates, LastRotation, controlVars
  <2> QED BY <1>2, <2>1, RotateIs DEF FilesOK
<1>7. CASE FlushWrites \/ LastFrames
  <2>1. /\ UNCHANGED <<heard, stopAt>>
        /\ \/ tape' = Written
           \/ UNCHANGED tape /\ tape.finalized
    BY <1>7 DEF FlushWrites, LastFrames, controlVars
  <2>2. CASE tape' = Written
    BY <1>0, <1>2, <2>1, <2>2, WrittenIs
  <2>3. CASE UNCHANGED tape /\ tape.finalized
    BY <1>1, <2>1, <2>3 DEF Still
  <2> QED BY <2>1, <2>2, <2>3
<1>8. CASE FinalAck \/ CloseFile
  <2>1. /\ UNCHANGED <<heard, stopAt>> /\ ending \notin {"join", "remaining"}
        /\ tape'.buffer = tape.buffer /\ tape'.file = tape.file
    BY <1>0, <1>8 DEF FinalAck, CloseFile, controlVars, Tapes
  <2> QED BY <1>1, <2>1 DEF Still
<1>9. CASE VideoStep \/ ReaderStep \/ UNCHANGED vars
  <2>1. UNCHANGED <<heard, stopAt, tape, ending>>
    BY <1>9 DEF VideoStep, FirstFrame, RotateVideo, CloseVideo, EndChunk,
                ReaderStep, TakeChunk, TakeAck, WaitTimesOut, vars, controlVars, tapeVars, threads
  <2> QED BY <1>1, <2>1 DEF Still
<1> QED BY <1>3, <1>4, <1>5, <1>6, <1>7, <1>8, <1>9 DEF Next, FlushStep, TapeStep

LEMMA EndsAlways == Spec => [](FilesOK /\ Ends /\ Keeps)
<1>1. Init => Ends /\ Keeps
  BY EndsInit
<1>2. FilesOK /\ Ends /\ Keeps /\ [Next]_vars => (Ends /\ Keeps)'
  BY EndsStep, KeepsStep
<1>3. Spec => []FilesOK
  BY FilesAlwaysTyped DEF FilesOK
<1> QED BY <1>1, <1>2, <1>3, PTL DEF Spec

\* Every frame captured before the stop is in a file once the teardown has
\* written what was left, in whatever order rotations, rounds of the flush
\* thread and the final chunk came.
THEOREM FramesHold == Spec => []FramesKept
<1>1. FilesOK /\ Ends /\ Keeps => FramesKept
  <2> SUFFICES ASSUME FilesOK, Ends, Keeps, NEW f \in heard,
                      Running \/ f.at < stopAt
               PROVE  InFile(f) \/ (InBuffer(f) /\ ending \in {"join", "remaining"})
    BY DEF FramesKept
  <2>1. InFile(f) \/ InBuffer(f)
    BY DEF Keeps
  <2>2. ASSUME InBuffer(f), Still PROVE FALSE
    <3>1. ~Running
      BY <2>2, StillStopped
    <3>2. stopAt <= f.at
      BY <2>2 DEF InBuffer, Keeps
    <3>3. stopAt \in Int /\ f.at \in Int
      BY DEF FilesOK, ControlTyped, ControlTypeOK, Frames, Times, Open
    <3> QED BY <3>1, <3>2, <3>3
  <2> QED BY <2>1, <2>2 DEF Still
<1> QED BY <1>1, EndsAlways, PTL
\* What a step of the writing side may do to what is sealed.
LEMMA SealStep ==
  FilesOK /\ Ends /\ [Next]_vars =>
    /\ \A k \in Chunks : Sealed(k) => Sealed(k)' /\ tape'.file[k] = tape.file[k]
    /\ Still => Still'
<1> SUFFICES ASSUME FilesOK, Ends, [Next]_vars
             PROVE  /\ \A k \in Chunks : Sealed(k) =>
                         Sealed(k)' /\ tape'.file[k] = tape.file[k]
                    /\ Still => Still'
  OBVIOUS
<1>0. tape \in Tapes /\ rotQ \in Seq(Rotations) /\ tape.idx \in Int
  BY DEF FilesOK, FilesTyped, Tapes, Chunks
<1>1. CASE /\ tape'.file = tape.file /\ tape'.idx = tape.idx
           /\ tape'.finalized = tape.finalized
           /\ ending \notin {"join", "remaining"}
                => ending' \notin {"join", "remaining"}
  BY <1>1 DEF Sealed, Still
<1>2. CASE Control \/ FlushWakes \/ FlushJoined \/ VideoStep \/ ReaderStep
           \/ UNCHANGED vars
  <2>1. /\ UNCHANGED tape
        /\ ending' = ending \/ ending = "join"
    BY <1>2 DEF Control, FlushWakes, FlushJoined, VideoStep, FirstFrame,
                RotateVideo, CloseVideo, EndChunk,
                ReaderStep, TakeChunk, TakeAck, WaitTimesOut, vars, tapeVars,
                threads
  <2> QED BY <1>1, <2>1
<1>3. CASE Capture
  <2>1. /\ UNCHANGED ending /\ tape'.file = tape.file
        /\ tape'.idx = tape.idx /\ tape'.finalized = tape.finalized
    BY <1>0, <1>3 DEF Capture, threads, Tapes
  <2> QED BY <1>1, <2>1
<1>4. CASE FinalAck \/ CloseFile
  <2>1. /\ ending' \notin {"join", "remaining"} /\ tape'.file = tape.file
        /\ tape'.idx = tape.idx /\ tape'.finalized = tape.finalized
    BY <1>0, <1>4 DEF FinalAck, CloseFile, Tapes
  <2> QED BY <1>1, <2>1
<1>5. CASE FlushRotates \/ LastRotation
  <2>1. Rotate /\ UNCHANGED ending
    BY <1>5 DEF FlushRotates, LastRotation, threads
  <2>2. /\ tape'.file = Written.file /\ ~tape.finalized
        /\ Head(rotQ) \in Rotations /\ Head(rotQ) = rotQ[1] /\ rotQ # <<>>
        /\ IF Head(rotQ).final THEN tape'.idx = tape.idx
                               ELSE tape'.idx = Head(rotQ).idx + 1
    BY <2>1, RotateIs DEF FilesOK
  <2>3. ~Still
    BY <1>5, <2>2 DEF FlushRotates, LastRotation, Ends, Still
  <2>4. 1 \in DOMAIN rotQ
    BY <1>0, <2>2, QueueIs, HeadIs
  <2>5. tape.idx <= tape'.idx
    <3>1. tape.idx <= Head(rotQ).idx /\ Head(rotQ).idx \in Int
      BY <2>2, <2>4 DEF FilesOK, RotationsInOrder, Rotations, Chunks
    <3> QED BY <1>0, <2>2, <3>1
  <2>6. tape'.idx \in Int
    BY <1>0, <2>2 DEF Rotations, Chunks
  <2>7. ASSUME NEW k \in Chunks, Sealed(k)
        PROVE  Sealed(k)' /\ tape'.file[k] = tape.file[k]
    <3>1. k < tape.idx /\ k \in Int
      BY <2>3, <2>7 DEF Sealed, Chunks
    <3>2. tape'.file[k] = tape.file[k]
      BY <1>0, <2>2, <3>1, WrittenIs
    <3>3. k < tape'.idx
      BY <1>0, <2>5, <2>6, <3>1
    <3> QED BY <3>2, <3>3 DEF Sealed
  <2> QED BY <2>3, <2>7
<1>6. CASE FlushWrites \/ LastFrames
  <2>1. \/ tape' = Written /\ ~tape.finalized
        \/ UNCHANGED tape
    BY <1>6 DEF FlushWrites, LastFrames
  <2>2. ending' = ending \/ ending' = "ack"
    BY <1>6 DEF FlushWrites, LastFrames
  <2>3. CASE UNCHANGED tape
    BY <1>1, <2>2, <2>3
  <2>4. CASE tape' = Written /\ ~tape.finalized
    <3>1. ~Still
      BY <1>6, <2>4 DEF FlushWrites, LastFrames, Ends, Still
    <3>2. ASSUME NEW k \in Chunks, Sealed(k)
          PROVE  Sealed(k)' /\ tape'.file[k] = tape.file[k]
      <4>1. k < tape.idx /\ k \in Int
        BY <3>1, <3>2 DEF Sealed, Chunks
      <4>2. tape'.file[k] = tape.file[k] /\ tape'.idx = tape.idx
        BY <1>0, <2>4, <4>1, WrittenIs
      <4> QED BY <4>1, <4>2 DEF Sealed
    <3> QED BY <3>1, <3>2
  <2> QED BY <2>1, <2>3, <2>4
<1> QED BY <1>2, <1>3, <1>4, <1>5, <1>6 DEF Next, FlushStep, TapeStep

LEMMA AcksStep == FilesOK /\ Ends /\ Acks /\ [Next]_vars => Acks'
<1> SUFFICES ASSUME FilesOK, Ends, Acks, [Next]_vars PROVE Acks'
  OBVIOUS
<1>0. /\ tape \in Tapes /\ rotQ \in Seq(Rotations) /\ ackQ \in Seq(Rotations)
      /\ proc \in Procs /\ tape.idx \in Chunks
      /\ \A i \in DOMAIN ackQ : ackQ[i].idx \in Chunks
      /\ DOMAIN ackQ = 1 .. Len(ackQ) /\ Len(ackQ) \in Nat
  <2>1. tape \in Tapes /\ rotQ \in Seq(Rotations) /\ ackQ \in Seq(Rotations)
        /\ proc \in Procs
    BY DEF FilesOK, FilesTyped
  <2>2. /\ \A i \in DOMAIN ackQ : ackQ[i] \in Rotations
        /\ DOMAIN ackQ = 1 .. Len(ackQ) /\ Len(ackQ) \in Nat
    BY <2>1, QueueIs
  <2> QED BY <2>1, <2>2 DEF Tapes, Rotations
<1>1. /\ \A k \in Chunks : Sealed(k) => Sealed(k)'
      /\ Still => Still'
  BY SealStep
<1>2. CASE UNCHANGED <<ackQ, proc>>
  BY <1>0, <1>1, <1>2 DEF Acks
<1>3. CASE FlushRotates \/ LastRotation
  <2> DEFINE a == [final |-> FALSE, idx |-> tape.idx]
  <2>1. Rotate /\ UNCHANGED proc
    BY <1>3 DEF FlushRotates, LastRotation, reader
  <2>2. /\ ackQ' = Append(ackQ, a)
        /\ Head(rotQ) = rotQ[1] /\ rotQ # <<>> /\ Head(rotQ) \in Rotations
        /\ tape'.finalized = Head(rotQ).final
        /\ IF Head(rotQ).final THEN tape'.idx = tape.idx
                               ELSE tape'.idx = Head(rotQ).idx + 1
    BY <2>1, RotateIs DEF FilesOK
  <2>3. ASSUME NEW k \in Chunks, k = tape.idx PROVE Sealed(k)'
    <3>1. 1 \in DOMAIN rotQ
      BY <1>0, <2>2, QueueIs, HeadIs
    <3>2. tape.idx <= Head(rotQ).idx /\ Head(rotQ).idx \in Int /\ tape.idx \in Int
      BY <1>0, <2>2, <3>1 DEF FilesOK, RotationsInOrder, Rotations, Chunks
    <3>3. CASE Head(rotQ).final
      BY <2>2, <3>3 DEF Sealed, Still
    <3>4. CASE ~Head(rotQ).final
      <4>1. k < tape'.idx
        BY <2>2, <2>3, <3>2, <3>4
      <4> QED BY <4>1 DEF Sealed
    <3> QED BY <3>3, <3>4
  <2>4. a \in Rotations /\ ~a.final /\ a.idx = tape.idx
    BY <1>0 DEF Rotations
  <2> HIDE DEF a
  <2>5. ASSUME NEW i \in DOMAIN ackQ'
        PROVE  /\ \A k \in Chunks : ackQ'[i].idx = k => Sealed(k)'
               /\ ackQ'[i].final => Still'
    <3>1. /\ ackQ' \in Seq(Rotations) /\ Len(ackQ') = Len(ackQ) + 1
          /\ \A j \in 1 .. Len(ackQ) : ackQ'[j] = ackQ[j]
          /\ ackQ'[Len(ackQ) + 1] = a
      BY <1>0, <2>2, <2>4, AppendIs
    <3>2. i \in 1 .. Len(ackQ) + 1
      BY <3>1, QueueIs
    <3>3. CASE i = Len(ackQ) + 1
      BY <2>3, <2>4, <3>1, <3>3
    <3>4. CASE i \in DOMAIN ackQ
      BY <1>0, <1>1, <3>1, <3>4 DEF Acks
    <3> QED BY <1>0, <3>2, <3>3, <3>4
  <2> QED BY <1>1, <2>1, <2>5 DEF Acks
<1>4. CASE FinalAck
  <2> DEFINE a == [final |-> TRUE, idx |-> tape.idx]
  <2>1. /\ ackQ' = Append(ackQ, a) /\ UNCHANGED proc
        /\ ending' = "close"
    BY <1>4 DEF FinalAck, reader
  <2>2. a \in Rotations
    BY <1>0 DEF Rotations
  <2> HIDE DEF a
  <2>3. Still' /\ \A k : Sealed(k)'
    BY <2>1 DEF Still, Sealed
  <2> QED BY <2>1, <2>3 DEF Acks
<1>5. CASE TakeAck
  <2>1. /\ proc.job # <<>> /\ ackQ # <<>> /\ ackQ' = Tail(ackQ)
        /\ \/ UNCHANGED proc
           \/ /\ Transcribe("acked")
              /\ \/ Head(ackQ).idx = proc.job[1].idx
                 \/ Head(ackQ).final
    BY <1>5 DEF TakeAck
  <2>2. /\ Head(ackQ) = ackQ[1] /\ ackQ' \in Seq(Rotations)
        /\ Len(ackQ') = Len(ackQ) - 1
        /\ \A i \in 1 .. Len(ackQ) - 1 : ackQ'[i] = ackQ[i + 1]
        /\ 1 \in DOMAIN ackQ
    <3>1. Len(ackQ) \in Nat \ {0}
      BY <1>0, <2>1, HeadIs
    <3> QED BY <1>0, <2>1, <3>1, HeadIs
  <2>3. ASSUME NEW i \in DOMAIN ackQ'
        PROVE  /\ \A k \in Chunks : ackQ'[i].idx = k => Sealed(k)'
               /\ ackQ'[i].final => Still'
    <3>1. i \in 1 .. Len(ackQ) - 1
      BY <2>2, QueueIs
    <3>2. i + 1 \in DOMAIN ackQ /\ ackQ'[i] = ackQ[i + 1]
      BY <1>0, <2>2, <3>1
    <3> QED BY <1>0, <1>1, <3>2 DEF Acks
  <2>4. ASSUME NEW k \in Chunks, proc'.read[k] = "acked" PROVE Sealed(k)
    <3>1. CASE UNCHANGED proc
      BY <2>4, <3>1 DEF Acks
    <3>2. CASE /\ Transcribe("acked")
               /\ \/ Head(ackQ).idx = proc.job[1].idx
                  \/ Head(ackQ).final
      <4>1. proc'.read = [proc.read EXCEPT ![proc.job[1].idx] = "acked"]
        BY <2>1, <3>2, TranscribeIs DEF FilesOK
      <4>2. CASE k = proc.job[1].idx
        BY <2>2, <3>2, <4>2 DEF Acks, Sealed
      <4>3. CASE k # proc.job[1].idx
        BY <1>0, <2>4, <4>1, <4>3 DEF Procs, Acks
      <4> QED BY <4>2, <4>3
    <3> QED BY <2>1, <3>1, <3>2
  <2> QED BY <1>1, <2>3, <2>4 DEF Acks
<1>6. CASE WaitTimesOut
  <2>1. Still /\ UNCHANGED ackQ
    BY <1>6 DEF WaitTimesOut, Still, tapeVars
  <2> QED BY <1>0, <1>1, <2>1 DEF Acks, Sealed
<1>7. CASE TakeChunk
  <2>1. UNCHANGED ackQ /\ proc'.read = proc.read
    BY <1>0, <1>7 DEF TakeChunk, tapeVars, Procs
  <2> QED BY <1>0, <1>1, <2>1 DEF Acks
<1>8. CASE \/ Control \/ Capture \/ FlushWakes \/ FlushWrites \/ FlushJoined
           \/ LastFrames \/ CloseFile \/ VideoStep
           \/ UNCHANGED vars
  <2>1. UNCHANGED <<ackQ, proc>>
    BY <1>8 DEF Control, Capture, FlushWakes, FlushWrites, FlushJoined, LastFrames,
                CloseFile, VideoStep, FirstFrame, RotateVideo, CloseVideo,
                EndChunk, vars, tapeVars, reader
  <2> QED BY <1>2, <2>1
<1> QED BY <1>3, <1>4, <1>5, <1>6, <1>7, <1>8
        DEF Next, FlushStep, TapeStep, ReaderStep

\* A file that the processor has read because it was acked gets no more
\* frames, for any number of chunks and in any order of threads.
THEOREM AckedFilesHold == Spec => AckedFilesStay
<1>1. FilesOK /\ Ends /\ Acks /\ [Next]_vars
        => [\A k \in Chunks : proc.read[k] = "acked" =>
              tape'.file[k] = tape.file[k]]_vars
  BY SealStep DEF Acks
<1>2. Init => Acks
  BY EndsInit
<1>3. FilesOK /\ Ends /\ Acks /\ [Next]_vars => Acks'
  BY AcksStep
<1>4. Spec => []Acks
  BY <1>2, <1>3, EndsAlways, PTL DEF Spec
<1> QED BY <1>1, <1>4, EndsAlways, PTL DEF Spec, AckedFilesStay

=============================================================================
