------------------------------- MODULE Audio -------------------------------
(***************************************************************************)
(* From the microphone's frames to the transcript: the flush thread, the   *)
(* rotation and the teardown of record_audio (engine/recorder.py), the     *)
(* chunked video writer that decides where a chunk ends (engine/video.py), *)
(* _wait_for_audio and _transcribe of chunk_processor.py, and the removal  *)
(* of muted speech (redaction/muted_marker.py), over AudioControl.         *)
(*                                                                         *)
(* A segment of a transcript is a frame.  The fan-out thread's two puts    *)
(* are one step, as the second reader waits for the first.                 *)
(***************************************************************************)
EXTENDS AudioControl, FiniteSets

CONSTANTS Guard,           \* _DEFAULT_GUARD_S, in ticks
          MaxChunks

ASSUME AudioAssumption == Guard \in Nat \ {0} /\ MaxChunks \in Nat \ {0}

VARIABLES tape,      \* the buffer and the files of the audio process
          flush,     \* its flush thread
          ending,    \* its main thread, once the stream is shut down
          rotQ, ackQ,      \* audio_rotate_q, audio_ack_q
          video,     \* the chunked video writer
          procQ,     \* chunk_process_q
          proc       \* the chunk processor

threads == <<flush, ending>>
tapeVars == <<tape, rotQ, ackQ>>
reader == <<procQ, proc>>
vars == <<controlVars, tapeVars, threads, video, reader>>

Chunks == 0 .. MaxChunks - 1
Jobs == [idx : Chunks, final : BOOLEAN, from : Times, to : Times]

Init ==
  /\ ControlInit
  /\ tape = [buffer |-> <<>>, file |-> [k \in Chunks |-> <<>>], idx |-> 0,
             writer |-> FALSE, finalized |-> FALSE]
  /\ flush = "waiting" /\ ending = "join"
  /\ rotQ = <<>> /\ ackQ = <<>>
  /\ video = [writer |-> FALSE, idx |-> 0, since |-> 0, ended |-> FALSE]
  /\ procQ = <<>>
  /\ proc = [job |-> <<>>, read |-> [k \in Chunks |-> "no"],
             torn |-> {}, text |-> [k \in Chunks |-> {}]]

-----------------------------------------------------------------------------
\* The control side; a frame that is captured goes into the buffer.

Control ==
  /\ SetMuted \/ SetPaused \/ Stop \/ ControlStep
  /\ UNCHANGED <<tapeVars, threads, video, reader>>

Capture ==
  /\ Tick
  /\ tape' = IF ctl.capturing
               THEN [tape EXCEPT !.buffer =
                       Append(@, [at |-> now, muted |-> want])]
               ELSE tape
  /\ UNCHANGED <<rotQ, ackQ, threads, video, reader>>

-----------------------------------------------------------------------------
\* The files.

\* _drain_for_write and a write to the current chunk's file, which is opened
\* by the first frames it gets.
Written == [tape EXCEPT !.file[tape.idx] = @ \o tape.buffer,
                        !.buffer = <<>>,
                        !.writer = @ \/ tape.buffer # <<>>]

\* Mutant: the next frames go into the file that was acked.
RotateInPlace ==
  /\ rotQ # <<>>
  /\ rotQ' = Tail(rotQ)
  /\ ackQ' = Append(ackQ, [final |-> FALSE, idx |-> tape.idx])
  /\ tape' = [Written EXCEPT !.writer = FALSE,
                             !.finalized = @ \/ Head(rotQ).final]

\* _rotate_audio: the ack follows the close, and is sent for a chunk without
\* a file too.
Rotate ==
  /\ rotQ # <<>>
  /\ rotQ' = Tail(rotQ)
  /\ ackQ' = Append(ackQ, [final |-> FALSE, idx |-> tape.idx])
  /\ tape' = [Written EXCEPT
                !.writer = FALSE,
                !.finalized = @ \/ Head(rotQ).final,
                !.idx = IF Head(rotQ).final THEN @ ELSE Head(rotQ).idx + 1]

\* _flush_loop: every 30 s, or at once when the main thread tells it to stop.
FlushWakes ==
  /\ flush = "waiting"
  /\ flush' = IF main.at = "files" THEN "ended" ELSE "rotating"
  /\ UNCHANGED <<controlVars, tapeVars, ending, video, reader>>

FlushRotates ==
  /\ flush = "rotating"
  /\ Rotate
  /\ UNCHANGED <<controlVars, threads, video, reader>>

FlushWrites ==
  /\ flush = "rotating" /\ rotQ = <<>>
  /\ IF tape.finalized THEN flush' = "ended" /\ UNCHANGED tape
                       ELSE flush' = "waiting" /\ tape' = Written
  /\ UNCHANGED <<controlVars, ending, rotQ, ackQ, video, reader>>

\* The main thread again: it tells the flush thread to stop and waits for it,
\* then takes the rotations it left, then the frames.
FlushJoined ==
  /\ ending = "join" /\ main.at = "files" /\ flush = "ended"
  /\ ending' = "remaining"
  /\ UNCHANGED <<controlVars, tapeVars, flush, video, reader>>

LastRotation ==
  /\ ending = "remaining"
  /\ Rotate
  /\ UNCHANGED <<controlVars, threads, video, reader>>

\* Mutant: what the flush thread left in the buffer is not written.
LastFramesLost ==
  /\ ending = "remaining" /\ rotQ = <<>>
  /\ ending' = "ack"
  /\ UNCHANGED <<controlVars, flush, tape, rotQ, ackQ, video, reader>>

LastFrames ==
  /\ ending = "remaining" /\ rotQ = <<>>
  /\ tape' = IF tape.finalized THEN tape ELSE Written
  /\ ending' = "ack"
  /\ UNCHANGED <<controlVars, flush, rotQ, ackQ, video, reader>>

\* audio_final is sent before the writer is closed.
FinalAck ==
  /\ ending = "ack"
  /\ ackQ' = Append(ackQ, [final |-> TRUE, idx |-> tape.idx])
  /\ ending' = "close"
  /\ UNCHANGED <<controlVars, flush, tape, rotQ, video, reader>>

CloseFile ==
  /\ ending = "close"
  /\ tape' = [tape EXCEPT !.writer = FALSE]
  /\ ending' = "done"
  /\ UNCHANGED <<controlVars, flush, rotQ, ackQ, video, reader>>

-----------------------------------------------------------------------------
\* The video writer opens its first chunk with the first frame it gets (none
\* comes while the recording is paused, or the screen denied), rotates with a
\* frame of its own clock and closes after the stop; the fan-out thread tells the
\* audio process and then the chunk processor.

FirstFrame ==
  /\ ~video.writer /\ ~video.ended
  /\ video' = [video EXCEPT !.writer = TRUE, !.since = now]
  /\ UNCHANGED <<controlVars, tapeVars, threads, reader>>

EndChunk(final) ==
  LET msg == [idx |-> video.idx, final |-> final,
              from |-> video.since, to |-> now]
  IN /\ rotQ' = Append(rotQ, [idx |-> video.idx, final |-> final])
     /\ procQ' = Append(procQ, msg)
     /\ UNCHANGED <<controlVars, threads, tape, ackQ, proc>>

RotateVideo ==
  /\ video.writer /\ ~video.ended
  /\ video.idx + 1 < MaxChunks /\ video.since < now
  /\ video' = [video EXCEPT !.idx = @ + 1, !.since = now]
  /\ EndChunk(FALSE)

\* Mutant: a last chunk in which nothing was recorded is not announced.
CloseVideoIfAny ==
  /\ ~video.ended /\ ~Running
  /\ video' = [video EXCEPT !.ended = TRUE]
  /\ IF video.writer /\ video.since < now
       THEN EndChunk(TRUE)
       ELSE UNCHANGED <<controlVars, tapeVars, threads, reader>>

\* A writer that never got a frame announces no chunk.
CloseVideo ==
  /\ ~video.ended /\ ~Running
  /\ video' = [video EXCEPT !.ended = TRUE]
  /\ IF video.writer THEN EndChunk(TRUE)
                     ELSE UNCHANGED <<controlVars, tapeVars, threads, reader>>

-----------------------------------------------------------------------------
\* The chunk processor.

TakeChunk ==
  /\ proc.job = <<>> /\ procQ # <<>>
  /\ proc' = [proc EXCEPT !.job = <<Head(procQ)>>]
  /\ procQ' = Tail(procQ)
  /\ UNCHANGED <<controlVars, tapeVars, threads, video>>

\* apply_muted_intervals_to_segments.  The muted spans of a chunk, as the
\* ticks they cover; the rest is what its file is taken to hold.
Quiet(from, to) ==
  {t \in 0 .. to - from - 1 :
     \E r \in rows : /\ r.start - from <= t
                     /\ r.end = Open \/ t < r.end - from}

\* _compressed_to_wall: where offset c of the file is put in the chunk.
ToWall(c, from, to) ==
  LET spoken == (0 .. to - from - 1) \ Quiet(from, to)
      Before(t) == Cardinality({u \in spoken : u < t})
  IN IF spoken = {} THEN c
     ELSE IF c = 0 THEN CHOOSE t \in spoken : Before(t) = 0
     ELSE LET n == IF c <= Cardinality(spoken) THEN c ELSE Cardinality(spoken)
          IN 1 + CHOOSE t \in spoken : Before(t) = n - 1

\* Mutant: what lies next to a muted span is kept.
DroppedInside(i, from, to) ==
  \E q \in Quiet(from, to) : /\ ToWall(i - 1, from, to) <= q
                             /\ ToWall(i, from, to) > q

\* The segment of a file's frame i is dropped when it comes to lie within the
\* guard of a muted span.
Dropped(i, from, to) ==
  \E q \in Quiet(from, to) : /\ ToWall(i - 1, from, to) <= q + Guard
                             /\ ToWall(i, from, to) > q - Guard

\* _transcribe, once the wait for the audio is over.
Transcribe(how) ==
  LET job == proc.job[1]
      file == tape.file[job.idx]
  IN proc' = [proc EXCEPT
       !.job = <<>>,
       !.read[job.idx] = how,
       !.torn = IF tape.writer /\ tape.idx = job.idx THEN @ \cup {job.idx}
                                                     ELSE @,
       !.text[job.idx] = {file[i] : i \in {j \in DOMAIN file :
                                             ~Dropped(j, job.from, job.to)}}]

\* _wait_for_audio: an ack for another chunk is thrown away.
TakeAck ==
  /\ proc.job # <<>> /\ ackQ # <<>>
  /\ ackQ' = Tail(ackQ)
  /\ IF \/ Head(ackQ).idx = proc.job[1].idx
        \/ Head(ackQ).final /\ proc.job[1].final
       THEN Transcribe("acked")
       ELSE UNCHANGED proc
  /\ UNCHANGED <<controlVars, tape, rotQ, threads, video, procQ>>

\* The 60 s run out: twice the period of the flush thread, so only when no
\* ack is to come any more.
WaitTimesOut ==
  /\ proc.job # <<>> /\ ackQ = <<>> /\ ending = "done"
  /\ Transcribe("timeout")
  /\ UNCHANGED <<controlVars, tapeVars, threads, video, procQ>>

-----------------------------------------------------------------------------

TapeStep == \/ FlushJoined \/ LastRotation \/ LastFrames \/ FinalAck
            \/ CloseFile
FlushStep == FlushWakes \/ FlushRotates \/ FlushWrites
VideoStep == FirstFrame \/ RotateVideo \/ CloseVideo
ReaderStep == TakeChunk \/ TakeAck \/ WaitTimesOut

Next == \/ Control \/ Capture \/ FlushStep \/ TapeStep
        \/ VideoStep \/ ReaderStep

Spec == Init /\ [][Next]_vars

\* Each thread and process goes on; nobody has to stop a recording.
MainStep == (ControlStep /\ UNCHANGED <<tapeVars, threads, video, reader>>)
            \/ TapeStep
LiveSpec == /\ Spec
            /\ WF_vars(MainStep) /\ WF_vars(FlushStep) /\ WF_vars(ReaderStep)
            /\ WF_vars(CloseVideo)

-----------------------------------------------------------------------------

TypeOK ==
  /\ ControlTypeOK
  /\ tape \in [buffer : Seq(Frames), file : [Chunks -> Seq(Frames)],
               idx : Chunks, writer : BOOLEAN, finalized : BOOLEAN]
  /\ flush \in {"waiting", "rotating", "ended"}
  /\ ending \in {"join", "remaining", "ack", "close", "done"}
  /\ rotQ \in Seq([idx : Chunks, final : BOOLEAN])
  /\ ackQ \in Seq([idx : Chunks, final : BOOLEAN])
  /\ video \in [writer : BOOLEAN, idx : Chunks, since : Times,
               ended : BOOLEAN]
  /\ procQ \in Seq(Jobs)
  /\ proc \in [job : Seq(Jobs), read : [Chunks -> {"no", "acked", "timeout"}],
               torn : SUBSET Chunks, text : [Chunks -> SUBSET Frames]]

\* The frames that are in the buffer or in a file.
InBuffer(f) == \E i \in DOMAIN tape.buffer : tape.buffer[i] = f
InFile(f) == \E k \in Chunks : \E i \in DOMAIN tape.file[k] : tape.file[k][i] = f

\* Every frame that was captured before the stop gets into a file, through
\* every order of the flush thread's rounds, the rotations, the final chunk
\* and the teardown's own drain.
FramesKept ==
  \A f \in heard : Running \/ f.at < stopAt =>
    InFile(f) \/ (InBuffer(f) /\ ending \in {"join", "remaining"})

\* A file that the processor read because the audio process had acked it gets
\* no more frames: the transcript is of the whole chunk.
AckedFilesStay ==
  [][\A k \in Chunks : proc.read[k] = "acked" =>
       tape'.file[k] = tape.file[k]]_vars

\* Of what was said in the first chunk, nothing that lies in a muted interval
\* when the chunk is transcribed gets into the transcript ("no muted speech
\* reaches the transcript", muted_marker.py:8): although the file's offsets leave
\* out the muted spans, and hold the moments before each stop took effect.  This
\* is so when the video's first frame comes with the audio's.  The file of a later
\* chunk begins with the flush thread's next round and not with the chunk, and of
\* a first chunk that begins later than its file it is not true either.
MutedSpeechStaysOut ==
  [][proc.read[0] # proc'.read[0] /\ proc.job[1].from = 0 =>
       \A f \in proc'.text[0] : f.at < proc.job[1].to => ~Covered(f)]_vars

\* After a stop both processes end, and every chunk of the video has been
\* transcribed, whatever rotation, final chunk and acks overlap the teardown (a
\* recording that never got a video frame has no chunk).
StopEnds ==
  ~Running ~> /\ ending = "done" /\ video.ended
              /\ video.writer => \A k \in 0 .. video.idx : proc.read[k] # "no"

\* "Wait for audio process to confirm rotation/finalization"
\* (chunk_processor.py:882): what it reads then has been closed.
AckMeansClosed == \A k \in Chunks : proc.read[k] = "acked" => k \notin proc.torn
=============================================================================
