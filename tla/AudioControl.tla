---------------------------- MODULE AudioControl ----------------------------
(***************************************************************************)
(* Mute and pause of the microphone, from the engine's control channel to  *)
(* the stream (the command handlers and the poll loop of record_audio in   *)
(* engine/recorder.py, audio_mute.py, the muted intervals of               *)
(* engine/db/crud.py).                                                     *)
(*                                                                         *)
(* Three actors: the control channel's reader in the engine's main         *)
(* process, the main thread of the audio process, and the device, which is *)
(* the clock: while the stream runs, each tick captures a frame.  A frame  *)
(* knows when it was captured and whether the user had last asked for      *)
(* silence.                                                                *)
(***************************************************************************)
EXTENDS Integers, Sequences

CONSTANTS InitiallyMuted,  \* the recording starts with audio off
          Axes,            \* which commands come: "mute", "pause"
          Faults,          \* which operations may raise, or skip
          PollTicks,       \* a command is taken up before it is this old
          MaxTime,
          MaxCommands,     \* of each axis
          MaxTogether      \* of both

ASSUME ControlAssumption ==
  /\ InitiallyMuted \in BOOLEAN
  /\ Axes \subseteq {"mute", "pause"}
  /\ Faults \subseteq {"open", "close", "stop", "device", "skip"}
  /\ PollTicks \in Nat \ {0}
  /\ MaxTime \in Nat /\ MaxCommands \in Nat /\ MaxTogether \in Nat

VARIABLES now,
          want,      \* history: the last set_muted that was received
          asked,     \* history: how many set_muted were received
          toggled,   \* history: how many set_paused changed the gate
          answered,  \* history: how many terminal events were emitted
          said,      \* the last of them, which is what the app shows
          muteQ, pauseQ,   \* mute_control_q, pause_control_q
          gate,      \* _CapturePauseState of the engine's main process
          ctl,       \* AudioStreamController
          rows,      \* muted_intervals
          heard,     \* history: every frame that was captured
          main,      \* the audio process's main thread
          stopAt     \* when terminate_processing was set

history == <<want, asked, toggled, answered>>
queues == <<muteQ, pauseQ, gate>>
mic == <<ctl, rows>>
controlVars == <<now, history, said, queues, mic, heard, main, stopAt>>

Open == -1                      \* an interval's end, while it has none
Times == 0 .. MaxTime
Commands == [val : BOOLEAN, ts : Times]
Frames == [at : Times, muted : BOOLEAN]
Running == stopAt = Open

\* What stands between the controller and the device: _open_and_start and
\* stream.start() when capture has to begin, stream.stop() when it has to end.
\* A retained stream is started as it is, so the policy cannot skip it.
Outcomes(c, on) ==
  IF on THEN {"ok"} \cup (Faults \cap {"device"})
                    \cup (IF c.stream THEN {} ELSE Faults \cap {"skip"})
        ELSE {"ok"} \cup (Faults \cap {"stop"})

\* The controller after it; a stream that was opened but not started is kept.
Begun(c, how) ==
  CASE how = "ok" -> {[c EXCEPT !.stream = TRUE, !.capturing = TRUE]}
    [] how = "device" -> {c, [c EXCEPT !.stream = TRUE]}
    [] how = "skip" -> {c}

\* start_initial; a device that cannot be opened leaves the stream off.
ControlInit ==
  /\ now = 0
  /\ want = InitiallyMuted /\ asked = 0 /\ toggled = 0
  /\ answered = 0 /\ said = "none"
  /\ muteQ = <<>> /\ pauseQ = <<>> /\ gate = FALSE
  /\ LET off == [stream |-> FALSE, capturing |-> FALSE,
                 muted |-> InitiallyMuted, paused |-> FALSE]
     IN IF InitiallyMuted THEN ctl = off
        ELSE \E how \in Outcomes(off, TRUE) : ctl \in Begun(off, how)
  /\ rows = {} /\ heard = {}
  /\ main = [at |-> "mutes", last |-> FALSE]
  /\ stopAt = Open

-----------------------------------------------------------------------------
\* The control channel's reader, in the engine's main process.

\* _make_set_muted_handler: the time of receipt travels with the command.
SetMuted ==
  /\ "mute" \in Axes /\ asked < MaxCommands /\ asked + toggled < MaxTogether
  /\ \E v \in BOOLEAN :
       /\ want' = v
       /\ muteQ' = Append(muteQ, [val |-> v, ts |-> now])
  /\ asked' = asked + 1
  /\ UNCHANGED <<now, toggled, answered, said, pauseQ, gate, mic, heard, main,
                 stopAt>>

\* _make_set_paused_handler; a request for the state it is in does nothing.
SetPaused ==
  /\ "pause" \in Axes /\ toggled < MaxCommands /\ asked + toggled < MaxTogether
  /\ gate' = ~gate
  /\ pauseQ' = Append(pauseQ, [val |-> gate', ts |-> now])
  /\ toggled' = toggled + 1
  /\ UNCHANGED <<now, want, asked, answered, said, muteQ, mic, heard, main,
                 stopAt>>

Stop ==
  /\ Running
  /\ stopAt' = now
  /\ UNCHANGED <<now, history, said, queues, mic, heard, main>>

-----------------------------------------------------------------------------
\* The device.

\* While the main thread polls, no command waits for as long as PollTicks.
Polling == main.at \in {"mutes", "pauses"}
Soon(q) == \A i \in DOMAIN q : now < q[i].ts + PollTicks

\* One block of audio_callback, if the stream runs.
Tick ==
  /\ now < MaxTime
  /\ Polling => Soon(muteQ) /\ Soon(pauseQ)
  /\ now' = now + 1
  /\ heard' = IF ctl.capturing
                THEN heard \cup {[at |-> now, muted |-> want]} ELSE heard
  /\ UNCHANGED <<history, said, queues, mic, main, stopAt>>

-----------------------------------------------------------------------------
\* The audio process's main thread: mute commands, then pause commands.

\* Mutant: the interval begins when the command is applied.
OpenedLate(ts) == rows \cup {[start |-> now, end |-> Open]}

Opened(ts) == rows \cup {[start |-> ts, end |-> Open]}
\* Mutant: intervals are not closed.
LeftOpen(ts) == rows

Closed(ts) == {IF r.end = Open THEN [r EXCEPT !.end = ts] ELSE r : r \in rows}

Emit(event) ==
  /\ said' = event
  /\ answered' = answered + 1

\* Mutant: a stream that does not stop is not announced.
MuteUnannounced(ts) ==
  \/ /\ ~ctl.capturing
     /\ ctl' = [ctl EXCEPT !.muted = TRUE]
     /\ Emit("muted")
     /\ UNCHANGED rows
  \/ /\ ctl.capturing
     /\ rows' = Opened(ts)
     /\ \/ /\ ctl' = [ctl EXCEPT !.capturing = FALSE, !.muted = TRUE]
           /\ Emit("muted")
        \/ /\ "stop" \in Faults
           /\ UNCHANGED <<ctl, said, answered>>

\* _apply_audio_mute_command and apply_muted, for muted = True: the interval
\* is opened, from the time of receipt, before the stream is stopped.
Mute(ts) ==
  \/ /\ ~ctl.capturing
     /\ ctl' = [ctl EXCEPT !.muted = TRUE]
     /\ Emit("muted")
     /\ UNCHANGED rows
  \/ /\ ctl.capturing
     /\ rows' = Opened(ts)
     /\ \E how \in Outcomes(ctl, FALSE) :
          IF how = "ok"
            THEN /\ ctl' = [ctl EXCEPT !.capturing = FALSE, !.muted = TRUE]
                 /\ Emit("muted")
            ELSE /\ Emit("mute_failed")
                 /\ UNCHANGED ctl
  \/ /\ ctl.capturing /\ "open" \in Faults
     /\ Emit("mute_failed")
     /\ UNCHANGED mic

\* The same for muted = False.  Only a capture that began closes the span; a
\* close that fails is caught by the poll loop, which emits nothing.
Unmute(ts) ==
  IF ctl.paused \/ ctl.capturing
  THEN /\ ctl' = [ctl EXCEPT !.muted = FALSE]
       /\ Emit("unmuted")
       /\ UNCHANGED rows
  ELSE \E how \in Outcomes(ctl, TRUE) : \E c \in Begun(ctl, how) :
         /\ ctl' = IF how = "device" THEN c ELSE [c EXCEPT !.muted = FALSE]
         /\ \/ /\ rows' = IF how = "ok" THEN Closed(ts) ELSE rows
               /\ Emit(IF how = "device" THEN "unmute_failed" ELSE "unmuted")
            \/ /\ how = "ok" /\ "close" \in Faults
               /\ UNCHANGED <<rows, said, answered>>

\* _apply_audio_pause_command and apply_paused; what raises is swallowed.
Pause ==
  \E how \in (IF ctl.capturing THEN Outcomes(ctl, FALSE) ELSE {"ok"}) :
     ctl' = IF how = "ok"
            THEN [ctl EXCEPT !.capturing = FALSE, !.paused = TRUE] ELSE ctl

\* Mutant: a resume does not ask whether the microphone is muted.
ResumeAnyway ==
  \E how \in Outcomes(ctl, TRUE) : \E c \in Begun(ctl, how) :
     ctl' = IF how = "device" THEN c ELSE [c EXCEPT !.paused = FALSE]

Resume ==
  IF ctl.muted \/ ctl.capturing
  THEN ctl' = [ctl EXCEPT !.paused = FALSE]
  ELSE \E how \in Outcomes(ctl, TRUE) : \E c \in Begun(ctl, how) :
         ctl' = IF how = "device" THEN c ELSE [c EXCEPT !.paused = FALSE]

Go(at) == main' = [main EXCEPT !.at = at]

NextMute ==
  /\ main.at = "mutes" /\ muteQ # <<>>
  /\ muteQ' = Tail(muteQ)
  /\ LET c == Head(muteQ) IN IF c.val THEN Mute(c.ts) ELSE Unmute(c.ts)
  /\ UNCHANGED <<now, want, asked, toggled, pauseQ, gate, heard, main, stopAt>>

MutesApplied ==
  /\ main.at = "mutes" /\ muteQ = <<>>
  /\ Go("pauses")
  /\ UNCHANGED <<now, history, said, queues, mic, heard, stopAt>>

NextPause ==
  /\ main.at = "pauses" /\ pauseQ # <<>>
  /\ pauseQ' = Tail(pauseQ)
  /\ IF Head(pauseQ).val THEN Pause ELSE Resume
  /\ UNCHANGED <<now, history, said, muteQ, gate, rows, heard, main, stopAt>>

\* The poll loop ends with one more drain of both queues.
PausesApplied ==
  /\ main.at = "pauses" /\ pauseQ = <<>>
  /\ main' = [at |-> IF main.last THEN "shutdown" ELSE "mutes",
              last |-> main.last \/ ~Running]
  /\ UNCHANGED <<now, history, said, queues, mic, heard, stopAt>>

Shutdown ==
  /\ main.at = "shutdown"
  /\ ctl' = [ctl EXCEPT !.capturing = FALSE]
  /\ Go("closing")
  /\ UNCHANGED <<now, history, said, queues, rows, heard, stopAt>>

\* A span that is still open ends with the recording.
CloseSpan ==
  /\ main.at = "closing"
  /\ rows' \in {Closed(now)} \cup (IF "close" \in Faults THEN {rows} ELSE {})
  /\ Go("files")
  /\ UNCHANGED <<now, history, said, queues, ctl, heard, stopAt>>

-----------------------------------------------------------------------------

ControlStep == \/ NextMute \/ MutesApplied \/ NextPause \/ PausesApplied
               \/ Shutdown \/ CloseSpan
ControlNext == SetMuted \/ SetPaused \/ Stop \/ Tick \/ ControlStep
ControlSpec == ControlInit /\ [][ControlNext]_controlVars

-----------------------------------------------------------------------------

ControlTypeOK ==
  /\ now \in Times /\ stopAt \in Times \cup {Open}
  /\ want \in BOOLEAN /\ gate \in BOOLEAN
  /\ asked \in 0 .. MaxCommands /\ toggled \in 0 .. MaxCommands
  /\ answered \in 0 .. MaxCommands
  /\ said \in {"none", "muted", "unmuted", "mute_failed", "unmute_failed"}
  /\ muteQ \in Seq(Commands) /\ pauseQ \in Seq(Commands)
  /\ ctl \in [stream : BOOLEAN, capturing : BOOLEAN,
              muted : BOOLEAN, paused : BOOLEAN]
  /\ rows \subseteq [start : Times, end : Times \cup {Open}]
  /\ heard \subseteq Frames
  /\ main \in [at : {"mutes", "pauses", "shutdown", "closing", "files"},
               last : BOOLEAN]

\* While the last thing the app was told is that the microphone is muted,
\* nothing is captured, whatever pauses and resumes come meanwhile and
\* whatever the device does (the confirmed state of _apply_audio_mute_command).
ConfirmedMuteIsSilent == said = "muted" => ~ctl.capturing

\* Every set_muted that was taken up has had exactly one terminal event, so
\* the app's in-flight guard is released and released once.
OneAnswerPerRequest == answered + Len(muteQ) = asked

\* Once both queues are empty the stream runs exactly when neither the last
\* mute command nor the last pause command suppresses it: the two axes
\* compose in whatever order the process met their commands.
AxesAgree ==
  /\ muteQ = <<>> /\ pauseQ = <<>>
  /\ Polling
  => (ctl.capturing <=> ~want /\ ~gate)

Covers(r, f) == r.start <= f.at /\ (r.end = Open \/ f.at < r.end)
Covered(f) == \E r \in rows : Covers(r, f)

\* The mute command that governs f and has not been applied yet.
Pending(f) ==
  \E i \in DOMAIN muteQ :
     /\ muteQ[i].val /\ muteQ[i].ts <= f.at
     /\ i < Len(muteQ) => f.at < muteQ[i + 1].ts

\* What was captured after the user asked for silence, in the time it takes
\* to stop the stream, lies in a muted interval as soon as the command has
\* been applied; unless the row could not be written, which is announced.
MutedIsCovered == \A f \in heard : f.muted => Covered(f) \/ Pending(f)

\* Without failures nothing else does: no interval reaches over what was said
\* with the microphone on, so none of that is lost to the transcript.
HeardIsUncovered ==
  muteQ = <<>> => \A f \in heard : Covered(f) => f.muted
=============================================================================
