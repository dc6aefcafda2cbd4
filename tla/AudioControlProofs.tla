------------------------- MODULE AudioControlProofs -------------------------
(***************************************************************************)
(* Proofs about mute and pause, for any number of commands and any clock:  *)
(* a confirmed mute is silent and every request has one answer whatever    *)
(* the device does, the two axes agree, and what was captured after the    *)
(* user asked for silence, and nothing else, lies in a muted interval.     *)
(***************************************************************************)
EXTENDS AudioControl, TLAPS

Controllers == [stream : BOOLEAN, capturing : BOOLEAN,
                muted : BOOLEAN, paused : BOOLEAN]
Rows == [start : Times, end : Times \cup {Open}]

\* What the device may do to the controller.
LEMMA BegunIs ==
  ASSUME NEW c \in Controllers, NEW how \in Outcomes(c, TRUE),
         NEW d \in Begun(c, how)
  PROVE  /\ how \in {"ok", "device", "skip"}
         /\ how # "ok" => how \in Faults
         /\ d \in Controllers
         /\ d.muted = c.muted /\ d.paused = c.paused
         /\ how = "ok" => d.capturing
         /\ how # "ok" => d.capturing = c.capturing
<1>1. how \in {"ok", "device", "skip"} /\ (how # "ok" => how \in Faults)
  BY DEF Outcomes
<1>2. CASE how = "ok"
  <2>1. d = [c EXCEPT !.stream = TRUE, !.capturing = TRUE]
    BY <1>2 DEF Begun
  <2> QED BY <1>1, <1>2, <2>1 DEF Controllers
<1>3. CASE how = "device"
  <2>1. d \in {c, [c EXCEPT !.stream = TRUE]}
    BY <1>3 DEF Begun
  <2> QED BY <1>1, <1>3, <2>1 DEF Controllers
<1>4. CASE how = "skip"
  <2>1. d = c
    BY <1>4 DEF Begun
  <2> QED BY <1>1, <1>4, <2>1 DEF Controllers
<1> QED BY <1>1, <1>2, <1>3, <1>4

LEMMA ClosedIs ==
  ASSUME rows \subseteq Rows, NEW ts \in Times
  PROVE  /\ Closed(ts) \subseteq Rows
         /\ Opened(ts) \subseteq Rows
BY DEF Closed, Opened, Rows, Open, Times

-----------------------------------------------------------------------------
(* Types.                                                                  *)

ControlTyped == ControlTypeOK /\ answered + Len(muteQ) <= asked

LEMMA ControlTypedInit == ControlInit => ControlTyped
<1> SUFFICES ASSUME ControlInit PROVE ControlTyped
  OBVIOUS
<1> USE ControlAssumption
<1>1. ctl \in Controllers
  <2> DEFINE off == [stream |-> FALSE, capturing |-> FALSE,
                     muted |-> InitiallyMuted, paused |-> FALSE]
  <2>1. off \in Controllers
    BY DEF Controllers
  <2>2. CASE InitiallyMuted
    BY <2>1, <2>2 DEF ControlInit
  <2>3. CASE ~InitiallyMuted
    <3>1. PICK how \in Outcomes(off, TRUE) : ctl \in Begun(off, how)
      BY <2>3 DEF ControlInit
    <3> QED BY <2>1, <3>1, BegunIs
  <2> QED BY <2>2, <2>3
<1>2. /\ now = 0 /\ stopAt = -1 /\ want = InitiallyMuted /\ gate = FALSE
      /\ asked = 0 /\ toggled = 0 /\ answered = 0 /\ said = "none"
      /\ muteQ = <<>> /\ pauseQ = <<>> /\ rows = {} /\ heard = {}
      /\ main = [at |-> "mutes", last |-> FALSE]
  BY DEF ControlInit, Open
<1>3. muteQ \in Seq(Commands) /\ pauseQ \in Seq(Commands) /\ Len(muteQ) = 0
  BY <1>2
<1>4. 0 \in Times /\ asked \in 0 .. MaxCommands
      /\ toggled \in 0 .. MaxCommands /\ answered \in 0 .. MaxCommands
  BY <1>2 DEF Times
<1>5. answered + Len(muteQ) <= asked
  BY <1>2, <1>3
<1> QED BY <1>1, <1>2, <1>3, <1>4, <1>5
        DEF ControlTyped, ControlTypeOK, Controllers, Open

\* What a mute command does, in the terms of the proofs.
LEMMA MuteIs ==
  ASSUME ControlTyped, NEW ts \in Times, Mute(ts)
  PROVE  /\ ctl' \in Controllers
         /\ rows' \in {rows, Opened(ts)}
         /\ answered' = answered + 1
         /\ said' \in {"muted", "mute_failed"}
         /\ said' = "muted" => ctl'.muted /\ ~ctl'.capturing
         /\ ctl'.paused = ctl.paused
         /\ said' = "mute_failed" =>
              /\ ctl' = ctl /\ ctl.capturing
              /\ "open" \in Faults \/ "stop" \in Faults
         /\ ctl.capturing /\ "open" \notin Faults => rows' = Opened(ts)
         /\ ~ctl.capturing => rows' = rows
         /\ ctl'.capturing => ctl.capturing
<1>1. ctl \in Controllers
  BY DEF ControlTyped, ControlTypeOK, Controllers
<1>2. CASE ~ctl.capturing /\ ctl' = [ctl EXCEPT !.muted = TRUE]
           /\ Emit("muted") /\ UNCHANGED rows
  BY <1>1, <1>2 DEF Emit, Controllers
<1>3. CASE /\ ctl.capturing
           /\ rows' = Opened(ts)
           /\ \E how \in Outcomes(ctl, FALSE) :
                IF how = "ok"
                  THEN /\ ctl' = [ctl EXCEPT !.capturing = FALSE, !.muted = TRUE]
                       /\ Emit("muted")
                  ELSE Emit("mute_failed") /\ UNCHANGED ctl
  <2>1. PICK how \in Outcomes(ctl, FALSE) :
                IF how = "ok"
                  THEN /\ ctl' = [ctl EXCEPT !.capturing = FALSE, !.muted = TRUE]
                       /\ Emit("muted")
                  ELSE Emit("mute_failed") /\ UNCHANGED ctl
    BY <1>3
  <2>2. how # "ok" => "stop" \in Faults
    BY DEF Outcomes
  <2>3. CASE how = "ok"
    BY <1>1, <1>3, <2>1, <2>3 DEF Emit, Controllers
  <2>4. CASE how # "ok"
    BY <1>1, <1>3, <2>1, <2>2, <2>4 DEF Emit
  <2> QED BY <2>3, <2>4
<1>4. CASE ctl.capturing /\ "open" \in Faults /\ Emit("mute_failed")
           /\ UNCHANGED mic
  BY <1>1, <1>4 DEF Emit, mic
<1> QED BY <1>2, <1>3, <1>4 DEF Mute

\* And what an unmute does.
LEMMA UnmuteIs ==
  ASSUME ControlTyped, NEW ts \in Times, Unmute(ts)
  PROVE  /\ ctl' \in Controllers
         /\ ctl'.paused = ctl.paused
         /\ rows' \in {rows, Closed(ts)}
         /\ \/ /\ answered' = answered + 1
               /\ said' \in {"unmuted", "unmute_failed"}
            \/ /\ "close" \in Faults
               /\ UNCHANGED <<answered, said, rows>>
         /\ ctl'.muted => ctl.muted /\ "device" \in Faults
         /\ ctl'.capturing => ctl.capturing \/ ~(ctl'.muted \/ ctl.paused)
         /\ ctl.capturing => ctl'.capturing
         /\ ctl.capturing \/ ctl.paused => ctl'.capturing = ctl.capturing
         /\ ~ctl.capturing /\ ~ctl.paused /\ Faults \cap {"device", "skip"} = {}
              => ctl'.capturing
         /\ ctl'.capturing /\ ~ctl.capturing =>
              rows' = Closed(ts) \/ "close" \in Faults
         /\ ctl.capturing \/ ~ctl'.capturing => rows' = rows
<1>1. ctl \in Controllers
  BY DEF ControlTyped, ControlTypeOK, Controllers
<1>2. CASE ctl.paused \/ ctl.capturing
  <2>1. /\ ctl' = [ctl EXCEPT !.muted = FALSE]
        /\ Emit("unmuted") /\ rows' = rows
    BY <1>2 DEF Unmute
  <2> QED BY <1>1, <1>2, <2>1 DEF Emit, Controllers
<1>3. CASE ~(ctl.paused \/ ctl.capturing)
  <2>0. PICK how \in Outcomes(ctl, TRUE) : \E c \in Begun(ctl, how) :
         /\ ctl' = IF how = "device" THEN c ELSE [c EXCEPT !.muted = FALSE]
         /\ \/ /\ rows' = IF how = "ok" THEN Closed(ts) ELSE rows
               /\ Emit(IF how = "device" THEN "unmute_failed" ELSE "unmuted")
            \/ /\ how = "ok" /\ "close" \in Faults
               /\ UNCHANGED <<rows, said, answered>>
    BY <1>3 DEF Unmute
  <2>1. PICK c \in Begun(ctl, how) :
         /\ ctl' = IF how = "device" THEN c ELSE [c EXCEPT !.muted = FALSE]
         /\ \/ /\ rows' = IF how = "ok" THEN Closed(ts) ELSE rows
               /\ Emit(IF how = "device" THEN "unmute_failed" ELSE "unmuted")
            \/ /\ how = "ok" /\ "close" \in Faults
               /\ UNCHANGED <<rows, said, answered>>
    BY <2>0
  <2>2. /\ how \in {"ok", "device", "skip"}
        /\ how # "ok" => how \in Faults
        /\ c \in Controllers
        /\ c.muted = ctl.muted /\ c.paused = ctl.paused
        /\ how = "ok" => c.capturing
        /\ how # "ok" => c.capturing = ctl.capturing
    BY <1>1, BegunIs
  <2>3. /\ ctl' \in Controllers
        /\ ctl'.paused = c.paused /\ ctl'.capturing = c.capturing
        /\ IF how = "device" THEN ctl'.muted = c.muted ELSE ctl'.muted = FALSE
    BY <2>1, <2>2 DEF Controllers
  <2>4. /\ rows' \in {rows, Closed(ts)}
        /\ \/ answered' = answered + 1 /\ said' \in {"unmuted", "unmute_failed"}
           \/ "close" \in Faults /\ UNCHANGED <<answered, said, rows>>
        /\ how = "ok" => rows' = Closed(ts) \/ "close" \in Faults
        /\ how # "ok" => rows' = rows
    BY <2>1 DEF Emit
  <2> QED BY <1>3, <2>2, <2>3, <2>4
<1> QED BY <1>2, <1>3

LEMMA PauseIs ==
  ASSUME ControlTyped, Pause
  PROVE  /\ ctl' \in Controllers
         /\ ctl'.muted = ctl.muted
         /\ ctl'.capturing => ctl.capturing
         /\ "stop" \notin Faults => ctl'.paused /\ ~ctl'.capturing
         /\ ctl' = ctl \/ (ctl'.paused /\ ~ctl'.capturing)
<1>1. ctl \in Controllers
  BY DEF ControlTyped, ControlTypeOK, Controllers
<1>2. PICK how \in (IF ctl.capturing THEN Outcomes(ctl, FALSE) ELSE {"ok"}) :
        ctl' = IF how = "ok"
               THEN [ctl EXCEPT !.capturing = FALSE, !.paused = TRUE] ELSE ctl
  BY DEF Pause
<1>3. how # "ok" => "stop" \in Faults
  BY DEF Outcomes
<1> QED BY <1>1, <1>2, <1>3 DEF Controllers

LEMMA ResumeIs ==
  ASSUME ControlTyped, Resume
  PROVE  /\ ctl' \in Controllers
         /\ ctl'.muted = ctl.muted
         /\ ctl'.paused => ctl.paused /\ "device" \in Faults
         /\ ctl'.capturing => ctl.capturing \/ ~(ctl'.muted \/ ctl'.paused)
         /\ ctl.capturing \/ ctl.muted => ctl'.capturing = ctl.capturing
         /\ ~ctl.muted /\ Faults \cap {"device", "skip"} = {} => ctl'.capturing
<1>1. ctl \in Controllers
  BY DEF ControlTyped, ControlTypeOK, Controllers
<1>2. CASE ctl.muted \/ ctl.capturing
  <2>1. ctl' = [ctl EXCEPT !.paused = FALSE]
    BY <1>2 DEF Resume
  <2> QED BY <1>1, <1>2, <2>1 DEF Controllers
<1>3. CASE ~(ctl.muted \/ ctl.capturing)
  <2>0. PICK how \in Outcomes(ctl, TRUE) : \E c \in Begun(ctl, how) :
         ctl' = IF how = "device" THEN c ELSE [c EXCEPT !.paused = FALSE]
    BY <1>3 DEF Resume
  <2>1. PICK c \in Begun(ctl, how) :
         ctl' = IF how = "device" THEN c ELSE [c EXCEPT !.paused = FALSE]
    BY <2>0
  <2>2. /\ how \in {"ok", "device", "skip"}
        /\ how # "ok" => how \in Faults
        /\ c \in Controllers
        /\ c.muted = ctl.muted /\ c.paused = ctl.paused
        /\ how = "ok" => c.capturing
        /\ how # "ok" => c.capturing = ctl.capturing
    BY <1>1, BegunIs
  <2>3. /\ ctl' \in Controllers
        /\ ctl'.muted = c.muted /\ ctl'.capturing = c.capturing
        /\ IF how = "device" THEN ctl'.paused = c.paused ELSE ctl'.paused = FALSE
    BY <2>1, <2>2 DEF Controllers
  <2> QED BY <1>3, <2>2, <2>3
<1> QED BY <1>2, <1>3

LEMMA QueueIs ==
  ASSUME NEW S, NEW q \in Seq(S)
  PROVE  /\ Len(q) \in Nat /\ DOMAIN q = 1 .. Len(q)
         /\ \A i \in DOMAIN q : q[i] \in S
OBVIOUS

LEMMA HeadIs ==
  ASSUME NEW S, NEW q \in Seq(S), q # <<>>
  PROVE  /\ Head(q) \in S /\ Head(q) = q[1]
         /\ Tail(q) \in Seq(S)
         /\ Len(q) \in Nat \ {0} /\ Len(Tail(q)) = Len(q) - 1
         /\ \A i \in 1 .. Len(q) - 1 : Tail(q)[i] = q[i + 1]
OBVIOUS

LEMMA AppendIs ==
  ASSUME NEW S, NEW q \in Seq(S), NEW e \in S
  PROVE  /\ Append(q, e) \in Seq(S)
         /\ Len(q) \in Nat /\ Len(Append(q, e)) = Len(q) + 1
         /\ \A i \in 1 .. Len(q) : Append(q, e)[i] = q[i]
         /\ Append(q, e)[Len(q) + 1] = e
OBVIOUS

LEMMA ControlTypedStep ==
  ControlTyped /\ [ControlNext]_controlVars => ControlTyped'
<1> SUFFICES ASSUME ControlTyped, [ControlNext]_controlVars
             PROVE  ControlTyped'
  OBVIOUS
<1> USE ControlAssumption DEF Go
<1>0. /\ now \in Times /\ stopAt \in Times \cup {Open}
      /\ want \in BOOLEAN /\ gate \in BOOLEAN
      /\ asked \in Nat /\ asked <= MaxCommands
      /\ toggled \in 0 .. MaxCommands
      /\ answered \in Nat /\ Len(muteQ) \in Nat
      /\ answered + Len(muteQ) <= asked
      /\ said \in {"none", "muted", "unmuted", "mute_failed", "unmute_failed"}
      /\ muteQ \in Seq(Commands) /\ pauseQ \in Seq(Commands)
      /\ ctl \in Controllers
      /\ rows \subseteq Rows
      /\ heard \subseteq Frames
      /\ main \in [at : {"mutes", "pauses", "shutdown", "closing", "files"},
                   last : BOOLEAN]
  BY DEF ControlTyped, ControlTypeOK, Controllers, Rows
<1>1. CASE SetMuted
  <2>1. PICK v \in BOOLEAN :
          want' = v /\ muteQ' = Append(muteQ, [val |-> v, ts |-> now])
    BY <1>1 DEF SetMuted
  <2>2. [val |-> v, ts |-> now] \in Commands
    BY <1>0 DEF Commands
  <2>3. muteQ' \in Seq(Commands) /\ Len(muteQ') = Len(muteQ) + 1
    BY <1>0, <2>1, <2>2, AppendIs
  <2>4. /\ asked' = asked + 1 /\ asked < MaxCommands
        /\ UNCHANGED <<now, toggled, answered, said, pauseQ, gate, ctl, rows,
                       heard, main, stopAt>>
    BY <1>1 DEF SetMuted, mic
  <2> QED BY <1>0, <2>1, <2>3, <2>4
          DEF ControlTyped, ControlTypeOK, Controllers, Rows
<1>2. CASE SetPaused
  <2>1. [val |-> gate', ts |-> now] \in Commands /\ gate' \in BOOLEAN
    BY <1>0, <1>2 DEF Commands, SetPaused
  <2>2. pauseQ' \in Seq(Commands)
    BY <1>0, <1>2, <2>1, AppendIs DEF SetPaused
  <2>3. /\ toggled' = toggled + 1 /\ toggled < MaxCommands
        /\ UNCHANGED <<now, want, asked, answered, said, muteQ, ctl, rows,
                       heard, main, stopAt>>
    BY <1>2 DEF SetPaused, mic
  <2> QED BY <1>0, <2>1, <2>2, <2>3
          DEF ControlTyped, ControlTypeOK, Controllers, Rows
<1>3. CASE Stop
  BY <1>0, <1>3 DEF Stop, history, queues, mic, ControlTyped, ControlTypeOK,
                    Controllers, Rows
<1>4. CASE Tick
  <2>1. now < MaxTime /\ now' = now + 1 /\ now' \in Times
    BY <1>0, <1>4 DEF Tick, Times
  <2>2. heard' \subseteq Frames
    BY <1>0, <1>4 DEF Tick, Frames
  <2>3. UNCHANGED <<want, asked, toggled, answered, said, muteQ, pauseQ, gate,
                    ctl, rows, main, stopAt>>
    BY <1>4 DEF Tick, history, queues, mic
  <2> QED BY <1>0, <2>1, <2>2, <2>3
          DEF ControlTyped, ControlTypeOK, Controllers, Rows
<1>5. CASE NextMute
  <2> DEFINE c == Head(muteQ)
  <2>1. /\ muteQ # <<>> /\ muteQ' = Tail(muteQ)
        /\ IF c.val THEN Mute(c.ts) ELSE Unmute(c.ts)
        /\ UNCHANGED <<now, want, asked, toggled, pauseQ, gate, heard, main,
                       stopAt>>
    BY <1>5 DEF NextMute
  <2>2. /\ c \in Commands /\ muteQ' \in Seq(Commands)
        /\ Len(muteQ') = Len(muteQ) - 1
    BY <1>0, <2>1, HeadIs
  <2>3. c.ts \in Times /\ c.val \in BOOLEAN
    BY <2>2 DEF Commands
  <2>4. /\ ctl' \in Controllers /\ rows' \in {rows, Opened(c.ts), Closed(c.ts)}
        /\ answered' \in {answered, answered + 1}
        /\ said' \in {said, "muted", "mute_failed", "unmuted", "unmute_failed"}
    <3>1. CASE c.val
      BY <2>1, <2>3, <3>1, MuteIs
    <3>2. CASE ~c.val
      BY <2>1, <2>3, <3>2, UnmuteIs
    <3> QED BY <3>1, <3>2
  <2>5. rows' \subseteq Rows
    BY <1>0, <2>3, <2>4, ClosedIs
  <2> QED BY <1>0, <2>1, <2>2, <2>4, <2>5
          DEF ControlTyped, ControlTypeOK, Controllers, Rows
<1>6. CASE MutesApplied
  BY <1>0, <1>6 DEF MutesApplied, history, queues, mic, ControlTyped,
                    ControlTypeOK, Controllers, Rows
<1>7. CASE NextPause
  <2>1. /\ pauseQ # <<>> /\ pauseQ' = Tail(pauseQ)
        /\ Pause \/ Resume
        /\ UNCHANGED <<now, want, asked, toggled, answered, said, muteQ, gate,
                       rows, heard, main, stopAt>>
    BY <1>7 DEF NextPause, history
  <2>2. pauseQ' \in Seq(Commands)
    BY <1>0, <2>1, HeadIs
  <2>3. ctl' \in Controllers
    BY <2>1, PauseIs, ResumeIs
  <2> QED BY <1>0, <2>1, <2>2, <2>3
          DEF ControlTyped, ControlTypeOK, Controllers, Rows
<1>8. CASE PausesApplied
  <2>1. main' \in [at : {"mutes", "pauses", "shutdown", "closing", "files"},
                   last : BOOLEAN]
    BY <1>0, <1>8 DEF PausesApplied, Running
  <2>2. UNCHANGED <<now, want, asked, toggled, answered, said, muteQ, pauseQ,
                    gate, ctl, rows, heard, stopAt>>
    BY <1>8 DEF PausesApplied, history, queues, mic
  <2> QED BY <1>0, <2>1, <2>2
          DEF ControlTyped, ControlTypeOK, Controllers, Rows
<1>9. CASE Shutdown
  BY <1>0, <1>9 DEF Shutdown, history, queues, ControlTyped, ControlTypeOK,
                    Controllers, Rows
<1>10. CASE CloseSpan
  <2>1. rows' \subseteq Rows
    BY <1>0, <1>10, ClosedIs DEF CloseSpan
  <2> QED BY <1>0, <1>10, <2>1
          DEF CloseSpan, history, queues, ControlTyped, ControlTypeOK,
              Controllers, Rows
<1>11. CASE UNCHANGED controlVars
  BY <1>0, <1>11 DEF controlVars, history, queues, mic, ControlTyped,
                     ControlTypeOK, Controllers, Rows
<1> QED BY <1>1, <1>2, <1>3, <1>4, <1>5, <1>6, <1>7, <1>8, <1>9, <1>10, <1>11
        DEF ControlNext, ControlStep

LEMMA ControlAlwaysTyped == ControlSpec => []ControlTyped
BY ControlTypedInit, ControlTypedStep, PTL DEF ControlSpec

\* Queues, controller, intervals and clock keep their types, and no more
\* answers are given than were asked for.
THEOREM ControlTypesHold == ControlSpec => []ControlTypeOK
<1>1. ControlTyped => ControlTypeOK
  BY DEF ControlTyped
<1> QED BY <1>1, ControlAlwaysTyped, PTL

-----------------------------------------------------------------------------
(* A confirmed mute is silent, and every request has its answer.           *)

\* What a queue's next command is, and what remains of the queue.
LEMMA NextMuteIs ==
  ASSUME ControlTyped, NextMute
  PROVE  /\ LET c == Head(muteQ)
            IN /\ c \in Commands /\ c.ts \in Times /\ c.val \in BOOLEAN
               /\ IF c.val THEN Mute(c.ts) ELSE Unmute(c.ts)
         /\ muteQ # <<>> /\ muteQ' = Tail(muteQ)
         /\ Len(muteQ') = Len(muteQ) - 1 /\ Len(muteQ) \in Nat
         /\ UNCHANGED <<now, want, asked, toggled, pauseQ, gate, heard, main,
                        stopAt>>
         /\ Polling
<1>1. muteQ \in Seq(Commands)
  BY DEF ControlTyped, ControlTypeOK
<1>2. muteQ # <<>> /\ muteQ' = Tail(muteQ)
  BY DEF NextMute
<1>3. /\ Head(muteQ) \in Commands
      /\ Len(muteQ') = Len(muteQ) - 1 /\ Len(muteQ) \in Nat
  BY <1>1, <1>2, HeadIs
<1>4. Head(muteQ).ts \in Times /\ Head(muteQ).val \in BOOLEAN
  BY <1>3 DEF Commands
<1> QED BY <1>2, <1>3, <1>4 DEF NextMute, Polling

LEMMA NextPauseIs ==
  ASSUME ControlTyped, NextPause
  PROVE  /\ Head(pauseQ) \in Commands /\ Head(pauseQ).val \in BOOLEAN
         /\ IF Head(pauseQ).val THEN Pause ELSE Resume
         /\ pauseQ # <<>> /\ pauseQ' = Tail(pauseQ)
         /\ UNCHANGED <<now, want, asked, toggled, answered, said, muteQ, gate,
                        rows, heard, main, stopAt>>
         /\ Polling
<1>1. pauseQ \in Seq(Commands)
  BY DEF ControlTyped, ControlTypeOK
<1>2. pauseQ # <<>> /\ pauseQ' = Tail(pauseQ)
  BY DEF NextPause
<1>3. Head(pauseQ) \in Commands
  BY <1>1, <1>2, HeadIs
<1>4. Head(pauseQ).val \in BOOLEAN
  BY <1>3 DEF Commands
<1> QED BY <1>2, <1>3, <1>4 DEF NextPause, Polling, history

\* Which variables a step other than a command's leaves alone.
LEMMA OtherSteps ==
  ASSUME [ControlNext]_controlVars, ~NextMute, ~NextPause
  PROVE  /\ UNCHANGED <<said, answered>>
         /\ ctl' = ctl \/ (main.at = "shutdown" /\ Shutdown)
         /\ Shutdown => ctl' = [ctl EXCEPT !.capturing = FALSE]
         /\ SetMuted \/ UNCHANGED <<want, asked, muteQ>>
         /\ SetPaused \/ UNCHANGED <<gate, pauseQ>>
         /\ Tick \/ UNCHANGED <<now, heard>>
         /\ CloseSpan \/ UNCHANGED rows
         /\ MutesApplied \/ PausesApplied \/ Shutdown \/ CloseSpan
              \/ UNCHANGED main
BY DEF ControlNext, ControlStep, SetMuted, SetPaused, Stop, Tick, MutesApplied,
       PausesApplied, Shutdown, CloseSpan, Go, controlVars, history, queues, mic

\* The stream never runs while the controller suppresses it, and a confirmed
\* mute is a mute.
Suppressed ==
  /\ ctl.capturing => ~ctl.muted /\ ~ctl.paused
  /\ said = "muted" => ctl.muted

LEMMA SuppressedInit == ControlInit => Suppressed
<1> SUFFICES ASSUME ControlInit PROVE Suppressed
  OBVIOUS
<1> DEFINE off == [stream |-> FALSE, capturing |-> FALSE,
                   muted |-> InitiallyMuted, paused |-> FALSE]
<1> USE ControlAssumption
<1>1. off \in Controllers
  BY DEF Controllers
<1>2. CASE InitiallyMuted
  BY <1>2 DEF ControlInit, Suppressed
<1>3. CASE ~InitiallyMuted
  <2>1. PICK how \in Outcomes(off, TRUE) : ctl \in Begun(off, how)
    BY <1>3 DEF ControlInit
  <2>2. ctl.muted = FALSE /\ ctl.paused = FALSE
    BY <1>1, <1>3, <2>1, BegunIs
  <2> QED BY <2>2 DEF ControlInit, Suppressed
<1> QED BY <1>2, <1>3

LEMMA SuppressedStep ==
  ASSUME "close" \notin Faults
  PROVE  ControlTyped /\ Suppressed /\ [ControlNext]_controlVars => Suppressed'
<1> SUFFICES ASSUME ControlTyped, Suppressed, [ControlNext]_controlVars
             PROVE  Suppressed'
  OBVIOUS
<1>0. ctl \in Controllers
  BY DEF ControlTyped, ControlTypeOK, Controllers
<1>1. CASE NextMute
  <2> DEFINE c == Head(muteQ)
  <2>1. /\ IF c.val THEN Mute(c.ts) ELSE Unmute(c.ts)
        /\ c.ts \in Times
    BY <1>1, NextMuteIs
  <2>2. CASE c.val
    <3>1. Mute(c.ts)
      BY <2>1, <2>2
    <3>2. /\ ctl' \in Controllers
          /\ said' \in {"muted", "mute_failed"}
          /\ said' = "muted" => ctl'.muted /\ ~ctl'.capturing
          /\ said' = "mute_failed" => ctl' = ctl
      BY <2>1, <3>1, MuteIs
    <3> QED BY <3>2 DEF Suppressed
  <2>3. CASE ~c.val
    <3>1. Unmute(c.ts)
      BY <2>1, <2>3
    <3>2. /\ ctl'.paused = ctl.paused
          /\ said' \in {"unmuted", "unmute_failed"}
          /\ ctl'.muted => ctl.muted
          /\ ctl'.capturing => ctl.capturing \/ ~(ctl'.muted \/ ctl.paused)
      BY <2>1, <3>1, UnmuteIs
    <3> QED BY <3>2 DEF Suppressed
  <2> QED BY <2>2, <2>3
<1>2. CASE NextPause
  <2>1. UNCHANGED said /\ (Pause \/ Resume)
    BY <1>2 DEF NextPause
  <2>2. CASE Pause
    BY <2>1, <2>2, PauseIs DEF Suppressed
  <2>3. CASE Resume
    BY <2>1, <2>3, ResumeIs DEF Suppressed
  <2> QED BY <2>1, <2>2, <2>3
<1>3. CASE ~NextMute /\ ~NextPause
  BY <1>0, <1>3, OtherSteps DEF Suppressed, Controllers
<1> QED BY <1>1, <1>2, <1>3

\* While the app was last told that the microphone is muted nothing is
\* captured, whatever may fail but the closing of an interval.
THEOREM ConfirmedMuteHolds ==
  ASSUME "close" \notin Faults
  PROVE  ControlSpec => []ConfirmedMuteIsSilent
<1>1. Suppressed => ConfirmedMuteIsSilent
  BY DEF Suppressed, ConfirmedMuteIsSilent
<1>2. ControlTyped /\ Suppressed /\ [ControlNext]_controlVars => Suppressed'
  BY SuppressedStep
<1> QED BY <1>1, <1>2, SuppressedInit, ControlAlwaysTyped, PTL DEF ControlSpec

LEMMA AnswerStep ==
  ASSUME "close" \notin Faults
  PROVE  ControlTyped /\ OneAnswerPerRequest /\ [ControlNext]_controlVars
           => OneAnswerPerRequest'
<1> SUFFICES ASSUME ControlTyped, OneAnswerPerRequest,
                    [ControlNext]_controlVars
             PROVE  OneAnswerPerRequest'
  OBVIOUS
<1>0. /\ muteQ \in Seq(Commands) /\ answered \in Nat /\ asked \in Nat
      /\ now \in Times
      /\ answered + Len(muteQ) = asked
  BY DEF ControlTyped, ControlTypeOK, OneAnswerPerRequest
<1>1. CASE NextMute
  <2> DEFINE c == Head(muteQ)
  <2>1. /\ IF c.val THEN Mute(c.ts) ELSE Unmute(c.ts)
        /\ c.ts \in Times
        /\ Len(muteQ') = Len(muteQ) - 1 /\ Len(muteQ) \in Nat
        /\ asked' = asked
    BY <1>1, NextMuteIs
  <2>2. answered' = answered + 1
    BY <2>1, MuteIs, UnmuteIs
  <2> QED BY <1>0, <2>1, <2>2 DEF OneAnswerPerRequest
<1>2. CASE NextPause
  BY <1>0, <1>2 DEF NextPause, history, OneAnswerPerRequest
<1>3. CASE SetMuted
  <2>1. PICK v \in BOOLEAN : muteQ' = Append(muteQ, [val |-> v, ts |-> now])
    BY <1>3 DEF SetMuted
  <2>2. Len(muteQ') = Len(muteQ) + 1 /\ Len(muteQ) \in Nat
    BY <1>0, <2>1, AppendIs DEF Commands
  <2>3. asked' = asked + 1 /\ answered' = answered
    BY <1>3 DEF SetMuted
  <2> QED BY <1>0, <2>2, <2>3 DEF OneAnswerPerRequest
<1>4. CASE ~NextMute /\ ~NextPause /\ ~SetMuted
  BY <1>4, OtherSteps DEF OneAnswerPerRequest
<1> QED BY <1>1, <1>2, <1>3, <1>4

\* Every set_muted that was taken up has exactly one terminal event, whatever
\* may fail but the closing of an interval.
THEOREM OneAnswerHolds ==
  ASSUME "close" \notin Faults
  PROVE  ControlSpec => []OneAnswerPerRequest
<1>1. ControlInit => OneAnswerPerRequest
  BY DEF ControlInit, OneAnswerPerRequest
<1>2. ControlTyped /\ OneAnswerPerRequest /\ [ControlNext]_controlVars
        => OneAnswerPerRequest'
  BY AnswerStep
<1> QED BY <1>1, <1>2, ControlAlwaysTyped, PTL DEF ControlSpec

-----------------------------------------------------------------------------
(* The two axes agree.                                                     *)

\* What a queue will leave in force: its last command, or what is now.
Lasting(q, current) == IF q = <<>> THEN current ELSE q[Len(q)].val

AxesInv ==
  /\ want = Lasting(muteQ, ctl.muted)
  /\ gate = Lasting(pauseQ, ctl.paused)
  /\ Polling => (ctl.capturing <=> ~ctl.muted /\ ~ctl.paused)

LEMMA LastingTail ==
  ASSUME NEW q \in Seq(Commands), q # <<>>, NEW a
  PROVE  Lasting(Tail(q), Head(q).val) = Lasting(q, a)
<1>1. /\ Head(q) = q[1] /\ Len(q) \in Nat \ {0}
      /\ Tail(q) \in Seq(Commands) /\ Len(Tail(q)) = Len(q) - 1
      /\ \A i \in 1 .. Len(q) - 1 : Tail(q)[i] = q[i + 1]
  BY HeadIs
<1>2. CASE Tail(q) = <<>>
  <2>1. Len(q) = 1
    BY <1>1, <1>2
  <2> QED BY <1>1, <1>2, <2>1 DEF Lasting
<1>3. CASE Tail(q) # <<>>
  <2>1. Len(Tail(q)) # 0
    BY <1>1, <1>3
  <2>2. Tail(q)[Len(q) - 1] = q[Len(q)]
    BY <1>1, <2>1
  <2> QED BY <1>1, <1>3, <2>2 DEF Lasting
<1> QED BY <1>2, <1>3

LEMMA LastingAppend ==
  ASSUME NEW q \in Seq(Commands), NEW e \in Commands, NEW a
  PROVE  Lasting(Append(q, e), a) = e.val
<1>1. /\ Len(Append(q, e)) = Len(q) + 1 /\ Len(q) \in Nat
      /\ Append(q, e)[Len(q) + 1] = e
  BY AppendIs
<1>2. Append(q, e) # <<>>
  BY <1>1
<1> QED BY <1>1, <1>2 DEF Lasting

LEMMA AxesInit == ASSUME Faults = {} PROVE ControlInit => AxesInv
<1> SUFFICES ASSUME ControlInit PROVE AxesInv
  OBVIOUS
<1> DEFINE off == [stream |-> FALSE, capturing |-> FALSE,
                   muted |-> InitiallyMuted, paused |-> FALSE]
<1> USE ControlAssumption
<1>1. off \in Controllers
  BY DEF Controllers
<1>2. /\ ctl.muted = InitiallyMuted /\ ctl.paused = FALSE
      /\ ctl.capturing = ~InitiallyMuted
  <2>1. CASE InitiallyMuted
    <3>1. ctl = off
      BY <2>1 DEF ControlInit
    <3> QED BY <2>1, <3>1
  <2>2. CASE ~InitiallyMuted
    <3>1. PICK how \in Outcomes(off, TRUE) : ctl \in Begun(off, how)
      BY <2>2 DEF ControlInit
    <3>2. how = "ok"
      BY <1>1, <3>1, BegunIs
    <3>3. ctl \in Controllers /\ ctl.muted = off.muted
          /\ ctl.paused = off.paused /\ ctl.capturing
      BY <1>1, <3>1, <3>2, BegunIs
    <3> QED BY <2>2, <3>3 DEF Controllers
  <2> QED BY <2>1, <2>2
<1>3. /\ want = InitiallyMuted /\ gate = FALSE
      /\ muteQ = <<>> /\ pauseQ = <<>>
  BY DEF ControlInit
<1> QED BY <1>2, <1>3 DEF AxesInv, Lasting

LEMMA AxesStep ==
  ASSUME Faults = {}
  PROVE  ControlTyped /\ AxesInv /\ [ControlNext]_controlVars => AxesInv'
<1> SUFFICES ASSUME ControlTyped, AxesInv, [ControlNext]_controlVars
             PROVE  AxesInv'
  OBVIOUS
<1>0. /\ muteQ \in Seq(Commands) /\ pauseQ \in Seq(Commands)
      /\ ctl \in Controllers /\ now \in Times
      /\ want \in BOOLEAN /\ gate \in BOOLEAN
  BY DEF ControlTyped, ControlTypeOK, Controllers
<1>1. CASE NextMute
  <2> DEFINE c == Head(muteQ)
  <2>1. /\ IF c.val THEN Mute(c.ts) ELSE Unmute(c.ts)
        /\ c \in Commands /\ c.ts \in Times /\ c.val \in BOOLEAN
        /\ muteQ # <<>> /\ muteQ' = Tail(muteQ)
        /\ UNCHANGED <<want, pauseQ, gate, main>>
        /\ Polling
    BY <1>1, NextMuteIs
  <2>2. /\ ctl' \in Controllers
        /\ ctl'.muted = c.val /\ ctl'.paused = ctl.paused
        /\ ctl'.capturing <=> ~ctl'.muted /\ ~ctl'.paused
    <3>1. CASE c.val
      <4>1. Mute(c.ts)
        BY <2>1, <3>1
      <4>2. /\ said' = "muted" /\ ctl' \in Controllers
            /\ ctl'.muted /\ ~ctl'.capturing /\ ctl'.paused = ctl.paused
        BY <2>1, <4>1, MuteIs
      <4> QED BY <2>1, <3>1, <4>2 DEF Controllers
    <3>2. CASE ~c.val
      <4>1. Unmute(c.ts)
        BY <2>1, <3>2
      <4>2. /\ ctl' \in Controllers
            /\ ctl'.paused = ctl.paused /\ ~ctl'.muted
            /\ ctl.capturing \/ ctl.paused => ctl'.capturing = ctl.capturing
            /\ ~ctl.capturing /\ ~ctl.paused => ctl'.capturing
        BY <2>1, <4>1, UnmuteIs
      <4>3. ctl.capturing => ~ctl.paused
        BY <2>1 DEF AxesInv
      <4> QED BY <2>1, <3>2, <4>2, <4>3 DEF Controllers
    <3> QED BY <3>1, <3>2
  <2>3. Lasting(Tail(muteQ), c.val) = want
    BY <1>0, <2>1, LastingTail DEF AxesInv
  <2> QED BY <2>1, <2>2, <2>3 DEF AxesInv, Polling
<1>2. CASE NextPause
  <2> DEFINE c == Head(pauseQ)
  <2>1. /\ IF c.val THEN Pause ELSE Resume
        /\ c \in Commands /\ c.val \in BOOLEAN
        /\ pauseQ # <<>> /\ pauseQ' = Tail(pauseQ)
        /\ UNCHANGED <<want, muteQ, gate, main>>
        /\ Polling
    BY <1>2, NextPauseIs
  <2>2. /\ ctl'.muted = ctl.muted /\ ctl'.paused = c.val
        /\ ctl'.capturing <=> ~ctl'.muted /\ ~ctl'.paused
    <3>1. CASE c.val
      <4>1. Pause
        BY <2>1, <3>1
      <4>2. /\ ctl' \in Controllers /\ ctl'.muted = ctl.muted
            /\ ctl'.paused /\ ~ctl'.capturing
        BY <4>1, PauseIs
      <4> QED BY <2>1, <3>1, <4>2 DEF Controllers
    <3>2. CASE ~c.val
      <4>1. Resume
        BY <2>1, <3>2
      <4>2. /\ ctl' \in Controllers /\ ctl'.muted = ctl.muted /\ ~ctl'.paused
            /\ ctl.muted => ctl'.capturing = ctl.capturing
            /\ ~ctl.muted => ctl'.capturing
        BY <4>1, ResumeIs
      <4>3. ctl.muted => ~ctl.capturing
        BY <2>1 DEF AxesInv
      <4> QED BY <2>1, <3>2, <4>2, <4>3 DEF Controllers
    <3> QED BY <3>1, <3>2
  <2>3. Lasting(Tail(pauseQ), c.val) = gate
    BY <1>0, <2>1, LastingTail DEF AxesInv
  <2> QED BY <2>1, <2>2, <2>3 DEF AxesInv, Polling
<1>3. CASE SetMuted
  <2>1. PICK v \in BOOLEAN :
          want' = v /\ muteQ' = Append(muteQ, [val |-> v, ts |-> now])
    BY <1>3 DEF SetMuted
  <2>2. UNCHANGED <<pauseQ, gate, ctl, main>>
    BY <1>3 DEF SetMuted, mic
  <2> DEFINE e == [val |-> v, ts |-> now]
  <2>3. e \in Commands /\ e.val = v
    BY <1>0, <2>1 DEF Commands
  <2>4. Lasting(muteQ', ctl.muted) = v
    BY <1>0, <2>1, <2>3, LastingAppend
  <2> QED BY <2>1, <2>2, <2>4 DEF AxesInv, Polling
<1>4. CASE SetPaused
  <2>1. /\ gate' \in BOOLEAN
        /\ pauseQ' = Append(pauseQ, [val |-> gate', ts |-> now])
    BY <1>0, <1>4 DEF SetPaused
  <2>2. UNCHANGED <<muteQ, want, ctl, main>>
    BY <1>4 DEF SetPaused, mic
  <2> DEFINE e == [val |-> gate', ts |-> now]
  <2>3. e \in Commands /\ e.val = gate'
    BY <1>0, <2>1 DEF Commands
  <2>4. Lasting(pauseQ', ctl.paused) = gate'
    BY <1>0, <2>1, <2>3, LastingAppend
  <2> QED BY <2>1, <2>2, <2>4 DEF AxesInv, Polling
<1>5. CASE Shutdown
  BY <1>0, <1>5 DEF Shutdown, Go, Polling, AxesInv, Controllers, history, queues,
                    ControlTyped, ControlTypeOK
<1>6. CASE ~NextMute /\ ~NextPause /\ ~SetMuted /\ ~SetPaused /\ ~Shutdown
  <2>1. UNCHANGED <<want, muteQ, gate, pauseQ, ctl>>
    BY <1>6, OtherSteps
  <2>2. Polling' => Polling
    BY <1>6, OtherSteps DEF MutesApplied, PausesApplied, CloseSpan, Go, Polling,
                            ControlTyped, ControlTypeOK
  <2> QED BY <2>1, <2>2 DEF AxesInv
<1> QED BY <1>1, <1>2, <1>3, <1>4, <1>5, <1>6

\* Once both queues are empty the stream runs exactly when neither the last
\* mute nor the last pause suppresses it, in whatever order they were met.
THEOREM AxesHold == ASSUME Faults = {} PROVE ControlSpec => []AxesAgree
<1>1. AxesInv => AxesAgree
  BY DEF AxesInv, AxesAgree, Lasting
<1>2. ControlInit => AxesInv
  BY AxesInit
<1>3. ControlTyped /\ AxesInv /\ [ControlNext]_controlVars => AxesInv'
  BY AxesStep
<1> QED BY <1>1, <1>2, <1>3, ControlAlwaysTyped, PTL DEF ControlSpec
-----------------------------------------------------------------------------
(* Muted speech is covered.                                                *)

\* The next mute command comes before f; command i governs f.
Heads(f) == muteQ # <<>> /\ muteQ[1].ts <= f.at
Governs(i, f) ==
  /\ i \in DOMAIN muteQ /\ muteQ[i].ts <= f.at
  /\ i < Len(muteQ) => f.at < muteQ[i + 1].ts
OpenAt(t) == \E r \in rows : r.end = Open /\ r.start <= t

\* The commands are in order, none is from the future, and a frame that they
\* will decide was captured under the last one before it.
InOrder ==
  /\ \A i, j \in DOMAIN muteQ : i <= j => muteQ[i].ts <= muteQ[j].ts
  /\ \A i \in DOMAIN muteQ : muteQ[i].ts <= now
  /\ muteQ # <<>> => want = muteQ[Len(muteQ)].val
  /\ \A f \in heard :
       /\ f.at < now
       /\ Heads(f) => \E i \in DOMAIN muteQ :
                        Governs(i, f) /\ muteQ[i].val = f.muted

LEMMA InOrderInit == ControlInit => InOrder
BY DEF ControlInit, InOrder

LEMMA InOrderStep ==
  ControlTyped /\ InOrder /\ [ControlNext]_controlVars => InOrder'
<1> SUFFICES ASSUME ControlTyped, InOrder, [ControlNext]_controlVars
             PROVE  InOrder'
  OBVIOUS
<1>0. /\ muteQ \in Seq(Commands) /\ now \in Int
      /\ want \in BOOLEAN /\ Len(muteQ) \in Nat
      /\ \A f \in heard : f.at \in Int /\ f.muted \in BOOLEAN
      /\ \A i \in DOMAIN muteQ : muteQ[i].ts \in Int
  <2>1. /\ muteQ \in Seq(Commands) /\ now \in Times /\ want \in BOOLEAN
        /\ heard \subseteq Frames
    BY DEF ControlTyped, ControlTypeOK
  <2>2. Len(muteQ) \in Nat /\ \A i \in DOMAIN muteQ : muteQ[i] \in Commands
    BY <2>1, QueueIs
  <2> QED BY <2>1, <2>2 DEF Frames, Times, Commands
<1>1. CASE NextMute
  <2>1. /\ muteQ # <<>> /\ muteQ' = Tail(muteQ)
        /\ UNCHANGED <<now, want, heard>>
    BY <1>1, NextMuteIs
  <2>2. /\ muteQ' \in Seq(Commands)
        /\ Len(muteQ') = Len(muteQ) - 1
        /\ \A i \in 1 .. Len(muteQ) - 1 : muteQ'[i] = muteQ[i + 1]
        /\ DOMAIN muteQ' = 1 .. Len(muteQ) - 1
        /\ DOMAIN muteQ = 1 .. Len(muteQ)
    <3>1. /\ muteQ' \in Seq(Commands)
          /\ Len(muteQ') = Len(muteQ) - 1
          /\ \A i \in 1 .. Len(muteQ) - 1 : muteQ'[i] = muteQ[i + 1]
      BY <1>0, <2>1, HeadIs
    <3>2. DOMAIN muteQ = 1 .. Len(muteQ) /\ DOMAIN muteQ' = 1 .. Len(muteQ')
      BY <1>0, <3>1, QueueIs
    <3> QED BY <3>1, <3>2
  <2>3. ASSUME NEW i \in DOMAIN muteQ', NEW j \in DOMAIN muteQ', i <= j
        PROVE  muteQ'[i].ts <= muteQ'[j].ts
    <3>1. /\ i + 1 \in DOMAIN muteQ /\ j + 1 \in DOMAIN muteQ
          /\ i + 1 <= j + 1
      BY <1>0, <2>2, <2>3
    <3>2. muteQ[i + 1].ts <= muteQ[j + 1].ts
      BY <3>1 DEF InOrder
    <3> QED BY <2>2, <3>2
  <2>4. \A i \in DOMAIN muteQ' : muteQ'[i].ts <= now'
    BY <1>0, <2>1, <2>2 DEF InOrder
  <2>5. muteQ' # <<>> => want' = muteQ'[Len(muteQ')].val
    <3>1. SUFFICES ASSUME muteQ' # <<>> PROVE want' = muteQ'[Len(muteQ')].val
      OBVIOUS
    <3>2. Len(muteQ') # 0
      BY <2>2, <3>1
    <3>3. muteQ'[Len(muteQ')] = muteQ[Len(muteQ)]
      BY <1>0, <2>2, <3>2
    <3> QED BY <2>1, <3>3 DEF InOrder
  <2>6. ASSUME NEW f \in heard
        PROVE  /\ f.at < now'
               /\ Heads(f)' => \E i \in DOMAIN muteQ' :
                                 Governs(i, f)' /\ muteQ'[i].val = f.muted
    <3>1. f.at < now'
      BY <2>1 DEF InOrder
    <3>2. ASSUME Heads(f)'
          PROVE  \E i \in DOMAIN muteQ' :
                   Governs(i, f)' /\ muteQ'[i].val = f.muted
      <4>1. Len(muteQ') # 0 /\ muteQ'[1].ts <= f.at
        BY <2>2, <3>2 DEF Heads
      <4>2. muteQ[2].ts <= f.at /\ Len(muteQ) >= 2
        BY <1>0, <2>2, <4>1
      <4>3. muteQ[1].ts <= f.at
        BY <1>0, <2>2, <4>2 DEF InOrder
      <4>4. PICK i \in DOMAIN muteQ : Governs(i, f) /\ muteQ[i].val = f.muted
        BY <2>1, <4>3 DEF InOrder, Heads
      <4>5. i # 1
        BY <1>0, <4>2, <4>4 DEF Governs
      <4>6. i - 1 \in DOMAIN muteQ' /\ muteQ'[i - 1] = muteQ[i]
        BY <1>0, <2>2, <4>4, <4>5
      <4>7. i - 1 < Len(muteQ') => muteQ'[i - 1 + 1] = muteQ[i + 1]
        BY <1>0, <2>2, <4>6
      <4>8. Governs(i - 1, f)'
        BY <1>0, <2>2, <4>4, <4>6, <4>7 DEF Governs
      <4> QED BY <4>4, <4>6, <4>8
    <3> QED BY <3>1, <3>2
  <2> QED BY <2>1, <2>3, <2>4, <2>5, <2>6 DEF InOrder
<1>2. CASE SetMuted
  <2>1. PICK v \in BOOLEAN :
          want' = v /\ muteQ' = Append(muteQ, [val |-> v, ts |-> now])
    BY <1>2 DEF SetMuted
  <2>2. UNCHANGED <<now, heard>>
    BY <1>2 DEF SetMuted
  <2> DEFINE e == [val |-> v, ts |-> now]
  <2>3. e \in Commands /\ e.val = v /\ e.ts = now
    BY <2>1 DEF Commands, ControlTyped, ControlTypeOK
  <2> HIDE DEF e
  <2>4. /\ muteQ' \in Seq(Commands)
        /\ Len(muteQ') = Len(muteQ) + 1
        /\ \A i \in 1 .. Len(muteQ) : muteQ'[i] = muteQ[i]
        /\ muteQ'[Len(muteQ) + 1] = e
        /\ DOMAIN muteQ' = 1 .. Len(muteQ) + 1
        /\ DOMAIN muteQ = 1 .. Len(muteQ)
    BY <1>0, <2>1, <2>3, AppendIs, QueueIs DEF e
  <2>5. /\ \A i, j \in DOMAIN muteQ' : i <= j => muteQ'[i].ts <= muteQ'[j].ts
        /\ \A i \in DOMAIN muteQ' : muteQ'[i].ts <= now'
    BY <1>0, <2>2, <2>3, <2>4 DEF InOrder
  <2>6. want' = muteQ'[Len(muteQ')].val
    BY <1>0, <2>1, <2>3, <2>4
  <2>7. ASSUME NEW f \in heard, Heads(f)'
        PROVE  \E i \in DOMAIN muteQ' :
                 Governs(i, f)' /\ muteQ'[i].val = f.muted
    <3>1. f.at < now
      BY DEF InOrder
    <3>2. Len(muteQ) # 0
      BY <1>0, <2>3, <2>4, <2>7, <3>1 DEF Heads
    <3>3. Heads(f)
      BY <1>0, <2>4, <2>7, <3>2 DEF Heads
    <3>4. PICK i \in DOMAIN muteQ : Governs(i, f) /\ muteQ[i].val = f.muted
      BY <3>3 DEF InOrder
    <3>5. i < Len(muteQ') => f.at < muteQ'[i + 1].ts
      <4>1. CASE i < Len(muteQ)
        BY <1>0, <2>4, <3>4, <4>1 DEF Governs
      <4>2. CASE i = Len(muteQ)
        BY <1>0, <2>3, <2>4, <3>1, <4>2
      <4> QED BY <1>0, <2>4, <4>1, <4>2
    <3>6. Governs(i, f)' /\ muteQ'[i].val = f.muted /\ i \in DOMAIN muteQ'
      BY <1>0, <2>4, <3>4, <3>5 DEF Governs
    <3> QED BY <3>6
  <2> QED BY <2>2, <2>5, <2>6, <2>7 DEF InOrder
<1>3. CASE Tick
  <2>1. /\ UNCHANGED <<muteQ, want>> /\ now' = now + 1
        /\ heard' \in {heard, heard \cup {[at |-> now, muted |-> want]}}
    BY <1>3 DEF Tick, history, queues
  <2>2. ASSUME NEW f \in heard'
        PROVE  /\ f.at < now'
               /\ Heads(f)' => \E i \in DOMAIN muteQ' :
                                 Governs(i, f)' /\ muteQ'[i].val = f.muted
    <3>1. CASE f \in heard
      BY <1>0, <2>1, <3>1 DEF InOrder, Heads, Governs
    <3>2. CASE f = [at |-> now, muted |-> want]
      <4>1. f.at = now /\ f.muted = want
        BY <3>2
      <4>2. ASSUME muteQ # <<>>
            PROVE  LET i == Len(muteQ)
                   IN i \in DOMAIN muteQ /\ Governs(i, f)
                      /\ muteQ[i].val = f.muted
        BY <1>0, <4>1, <4>2 DEF InOrder, Governs
      <4> QED BY <1>0, <2>1, <4>1, <4>2 DEF Heads, Governs
    <3> QED BY <2>1, <2>2, <3>1, <3>2
  <2> QED BY <1>0, <2>1, <2>2 DEF InOrder
<1>4. CASE ~NextMute /\ ~SetMuted /\ ~Tick
  <2>1. UNCHANGED <<muteQ, want, now, heard>>
    <3>1. CASE NextPause
      BY <3>1, NextPauseIs
    <3>2. CASE ~NextPause
      BY <1>4, <3>2, OtherSteps
    <3> QED BY <3>1, <3>2
  <2> QED BY <2>1 DEF InOrder, Heads, Governs
<1> QED BY <1>1, <1>2, <1>3, <1>4
\* With mute commands only: what was captured under a mute that has been
\* applied is covered, and while one waits the stream runs or an interval is
\* open.
CoverInv ==
  /\ ~ctl.paused /\ pauseQ = <<>>
  /\ main.at \in {"closing", "files"} => ~ctl.capturing
  /\ muteQ = <<>> /\ want => ~ctl.capturing \/ OpenAt(now)
  /\ \A f \in heard : IF Heads(f) THEN Polling => ctl.capturing \/ OpenAt(f.at)
                                 ELSE f.muted => Covered(f)

LEMMA CoverInit == ControlInit => CoverInv
<1> SUFFICES ASSUME ControlInit PROVE CoverInv
  OBVIOUS
<1> DEFINE off == [stream |-> FALSE, capturing |-> FALSE,
                   muted |-> InitiallyMuted, paused |-> FALSE]
<1> USE ControlAssumption
<1>1. off \in Controllers
  BY DEF Controllers
<1>2. ~ctl.paused /\ (InitiallyMuted => ~ctl.capturing)
  <2>1. CASE InitiallyMuted
    <3>1. ctl = off
      BY <2>1 DEF ControlInit
    <3> QED BY <2>1, <3>1
  <2>2. CASE ~InitiallyMuted
    <3>1. PICK how \in Outcomes(off, TRUE) : ctl \in Begun(off, how)
      BY <2>2 DEF ControlInit
    <3>2. ctl.paused = off.paused
      BY <1>1, <3>1, BegunIs
    <3> QED BY <2>2, <3>2
  <2> QED BY <2>1, <2>2
<1>3. /\ want = InitiallyMuted /\ pauseQ = <<>> /\ heard = {}
      /\ main.at = "mutes"
  BY DEF ControlInit
<1> QED BY <1>2, <1>3 DEF CoverInv

\* A frame from before a command stays covered by what the command does.
LEMMA StaysCovered ==
  ASSUME ControlTyped, NEW ts \in Times, NEW f \in heard, f.at < ts,
         rows' \in {rows, Opened(ts), Closed(ts)}, Covered(f)
  PROVE  Covered(f)'
<1>1. PICK r \in rows : Covers(r, f)
  BY DEF Covered
<1>2. CASE r \in rows'
  BY <1>1, <1>2 DEF Covered, Covers
<1>3. CASE r \notin rows'
  <2>1. rows' = Closed(ts)
    BY <1>3 DEF Opened
  <2>2. r.end = Open
    BY <1>3, <2>1 DEF Closed
  <2>3. r \in Rows /\ [r EXCEPT !.end = ts] \in rows'
    BY <2>1, <2>2 DEF Closed, ControlTyped, ControlTypeOK, Rows
  <2>4. Covers([r EXCEPT !.end = ts], f)
    BY <1>1, <2>3 DEF Covers, Rows
  <2> QED BY <2>3, <2>4 DEF Covered, Covers
<1> QED BY <1>2, <1>3

\* A command that comes now decides nothing that was captured before.
LEMMA SetMutedIs ==
  ASSUME ControlTyped, InOrder, SetMuted
  PROVE  /\ UNCHANGED <<now, heard, ctl, rows, main, pauseQ>>
         /\ muteQ' # <<>>
         /\ \A f \in heard : Heads(f)' <=> Heads(f)
<1>0. /\ muteQ \in Seq(Commands) /\ now \in Int
      /\ now \in Times
      /\ \A f \in heard : f.at \in Int /\ f.at < now
  BY DEF ControlTyped, ControlTypeOK, Frames, Times, InOrder
<1>1. PICK v \in BOOLEAN : muteQ' = Append(muteQ, [val |-> v, ts |-> now])
  BY DEF SetMuted
<1>2. UNCHANGED <<now, heard, ctl, rows, main, pauseQ>>
  BY DEF SetMuted, mic
<1> DEFINE e == [val |-> v, ts |-> now]
<1>3. e \in Commands /\ e.ts = now
  BY <1>0, <1>1 DEF Commands
<1>4. /\ Len(muteQ) \in Nat /\ Len(muteQ') = Len(muteQ) + 1
      /\ \A i \in 1 .. Len(muteQ) : muteQ'[i] = muteQ[i]
      /\ muteQ'[Len(muteQ) + 1] = e
  BY <1>0, <1>1, <1>3, AppendIs
<1> HIDE DEF e
<1>5. muteQ' # <<>>
  BY <1>4
<1>6. ASSUME NEW f \in heard PROVE Heads(f)' <=> Heads(f)
  <2>1. CASE muteQ = <<>>
    <3>1. Len(muteQ) = 0 /\ muteQ'[1].ts = now
      BY <1>3, <1>4, <2>1
    <3> QED BY <1>0, <2>1, <3>1 DEF Heads
  <2>2. CASE muteQ # <<>>
    <3>1. Len(muteQ) # 0
      BY <1>0, <2>2
    <3> QED BY <1>4, <1>5, <2>2, <3>1 DEF Heads
  <2> QED BY <2>1, <2>2
<1> QED BY <1>2, <1>5, <1>6

\* A frame that the next command comes before, and that was captured under
\* the opposite one, comes after the command that follows it too.
LEMMA StillHeads ==
  ASSUME ControlTyped, InOrder, NextMute, NEW f \in heard,
         Heads(f), f.muted # Head(muteQ).val
  PROVE  Heads(f)'
<1>1. muteQ # <<>> /\ muteQ' = Tail(muteQ) /\ muteQ \in Seq(Commands)
  BY NextMuteIs DEF ControlTyped, ControlTypeOK
<1>2. /\ Head(muteQ) = muteQ[1] /\ muteQ' \in Seq(Commands)
      /\ Len(muteQ') = Len(muteQ) - 1 /\ Len(muteQ) \in Nat \ {0}
      /\ \A i \in 1 .. Len(muteQ) - 1 : muteQ'[i] = muteQ[i + 1]
  BY <1>1, HeadIs
<1>3. DOMAIN muteQ = 1 .. Len(muteQ)
      /\ \A i \in DOMAIN muteQ : muteQ[i].ts \in Int
  <2>1. DOMAIN muteQ = 1 .. Len(muteQ)
        /\ \A i \in DOMAIN muteQ : muteQ[i] \in Commands
    BY <1>1, QueueIs
  <2> QED BY <2>1 DEF Commands, Times
<1>4. PICK i \in DOMAIN muteQ : Governs(i, f) /\ muteQ[i].val = f.muted
  BY DEF InOrder
<1>5. /\ i \in 2 .. Len(muteQ) /\ 2 \in DOMAIN muteQ
      /\ Len(muteQ') # 0 /\ muteQ' # <<>>
  BY <1>2, <1>3, <1>4
<1>6. muteQ[2].ts <= muteQ[i].ts /\ muteQ[i].ts <= f.at
  BY <1>3, <1>4, <1>5 DEF InOrder, Governs
<1>7. muteQ'[1] = muteQ[2] /\ f.at \in Int
  BY <1>2, <1>3, <1>5 DEF ControlTyped, ControlTypeOK, Frames, Times
<1> QED BY <1>3, <1>4, <1>5, <1>6, <1>7 DEF Heads

LEMMA CoverMute ==
  ASSUME "open" \notin Faults, ControlTyped, InOrder, CoverInv, NextMute
  PROVE  CoverInv'
<1> DEFINE c == Head(muteQ)
<1>1. /\ c \in Commands /\ c.ts \in Times /\ c.val \in BOOLEAN
      /\ IF c.val THEN Mute(c.ts) ELSE Unmute(c.ts)
      /\ muteQ # <<>> /\ muteQ' = Tail(muteQ)
      /\ UNCHANGED <<now, want, pauseQ, heard, main>>
      /\ Polling
  BY NextMuteIs
<1>2. /\ muteQ \in Seq(Commands) /\ want \in BOOLEAN /\ now \in Int
      /\ \A f \in heard : f.at \in Int /\ f.muted \in BOOLEAN
      /\ ctl \in Controllers /\ rows \subseteq Rows
  BY DEF ControlTyped, ControlTypeOK, Frames, Times, Controllers, Rows
<1>3. /\ c = muteQ[1] /\ muteQ' \in Seq(Commands)
      /\ Len(muteQ') = Len(muteQ) - 1 /\ Len(muteQ) \in Nat \ {0}
      /\ \A i \in 1 .. Len(muteQ) - 1 : muteQ'[i] = muteQ[i + 1]
  BY <1>1, <1>2, HeadIs
<1>4. DOMAIN muteQ = 1 .. Len(muteQ) /\ DOMAIN muteQ' = 1 .. Len(muteQ')
      /\ \A i \in DOMAIN muteQ : muteQ[i] \in Commands
  BY <1>2, <1>3, QueueIs
<1>5. c.ts <= now
  BY <1>3, <1>4 DEF InOrder
\* What the command does to the stream and to the intervals.
<1>6. /\ ctl'.paused = ctl.paused
      /\ rows' \in {rows, Opened(c.ts), Closed(c.ts)}
      /\ c.val /\ ctl.capturing => rows' = Opened(c.ts)
      /\ c.val /\ ~ctl.capturing => rows' = rows /\ ~ctl'.capturing
      /\ ~c.val => ctl'.capturing \/ rows' = rows
  <2>1. CASE c.val
    <3>1. Mute(c.ts)
      BY <1>1, <2>1
    <3>2. /\ ctl'.paused = ctl.paused /\ rows' \in {rows, Opened(c.ts)}
          /\ ctl.capturing => rows' = Opened(c.ts)
          /\ ~ctl.capturing => rows' = rows
          /\ ctl'.capturing => ctl.capturing
      BY <1>1, <3>1, MuteIs
    <3> QED BY <2>1, <3>2
  <2>2. CASE ~c.val
    <3>1. Unmute(c.ts)
      BY <1>1, <2>2
    <3>2. /\ ctl'.paused = ctl.paused /\ rows' \in {rows, Closed(c.ts)}
          /\ ~ctl'.capturing => rows' = rows
      BY <1>1, <3>1, UnmuteIs
    <3> QED BY <2>2, <3>2
  <2> QED BY <2>1, <2>2
<1>7. ASSUME NEW t \in Int, c.ts <= t, ctl.capturing \/ OpenAt(t)
      PROVE  /\ ctl'.capturing \/ OpenAt(t)'
             /\ c.val => OpenAt(t)'
  <2>1. CASE c.val /\ ctl.capturing
    <3>1. [start |-> c.ts, end |-> Open] \in rows'
      BY <1>6, <2>1 DEF Opened
    <3> QED BY <1>7, <3>1 DEF OpenAt
  <2>2. CASE c.val /\ ~ctl.capturing
    BY <1>6, <1>7, <2>2 DEF OpenAt
  <2>3. CASE ~c.val /\ ctl'.capturing
    BY <2>3
  <2>4. CASE ~c.val /\ ~ctl'.capturing
    <3>1. ~ctl.capturing
      <4>1. Unmute(c.ts)
        BY <1>1, <2>4
      <4> QED BY <1>1, <2>4, <4>1, UnmuteIs
    <3> QED BY <1>6, <1>7, <2>4, <3>1 DEF OpenAt
  <2> QED BY <2>1, <2>2, <2>3, <2>4
<1>8. muteQ' = <<>> /\ want' => ~ctl'.capturing \/ OpenAt(now)'
  <2>1. SUFFICES ASSUME muteQ' = <<>>, want PROVE ~ctl'.capturing \/ OpenAt(now)'
    BY <1>1
  <2>2. Len(muteQ) = 1 /\ c.val
    <3>1. Len(muteQ') = 0
      BY <2>1
    <3>2. Len(muteQ) = 1
      BY <1>3, <3>1
    <3>3. want = muteQ[Len(muteQ)].val
      BY <1>1 DEF InOrder
    <3> QED BY <1>3, <2>1, <3>2, <3>3
  <2>3. CASE ctl.capturing
    <3>1. OpenAt(now)'
      <4>1. [start |-> c.ts, end |-> Open] \in rows'
        BY <1>6, <2>2, <2>3 DEF Opened
      <4> QED BY <1>1, <1>5, <4>1 DEF OpenAt
    <3> QED BY <3>1
  <2>4. CASE ~ctl.capturing
    BY <1>6, <2>2, <2>4
  <2> QED BY <2>3, <2>4
<1>9. ASSUME NEW f \in heard'
      PROVE  IF Heads(f)' THEN Polling' => ctl'.capturing \/ OpenAt(f.at)'
                          ELSE f.muted => Covered(f)'
  <2>1. f \in heard /\ f.at \in Int
    BY <1>1, <1>2, <1>9
  <2>2. CASE ~Heads(f)
    <3>1. f.at < c.ts
      BY <1>1, <1>3, <1>4, <2>1, <2>2 DEF Heads, Commands, Times
    <3>2. ~Heads(f)'
      <4>1. SUFFICES ASSUME Heads(f)' PROVE FALSE
        OBVIOUS
      <4>2. Len(muteQ') # 0 /\ muteQ'[1].ts <= f.at
        BY <1>3, <4>1 DEF Heads
      <4>3. 2 \in DOMAIN muteQ /\ muteQ[2].ts <= f.at
        BY <1>3, <1>4, <4>2
      <4>4. muteQ[1].ts <= muteQ[2].ts
        BY <1>3, <1>4, <4>3 DEF InOrder
      <4>5. muteQ[1].ts \in Int /\ muteQ[2].ts \in Int
        BY <1>3, <1>4, <4>3 DEF Commands, Times
      <4> QED BY <1>3, <2>1, <3>1, <4>3, <4>4, <4>5
    <3>3. f.muted => Covered(f)
      BY <2>1, <2>2 DEF CoverInv
    <3> QED BY <1>1, <1>6, <2>1, <3>1, <3>2, <3>3, StaysCovered
  <2>3. CASE Heads(f)
    <3>1. c.ts <= f.at /\ (ctl.capturing \/ OpenAt(f.at))
      BY <1>1, <1>3, <2>1, <2>3 DEF Heads, CoverInv
    <3>2. /\ ctl'.capturing \/ OpenAt(f.at)'
          /\ c.val => OpenAt(f.at)'
      BY <1>7, <2>1, <3>1
    <3>3. ASSUME ~Heads(f)', f.muted PROVE Covered(f)'
      <4>1. PICK i \in DOMAIN muteQ : Governs(i, f) /\ muteQ[i].val
        BY <2>1, <2>3, <3>3 DEF InOrder
      <4>2. i = 1
        <5>1. SUFFICES ASSUME i # 1 PROVE FALSE
          OBVIOUS
        <5>2. /\ i \in 2 .. Len(muteQ) /\ 2 \in DOMAIN muteQ
              /\ Len(muteQ') # 0 /\ muteQ' # <<>>
          BY <1>3, <1>4, <4>1, <5>1
        <5>3. f.at < muteQ[2].ts
          <6>1. muteQ'[1] = muteQ[2]
            BY <1>3, <1>4, <5>2
          <6>2. muteQ[2].ts \in Int
            BY <1>4, <5>2 DEF Commands, Times
          <6> QED BY <2>1, <3>3, <5>2, <6>1, <6>2 DEF Heads
        <5>4. muteQ[2].ts <= muteQ[i].ts /\ muteQ[i].ts <= f.at
          BY <1>4, <4>1, <5>2 DEF InOrder, Governs
        <5>5. muteQ[2].ts \in Int /\ muteQ[i].ts \in Int
          BY <1>4, <4>1, <5>2 DEF Commands, Times
        <5> QED BY <2>1, <5>3, <5>4, <5>5
      <4>3. OpenAt(f.at)'
        BY <1>3, <3>2, <4>1, <4>2
      <4> QED BY <4>3 DEF OpenAt, Covered, Covers
    <3> QED BY <3>2, <3>3
  <2> QED BY <2>2, <2>3
<1>10. main'.at \in {"closing", "files"} => ~ctl'.capturing
  BY <1>1 DEF Polling
<1> QED BY <1>1, <1>6, <1>8, <1>9, <1>10 DEF CoverInv
LEMMA CoverStep ==
  ASSUME "open" \notin Faults, Axes \subseteq {"mute"}
  PROVE  ControlTyped /\ InOrder /\ CoverInv /\ [ControlNext]_controlVars
           => CoverInv'
<1> SUFFICES ASSUME ControlTyped, InOrder, CoverInv, [ControlNext]_controlVars
             PROVE  CoverInv'
  OBVIOUS
<1>0. /\ muteQ \in Seq(Commands) /\ want \in BOOLEAN /\ now \in Int
      /\ now \in Times
      /\ \A f \in heard : f.at \in Int /\ f.muted \in BOOLEAN /\ f.at < now
      /\ ctl \in Controllers /\ rows \subseteq Rows
      /\ main.at \in {"mutes", "pauses", "shutdown", "closing", "files"}
  BY DEF ControlTyped, ControlTypeOK, Frames, Times, Controllers, Rows, InOrder
<1>1. CASE NextMute
  BY <1>1, CoverMute
<1>2. ~NextPause /\ ~SetPaused
  BY DEF NextPause, SetPaused, CoverInv
<1>3. CASE SetMuted
  <2>1. /\ UNCHANGED <<now, heard, ctl, rows, main, pauseQ>>
        /\ muteQ' # <<>>
        /\ \A f \in heard : Heads(f)' <=> Heads(f)
    BY <1>3, SetMutedIs
  <2> QED BY <2>1 DEF CoverInv, OpenAt, Covered, Covers, Polling
<1>4. CASE Tick
  <2>1. /\ UNCHANGED <<muteQ, want, ctl, rows, main, pauseQ>> /\ now' = now + 1
        /\ heard' = IF ctl.capturing
                      THEN heard \cup {[at |-> now, muted |-> want]} ELSE heard
    BY <1>4 DEF Tick, history, queues, mic
  <2>2. OpenAt(now) => OpenAt(now)'
    BY <1>0, <2>1 DEF OpenAt, Rows, Times
  <2>3. ASSUME NEW f \in heard'
        PROVE  IF Heads(f)' THEN Polling' => ctl'.capturing \/ OpenAt(f.at)'
                            ELSE f.muted => Covered(f)'
    <3>1. CASE f \in heard
      BY <2>1, <3>1 DEF CoverInv, Heads, OpenAt, Covered, Covers, Polling
    <3>2. CASE f \notin heard
      <4>1. f.at = now /\ f.muted = want /\ ctl.capturing
        BY <2>1, <2>3, <3>2
      <4>2. ~Heads(f) => muteQ = <<>>
        <5>1. SUFFICES ASSUME muteQ # <<>> PROVE Heads(f)
          OBVIOUS
        <5>2. Len(muteQ) \in Nat \ {0} /\ DOMAIN muteQ = 1 .. Len(muteQ)
          BY <1>0, <5>1, QueueIs, HeadIs
        <5> QED BY <4>1, <5>1, <5>2 DEF Heads, InOrder
      <4>3. f.muted /\ ~Heads(f) => OpenAt(now)
        BY <4>1, <4>2 DEF CoverInv
      <4> QED BY <2>1, <4>1, <4>3 DEF Heads, OpenAt, Covered, Covers
    <3> QED BY <3>1, <3>2
  <2> QED BY <2>1, <2>2, <2>3 DEF CoverInv
<1>5. CASE Shutdown
  <2>1. /\ ctl' = [ctl EXCEPT !.capturing = FALSE]
        /\ UNCHANGED <<now, want, muteQ, pauseQ, rows, heard>>
        /\ main'.at = "closing"
    BY <1>5 DEF Shutdown, Go, history, queues, ControlTyped, ControlTypeOK
  <2>2. ~ctl'.capturing /\ ctl'.paused = ctl.paused /\ ~Polling'
    BY <1>0, <2>1 DEF Controllers, Polling
  <2> QED BY <2>1, <2>2 DEF CoverInv, Heads, OpenAt, Covered, Covers
<1>6. CASE CloseSpan
  <2>1. /\ rows' \in {rows, Closed(now)}
        /\ UNCHANGED <<now, want, muteQ, pauseQ, ctl, heard>>
        /\ main.at = "closing" /\ main'.at = "files"
    BY <1>6 DEF CloseSpan, Go, history, queues, ControlTyped, ControlTypeOK
  <2>2. ~ctl'.capturing /\ ~Polling'
    BY <2>1 DEF CoverInv, Polling
  <2>3. ASSUME NEW f \in heard, ~Heads(f), f.muted PROVE Covered(f)'
    BY <1>0, <2>1, <2>3, StaysCovered DEF CoverInv
  <2> QED BY <2>1, <2>2, <2>3 DEF CoverInv, Heads
<1>7. CASE ~NextMute /\ ~SetMuted /\ ~Tick /\ ~Shutdown /\ ~CloseSpan
  <2>1. UNCHANGED <<now, want, muteQ, pauseQ, ctl, rows, heard>>
    BY <1>2, <1>7, OtherSteps
  <2>3. main'.at \in {"closing", "files"} => main.at = main'.at
    BY <1>2, <1>7, OtherSteps
       DEF MutesApplied, PausesApplied, Go, Polling, ControlTyped, ControlTypeOK
  <2>4. Polling' => Polling
    BY <1>2, <1>7, OtherSteps
       DEF MutesApplied, PausesApplied, Go, Polling, ControlTyped, ControlTypeOK
  <2> QED BY <2>1, <2>3, <2>4 DEF CoverInv, Heads, OpenAt, Covered, Covers
<1> QED BY <1>1, <1>2, <1>3, <1>4, <1>5, <1>6, <1>7

\* What was captured after the user asked for silence lies in a muted interval
\* as soon as the command has been applied, whatever the device and the closing
\* of intervals do, as long as an interval can be opened and no pause comes.
THEOREM MutedCoverHolds ==
  ASSUME "open" \notin Faults, Axes \subseteq {"mute"}
  PROVE  ControlSpec => []MutedIsCovered
<1>1. InOrder /\ CoverInv => MutedIsCovered
  BY DEF InOrder, CoverInv, MutedIsCovered, Governs, Pending
<1>2. ControlTyped /\ InOrder /\ CoverInv /\ [ControlNext]_controlVars
        => CoverInv'
  BY CoverStep
<1> QED BY <1>1, <1>2, CoverInit, InOrderInit, InOrderStep, ControlAlwaysTyped,
           PTL DEF ControlSpec
-----------------------------------------------------------------------------
(* And what the user said with the microphone on is not.                   *)

\* Without failures: no interval is open while the stream runs, none ends in
\* the future, and one that reaches over unmuted speech is about to be closed
\* before it.
HeardInv ==
  /\ \A r \in rows : IF r.end = Open THEN ~ctl.capturing ELSE r.end <= now
  /\ \A r \in rows, f \in heard :
       Covers(r, f) /\ ~f.muted => /\ r.end = Open /\ Heads(f)
                                   /\ main.at = "mutes"

LEMMA HeardMute ==
  ASSUME Faults = {}, ControlTyped, InOrder, CoverInv, HeardInv, NextMute
  PROVE  HeardInv'
<1> DEFINE c == Head(muteQ)
<1>1. /\ c \in Commands /\ c.ts \in Times /\ c.val \in BOOLEAN
      /\ IF c.val THEN Mute(c.ts) ELSE Unmute(c.ts)
      /\ muteQ # <<>> /\ muteQ \in Seq(Commands)
      /\ UNCHANGED <<now, heard, main>>
      /\ main.at = "mutes"
  BY NextMuteIs DEF NextMute, ControlTyped, ControlTypeOK
<1>2. c = muteQ[1] /\ 1 \in DOMAIN muteQ
  BY <1>1, HeadIs, QueueIs
<1>3. /\ c.ts <= now /\ now \in Int /\ c.ts \in Int /\ c.ts # Open
      /\ \A f \in heard : f.at \in Int /\ f.muted \in BOOLEAN
      /\ rows \subseteq Rows /\ ctl.capturing \in BOOLEAN /\ ~ctl.paused
      /\ \A f \in heard : Heads(f) <=> c.ts <= f.at
  BY <1>1, <1>2 DEF InOrder, ControlTyped, ControlTypeOK, Frames, Times, Open,
                    Rows, CoverInv, Heads
<1>4. CASE c.val
  <2>1. Mute(c.ts)
    BY <1>1, <1>4
  <2>2. /\ ctl.capturing => rows' = Opened(c.ts)
        /\ ~ctl.capturing => rows' = rows
        /\ ~ctl'.capturing
    BY <1>1, <2>1, MuteIs
  <2>3. ASSUME NEW f \in heard, ~f.muted, c.ts <= f.at PROVE Heads(f)'
    BY <1>3, <1>4, <2>3, StillHeads
  <2>4. CASE ctl.capturing
    <3>1. rows' = rows \cup {[start |-> c.ts, end |-> Open]}
      BY <2>2, <2>4 DEF Opened
    <3>2. ASSUME NEW r \in rows', NEW f \in heard, Covers(r, f), ~f.muted
          PROVE  r.end = Open /\ Heads(f)'
      <4>1. CASE r \in rows
        BY <2>4, <3>2, <4>1 DEF HeardInv
      <4>2. CASE r = [start |-> c.ts, end |-> Open]
        BY <2>3, <3>2, <4>2 DEF Covers
      <4> QED BY <3>1, <3>2, <4>1, <4>2
    <3> QED BY <1>1, <2>2, <3>1, <3>2 DEF HeardInv, Covers
  <2>5. CASE ~ctl.capturing
    <3>1. rows' = rows
      BY <2>2, <2>5
    <3>2. ASSUME NEW r \in rows, NEW f \in heard, Covers(r, f), ~f.muted
          PROVE  r.end = Open /\ Heads(f)'
      BY <1>3, <2>3, <3>2 DEF HeardInv
    <3> QED BY <1>1, <2>2, <3>1, <3>2 DEF HeardInv, Covers
  <2> QED BY <1>3, <2>4, <2>5
<1>5. CASE ~c.val
  <2>1. Unmute(c.ts)
    BY <1>1, <1>5
  <2>2. /\ ctl'.capturing
        /\ ctl.capturing => rows' = rows
        /\ ~ctl.capturing => rows' = Closed(c.ts)
    BY <1>1, <1>3, <2>1, UnmuteIs
  <2>3. CASE ctl.capturing
    BY <1>1, <2>2, <2>3 DEF HeardInv, Covers
  <2>4. CASE ~ctl.capturing
    <3>1. ASSUME NEW s \in rows'
          PROVE  /\ s.end # Open /\ s.end <= now
                 /\ \A f \in heard : Covers(s, f) => f.muted
      <4>1. PICK r \in rows :
              s = IF r.end = Open THEN [r EXCEPT !.end = c.ts] ELSE r
        BY <2>2, <2>4, <3>1 DEF Closed
      <4>2. CASE r.end = Open
        <5>1. s.end = c.ts /\ s.start = r.start
          BY <1>3, <4>1, <4>2 DEF Rows
        <5>2. ASSUME NEW f \in heard, Covers(s, f), ~f.muted PROVE FALSE
          <6>1. r.start <= f.at /\ f.at < c.ts
            BY <1>3, <5>1, <5>2 DEF Covers
          <6>2. Covers(r, f)
            BY <4>2, <6>1 DEF Covers
          <6>3. Heads(f)
            BY <5>2, <6>2 DEF HeardInv
          <6> QED BY <1>3, <6>1, <6>3
        <5> QED BY <1>3, <5>1, <5>2
      <4>3. CASE r.end # Open
        BY <4>1, <4>3 DEF HeardInv
      <4> QED BY <4>2, <4>3
    <3> QED BY <1>1, <3>1 DEF HeardInv, Covers
  <2> QED BY <1>3, <2>3, <2>4
<1> QED BY <1>1, <1>4, <1>5

LEMMA HeardStep ==
  ASSUME Faults = {}, Axes \subseteq {"mute"}
  PROVE  ControlTyped /\ InOrder /\ CoverInv /\ HeardInv
           /\ [ControlNext]_controlVars => HeardInv'
<1> SUFFICES ASSUME ControlTyped, InOrder, CoverInv, HeardInv,
                    [ControlNext]_controlVars
             PROVE  HeardInv'
  OBVIOUS
<1>0. /\ now \in Int /\ now # Open
      /\ \A f \in heard : f.at \in Int /\ f.muted \in BOOLEAN /\ f.at < now
      /\ rows \subseteq Rows /\ ctl \in Controllers
  BY DEF ControlTyped, ControlTypeOK, Frames, Times, Controllers, Rows, InOrder,
         Open
<1>1. CASE NextMute
  BY <1>1, HeardMute
<1>2. ~NextPause /\ ~SetPaused
  BY DEF NextPause, SetPaused, CoverInv
<1>3. CASE SetMuted
  BY <1>3, SetMutedIs DEF HeardInv, Covers
<1>4. CASE Tick
  <2>1. /\ UNCHANGED <<muteQ, ctl, rows, main>> /\ now' = now + 1
        /\ heard' = IF ctl.capturing
                      THEN heard \cup {[at |-> now, muted |-> want]} ELSE heard
    BY <1>4 DEF Tick, history, queues, mic
  <2>2. \A r \in rows : IF r.end = Open THEN ~ctl.capturing ELSE r.end <= now'
    BY <1>0, <2>1 DEF HeardInv, Rows, Times
  <2>3. ASSUME NEW r \in rows, NEW f \in heard', Covers(r, f), ~f.muted
        PROVE  r.end = Open /\ Heads(f)' /\ main'.at = "mutes"
    <3>1. CASE f \in heard
      BY <2>1, <2>3, <3>1 DEF HeardInv, Heads
    <3>2. CASE f \notin heard
      <4>1. ctl.capturing /\ f.at = now
        BY <2>1, <2>3, <3>2
      <4>2. r.end # Open /\ r.end <= now /\ r.end \in Int
        BY <1>0, <4>1 DEF HeardInv, Rows, Times
      <4> QED BY <1>0, <2>3, <4>1, <4>2 DEF Covers
    <3> QED BY <3>1, <3>2
  <2> QED BY <2>1, <2>2, <2>3 DEF HeardInv, Covers
<1>5. CASE MutesApplied
  <2>1. muteQ = <<>> /\ UNCHANGED <<now, muteQ, ctl, rows, heard>>
    BY <1>5 DEF MutesApplied, history, queues, mic
  <2> QED BY <2>1 DEF HeardInv, Heads, Covers
<1>6. CASE PausesApplied \/ Shutdown \/ CloseSpan
  <2>1. main.at # "mutes" /\ UNCHANGED <<now, heard>>
    BY <1>6 DEF PausesApplied, Shutdown, CloseSpan, history
  <2>2. ASSUME NEW r \in rows, NEW f \in heard, Covers(r, f) PROVE f.muted
    BY <1>0, <2>1, <2>2 DEF HeardInv
  <2>3. CASE PausesApplied
    BY <2>1, <2>2, <2>3 DEF PausesApplied, mic, HeardInv, Covers
  <2>4. CASE Shutdown
    <3>1. rows' = rows /\ ctl' = [ctl EXCEPT !.capturing = FALSE]
      BY <2>4 DEF Shutdown
    <3> QED BY <1>0, <2>1, <2>2, <3>1 DEF HeardInv, Covers, Controllers
  <2>5. CASE CloseSpan
    <3>1. rows' = Closed(now) /\ ctl' = ctl
      BY <2>5 DEF CloseSpan
    <3>2. ASSUME NEW s \in rows'
          PROVE  /\ s.end # Open /\ s.end <= now
                 /\ \A f \in heard : Covers(s, f) => f.muted
      <4>1. PICK r \in rows :
              s = IF r.end = Open THEN [r EXCEPT !.end = now] ELSE r
        BY <3>1, <3>2 DEF Closed
      <4>2. CASE r.end = Open
        <5>1. s.end = now /\ s.start = r.start
          BY <1>0, <4>1, <4>2 DEF Rows
        <5> QED BY <1>0, <2>2, <4>2, <5>1 DEF Covers
      <4>3. CASE r.end # Open
        BY <2>2, <4>1, <4>3 DEF HeardInv
      <4> QED BY <4>2, <4>3
    <3> QED BY <2>1, <3>2 DEF HeardInv, Covers
  <2> QED BY <1>6, <2>3, <2>4, <2>5
<1>7. CASE /\ ~NextMute /\ ~SetMuted /\ ~Tick /\ ~MutesApplied
           /\ ~PausesApplied /\ ~Shutdown /\ ~CloseSpan
  <2>1. UNCHANGED <<now, muteQ, ctl, rows, heard, main>>
    BY <1>2, <1>7, OtherSteps
  <2> QED BY <2>1 DEF HeardInv, Heads, Covers
<1> QED BY <1>1, <1>2, <1>3, <1>4, <1>5, <1>6, <1>7

\* Without failures and pauses no muted interval reaches over what was said
\* with the microphone on, once every command has been applied.
THEOREM HeardHolds ==
  ASSUME Faults = {}, Axes \subseteq {"mute"}
  PROVE  ControlSpec => []HeardIsUncovered
<1>1. ControlTyped /\ HeardInv => HeardIsUncovered
  BY DEF ControlTyped, ControlTypeOK, Frames, HeardInv, HeardIsUncovered,
         Covered, Heads
<1>2. ControlInit => HeardInv
  BY DEF ControlInit, HeardInv
<1>3. ControlTyped /\ InOrder /\ CoverInv /\ [ControlNext]_controlVars
        => CoverInv'
  BY CoverStep
<1>4. ControlTyped /\ InOrder /\ CoverInv /\ HeardInv
        /\ [ControlNext]_controlVars => HeardInv'
  BY HeardStep
<1> QED BY <1>1, <1>2, <1>3, <1>4, CoverInit, InOrderInit, InOrderStep,
           ControlAlwaysTyped, PTL DEF ControlSpec

=============================================================================
