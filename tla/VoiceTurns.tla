----------------------------- MODULE VoiceTurns -----------------------------
(***************************************************************************)
(* The hands-free conversation of the chat page: whose turn it is          *)
(* (HandsFreeTurns), the microphone and the spoken answer (useVoice), and  *)
(* the request being answered (send).  `ui` is the page; a handler is an   *)
(* operator from the page before it to the page after it, so that one can  *)
(* call another as the code does.  What is said is told apart only as new  *)
(* words, the last words again, or a stop phrase.                          *)
(*                                                                         *)
(* The browser decides when the microphone opens, fails and ends and when  *)
(* a sentence has been played.  React renders a change made by a click     *)
(* within the click, any other change in a later task (Render): browser    *)
(* and network events may come in between, timers (400 ms and more) and    *)
(* people do not.                                                          *)
(***************************************************************************)
EXTENDS Integers

CONSTANTS SilentLimit,   \* SILENT_LIMIT
          ErrorRetries,       \* the length of ERROR_RETRY_DELAYS_MS
          MaxQueued,     \* bound: sentences waiting to be played
          MaxTaps        \* bound: what the person does in a behaviour

VARIABLE ui

vars == <<ui>>

NoWords == "none"
Words == {"new", "again", "stop"}
ErrorCodes == {"no-speech", "not-allowed", "aborted", "network"}

\* The page: the controller (on .. answering, sent), the recogniser (mic .. mine, where
\* mine tells a session the controller opened from a dictation), the speech queue
\* (queued, and dropped once the rest of an answer is not to be spoken), the label of
\* useVoice and the one last rendered (voice, seen), the request (streaming .. stopped),
\* and whether some answer was last read aloud with its button.
Page ==
  [on : BOOLEAN, timer : BOOLEAN, watchdog : BOOLEAN, answering : BOOLEAN, sent : BOOLEAN,
   turn : {"idle", "listening", "processing", "speaking", "restarting", "paused", "error"},
   silent : 0..SilentLimit, errors : 0..(ErrorRetries + 1), failed : 0..(ErrorRetries + 1),
   mic : {"off", "starting", "on", "ending"}, heard : Words \cup {NoWords},
   errored : BOOLEAN, mine : BOOLEAN,
   queued : 0..MaxQueued, dropped : BOOLEAN, muted : BOOLEAN,
   voice : {"idle", "requesting", "listening", "speaking", "error"},
   seen : {"idle", "requesting", "listening", "speaking", "error"},
   streaming : BOOLEAN, shown : BOOLEAN, aloud : BOOLEAN, dictated : BOOLEAN,
   stopped : BOOLEAN, reading : BOOLEAN, gone : BOOLEAN, taps : 0..MaxTaps]

Init ==
  ui = [on |-> FALSE, timer |-> FALSE, watchdog |-> FALSE, answering |-> FALSE, sent |-> FALSE,
        turn |-> "idle", silent |-> 0, errors |-> 0, failed |-> 0,
        mic |-> "off", heard |-> NoWords, errored |-> FALSE, mine |-> FALSE,
        queued |-> 0, dropped |-> FALSE, muted |-> FALSE, voice |-> "idle", seen |-> "idle",
        streaming |-> FALSE, shown |-> FALSE, aloud |-> FALSE, dictated |-> FALSE,
        stopped |-> FALSE, reading |-> FALSE, gone |-> FALSE, taps |-> 0]

-----------------------------------------------------------------------------
(* useVoice: the microphone and the speech queue.                          *)

CancelSpeech(p) == [p EXCEPT !.queued = 0]

StopSpeaking(p) ==
  [CancelSpeech(p) EXCEPT !.dropped = TRUE,
                          !.voice = IF @ = "speaking" THEN "idle" ELSE @]

Play(p) == [p EXCEPT !.queued = @ + 1, !.voice = "speaking"]

Speak(p) == Play(CancelSpeech(p))

\* The browser refuses to start a recogniser that has not ended.
Accepts(p) == p.mic = "off"

StartMic(p, mine) ==
  [CancelSpeech(p) EXCEPT
     !.voice = IF Accepts(p) THEN "requesting" ELSE "idle",
     !.mic = IF Accepts(p) THEN "starting" ELSE @,
     !.mine = IF Accepts(p) THEN mine ELSE @,
     !.heard = NoWords, !.errored = FALSE]

StopMic(p) ==
  [p EXCEPT !.mic = IF @ \in {"starting", "on"} THEN "ending" ELSE @,
            !.voice = IF @ \in {"requesting", "listening"} THEN "idle" ELSE @]

-----------------------------------------------------------------------------
(* HandsFreeTurns: the controller.                                         *)

SetTurn(p, turn) == [p EXCEPT !.turn = turn]

ClearTimer(p) == [p EXCEPT !.timer = FALSE, !.watchdog = FALSE]

Pause(p) == StopMic(SetTurn(ClearTimer(p), "paused"))

ListenAfter(p) == [SetTurn(ClearTimer(p), "restarting") EXCEPT !.timer = TRUE]

\* A count matters only up to its limit.
OneMore(count, limit) == IF count < limit THEN count + 1 ELSE count

RetryAfterError(p) ==
  LET counted == [p EXCEPT !.errors = OneMore(@, ErrorRetries + 1)]
  IN  IF p.errors < ErrorRetries THEN ListenAfter(counted) ELSE Pause(counted)

Listen(p) ==
  IF Accepts(p) THEN [StartMic(SetTurn(p, "listening"), TRUE) EXCEPT !.watchdog = TRUE]
                ELSE RetryAfterError(SetTurn(StartMic(p, TRUE), "error"))

\* One more session that heard nothing.
CountSilence(p) ==
  LET counted == [p EXCEPT !.silent = OneMore(@, SilentLimit)]
  IN  IF counted.silent >= SilentLimit THEN Pause(counted) ELSE ListenAfter(counted)

Fresh(p) == [p EXCEPT !.on = TRUE, !.silent = 0, !.errors = 0, !.failed = 0]

Enable(p) ==
  LET quiet == StopMic(ClearTimer(Fresh(p)))
  IN  CASE p.answering -> SetTurn(Fresh(p), "processing")
        [] ~p.answering /\ ~p.muted -> SetTurn(Speak(quiet), "speaking")
        [] OTHER -> Listen(quiet)

Disable(p) == SetTurn(StopSpeaking(StopMic(ClearTimer([p EXCEPT !.on = FALSE]))), "idle")

Resume(p) ==
  IF p.answering THEN SetTurn(Fresh(p), "processing") ELSE Listen(ClearTimer(Fresh(p)))

Interrupt(p) == Listen(ClearTimer(StopSpeaking(p)))

Hears(p) == p.on /\ p.turn = "listening"

OnHeard(p) == IF Hears(p) THEN [p EXCEPT !.watchdog = TRUE] ELSE p

OnNoSpeech(p) == IF Hears(p) THEN CountSilence(p) ELSE p

OnError(p, code) ==
  CASE ~p.on \/ p.turn \notin {"listening", "restarting"} -> p
    [] code = "aborted" -> p
    [] code = "not-allowed" -> Pause(p)
    [] OTHER -> RetryAfterError(p)

OnAnswerStarted(p) ==
  LET begun == ClearTimer([p EXCEPT !.answering = TRUE])
  IN  IF p.on /\ p.turn # "paused" THEN StopMic(SetTurn(begun, "processing")) ELSE begun

\* A mistake: the microphone is left open.
OnSpeaking_MicOpen(p) ==
  IF p.on /\ p.turn # "paused" THEN SetTurn(ClearTimer(p), "speaking") ELSE p

OnSpeaking(p) ==
  IF p.on /\ p.turn # "paused" THEN StopMic(SetTurn(ClearTimer(p), "speaking")) ELSE p

OnSpeechDone(p) ==
  IF p.on /\ ~p.answering /\ p.turn = "speaking" THEN ListenAfter(p) ELSE p

\* A mistake: the turn is always handed back by the end of the speech.
OnAnswerDone_AfterSpeech(p, failed) ==
  LET over == [p EXCEPT !.answering = FALSE]
  IN  IF ~p.on \/ p.turn = "paused" THEN over ELSE SetTurn(over, "speaking")

OnAnswerDone(p, failed) ==
  LET over == [p EXCEPT !.answering = FALSE]
      counted == [over EXCEPT !.failed = IF failed THEN OneMore(@, ErrorRetries + 1) ELSE 0]
  IN  CASE ~p.on \/ p.turn = "paused" -> over
        [] p.on /\ p.turn # "paused" /\ failed /\ counted.failed > ErrorRetries -> Pause(counted)
        [] OTHER -> IF p.queued > 0 THEN SetTurn(counted, "speaking") ELSE ListenAfter(counted)

-----------------------------------------------------------------------------
(* The chat page: the request, and what the page does on a render.         *)

\* send: the guard reads isStreaming as it was rendered.
Send(p) ==
  IF p.shown THEN p
  ELSE [OnAnswerStarted(p) EXCEPT !.streaming = TRUE, !.stopped = FALSE, !.dropped = FALSE,
                                  !.aloud = p.dictated \/ p.on]

\* The microphone has ended with these words.
OnFinal(p, said) ==
  CASE ~Hears(p) -> p
    [] Hears(p) /\ said = "stop" -> Disable([p EXCEPT !.silent = 0, !.errors = 0])
    [] OTHER ->
         LET told == [p EXCEPT !.silent = 0, !.errors = 0]
         IN  CASE p.answering -> told
               [] ~p.answering /\ said = "again" /\ p.sent -> ListenAfter(told)
               [] OTHER -> Send([SetTurn(told, "processing") EXCEPT
                                   !.watchdog = FALSE, !.sent = TRUE, !.answering = TRUE])

\* The effect on voice.state runs when the rendered value has changed.
Rendered(p) ==
  LET now == [p EXCEPT !.seen = p.voice, !.shown = p.streaming]
  IN  CASE p.voice = p.seen -> now
        [] p.voice # p.seen /\ p.voice = "speaking" -> OnSpeaking(now)
        [] OTHER -> OnSpeechDone(now)

UpToDate == ui.seen = ui.voice /\ ui.shown = ui.streaming

-----------------------------------------------------------------------------
(* The browser, the network and the clock.                                 *)

Render == ~ui.gone /\ ~UpToDate /\ ui' = Rendered(ui)

MicStarts ==
  /\ ui.mic = "starting"
  /\ ui' = [ui EXCEPT !.mic = "on", !.voice = "listening"]

\* A stopped recogniser may still report what it has heard.
MicHears(words) ==
  /\ ui.mic \in {"on", "ending"} /\ ui.heard # words
  /\ ui' = OnHeard([ui EXCEPT !.heard = words, !.dictated = TRUE])

MicFails(code) ==
  /\ ui.mic # "off" /\ ~ui.errored
  /\ LET failed == [ui EXCEPT !.errored = TRUE, !.voice = "error"]
     IN  ui' = IF code = "no-speech" THEN OnNoSpeech(failed) ELSE OnError(failed, code)

MicEnds ==
  /\ ui.mic # "off"
  /\ LET ended == [ui EXCEPT !.mic = "off", !.heard = NoWords, !.errored = FALSE,
                             !.voice = IF @ \in {"requesting", "listening"} THEN "idle" ELSE @]
     IN  ui' = CASE ui.heard # NoWords -> OnFinal(ended, ui.heard)
                 [] ui.heard = NoWords /\ ~ui.errored -> OnNoSpeech(ended)
                 [] OTHER -> ended

\* The end of a cancelled sentence belongs to an older generation and counts for nothing.
SentenceEnds ==
  /\ ui.queued > 0
  /\ LET played == [ui EXCEPT !.queued = @ - 1]
     IN  ui' = IF ui.queued > 1 THEN played
               ELSE OnSpeechDone([played EXCEPT !.voice = IF @ = "speaking" THEN "idle" ELSE @])

\* A whole sentence of the answer has arrived (speakStreaming).
SentenceArrives ==
  /\ ui.streaming /\ ui.aloud /\ ~ui.muted /\ ~ui.dropped
  /\ ui.queued < MaxQueued
  /\ ui' = Play(ui)

\* The stream ends: with its last event, with an error event, cut off, or aborted.
AnswerEnds(how) ==
  /\ ui.streaming
  /\ how = "aborted" => ui.stopped
  /\ LET over == [ui EXCEPT !.streaming = FALSE,
                            !.dictated = IF how = "done" /\ ui.aloud THEN FALSE ELSE @]
     IN  ui' = OnAnswerDone(over, how = "dropped" /\ ~ui.stopped)

\* The pending restart: not while an answer is produced.
TimerFires ==
  /\ ui.timer /\ UpToDate
  /\ LET due == [ui EXCEPT !.timer = FALSE]
     IN  ui' = IF ui.on /\ ~ui.answering /\ ui.turn # "paused" THEN Listen(due) ELSE due

WatchdogFires ==
  /\ ui.watchdog /\ UpToDate
  /\ LET due == [ui EXCEPT !.watchdog = FALSE]
     IN  ui' = IF Hears(ui) THEN StopMic(CountSilence(due)) ELSE due

-----------------------------------------------------------------------------
(* The person.                                                             *)

Tap(after) ==
  /\ ~ui.gone /\ UpToDate /\ ui.taps < MaxTaps
  /\ ui' = Rendered([after EXCEPT !.taps = @ + 1])

ToggleHandsFree ==
  Tap(CASE ui.turn = "paused" -> Resume(ui)
        [] ui.turn # "paused" /\ ui.on -> Disable(ui)
        [] OTHER -> Enable(ui))

TapInterrupt == ui.on /\ "speaking" \in {ui.turn, ui.voice} /\ Tap(Interrupt(ui))

PauseByUser == ui.on /\ ui.turn # "paused" /\ Tap(Pause(StopSpeaking(ui)))

\* The dictation button is disabled during an answer and in hands-free.
ToggleListening ==
  /\ ~ui.streaming /\ ~ui.on
  /\ Tap(IF ui.voice \in {"requesting", "listening"} THEN StopMic(ui) ELSE StartMic(ui, FALSE))

\* The button of an answer reads it, or stops the speech if the answer is marked as read.
ToggleReadAloud ==
  \/ Tap([Speak(ui) EXCEPT !.reading = TRUE])
  \/ ui.voice = "speaking" /\ ui.reading /\ Tap([StopSpeaking(ui) EXCEPT !.reading = FALSE])

\* The stop button that shows during speech, outside hands-free.
TapStopSpeaking == ~ui.on /\ ui.voice = "speaking" /\ Tap(StopSpeaking(ui))

ToggleMuted == Tap([IF ui.muted THEN ui ELSE CancelSpeech(ui) EXCEPT !.muted = ~@])

SendTyped == ~ui.streaming /\ Tap(Send(ui))

\* The stop button, and Esc, which leaves the speech alone.
StopAnswer ==
  /\ ui.streaming
  /\ LET aborted == [ui EXCEPT !.stopped = TRUE]
     IN  Tap(StopSpeaking(aborted)) \/ Tap(aborted)

HideTab == ui.on /\ ui.turn # "paused" /\ Tap(Pause(StopSpeaking(ui)))

\* Leaving the page: the recogniser is silenced and the controller disposed of, while the
\* request goes on.
Leave ==
  /\ ~ui.gone /\ ui.taps < MaxTaps
  /\ ui' = [ClearTimer(ui) EXCEPT !.gone = TRUE, !.on = FALSE, !.mic = "off", !.queued = 0,
                                  !.heard = NoWords, !.errored = FALSE, !.taps = @ + 1]

Person == \/ ToggleHandsFree \/ TapInterrupt \/ PauseByUser \/ ToggleListening
          \/ ToggleReadAloud \/ TapStopSpeaking \/ ToggleMuted \/ SendTyped \/ StopAnswer \/ HideTab \/ Leave

Next ==
  \/ Render \/ MicStarts \/ MicEnds \/ SentenceEnds \/ SentenceArrives
  \/ TimerFires \/ WatchdogFires \/ Person
  \/ \E words \in Words : MicHears(words)
  \/ \E code \in ErrorCodes : MicFails(code)
  \/ \E how \in {"done", "error", "dropped", "aborted"} : AnswerEnds(how)

\* What is fair: React renders, timers fire, a sentence that is played ends, a request ends, and a
\* recogniser told to stop ends.
Answered == \E how \in {"done", "error", "dropped", "aborted"} : AnswerEnds(how)
Closes == ui.mic = "ending" /\ MicEnds

Fairness == /\ WF_vars(Render) /\ WF_vars(SentenceEnds) /\ WF_vars(Answered)
            /\ WF_vars(TimerFires) /\ WF_vars(WatchdogFires) /\ WF_vars(Closes)

Spec == Init /\ [][Next]_vars /\ Fairness

-----------------------------------------------------------------------------
TypeOK == ui \in Page

\* The controller and the request agree on whether an answer is being produced.
OneRequest == ui.answering = ui.streaming

\* Hands-free that is off or paused starts nothing by itself.
QuietWhenPaused == ~ui.on \/ ui.turn = "paused" => ~ui.timer /\ ~ui.watchdog

\* The microphone hands-free has opened is closed or closing while speech plays, once the
\* page has caught up.
MicClosedWhileSpeaking ==
  UpToDate /\ ui.on /\ ui.queued > 0 /\ ui.mine => ui.mic \in {"off", "ending"}

\* A listening turn is watched over: it cannot wait on a dead microphone for ever.
ListeningIsWatched == ui.on /\ ui.turn = "listening" => ui.watchdog

\* While it listens, the session it listens to is one the controller opened and has not
\* closed: no dictation and no late end can start a turn.
ListensToItsOwn == Hears(ui) => ui.mic # "ending" /\ (ui.mic = "off" \/ ui.mine)

\* A conversation nobody takes up any more pauses: whatever went before, no state of it
\* waits for an event that does not come, and restarts are bounded.  The exception is
\* muting, which cuts the speech off and leaves its label.
PausesInSilence ==
  []~ui.muted /\ <>[](ui.heard = NoWords /\ ~ui.streaming)
    => (ui.on ~> ui.turn = "paused" \/ ~ui.on)
=============================================================================
