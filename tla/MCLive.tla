------------------------------- MODULE MCLive -------------------------------
(***************************************************************************)
(* What must eventually happen in report executions, in TM1 connections,   *)
(* in chat turns and in a hands-free conversation, which do not depend on  *)
(* one another: `part` is the one that moves in a behaviour.               *)
(***************************************************************************)
EXTENDS ReportExecutions, TLC

CONSTANTS Callers, Seats, None, MaxConfigs, MaxRetries, Threshold,   \* TM1Connections
          Turns, Conversations, Tools, Granted, NoConv, Limits, Reserve, MaxRounds, Window,  \* ChatTurns
          SilentLimit, ErrorRetries, MaxQueued, MaxTaps   \* VoiceTurns

VARIABLES part, row, edit, client, opened, ending, breaker, reports, call, up,
          limit, turn, inflight, live, messages, usage, trail, calls, ran, ui

Connections == INSTANCE TM1Connections WITH Sessions <- Seats
Chat == INSTANCE ChatTurns
Voice == INSTANCE VoiceTurns

connectionsVars == <<row, edit, client, opened, ending, breaker, reports, call, up>>
chatVars == <<limit, turn, inflight, live, messages, usage, trail, calls, ran>>
MCvars == <<vars, part, connectionsVars, chatVars, ui>>

\* A component that does not move has one initial state.
MCInit ==
  /\ part \in {"executions", "connections", "chat", "voice"}
  /\ Init /\ Connections!Init /\ Chat!Init /\ Voice!Init

OnlyExecutions == part = "executions" /\ UNCHANGED <<part, connectionsVars, chatVars, ui>>
OnlyConnections == part = "connections" /\ UNCHANGED <<part, vars, chatVars, ui>>
OnlyChat == part = "chat" /\ UNCHANGED <<part, vars, connectionsVars, ui>>
OnlyVoice == part = "voice" /\ UNCHANGED <<part, vars, connectionsVars, chatVars>>

MCNext ==
  \/ OnlyExecutions /\ Next
  \/ OnlyConnections /\ Connections!Next
  \/ OnlyChat /\ Chat!Next
  \/ OnlyVoice /\ Voice!Next

\* The fairness of each component, of the one that moves.
MCFairness ==
  /\ WF_vars(OnlyExecutions /\ Tick)
  /\ WF_vars(OnlyExecutions /\ BeginSweep)
  /\ SF_vars(OnlyExecutions /\ CommitSweep)
  /\ WF_connectionsVars(OnlyConnections /\ Connections!CoolDown)
  /\ \A c \in Callers : /\ WF_connectionsVars(OnlyConnections /\ Connections!Request(c))
                        /\ SF_connectionsVars(OnlyConnections /\ Connections!Finish(c))
  /\ \A t \in Turns : WF_chatVars(OnlyChat /\ Chat!Step(t))
  /\ WF_ui(OnlyVoice /\ Voice!Render)
  /\ WF_ui(OnlyVoice /\ Voice!SentenceEnds)
  /\ WF_ui(OnlyVoice /\ Voice!Answered)
  /\ WF_ui(OnlyVoice /\ Voice!TimerFires)
  /\ WF_ui(OnlyVoice /\ Voice!WatchdogFires)
  /\ WF_ui(OnlyVoice /\ Voice!Closes)

MCLiveSpec == MCInit /\ [][MCNext]_MCvars /\ MCFairness

-----------------------------------------------------------------------------
\* Once TM1 answers for good the breaker stops refusing calls (CircuitBreaker), and a
\* suspension for good ends every use of the connection (suspend_connection).
ConnectionsSettle == Connections!Recovers /\ Connections!SuspensionDrains

\* Every chat turn that arrives is answered, refused or given up (_run_tool_loop,
\* _stream_turn: the loop of model calls and tool calls ends).
TurnsEnd == Chat!TurnsEnd

\* Unless somebody mutes, a hands-free conversation that nobody takes up any more pauses,
\* whatever was being said, answered, played or restarted: it never sits in "speaking" or
\* "listening" for good (HandsFreeTurns, the effect on voice.state).
VoiceComesBack == Voice!PausesInSilence
=============================================================================
