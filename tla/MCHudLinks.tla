----------------------------- MODULE MCHudLinks -----------------------------
(***************************************************************************)
(* Four parts of the HUD that share no state, one instance of each: the    *)
(* link to the kernel, push-to-talk, the alert in the centre, and the      *)
(* telemetry whose readings the alert takes (any reading, in its own       *)
(* part).  A behaviour here is a behaviour of one of them, the others at   *)
(* rest.                                                                   *)
(***************************************************************************)
EXTENDS ResidentLink, VoiceCapture, Attention, Telemetry, TLC

VARIABLE part  \* the part a behaviour is of

(* _CENTRAL_METRICS, for two metrics in place of six.                      *)
CentralMetrics == "DIAGNOSTICS" :> {1, 2} @@ "MONITOR" :> {1} @@ "ASSISTANT" :> {}

CoreSeq == <<"cpu0", "cpu1">>

-----------------------------------------------------------------------------
HudLinksInit ==
  /\ part \in {"link", "voice", "attention", "telemetry"}
  /\ LinkInit /\ (part # "link" => installed)
  /\ VoiceInit /\ (part # "voice" => tools)
  /\ AttentionInit /\ (part # "attention" => mode = "MONITOR")
  /\ TelemetryInit /\ unreadable \subseteq Plain  \* the others fail later
  /\ (part # "telemetry" => online = CoreNames /\ unreadable = {})

HudLinksNext ==
  /\ UNCHANGED part
  /\ \/ part = "link" /\ LinkNext /\ UNCHANGED <<voiceVars, attentionVars, telemetryVars>>
     \/ part = "voice" /\ VoiceNext /\ UNCHANGED <<linkVars, attentionVars, telemetryVars>>
     \/ part = "attention" /\ AttentionNext /\ UNCHANGED <<linkVars, voiceVars, telemetryVars>>
     \/ part = "telemetry" /\ TelemetryNext /\ UNCHANGED <<linkVars, voiceVars, attentionVars>>

HudLinksSpec ==
  HudLinksInit /\ [][HudLinksNext]_<<part, linkVars, voiceVars, attentionVars, telemetryVars>>

-----------------------------------------------------------------------------
(* What each part holds in its variables is of its type.                   *)
HudLinksTypeOK == LinkTypeOK /\ VoiceTypeOK /\ AttentionTypeOK /\ TelemetryTypeOK
=============================================================================
