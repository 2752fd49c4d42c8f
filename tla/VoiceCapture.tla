---------------------------- MODULE VoiceCapture ----------------------------
(***************************************************************************)
(* Push-to-talk in the HUD (bridge/voice_client.py, bridge/voice.py and    *)
(* the slots of controller.py): a recorder, then a transcriber, one        *)
(* process at a time, with a timer over each and a cancel button over      *)
(* both.                                                                   *)
(*                                                                         *)
(* A signal of a process is handled by whatever the client holds by then.  *)
(* One that is killed and waited for ends unheard, as nothing is held; one *)
(* that outlives the two seconds of the wait, or the three of a start, is  *)
(* heard later.                                                            *)
(***************************************************************************)
EXTENDS Naturals, FiniteSets

CONSTANT MaxStarts  \* processes started: bounds a behaviour

ASSUME VoiceAssumption == MaxStarts \in Nat

VARIABLES
  tools,     \* a recorder, a transcriber and a model are there
  process,   \* the process held, 0 if none
  stage,
  timer,
  audio,     \* the temporary directory exists
  started,
  alive,     \* processes running: they record, or transcribe
  ended,     \* processes whose end has not been heard
  loose,     \* one was let go of while it ran
  voiceHud,  \* the state the HUD shows, as far as dictation moves it
  heard      \* a transcript is in the input field

voiceVars == <<tools, process, stage, timer, audio, started, alive, ended, loose, voiceHud, heard>>

VoiceInit ==
  /\ tools \in BOOLEAN /\ process = 0 /\ stage = "" /\ timer = FALSE /\ audio = FALSE
  /\ started = 0 /\ alive = {} /\ ended = {} /\ loose = FALSE
  /\ voiceHud = "STANDBY" /\ heard = FALSE

Stages == {"", "record", "transcribe", "cancelled"}

(* _request_state_quietly, for the states of this module.                  *)
Shows(target) ==
  voiceHud' = IF \/ voiceHud = "STANDBY" /\ target \in {"LISTENING", "PROCESSING"}
                 \/ voiceHud = "LISTENING"
              THEN target ELSE voiceHud

-----------------------------------------------------------------------------
(* Ends of a capture.                                                      *)

Cleanup == audio' = FALSE
Drops == process' = 0 /\ Cleanup /\ Shows("STANDBY") /\ UNCHANGED <<tools, started, heard>>

(* Mutant: the process is dropped, and not killed.                         *)
Mut_Killed == UNCHANGED <<alive, ended, loose>>

(* kill and waitForFinished: the end is not heard unless it is late.       *)
Killed ==
  \/ alive' = alive \ {process} /\ ended' = ended \ {process} /\ UNCHANGED loose
  \/ process \in alive /\ loose' = TRUE /\ UNCHANGED <<alive, ended>>

(* _spawn.  FailedToStart is an error of the process held, so the cleanup  *)
(* and the message come twice; one that is slow to start is forgotten.     *)
Spawns(st, target) ==
  /\ started < MaxStarts /\ started' = started + 1
  /\ \/ /\ process' = started + 1 /\ alive' = alive \cup {started + 1}
        /\ timer' = TRUE /\ Shows(target) /\ UNCHANGED loose
     \/ /\ process' = 0 /\ Shows("STANDBY") /\ timer' = FALSE
        /\ \/ UNCHANGED <<alive, loose>>
           \/ alive' = alive \cup {started + 1} /\ loose' = TRUE
  /\ audio' = (process' # 0) /\ stage' = st

-----------------------------------------------------------------------------
(* startDictation probes the tools again; a directory that cannot be made  *)
(* ends it.                                                                *)
StartCapture ==
  /\ process = 0 /\ tools /\ Spawns("record", "LISTENING")
  /\ UNCHANGED <<tools, ended, heard>>

NoCapture ==
  /\ process = 0 /\ Shows("STANDBY")
  /\ UNCHANGED <<tools, process, stage, timer, audio, started, alive, ended, loose, heard>>

Cancel ==
  /\ process # 0 /\ stage' = "cancelled" /\ timer' = FALSE
  /\ Killed /\ Drops

TimesOut ==
  /\ timer /\ timer' = FALSE
  /\ IF process = 0
       THEN UNCHANGED <<tools, process, stage, audio, started, alive, ended, loose, voiceHud, heard>>
       ELSE Killed /\ Drops /\ UNCHANGED stage

(* A process ends, by itself or of an old kill.                            *)
Ends(p) ==
  /\ p \in alive /\ alive' = alive \ {p} /\ ended' = ended \cup {p}
  /\ UNCHANGED <<tools, process, stage, timer, audio, started, loose, voiceHud, heard>>

(* Its end is heard: nobody listens, an error, a crash, or a result.       *)
HeardByNobody(p) ==
  /\ p \in ended /\ ended' = ended \ {p} /\ process = 0
  /\ UNCHANGED <<tools, process, stage, timer, audio, started, alive, loose, voiceHud, heard>>

(* An error of the pipes, say, is not the end of the process: it is        *)
(* dropped as if it were, and not killed.                                  *)
Breaks ==
  /\ process \in alive /\ loose' = TRUE
  /\ timer' = FALSE /\ Drops /\ UNCHANGED <<stage, alive, ended>>

Fails(p) ==
  /\ p \in ended /\ ended' = ended \ {p} /\ process # 0
  /\ timer' = FALSE /\ Drops /\ UNCHANGED <<stage, alive, loose>>

(* Audio, and not an empty file.                                           *)
Recorded(p) ==
  /\ p \in ended /\ process # 0 /\ stage = "record" /\ audio
  /\ ended' = ended \ {p} /\ Spawns("transcribe", "PROCESSING")
  /\ UNCHANGED <<tools, heard>>

(* Whatever is not the recorder's end is taken for the transcriber's.      *)
Transcribed(p) ==
  /\ p \in ended /\ process # 0 /\ stage # "record"
  /\ ended' = ended \ {p} /\ process' = 0 /\ timer' = FALSE
  /\ Cleanup /\ heard' = TRUE /\ Shows("STANDBY")
  /\ UNCHANGED <<tools, stage, started, alive, loose>>

ToolsChange ==
  /\ tools' = ~tools
  /\ UNCHANGED <<process, stage, timer, audio, started, alive, ended, loose, voiceHud, heard>>

VoiceNext ==
  \/ StartCapture \/ NoCapture \/ Cancel \/ TimesOut \/ Breaks \/ ToolsChange
  \/ \E p \in 1..started :
       Ends(p) \/ HeardByNobody(p) \/ Fails(p) \/ Recorded(p) \/ Transcribed(p)

VoiceSpec == VoiceInit /\ [][VoiceNext]_voiceVars

-----------------------------------------------------------------------------
VoiceTypeOK ==
  /\ tools \in BOOLEAN /\ timer \in BOOLEAN /\ audio \in BOOLEAN
  /\ loose \in BOOLEAN /\ heard \in BOOLEAN
  /\ started \in 0..MaxStarts /\ process \in 0..started /\ stage \in Stages
  /\ alive \subseteq 1..started /\ ended \subseteq 1..started
  /\ voiceHud \in {"STANDBY", "LISTENING", "PROCESSING"}

(* The HUD is not a recording device: audio is on the disk only while a    *)
(* capture is under way, and nothing records or transcribes but the        *)
(* process held, unless one outlived the wait for it, was slow to start,   *)
(* or was let go of on an error that was not its end.                      *)
NothingLeftBehind ==
  /\ audio <=> process # 0
  /\ alive \subseteq {process} \/ loose
=============================================================================
