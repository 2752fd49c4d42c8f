-------------------------- MODULE HudLinks_proofs ---------------------------
(***************************************************************************)
(* The HUD beside its consent gates, for any tokens, probes, calls,        *)
(* captures and metrics: its resident link is up only as the current       *)
(* transport and with a token to send, push-to-talk leaves nothing behind, *)
(* the alert in the centre is the one it says it is, and the readings that *)
(* are shown are of what happened between the last two polls.              *)
(***************************************************************************)
EXTENDS MCHudLinks, FiniteSetTheorems, WellFoundedInduction, TLAPS

-----------------------------------------------------------------------------
(* The resident link.                                                      *)

(* A probe of the connection being made belongs to a token and to the      *)
(* resident transport; what has not been answered is bounded.              *)
Probing ==
  /\ probes > 0 => token # NoToken /\ transport = "resident"
  /\ probes + strays <= MaxProbes

(* A link that is up ends the attempt, so the fallback leaves it alone.    *)
Settled == ~late /\ rready => ~attempt

KInv == LinkTypeOK /\ Probing /\ Settled /\ LinkIsHeld

-----------------------------------------------------------------------------
(* The fallback takes the transport away only while an attempt is on.      *)
LEMMA DisconnectedKeeps ==
  ASSUME NEW p \in Nat, NEW s \in Nat, p <= probes, p + s <= MaxProbes,
         KInv, Disconnected(p, s)
  PROVE  /\ attempt' \in BOOLEAN /\ transport' \in {"resident", "kernel"}
         /\ kproc' \in {"none", "starting", "up"}
         /\ probes' \in 0..MaxProbes /\ strays' \in 0..MaxProbes
         /\ probes' + strays' <= MaxProbes
         /\ probes' > 0 => probes > 0 /\ transport' = transport
         /\ attempt' => attempt
         /\ ~attempt => transport' = transport
         /\ p = 0 => probes' = 0
<1>1. /\ probes \in Nat /\ MaxProbes \in Nat /\ attempt \in BOOLEAN
      /\ transport \in {"resident", "kernel"} /\ kproc \in {"none", "starting", "up"}
  BY LinkAssumption DEF KInv, LinkTypeOK
<1>2. CASE attempt /\ kproc # "up" /\ installed
  <2>1. /\ attempt' = FALSE /\ transport' = "kernel" /\ Spawn
        /\ probes' = 0 /\ strays' = s + p
    BY <1>2 DEF Disconnected
  <2>2. kproc' \in {"none", "starting", "up"}
    BY <1>1, <2>1 DEF Spawn
  <2>3. strays' \in 0..MaxProbes /\ probes' \in 0..MaxProbes /\ probes' + strays' <= MaxProbes
    BY <1>1, <2>1
  <2>4. ~(probes' > 0) /\ attempt /\ ~attempt'
    BY <1>2, <2>1
  <2> QED
    BY <2>1, <2>2, <2>3, <2>4
<1>3. CASE ~(attempt /\ kproc # "up" /\ installed)
  <2>1. /\ attempt' = (attempt /\ kproc = "up") /\ probes' = p /\ strays' = s
        /\ transport' = transport /\ kproc' = kproc
    BY <1>3 DEF Disconnected
  <2> QED
    BY <1>1, <2>1
<1> QED
  BY <1>2, <1>3

(* The doorway comes and goes without touching the client.                 *)
LEMMA DoorStep ==
  ASSUME KInv, DoorOpens \/ DoorCloses \/ TokenRemoved
  PROVE  KInv'
<1>1. /\ UNCHANGED <<installed, transport, attempt, rready, token, probes, strays, calls, late, kproc>>
      /\ file' \in Tokens \cup {NoToken} /\ door' \in Tokens \cup {NoToken}
  BY DEF DoorOpens, DoorCloses, TokenRemoved, KInv, LinkTypeOK
<1> QED
  BY <1>1 DEF KInv, LinkTypeOK, Probing, Settled, LinkIsHeld

(* connectAgent starts one attempt, whichever transport it chooses.        *)
LEMMA ConnectStep ==
  ASSUME KInv, ConnectResident \/ TokenVanishes \/ ConnectKernel
  PROVE  KInv'
<1> USE LinkAssumption DEF KInv, doorVars, Ready
<1>1. /\ probes' \in 0..MaxProbes /\ strays' \in 0..MaxProbes
      /\ probes' + strays' <= MaxProbes
  BY DEF ConnectResident, TokenVanishes, ConnectKernel, LinkTypeOK, Probing
<1>2. kproc' \in {"none", "starting", "up"}
  BY DEF ConnectResident, TokenVanishes, ConnectKernel, Spawn, LinkTypeOK
<1>3. /\ file' \in Tokens \cup {NoToken} /\ token' \in Tokens \cup {NoToken}
      /\ transport' \in {"resident", "kernel"}
      /\ UNCHANGED <<door, installed, rready, calls, late>>
  BY DEF ConnectResident, TokenVanishes, ConnectKernel, LinkTypeOK
<1>4. attempt' \in BOOLEAN
  BY Zenon DEF ConnectResident, TokenVanishes, ConnectKernel
<1>5. probes' > 0 => token' # NoToken /\ transport' = "resident"
  BY DEF ConnectResident, TokenVanishes, ConnectKernel, LinkTypeOK, Probing
<1>6. LinkTypeOK' /\ Probing'
  BY <1>1, <1>2, <1>3, <1>4, <1>5 DEF LinkTypeOK, Probing
<1>7. Settled' /\ LinkIsHeld'
  BY DEF ConnectResident, TokenVanishes, ConnectKernel, Settled, LinkIsHeld
<1> QED
  BY <1>6, <1>7

(* The spawned kernel reports that it is up, or that it is gone.           *)
LEMMA KernelStep ==
  ASSUME KInv, KernelUp \/ KernelLost
  PROVE  KInv'
<1> USE LinkAssumption DEF KInv, doorVars
<1>0. /\ probes' \in 0..MaxProbes /\ strays' \in 0..MaxProbes
      /\ probes' + strays' <= MaxProbes
      /\ probes' > 0 => probes > 0 /\ transport' = transport
  BY DEF KernelUp, KernelLost, LinkTypeOK, Probing
<1>3. /\ transport' \in {"resident", "kernel"} /\ kproc' \in {"none", "starting", "up"}
      /\ UNCHANGED <<file, door, installed, rready, token, calls, late>> /\ attempt' = FALSE
  BY DEF KernelUp, KernelLost, LinkTypeOK
<1>1. LinkTypeOK' /\ Probing'
  BY <1>0, <1>3 DEF LinkTypeOK, Probing
<1>2. Settled' /\ LinkIsHeld'
  BY DEF KernelUp, KernelLost, Settled, LinkIsHeld
<1> QED
  BY <1>1, <1>2

(* An answer makes the client ready; a stray one that does so without a    *)
(* token, or beside the other transport, is late.                          *)
LEMMA HealthyStep ==
  ASSUME KInv, Healthy
  PROVE  KInv'
<1> USE LinkAssumption DEF KInv, doorVars
<1>3. /\ probes' \in 0..MaxProbes /\ strays' \in 0..MaxProbes
      /\ probes' + strays' <= MaxProbes
      /\ probes' > 0 => probes > 0
  BY DEF Healthy, LinkTypeOK, Probing
<1>4. /\ UNCHANGED <<file, door, installed, transport, token, calls, kproc>>
      /\ attempt' = FALSE /\ rready' = TRUE
  BY DEF Healthy
<1>5. late' \in BOOLEAN
  BY Zenon DEF Healthy, LinkTypeOK
<1>1. LinkTypeOK' /\ Probing'
  BY <1>3, <1>4, <1>5 DEF LinkTypeOK, Probing
<1>6. ~late' => ~late /\ token # NoToken /\ transport = "resident"
  BY DEF Healthy, Probing, LinkTypeOK
<1>2. Settled' /\ LinkIsHeld'
  BY <1>4, <1>6 DEF Settled, LinkIsHeld
<1> QED
  BY <1>1, <1>2

(* A probe that fails ends its attempt, or belongs to one that has ended.  *)
LEMMA UnhealthyStep ==
  ASSUME KInv, Unhealthy
  PROVE  KInv'
<1>1. PICK p \in Nat, s \in Nat : p <= probes /\ p + s <= MaxProbes /\ Disconnected(p, s)
  BY LinkAssumption DEF Unhealthy, KInv, LinkTypeOK, Probing
<1>2. UNCHANGED <<file, door, installed, rready, token, calls, late>>
  BY DEF Unhealthy, doorVars
<1>3. /\ attempt' \in BOOLEAN /\ transport' \in {"resident", "kernel"}
      /\ kproc' \in {"none", "starting", "up"}
      /\ probes' \in 0..MaxProbes /\ strays' \in 0..MaxProbes
      /\ probes' + strays' <= MaxProbes
      /\ probes' > 0 => probes > 0 /\ transport' = transport
      /\ attempt' => attempt
      /\ ~attempt => transport' = transport
  BY <1>1, DisconnectedKeeps
<1> QED
  BY <1>2, <1>3 DEF KInv, LinkTypeOK, Probing, Settled, LinkIsHeld

(* A call is sent, or answered; only an early reply has a token.           *)
LEMMA CallStep ==
  ASSUME KInv, Call \/ \E t \in DOMAIN calls : Reply(t)
  PROVE  KInv'
<1> USE LinkAssumption DEF KInv, doorVars
<1>1. calls' \in [Tokens \cup {NoToken} -> 0..MaxCalls]
  BY DEF Call, Reply, LinkTypeOK
<1>2. ~late => calls'[NoToken] = 0
  <2>1. CASE Call
    BY <2>1 DEF Call, LinkTypeOK, LinkIsHeld
  <2>2. ASSUME NEW t \in DOMAIN calls, Reply(t)
        PROVE  ~late => calls'[NoToken] = 0
    BY <2>2 DEF Reply, LinkTypeOK, LinkIsHeld
  <2> QED
    BY <2>1, <2>2
<1>3. UNCHANGED <<file, door, installed, transport, attempt, rready, token, probes, strays, late, kproc>>
  BY DEF Call, Reply
<1> QED
  BY <1>1, <1>2, <1>3 DEF LinkTypeOK, Probing, Settled, LinkIsHeld

(* stop leaves nothing but the probes that nobody cancels.                 *)
LEMMA StopStep ==
  ASSUME KInv, StopResident
  PROVE  KInv'
<1>1. /\ UNCHANGED <<file, door, installed>>
      /\ rready' = FALSE /\ token' = NoToken /\ calls' = NoCalls /\ late' = FALSE
  BY DEF StopResident, doorVars
<1>2. /\ attempt' \in BOOLEAN /\ transport' \in {"resident", "kernel"}
      /\ kproc' \in {"none", "starting", "up"}
      /\ probes' = 0 /\ strays' \in 0..MaxProbes
  <2>1. CASE rready
    <3>1. strays + probes \in Nat /\ 0 + (strays + probes) <= MaxProbes /\ 0 <= probes
      BY LinkAssumption DEF KInv, LinkTypeOK, Probing
    <3>2. Disconnected(0, strays + probes)
      BY <2>1 DEF StopResident
    <3> QED
      BY <3>1, <3>2, DisconnectedKeeps
  <2>2. CASE ~rready
    BY <2>2, LinkAssumption DEF StopResident, KInv, LinkTypeOK, Probing
  <2> QED
    BY <2>1, <2>2
<1>3. calls' \in [Tokens \cup {NoToken} -> 0..MaxCalls] /\ calls'[NoToken] = 0
  BY <1>1, LinkAssumption DEF NoCalls
<1>6. 0 \in 0..MaxProbes /\ \A n \in 0..MaxProbes : 0 + n <= MaxProbes /\ ~(0 > 0)
  BY LinkAssumption
<1>4. LinkTypeOK'
  BY <1>1, <1>2, <1>3, <1>6 DEF KInv, LinkTypeOK
<1>5. Probing' /\ Settled' /\ LinkIsHeld'
  BY <1>1, <1>2, <1>3, <1>6 DEF Probing, Settled, LinkIsHeld
<1> QED
  BY <1>4, <1>5 DEF KInv

-----------------------------------------------------------------------------
(* The inductive invariant holds in every reachable state.                 *)
THEOREM LinkInvariance == LinkSpec => []KInv
<1>1. LinkInit => KInv
  <2> SUFFICES ASSUME LinkInit
               PROVE  KInv
    OBVIOUS
  <2>1. calls \in [Tokens \cup {NoToken} -> 0..MaxCalls] /\ calls[NoToken] = 0
    BY LinkAssumption DEF LinkInit, NoCalls
  <2>2. LinkTypeOK
    <3>1. probes \in 0..MaxProbes /\ strays \in 0..MaxProbes
      BY LinkAssumption DEF LinkInit
    <3>2. /\ installed \in BOOLEAN /\ attempt \in BOOLEAN
          /\ rready \in BOOLEAN /\ late \in BOOLEAN
      BY Zenon DEF LinkInit
    <3>3. /\ transport \in {"resident", "kernel"} /\ kproc \in {"none", "starting", "up"}
          /\ file \in Tokens \cup {NoToken} /\ door \in Tokens \cup {NoToken}
          /\ token \in Tokens \cup {NoToken}
      BY DEF LinkInit
    <3> QED
      BY <2>1, <3>1, <3>2, <3>3 DEF LinkTypeOK
  <2>3. Probing /\ Settled /\ LinkIsHeld
    BY <2>1, LinkAssumption DEF LinkInit, Probing, Settled, LinkIsHeld
  <2> QED
    BY <2>2, <2>3 DEF KInv
<1>2. KInv /\ [LinkNext]_linkVars => KInv'
  <2> SUFFICES ASSUME KInv, [LinkNext]_linkVars
               PROVE  KInv'
    OBVIOUS
  <2>1. CASE UNCHANGED linkVars
    BY <2>1 DEF linkVars, KInv, LinkTypeOK, Probing, Settled, LinkIsHeld
  <2>2. CASE LinkNext
    BY <2>2, DoorStep, ConnectStep, KernelStep, HealthyStep, UnhealthyStep, CallStep,
       StopStep
    DEF LinkNext, KernelGone, Rejected, DisconnectResident, DisconnectKernel
  <2> QED
    BY <2>1, <2>2
<1> QED
  BY <1>1, <1>2, PTL DEF LinkSpec

(* No call goes out without a token, and no disconnection misses the link. *)
THEOREM LinkTheorem == LinkSpec => []LinkIsHeld
<1>1. KInv => LinkIsHeld
  BY DEF KInv
<1> QED
  BY <1>1, LinkInvariance, PTL

-----------------------------------------------------------------------------
(* Push-to-talk.                                                           *)

(* Unless one was let go of, the process that runs, or whose end has yet   *)
(* to be heard, is the one held; it does not both run and end.             *)
OneOnly == ~loose => alive \cup ended \subseteq {process} /\ alive \cap ended = {}

VInv == VoiceTypeOK /\ OneOnly /\ NothingLeftBehind

-----------------------------------------------------------------------------
(* A kill takes the process held with it, unless it outlives the wait.     *)
LEMMA KilledAll ==
  ASSUME VInv, process # 0, Killed
  PROVE  /\ loose' \in BOOLEAN
         /\ alive' \subseteq 1..started /\ ended' \subseteq 1..started
         /\ ~loose' => alive' = {} /\ ended' = {}
<1>1. CASE alive' = alive \ {process} /\ ended' = ended \ {process} /\ UNCHANGED loose
  BY <1>1 DEF VInv, VoiceTypeOK, OneOnly
<1>2. CASE process \in alive /\ loose' = TRUE /\ UNCHANGED <<alive, ended>>
  BY <1>2 DEF VInv, VoiceTypeOK
<1> QED
  BY <1>1, <1>2 DEF Killed

(* The HUD's state moves within its table.                                 *)
LEMMA ShowsTyped ==
  ASSUME VoiceTypeOK, NEW target \in {"STANDBY", "LISTENING", "PROCESSING"}, Shows(target)
  PROVE  voiceHud' \in {"STANDBY", "LISTENING", "PROCESSING"}
  BY DEF VoiceTypeOK, Shows

(* What is killed is dropped, and its audio with it.                       *)
LEMMA DropStep ==
  ASSUME VInv, Cancel \/ TimesOut
  PROVE  VInv'
<1>1. CASE timer /\ process = 0 /\ TimesOut
  <2>1. /\ timer' = FALSE
        /\ UNCHANGED <<tools, process, stage, audio, started, alive, ended, loose, voiceHud, heard>>
    BY <1>1 DEF TimesOut
  <2> QED
    BY <2>1 DEF VInv, VoiceTypeOK, OneOnly, NothingLeftBehind
<1>2. CASE process # 0
  <2>1. /\ Killed /\ Drops /\ timer' = FALSE /\ stage' \in {stage, "cancelled"}
    BY <1>2 DEF Cancel, TimesOut
  <2>2. /\ loose' \in BOOLEAN
        /\ alive' \subseteq 1..started /\ ended' \subseteq 1..started
        /\ ~loose' => alive' = {} /\ ended' = {}
    BY <1>2, <2>1, KilledAll
  <2>3. voiceHud' \in {"STANDBY", "LISTENING", "PROCESSING"}
    BY <2>1, ShowsTyped DEF Drops, VInv
  <2>4. /\ process' = 0 /\ audio' = FALSE /\ UNCHANGED <<tools, started, heard>>
    BY <2>1 DEF Drops, Cleanup
  <2>7. /\ started' \in 0..MaxStarts /\ process' \in 0..started'
        /\ alive' \subseteq 1..started' /\ ended' \subseteq 1..started'
    BY <2>2, <2>4 DEF VInv, VoiceTypeOK
  <2>8. stage' \in Stages /\ tools' \in BOOLEAN /\ heard' \in BOOLEAN /\ audio' \in BOOLEAN
    BY <2>1, <2>4 DEF VInv, VoiceTypeOK, Stages
  <2>5. VoiceTypeOK'
    BY <2>1, <2>2, <2>3, <2>7, <2>8 DEF VoiceTypeOK
  <2>6. OneOnly' /\ NothingLeftBehind'
    BY <2>2, <2>4 DEF OneOnly, NothingLeftBehind
  <2> QED
    BY <2>5, <2>6 DEF VInv
<1> QED
  BY <1>1, <1>2 DEF Cancel, TimesOut

(* A new process is held, or there is none, and then no audio.             *)
LEMMA SpawnsOne ==
  ASSUME VInv, ~loose => alive = {} /\ ended' = {},
         ended' \subseteq ended, UNCHANGED <<tools, heard>>,
         NEW st \in Stages, NEW target \in {"LISTENING", "PROCESSING"}, Spawns(st, target)
  PROVE  VInv'
<1>1. /\ started \in Nat /\ started' = started + 1 /\ started' \in 0..MaxStarts
      /\ \A n \in 0..started : n \in 0..started'
  BY VoiceAssumption DEF Spawns, VInv, VoiceTypeOK
<1>2. stage' = st /\ audio' = (process' # 0)
  BY DEF Spawns
<1>3. CASE process' = 0
  <2>1. timer' = FALSE /\ Shows("STANDBY") /\ \/ UNCHANGED <<alive, loose>>
                                              \/ alive' = alive \cup {started + 1} /\ loose' = TRUE
    BY <1>1, <1>3 DEF Spawns
  <2>2. alive' \subseteq 1..started' /\ ended' \subseteq 1..started' /\ loose' \in BOOLEAN
    <3>1. alive \subseteq 1..started' /\ ended \subseteq 1..started' /\ started + 1 \in 1..started'
      BY <1>1 DEF VInv, VoiceTypeOK
    <3>2. loose \in BOOLEAN
      BY DEF VInv, VoiceTypeOK
    <3>3. CASE UNCHANGED <<alive, loose>>
      BY <3>1, <3>2, <3>3
    <3>4. CASE alive' = alive \cup {started + 1} /\ loose' = TRUE
      BY <3>1, <3>4
    <3> QED
      BY <2>1, <3>3, <3>4
  <2>3. voiceHud' \in {"STANDBY", "LISTENING", "PROCESSING"}
    BY <2>1, ShowsTyped DEF VInv
  <2>4. process' \in 0..started' /\ audio' = FALSE
    <3>1. 0 \in 0..started'
      BY <1>1
    <3>2. (0 # 0) = FALSE
      OBVIOUS
    <3> QED
      BY <1>2, <1>3, <3>1, <3>2
  <2>5. VoiceTypeOK'
    BY <1>1, <1>2, <2>1, <2>2, <2>3, <2>4 DEF VInv, VoiceTypeOK
  <2>6. ~loose' => ~loose /\ alive' = {} /\ ended' = {}
    BY <2>1
  <2>7. OneOnly' /\ NothingLeftBehind'
    BY <1>3, <2>4, <2>6 DEF OneOnly, NothingLeftBehind
  <2> QED
    BY <2>5, <2>7 DEF VInv
<1>4. CASE process' # 0
  <2>1. /\ process' = started + 1 /\ alive' = alive \cup {started + 1}
        /\ timer' = TRUE /\ Shows(target) /\ UNCHANGED loose
    BY <1>4 DEF Spawns
  <2>2. alive' \subseteq 1..started' /\ ended' \subseteq 1..started' /\ process' \in 0..started'
    BY <1>1, <2>1 DEF VInv, VoiceTypeOK
  <2>3. voiceHud' \in {"STANDBY", "LISTENING", "PROCESSING"}
    BY <2>1, ShowsTyped DEF VInv
  <2>4. audio' = TRUE
    BY <1>2, <1>4
  <2>5. VoiceTypeOK'
    BY <1>1, <1>2, <2>1, <2>2, <2>3, <2>4 DEF VInv, VoiceTypeOK
  <2>6. OneOnly' /\ NothingLeftBehind'
    BY <1>4, <2>1, <2>4 DEF OneOnly, NothingLeftBehind
  <2> QED
    BY <2>5, <2>6 DEF VInv
<1> QED
  BY <1>3, <1>4

(* The key is pressed: a recorder is spawned, or there is none to spawn.   *)
LEMMA StartStep ==
  ASSUME VInv, StartCapture
  PROVE  VInv'
<1>1. ~loose => alive = {} /\ ended' = {}
  BY DEF StartCapture, VInv, VoiceTypeOK, OneOnly
<1>2. ended' \subseteq ended /\ UNCHANGED <<tools, heard>> /\ Spawns("record", "LISTENING")
  BY DEF StartCapture
<1>3. "record" \in Stages
  BY DEF Stages
<1> QED
  BY <1>1, <1>2, <1>3, SpawnsOne

(* The end of a process is heard.                                          *)
LEMMA EndStep ==
  ASSUME VInv, NEW p \in 1..started,
         HeardByNobody(p) \/ Fails(p) \/ Recorded(p) \/ Transcribed(p)
  PROVE  VInv'
<1>1. p \in ended /\ ended' = ended \ {p}
  BY DEF HeardByNobody, Fails, Recorded, Transcribed
<1>2. ~loose => p = process /\ alive = {} /\ ended' = {}
  BY <1>1 DEF VInv, VoiceTypeOK, OneOnly
<1>3. CASE Recorded(p)
  <2>1. Spawns("transcribe", "PROCESSING") /\ UNCHANGED <<tools, heard>>
    BY <1>3 DEF Recorded
  <2>2. "transcribe" \in Stages /\ ended' \subseteq ended
    BY <1>1 DEF Stages
  <2> QED
    BY <1>2, <2>1, <2>2, SpawnsOne
<1>4. CASE HeardByNobody(p)
  <2>1. UNCHANGED <<tools, process, stage, timer, audio, started, alive, loose, voiceHud, heard>>
    BY <1>4 DEF HeardByNobody
  <2> QED
    BY <1>1, <2>1 DEF VInv, VoiceTypeOK, OneOnly, NothingLeftBehind
<1>5. CASE Fails(p) \/ Transcribed(p)
  <2>1. /\ process' = 0 /\ audio' = FALSE /\ timer' = FALSE /\ heard' \in {heard, TRUE}
        /\ Shows("STANDBY") /\ UNCHANGED <<tools, stage, started, alive, loose>>
    BY <1>5 DEF Fails, Transcribed, Drops, Cleanup
  <2>2. voiceHud' \in {"STANDBY", "LISTENING", "PROCESSING"}
    BY <2>1, ShowsTyped DEF VInv
  <2>3. process' \in 0..started' /\ alive' \subseteq 1..started' /\ ended' \subseteq 1..started'
    BY <1>1, <2>1 DEF VInv, VoiceTypeOK
  <2>4. heard' \in BOOLEAN
    BY <2>1 DEF VInv, VoiceTypeOK
  <2>5. VoiceTypeOK'
    BY <2>1, <2>2, <2>3, <2>4 DEF VInv, VoiceTypeOK
  <2>6. OneOnly' /\ NothingLeftBehind'
    BY <1>2, <2>1 DEF OneOnly, NothingLeftBehind
  <2> QED
    BY <2>5, <2>6 DEF VInv
<1> QED
  BY <1>3, <1>4, <1>5

(* The process held is let go of while it runs.                            *)
LEMMA BreakStep ==
  ASSUME VInv, Breaks
  PROVE  VInv'
<1>1. /\ process' = 0 /\ audio' = FALSE /\ timer' = FALSE /\ loose' = TRUE
      /\ Shows("STANDBY") /\ UNCHANGED <<tools, stage, started, alive, ended, heard>>
  BY DEF Breaks, Drops, Cleanup
<1>2. voiceHud' \in {"STANDBY", "LISTENING", "PROCESSING"}
  BY <1>1, ShowsTyped DEF VInv
<1>3. process' \in 0..started'
  BY <1>1 DEF VInv, VoiceTypeOK
<1>4. VoiceTypeOK'
  BY <1>1, <1>2, <1>3 DEF VInv, VoiceTypeOK
<1>5. OneOnly' /\ NothingLeftBehind'
  BY <1>1 DEF OneOnly, NothingLeftBehind
<1> QED
  BY <1>4, <1>5 DEF VInv

(* Ends, and what is refused or found elsewhere.                           *)
LEMMA QuietStep ==
  ASSUME VInv, NoCapture \/ ToolsChange \/ \E p \in 1..started : Ends(p)
  PROVE  VInv'
<1>1. UNCHANGED <<process, stage, timer, audio, started, loose, heard>>
  BY DEF NoCapture, ToolsChange, Ends
<1>2. voiceHud' \in {"STANDBY", "LISTENING", "PROCESSING"}
  BY ShowsTyped DEF NoCapture, ToolsChange, Ends, VInv, VoiceTypeOK
<1>3. tools' \in BOOLEAN
  BY Zenon DEF NoCapture, ToolsChange, Ends, VInv, VoiceTypeOK
<1>4. /\ alive' \cup ended' = alive \cup ended
      /\ alive \cap ended = {} => alive' \cap ended' = {}
  BY DEF NoCapture, ToolsChange, Ends
<1>5. VoiceTypeOK'
  <2>1. alive' \subseteq 1..started /\ ended' \subseteq 1..started
    BY <1>4 DEF VInv, VoiceTypeOK
  <2> QED
    BY <1>1, <1>2, <1>3, <2>1 DEF VInv, VoiceTypeOK
<1>6. OneOnly' /\ NothingLeftBehind'
  BY <1>1, <1>4 DEF VInv, OneOnly, NothingLeftBehind
<1> QED
  BY <1>5, <1>6 DEF VInv

-----------------------------------------------------------------------------
(* The inductive invariant holds in every reachable state.                 *)
THEOREM VoiceInvariance == VoiceSpec => []VInv
<1>1. VoiceInit => VInv
  <2> SUFFICES ASSUME VoiceInit
               PROVE  VInv
    OBVIOUS
  <2>1. started \in 0..MaxStarts /\ process \in 0..started
    <3>1. 0 \in 0..MaxStarts /\ 0 \in 0..0
      BY VoiceAssumption
    <3>2. started = 0 /\ process = 0
      BY DEF VoiceInit
    <3> QED
      BY <3>1, <3>2
  <2>2. VoiceTypeOK
    BY <2>1 DEF VoiceInit, VoiceTypeOK, Stages
  <2>3. OneOnly /\ NothingLeftBehind
    BY DEF VoiceInit, OneOnly, NothingLeftBehind
  <2> QED
    BY <2>2, <2>3 DEF VInv
<1>2. VInv /\ [VoiceNext]_voiceVars => VInv'
  <2> SUFFICES ASSUME VInv, [VoiceNext]_voiceVars
               PROVE  VInv'
    OBVIOUS
  <2>1. CASE UNCHANGED voiceVars
    BY <2>1 DEF voiceVars, VInv, VoiceTypeOK, OneOnly, NothingLeftBehind
  <2>2. CASE VoiceNext
    BY <2>2, StartStep, DropStep, EndStep, BreakStep, QuietStep DEF VoiceNext
  <2> QED
    BY <2>1, <2>2
<1> QED
  BY <1>1, <1>2, PTL DEF VoiceSpec

(* Audio exists only under a capture, and nothing else records.            *)
THEOREM VoiceTheorem == VoiceSpec => []NothingLeftBehind
<1>1. VInv => NothingLeftBehind
  BY DEF VInv
<1> QED
  BY <1>1, VoiceInvariance, PTL

-----------------------------------------------------------------------------

(* The alert in the centre.                                                *)

(* The least of some numbers.                                              *)
LEMMA Least ==
  ASSUME NEW T, T \subseteq Nat, T # {}
  PROVE  \E t \in T : \A u \in T : t <= u
<1>1. PICK t \in T : \A u \in T : ~(<<u, t>> \in OpToRel(<, Nat))
  BY NatLessThanWellFounded, WFMin
<1>2. ASSUME NEW u \in T, u < t PROVE FALSE
  <2>1. <<u, t>> \in OpToRel(<, Nat)
    BY <1>2 DEF OpToRel
  <2> QED
    BY <1>1, <2>1
<1>3. \A u \in T : u \in Nat /\ t \in Nat
  OBVIOUS
<1> QED
  BY <1>2, <1>3

(* The largest of some bounded numbers.                                    *)
LEMMA Largest ==
  ASSUME NEW N \in Nat, NEW S, S \subseteq 0..N, S # {}
  PROVE  \E x \in S : \A y \in S : y <= x
<1> DEFINE T == {N - x : x \in S}
<1>0. \A x \in S : x \in Nat /\ N - x \in Nat
  OBVIOUS
<1>1. T \subseteq Nat /\ T # {}
  <2>1. T # {}
    <3>1. PICK x \in S : TRUE
      OBVIOUS
    <3>2. N - x \in T
      OBVIOUS
    <3> QED
      BY <3>2
  <2> QED
    BY <1>0, <2>1
<1>3. PICK t \in T : \A u \in T : t <= u
  <2> HIDE DEF T
  <2> QED
    BY <1>1, Least
<1>4. PICK x \in S : t = N - x
  OBVIOUS
<1>5. ASSUME NEW y \in S PROVE y <= x
  <2>1. N - y \in T
    OBVIOUS
  <2>2. N - x <= N - y
    BY <1>3, <1>4, <2>1
  <2>3. y \in Nat /\ x \in Nat
    BY <1>0
  <2> QED
    BY <2>2, <2>3
<1> QED
  BY <1>5

(* Among metrics that are due there is a worst.                            *)
LEMMA WorstExists ==
  ASSUME NEW r, NEW due, due \subseteq Metrics, due # {}, \A m \in due : r[m] \in Levels
  PROVE  \E m \in due : \A n \in due : Worse(r, m, n)
<1> DEFINE L == {r[m] : m \in due}
<1>1. L \subseteq 0..Top /\ L # {} /\ Top \in Nat
  BY AttentionAssumption
<1>2. PICK l \in L : \A k \in L : k <= l
  <2> HIDE DEF L
  <2> QED
    BY <1>1, Largest
<1> DEFINE D == {m \in due : r[m] = l}
<1>3. D \subseteq 0..Top /\ D # {}
  BY AttentionAssumption
<1>4. PICK m \in D : \A n \in D : n <= m
  <2> HIDE DEF D
  <2> QED
    BY <1>1, <1>3, Largest
<1>5. ASSUME NEW n \in due PROVE Worse(r, m, n)
  <2>1. r[n] <= r[m] /\ r[n] \in Nat /\ r[m] \in Nat
    BY <1>1, <1>2, <1>4
  <2>2. Rank(r[n]) <= Rank(r[m]) /\ Rank(r[n]) \in 0..2 /\ Rank(r[m]) \in 0..2
    BY <2>1, AttentionAssumption DEF Rank
  <2>3. m \in Nat /\ n \in Nat
    BY AttentionAssumption
  <2>4. CASE r[n] = r[m]
    <3>1. n <= m
      BY <1>4, <2>4
    <3> QED
      BY <2>1, <2>3, <2>4, <3>1 DEF Worse
  <2>5. CASE r[n] # r[m]
    <3>1. r[m] > r[n]
      BY <2>1, <2>5
    <3> QED
      BY <2>2, <3>1 DEF Worse
  <2> QED
    BY <2>4, <2>5
<1> QED
  BY <1>4, <1>5

-----------------------------------------------------------------------------
(* A load or nothing for each metric that is reported.                     *)
Loads == Levels \cup {Unknown}

(* The alert is a record; no metric has been high for longer without a     *)
(* change of mode than with one.                                           *)
AttentionInv ==
  /\ AttentionTypeOK /\ CentreIsRight
  /\ active \in [key : Metrics \cup {0}, level : Loads]
  /\ \A m \in Metrics : polled[m] <= streak[m]

(* A sample gives some of the metrics a load.                              *)
LEMMA SampleOf ==
  ASSUME NEW r \in Samples
  PROVE  DOMAIN r \subseteq Metrics /\ \A m \in DOMAIN r : r[m] \in Loads
  BY DEF Samples, Loads

(* An alert that has a level is one.                                       *)
LEMMA AlertHasLevel ==
  ASSUME NEW k, NEW l \in Levels PROVE [key |-> k, level |-> l] # NoAlert
<1>1. [key |-> k, level |-> l].level # NoAlert.level
  BY AttentionAssumption DEF NoAlert
<1> QED
  BY <1>1

(* What is raised is due, and something is if anything is.                 *)
LEMMA RaisedIsDue ==
  ASSUME NEW r \in Samples, NEW md \in Modes, NEW s \in [Metrics -> 0..RaiseSamples]
  PROVE  \/ /\ Raised(r, md, s) = NoAlert
            /\ \A m \in Metrics : s[m] < RaiseSamples \/ ~Qualifies(r, md, m)
         \/ \E m \in Metrics : /\ Qualifies(r, md, m) /\ r[m] \in Levels
                               /\ Raised(r, md, s) = [key |-> m, level |-> r[m]]
                               /\ Raised(r, md, s) # NoAlert
<1> DEFINE due == {m \in Metrics : s[m] >= RaiseSamples /\ Qualifies(r, md, m)}
           worst == CHOOSE m \in due : \A n \in due : Worse(r, m, n)
<1>1. RaiseSamples \in Nat
  BY AttentionAssumption
<1>2. CASE due = {}
  <2>1. Raised(r, md, s) = NoAlert
    BY <1>2 DEF Raised
  <2>2. \A m \in Metrics : s[m] < RaiseSamples \/ ~Qualifies(r, md, m)
    BY <1>1, <1>2
  <2> QED
    BY <2>1, <2>2
<1>3. CASE due # {}
  <2>1. due \subseteq Metrics /\ \A m \in due : r[m] \in Levels /\ Qualifies(r, md, m)
    BY SampleOf DEF Qualifies, Loads
  <2>2. \E m \in due : \A n \in due : Worse(r, m, n)
    <3> HIDE DEF due
    <3> QED
      BY <1>3, <2>1, WorstExists
  <2>3. worst \in due
    <3> HIDE DEF due
    <3> QED
      BY <2>2
  <2>4. Raised(r, md, s) = [key |-> worst, level |-> r[worst]]
    BY <1>3 DEF Raised
  <2> HIDE DEF due, worst
  <2>5. r[worst] \in Levels /\ Qualifies(r, md, worst) /\ worst \in Metrics
    BY <2>1, <2>3
  <2>6. Raised(r, md, s) # NoAlert
    BY <2>4, <2>5, AlertHasLevel
  <2> QED
    BY <2>4, <2>5, <2>6
<1> QED
  BY <1>2, <1>3

(* What an evaluation of a sample in a mode makes of the alert.            *)
LEMMA UpdateRight ==
  ASSUME AttentionInv, NEW r \in Samples, NEW md \in Modes, Update(r, md)
  PROVE  /\ streak' = Streaks(r, md) /\ streak' \in [Metrics -> 0..RaiseSamples]
         /\ clear' \in 0..(ClearSamples - 1)
         /\ active' \in [key : Metrics \cup {0}, level : Loads]
         /\ active' # NoAlert =>
              /\ active'.key \in Metrics /\ active'.level \in Levels
              /\ active'.key \in DOMAIN r /\ r[active'.key] # Unknown
              /\ active'.key \notin Central[md]
              /\ IF clear' = 0 THEN r[active'.key] = active'.level
                 ELSE r[active'.key] < Release
         /\ (\E m \in Metrics : streak'[m] >= RaiseSamples /\ Qualifies(r, md, m)) =>
              active' # NoAlert
<1> USE AttentionAssumption
<1>1. streak' = Streaks(r, md)
  BY DEF Update
<1>2. streak' \in [Metrics -> 0..RaiseSamples]
  BY <1>1 DEF Streaks, AttentionInv, AttentionTypeOK
<1>3. /\ active \in [key : Metrics \cup {0}, level : Loads]
      /\ active # NoAlert => active.key \in Metrics /\ active.level \in Levels
      /\ clear \in 0..(ClearSamples - 1) /\ ClearSamples \in Nat \ {0}
  BY DEF AttentionInv, AttentionTypeOK
<1>4. ASSUME active # NoAlert, ~Gone(r, md)
      PROVE  /\ active.key \in DOMAIN r /\ r[active.key] # Unknown
             /\ r[active.key] \in Levels /\ active.key \notin Central[md]
  BY <1>4, SampleOf DEF Gone, Loads
<1>5. CASE active # NoAlert /\ ~Gone(r, md) /\ r[active.key] >= Release
  <2>1. active' = [active EXCEPT !.level = r[active.key]] /\ clear' = 0
    BY <1>5 DEF Update
  <2>2. active' = [key |-> active.key, level |-> r[active.key]]
    BY <1>3, <2>1
  <2>3. active'.key = active.key /\ active'.level = r[active.key]
    BY <2>2
  <2>4. active' \in [key : Metrics \cup {0}, level : Loads]
    BY <1>3, <1>4, <1>5, <2>2 DEF Loads
  <2>5. active' # NoAlert
    BY <1>4, <1>5, <2>2, AlertHasLevel
  <2> QED
    BY <1>1, <1>2, <1>3, <1>4, <1>5, <2>1, <2>3, <2>4, <2>5
<1>6. CASE active # NoAlert /\ ~Gone(r, md) /\ ~(r[active.key] >= Release) /\ Lasts
  <2>1. active' = active /\ clear' = clear + 1
    BY <1>6 DEF Update
  <2>2. clear' \in 0..(ClearSamples - 1) /\ clear' # 0
    BY <1>3, <1>6, <2>1 DEF Lasts
  <2>3. r[active.key] < Release
    BY <1>4, <1>6
  <2> QED
    BY <1>1, <1>2, <1>3, <1>4, <1>6, <2>1, <2>2, <2>3
<1>7. CASE ~(active # NoAlert /\ ~Gone(r, md) /\ r[active.key] >= Release)
           /\ ~(active # NoAlert /\ ~Gone(r, md) /\ Lasts)
  <2>1. active' = Raised(r, md, streak') /\ clear' = 0
    BY <1>1, <1>7 DEF Update
  <2>2. clear' \in 0..(ClearSamples - 1)
    BY <1>3, <2>1
  <2>3. CASE /\ active' = NoAlert
             /\ \A m \in Metrics : streak'[m] < RaiseSamples \/ ~Qualifies(r, md, m)
    <3>1. active' \in [key : Metrics \cup {0}, level : Loads]
      BY <2>3 DEF NoAlert, Loads
    <3>2. ~\E m \in Metrics : streak'[m] >= RaiseSamples /\ Qualifies(r, md, m)
      BY <1>2, <2>3
    <3> QED
      BY <1>1, <1>2, <2>2, <2>3, <3>1, <3>2
  <2>4. ASSUME NEW m \in Metrics, Qualifies(r, md, m), r[m] \in Levels,
               active' = [key |-> m, level |-> r[m]], active' # NoAlert
        PROVE  /\ active' \in [key : Metrics \cup {0}, level : Loads]
               /\ active'.key \in Metrics /\ active'.level \in Levels
               /\ active'.key \in DOMAIN r /\ r[active'.key] # Unknown
               /\ active'.key \notin Central[md]
               /\ r[active'.key] = active'.level
    <3>1. active'.key = m /\ active'.level = r[m]
      BY <2>4
    <3> QED
      BY <2>4, <3>1 DEF Qualifies, Loads
  <2> QED
    BY <1>1, <1>2, <2>1, <2>2, <2>3, <2>4, RaisedIsDue
<1> QED
  BY <1>5, <1>6, <1>7

(* A sample, or a change of mode.                                          *)
LEMMA SampleStep ==
  ASSUME AttentionInv, (\E r \in Samples : Poll(r)) \/ (\E md \in Modes : SetMode(md))
  PROVE  AttentionInv'
<1> USE AttentionAssumption
<1>1. PICK r \in Samples, md \in Modes :
        /\ reading' = r /\ mode' = md /\ Update(r, md)
        /\ polled' = [m \in Metrics |-> IF ~Qualifies(r, md, m) THEN 0
                                        ELSE IF md = mode /\ polled[m] < RaiseSamples
                                        THEN polled[m] + 1 ELSE polled[m]]
  <2>1. ASSUME NEW r \in Samples, Poll(r)
        PROVE  /\ mode \in Modes /\ reading' = r /\ mode' = mode /\ Update(r, mode)
               /\ polled' = [m \in Metrics |-> IF ~Qualifies(r, mode, m) THEN 0
                                               ELSE IF polled[m] < RaiseSamples
                                               THEN polled[m] + 1 ELSE polled[m]]
    BY <2>1 DEF Poll, AttentionInv, AttentionTypeOK
  <2>2. ASSUME NEW md \in Modes, SetMode(md)
        PROVE  /\ reading \in Samples /\ reading' = reading /\ mode' = md /\ md # mode
               /\ Update(reading, md)
               /\ polled' = [m \in Metrics |-> IF ~Qualifies(reading, md, m) THEN 0
                                               ELSE polled[m]]
    <3>1. polled' = [m \in Metrics |-> IF Qualifies(reading, md, m) THEN polled[m] ELSE 0]
      BY <2>2 DEF SetMode
    <3>2. polled' = [m \in Metrics |-> IF ~Qualifies(reading, md, m) THEN 0 ELSE polled[m]]
      BY <3>1
    <3> QED
      BY <2>2, <3>2 DEF SetMode, AttentionInv, AttentionTypeOK
  <2> QED
    BY <2>1, <2>2
<1>2. /\ streak' = Streaks(r, md) /\ streak' \in [Metrics -> 0..RaiseSamples]
      /\ clear' \in 0..(ClearSamples - 1)
      /\ active' \in [key : Metrics \cup {0}, level : Loads]
      /\ active' # NoAlert =>
           /\ active'.key \in Metrics /\ active'.level \in Levels
           /\ active'.key \in DOMAIN r /\ r[active'.key] # Unknown
           /\ active'.key \notin Central[md]
           /\ IF clear' = 0 THEN r[active'.key] = active'.level
              ELSE r[active'.key] < Release
      /\ (\E m \in Metrics : streak'[m] >= RaiseSamples /\ Qualifies(r, md, m)) =>
           active' # NoAlert
  BY <1>1, UpdateRight
<1>3. /\ polled \in [Metrics -> 0..RaiseSamples] /\ streak \in [Metrics -> 0..RaiseSamples]
      /\ \A m \in Metrics : polled[m] <= streak[m]
  BY DEF AttentionInv, AttentionTypeOK
<1>4. ASSUME NEW m \in Metrics
      PROVE  /\ polled'[m] \in 0..RaiseSamples /\ polled'[m] <= streak'[m]
             /\ polled'[m] > 0 => Qualifies(r, md, m)
  <2>1. /\ polled[m] \in 0..RaiseSamples /\ streak[m] \in 0..RaiseSamples
        /\ polled[m] <= streak[m] /\ RaiseSamples \in Nat \ {0}
    BY <1>3
  <2>2. polled'[m] = IF ~Qualifies(r, md, m) THEN 0
                     ELSE IF md = mode /\ polled[m] < RaiseSamples
                     THEN polled[m] + 1 ELSE polled[m]
    BY <1>1
  <2>3. streak'[m] = IF ~Qualifies(r, md, m) THEN 0
                     ELSE IF streak[m] < RaiseSamples THEN streak[m] + 1 ELSE streak[m]
    BY <1>2 DEF Streaks
  <2> QED
    BY <2>1, <2>2, <2>3
<1>5. polled' \in [Metrics -> 0..RaiseSamples]
  BY <1>1, <1>4
<1>6. AttentionTypeOK'
  BY <1>1, <1>2, <1>5 DEF AttentionTypeOK
<1>7. (\E m \in Metrics : polled'[m] >= RaiseSamples) => active' # NoAlert
  BY <1>2, <1>4
<1>8. CentreIsRight'
  BY <1>1, <1>2, <1>7 DEF CentreIsRight
<1> QED
  BY <1>2, <1>4, <1>6, <1>8 DEF AttentionInv

(* The invariant of the alert in the centre.                               *)
LEMMA AttentionInvariance == AttentionSpec => []AttentionInv
<1>1. ASSUME AttentionInit PROVE AttentionInv
  <2>1. NoReading \in Samples
    <3>1. NoReading \in [{} -> Levels \cup {Unknown}] /\ {} \in SUBSET Metrics
      BY DEF NoReading
    <3> QED
      BY <3>1 DEF Samples
  <2>2. AttentionTypeOK
    BY <1>1, <2>1, AttentionAssumption DEF AttentionInit, AttentionTypeOK
  <2>3. CentreIsRight
    BY <1>1, AttentionAssumption DEF AttentionInit, CentreIsRight
  <2>4. active \in [key : Metrics \cup {0}, level : Loads]
    BY <1>1 DEF AttentionInit, NoAlert, Loads
  <2> QED
    BY <1>1, <2>2, <2>3, <2>4 DEF AttentionInit, AttentionInv
<1>2. AttentionInv /\ [AttentionNext]_attentionVars => AttentionInv'
  <2>1. ASSUME AttentionInv, UNCHANGED attentionVars PROVE AttentionInv'
    BY <2>1 DEF attentionVars, AttentionInv, AttentionTypeOK, CentreIsRight
  <2> QED
    BY <2>1, SampleStep DEF AttentionNext
<1> QED
  BY <1>1, <1>2, PTL DEF AttentionSpec

(* Whatever metrics, levels and modes there are, the centre shows what is  *)
(* so, and is not empty while something outside it stays high.             *)
THEOREM CentreTheorem == AttentionSpec => []CentreIsRight
<1>1. AttentionInv => CentreIsRight
  BY DEF AttentionInv
<1> QED
  BY <1>1, AttentionInvariance, PTL

-----------------------------------------------------------------------------

(* Sums.                                                                   *)

(* The smallest subset of a finite set of which something is so.           *)
LEMMA Smallest ==
  ASSUME NEW S, IsFiniteSet(S), NEW T, T \subseteq SUBSET S, T # {}
  PROVE  \E s \in T : \A r \in SUBSET s : r # s => r \notin T
<1>1. IsWellFoundedOn(StrictSubsetOrdering(S), SUBSET S)
  BY FS_StrictSubsetOrderingWellFounded, FS_FiniteSubsetsOfFinite
<1>2. PICK s \in T : \A r \in T : <<r, s>> \notin StrictSubsetOrdering(S)
  BY <1>1, WFMin
<1>3. ASSUME NEW r \in SUBSET s, r # s, r \in T PROVE FALSE
  <2>1. <<r, s>> \in StrictSubsetOrdering(S)
    BY <1>3 DEF StrictSubsetOrdering
  <2> QED
    BY <1>2, <1>3, <2>1
<1> QED
  BY <1>3

(* SumFunction adds the elements of a set one by one, each time any of     *)
(* those that are left.                                                    *)
AnyOf(s) == CHOOSE x \in s : TRUE
Adds(F, f, U) == F = [s \in U |-> IF s = {} THEN 0 ELSE f[AnyOf(s)] + F[s \ {AnyOf(s)}]]

LEMMA SumThere ==
  ASSUME NEW S, IsFiniteSet(S), NEW f
  PROVE  \E F : Adds(F, f, SUBSET S)
<1> DEFINE Upto(n) == {s \in SUBSET S : Cardinality(s) <= n}
           Missing == {n \in Nat : ~\E F : Adds(F, f, Upto(n))}
<1>1. \A s \in SUBSET S : /\ IsFiniteSet(s) /\ Cardinality(s) \in Nat
                          /\ Cardinality(s) = 0 <=> s = {}
  BY FS_Subset, FS_CardinalityType, FS_EmptySet
<1>2. ASSUME NEW s \in SUBSET S, s # {}
      PROVE  /\ AnyOf(s) \in s /\ s \ {AnyOf(s)} \in SUBSET S
             /\ Cardinality(s \ {AnyOf(s)}) = Cardinality(s) - 1
  <2>1. AnyOf(s) \in s
    BY <1>2 DEF AnyOf
  <2> QED
    BY <1>1, <2>1, FS_RemoveElement
<1>3. ASSUME NEW n \in Nat, n \in Missing, \A m \in Missing : n <= m PROVE FALSE
  <2>1. CASE n = 0
    <3> DEFINE F == [s \in Upto(0) |-> 0]
    <3>1. \A s \in Upto(0) : s = {}
      BY <1>1
    <3>2. Adds(F, f, Upto(0))
      BY <3>1 DEF Adds
    <3> QED
      BY <1>3, <2>1, <3>2
  <2>2. CASE n # 0
    <3>1. n - 1 \in Nat /\ n - 1 \notin Missing
      <4>1. n - 1 \in Nat /\ ~(n <= n - 1)
        BY <2>2
      <4> HIDE DEF Missing
      <4> QED
        BY <1>3, <4>1
    <3>2. PICK F : Adds(F, f, Upto(n - 1))
      BY <3>1
    <3> DEFINE G == [s \in Upto(n) |-> IF s = {} THEN 0 ELSE f[AnyOf(s)] + F[s \ {AnyOf(s)}]]
    <3>3. ASSUME NEW r \in Upto(n - 1) PROVE F[r] = G[r]
      <4>1. r \in Upto(n)
        BY <1>1, <3>1
      <4>2. F[r] = IF r = {} THEN 0 ELSE f[AnyOf(r)] + F[r \ {AnyOf(r)}]
        BY <3>2, Zenon DEF Adds
      <4> QED
        BY <4>1, <4>2
    <3>4. ASSUME NEW s \in Upto(n), s # {} PROVE F[s \ {AnyOf(s)}] = G[s \ {AnyOf(s)}]
      <4>1. s \ {AnyOf(s)} \in Upto(n - 1)
        BY <1>1, <1>2, <3>4
      <4> QED
        BY <3>3, <4>1
    <3>5. Adds(G, f, Upto(n))
      BY <3>4 DEF Adds
    <3> QED
      BY <1>3, <3>5
  <2> QED
    BY <2>1, <2>2
<1>4. Missing = {}
  <2>1. Missing \subseteq Nat
    OBVIOUS
  <2> HIDE DEF Missing
  <2> QED
    BY <1>3, <2>1, Least
<1>5. \E F : Adds(F, f, Upto(Cardinality(S)))
  BY <1>1, <1>4
<1>6. Upto(Cardinality(S)) = SUBSET S
  BY <1>1, FS_Subset
<1> QED
  BY <1>5, <1>6

(* F holds the sum of every part of f.                                     *)
Sums(F, f) == Adds(F, f, SUBSET DOMAIN f)

LEMMA SumUnfolds ==
  ASSUME NEW f, IsFiniteSet(DOMAIN f)
  PROVE  \E F : Sums(F, f) /\ SumFunction(f) = F[DOMAIN f]
<1> DEFINE G == CHOOSE F : Adds(F, f, SUBSET DOMAIN f)
<1>1. Adds(G, f, SUBSET DOMAIN f)
  BY SumThere
<1>2. SumFunction(f) = G[DOMAIN f]
  BY Zenon DEF SumFunction, SumFunctionOnSet, FoldFunctionOnSet, MapThenFoldSet, Adds, AnyOf
<1> QED
  BY <1>1, <1>2 DEF Sums

(* One can be taken out of a sum first, whichever is.                      *)
LEMMA SumRests ==
  ASSUME NEW f, IsFiniteSet(DOMAIN f), \A x \in DOMAIN f : f[x] \in Int,
         NEW F, Sums(F, f)
  PROVE  \A s \in SUBSET DOMAIN f : F[s] \in Int /\ \A x \in s : F[s] = F[s \ {x}] + f[x]
<1> DEFINE Good(s) == F[s] \in Int /\ \A x \in s : F[s] = F[s \ {x}] + f[x]
           Bad == {s \in SUBSET DOMAIN f : ~Good(s)}
<1>1. \A s \in SUBSET DOMAIN f : F[s] = IF s = {} THEN 0 ELSE f[AnyOf(s)] + F[s \ {AnyOf(s)}]
  BY Zenon DEF Sums, Adds
<1>2. ASSUME NEW s \in SUBSET DOMAIN f, \A r \in SUBSET s : r # s => r \notin Bad PROVE Good(s)
  <2>1. CASE s = {}
    <3>1. F[s] = 0
      BY <1>1, <2>1
    <3> QED
      BY <2>1, <3>1
  <2>2. CASE s # {}
    <3> DEFINE a == AnyOf(s)
    <3>1. a \in s
      BY <2>2 DEF AnyOf
    <3> HIDE DEF a
    <3>2. F[s] = f[a] + F[s \ {a}]
      BY <1>1, <2>2 DEF a
    <3>3. ASSUME NEW r \in SUBSET s, r # s PROVE Good(r)
      BY <1>2, <3>3
    <3>4. F[s \ {a}] \in Int /\ f[a] \in Int
      BY <3>1, <3>3
    <3>5. ASSUME NEW x \in s, x # a PROVE F[s] = F[s \ {x}] + f[x]
      <4>1. x \in s \ {a} /\ a \in s \ {x} /\ (s \ {a}) \ {x} = (s \ {x}) \ {a}
        BY <3>1, <3>5
      <4>2. F[s \ {a}] = F[(s \ {a}) \ {x}] + f[x]
        BY <3>1, <3>3, <4>1
      <4>3. s \ {x} # s /\ (s \ {x}) \ {a} # s
        BY <3>1
      <4>4. F[s \ {x}] = F[(s \ {x}) \ {a}] + f[a] /\ F[(s \ {x}) \ {a}] \in Int
        BY <3>3, <4>1, <4>3
      <4>5. f[x] \in Int
        OBVIOUS
      <4>6. F[(s \ {a}) \ {x}] = F[(s \ {x}) \ {a}]
        BY <4>1
      <4> QED
        BY <3>2, <3>4, <4>2, <4>4, <4>5, <4>6
    <3>6. F[s] \in Int /\ F[s] = F[s \ {a}] + f[a]
      BY <3>2, <3>4
    <3>7. \A x \in s : F[s] = F[s \ {x}] + f[x]
      BY <3>5, <3>6
    <3> QED
      BY <3>6, <3>7
  <2> QED
    BY <2>1, <2>2
<1>3. Bad = {}
  <2>1. Bad \subseteq SUBSET DOMAIN f /\ \A s \in Bad : ~Good(s)
    OBVIOUS
  <2> HIDE DEF Bad, Good
  <2> QED
    BY <1>2, <2>1, Smallest
<1> QED
  BY <1>3

(* What a sum is depends on nothing but what it is a sum of.               *)
LEMMA SumAlike ==
  ASSUME NEW f, NEW F, Sums(F, f), NEW g, NEW G, Sums(G, g), IsFiniteSet(DOMAIN g),
         DOMAIN g \subseteq DOMAIN f, \A x \in DOMAIN g : f[x] = g[x]
  PROVE  F[DOMAIN g] = G[DOMAIN g]
<1> DEFINE Bad == {s \in SUBSET DOMAIN g : F[s] # G[s]}
<1>1. ASSUME NEW s \in SUBSET DOMAIN g, \A r \in SUBSET s : r # s => r \notin Bad
      PROVE  F[s] = G[s]
  <2>1. F[s] = IF s = {} THEN 0 ELSE f[AnyOf(s)] + F[s \ {AnyOf(s)}]
    <3>1. s \in SUBSET DOMAIN f
      OBVIOUS
    <3> QED
      BY <3>1, Zenon DEF Sums, Adds
  <2>2. G[s] = IF s = {} THEN 0 ELSE g[AnyOf(s)] + G[s \ {AnyOf(s)}]
    BY Zenon DEF Sums, Adds
  <2>3. CASE s # {}
    <3>1. AnyOf(s) \in s
      BY <2>3 DEF AnyOf
    <3>2. f[AnyOf(s)] = g[AnyOf(s)] /\ F[s \ {AnyOf(s)}] = G[s \ {AnyOf(s)}]
      BY <1>1, <3>1
    <3> QED
      BY <2>1, <2>2, <3>2
  <2> QED
    BY <2>1, <2>2, <2>3
<1>2. Bad = {}
  <2>1. Bad \subseteq SUBSET DOMAIN g /\ \A s \in Bad : F[s] # G[s]
    OBVIOUS
  <2> HIDE DEF Bad
  <2> QED
    BY <1>1, <2>1, Smallest
<1> QED
  BY <1>2

(* A sum with one less.                                                    *)
LEMMA SumLess ==
  ASSUME NEW f, IsFiniteSet(DOMAIN f), \A x \in DOMAIN f : f[x] \in Int, NEW i \in DOMAIN f
  PROVE  LET g == [x \in DOMAIN f \ {i} |-> f[x]]
         IN  SumFunction(g) \in Int /\ SumFunction(f) = SumFunction(g) + f[i]
<1> DEFINE g == [x \in DOMAIN f \ {i} |-> f[x]]
<1>1. PICK F : Sums(F, f) /\ SumFunction(f) = F[DOMAIN f]
  BY SumUnfolds
<1>2. IsFiniteSet(DOMAIN g) /\ DOMAIN g = DOMAIN f \ {i} /\ \A x \in DOMAIN g : g[x] = f[x]
  BY FS_RemoveElement
<1>3. PICK G : Sums(G, g) /\ SumFunction(g) = G[DOMAIN g]
  BY <1>2, SumUnfolds
<1> HIDE DEF g
<1>4. F[DOMAIN g] = G[DOMAIN g]
  <2>1. DOMAIN g \subseteq DOMAIN f /\ \A x \in DOMAIN g : f[x] = g[x]
    BY <1>2
  <2>2. IsFiniteSet(DOMAIN g)
    BY <1>2
  <2>3. Sums(F, f)
    BY <1>1
  <2>4. Sums(G, g)
    BY <1>3
  <2> QED
    BY ONLY <2>1, <2>2, <2>3, <2>4, SumAlike
<1>5. F[DOMAIN f] = F[DOMAIN f \ {i}] + f[i] /\ F[DOMAIN f \ {i}] \in Int
  <2>1. \A s \in SUBSET DOMAIN f : F[s] \in Int /\ \A x \in s : F[s] = F[s \ {x}] + f[x]
    BY <1>1, SumRests
  <2>2. DOMAIN f \in SUBSET DOMAIN f /\ DOMAIN f \ {i} \in SUBSET DOMAIN f
    OBVIOUS
  <2> QED
    BY <2>1, <2>2
<1> QED
  BY <1>1, <1>2, <1>3, <1>4, <1>5 DEF g

(* A sum is a number.                                                      *)
LEMMA SumType ==
  ASSUME NEW f, IsFiniteSet(DOMAIN f), \A x \in DOMAIN f : f[x] \in Int
  PROVE  SumFunction(f) \in Int
<1>1. PICK F : Sums(F, f) /\ SumFunction(f) = F[DOMAIN f]
  BY SumUnfolds
<1> QED
  BY <1>1, SumRests

(* A sum changes by what one of its parts changes by.                      *)
LEMMA SumChange ==
  ASSUME NEW S, IsFiniteSet(S), NEW f \in [S -> Int], NEW g \in [S -> Int],
         NEW i \in S, \A x \in S \ {i} : f[x] = g[x]
  PROVE  SumFunction(g) = SumFunction(f) + g[i] - f[i]
<1> DEFINE r == [x \in S \ {i} |-> f[x]]
<1>1. SumFunction(r) \in Int /\ SumFunction(f) = SumFunction(r) + f[i]
  BY SumLess
<1>2. r = [x \in S \ {i} |-> g[x]]
  OBVIOUS
<1>3. SumFunction(g) = SumFunction(r) + g[i]
  BY <1>2, SumLess
<1>4. f[i] \in Int /\ g[i] \in Int
  OBVIOUS
<1> HIDE DEF r
<1> QED
  BY <1>1, <1>3, <1>4

(* A sum of nothing but zeros.                                             *)
LEMMA SumZero ==
  ASSUME NEW S, IsFiniteSet(S)
  PROVE  SumFunction([x \in S |-> 0]) = 0
<1> DEFINE f == [x \in S |-> 0]
<1>0. DOMAIN f = S /\ \A x \in S : f[x] = 0
  OBVIOUS
<1> HIDE DEF f
<1>1. PICK F : Sums(F, f) /\ SumFunction(f) = F[S]
  BY <1>0, SumUnfolds
<1> DEFINE Bad == {s \in SUBSET S : F[s] # 0}
<1>2. ASSUME NEW s \in SUBSET S, \A r \in SUBSET s : r # s => r \notin Bad PROVE F[s] = 0
  <2>1. F[s] = IF s = {} THEN 0 ELSE f[AnyOf(s)] + F[s \ {AnyOf(s)}]
    BY <1>0, <1>1, Zenon DEF Sums, Adds
  <2>2. CASE s # {}
    <3>1. AnyOf(s) \in s
      BY <2>2 DEF AnyOf
    <3>2. f[AnyOf(s)] = 0 /\ F[s \ {AnyOf(s)}] = 0
      BY <1>0, <1>2, <3>1
    <3> QED
      BY <2>1, <2>2, <3>2
  <2> QED
    BY <2>1, <2>2
<1>3. Bad = {}
  <2>1. Bad \subseteq SUBSET S /\ \A s \in Bad : F[s] # 0
    OBVIOUS
  <2> HIDE DEF Bad
  <2> QED
    BY <1>2, <2>1, Smallest
<1> QED
  BY <1>1, <1>3 DEF f
-----------------------------------------------------------------------------
(* The readings of the machine.                                            *)

(* Present, up to m cores.                                                 *)
PresentTo(F, m) ==
  F = [n \in 0..m |-> IF n = 0 THEN <<>>
                      ELSE IF Cores[n] \in online THEN Append(F[n - 1], Cores[n]) ELSE F[n - 1]]

LEMMA PresentThere == \E F : PresentTo(F, Len(Cores))
<1> DEFINE Missing == {m \in 0..Len(Cores) : ~\E F : PresentTo(F, m)}
<1>1. Len(Cores) \in Nat
  BY TelemetryAssumption
<1>2. ASSUME NEW m \in 0..Len(Cores), m \in Missing, \A k \in Missing : m <= k PROVE FALSE
  <2>1. CASE m = 0
    <3> DEFINE F == [n \in 0..0 |-> <<>>]
    <3>1. PresentTo(F, 0)
      BY DEF PresentTo
    <3> QED
      BY <1>2, <2>1, <3>1
  <2>2. CASE m # 0
    <3>1. m - 1 \in 0..Len(Cores) /\ ~(m <= m - 1)
      BY <1>1, <2>2
    <3>2. PICK F : PresentTo(F, m - 1)
      BY <1>2, <3>1
    <3> DEFINE G == [n \in 0..m |-> IF n < m THEN F[n]
                       ELSE IF Cores[n] \in online THEN Append(F[n - 1], Cores[n]) ELSE F[n - 1]]
    <3>3. ASSUME NEW n \in 0..m
          PROVE  G[n] = IF n = 0 THEN <<>>
                        ELSE IF Cores[n] \in online THEN Append(G[n - 1], Cores[n]) ELSE G[n - 1]
      <4>1. CASE n < m
        <5>1. n \in 0..(m - 1) /\ G[n] = F[n] /\ (n # 0 => n - 1 \in 0..m /\ n - 1 < m)
          BY <3>1, <4>1
        <5>2. F[n] = IF n = 0 THEN <<>>
                     ELSE IF Cores[n] \in online THEN Append(F[n - 1], Cores[n]) ELSE F[n - 1]
          BY <3>2, <5>1, Zenon DEF PresentTo
        <5>3. n # 0 => G[n - 1] = F[n - 1]
          BY <5>1
        <5> QED
          BY <5>1, <5>2, <5>3
      <4>2. CASE n = m
        <5>1. m - 1 \in 0..m /\ m - 1 < m
          BY <3>1
        <5> QED
          BY <2>2, <4>2, <5>1
      <4> QED
        BY <3>1, <4>1, <4>2
    <3>4. G = [n \in 0..m |-> G[n]]
      OBVIOUS
    <3> HIDE DEF G
    <3>5. PresentTo(G, m)
      BY <3>3, <3>4 DEF PresentTo
    <3> QED
      BY <1>2, <3>5
  <2> QED
    BY <2>1, <2>2
<1>3. Missing = {}
  <2>1. Missing \subseteq Nat /\ Missing \subseteq 0..Len(Cores)
    BY <1>1
  <2> HIDE DEF Missing
  <2> QED
    BY <1>2, <2>1, Least
<1> QED
  BY <1>1, <1>3

(* The cores that are online are cores.                                    *)
LEMMA PresentCores == Present[Len(Cores)] \in Seq(CoreNames)
<1>1. PresentTo(Present, Len(Cores))
  BY PresentThere DEF Present, PresentTo
<1>2. ASSUME NEW n \in 0..Len(Cores)
      PROVE  Present[n] = IF n = 0 THEN <<>>
                          ELSE IF Cores[n] \in online THEN Append(Present[n - 1], Cores[n])
                          ELSE Present[n - 1]
  BY <1>1, Zenon DEF PresentTo
<1>3. Len(Cores) \in Nat /\ \A n \in 1..Len(Cores) : Cores[n] \in CoreNames
  BY TelemetryAssumption DEF CoreNames
<1> DEFINE Bad == {n \in 0..Len(Cores) : Present[n] \notin Seq(CoreNames)}
<1>4. ASSUME NEW n \in Bad, \A k \in Bad : n <= k PROVE FALSE
  <2>0. n \in 0..Len(Cores) /\ Present[n] \notin Seq(CoreNames)
    BY <1>4
  <2>1. CASE n = 0
    <3>1. Present[n] = <<>>
      BY <1>2, <2>0, <2>1
    <3> QED
      BY <2>0, <3>1
  <2>2. CASE n # 0
    <3>1. n - 1 \in 0..Len(Cores) /\ n - 1 \notin Bad /\ n \in 1..Len(Cores)
      BY <1>3, <1>4, <2>2
    <3>2. Present[n - 1] \in Seq(CoreNames) /\ Cores[n] \in CoreNames
      BY <1>3, <3>1
    <3>3. Present[n] \in {Present[n - 1], Append(Present[n - 1], Cores[n])}
      BY <1>2, <2>0, <2>2
    <3>4. Append(Present[n - 1], Cores[n]) \in Seq(CoreNames)
      <4> DEFINE s == Present[n - 1]
      <4>1. s \in Seq(CoreNames)
        BY <3>2
      <4> HIDE DEF s
      <4> QED
        BY <3>2, <4>1 DEF s
    <3> QED
      BY <2>0, <3>2, <3>3, <3>4
  <2> QED
    BY <2>1, <2>2
<1>5. Bad = {}
  <2>1. Bad \subseteq Nat
    BY <1>3
  <2> HIDE DEF Bad
  <2> QED
    BY <1>4, <2>1, Least
<1> QED
  BY <1>3, <1>5

(* What the counters of a core are.                                        *)
Counters == [idle : Nat, total : Nat]
WorkDone == [busy : [CoreNames -> Nat], all : [CoreNames -> Nat], time : Nat,
             iowaitFell : BOOLEAN]
Moves == [bytes : Nat, came : Nat, left : BOOLEAN]
Idles == SumFunction([c \in CoreNames |-> jiffies[c].idle])
Totals == SumFunction([c \in CoreNames |-> jiffies[c].total])

(* A sample of the aggregate, and one of a core, are behind the counters   *)
(* by what has been done since the reading that took them.                 *)
CpuKept ==
  prevCpu # Unavailable =>
    /\ prevCpu.idle \in Int /\ prevCpu.total \in Int
    /\ ~worked.iowaitFell =>
         /\ Totals - prevCpu.total = SumFunction(worked.all)
         /\ (Totals - prevCpu.total) - (Idles - prevCpu.idle) = SumFunction(worked.busy)
CoresKept ==
  \A i \in DOMAIN prevCores :
    LET p == prevCores[i]
        q == jiffies[p.name]
    IN ~worked.iowaitFell =>
         /\ q.total - p.total = worked.all[p.name]
         /\ (q.total - p.total) - (q.idle - p.idle) = worked.busy[p.name]

(* So is one of the network, by what has moved since.                      *)
NetKept ==
  prevNet # Unavailable =>
    /\ prevNet \in Int
    /\ SumFunction(nics) - prevNet <= moved.bytes + moved.came
    /\ ~moved.left => SumFunction(nics) - prevNet = moved.bytes + moved.came

(* The clock of a reading that is under way lies between the last one's    *)
(* and the present.                                                        *)
TimeKept ==
  IF tpc = "idle"
  THEN prevTime # Unavailable => prevTime \in Int /\ clock - prevTime = worked.time
  ELSE /\ sampled.now \in Int /\ clock - sampled.now = worked.time
       /\ prevTime # Unavailable =>
            prevTime \in Int /\ sampled.now - prevTime = begun.time

(* What it has found of the cores is what they did before it began.        *)
SampledRight ==
  tpc = "disks" =>
    /\ sampled.cpu # Unavailable /\ ~begun.iowaitFell =>
         sampled.cpu = <<SumFunction(begun.busy), SumFunction(begun.all)>>
    /\ ~begun.iowaitFell => \A i \in DOMAIN sampled.cores :
         LET core == sampled.cores[i]
         IN \/ core.value = <<0, 1>>
            \/ core.value = <<begun.busy[core.name], begun.all[core.name]>>

TelemetryTyped ==
  /\ clock \in Nat /\ online \subseteq CoreNames /\ DOMAIN nics \subseteq Interfaces
  /\ jiffies \in [CoreNames -> Counters]
  /\ \A c \in CoreNames : jiffies[c].idle < jiffies[c].total
  /\ unreadable \subseteq Sources /\ changes \in 0..MaxChanges
  /\ snapshot.degraded \subseteq Sources /\ told \in {"nothing", "degraded", "restored"}
  /\ tpc \in {"idle", "disks"} /\ sampled.failed \subseteq Sources
  /\ nics \in [DOMAIN nics -> Nat] /\ worked \in WorkDone /\ moved \in Moves
  /\ prevCores \in Seq([name : CoreNames, idle : Nat, total : Nat])
TelemetryInv ==
  /\ TelemetryTyped /\ CpuKept /\ CoresKept /\ NetKept /\ TimeKept
  /\ SampledRight /\ ShownIsMeasured

(* There are finitely many cores, and interfaces at a time.                *)
LEMMA FewSources ==
  IsFiniteSet(CoreNames) /\ (TelemetryTyped => IsFiniteSet(DOMAIN nics))
<1>1. IsFiniteSet(CoreNames)
  <2>1. Cores \in [1..Len(Cores) -> CoreNames] /\ Len(Cores) \in Nat
    BY TelemetryAssumption
  <2>2. IsFiniteSet(1..Len(Cores))
    BY <2>1, FS_Interval
  <2>3. Cores \in Surjection(1..Len(Cores), CoreNames)
    BY <2>1 DEF Surjection, CoreNames
  <2> QED
    BY <2>2, <2>3, FS_Surjection
<1>2. TelemetryTyped => IsFiniteSet(DOMAIN nics)
  BY TelemetryAssumption, FS_Subset DEF TelemetryTyped
<1> QED
  BY <1>1, <1>2

(* A core that spends a jiffy, or takes one back, has idled less than it   *)
(* has been there, and the sums move with it.                              *)
LEMMA SpendsRight ==
  ASSUME TelemetryTyped, NEW c \in CoreNames, NEW i \in Int, NEW t \in Int, i <= t,
         jiffies[c].idle + i >= 0, Spends(c, i, t)
  PROVE  /\ jiffies' \in [CoreNames -> Counters]
         /\ \A d \in CoreNames : jiffies'[d].idle < jiffies'[d].total
         /\ jiffies'[c] = [idle |-> jiffies[c].idle + i, total |-> jiffies[c].total + t]
         /\ \A d \in CoreNames \ {c} : jiffies'[d] = jiffies[d]
         /\ Idles \in Int /\ Totals \in Int
         /\ Idles' = Idles + i /\ Totals' = Totals + t
<1>1. /\ jiffies \in [CoreNames -> Counters] /\ jiffies[c] \in Counters
      /\ jiffies[c].idle < jiffies[c].total
  BY DEF TelemetryTyped
<1>2. jiffies' = [jiffies EXCEPT ![c] = [idle |-> jiffies[c].idle + i,
                                         total |-> jiffies[c].total + t]]
  <2>1. jiffies' = [jiffies EXCEPT ![c].idle = @ + i, ![c].total = @ + t]
    BY DEF Spends
  <2>2. DOMAIN jiffies' = CoreNames /\ \A d \in CoreNames \ {c} : jiffies'[d] = jiffies[d]
    BY <1>1, <2>1
  <2>3. jiffies'[c] = [idle |-> jiffies[c].idle + i, total |-> jiffies[c].total + t]
    BY <1>1, <2>1 DEF Counters
  <2>4. jiffies' = [d \in CoreNames |-> jiffies'[d]]
    BY <1>1, <2>1
  <2> QED
    BY <1>1, <2>2, <2>3, <2>4
<1>3. jiffies[c].idle \in Nat /\ jiffies[c].total \in Nat
  BY <1>1 DEF Counters
<1>4. /\ jiffies[c].idle + i \in Nat /\ jiffies[c].total + t \in Nat
      /\ jiffies[c].idle + i < jiffies[c].total + t
  BY <1>1, <1>3
<1>5. jiffies' \in [CoreNames -> Counters]
  BY <1>1, <1>2, <1>4 DEF Counters
<1>6. ASSUME NEW d \in CoreNames PROVE jiffies'[d].idle < jiffies'[d].total
  <2>1. CASE d = c
    BY <1>1, <1>2, <1>4, <2>1
  <2>2. CASE d # c
    BY <1>1, <1>2, <2>2 DEF TelemetryTyped
  <2> QED
    BY <2>1, <2>2
<1>7. /\ jiffies'[c] = [idle |-> jiffies[c].idle + i, total |-> jiffies[c].total + t]
      /\ \A d \in CoreNames \ {c} : jiffies'[d] = jiffies[d]
  BY <1>1, <1>2
<1> DEFINE f == [d \in CoreNames |-> jiffies[d].idle]
           f1 == [d \in CoreNames |-> jiffies'[d].idle]
           g == [d \in CoreNames |-> jiffies[d].total]
           g1 == [d \in CoreNames |-> jiffies'[d].total]
<1>8. /\ f \in [CoreNames -> Int] /\ f1 \in [CoreNames -> Int]
      /\ g \in [CoreNames -> Int] /\ g1 \in [CoreNames -> Int]
  BY <1>1, <1>5 DEF Counters
<1>9. /\ \A d \in CoreNames \ {c} : f[d] = f1[d] /\ g[d] = g1[d]
      /\ f[c] \in Int /\ f1[c] = f[c] + i /\ g[c] \in Int /\ g1[c] = g[c] + t
  BY <1>3, <1>7
<1> HIDE DEF f, f1, g, g1
<1>10. SumFunction(f) \in Int /\ SumFunction(f1) = SumFunction(f) + f1[c] - f[c]
  BY <1>8, <1>9, FewSources, SumType, SumChange
<1>11. SumFunction(g) \in Int /\ SumFunction(g1) = SumFunction(g) + g1[c] - g[c]
  BY <1>8, <1>9, FewSources, SumType, SumChange
<1>12. /\ SumFunction(f1) = SumFunction(f) + i /\ SumFunction(g1) = SumFunction(g) + t
  BY <1>9, <1>10, <1>11
<1>13. /\ Idles = SumFunction(f) /\ Idles' = SumFunction(f1)
       /\ Totals = SumFunction(g) /\ Totals' = SumFunction(g1)
  BY DEF Idles, Totals, f, f1, g, g1
<1> QED
  BY <1>5, <1>6, <1>7, <1>10, <1>11, <1>12, <1>13

(* What is shown, and what was true of it, stay until the next poll.       *)
LEMMA ShownStays ==
  ASSUME ShownIsMeasured, UNCHANGED <<snapshot, told, truth>>
  PROVE  ShownIsMeasured'
BY DEF ShownIsMeasured

(* And what a reading under way has found, until it ends.                  *)
LEMMA SampledStays ==
  ASSUME SampledRight, UNCHANGED <<tpc, sampled, begun>>
  PROVE  SampledRight'
BY DEF SampledRight

(* The core counters and what was sampled of them stay, with the work.     *)
LEMMA CoresStay ==
  ASSUME CpuKept, CoresKept, UNCHANGED <<jiffies, prevCpu, prevCores>>,
         worked'.iowaitFell = worked.iowaitFell, worked'.all = worked.all,
         worked'.busy = worked.busy
  PROVE  CpuKept' /\ CoresKept'
<1>1. Idles' = Idles /\ Totals' = Totals
  BY DEF Idles, Totals
<1> QED
  BY <1>1 DEF CpuKept, CoresKept

(* The bytes, too.                                                         *)
LEMMA NetStays ==
  ASSUME NetKept, UNCHANGED <<nics, prevNet, moved>>
  PROVE  NetKept'
BY DEF NetKept

(* And the clock.                                                          *)
LEMMA TimeStays ==
  ASSUME TimeKept, UNCHANGED <<clock, prevTime, tpc, sampled, begun>>,
         worked'.time = worked.time
  PROVE  TimeKept'
BY DEF TimeKept

(* A jiffy is seen in the sums, in its core's counters and in the worked     *)
(* alike.                                                                  *)
LEMMA WorksKeeps ==
  ASSUME TelemetryInv, NEW c \in CoreNames, Works(c)
  PROVE  TelemetryInv'
<1>1. PICK idle \in 0..1 :
        /\ Spends(c, idle, 1)
        /\ worked' = [worked EXCEPT !.busy[c] = @ + 1 - idle, !.all[c] = @ + 1]
  BY DEF Works
<1>2. /\ TelemetryTyped /\ CpuKept /\ CoresKept /\ NetKept /\ TimeKept
      /\ SampledRight /\ ShownIsMeasured
      /\ UNCHANGED <<clock, online, nics, unreadable, moved>>
      /\ UNCHANGED <<samplerVars, begun, truth>>
      /\ changes < MaxChanges /\ changes' = changes + 1
  BY <1>1 DEF Works, Happens, Spends, TelemetryInv
<1>3. /\ jiffies' \in [CoreNames -> Counters]
      /\ \A d \in CoreNames : jiffies'[d].idle < jiffies'[d].total
      /\ jiffies'[c] = [idle |-> jiffies[c].idle + idle, total |-> jiffies[c].total + 1]
      /\ \A d \in CoreNames \ {c} : jiffies'[d] = jiffies[d]
      /\ Idles \in Int /\ Totals \in Int /\ Idles' = Idles + idle /\ Totals' = Totals + 1
  <2>1. jiffies[c].idle + idle >= 0 /\ idle \in Int /\ idle <= 1
    BY <1>2 DEF TelemetryTyped, Counters
  <2> QED
    BY <1>1, <1>2, <2>1, SpendsRight
<1>4. /\ worked.busy \in [CoreNames -> Nat] /\ worked.all \in [CoreNames -> Nat] /\ worked \in WorkDone
      /\ worked.busy[c] \in Nat /\ worked.all[c] \in Nat
      /\ jiffies[c].idle \in Nat /\ jiffies[c].total \in Nat
  BY <1>2 DEF TelemetryTyped, WorkDone, Counters
<1>5. /\ worked'.busy = [worked.busy EXCEPT ![c] = @ + 1 - idle]
      /\ worked'.all = [worked.all EXCEPT ![c] = @ + 1]
      /\ worked'.time = worked.time /\ worked'.iowaitFell = worked.iowaitFell
      /\ worked' = [busy |-> worked'.busy, all |-> worked'.all, time |-> worked.time,
                    iowaitFell |-> worked.iowaitFell]
  BY <1>1, <1>4 DEF WorkDone
<1>6. /\ worked'.busy[c] = worked.busy[c] + 1 - idle /\ worked'.all[c] = worked.all[c] + 1
      /\ \A d \in CoreNames \ {c} :
           worked.busy[d] = worked'.busy[d] /\ worked.all[d] = worked'.all[d]
  BY <1>4, <1>5
<1>7. worked.busy[c] + 1 - idle \in Nat
  BY <1>4
<1>8. /\ worked'.busy \in [CoreNames -> Nat] /\ worked'.all \in [CoreNames -> Nat]
  BY <1>4, <1>5, <1>7
<1>9. worked' \in WorkDone
  BY <1>4, <1>5, <1>8 DEF WorkDone
<1>10. /\ SumFunction(worked.all) \in Int
       /\ SumFunction(worked'.all) = SumFunction(worked.all) + 1
  <2> DEFINE f == worked.all
             g == worked'.all
  <2>1. f \in [CoreNames -> Int] /\ g \in [CoreNames -> Int]
    BY <1>4, <1>8
  <2>2. f[c] \in Int /\ g[c] = f[c] + 1 /\ \A d \in CoreNames \ {c} : f[d] = g[d]
    BY <1>4, <1>6
  <2> HIDE DEF f, g
  <2>3. SumFunction(f) \in Int /\ SumFunction(g) = SumFunction(f) + g[c] - f[c]
    BY <2>1, <2>2, FewSources, SumType, SumChange
  <2>4. SumFunction(f) \in Int /\ SumFunction(g) = SumFunction(f) + 1
    BY <2>2, <2>3
  <2> QED
    BY <2>4 DEF f, g
<1>11. /\ SumFunction(worked.busy) \in Int
       /\ SumFunction(worked'.busy) = SumFunction(worked.busy) + 1 - idle
  <2> DEFINE f == worked.busy
             g == worked'.busy
  <2>1. f \in [CoreNames -> Int] /\ g \in [CoreNames -> Int]
    BY <1>4, <1>8
  <2>2. f[c] \in Int /\ g[c] = f[c] + 1 - idle /\ \A d \in CoreNames \ {c} : f[d] = g[d]
    BY <1>4, <1>6
  <2> HIDE DEF f, g
  <2>3. SumFunction(f) \in Int /\ SumFunction(g) = SumFunction(f) + g[c] - f[c]
    BY <2>1, <2>2, FewSources, SumType, SumChange
  <2>4. SumFunction(f) \in Int /\ SumFunction(g) = SumFunction(f) + 1 - idle
    BY <2>2, <2>3
  <2> QED
    BY <2>4 DEF f, g
<1>12. prevCpu' = prevCpu /\ prevCores' = prevCores /\ prevNet' = prevNet
       /\ prevTime' = prevTime /\ snapshot' = snapshot /\ told' = told /\ truth' = truth
       /\ tpc' = tpc /\ sampled' = sampled /\ begun' = begun
  BY <1>2 DEF samplerVars
<1>13. TelemetryTyped'
  <2>1. changes' \in 0..MaxChanges
    BY <1>2, TelemetryAssumption DEF TelemetryTyped
  <2> QED
    BY <1>2, <1>3, <1>9, <1>12, <2>1 DEF TelemetryTyped
<1>14. CpuKept'
  <2>1. SUFFICES ASSUME prevCpu # Unavailable
                 PROVE  /\ prevCpu.idle \in Int /\ prevCpu.total \in Int
                        /\ ~worked.iowaitFell =>
                             /\ Totals' - prevCpu.total = SumFunction(worked'.all)
                             /\ (Totals' - prevCpu.total) - (Idles' - prevCpu.idle)
                                  = SumFunction(worked'.busy)
    BY <1>5, <1>12 DEF CpuKept
  <2>2. /\ prevCpu.idle \in Int /\ prevCpu.total \in Int
        /\ ~worked.iowaitFell =>
             /\ Totals - prevCpu.total = SumFunction(worked.all)
             /\ (Totals - prevCpu.total) - (Idles - prevCpu.idle) = SumFunction(worked.busy)
    BY <1>2, <2>1 DEF CpuKept
  <2> DEFINE T == Totals
             D == Idles
             A == SumFunction(worked.all)
             B == SumFunction(worked.busy)
             pt == prevCpu.total
             pi == prevCpu.idle
  <2>3. /\ T \in Int /\ D \in Int /\ A \in Int /\ B \in Int /\ pt \in Int /\ pi \in Int
        /\ ~worked.iowaitFell => T - pt = A /\ (T - pt) - (D - pi) = B
    BY <1>3, <1>10, <1>11, <2>2
  <2>4. /\ Totals' = T + 1 /\ Idles' = D + idle
        /\ SumFunction(worked'.all) = A + 1 /\ SumFunction(worked'.busy) = B + 1 - idle
    BY <1>3, <1>10, <1>11
  <2> HIDE DEF T, D, A, B, pt, pi
  <2>5. ~worked.iowaitFell => (T + 1) - pt = A + 1
                            /\ ((T + 1) - pt) - ((D + idle) - pi) = B + 1 - idle
    BY <2>3
  <2> QED
    BY <2>2, <2>4, <2>5 DEF pt, pi
<1>15. CoresKept'
  <2>1. SUFFICES ASSUME NEW i \in DOMAIN prevCores, ~worked.iowaitFell
                 PROVE  LET p == prevCores[i]
                            q == jiffies'[p.name]
                        IN  /\ q.total - p.total = worked'.all[p.name]
                            /\ (q.total - p.total) - (q.idle - p.idle) = worked'.busy[p.name]
    BY <1>5, <1>12 DEF CoresKept
  <2> DEFINE p == prevCores[i]
             d == p.name
  <2>2. d \in CoreNames /\ p.idle \in Nat /\ p.total \in Nat
    <3> DEFINE CoreLines == [name : CoreNames, idle : Nat, total : Nat]
    <3>1. prevCores \in Seq(CoreLines)
      BY <1>2 DEF TelemetryTyped
    <3> HIDE DEF CoreLines
    <3>2. p \in CoreLines
      BY <2>1, <3>1
    <3> QED
      BY <3>2 DEF CoreLines
  <2>3. /\ jiffies[d].total - p.total = worked.all[d]
        /\ (jiffies[d].total - p.total) - (jiffies[d].idle - p.idle) = worked.busy[d]
    BY <1>2, <2>1 DEF CoresKept
  <2>4. CASE d # c
    <3>1. /\ jiffies'[d] = jiffies[d]
          /\ worked'.all[d] = worked.all[d] /\ worked'.busy[d] = worked.busy[d]
      BY <1>3, <1>6, <2>2, <2>4
    <3> HIDE DEF d, p
    <3>2. /\ jiffies'[d].total - p.total = worked'.all[d]
          /\ (jiffies'[d].total - p.total) - (jiffies'[d].idle - p.idle) = worked'.busy[d]
      BY <2>3, <3>1
    <3> QED
      BY <3>2 DEF d, p
  <2>5. CASE d = c
    <3> DEFINE a == jiffies[c].total
               b == jiffies[c].idle
               x == worked.all[c]
               y == worked.busy[c]
               pt == p.total
               pi == p.idle
    <3>1. /\ a \in Int /\ b \in Int /\ x \in Int /\ y \in Int /\ pt \in Int /\ pi \in Int
          /\ a - pt = x /\ (a - pt) - (b - pi) = y
      BY <1>4, <2>2, <2>3, <2>5
    <3>2. /\ jiffies'[d].total = a + 1 /\ jiffies'[d].idle = b + idle
          /\ worked'.all[d] = x + 1 /\ worked'.busy[d] = y + 1 - idle
      BY <1>3, <1>6, <2>5
    <3> HIDE DEF a, b, x, y, pt, pi
    <3>3. (a + 1) - pt = x + 1 /\ ((a + 1) - pt) - ((b + idle) - pi) = y + 1 - idle
      BY <3>1
    <3> QED
      BY <3>2, <3>3 DEF pt, pi
  <2> QED
    BY <2>4, <2>5
<1>16. NetKept' /\ TimeKept' /\ SampledRight' /\ ShownIsMeasured'
  BY <1>2, <1>5, <1>12, NetStays, TimeStays, SampledStays, ShownStays
<1> QED
  BY <1>13, <1>14, <1>15, <1>16 DEF TelemetryInv

(* Once iowait fell nothing is claimed of the cores until the next poll.   *)
LEMMA IowaitKeeps ==
  ASSUME TelemetryInv, NEW c \in CoreNames, IowaitFalls(c)
  PROVE  TelemetryInv'
<1>1. /\ TelemetryTyped /\ CpuKept /\ CoresKept /\ NetKept /\ TimeKept
      /\ SampledRight /\ ShownIsMeasured
      /\ UNCHANGED <<clock, online, nics, unreadable, moved>>
      /\ UNCHANGED <<samplerVars, begun, truth>>
      /\ changes < MaxChanges /\ changes' = changes + 1
      /\ worked' = [worked EXCEPT !.iowaitFell = TRUE]
  BY DEF IowaitFalls, Happens, Spends, TelemetryInv
<1>2. /\ jiffies' \in [CoreNames -> Counters]
      /\ \A d \in CoreNames : jiffies'[d].idle < jiffies'[d].total
  <2>1. Spends(c, -1, -1) /\ jiffies[c].idle > 0
    BY DEF IowaitFalls
  <2>2. jiffies[c].idle \in Nat
    BY <1>1 DEF TelemetryTyped, Counters
  <2>3. jiffies[c].idle + (-1) >= 0
    BY <2>1, <2>2
  <2> QED
    <3> DEFINE m == -1
    <3>1. m \in Int /\ m <= m /\ jiffies[c].idle + m >= 0 /\ Spends(c, m, m) /\ TelemetryTyped
      BY <1>1, <2>1, <2>3
    <3> HIDE DEF m
    <3> QED
      BY <3>1, SpendsRight
<1>3. worked' \in WorkDone /\ worked'.iowaitFell /\ worked'.time = worked.time
  BY <1>1 DEF TelemetryTyped, WorkDone
<1>4. prevCpu' = prevCpu /\ prevCores' = prevCores /\ prevNet' = prevNet
      /\ prevTime' = prevTime /\ snapshot' = snapshot /\ told' = told /\ truth' = truth
      /\ tpc' = tpc /\ sampled' = sampled /\ begun' = begun
  BY <1>1 DEF samplerVars
<1>5. TelemetryTyped'
  <2>1. changes' \in 0..MaxChanges
    BY <1>1, TelemetryAssumption DEF TelemetryTyped
  <2> QED
    BY <1>1, <1>2, <1>3, <1>4, <2>1 DEF TelemetryTyped
<1>6. CpuKept' /\ CoresKept'
  BY <1>1, <1>3, <1>4 DEF CpuKept, CoresKept
<1>7. NetKept' /\ TimeKept' /\ SampledRight' /\ ShownIsMeasured'
  BY <1>1, <1>3, <1>4, NetStays, TimeStays, SampledStays, ShownStays
<1> QED
  BY <1>5, <1>6, <1>7 DEF TelemetryInv

(* A byte is seen in the counters, and has moved.                          *)
LEMMA TrafficKeeps ==
  ASSUME TelemetryInv, NEW i \in Interfaces, Traffic(i)
  PROVE  TelemetryInv'
<1>1. /\ TelemetryTyped /\ CpuKept /\ CoresKept /\ NetKept /\ TimeKept
      /\ SampledRight /\ ShownIsMeasured
      /\ UNCHANGED <<clock, jiffies, online, unreadable, worked>>
      /\ UNCHANGED <<samplerVars, begun, truth>>
      /\ changes < MaxChanges /\ changes' = changes + 1 /\ i \in DOMAIN nics
      /\ nics' = [nics EXCEPT ![i] = @ + 1] /\ moved' = [moved EXCEPT !.bytes = @ + 1]
  BY DEF Traffic, Happens, TelemetryInv
<1>2. /\ nics \in [DOMAIN nics -> Nat] /\ nics[i] \in Nat
      /\ moved \in Moves /\ moved.bytes \in Nat /\ moved.came \in Nat
  BY <1>1 DEF TelemetryTyped, Moves
<1>3. /\ moved' \in Moves /\ moved'.left = moved.left
      /\ moved'.bytes = moved.bytes + 1 /\ moved'.came = moved.came
  BY <1>1, <1>2 DEF Moves
<1>4. DOMAIN nics' = DOMAIN nics /\ nics' \in [DOMAIN nics' -> Nat]
  BY <1>1, <1>2
<1>5. SumFunction(nics) \in Int /\ SumFunction(nics') = SumFunction(nics) + 1
  <2> DEFINE f == nics
             g == nics'
             S == DOMAIN nics
  <2>1. f \in [S -> Int] /\ g \in [S -> Int] /\ IsFiniteSet(S) /\ i \in S /\ DOMAIN f = S
    BY <1>1, <1>2, <1>4, FewSources
  <2>2. f[i] \in Int /\ g[i] = f[i] + 1 /\ \A j \in S \ {i} : f[j] = g[j]
    BY <1>1, <1>2
  <2> HIDE DEF f, g, S
  <2>3. SumFunction(f) \in Int /\ SumFunction(g) = SumFunction(f) + g[i] - f[i]
    BY <2>1, <2>2, SumType, SumChange
  <2>4. SumFunction(f) \in Int /\ SumFunction(g) = SumFunction(f) + 1
    BY <2>2, <2>3
  <2> QED
    BY <2>4 DEF f, g
<1>6. prevCpu' = prevCpu /\ prevCores' = prevCores /\ prevNet' = prevNet
      /\ prevTime' = prevTime /\ snapshot' = snapshot /\ told' = told /\ truth' = truth
      /\ tpc' = tpc /\ sampled' = sampled /\ begun' = begun
  BY <1>1 DEF samplerVars
<1>7. TelemetryTyped'
  <2>1. changes' \in 0..MaxChanges
    BY <1>1, TelemetryAssumption DEF TelemetryTyped
  <2> QED
    BY <1>1, <1>3, <1>4, <1>6, <2>1 DEF TelemetryTyped
<1>8. NetKept'
  <2>1. SUFFICES ASSUME prevNet # Unavailable
                 PROVE  /\ prevNet \in Int
                        /\ SumFunction(nics') - prevNet <= moved'.bytes + moved'.came
                        /\ ~moved.left => SumFunction(nics') - prevNet = moved'.bytes + moved'.came
    BY <1>3, <1>6 DEF NetKept
  <2> DEFINE a == SumFunction(nics)
             b == moved.bytes
             c == moved.came
  <2>2. /\ a \in Int /\ b \in Int /\ c \in Int /\ prevNet \in Int
        /\ SumFunction(nics') = a + 1 /\ moved'.bytes = b + 1 /\ moved'.came = c
        /\ a - prevNet <= b + c /\ (~moved.left => a - prevNet = b + c)
    BY <1>1, <1>2, <1>3, <1>5, <2>1 DEF NetKept
  <2> HIDE DEF a, b, c
  <2>3. /\ (a + 1) - prevNet <= (b + 1) + c
        /\ ~moved.left => (a + 1) - prevNet = (b + 1) + c
    BY <2>2
  <2> QED
    BY <2>2, <2>3
<1>9. CpuKept' /\ CoresKept' /\ TimeKept' /\ SampledRight' /\ ShownIsMeasured'
  BY <1>1, <1>6, CoresStay, TimeStays, SampledStays, ShownStays
<1> QED
  BY <1>7, <1>8, <1>9 DEF TelemetryInv

(* An interface that leaves takes its bytes out of the sum.                *)
LEMMA LeavesKeeps ==
  ASSUME TelemetryInv, NEW i \in Interfaces, Leaves(i)
  PROVE  TelemetryInv'
<1>1. /\ TelemetryTyped /\ CpuKept /\ CoresKept /\ NetKept /\ TimeKept
      /\ SampledRight /\ ShownIsMeasured
      /\ UNCHANGED <<clock, jiffies, online, unreadable, worked>>
      /\ UNCHANGED <<samplerVars, begun, truth>>
      /\ changes < MaxChanges /\ changes' = changes + 1 /\ i \in DOMAIN nics
      /\ nics' = [j \in DOMAIN nics \ {i} |-> nics[j]] /\ moved' = [moved EXCEPT !.left = TRUE]
  BY DEF Leaves, Happens, TelemetryInv
<1>2. /\ nics \in [DOMAIN nics -> Nat] /\ nics[i] \in Nat
      /\ moved \in Moves /\ moved.bytes \in Nat /\ moved.came \in Nat
  BY <1>1 DEF TelemetryTyped, Moves
<1>3. /\ moved' \in Moves /\ moved'.left
      /\ moved'.bytes = moved.bytes /\ moved'.came = moved.came
  BY <1>1, <1>2 DEF Moves
<1>4. /\ DOMAIN nics' \subseteq DOMAIN nics /\ nics' \in [DOMAIN nics' -> Nat]
  BY <1>1, <1>2
<1>5. SumFunction(nics') \in Int /\ SumFunction(nics) = SumFunction(nics') + nics[i]
  <2>1. IsFiniteSet(DOMAIN nics) /\ \A x \in DOMAIN nics : nics[x] \in Int
    BY <1>1, <1>2, FewSources
  <2> QED
    BY <1>1, <2>1, SumLess
<1>6. prevCpu' = prevCpu /\ prevCores' = prevCores /\ prevNet' = prevNet
      /\ prevTime' = prevTime /\ snapshot' = snapshot /\ told' = told /\ truth' = truth
      /\ tpc' = tpc /\ sampled' = sampled /\ begun' = begun
  BY <1>1 DEF samplerVars
<1>7. TelemetryTyped'
  <2>1. changes' \in 0..MaxChanges
    BY <1>1, TelemetryAssumption DEF TelemetryTyped
  <2>2. DOMAIN nics' \subseteq Interfaces
    BY <1>1, <1>4 DEF TelemetryTyped
  <2> QED
    BY <1>1, <1>3, <1>4, <1>6, <2>1, <2>2 DEF TelemetryTyped
<1>8. NetKept'
  <2>1. SUFFICES ASSUME prevNet # Unavailable
                 PROVE  /\ prevNet \in Int
                        /\ SumFunction(nics') - prevNet <= moved'.bytes + moved'.came
    BY <1>3, <1>6 DEF NetKept
  <2> DEFINE a == SumFunction(nics')
             b == moved.bytes
             c == moved.came
             n == nics[i]
  <2>2. /\ a \in Int /\ b \in Int /\ c \in Int /\ n \in Nat /\ prevNet \in Int
        /\ SumFunction(nics) = a + n /\ moved'.bytes = b /\ moved'.came = c
    BY <1>1, <1>2, <1>3, <1>5, <2>1 DEF NetKept
  <2>3. SumFunction(nics) - prevNet <= b + c
    BY <1>1, <2>1 DEF NetKept
  <2>4. (a + n) - prevNet <= b + c
    BY <2>2, <2>3
  <2> HIDE DEF a, b, c, n
  <2>5. a - prevNet <= b + c
    BY <2>2, <2>4
  <2> QED
    BY <2>2, <2>5 DEF a
<1>9. CpuKept' /\ CoresKept' /\ TimeKept' /\ SampledRight' /\ ShownIsMeasured'
  BY <1>1, <1>6, CoresStay, TimeStays, SampledStays, ShownStays
<1> QED
  BY <1>7, <1>8, <1>9 DEF TelemetryInv

(* One that arrives adds what it comes with.                               *)
LEMMA ArrivesKeeps ==
  ASSUME TelemetryInv, NEW i \in Interfaces, Arrives(i)
  PROVE  TelemetryInv'
<1>0. PICK n \in Carried :
        /\ nics' = [j \in DOMAIN nics \cup {i} |-> IF j = i THEN n ELSE nics[j]]
        /\ moved' = [moved EXCEPT !.came = @ + n]
  BY DEF Arrives
<1>1. /\ TelemetryTyped /\ CpuKept /\ CoresKept /\ NetKept /\ TimeKept
      /\ SampledRight /\ ShownIsMeasured
      /\ UNCHANGED <<clock, jiffies, online, unreadable, worked>>
      /\ UNCHANGED <<samplerVars, begun, truth>>
      /\ changes < MaxChanges /\ changes' = changes + 1 /\ i \notin DOMAIN nics
  BY DEF Arrives, Happens, TelemetryInv
<1>2. /\ nics \in [DOMAIN nics -> Nat] /\ n \in Nat
      /\ moved \in Moves /\ moved.bytes \in Nat /\ moved.came \in Nat
  BY <1>1, TelemetryAssumption DEF TelemetryTyped, Moves
<1>3. /\ DOMAIN nics' = DOMAIN nics \cup {i} /\ nics' \in [DOMAIN nics' -> Nat] /\ nics'[i] = n
      /\ moved' \in Moves /\ moved'.left = moved.left
      /\ moved'.bytes = moved.bytes /\ moved'.came = moved.came + n
  BY <1>0, <1>2 DEF Moves
<1>4. DOMAIN nics' \subseteq Interfaces
  BY <1>1, <1>3 DEF TelemetryTyped
<1>5. SumFunction(nics) \in Int /\ SumFunction(nics') = SumFunction(nics) + n
  <2> DEFINE g == nics'
  <2>1. /\ IsFiniteSet(DOMAIN g) /\ i \in DOMAIN g /\ g[i] = n
        /\ \A x \in DOMAIN g : g[x] \in Int
    BY <1>3, <1>4, TelemetryAssumption, FS_Subset
  <2>2. [x \in DOMAIN g \ {i} |-> g[x]] = nics
    <3>1. DOMAIN g \ {i} = DOMAIN nics /\ \A x \in DOMAIN nics : g[x] = nics[x]
      BY <1>0, <1>1, <1>3
    <3> QED
      BY <1>2, <3>1
  <2> HIDE DEF g
  <2>3. SumFunction(nics) \in Int /\ SumFunction(g) = SumFunction(nics) + g[i]
    BY <2>1, <2>2, SumLess
  <2>4. SumFunction(nics) \in Int /\ SumFunction(g) = SumFunction(nics) + n
    BY <2>1, <2>3
  <2> QED
    BY <2>4 DEF g
<1>6. prevCpu' = prevCpu /\ prevCores' = prevCores /\ prevNet' = prevNet
      /\ prevTime' = prevTime /\ snapshot' = snapshot /\ told' = told /\ truth' = truth
      /\ tpc' = tpc /\ sampled' = sampled /\ begun' = begun
  BY <1>1 DEF samplerVars
<1>7. TelemetryTyped'
  <2>1. changes' \in 0..MaxChanges
    BY <1>1, TelemetryAssumption DEF TelemetryTyped
  <2> QED
    BY <1>1, <1>3, <1>4, <1>6, <2>1 DEF TelemetryTyped
<1>8. NetKept'
  <2>1. SUFFICES ASSUME prevNet # Unavailable
                 PROVE  /\ prevNet \in Int
                        /\ SumFunction(nics') - prevNet <= moved'.bytes + moved'.came
                        /\ ~moved.left => SumFunction(nics') - prevNet = moved'.bytes + moved'.came
    BY <1>3, <1>6 DEF NetKept
  <2> DEFINE a == SumFunction(nics)
             b == moved.bytes
             c == moved.came
  <2>2. /\ a \in Int /\ b \in Int /\ c \in Int /\ n \in Int /\ prevNet \in Int
        /\ SumFunction(nics') = a + n /\ moved'.bytes = b /\ moved'.came = c + n
        /\ a - prevNet <= b + c /\ (~moved.left => a - prevNet = b + c)
    BY <1>1, <1>2, <1>3, <1>5, <2>1 DEF NetKept
  <2> HIDE DEF a, b, c
  <2>3. /\ (a + n) - prevNet <= b + (c + n)
        /\ ~moved.left => (a + n) - prevNet = b + (c + n)
    BY <2>2
  <2> QED
    BY <2>2, <2>3
<1>9. CpuKept' /\ CoresKept' /\ TimeKept' /\ SampledRight' /\ ShownIsMeasured'
  BY <1>1, <1>6, CoresStay, TimeStays, SampledStays, ShownStays
<1> QED
  BY <1>7, <1>8, <1>9 DEF TelemetryInv

(* What ProcReader reads is what the counters are, of every core that is   *)
(* online and in sum.                                                      *)
LEMMA ReadsRight ==
  ASSUME TelemetryTyped
  PROVE  /\ CpuTimes.total # Unavailable =>
              CpuTimes.total.idle = Idles /\ CpuTimes.total.total = Totals
         /\ CpuTimes.cores \in Seq([name : CoreNames, idle : Nat, total : Nat])
         /\ \A i \in DOMAIN CpuTimes.cores : CpuTimes.cores[i] = Line(CpuTimes.cores[i].name)
         /\ Idles \in Int /\ Totals \in Int /\ SumFunction(nics) \in Int
<1>0. Idles \in Int /\ Totals \in Int /\ SumFunction(nics) \in Int
  <2> DEFINE f == [c \in CoreNames |-> jiffies[c].idle]
             g == [c \in CoreNames |-> jiffies[c].total]
  <2>1. /\ \A c \in CoreNames : f[c] \in Int /\ g[c] \in Int
        /\ DOMAIN f = CoreNames /\ DOMAIN g = CoreNames
    BY DEF TelemetryTyped, Counters
  <2> HIDE DEF f, g
  <2>2. SumFunction(f) \in Int /\ SumFunction(g) \in Int
    BY <2>1, FewSources, SumType
  <2>3. \A i \in DOMAIN nics : nics[i] \in Int
    BY DEF TelemetryTyped
  <2> QED
    BY <2>2, <2>3, FewSources, SumType DEF Idles, Totals, f, g
<1>1. CASE "cpu" \in unreadable
  <2>1. CpuTimes.total = Unavailable /\ CpuTimes.cores = <<>>
    BY <1>1 DEF CpuTimes
  <2> DEFINE CoreLines == [name : CoreNames, idle : Nat, total : Nat]
  <2>2. CpuTimes.cores \in Seq(CoreLines) /\ DOMAIN CpuTimes.cores = {}
    <3> HIDE DEF CoreLines
    <3> QED
      BY <2>1
  <2> QED
    BY <1>0, <2>1, <2>2
<1>2. CASE "cpu" \notin unreadable
  <2>1. CpuTimes.total.idle = Idles /\ CpuTimes.total.total = Totals
    BY <1>2 DEF CpuTimes, Idles, Totals
  <2> DEFINE there == Present[Len(Cores)]
             CoreLines == [name : CoreNames, idle : Nat, total : Nat]
             lines == [i \in DOMAIN there |-> Line(there[i])]
  <2>2. CpuTimes.cores = lines
    BY <1>2 DEF CpuTimes
  <2>3. there \in Seq(CoreNames)
    BY PresentCores
  <2>4. ASSUME NEW c \in CoreNames PROVE Line(c) \in CoreLines /\ Line(c).name = c
    BY DEF Line, TelemetryTyped, Counters
  <2> HIDE DEF there, CoreLines
  <2>5. /\ lines \in Seq(CoreLines)
        /\ \A i \in DOMAIN lines : lines[i] = Line(there[i]) /\ there[i] \in CoreNames
    <3>1. Len(there) \in Nat /\ DOMAIN there = 1..Len(there)
      BY <2>3
    <3>2. \A i \in 1..Len(there) : there[i] \in CoreNames /\ Line(there[i]) \in CoreLines
      BY <2>3, <2>4
    <3>3. lines \in [1..Len(there) -> CoreLines]
      BY <3>1, <3>2
    <3>4. lines \in Seq(CoreLines)
      BY <3>1, <3>3
    <3> QED
      BY <3>1, <3>2, <3>4
  <2>6. \A i \in DOMAIN lines : lines[i] = Line(lines[i].name)
    BY <2>4, <2>5
  <2> QED
    BY <1>0, <2>1, <2>2, <2>5, <2>6 DEF CoreLines
<1> QED
  BY <1>1, <1>2

(* A reading that begins finds what the cores have done since the last one *)
(* did, and keeps counters since which nothing has been done.              *)
LEMMA BeginKeeps ==
  ASSUME TelemetryInv, BeginPoll
  PROVE  TelemetryInv'
<1>1. /\ TelemetryTyped /\ CpuKept /\ CoresKept /\ NetKept /\ TimeKept
      /\ SampledRight /\ ShownIsMeasured
      /\ UNCHANGED <<clock, jiffies, online, nics, unreadable, changes>>
      /\ UNCHANGED <<prevNet, prevTime, snapshot, told, moved, truth>>
      /\ begun' = worked /\ worked' = AtRest /\ tpc = "idle" /\ tpc' = "disks"
  BY DEF BeginPoll, TelemetryInv, machineVars
<1>2. /\ prevCpu' = CpuTimes.total /\ prevCores' = CpuTimes.cores
      /\ sampled'.now = clock /\ sampled'.cpu = CpuPercent(CpuTimes.total)
      /\ sampled'.cores = CorePercents(CpuTimes.cores)
      /\ sampled'.failed = {"cpu"} \cap unreadable
  BY DEF BeginPoll
<1>3. /\ CpuTimes.total # Unavailable =>
           CpuTimes.total.idle = Idles /\ CpuTimes.total.total = Totals
      /\ CpuTimes.cores \in Seq([name : CoreNames, idle : Nat, total : Nat])
      /\ \A i \in DOMAIN CpuTimes.cores : CpuTimes.cores[i] = Line(CpuTimes.cores[i].name)
      /\ Idles \in Int /\ Totals \in Int /\ SumFunction(nics) \in Int
  BY <1>1, ReadsRight
<1>4. /\ SumFunction(AtRest.busy) = 0 /\ SumFunction(AtRest.all) = 0
      /\ AtRest \in WorkDone /\ AtRest.time = 0
      /\ \A c \in CoreNames : AtRest.busy[c] = 0 /\ AtRest.all[c] = 0
  BY FewSources, SumZero DEF AtRest, WorkDone
<1>5. Idles' = Idles /\ Totals' = Totals
  BY <1>1 DEF Idles, Totals
<1>7. TelemetryTyped'
  <2>1. prevCores' \in Seq([name : CoreNames, idle : Nat, total : Nat])
    BY <1>2, <1>3
  <2>2. sampled'.failed \subseteq Sources
    BY <1>1, <1>2 DEF TelemetryTyped
  <2> QED
    BY <1>1, <1>4, <2>1, <2>2 DEF TelemetryTyped
<1>8. CpuKept'
  <2>1. SUFFICES ASSUME CpuTimes.total # Unavailable
                 PROVE  /\ Idles \in Int /\ Totals \in Int
                        /\ Totals - Totals = 0 /\ (Totals - Totals) - (Idles - Idles) = 0
    BY <1>1, <1>2, <1>3, <1>4, <1>5 DEF CpuKept
  <2> DEFINE a == Idles
             b == Totals
  <2>2. a \in Int /\ b \in Int
    BY <1>3
  <2> HIDE DEF a, b
  <2>3. a \in Int /\ b \in Int /\ b - b = 0 /\ (b - b) - (a - a) = 0
    BY <2>2
  <2> QED
    BY <2>3 DEF a, b
<1>9. CoresKept'
  <2> DEFINE now == CpuTimes.cores
             CoreLines == [name : CoreNames, idle : Nat, total : Nat]
  <2>1. SUFFICES ASSUME NEW i \in DOMAIN now
                 PROVE  LET p == now[i]
                            q == jiffies[p.name]
                        IN  /\ q.total - p.total = AtRest.all[p.name]
                            /\ (q.total - p.total) - (q.idle - p.idle) = AtRest.busy[p.name]
    BY <1>1, <1>2 DEF CoresKept
  <2> DEFINE p == now[i]
             c == p.name
  <2>2. p \in CoreLines
    <3>1. now \in Seq(CoreLines)
      BY <1>3
    <3> HIDE DEF now, CoreLines
    <3> QED
      BY <2>1, <3>1
  <2>3. c \in CoreNames /\ p.idle \in Nat /\ p.total \in Nat
    BY <2>2
  <2>4. p.idle = jiffies[c].idle /\ p.total = jiffies[c].total
    <3>1. p = Line(c)
      BY <1>3, <2>1
    <3> HIDE DEF p, c
    <3>2. p = [name |-> c, idle |-> jiffies[c].idle, total |-> jiffies[c].total]
      BY <3>1 DEF Line
    <3> QED
      BY <3>2
  <2>5. AtRest.all[c] = 0 /\ AtRest.busy[c] = 0
    BY <1>4, <2>3
  <2> HIDE DEF p, c
  <2> DEFINE a == jiffies[c].idle
             b == jiffies[c].total
  <2>6. a \in Int /\ b \in Int /\ p.idle = a /\ p.total = b
    BY <2>3, <2>4
  <2> HIDE DEF a, b
  <2>7. b - b = 0 /\ (b - b) - (a - a) = 0
    BY <2>6
  <2>8. /\ jiffies[c].total - p.total = AtRest.all[c]
        /\ (jiffies[c].total - p.total) - (jiffies[c].idle - p.idle) = AtRest.busy[c]
    BY <2>5, <2>6, <2>7 DEF a, b
  <2> QED
    BY <2>8 DEF p, c
<1>10. NetKept' /\ TimeKept' /\ ShownIsMeasured'
  <2>1. NetKept' /\ ShownIsMeasured'
    BY <1>1, NetStays, ShownStays
  <2>2. clock \in Int /\ (prevTime # Unavailable =>
                            prevTime \in Int /\ clock - prevTime = worked.time)
    BY <1>1 DEF TelemetryTyped, TimeKept
  <2>3. clock - clock = 0
    BY <2>2
  <2>4. /\ sampled'.now \in Int /\ clock' - sampled'.now = worked'.time
        /\ prevTime' # Unavailable =>
             prevTime' \in Int /\ sampled'.now - prevTime' = begun'.time
    BY <1>1, <1>2, <1>4, <2>2, <2>3
  <2>5. TimeKept'
    BY <1>1, <2>4 DEF TimeKept
  <2> QED
    BY <2>1, <2>5
<1>11. sampled'.cpu # Unavailable /\ ~worked.iowaitFell =>
         sampled'.cpu = <<SumFunction(worked.busy), SumFunction(worked.all)>>
  <2> DEFINE now == CpuTimes.total
             a == SumFunction(worked.all)
             b == SumFunction(worked.busy)
             t == Totals - prevCpu.total
             d == Idles - prevCpu.idle
  <2>1. SUFFICES ASSUME sampled'.cpu # Unavailable, ~worked.iowaitFell
                 PROVE  sampled'.cpu = <<b, a>>
    OBVIOUS
  <2>2. now # Unavailable /\ prevCpu # Unavailable /\ sampled'.cpu = Utilisation(prevCpu, now)
    BY <1>2, <2>1 DEF CpuPercent
  <2>3. sampled'.cpu = <<(now.total - prevCpu.total) - (now.idle - prevCpu.idle),
                          now.total - prevCpu.total>>
    BY <2>1, <2>2 DEF Utilisation
  <2>4. now.total = Totals /\ now.idle = Idles
    BY <1>3, <2>2
  <2>5. t = a /\ t - d = b
    BY <1>1, <2>1, <2>2 DEF CpuKept
  <2>6. sampled'.cpu = <<t - d, t>>
    BY <2>3, <2>4
  <2> HIDE DEF a, b, t, d
  <2> QED
    BY <2>5, <2>6
<1>12. ASSUME ~worked.iowaitFell, NEW i \in DOMAIN sampled'.cores
       PROVE  LET core == sampled'.cores[i]
              IN core.value = <<0, 1>> \/ core.value = <<worked.busy[core.name], worked.all[core.name]>>
  <2> DEFINE now == CpuTimes.cores
             core == sampled'.cores[i]
             p == prevCores[i]
             q == now[i]
  <2>1. Len(now) = Len(prevCores)
    BY <1>2, <1>12 DEF CorePercents
  <2>2. i \in DOMAIN now /\ core = [name |-> now[i].name, value |-> CorePercent(prevCores[i], now[i])]
    BY <1>2, <1>12, <2>1 DEF CorePercents
  <2>3. i \in DOMAIN prevCores
    <3>1. DOMAIN now = 1..Len(now)
      BY <1>3
    <3>2. DOMAIN prevCores = 1..Len(prevCores)
      BY <1>1 DEF TelemetryTyped
    <3> QED
      BY <2>1, <2>2, <3>1, <3>2
  <2>4. core.name = q.name /\ core.value = CorePercent(p, q)
    BY <2>2
  <2>5. CASE Utilisation(p, q) = Unavailable
    BY <2>4, <2>5 DEF CorePercent
  <2>6. CASE Utilisation(p, q) # Unavailable
    <3>1. core.value = Utilisation(p, q)
      BY <2>4, <2>6 DEF CorePercent
    <3>2. /\ p.name = q.name
          /\ core.value = <<(q.total - p.total) - (q.idle - p.idle), q.total - p.total>>
      BY <2>6, <3>1 DEF Utilisation
    <3>3. q.total = jiffies[q.name].total /\ q.idle = jiffies[q.name].idle
      <4> DEFINE c == q.name
      <4>1. q = Line(c)
        BY <1>3, <2>2
      <4> HIDE DEF q, c
      <4>2. q = [name |-> c, idle |-> jiffies[c].idle, total |-> jiffies[c].total]
        BY <4>1 DEF Line
      <4>3. q.total = jiffies[c].total /\ q.idle = jiffies[c].idle
        BY <4>2
      <4> QED
        BY <4>3 DEF c
    <3>4. LET j == jiffies[p.name]
          IN  /\ j.total - p.total = worked.all[p.name]
              /\ (j.total - p.total) - (j.idle - p.idle) = worked.busy[p.name]
      BY <1>1, <1>12, <2>3 DEF CoresKept
    <3> HIDE DEF core, p, q
    <3>5. core.value = <<worked.busy[q.name], worked.all[q.name]>>
      BY <3>2, <3>3, <3>4
    <3>6. core.name = q.name
      BY <2>4
    <3> QED
      BY <3>5, <3>6 DEF core
  <2> QED
    BY <2>5, <2>6
<1>13. SampledRight'
  BY <1>1, <1>11, <1>12 DEF SampledRight
<1> QED
  BY <1>7, <1>8, <1>9, <1>10, <1>13 DEF TelemetryInv

(* One that ends shows what it found of the cores, and the bytes since the *)
(* last one ended.                                                         *)
LEMMA EndKeeps ==
  ASSUME TelemetryInv, EndPoll
  PROVE  TelemetryInv'
<1> DEFINE degraded == sampled.failed \cup (unreadable \ {"cpu"})
<1>1. /\ TelemetryTyped /\ CpuKept /\ CoresKept /\ NetKept /\ TimeKept
      /\ SampledRight /\ ShownIsMeasured
      /\ UNCHANGED <<clock, jiffies, online, nics, unreadable, changes>>
      /\ UNCHANGED <<prevCpu, prevCores, worked>>
      /\ truth' = [work |-> begun, net |-> moved] /\ begun' = AtRest /\ moved' = Silent
      /\ tpc = "disks" /\ tpc' = "idle" /\ sampled' = NotSampled
  BY DEF EndPoll, TelemetryInv, machineVars
<1>2. /\ prevNet' = NetworkCounters /\ prevTime' = sampled.now
      /\ snapshot'.cpu = sampled.cpu /\ snapshot'.cores = sampled.cores
      /\ snapshot'.rate = Rate(NetworkCounters) /\ snapshot'.degraded = degraded
      /\ truth'.work = begun /\ truth'.net = moved
  BY <1>1 DEF EndPoll, Remember
<1>3. told' = CASE snapshot.degraded = {} /\ degraded # {} -> "degraded"
                [] snapshot.degraded # {} /\ degraded = {} -> "restored"
                [] OTHER -> told
  BY DEF EndPoll, Tell
<1>4. Silent \in Moves /\ Silent.bytes + Silent.came = 0
  BY DEF Silent, Moves
<1>5. TelemetryTyped'
  <2>1. told' \in {"nothing", "degraded", "restored"}
    BY <1>1, <1>3 DEF TelemetryTyped
  <2>2. snapshot'.degraded \subseteq Sources
    BY <1>1, <1>2 DEF TelemetryTyped
  <2>3. sampled'.failed = {}
    BY <1>1 DEF NotSampled
  <2> HIDE DEF degraded
  <2> QED
    BY <1>1, <1>4, <2>1, <2>2, <2>3 DEF TelemetryTyped
<1>6. CpuKept' /\ CoresKept'
  BY <1>1, CoresStay
<1>7. NetKept'
  <2> DEFINE a == SumFunction(nics)
  <2>1. a \in Int
    BY <1>1, ReadsRight
  <2>2. NetworkCounters # Unavailable => NetworkCounters = a
    BY DEF NetworkCounters
  <2>3. SumFunction(nics') = a
    BY <1>1
  <2> HIDE DEF a
  <2>4. a - a = 0
    BY <2>1
  <2> QED
    BY <1>1, <1>2, <1>4, <2>1, <2>2, <2>3, <2>4 DEF NetKept
<1>8. TimeKept' /\ SampledRight'
  <2>1. sampled.now \in Int /\ clock - sampled.now = worked.time
    BY <1>1 DEF TimeKept
  <2> QED
    BY <1>1, <1>2, <2>1 DEF TimeKept, SampledRight
<1>9. snapshot'.rate # Unavailable =>
        /\ snapshot'.rate[2] = begun.time
        /\ snapshot'.rate[1] <= moved.bytes + moved.came
        /\ ~moved.left => snapshot'.rate[1] = moved.bytes + moved.came
  <2>1. SUFFICES ASSUME snapshot'.rate # Unavailable
                 PROVE  /\ snapshot'.rate[2] = begun.time
                        /\ snapshot'.rate[1] <= moved.bytes + moved.came
                        /\ ~moved.left => snapshot'.rate[1] = moved.bytes + moved.came
    OBVIOUS
  <2>2. /\ NetworkCounters # Unavailable /\ prevNet # Unavailable /\ prevTime # Unavailable
        /\ snapshot'.rate = Throughput(prevNet, NetworkCounters, sampled.now - prevTime)
    BY <1>2, <2>1 DEF Rate
  <2>3. snapshot'.rate = <<NetworkCounters - prevNet, sampled.now - prevTime>>
    BY <2>1, <2>2 DEF Throughput
  <2>4. NetworkCounters = SumFunction(nics)
    BY <2>2 DEF NetworkCounters
  <2>5. sampled.now - prevTime = begun.time
    BY <1>1, <2>2 DEF TimeKept
  <2>6. /\ SumFunction(nics) - prevNet <= moved.bytes + moved.came
        /\ ~moved.left => SumFunction(nics) - prevNet = moved.bytes + moved.came
    BY <1>1, <2>2 DEF NetKept
  <2>7. snapshot'.rate[2] = sampled.now - prevTime /\ snapshot'.rate[1] = SumFunction(nics) - prevNet
    BY <2>3, <2>4
  <2> QED
    BY <2>5, <2>6, <2>7
<1>10. snapshot'.degraded # {} <=> told' = "degraded"
  <2>1. snapshot.degraded # {} <=> told = "degraded"
    BY <1>1 DEF ShownIsMeasured
  <2> HIDE DEF degraded
  <2> QED
    BY <1>2, <1>3, <2>1
<1>11. ShownIsMeasured'
  <2>1. /\ sampled.cpu # Unavailable /\ ~begun.iowaitFell =>
             sampled.cpu = <<SumFunction(begun.busy), SumFunction(begun.all)>>
        /\ ~begun.iowaitFell => \A i \in DOMAIN sampled.cores :
             LET core == sampled.cores[i]
             IN \/ core.value = <<0, 1>>
                \/ core.value = <<begun.busy[core.name], begun.all[core.name]>>
    BY <1>1 DEF SampledRight
  <2> HIDE DEF degraded
  <2> QED
    BY <1>2, <1>9, <1>10, <2>1 DEF ShownIsMeasured
<1> QED
  BY <1>5, <1>6, <1>7, <1>8, <1>11 DEF TelemetryInv

(* It starts with nothing read.                                            *)
LEMMA TelemetryStarts == TelemetryInit => TelemetryInv
<1> SUFFICES ASSUME TelemetryInit PROVE TelemetryInv
  OBVIOUS
<1>1. /\ jiffies \in [CoreNames -> Counters]
      /\ \A c \in CoreNames : jiffies[c].idle < jiffies[c].total
      /\ nics = [i \in Interfaces |-> 1]
      /\ clock = 0 /\ online \subseteq CoreNames /\ unreadable \subseteq Sources /\ changes = 0
  BY DEF TelemetryInit, Counters
<1>2. /\ prevCpu = Unavailable /\ prevCores = <<>> /\ prevNet = Unavailable
      /\ prevTime = Unavailable /\ snapshot = NoSnapshot /\ told = "nothing"
      /\ tpc = "idle" /\ sampled = NotSampled /\ worked = AtRest /\ moved = Silent
  BY DEF TelemetryInit
<1>3. AtRest \in WorkDone /\ Silent \in Moves /\ sampled.failed = {}
  BY <1>2 DEF AtRest, Silent, WorkDone, Moves, NotSampled
<1>4. TelemetryTyped
  <2> DEFINE CoreLines == [name : CoreNames, idle : Nat, total : Nat]
  <2>1. prevCores \in Seq(CoreLines)
    <3> HIDE DEF CoreLines
    <3> QED
      BY <1>2
  <2>2. changes \in 0..MaxChanges
    BY <1>1, TelemetryAssumption
  <2>3. nics \in [DOMAIN nics -> Nat] /\ DOMAIN nics \subseteq Interfaces
    BY <1>1
  <2>4. snapshot.degraded = {}
    BY <1>2 DEF NoSnapshot
  <2> QED
    BY <1>1, <1>2, <1>3, <2>1, <2>2, <2>3, <2>4 DEF TelemetryTyped
<1>5. CpuKept /\ CoresKept /\ NetKept /\ TimeKept /\ SampledRight
  BY <1>2 DEF CpuKept, CoresKept, NetKept, TimeKept, SampledRight
<1>6. ShownIsMeasured
  <2>1. /\ snapshot.cpu = Unavailable /\ snapshot.cores = <<>> /\ snapshot.rate = Unavailable
        /\ snapshot.degraded = {} /\ told # "degraded"
    BY <1>2 DEF NoSnapshot
  <2> QED
    BY <2>1 DEF ShownIsMeasured
<1> QED
  BY <1>4, <1>5, <1>6 DEF TelemetryInv

(* Nothing that can happen, and no poll, breaks the invariant.             *)
LEMMA TelemetrySteps == TelemetryInv /\ [TelemetryNext]_telemetryVars => TelemetryInv'
<1> SUFFICES ASSUME TelemetryInv, [TelemetryNext]_telemetryVars PROVE TelemetryInv'
  OBVIOUS
<1>0. /\ TelemetryTyped /\ CpuKept /\ CoresKept /\ NetKept /\ TimeKept
      /\ SampledRight /\ ShownIsMeasured
  BY DEF TelemetryInv
<1>1. ASSUME UNCHANGED <<jiffies, nics, prevCpu, prevCores, prevNet, snapshot, told, truth>>,
             UNCHANGED <<tpc, sampled, begun, moved>>, TimeKept',
             worked'.all = worked.all, worked'.busy = worked.busy,
             worked'.iowaitFell = worked.iowaitFell, TelemetryTyped'
      PROVE  TelemetryInv'
  BY <1>0, <1>1, CoresStay, NetStays, SampledStays, ShownStays DEF TelemetryInv
<1>2. ASSUME Happens
      PROVE  /\ UNCHANGED <<prevCpu, prevCores, prevNet, prevTime, snapshot, told, truth>>
             /\ UNCHANGED <<tpc, sampled, begun>> /\ changes' \in 0..MaxChanges
  BY <1>0, <1>2, TelemetryAssumption DEF Happens, samplerVars, TelemetryTyped
<1>3. CASE \E c \in CoreNames : Works(c) \/ IowaitFalls(c)
  BY <1>3, WorksKeeps, IowaitKeeps
<1>4. CASE \E c \in CoreNames : Hotplug(c)
  <2>1. PICK c \in CoreNames : Hotplug(c)
    BY <1>4
  <2>2. /\ Happens /\ online' = (online \ {c}) \cup ({c} \ online)
        /\ UNCHANGED <<clock, jiffies, nics, unreadable, worked, moved>>
    BY <2>1 DEF Hotplug
  <2>3. TelemetryTyped'
    BY <1>0, <1>2, <2>2 DEF TelemetryTyped
  <2>4. TimeKept'
    BY <1>0, <1>2, <2>2, TimeStays
  <2> QED
    BY <1>1, <1>2, <2>2, <2>3, <2>4
<1>5. CASE \E i \in Interfaces : Traffic(i) \/ Leaves(i) \/ Arrives(i)
  BY <1>5, TrafficKeeps, LeavesKeeps, ArrivesKeeps
<1>6. CASE \E s \in Sources : SourceFails(s)
  <2>1. PICK s \in Sources : SourceFails(s)
    BY <1>6
  <2>2. /\ Happens /\ unreadable' = (unreadable \ {s}) \cup ({s} \ unreadable)
        /\ UNCHANGED <<clock, jiffies, online, nics, worked, moved>>
    BY <2>1 DEF SourceFails
  <2>3. TelemetryTyped'
    BY <1>0, <1>2, <2>2 DEF TelemetryTyped
  <2>4. TimeKept'
    BY <1>0, <1>2, <2>2, TimeStays
  <2> QED
    BY <1>1, <1>2, <2>2, <2>3, <2>4
<1>7. CASE Passes
  <2>1. /\ Happens /\ clock' = clock + 1 /\ worked' = [worked EXCEPT !.time = @ + 1]
        /\ UNCHANGED <<jiffies, online, nics, unreadable, moved>>
    BY <1>7 DEF Passes
  <2>2. worked \in WorkDone /\ worked.time \in Nat /\ clock \in Nat
    BY <1>0 DEF TelemetryTyped, WorkDone
  <2>3. /\ worked' \in WorkDone /\ worked'.time = worked.time + 1
        /\ worked'.iowaitFell = worked.iowaitFell
        /\ worked'.busy = worked.busy /\ worked'.all = worked.all
    BY <2>1, <2>2 DEF WorkDone
  <2>4. TelemetryTyped'
    BY <1>0, <1>2, <2>1, <2>2, <2>3 DEF TelemetryTyped
  <2>5. ASSUME NEW t \in Int, clock - t = worked.time PROVE clock' - t = worked'.time
    BY <2>1, <2>2, <2>3, <2>5
  <2>6. TimeKept'
    BY <1>0, <1>2, <2>1, <2>5 DEF TimeKept
  <2> QED
    BY <1>1, <1>2, <2>1, <2>3, <2>4, <2>6
<1>8. CASE BeginPoll \/ EndPoll
  BY <1>8, BeginKeeps, EndKeeps
<1>9. CASE UNCHANGED telemetryVars
  <2>1. UNCHANGED <<clock, jiffies, online, nics, unreadable, changes>>
        /\ UNCHANGED <<prevCpu, prevCores, prevNet, prevTime, snapshot, told>>
        /\ UNCHANGED <<tpc, sampled, worked, moved, begun, truth>>
    BY <1>9 DEF telemetryVars, machineVars, samplerVars
  <2>2. TelemetryTyped'
    BY <1>0, <2>1 DEF TelemetryTyped
  <2>3. TimeKept'
    BY <1>0, <2>1, TimeStays
  <2> QED
    BY <1>1, <2>1, <2>2, <2>3
<1> QED
  BY <1>3, <1>4, <1>5, <1>6, <1>7, <1>8, <1>9 DEF TelemetryNext

(* The invariant of what is shown of the machine.                          *)
LEMMA TelemetryInvariance == TelemetrySpec => []TelemetryInv
BY TelemetryStarts, TelemetrySteps, PTL DEF TelemetrySpec

(* Whatever the cores and interfaces do, whichever sources fail and        *)
(* however long a reading is held up, a load that is shown is what the     *)
(* cores did between the last two readings of them, and a rate is of the   *)
(* bytes between the last two readings of the network over the seconds     *)
(* between the beginnings of the two polls.                                *)
THEOREM MeasuredTheorem == TelemetrySpec => []ShownIsMeasured
<1>1. TelemetryInv => ShownIsMeasured
  BY DEF TelemetryInv
<1> QED
  BY <1>1, TelemetryInvariance, PTL

-----------------------------------------------------------------------------

(* The parts of the HUD, together.                                         *)

(* A behaviour of the HUD is one of each of its parts.                     *)
LEMMA PartsBehave ==
  HudLinksSpec => LinkSpec /\ VoiceSpec /\ AttentionSpec /\ TelemetrySpec
<1>1. HudLinksInit => LinkInit /\ VoiceInit /\ AttentionInit /\ TelemetryInit
  BY DEF HudLinksInit
<1>2. [HudLinksNext]_<<part, linkVars, voiceVars, attentionVars, telemetryVars>> =>
        /\ [LinkNext]_linkVars /\ [VoiceNext]_voiceVars
        /\ [AttentionNext]_attentionVars /\ [TelemetryNext]_telemetryVars
  BY DEF HudLinksNext
<1> QED
  BY <1>1, <1>2, PTL DEF HudLinksSpec, LinkSpec, VoiceSpec, AttentionSpec, TelemetrySpec

(* Whichever part of the HUD moves, every part's variables are of their    *)
(* types, and what is proved of each part is so of the whole.              *)
THEOREM HudLinksTheorem ==
  HudLinksSpec => [](/\ HudLinksTypeOK /\ LinkIsHeld /\ NothingLeftBehind
                     /\ CentreIsRight /\ ShownIsMeasured)
<1>1. KInv /\ VInv /\ AttentionInv /\ TelemetryInv => HudLinksTypeOK
  <2>1. TelemetryInv => TelemetryTypeOK
    BY DEF TelemetryInv, TelemetryTyped, TelemetryTypeOK, Counters
  <2> QED
    BY <2>1 DEF HudLinksTypeOK, KInv, VInv, AttentionInv
<1> QED
  BY <1>1, PartsBehave, LinkInvariance, VoiceInvariance, AttentionInvariance,
     TelemetryInvariance, LinkTheorem, VoiceTheorem, CentreTheorem, MeasuredTheorem,
     PTL
=============================================================================
