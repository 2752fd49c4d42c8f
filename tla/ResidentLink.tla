---------------------------- MODULE ResidentLink ----------------------------
(***************************************************************************)
(* The HUD's choice between two ways to the kernel: the resident doorway   *)
(* (bridge/resident_client.py, bridge/resident.py, and cli/serve.py at the *)
(* other end) and a kernel of its own (bridge/client.py), and the          *)
(* controller that connects, falls back and disconnects.  Both clients     *)
(* signal the same slots, whichever is current.  An action is one slot     *)
(* with the signals it emits on the way, which Qt delivers at once.        *)
(*                                                                         *)
(* A health probe is not in the client's list of replies, so nothing       *)
(* cancels it.                                                             *)
(***************************************************************************)
EXTENDS Naturals, FiniteSets

CONSTANTS
  Tokens,     \* what the token file may hold
  NoToken,
  MaxProbes,  \* health probes unanswered: bounds a behaviour
  MaxCalls    \* tool calls unanswered, likewise

ASSUME LinkAssumption ==
  NoToken \notin Tokens /\ MaxProbes \in Nat \ {0} /\ MaxCalls \in Nat

VARIABLES
  \* around the HUD
  file,       \* the token file
  door,       \* the token the doorway accepts, none while it is down
  installed,  \* the jarvis executable is found
  \* the controller
  transport, attempt,
  \* the resident client
  rready, token,
  probes,     \* of the connection being made
  strays,     \* of one that was stopped or given up for the kernel
  calls,      \* in flight: the number sent with each token
  late,       \* a stray made it ready when nothing was being connected
  \* the kernel client
  kproc

doorVars == <<file, door, installed>>
linkVars == <<file, door, installed, transport, attempt, rready, token, probes,
              strays, calls, late, kproc>>

NoCalls == [t \in Tokens \cup {NoToken} |-> 0]

LinkInit ==
  /\ file = NoToken /\ door = NoToken /\ installed \in BOOLEAN
  /\ transport = "kernel" /\ attempt = FALSE
  /\ rready = FALSE /\ token = NoToken /\ probes = 0 /\ strays = 0
  /\ calls = NoCalls /\ late = FALSE /\ kproc = "none"

Ready == IF transport = "resident" THEN rready ELSE kproc = "up"

-----------------------------------------------------------------------------
(* The doorway and its token.                                              *)

(* ensure_token keeps a token that is there; the server holds it.          *)
DoorOpens ==
  /\ door = NoToken
  /\ \E t \in Tokens : (file # NoToken => t = file) /\ file' = t /\ door' = t
  /\ UNCHANGED <<installed, transport, attempt, rready, token, probes, strays, calls, late, kproc>>

DoorCloses ==
  /\ door # NoToken /\ door' = NoToken
  /\ UNCHANGED <<file, installed, transport, attempt, rready, token, probes, strays, calls, late, kproc>>

(* serve uninstall, or the owner by hand.                                  *)
TokenRemoved ==
  /\ file # NoToken /\ file' = NoToken
  /\ UNCHANGED <<door, installed, transport, attempt, rready, token, probes, strays, calls, late, kproc>>

-----------------------------------------------------------------------------
(* Connecting.                                                             *)

(* KernelClient.start, whose return value only shows in the HUD's state:   *)
(* a process that is there already is left to what it was doing.           *)
Spawn ==
  kproc' \in IF kproc = "none" /\ installed THEN {"starting", "none"} ELSE {kproc}

(* _on_kernel_disconnected, whoever it was that disconnected: one fallback *)
(* for a resident attempt.  p and s are the probes left unanswered.        *)
Disconnected(p, s) ==
  IF attempt /\ kproc # "up" /\ installed
    THEN /\ attempt' = FALSE /\ transport' = "kernel" /\ Spawn
         /\ probes' = 0 /\ strays' = s + p
    ELSE /\ attempt' = (attempt /\ kproc = "up") /\ probes' = p /\ strays' = s
         /\ UNCHANGED <<transport, kproc>>

ConnectResident ==
  /\ ~Ready /\ file # NoToken
  /\ transport' = "resident" /\ attempt' = TRUE
  /\ IF rready  \* as the other transport: start returns False
       THEN UNCHANGED <<token, probes>>
       ELSE probes + strays < MaxProbes /\ token' = file /\ probes' = probes + 1
  /\ UNCHANGED <<doorVars, rready, strays, calls, late, kproc>>

(* The token is gone between available and start.                          *)
TokenVanishes ==
  /\ ~Ready /\ file # NoToken /\ ~rready
  /\ file' = NoToken
  /\ IF kproc # "up" /\ installed
       THEN /\ attempt' = FALSE /\ transport' = "kernel" /\ Spawn
            /\ probes' = 0 /\ strays' = strays + probes
       ELSE /\ attempt' = (kproc = "up") /\ transport' = "resident"
            /\ UNCHANGED <<kproc, probes, strays>>
  /\ UNCHANGED <<door, installed, rready, token, calls, late>>

ConnectKernel ==
  /\ ~Ready /\ file = NoToken
  /\ transport' = "kernel" /\ attempt' = FALSE /\ Spawn
  /\ probes' = 0 /\ strays' = strays + probes
  /\ UNCHANGED <<doorVars, rready, token, calls, late>>

KernelUp ==
  /\ kproc = "starting" /\ kproc' = "up" /\ attempt' = FALSE
  /\ UNCHANGED <<doorVars, transport, rready, token, probes, strays, calls, late>>

(* It does not shake hands, or exits, or is stopped: not ready any more,   *)
(* when that is signalled, and gone.                                       *)
KernelLost ==
  /\ IF attempt /\ installed
       THEN /\ transport' = "kernel" /\ kproc' \in {"starting", "none"}
            /\ probes' = 0 /\ strays' = strays + probes
       ELSE kproc' = "none" /\ UNCHANGED <<transport, probes, strays>>
  /\ attempt' = FALSE
  /\ UNCHANGED <<doorVars, rready, token, calls, late>>

KernelGone == kproc # "none" /\ KernelLost

-----------------------------------------------------------------------------
(* Health.  Any answer but an error counts, and the token is not asked     *)
(* for.                                                                    *)

Healthy ==
  /\ door # NoToken
  /\ \/ probes > 0 /\ probes' = probes - 1 /\ UNCHANGED <<strays, late>>
     \/ /\ strays > 0 /\ strays' = strays - 1 /\ UNCHANGED probes
        /\ late' = (late \/ token = NoToken \/ transport = "kernel")
  /\ rready' = TRUE /\ attempt' = FALSE
  /\ UNCHANGED <<doorVars, transport, token, calls, kproc>>

(* Refused, timed out, or no 200.                                          *)
Unhealthy ==
  /\ \/ probes > 0 /\ Disconnected(probes - 1, strays)
     \/ strays > 0 /\ Disconnected(probes, strays - 1)
  /\ UNCHANGED <<doorVars, rready, token, calls, late>>

-----------------------------------------------------------------------------
(* Calls and disconnecting.                                                *)

Call ==
  /\ transport = "resident" /\ rready
  /\ \A t \in DOMAIN calls : calls[t] < MaxCalls
  /\ calls' = [calls EXCEPT ![token] = @ + 1]
  /\ UNCHANGED <<doorVars, transport, attempt, rready, token, probes, strays, late, kproc>>

(* An outcome, an error, or nothing at all: a transfer that times out      *)
(* looks like one that was aborted.                                        *)
Reply(t) ==
  /\ calls[t] > 0 /\ calls' = [calls EXCEPT ![t] = @ - 1]
  /\ UNCHANGED <<doorVars, transport, attempt, rready, token, probes, strays, late, kproc>>

(* Mutant: stop leaves the client ready.                                   *)
Mut_StopResident ==
  /\ token' = NoToken /\ calls' = NoCalls /\ late' = FALSE
  /\ IF rready THEN Disconnected(0, strays + probes)
     ELSE probes' = 0 /\ strays' = strays + probes /\ UNCHANGED <<transport, attempt, kproc>>
  /\ UNCHANGED <<doorVars, rready>>

(* ResidentClient.stop aborts the calls, and not the probes; one that was  *)
(* not ready says nothing.                                                 *)
StopResident ==
  /\ rready' = FALSE /\ token' = NoToken /\ calls' = NoCalls /\ late' = FALSE
  /\ IF rready THEN Disconnected(0, strays + probes)
     ELSE probes' = 0 /\ strays' = strays + probes /\ UNCHANGED <<transport, attempt, kproc>>
  /\ UNCHANGED doorVars

(* 401.  The disconnected that follows the one of stop finds the attempt   *)
(* used up.                                                                *)
Rejected(t) ==
  calls[t] > 0 /\ door # NoToken /\ t # door /\ StopResident

(* Only the current client is stopped.                                     *)
DisconnectResident == transport = "resident" /\ StopResident
DisconnectKernel == transport = "kernel" /\ KernelGone

LinkNext ==
  \/ DoorOpens \/ DoorCloses \/ TokenRemoved
  \/ ConnectResident \/ TokenVanishes \/ ConnectKernel \/ KernelUp \/ KernelGone
  \/ Healthy \/ Unhealthy
  \/ Call \/ \E t \in DOMAIN calls : Reply(t) \/ Rejected(t)
  \/ DisconnectResident \/ DisconnectKernel

LinkSpec == LinkInit /\ [][LinkNext]_linkVars

-----------------------------------------------------------------------------
LinkTypeOK ==
  /\ file \in Tokens \cup {NoToken} /\ door \in Tokens \cup {NoToken}
  /\ token \in Tokens \cup {NoToken}
  /\ installed \in BOOLEAN /\ attempt \in BOOLEAN /\ rready \in BOOLEAN /\ late \in BOOLEAN
  /\ transport \in {"resident", "kernel"} /\ kproc \in {"none", "starting", "up"}
  /\ probes \in 0..MaxProbes /\ strays \in 0..MaxProbes
  /\ calls \in [Tokens \cup {NoToken} -> 0..MaxCalls]

(* The resident link is up only as the HUD's current transport and with a  *)
(* token to send, so no call goes out without one and no disconnect misses *)
(* it; unless the probe of a connection that had been stopped, or given up *)
(* for the kernel, was answered after all (resident_client.py:189).        *)
LinkIsHeld ==
  ~late => (rready => token # NoToken /\ transport = "resident") /\ calls[NoToken] = 0
=============================================================================
