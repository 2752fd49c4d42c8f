----------------------------- MODULE HudConsent -----------------------------
(***************************************************************************)
(* The HUD's side of consent: the controller (src/javris/controller.py),   *)
(* the client that owns the `jarvis mcp serve` process                     *)
(* (bridge/client.py), the two gates (bridge/consent.py) and the plan a    *)
(* preview is parsed into (bridge/plan.py), with the server at the other   *)
(* end of the pipes.                                                       *)
(*                                                                         *)
(* The HUD runs on one event loop, so an action here is a whole slot: what *)
(* is held between two of them (the staged request, the last request, the  *)
(* last plan) can be overtaken by any other event.  The server answers     *)
(* strictly in order, but the HUD can abandon a call that the server has   *)
(* yet to make.                                                            *)
(***************************************************************************)
EXTENDS Naturals, Sequences, FiniteSets

CONSTANTS
  Requests,   \* request texts
  NoRequest,  \* the empty text
  Profile,    \* what the kernel makes of a request
  MaxCalls    \* the calls the HUD sends: bounds a behaviour

ASSUME HudAssumption ==
  /\ NoRequest \notin Requests
  /\ Profile \in [Requests -> [tier : 0..3, undoable : BOOLEAN]]
  /\ MaxCalls \in Nat

HudStates == {"BOOTING", "STANDBY", "LISTENING", "PROCESSING", "EXECUTING",
              "SPEAKING", "ERROR", "OFFLINE"}
Policies == {"IRREVERSIBLE", "ALWAYS", "KERNEL_ONLY"}
Tags == {"do", "preview", "preview-before-do"}
Texts == Requests \cup {NoRequest}
NoPrompt == [gate |-> "none", req |-> NoRequest, about |-> NoRequest]

VARIABLES
  \* the controller
  hud,          \* the state the HUD shows
  policy,       \* how much friction the owner wants
  confirm,      \* the question in front of the owner; `about` is the request
                \* the plan or the refusal behind it was really about
  staged,       \* the request whose preview is awaited
  lastDo, lastPreview,
  lastPlan,     \* the request the held plan really describes, none if empty
  lastPlanReq,  \* the request the controller takes it to describe
  \* the client
  proc, ready, timer,
  sent,         \* the ids taken so far
  pending,      \* the calls awaited
  \* the pipes
  inbox, outbox,
  \* what has happened, per request
  asked,        \* `do` lines dispatched
  acked,        \* reversibility prompts approved
  waived,       \* sent without a prompt: KERNEL_ONLY, or no plan to judge
  consents,     \* kernel prompts approved
  executed,     \* played by the kernel
  hasty         \* a line was dispatched before the previous one was settled

holdVars == <<staged, lastDo, lastPreview, lastPlan, lastPlanReq>>
procVars == <<proc, ready, timer>>
wireVars == <<sent, pending, inbox>>
pastVars == <<asked, acked, waived, consents, executed, hasty>>
vars == <<hud, policy, confirm, staged, lastDo, lastPreview, lastPlan,
          lastPlanReq, proc, ready, timer, sent, pending, inbox, outbox,
          asked, acked, waived, consents, executed, hasty>>

Init ==
  /\ hud = "BOOTING" /\ policy = "IRREVERSIBLE" /\ confirm = NoPrompt
  /\ staged = NoRequest /\ lastDo = NoRequest /\ lastPreview = NoRequest
  /\ lastPlan = NoRequest /\ lastPlanReq = NoRequest
  /\ proc = "none" /\ ready = FALSE /\ timer = FALSE
  /\ sent = 0 /\ pending = {} /\ inbox = <<>> /\ outbox = <<>>
  /\ LET zero == [r \in Requests |-> 0]
     IN  /\ asked = zero /\ acked = zero /\ waived = zero
         /\ consents = zero /\ executed = zero
  /\ hasty = FALSE

-----------------------------------------------------------------------------
(* The assistant's state machine.                                          *)

Targets(h) ==
  CASE h = "BOOTING" -> {"STANDBY"}
    [] h = "STANDBY" -> {"LISTENING", "PROCESSING"}
    [] h = "LISTENING" -> {"PROCESSING", "STANDBY"}
    [] h = "PROCESSING" -> {"EXECUTING", "SPEAKING"}
    [] h = "EXECUTING" -> {"SPEAKING", "STANDBY"}
    [] h = "SPEAKING" -> {"STANDBY", "LISTENING"}
    [] h = "ERROR" -> {"STANDBY", "BOOTING"}
    [] h = "OFFLINE" -> {"BOOTING"}

CanTransition(h, target) == target \in {h, "ERROR", "OFFLINE"} \cup Targets(h)

(* A move the table does not allow is skipped without a word.              *)
Quietly(h, target) == IF CanTransition(h, target) THEN target ELSE h

-----------------------------------------------------------------------------
(* Calls.                                                                  *)

Count(f, r) == IF r = NoRequest THEN f ELSE [f EXCEPT ![r] = @ + 1]

(* Bound: a preview before a `do` keeps an id for that `do`.               *)
Room(n) ==
  sent + Cardinality({c \in pending : c.tag = "preview-before-do"}) + n <= MaxCalls

(* Mutant: the id is taken to be the next one.                             *)
Mut_Send(tag, r, allow, others) ==
  IF ready
    THEN /\ sent' = sent + 1
         /\ pending' = others \cup {[id |-> sent + 2, tag |-> tag]}
         /\ inbox' = Append(inbox, [id |-> sent + 1, tag |-> tag, req |-> r,
                                    allow |-> allow])
    ELSE pending' = others /\ UNCHANGED <<sent, inbox>>

(* A call goes out only while the handshake stands; `others` are the calls *)
(* awaited besides.                                                        *)
Send(tag, r, allow, others) ==
  IF ready
    THEN /\ sent' = sent + 1
         /\ pending' = others \cup {[id |-> sent + 1, tag |-> tag]}
         /\ inbox' = Append(inbox, [id |-> sent + 1, tag |-> tag, req |-> r,
                                    allow |-> allow])
    ELSE pending' = others /\ UNCHANGED <<sent, inbox>>

-----------------------------------------------------------------------------
(* The connection.                                                         *)

FinishBoot ==
  /\ hud = "BOOTING"
  /\ hud' = "STANDBY"
  /\ UNCHANGED <<policy, confirm, holdVars, procVars, wireVars, outbox, pastVars>>

(* Mutant: losing the agent leaves the prompt open.                        *)
Mut_Disconnected(h) ==
  /\ hud' = Quietly(h, "STANDBY")
  /\ UNCHANGED <<confirm, staged>>

(* Losing the agent closes the prompt, and drops what was staged with it.  *)
Disconnected(h) ==
  /\ hud' = Quietly(h, "STANDBY")
  /\ confirm' = NoPrompt
  /\ staged' = IF confirm = NoPrompt THEN staged ELSE NoRequest

(* The process is there already, cannot be found, does not start, or does. *)
Connect ==
  /\ ~ready
  /\ LET h == Quietly(hud, "PROCESSING")
     IN  \/ /\ proc # "none"
            /\ hud' = Quietly(h, "OFFLINE")
            /\ UNCHANGED <<confirm, staged, procVars>>
         \/ /\ proc = "none"
            /\ hud' = "OFFLINE"
            /\ confirm' = NoPrompt
            /\ staged' = IF confirm = NoPrompt THEN staged ELSE NoRequest
            /\ UNCHANGED procVars
         \/ /\ proc = "none"
            /\ hud' = h
            /\ proc' = "starting" /\ timer' = TRUE
            /\ UNCHANGED <<confirm, staged, ready>>
  /\ UNCHANGED <<policy, lastDo, lastPreview, lastPlan, lastPlanReq, wireVars,
                 outbox, pastVars>>

HandshakeDone ==
  /\ proc = "starting"
  /\ proc' = "up" /\ ready' = TRUE /\ timer' = FALSE
  /\ hud' = Quietly(hud, "STANDBY")
  /\ UNCHANGED <<policy, confirm, holdVars, wireVars, outbox, pastVars>>

(* KernelClient.stop: the process goes with all that is in the pipes.      *)
Stop ==
  /\ proc' = "none" /\ ready' = FALSE /\ timer' = FALSE
  /\ pending' = {} /\ inbox' = <<>> /\ outbox' = <<>>
  /\ UNCHANGED sent

(* The answer is malformed or late.  The timer also outlives a process     *)
(* that exits during the handshake.                                        *)
HandshakeFails ==
  /\ proc = "starting" \/ timer
  /\ Stop
  /\ Disconnected(hud)
  /\ UNCHANGED <<policy, lastDo, lastPreview, lastPlan, lastPlanReq, pastVars>>

Disconnect ==
  /\ Stop
  /\ IF proc = "none" THEN UNCHANGED <<hud, confirm, staged>> ELSE Disconnected(hud)
  /\ UNCHANGED <<policy, lastDo, lastPreview, lastPlan, lastPlanReq, pastVars>>

(* An error of the pipes; the process is kept and its answers still come.  *)
ProcessError ==
  /\ proc # "none"
  /\ ready' = FALSE
  /\ Disconnected(hud)
  /\ UNCHANGED <<policy, lastDo, lastPreview, lastPlan, lastPlanReq, proc,
                 timer, wireVars, outbox, pastVars>>

ProcessExits ==
  /\ proc # "none"
  /\ proc' = "none" /\ ready' = FALSE
  /\ pending' = {} /\ inbox' = <<>> /\ outbox' = <<>>
  /\ Disconnected(hud)
  /\ UNCHANGED <<policy, lastDo, lastPreview, lastPlan, lastPlanReq, timer,
                 sent, pastVars>>

-----------------------------------------------------------------------------
(* The owner's lines.                                                      *)

SetPolicy(name) ==
  /\ policy' = name
  /\ UNCHANGED <<hud, confirm, holdVars, procVars, wireVars, outbox, pastVars>>

Settled == pending = {} /\ confirm = NoPrompt

(* do r: previewed first, unless the owner wants only the kernel's gate.   *)
Do(r) ==
  /\ ready
  /\ Room(2)
  /\ hud' = Quietly(hud, "PROCESSING")
  /\ asked' = Count(asked, r)
  /\ hasty' = (hasty \/ ~Settled)
  /\ IF policy = "KERNEL_ONLY"
       THEN /\ lastDo' = r
            /\ waived' = Count(waived, r)
            /\ Send("do", r, FALSE, pending)
            /\ UNCHANGED staged
       ELSE /\ staged' = r
            /\ Send("preview-before-do", r, FALSE, pending)
            /\ UNCHANGED <<lastDo, waived>>
  /\ UNCHANGED <<policy, confirm, lastPreview, lastPlan, lastPlanReq, procVars,
                 outbox, acked, consents, executed>>

(* plan r.                                                                 *)
Preview(r) ==
  /\ ready
  /\ Room(3)
  /\ hud' = Quietly(hud, "PROCESSING")
  /\ hasty' = (hasty \/ ~Settled)
  /\ lastPreview' = r
  /\ Send("preview", r, FALSE, pending)
  /\ UNCHANGED <<policy, confirm, staged, lastDo, lastPlan, lastPlanReq,
                 procVars, outbox, asked, acked, waived, consents, executed>>

(* Mutant: acknowledging that something cannot be undone also grants the   *)
(* kernel its consent.                                                     *)
Mut_Grants(gate) == gate # "none"

(* Only the kernel's own question gives the kernel authority.              *)
Grants(gate) == gate = "KERNEL_CONSENT"

Approve ==
  /\ confirm # NoPrompt
  /\ Room(1)
  /\ LET r == confirm.req
         h == Quietly(hud, "EXECUTING")
         isKernel == confirm.gate = "KERNEL_CONSENT"
     IN  /\ Send("do", r, Grants(confirm.gate), pending)
         /\ hud' = IF ready THEN Quietly(h, "PROCESSING") ELSE "ERROR"
         /\ lastDo' = IF isKernel THEN lastDo ELSE r
         /\ consents' = IF isKernel THEN Count(consents, r) ELSE consents
         /\ acked' = IF isKernel THEN acked ELSE Count(acked, r)
  /\ confirm' = NoPrompt
  /\ UNCHANGED <<policy, staged, lastPreview, lastPlan, lastPlanReq, procVars,
                 outbox, asked, waived, executed, hasty>>

Decline ==
  /\ confirm # NoPrompt
  /\ confirm' = NoPrompt
  /\ staged' = NoRequest
  /\ hud' = Quietly(hud, "STANDBY")
  /\ UNCHANGED <<policy, lastDo, lastPreview, lastPlan, lastPlanReq, procVars,
                 wireVars, outbox, pastVars>>

-----------------------------------------------------------------------------
(* Answers.  An answer of kind "lost" is one that did not come in time.    *)

(* Mutant: only ALWAYS asks before a change.                               *)
Mut_NeedsConfirmation(r) == r # NoRequest /\ policy = "ALWAYS"

(* needs_reversibility_confirmation of the plan of request r.              *)
NeedsConfirmation(r) ==
  /\ r # NoRequest
  /\ \/ policy = "ALWAYS"
     \/ policy = "IRREVERSIBLE" /\ ~Profile[r].undoable

(* parse_plan: an answer without steps leaves nothing to show or to judge. *)
PlanOf(kind, r) == IF kind = "ok" THEN r ELSE NoRequest

Finished(h, kind) ==
  IF kind = "ok" THEN Quietly(Quietly(h, "SPEAKING"), "STANDBY")
  ELSE IF kind \in {"failed", "lost"} THEN "ERROR"
  ELSE Quietly(h, "STANDBY")

(* An unmatched preview is an error of the tool, not a refusal.            *)
PreviewCompleted(call, kind, r) ==
  /\ lastPlan' = PlanOf(kind, r)
  /\ lastPlanReq' = lastPreview
  /\ hud' = Finished(hud, IF kind = "ok" THEN "ok" ELSE "failed")
  /\ pending' = pending \ {call}
  /\ UNCHANGED <<confirm, staged, lastDo, lastPreview, sent, inbox, waived>>

(* _resolve_staged_request.                                                *)
ResolveStaged(call, kind, r) ==
  LET req  == staged
      plan == PlanOf(kind, r)
      sends == kind \notin {"unmatched", "lost"} /\ ~NeedsConfirmation(plan)
  IN  /\ lastPlan' = plan
      /\ lastPlanReq' = req
      /\ staged' = NoRequest
      /\ confirm' = IF NeedsConfirmation(plan)
                      THEN [gate |-> "REVERSIBILITY", req |-> req, about |-> plan]
                      ELSE confirm
      /\ IF sends
           THEN /\ lastDo' = req
                /\ hud' = Quietly(hud, "EXECUTING")
                /\ waived' = IF policy = "KERNEL_ONLY" \/ kind = "failed"
                               THEN Count(waived, req) ELSE waived
                /\ Send("do", req, FALSE, pending \ {call})
           ELSE /\ hud' = IF kind = "lost" THEN "ERROR" ELSE Quietly(hud, "STANDBY")
                /\ pending' = pending \ {call}
                /\ UNCHANGED <<lastDo, sent, inbox, waived>>
      /\ UNCHANGED lastPreview

(* A refusal of a tier the owner may allow puts the kernel's question, for *)
(* the last request that was sent.                                         *)
DoCompleted(call, kind, r) ==
  /\ confirm' = IF kind = "refused" /\ Profile[r].tier < 3
                  THEN [gate |-> "KERNEL_CONSENT", req |-> lastDo, about |-> r]
                  ELSE confirm
  /\ hud' = Finished(hud, kind)
  /\ pending' = pending \ {call}
  /\ UNCHANGED <<holdVars, sent, inbox, waived>>

Completed(call, kind, r) ==
  CASE call.tag = "preview" -> PreviewCompleted(call, kind, r)
    [] call.tag = "preview-before-do" -> ResolveStaged(call, kind, r)
    [] call.tag = "do" -> DoCompleted(call, kind, r)

(* A line on stdout; the answer of an abandoned call is not looked at.     *)
Reply ==
  /\ outbox # <<>>
  /\ LET m == Head(outbox)
         calls == {c \in pending : c.id = m.id}
     IN  IF calls = {}
           THEN UNCHANGED <<hud, confirm, holdVars, wireVars, waived>>
           ELSE \E c \in calls : Completed(c, m.kind, m.req)
  /\ outbox' = Tail(outbox)
  /\ UNCHANGED <<policy, procVars, asked, acked, consents, executed, hasty>>

(* Mutant: a `do` that was not answered in time is sent again.             *)
Mut_Abandon(call) ==
  IF call.tag = "do" /\ Room(1) /\ lastDo # NoRequest
    THEN /\ Send("do", lastDo, FALSE, pending \ {call})
         /\ UNCHANGED <<hud, confirm, holdVars, waived>>
    ELSE Completed(call, "lost", NoRequest)

Abandon(call) == Completed(call, "lost", NoRequest)

(* REQUEST_TIMEOUT_MS after the call was sent.                             *)
Expire ==
  /\ \E c \in pending : Abandon(c)
  /\ UNCHANGED <<policy, procVars, outbox, asked, acked, consents, executed, hasty>>

-----------------------------------------------------------------------------
(* The server: one frame after the other.                                  *)

KernelSays(kind) ==
  LET m == Head(inbox)
  IN  /\ inbox' = Tail(inbox)
      /\ outbox' = Append(outbox, [id |-> m.id, kind |-> kind, req |-> m.req])
      /\ UNCHANGED <<hud, policy, confirm, holdVars, procVars, sent, pending,
                     asked, acked, waived, consents, hasty>>

Plays(m) ==
  /\ m.tag = "do" /\ m.req # NoRequest
  /\ \/ Profile[m.req].tier <= 1
     \/ Profile[m.req].tier = 2 /\ m.allow

KernelPlays ==
  /\ inbox # <<>>
  /\ Plays(Head(inbox))
  /\ executed' = Count(executed, Head(inbox).req)
  /\ \E kind \in {"ok", "failed"} : KernelSays(kind)

(* A preview; or a `do` that is refused, for want of consent or by the     *)
(* playbook itself.  A text matches a playbook or not as skills come and   *)
(* go; an exception, or the empty text, fails a tool call.                 *)
KernelAnswers ==
  /\ inbox # <<>>
  /\ LET m == Head(inbox)
         answers == IF m.req = NoRequest THEN {}
                    ELSE {"unmatched", IF m.tag = "do" THEN "refused" ELSE "ok"}
     IN  \E kind \in answers \cup {"failed"} : KernelSays(kind)
  /\ UNCHANGED executed

Next ==
  \/ FinishBoot \/ Connect \/ HandshakeDone \/ HandshakeFails
  \/ Disconnect \/ ProcessError \/ ProcessExits
  \/ (\E name \in Policies : SetPolicy(name))
  \/ (\E r \in Requests : Do(r) \/ Preview(r))
  \/ Approve \/ Decline \/ Reply \/ Expire \/ KernelPlays \/ KernelAnswers

Spec == Init /\ [][Next]_vars

-----------------------------------------------------------------------------
(* Properties.                                                             *)

Counts == [Requests -> 0..MaxCalls]
Kinds == {"ok", "unmatched", "refused", "failed"}

TypeOK ==
  /\ hud \in HudStates /\ policy \in Policies
  /\ confirm \in [gate : {"none", "KERNEL_CONSENT", "REVERSIBILITY"},
                  req : Texts, about : Texts]
  /\ {staged, lastDo, lastPreview, lastPlan, lastPlanReq} \subseteq Texts
  /\ proc \in {"none", "starting", "up"}
  /\ ready \in BOOLEAN /\ timer \in BOOLEAN /\ hasty \in BOOLEAN
  /\ sent \in 0..MaxCalls
  /\ pending \subseteq [id : 1..sent, tag : Tags]
  /\ inbox \in Seq([id : 1..sent, tag : Tags, req : Texts, allow : BOOLEAN])
  /\ outbox \in Seq([id : 1..sent, kind : Kinds, req : Texts])
  /\ {asked, acked, waived, consents, executed} \subseteq Counts

Irreversible(r) == ~Profile[r].undoable

Gated == \A r \in Requests : Irreversible(r) => executed[r] <= acked[r] + waived[r]

(* While the owner settles one line before the next, whatever is played    *)
(* and cannot be taken back was acknowledged, once for each time it is     *)
(* played, unless the policy was KERNEL_ONLY or the kernel failed to       *)
(* preview it: abandoned calls, late answers and reconnections included.   *)
GateTwo == ~hasty => Gated

(* Mutant: the plan held is displayed whatever it describes.               *)
Mut_ShownPlan == IF confirm = NoPrompt THEN NoRequest ELSE lastPlan

(* The plan the prompt displays: _plan_for_prompt.                         *)
ShownPlan ==
  IF confirm # NoPrompt /\ confirm.req = lastPlanReq THEN lastPlan ELSE NoRequest

(* While the owner settles one line before the next, a prompt names the    *)
(* request that the plan or the refusal behind it is about, and the plan   *)
(* displayed beside it is that request's.                                  *)
PromptMatches ==
  ~hasty /\ confirm # NoPrompt =>
    /\ confirm.about = confirm.req
    /\ ShownPlan \in {NoRequest, confirm.req}

(* While the owner settles one line before the next, the kernel plays a    *)
(* request at most once for every time it was asked for: neither the two   *)
(* gates nor a call given up too early make it run twice.                  *)
OncePerAsk == ~hasty => \A r \in Requests : executed[r] <= asked[r]

(* However the owner hurries, a tier-2 request is played at most once for  *)
(* every time its own text was approved at the kernel's question, and one  *)
(* of tier 3 never.                                                        *)
ConsentIsSpent ==
  \A r \in Requests :
    executed[r] > 0 /\ Profile[r].tier >= 2 =>
      Profile[r].tier = 2 /\ executed[r] <= consents[r]

(* A prompt never outlives the process whose plan or refusal it is about,  *)
(* so an approval is never sent to another kernel than the one that asked. *)
PromptIsLive == confirm # NoPrompt => proc = "up"
=============================================================================
