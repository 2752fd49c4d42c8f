------------------------- MODULE HudConsent_proofs --------------------------
(***************************************************************************)
(* Proofs about the HUD's side of consent, for any requests, any profile   *)
(* of them and any number of calls.                                        *)
(*                                                                         *)
(* First what holds however the owner hurries: the state is well-formed    *)
(* (Typed), ids are unique and ordered (Fresh), the prompt belongs to the  *)
(* process that is up (Live), and consent is spent once (Spent).  Then     *)
(* what holds while one line is settled before the next: one thing at a    *)
(* time (Serial), and every frame paid for (Debts).  Last the bounds that  *)
(* make the types exact (Bounds).                                          *)
(***************************************************************************)
EXTENDS HudConsent, FiniteSetTheorems, SequenceTheorems, TLAPS

-----------------------------------------------------------------------------
(* The state is well-formed.                                               *)

(* The shapes of what the controller holds, of the calls it awaits, and of *)
(* what is in the pipes; numbers are not bounded yet.                      *)
Gates == {"none", "KERNEL_CONSENT", "REVERSIBILITY"}
Prompts == [gate : Gates, req : Texts, about : Texts]
Calls == [id : Nat, tag : Tags]
Frames == [id : Nat, tag : Tags, req : Texts, allow : BOOLEAN]
Answers == [id : Nat, kind : Kinds, req : Texts]
Tallies == [Requests -> Nat]

HudTyped == hud \in HudStates /\ policy \in Policies /\ confirm \in Prompts
HeldTyped == /\ staged \in Texts /\ lastDo \in Texts /\ lastPreview \in Texts
             /\ lastPlan \in Texts /\ lastPlanReq \in Texts
ProcTyped == /\ proc \in {"none", "starting", "up"}
             /\ ready \in BOOLEAN /\ timer \in BOOLEAN /\ hasty \in BOOLEAN
WireTyped == /\ sent \in Nat /\ pending \in SUBSET Calls
             /\ inbox \in Seq(Frames) /\ outbox \in Seq(Answers)
TallyTyped == /\ asked \in Tallies /\ acked \in Tallies /\ waived \in Tallies
              /\ consents \in Tallies /\ executed \in Tallies
Typed == HudTyped /\ HeldTyped /\ ProcTyped /\ WireTyped /\ TallyTyped

(* The names the controller moves between are states.                      *)
LEMMA StateNames ==
  /\ "BOOTING" \in HudStates /\ "STANDBY" \in HudStates /\ "PROCESSING" \in HudStates
  /\ "EXECUTING" \in HudStates /\ "SPEAKING" \in HudStates
  /\ "ERROR" \in HudStates /\ "OFFLINE" \in HudStates
  BY DEF HudStates

(* A move, taken or skipped, ends in a state.                              *)
LEMMA QuietlyType == \A h \in HudStates, t \in HudStates : Quietly(h, t) \in HudStates
  BY DEF Quietly

(* Counting keeps a tally a tally.                                         *)
LEMMA CountType == \A f \in Tallies, r \in Texts : Count(f, r) \in Tallies
  BY DEF Count, Tallies, Texts

(* Requests and the empty text are texts, the closed prompt a prompt.      *)
LEMMA TextsType == NoRequest \in Texts /\ NoPrompt \in Prompts /\ \A r \in Requests : r \in Texts
  BY DEF Texts, Prompts, Gates, NoPrompt

(* Sending keeps the pipes and the calls awaited well-formed.              *)
LEMMA SendTyped ==
  ASSUME Typed, NEW tag \in Tags, NEW r \in Texts, NEW allow \in BOOLEAN,
         NEW others \in SUBSET pending, Send(tag, r, allow, others)
  PROVE  sent' \in Nat /\ pending' \in SUBSET Calls /\ inbox' \in Seq(Frames)
<1>1. CASE ready
  <2>1. [id |-> sent + 1, tag |-> tag, req |-> r, allow |-> allow] \in Frames
    BY DEF Typed, WireTyped, Frames
  <2>2. inbox' \in Seq(Frames)
    BY <1>1, <2>1, AppendProperties DEF Send, Typed, WireTyped
  <2>3. [id |-> sent + 1, tag |-> tag] \in Calls /\ sent + 1 \in Nat
    BY DEF Typed, WireTyped, Calls
  <2> QED
    BY <1>1, <2>2, <2>3 DEF Send, Typed, WireTyped
<1>2. CASE ~ready
  BY <1>2 DEF Send, Typed, WireTyped
<1> QED
  BY <1>1, <1>2

(* So does the end of a call, whatever its answer.                         *)
LEMMA CompletedTyped ==
  ASSUME Typed, NEW call \in pending, NEW kind, NEW r \in Texts, Completed(call, kind, r),
         UNCHANGED policy
  PROVE  /\ HudTyped' /\ HeldTyped' /\ waived' \in Tallies
         /\ sent' \in Nat /\ pending' \in SUBSET Calls /\ inbox' \in Seq(Frames)
<1> USE StateNames, QuietlyType, TextsType
<1>a. \A k : Finished(hud, k) \in HudStates
  BY DEF Finished, Typed, HudTyped
<1>b. call.tag \in Tags
  BY DEF Typed, WireTyped, Calls
<1>c. PlanOf(kind, r) \in Texts
  BY DEF PlanOf
<1>1. CASE call.tag = "preview"
  BY <1>1, <1>a, <1>c
     DEF Completed, PreviewCompleted, Typed, HudTyped, HeldTyped, WireTyped, TallyTyped
<1>2. CASE call.tag = "preview-before-do"
  <2>0. ResolveStaged(call, kind, r)
    BY <1>2 DEF Completed
  <2>1. hud' \in HudStates
    BY <2>0, <1>a DEF ResolveStaged, Typed, HudTyped
  <2>w. staged \in Texts /\ waived \in Tallies /\ Count(waived, staged) \in Tallies
    BY CountType DEF Typed, HeldTyped, TallyTyped
  <2>2. HudTyped' /\ HeldTyped' /\ waived' \in Tallies
    <3>1. confirm' \in Prompts
      BY <2>0, <2>w, <1>c DEF ResolveStaged, Typed, HudTyped, Prompts, Gates
    <3>2. waived' \in Tallies
      BY <2>0, <2>w DEF ResolveStaged
    <3>3. HeldTyped'
      BY <2>0, <2>w, <1>c DEF ResolveStaged, Typed, HeldTyped
    <3> QED
      BY <2>1, <3>1, <3>2, <3>3 DEF Typed, HudTyped
  <2>3. CASE Send("do", staged, FALSE, pending \ {call})
    <3>1. "do" \in Tags /\ pending \ {call} \in SUBSET pending
      BY DEF Tags
    <3> QED
      BY <2>2, <2>3, <2>w, <3>1, SendTyped
  <2>4. CASE ~Send("do", staged, FALSE, pending \ {call})
    BY <2>0, <2>2, <2>4 DEF ResolveStaged, Typed, WireTyped
  <2> QED
    BY <2>2, <2>3, <2>4
<1>3. CASE call.tag = "do"
  <2>1. DoCompleted(call, kind, r)
    BY <1>3 DEF Completed
  <2> QED
    BY <2>1, <1>a
       DEF DoCompleted, Typed, HudTyped, HeldTyped, WireTyped, TallyTyped, holdVars, Prompts,
           Gates
<1> QED
  BY <1>1, <1>2, <1>3, <1>b DEF Tags

(* Losing the agent leaves the controller well-formed.                     *)
LEMMA DisconnectedTyped ==
  ASSUME Typed, NEW h \in HudStates, Disconnected(h), UNCHANGED policy,
         UNCHANGED <<lastDo, lastPreview, lastPlan, lastPlanReq>>
  PROVE  HudTyped' /\ HeldTyped'
  BY StateNames, QuietlyType, TextsType DEF Disconnected, Typed, HudTyped, HeldTyped

(* Stopping the client leaves the connection well-formed.                  *)
LEMMA StopTyped ==
  ASSUME Typed, Stop, UNCHANGED hasty
  PROVE  ProcTyped' /\ WireTyped'
  BY EmptySeq DEF Stop, Typed, ProcTyped, WireTyped

(* The initial state is well-formed.                                       *)
LEMMA TypedInit == Init => Typed
<1> SUFFICES ASSUME Init
             PROVE  Typed
  OBVIOUS
<1>1. HudTyped /\ HeldTyped /\ ProcTyped
  BY StateNames, TextsType DEF Init, HudTyped, HeldTyped, ProcTyped, Policies
<1>2. [r \in Requests |-> 0] \in Tallies
  BY DEF Tallies
<1>3. WireTyped /\ TallyTyped
  BY <1>2, EmptySeq DEF Init, WireTyped, TallyTyped
<1> QED
  BY <1>1, <1>3 DEF Typed

(* Every step keeps the state well-formed.                                 *)
LEMMA TypedStep ==
  ASSUME Typed, [Next]_vars
  PROVE  Typed'
<1> USE StateNames, QuietlyType, TextsType DEF Typed
<1>1. CASE FinishBoot
  BY <1>1
     DEF FinishBoot, HudTyped, HeldTyped, ProcTyped, WireTyped, TallyTyped, procVars, wireVars,
         holdVars, pastVars
<1>2. CASE Connect
  <2>0. hud' \in HudStates
    BY <1>2 DEF Connect, HudTyped
  <2>1. HudTyped' /\ HeldTyped' /\ ProcTyped'
    BY <1>2, <2>0 DEF Connect, HudTyped, HeldTyped, ProcTyped, procVars, pastVars
  <2> QED
    BY <1>2, <2>1 DEF Connect, WireTyped, TallyTyped, wireVars, pastVars
<1>3. CASE HandshakeDone
  BY <1>3
     DEF HandshakeDone, HudTyped, HeldTyped, ProcTyped, WireTyped, TallyTyped, procVars,
         wireVars, holdVars, pastVars
<1>4. CASE HandshakeFails
  BY <1>4, StopTyped, DisconnectedTyped DEF HandshakeFails, HudTyped, TallyTyped, pastVars
<1>5. CASE Disconnect
  <2>1. ProcTyped' /\ WireTyped' /\ TallyTyped'
    BY <1>5, StopTyped DEF Disconnect, TallyTyped, pastVars
  <2>2. CASE proc = "none"
    BY <1>5, <2>1, <2>2 DEF Disconnect, HudTyped, HeldTyped
  <2>3. CASE proc # "none"
    BY <1>5, <2>1, <2>3, DisconnectedTyped DEF Disconnect, HudTyped
  <2> QED
    BY <2>2, <2>3
<1>6. CASE ProcessError
  <2>1. HudTyped' /\ HeldTyped'
    BY <1>6, DisconnectedTyped DEF ProcessError, HudTyped
  <2> QED
    BY <1>6, <2>1 DEF ProcessError, ProcTyped, WireTyped, TallyTyped, wireVars, pastVars
<1>7. CASE ProcessExits
  <2>1. HudTyped' /\ HeldTyped'
    BY <1>7, DisconnectedTyped DEF ProcessExits, HudTyped
  <2> QED
    BY <1>7, <2>1, EmptySeq DEF ProcessExits, ProcTyped, WireTyped, TallyTyped, wireVars, pastVars
<1>8. ASSUME NEW name \in Policies, SetPolicy(name)
      PROVE  Typed'
  BY <1>8
     DEF SetPolicy, HudTyped, HeldTyped, ProcTyped, WireTyped, TallyTyped, procVars, wireVars,
         holdVars, pastVars
<1>9. ASSUME NEW r \in Requests, Do(r)
      PROVE  Typed'
  <2>1. HudTyped' /\ HeldTyped' /\ ProcTyped'
    BY <1>9 DEF Do, HudTyped, HeldTyped, ProcTyped, procVars, Settled
  <2>2. TallyTyped'
    BY <1>9, CountType DEF Do, TallyTyped
  <2>3. \E tag \in Tags : Send(tag, r, FALSE, pending)
    BY <1>9 DEF Do, Tags
  <2>4. WireTyped'
    BY <1>9, <2>3, SendTyped DEF Do, WireTyped
  <2> QED
    BY <2>1, <2>2, <2>4
<1>10. ASSUME NEW r \in Requests, Preview(r)
      PROVE  Typed'
  <2>1. HudTyped' /\ HeldTyped' /\ ProcTyped'
    BY <1>10 DEF Preview, HudTyped, HeldTyped, ProcTyped, procVars, Settled
  <2>2. TallyTyped'
    BY <1>10 DEF Preview, TallyTyped
  <2>4. WireTyped'
    BY <1>10, SendTyped DEF Preview, WireTyped, Tags
  <2> QED
    BY <2>1, <2>2, <2>4
<1>11. CASE Approve
  <2>0. confirm.req \in Texts /\ confirm.gate \in Gates
    BY DEF HudTyped, Prompts
  <2>1. HudTyped' /\ HeldTyped' /\ ProcTyped'
    BY <1>11, <2>0 DEF Approve, HudTyped, HeldTyped, ProcTyped, procVars
  <2>2. TallyTyped'
    BY <1>11, <2>0, CountType DEF Approve, TallyTyped
  <2>3. Grants(confirm.gate) \in BOOLEAN
    BY DEF Grants
  <2>4. WireTyped'
    BY <1>11, <2>0, <2>3, SendTyped DEF Approve, WireTyped, Tags
  <2> QED
    BY <2>1, <2>2, <2>4
<1>12. CASE Decline
  BY <1>12
     DEF Decline, HudTyped, HeldTyped, ProcTyped, WireTyped, TallyTyped, procVars, wireVars,
         pastVars
<1>13. CASE Reply
  <2>0. outbox \in Seq(Answers) /\ outbox # <<>>
    BY <1>13 DEF Reply, WireTyped
  <2>1. Head(outbox) \in Answers /\ outbox' \in Seq(Answers)
    BY <1>13, <2>0, HeadTailProperties DEF Reply
  <2>2. CASE {c \in pending : c.id = Head(outbox).id} = {}
    BY <1>13, <2>1, <2>2
       DEF Reply, HudTyped, HeldTyped, ProcTyped, WireTyped, TallyTyped, procVars, wireVars,
           holdVars
  <2>3. CASE {c \in pending : c.id = Head(outbox).id} # {}
    <3>1. PICK c \in pending : Completed(c, Head(outbox).kind, Head(outbox).req)
      BY <1>13, <2>3 DEF Reply
    <3>2. /\ HudTyped' /\ HeldTyped' /\ waived' \in Tallies
          /\ sent' \in Nat /\ pending' \in SUBSET Calls /\ inbox' \in Seq(Frames)
      BY <1>13, <2>1, <3>1, CompletedTyped DEF Reply, Answers
    <3> QED
      BY <1>13, <2>1, <3>2 DEF Reply, ProcTyped, WireTyped, TallyTyped, procVars
  <2> QED
    BY <2>2, <2>3
<1>14. CASE Expire
  <2>1. PICK c \in pending : Completed(c, "lost", NoRequest)
    BY <1>14 DEF Expire, Abandon
  <2>2. /\ HudTyped' /\ HeldTyped' /\ waived' \in Tallies
        /\ sent' \in Nat /\ pending' \in SUBSET Calls /\ inbox' \in Seq(Frames)
    BY <1>14, <2>1, CompletedTyped DEF Expire
  <2> QED
    BY <1>14, <2>2 DEF Expire, ProcTyped, WireTyped, TallyTyped, procVars
<1>15. ASSUME NEW kind \in Kinds, inbox # <<>>, KernelSays(kind), executed' \in Tallies
       PROVE  Typed'
  <2>1. Head(inbox) \in Frames /\ Tail(inbox) \in Seq(Frames)
    BY <1>15, HeadTailProperties DEF WireTyped
  <2>2. [id |-> Head(inbox).id, kind |-> kind, req |-> Head(inbox).req] \in Answers
    BY <1>15, <2>1 DEF Frames, Answers
  <2>3. outbox' \in Seq(Answers)
    BY <1>15, <2>2, AppendProperties DEF KernelSays, WireTyped
  <2> QED
    BY <1>15, <2>1, <2>3
       DEF KernelSays, HudTyped, HeldTyped, ProcTyped, WireTyped, TallyTyped, procVars, holdVars
<1>16. CASE KernelPlays
  <2>1. Head(inbox) \in Frames
    BY <1>16, HeadTailProperties DEF KernelPlays, WireTyped
  <2>2. executed' \in Tallies
    BY <1>16, <2>1, CountType DEF KernelPlays, Frames, TallyTyped
  <2> QED
    BY <1>15, <1>16, <2>2 DEF KernelPlays, Kinds
<1>17. CASE KernelAnswers
  <2>1. PICK kind \in Kinds : KernelSays(kind)
    BY <1>17 DEF KernelAnswers, Kinds
  <2>2. executed' \in Tallies /\ inbox # <<>>
    BY <1>17 DEF KernelAnswers, TallyTyped
  <2> QED
    BY <1>15, <2>1, <2>2
<1>18. CASE UNCHANGED vars
  BY <1>18 DEF vars, HudTyped, HeldTyped, ProcTyped, WireTyped, TallyTyped
<1> QED
  BY <1>1, <1>2, <1>3, <1>4, <1>5, <1>6, <1>7, <1>8, <1>9, <1>10, <1>11, <1>12,
     <1>13, <1>14, <1>16, <1>17, <1>18 DEF Next

-----------------------------------------------------------------------------
(* Ids, and counting what is in the pipe.                                  *)

(* Ids are never used twice: whatever is in flight has one of those taken  *)
(* so far, and the frames wait in the order they were sent.                *)
Sorted(q) == \A i, j \in DOMAIN q : i < j => q[i].id < q[j].id

Fresh ==
  /\ Sorted(inbox)
  /\ \A k \in DOMAIN inbox : inbox[k].id \in 1..sent
  /\ \A k \in DOMAIN outbox : outbox[k].id \in 1..sent
  /\ \A c \in pending : c.id \in 1..sent

(* The ids of the frames in S, and how many of them wait for the server.   *)
Ids(q, S) == {q[k].id : k \in {j \in DOMAIN q : q[j] \in S}}
Waiting(S) == Cardinality(Ids(inbox, S))

(* A frame appended adds its id if it is of the kind counted.              *)
LEMMA IdsAppend ==
  ASSUME NEW q \in Seq(Frames), NEW m \in Frames, NEW S
  PROVE  Ids(Append(q, m), S) = IF m \in S THEN Ids(q, S) \cup {m.id} ELSE Ids(q, S)
<1>1. /\ Append(q, m) \in Seq(Frames)
      /\ Len(Append(q, m)) = Len(q) + 1 /\ Len(q) \in Nat
      /\ \A i \in 1..Len(q) : Append(q, m)[i] = q[i]
      /\ Append(q, m)[Len(q) + 1] = m
  BY AppendProperties, LenProperties
<1>2. DOMAIN q = 1..Len(q) /\ DOMAIN Append(q, m) = 1..(Len(q) + 1)
  BY <1>1, LenProperties
<1>3. \A k \in DOMAIN Append(q, m) : k \in DOMAIN q \/ k = Len(q) + 1
  BY <1>1, <1>2
<1>4. DOMAIN q \subseteq DOMAIN Append(q, m) /\ Len(q) + 1 \in DOMAIN Append(q, m)
  BY <1>1, <1>2
<1> QED
  BY <1>1, <1>2, <1>3, <1>4 DEF Ids

(* A frame taken from an ordered pipe takes its id with it.                *)
LEMMA IdsTail ==
  ASSUME NEW q \in Seq(Frames), q # <<>>, Sorted(q), NEW S
  PROVE  /\ Ids(Tail(q), S) = Ids(q, S) \ {Head(q).id}
         /\ Head(q) \in S <=> Head(q).id \in Ids(q, S)
<1>1. /\ Tail(q) \in Seq(Frames) /\ Len(q) \in Nat \ {0} /\ Head(q) = q[1]
      /\ Len(Tail(q)) = Len(q) - 1
      /\ \A i \in 1..(Len(q) - 1) : Tail(q)[i] = q[i + 1]
  BY HeadTailProperties, EmptySeq
<1>2. DOMAIN q = 1..Len(q) /\ DOMAIN Tail(q) = 1..(Len(q) - 1)
  BY <1>1, LenProperties
<1>3. \A i \in DOMAIN q : i # 1 => q[i].id # q[1].id
  <2> SUFFICES ASSUME NEW i \in DOMAIN q, i # 1
               PROVE  q[i].id # q[1].id
    OBVIOUS
  <2>1. 1 \in DOMAIN q /\ 1 < i
    BY <1>1, <1>2
  <2>2. q[1] \in Frames /\ q[i] \in Frames
    BY <2>1, <1>2, ElementOfSeq
  <2>3. q[1].id < q[i].id
    BY <2>1 DEF Sorted
  <2> QED
    BY <2>2, <2>3 DEF Frames
<1>4. Head(q) \in S <=> Head(q).id \in Ids(q, S)
  BY <1>1, <1>2, <1>3 DEF Ids
<1>5. ASSUME NEW x \in Ids(Tail(q), S)
      PROVE  x \in Ids(q, S) /\ x # Head(q).id
  <2>1. PICK k \in DOMAIN Tail(q) : Tail(q)[k] \in S /\ x = Tail(q)[k].id
    BY <1>5 DEF Ids
  <2>2. k + 1 \in DOMAIN q /\ k + 1 # 1 /\ Tail(q)[k] = q[k + 1]
    BY <1>1, <1>2
  <2> QED
    BY <2>1, <2>2, <1>1, <1>3 DEF Ids
<1>6. ASSUME NEW x \in Ids(q, S), x # Head(q).id
      PROVE  x \in Ids(Tail(q), S)
  <2>1. PICK k \in DOMAIN q : q[k] \in S /\ x = q[k].id
    BY <1>6 DEF Ids
  <2>2. k # 1
    BY <1>6, <2>1, <1>1
  <2>3. k - 1 \in DOMAIN Tail(q) /\ Tail(q)[k - 1] = q[(k - 1) + 1] /\ (k - 1) + 1 = k
    BY <1>1, <1>2, <2>2
  <2> QED
    BY <2>1, <2>3 DEF Ids
<1> QED
  BY <1>4, <1>5, <1>6

(* The ids in a pipe can be counted.                                       *)
LEMMA IdsFinite ==
  ASSUME NEW q, NEW S, NEW n \in Nat, \A k \in DOMAIN q : q[k].id \in 1..n
  PROVE  IsFiniteSet(Ids(q, S)) /\ Cardinality(Ids(q, S)) \in Nat
<1>1. Ids(q, S) \in SUBSET (1..n)
  BY DEF Ids
<1>2. IsFiniteSet(1..n)
  <2>1. 1 \in Int /\ n \in Int
    OBVIOUS
  <2> QED
    BY <2>1, FS_Interval, Zenon
<1> QED
  BY <1>1, <1>2, FS_Subset, FS_CardinalityType

(* A frame with a new id keeps the pipe in order.                          *)
LEMMA SortedAppend ==
  ASSUME NEW q \in Seq(Frames), NEW m \in Frames, Sorted(q),
         \A k \in DOMAIN q : q[k].id < m.id
  PROVE  Sorted(Append(q, m))
<1>1. /\ Len(Append(q, m)) = Len(q) + 1 /\ Len(q) \in Nat
      /\ \A i \in 1..Len(q) : Append(q, m)[i] = q[i]
      /\ Append(q, m)[Len(q) + 1] = m
      /\ DOMAIN q = 1..Len(q) /\ DOMAIN Append(q, m) = 1..(Len(q) + 1)
  BY AppendProperties, LenProperties
<1> QED
  BY <1>1 DEF Sorted

(* Taking the first frame keeps the pipe in order.                         *)
LEMMA SortedTail ==
  ASSUME NEW q \in Seq(Frames), q # <<>>, Sorted(q)
  PROVE  Sorted(Tail(q))
<1>1. /\ Len(q) \in Nat \ {0}
      /\ \A i \in 1..(Len(q) - 1) : Tail(q)[i] = q[i + 1]
      /\ DOMAIN q = 1..Len(q) /\ DOMAIN Tail(q) = 1..(Len(q) - 1)
  BY HeadTailProperties, LenProperties, EmptySeq
<1> QED
  BY <1>1 DEF Sorted

(* What is left of a pipe was in it, one place further on.                 *)
LEMMA TailElements ==
  ASSUME NEW T, NEW q \in Seq(T), q # <<>>
  PROVE  \A k \in DOMAIN Tail(q) : k + 1 \in DOMAIN q /\ Tail(q)[k] = q[k + 1]
  BY HeadTailProperties, LenProperties, EmptySeq

(* What is in a pipe was there already or has just been added.             *)
LEMMA AppendElements ==
  ASSUME NEW T, NEW q \in Seq(T), NEW m \in T
  PROVE  \A k \in DOMAIN Append(q, m) :
           \/ k \in DOMAIN q /\ Append(q, m)[k] = q[k]
           \/ Append(q, m)[k] = m
<1>1. /\ Len(Append(q, m)) = Len(q) + 1 /\ Len(q) \in Nat
      /\ \A i \in 1..Len(q) : Append(q, m)[i] = q[i]
      /\ Append(q, m)[Len(q) + 1] = m
      /\ DOMAIN q = 1..Len(q) /\ DOMAIN Append(q, m) = 1..(Len(q) + 1)
  BY AppendProperties, LenProperties
<1> QED
  BY <1>1

(* The first frame of a pipe is in it.                                     *)
LEMMA HeadElement ==
  ASSUME NEW T, NEW q \in Seq(T), q # <<>>
  PROVE  1 \in DOMAIN q /\ Head(q) = q[1] /\ Head(q) \in T
  BY HeadTailProperties, LenProperties, EmptySeq

(* A call is sent under an id that nothing in flight has.                  *)
LEMMA SendFresh ==
  ASSUME Typed, Fresh, NEW tag \in Tags, NEW r \in Texts, NEW allow \in BOOLEAN,
         NEW others \in SUBSET pending, Send(tag, r, allow, others),
         \A k \in DOMAIN outbox' : outbox'[k].id \in 1..sent
  PROVE  Fresh'
<1>0. sent \in Nat /\ inbox \in Seq(Frames) /\ outbox \in Seq(Answers)
  BY DEF Typed, WireTyped
<1>1. sent' \in Nat /\ sent <= sent'
  BY <1>0 DEF Send
<1>2. \A k \in DOMAIN outbox' : outbox'[k].id \in 1..sent'
  BY <1>0, <1>1
<1>3. CASE ready
  <2> DEFINE m == [id |-> sent + 1, tag |-> tag, req |-> r, allow |-> allow]
  <2>1. m \in Frames /\ m.id = sent + 1
    BY <1>0 DEF Frames
  <2>2. inbox' = Append(inbox, m) /\ sent' = sent + 1
        /\ pending' = others \cup {[id |-> sent + 1, tag |-> tag]}
    BY <1>3 DEF Send
  <2>3. \A k \in DOMAIN inbox : inbox[k].id < m.id
    BY <1>0, <2>1 DEF Fresh
  <2> HIDE DEF m
  <2>4. Sorted(inbox')
    BY <1>0, <2>1, <2>2, <2>3, SortedAppend DEF Fresh
  <2>5. \A k \in DOMAIN inbox' : inbox'[k].id \in 1..sent'
    BY <1>0, <2>1, <2>2, AppendElements DEF Fresh
  <2>6. \A c \in pending' : c.id \in 1..sent'
    BY <1>0, <2>2 DEF Fresh
  <2> QED
    BY <1>2, <2>4, <2>5, <2>6 DEF Fresh
<1>4. CASE ~ready
  BY <1>2, <1>4 DEF Send, Fresh
<1> QED
  BY <1>3, <1>4

(* The end of a call keeps the ids in order.                               *)
LEMMA CompletedFresh ==
  ASSUME Typed, Fresh, NEW call \in pending, NEW kind, NEW r, Completed(call, kind, r),
         \A k \in DOMAIN outbox' : outbox'[k].id \in 1..sent
  PROVE  Fresh'
<1>0. pending \ {call} \in SUBSET pending /\ "do" \in Tags /\ staged \in Texts
  BY DEF Tags, Typed, HeldTyped
<1>1. CASE Send("do", staged, FALSE, pending \ {call})
  BY <1>0, <1>1, SendFresh
<1>2. CASE ~Send("do", staged, FALSE, pending \ {call})
  <2>1. call.tag \in Tags
    BY DEF Typed, WireTyped, Calls
  <2>2. pending' = pending \ {call} /\ sent' = sent /\ inbox' = inbox
    BY <1>2, <2>1 DEF Completed, PreviewCompleted, ResolveStaged, DoCompleted, Tags
  <2>4. \A k \in DOMAIN outbox' : outbox'[k].id \in 1..sent'
    BY <2>2
  <2> QED
    BY <2>2, <2>4 DEF Fresh
<1> QED
  BY <1>1, <1>2

(* Empty pipes are in order.                                               *)
LEMMA StopFresh ==
  ASSUME pending' = {}, inbox' = <<>>, outbox' = <<>>
  PROVE  Fresh'
  BY DEF Fresh, Sorted

(* The server answers under the id it was called with.                     *)
LEMMA KernelSaysFresh ==
  ASSUME Typed, Fresh, inbox # <<>>, NEW kind \in Kinds, KernelSays(kind)
  PROVE  Fresh'
<1>0. inbox \in Seq(Frames) /\ outbox \in Seq(Answers)
  BY DEF Typed, WireTyped
<1> DEFINE a == [id |-> Head(inbox).id, kind |-> kind, req |-> Head(inbox).req]
<1>1. Head(inbox) \in Frames /\ Head(inbox).id \in 1..sent
  BY <1>0, HeadElement DEF Fresh
<1>2. a \in Answers /\ a.id \in 1..sent
  BY <1>1 DEF Frames, Answers
<1>3. outbox' = Append(outbox, a) /\ inbox' = Tail(inbox) /\ sent' = sent /\ pending' = pending
  BY DEF KernelSays
<1> HIDE DEF a
<1>4. \A k \in DOMAIN outbox' : outbox'[k].id \in 1..sent'
  BY <1>0, <1>2, <1>3, AppendElements DEF Fresh
<1>5. \A k \in DOMAIN inbox' : inbox'[k].id \in 1..sent'
  BY <1>0, <1>3, TailElements DEF Fresh
<1>6. Sorted(inbox')
  BY <1>0, <1>3, SortedTail DEF Fresh
<1> QED
  BY <1>3, <1>4, <1>5, <1>6 DEF Fresh

(* Every step keeps the ids in order.                                      *)
LEMMA FreshStep ==
  ASSUME Typed, Fresh, [Next]_vars
  PROVE  Fresh'
<1>0. outbox \in Seq(Answers)
  BY DEF Typed, WireTyped
<1>1. ASSUME inbox' = inbox, outbox' = outbox, pending' = pending, sent' = sent
      PROVE  Fresh'
  BY <1>1 DEF Fresh
<1>2. CASE FinishBoot \/ Connect \/ HandshakeDone \/ ProcessError \/ Decline
           \/ (\E name \in Policies : SetPolicy(name)) \/ UNCHANGED vars
  BY <1>1, <1>2 DEF FinishBoot, Connect, HandshakeDone, ProcessError, Decline,
     SetPolicy, vars, wireVars
<1>3. CASE HandshakeFails \/ Disconnect \/ ProcessExits
  BY <1>3, StopFresh DEF HandshakeFails, Disconnect, ProcessExits, Stop
<1>4. ASSUME NEW r \in Requests, Do(r) \/ Preview(r)
      PROVE  Fresh'
  <2>1. \E tag \in Tags : Send(tag, r, FALSE, pending)
    BY <1>4 DEF Do, Preview, Tags
  <2>2. (\A k \in DOMAIN outbox' : outbox'[k].id \in 1..sent) /\ r \in Texts
    BY <1>4 DEF Do, Preview, Texts, Fresh
  <2>3. pending \in SUBSET pending /\ FALSE \in BOOLEAN
    OBVIOUS
  <2> QED
    BY <2>1, <2>2, <2>3, SendFresh
<1>5. CASE Approve
  <2>1. /\ Send("do", confirm.req, Grants(confirm.gate), pending)
        /\ \A k \in DOMAIN outbox' : outbox'[k].id \in 1..sent
    BY <1>5 DEF Approve, Fresh
  <2>2. confirm.req \in Texts /\ Grants(confirm.gate) \in BOOLEAN /\ "do" \in Tags
    BY DEF Typed, HudTyped, Prompts, Grants, Tags
  <2>3. pending \in SUBSET pending
    OBVIOUS
  <2> QED
    BY <2>1, <2>2, <2>3, SendFresh
<1>6. CASE Reply
  <2>1. \A k \in DOMAIN outbox' : outbox'[k].id \in 1..sent
    BY <1>0, <1>6, TailElements DEF Reply, Fresh
  <2>2. CASE {c \in pending : c.id = Head(outbox).id} = {}
    BY <1>6, <2>1, <2>2 DEF Reply, wireVars, Fresh
  <2>3. CASE {c \in pending : c.id = Head(outbox).id} # {}
    BY <1>6, <2>1, <2>3, CompletedFresh DEF Reply
  <2> QED
    BY <2>2, <2>3
<1>7. CASE Expire
  <2>1. /\ \E c \in pending : Completed(c, "lost", NoRequest)
        /\ \A k \in DOMAIN outbox' : outbox'[k].id \in 1..sent
    BY <1>7 DEF Expire, Abandon, Fresh
  <2> QED
    BY <2>1, CompletedFresh
<1>8. CASE KernelPlays \/ KernelAnswers
  <2>1. inbox # <<>> /\ \E kind \in Kinds : KernelSays(kind)
    BY <1>8 DEF KernelPlays, KernelAnswers, Kinds
  <2> QED
    BY <2>1, KernelSaysFresh
<1> QED
  BY <1>2, <1>3, <1>4, <1>5, <1>6, <1>7, <1>8 DEF Next

(* How many frames wait is a number.                                       *)
LEMMA WaitingType ==
  ASSUME Typed, Fresh, NEW S
  PROVE  Waiting(S) \in Nat
  BY IdsFinite DEF Typed, WireTyped, Fresh, Waiting

(* Nothing waits in an empty pipe.                                         *)
LEMMA WaitingEmpty ==
  ASSUME NEW S, inbox' = <<>>
  PROVE  Waiting(S)' = 0
<1>1. Ids(<<>>, S) = {}
  BY DEF Ids
<1> QED
  BY <1>1, FS_EmptySet DEF Waiting

(* Sending makes at most one frame more wait, and none of another kind.    *)
LEMMA WaitingSent ==
  ASSUME Typed, Fresh, NEW S, NEW tag \in Tags, NEW r \in Texts,
         NEW allow \in BOOLEAN, NEW others, Send(tag, r, allow, others)
  PROVE  /\ Waiting(S)' \in Nat
         /\ Waiting(S)' \in {Waiting(S), Waiting(S) + 1}
         /\ ~ready \/ [id |-> sent + 1, tag |-> tag, req |-> r, allow |-> allow] \notin S
               => Waiting(S)' = Waiting(S)
<1>0. sent \in Nat /\ inbox \in Seq(Frames) /\ Waiting(S) \in Nat
  BY WaitingType DEF Typed, WireTyped
<1>1. CASE ready
  <2> DEFINE m == [id |-> sent + 1, tag |-> tag, req |-> r, allow |-> allow]
  <2>1. m \in Frames /\ inbox' = Append(inbox, m)
    BY <1>0, <1>1 DEF Send, Frames
  <2> HIDE DEF m
  <2>2. Ids(inbox', S) = IF m \in S THEN Ids(inbox, S) \cup {m.id} ELSE Ids(inbox, S)
    BY <1>0, <2>1, IdsAppend
  <2>3. IsFiniteSet(Ids(inbox, S))
    BY <1>0, IdsFinite DEF Fresh
  <2>a. Cardinality(Ids(inbox, S) \cup {m.id}) \in {Waiting(S), Waiting(S) + 1}
    BY <1>0, <2>3, FS_AddElement DEF Waiting
  <2>4. /\ Waiting(S)' \in Nat /\ Waiting(S)' \in {Waiting(S), Waiting(S) + 1}
        /\ m \notin S => Waiting(S)' = Waiting(S)
    BY <1>0, <2>2, <2>a DEF Waiting
  <2> QED
    BY <1>1, <2>4 DEF m
<1>2. CASE ~ready
  BY <1>0, <1>2 DEF Send, Waiting
<1> QED
  BY <1>1, <1>2

(* The server takes the frame that it answers from those that wait.        *)
LEMMA WaitingTaken ==
  ASSUME Typed, Fresh, NEW S, inbox # <<>>, inbox' = Tail(inbox)
  PROVE  /\ Waiting(S)' \in Nat /\ Waiting(S)' <= Waiting(S)
         /\ Head(inbox) \in S => Waiting(S)' = Waiting(S) - 1
<1>0. sent \in Nat /\ inbox \in Seq(Frames) /\ Waiting(S) \in Nat
  BY WaitingType DEF Typed, WireTyped
<1>1. /\ Ids(inbox', S) = Ids(inbox, S) \ {Head(inbox).id}
      /\ Head(inbox) \in S <=> Head(inbox).id \in Ids(inbox, S)
  BY <1>0, IdsTail DEF Fresh
<1>2. IsFiniteSet(Ids(inbox, S))
  BY <1>0, IdsFinite DEF Fresh
<1>3. Cardinality(Ids(inbox, S) \ {Head(inbox).id}) =
        IF Head(inbox).id \in Ids(inbox, S) THEN Waiting(S) - 1 ELSE Waiting(S)
  BY <1>2, FS_RemoveElement DEF Waiting
<1>4. Cardinality(Ids(inbox, S) \ {Head(inbox).id}) \in Nat
  BY <1>2, FS_RemoveElement, FS_CardinalityType
<1>5. Waiting(S)' = Cardinality(Ids(inbox, S) \ {Head(inbox).id})
  BY <1>1 DEF Waiting
<1>6. CASE Head(inbox).id \in Ids(inbox, S)
  BY <1>0, <1>3, <1>4, <1>5, <1>6
<1>7. CASE Head(inbox).id \notin Ids(inbox, S)
  BY <1>0, <1>1, <1>3, <1>5, <1>7
<1> QED
  BY <1>6, <1>7

-----------------------------------------------------------------------------
(* What is held belongs to the process that is up.                         *)

(* What the HUD holds on to belongs to the process it talks to: a          *)
(* connection that is ready, a call that is awaited, and a prompt.         *)
Live ==
  /\ ready => proc = "up"
  /\ pending # {} => proc = "up"
  /\ confirm # NoPrompt => proc = "up"

(* A call that is sent is awaited from the process that is up.             *)
LEMMA SendLive ==
  ASSUME Live, NEW tag, NEW r, NEW allow, NEW others \in SUBSET pending,
         Send(tag, r, allow, others)
  PROVE  pending' # {} => proc = "up"
  BY DEF Live, Send

(* The end of a call, whatever its answer, and the calls that follow.      *)
LEMMA CompletedLive ==
  ASSUME Live, NEW call \in pending, NEW kind, NEW r, Completed(call, kind, r),
         UNCHANGED procVars
  PROVE  Live'
<1>1. proc = "up" /\ proc' = "up"
  BY DEF Live, procVars
<1> QED
  BY <1>1 DEF Live

(* The connection is lost, and with it the calls and the prompt.           *)
LEMMA StopLive ==
  ASSUME Stop, confirm' = NoPrompt
  PROVE  Live'
  BY DEF Stop, Live

(* Every step keeps what is held with the process it belongs to.           *)
LEMMA LiveStep ==
  ASSUME Live, [Next]_vars
  PROVE  Live'
<1>1. CASE FinishBoot
  BY <1>1 DEF FinishBoot, Live, procVars, wireVars
<1>2. CASE Connect
  BY <1>2 DEF Connect, Live, procVars, wireVars
<1>3. CASE HandshakeDone
  BY <1>3 DEF HandshakeDone, Live, wireVars
<1>4. CASE HandshakeFails
  BY <1>4, StopLive DEF HandshakeFails, Disconnected
<1>5. CASE Disconnect
  <2>1. CASE proc = "none"
    <3>1. confirm' = NoPrompt
      BY <1>5, <2>1 DEF Disconnect, Live
    <3> QED
      BY <1>5, <3>1, StopLive DEF Disconnect
  <2>2. CASE proc # "none"
    BY <1>5, <2>2, StopLive DEF Disconnect, Disconnected
  <2> QED
    BY <2>1, <2>2
<1>6. CASE ProcessError
  BY <1>6 DEF ProcessError, Disconnected, Live, wireVars
<1>7. CASE ProcessExits
  BY <1>7 DEF ProcessExits, Disconnected, Live
<1>8. ASSUME NEW name \in Policies, SetPolicy(name)
      PROVE  Live'
  BY <1>8 DEF SetPolicy, Live, procVars, wireVars
<1>9. ASSUME NEW r \in Requests, Do(r)
      PROVE  Live'
  BY <1>9 DEF Do, Live, procVars
<1>10. ASSUME NEW r \in Requests, Preview(r)
      PROVE  Live'
  BY <1>10 DEF Preview, Live, procVars
<1>11. CASE Approve
  BY <1>11 DEF Approve, Live, procVars
<1>12. CASE Decline
  BY <1>12 DEF Decline, Live, procVars, wireVars
<1>13. CASE Reply
  <2>1. CASE {c \in pending : c.id = Head(outbox).id} = {}
    BY <1>13, <2>1 DEF Reply, Live, procVars, wireVars
  <2>2. CASE {c \in pending : c.id = Head(outbox).id} # {}
    <3>1. PICK c \in pending : Completed(c, Head(outbox).kind, Head(outbox).req)
      BY <1>13, <2>2 DEF Reply
    <3>2. UNCHANGED procVars
      BY <1>13 DEF Reply
    <3> QED
      BY <3>1, <3>2, CompletedLive
  <2> QED
    BY <2>1, <2>2
<1>14. CASE Expire
  <2>1. PICK c \in pending : Completed(c, "lost", NoRequest)
    BY <1>14 DEF Expire, Abandon
  <2>2. UNCHANGED procVars
    BY <1>14 DEF Expire
  <2> QED
    BY <2>1, <2>2, CompletedLive
<1>15. CASE KernelPlays
  BY <1>15 DEF KernelPlays, KernelSays, Live, procVars
<1>16. CASE KernelAnswers
  BY <1>16 DEF KernelAnswers, KernelSays, Live, procVars
<1>17. CASE UNCHANGED vars
  BY <1>17 DEF vars, Live
<1> QED
  BY <1>1, <1>2, <1>3, <1>4, <1>5, <1>6, <1>7, <1>8, <1>9, <1>10, <1>11, <1>12,
     <1>13, <1>14, <1>15, <1>16, <1>17 DEF Next

(* A prompt never outlives the process whose plan or refusal it is about.  *)
THEOREM LivePrompt == Spec => []PromptIsLive
<1>1. Init => Live
  BY DEF Init, Live
<1>2. Live /\ [Next]_vars => Live'
  BY LiveStep
<1>3. Live => PromptIsLive
  BY DEF Live, PromptIsLive
<1> QED
  BY <1>1, <1>2, <1>3, PTL DEF Spec

-----------------------------------------------------------------------------
(* Consent is spent once.                                                  *)

(* The frames that ask the kernel to play r, and those that carry its      *)
(* consent.                                                                *)
Lines(r) == {m \in Frames : m.tag = "do" /\ m.req = r}
Granted(r) == {m \in Lines(r) : m.allow}

(* What ConsentIsSpent says is not inductive: a frame that waits in the    *)
(* pipe will be played, so it counts as if it had been.                    *)
Spent ==
  \A r \in Requests :
    /\ Profile[r].tier = 2 => executed[r] + Waiting(Granted(r)) <= consents[r]
    /\ Profile[r].tier = 3 => executed[r] = 0

(* Counting adds one where it is told to and nowhere else.                 *)
LEMMA CountFacts ==
  ASSUME NEW f \in Tallies, NEW r
  PROVE  /\ \A q \in Requests : f[q] \in Nat
         /\ \A q \in Requests : Count(f, r)[q] = IF q = r THEN f[q] + 1 ELSE f[q]
  BY HudAssumption DEF Tallies, Count

(* At first nothing is granted and nothing is spent.                       *)
LEMMA SpentInit == Init => Spent
<1> SUFFICES ASSUME Init, NEW r \in Requests
             PROVE  executed[r] = 0 /\ consents[r] = 0 /\ Waiting(Granted(r)) = 0
  BY DEF Spent
<1>1. Ids(<<>>, Granted(r)) = {}
  BY DEF Ids
<1> QED
  BY <1>1, FS_EmptySet DEF Init, Waiting

(* With no more frames granted, what was covered stays covered.            *)
LEMMA SpentKept ==
  ASSUME Typed, Fresh, Spent, executed' = executed, consents' = consents,
         \A r \in Requests : Waiting(Granted(r))' \in Nat
                            /\ Waiting(Granted(r))' <= Waiting(Granted(r))
  PROVE  Spent'
<1> SUFFICES ASSUME NEW r \in Requests, Profile[r].tier = 2
             PROVE  executed[r] + Waiting(Granted(r))' <= consents[r]
  BY DEF Spent
<1>1. executed[r] \in Nat /\ consents[r] \in Nat /\ Waiting(Granted(r)) \in Nat
  BY WaitingType DEF Typed, TallyTyped, Tallies
<1> QED
  BY <1>1 DEF Spent

(* A frame without consent asks nothing of the consents given.             *)
LEMMA SendSpent ==
  ASSUME Typed, Fresh, Spent, NEW tag \in Tags, NEW q \in Texts,
         NEW others, Send(tag, q, FALSE, others),
         executed' = executed, consents' = consents
  PROVE  Spent'
<1>1. ASSUME NEW r \in Requests
      PROVE  Waiting(Granted(r))' \in Nat /\ Waiting(Granted(r))' <= Waiting(Granted(r))
  <2>1. [id |-> sent + 1, tag |-> tag, req |-> q, allow |-> FALSE] \notin Granted(r)
    BY DEF Granted
  <2>2. Waiting(Granted(r))' = Waiting(Granted(r))
    BY <2>1, WaitingSent
  <2> QED
    BY <2>2, WaitingType
<1> QED
  BY <1>1, SpentKept

(* Every step keeps what is played, and what waits to be, covered by the   *)
(* consents given for its own text.                                        *)
LEMMA SpentStep ==
  ASSUME Typed, Fresh, Spent, [Next]_vars
  PROVE  Spent'
<1>1. ASSUME inbox' = inbox, executed' = executed, consents' = consents
      PROVE  Spent'
  BY <1>1, WaitingType, SpentKept DEF Waiting
<1>2. ASSUME inbox' = <<>>, executed' = executed, consents' = consents
      PROVE  Spent'
  BY <1>2, WaitingType, WaitingEmpty, SpentKept
<1>3. CASE FinishBoot \/ Connect \/ HandshakeDone \/ ProcessError \/ Decline
           \/ (\E name \in Policies : SetPolicy(name)) \/ UNCHANGED vars
  BY <1>1, <1>3 DEF FinishBoot, Connect, HandshakeDone, ProcessError, Decline,
     SetPolicy, vars, wireVars, pastVars
<1>4. CASE HandshakeFails \/ Disconnect \/ ProcessExits
  BY <1>2, <1>4 DEF HandshakeFails, Disconnect, ProcessExits, Stop, pastVars
<1>5. ASSUME NEW r \in Requests, Do(r) \/ Preview(r)
      PROVE  Spent'
  <2>1. \E tag \in Tags : Send(tag, r, FALSE, pending)
    BY <1>5 DEF Do, Preview, Tags
  <2>2. executed' = executed /\ consents' = consents /\ r \in Texts
    BY <1>5 DEF Do, Preview, Texts
  <2> QED
    BY <2>1, <2>2, SendSpent
<1>6. CASE Approve
  <2>1. Send("do", confirm.req, Grants(confirm.gate), pending) /\ executed' = executed
    BY <1>6 DEF Approve
  <2>2. confirm.req \in Texts /\ "do" \in Tags
    BY DEF Typed, HudTyped, Prompts, Tags
  <2>3. CASE confirm.gate = "KERNEL_CONSENT"
    <3>1. Grants(confirm.gate) = TRUE /\ consents' = Count(consents, confirm.req)
      BY <1>6, <2>3 DEF Approve, Grants
    <3> SUFFICES ASSUME NEW r \in Requests, Profile[r].tier = 2
                 PROVE  executed[r] + Waiting(Granted(r))' <= consents'[r]
      BY <2>1 DEF Spent
    <3>2. executed[r] \in Nat /\ consents[r] \in Nat /\ Waiting(Granted(r)) \in Nat
      BY WaitingType DEF Typed, TallyTyped, Tallies
    <3>3. executed[r] + Waiting(Granted(r)) <= consents[r]
      BY DEF Spent
    <3>4. consents'[r] = IF r = confirm.req THEN consents[r] + 1 ELSE consents[r]
      BY <3>1, CountFacts DEF Typed, TallyTyped
    <3>5. /\ Waiting(Granted(r))' \in Nat
          /\ Waiting(Granted(r))' \in {Waiting(Granted(r)), Waiting(Granted(r)) + 1}
          /\ r # confirm.req => Waiting(Granted(r))' = Waiting(Granted(r))
      <4>1. r # confirm.req =>
              [id |-> sent + 1, tag |-> "do", req |-> confirm.req, allow |-> TRUE]
                \notin Granted(r)
        BY DEF Granted, Lines
      <4>2. Send("do", confirm.req, TRUE, pending)
        BY <2>1, <3>1
      <4> QED
        BY <2>2, <4>1, <4>2, WaitingSent
    <3> QED
      BY <3>2, <3>3, <3>4, <3>5
  <2>4. CASE confirm.gate # "KERNEL_CONSENT"
    <3>1. consents' = consents /\ Send("do", confirm.req, FALSE, pending)
      BY <1>6, <2>1, <2>4 DEF Approve, Grants
    <3> QED
      BY <2>1, <2>2, <3>1, SendSpent
  <2> QED
    BY <2>3, <2>4
<1>7. ASSUME NEW c \in pending, NEW kind, NEW r, Completed(c, kind, r),
             executed' = executed, consents' = consents
      PROVE  Spent'
  <2>1. CASE Send("do", staged, FALSE, pending \ {c})
    BY <1>7, <2>1, SendSpent DEF Typed, HeldTyped, Tags
  <2>2. CASE ~Send("do", staged, FALSE, pending \ {c})
    <3>1. c.tag \in Tags
      BY DEF Typed, WireTyped, Calls
    <3>2. inbox' = inbox
      BY <1>7, <2>2, <3>1 DEF Completed, PreviewCompleted, ResolveStaged, DoCompleted, Tags
    <3> QED
      BY <1>1, <1>7, <3>2
  <2> QED
    BY <2>1, <2>2
<1>8. CASE Reply
  BY <1>1, <1>7, <1>8 DEF Reply, wireVars
<1>9. CASE Expire
  BY <1>7, <1>9 DEF Expire, Abandon
<1>10. CASE KernelPlays
  <2>0. inbox # <<>> /\ inbox' = Tail(inbox) /\ consents' = consents
    BY <1>10 DEF KernelPlays, KernelSays
  <2>1. /\ Plays(Head(inbox)) /\ executed' = Count(executed, Head(inbox).req)
        /\ Head(inbox) \in Frames
    BY <1>10, <2>0, HeadElement DEF KernelPlays, Typed, WireTyped
  <2> SUFFICES ASSUME NEW r \in Requests
               PROVE  /\ Profile[r].tier = 2 => executed'[r] + Waiting(Granted(r))' <= consents[r]
                      /\ Profile[r].tier = 3 => executed'[r] = 0
    BY <2>0 DEF Spent
  <2>2. executed[r] \in Nat /\ consents[r] \in Nat /\ Waiting(Granted(r)) \in Nat
    BY WaitingType DEF Typed, TallyTyped, Tallies
  <2>3. executed'[r] = IF r = Head(inbox).req THEN executed[r] + 1 ELSE executed[r]
    BY <2>1, CountFacts DEF Typed, TallyTyped
  <2>4. r = Head(inbox).req =>
          Profile[r].tier <= 1 \/ (Profile[r].tier = 2 /\ Head(inbox) \in Granted(r))
    BY <2>1 DEF Plays, Granted, Lines
  <2>5. /\ Waiting(Granted(r))' \in Nat /\ Waiting(Granted(r))' <= Waiting(Granted(r))
        /\ Head(inbox) \in Granted(r) => Waiting(Granted(r))' = Waiting(Granted(r)) - 1
    BY <2>0, WaitingTaken
  <2>6. /\ Profile[r].tier = 2 => executed[r] + Waiting(Granted(r)) <= consents[r]
        /\ Profile[r].tier = 3 => executed[r] = 0
    BY DEF Spent
  <2> QED
    BY <2>2, <2>3, <2>4, <2>5, <2>6
<1>11. CASE KernelAnswers
  <2>1. inbox # <<>> /\ inbox' = Tail(inbox) /\ consents' = consents /\ executed' = executed
    BY <1>11 DEF KernelAnswers, KernelSays
  <2> QED
    BY <2>1, WaitingTaken, SpentKept
<1> QED
  BY <1>3, <1>4, <1>5, <1>6, <1>8, <1>9, <1>10, <1>11 DEF Next

(* However the owner hurries, a tier-2 request is played at most once for  *)
(* every time its own text was approved at the kernel's question, and one  *)
(* of tier 3 never.                                                        *)
THEOREM ConsentSpent == Spec => []ConsentIsSpent
<1>1. Init => Typed /\ Fresh /\ Spent
  BY TypedInit, SpentInit DEF Init, Fresh, Sorted
<1>2. Typed /\ Fresh /\ Spent /\ [Next]_vars => (Typed /\ Fresh /\ Spent)'
  BY TypedStep, FreshStep, SpentStep
<1>3. Typed /\ Fresh /\ Spent => ConsentIsSpent
  <2> SUFFICES ASSUME Typed, Fresh, Spent, NEW r \in Requests, executed[r] > 0,
                      Profile[r].tier >= 2
               PROVE  Profile[r].tier = 2 /\ executed[r] <= consents[r]
    BY DEF ConsentIsSpent
  <2>1. executed[r] \in Nat /\ consents[r] \in Nat /\ Waiting(Granted(r)) \in Nat
    BY WaitingType DEF Typed, TallyTyped, Tallies
  <2>2. Profile[r].tier \in 0..3
    BY HudAssumption
  <2>3. Profile[r].tier # 3
    BY <2>1 DEF Spent
  <2>4. Profile[r].tier = 2 /\ executed[r] + Waiting(Granted(r)) <= consents[r]
    BY <2>2, <2>3 DEF Spent
  <2> QED
    BY <2>1, <2>4
<1> QED
  BY <1>1, <1>2, <1>3, PTL DEF Spec

-----------------------------------------------------------------------------
(* One line at a time: the prompt is about what it says.                   *)

(* The request that the controller takes a call to be about.               *)
Subject(tag) ==
  CASE tag = "do" -> lastDo
    [] tag = "preview" -> lastPreview
    [] tag = "preview-before-do" -> staged

(* While the owner settles one line before the next: one call at a time    *)
(* and none under an open prompt, ...                                      *)
OneCall == (\A c, d \in pending : c = d) /\ (pending # {} => confirm = NoPrompt)

(* ... everything in the pipes under the id of the call awaited is about   *)
(* the request on record, and only a `do` is refused, ...                  *)
OnSubject ==
  \A c \in pending :
    /\ \A k \in DOMAIN inbox :
         inbox[k].id = c.id => inbox[k].tag = c.tag /\ inbox[k].req = Subject(c.tag)
    /\ \A k \in DOMAIN outbox :
         outbox[k].id = c.id =>
           outbox[k].req = Subject(c.tag) /\ (outbox[k].kind = "refused" => c.tag = "do")
    /\ c.tag = "preview-before-do" => staged # NoRequest

(* ... and the prompt and the plan held agree with the record.             *)
Matching ==
  /\ confirm.about = confirm.req
  /\ confirm.gate = "KERNEL_CONSENT" => confirm.req = lastDo
  /\ lastPlan \in {NoRequest, lastPlanReq}

Serial == OneCall /\ OnSubject /\ Matching

(* What a call is about stays what it is while the controller's records    *)
(* stay.                                                                   *)
LEMMA SubjectKept ==
  ASSUME UNCHANGED <<staged, lastDo, lastPreview>>, NEW tag \in Tags
  PROVE  Subject(tag)' = Subject(tag)
  BY DEF Subject, Tags

(* A step that adds nothing to the pipes keeps the calls on their subject. *)
LEMMA OnSubjectKept ==
  ASSUME Typed, OnSubject, UNCHANGED <<staged, lastDo, lastPreview, pending, inbox>>,
         \A k \in DOMAIN outbox' : \E j \in DOMAIN outbox : outbox'[k] = outbox[j]
  PROVE  OnSubject'
<1>1. \A c \in pending : c.tag \in Tags
  BY DEF Typed, WireTyped, Calls
<1>2. \A c \in pending : Subject(c.tag)' = Subject(c.tag)
  BY <1>1, SubjectKept
<1> QED
  BY <1>2 DEF OnSubject

(* The only call awaited is about the request on record.                   *)
LEMMA SerialSend ==
  ASSUME Typed, Fresh, NEW tag \in Tags, NEW r \in Texts, NEW allow \in BOOLEAN,
         Send(tag, r, allow, {}), Subject(tag)' = r,
         \A k \in DOMAIN outbox' : outbox'[k].id \in 1..sent,
         tag = "preview-before-do" => staged' # NoRequest
  PROVE  (\A c, d \in pending' : c = d) /\ OnSubject'
<1>0. sent \in Nat /\ inbox \in Seq(Frames)
  BY DEF Typed, WireTyped
<1>1. CASE ready
  <2> DEFINE m == [id |-> sent + 1, tag |-> tag, req |-> r, allow |-> allow]
  <2>1. /\ m \in Frames /\ m.id = sent + 1 /\ m.tag = tag /\ m.req = r
        /\ inbox' = Append(inbox, m)
        /\ pending' = {[id |-> sent + 1, tag |-> tag]}
    BY <1>0, <1>1 DEF Send, Frames
  <2> HIDE DEF m
  <2>2. \A c \in pending' : c.id = sent + 1 /\ c.tag = tag
    BY <2>1
  <2>3. \A k \in DOMAIN inbox' :
          inbox'[k].id = sent + 1 => inbox'[k].tag = tag /\ inbox'[k].req = r
    <3> SUFFICES ASSUME NEW k \in DOMAIN inbox', inbox'[k].id = sent + 1
                 PROVE  inbox'[k] = m
      BY <2>1
    <3>1. (k \in DOMAIN inbox /\ inbox'[k] = inbox[k]) \/ inbox'[k] = m
      BY <1>0, <2>1, AppendElements
    <3> QED
      BY <1>0, <3>1 DEF Fresh
  <2>4. \A k \in DOMAIN outbox' : outbox'[k].id # sent + 1
    BY <1>0
  <2> QED
    BY <2>1, <2>2, <2>3, <2>4 DEF OnSubject
<1>2. CASE ~ready
  <2>1. pending' = {}
    BY <1>2 DEF Send
  <2> QED
    BY <2>1 DEF OnSubject
<1> QED
  BY <1>1, <1>2

(* An answer to the only call, or its loss, keeps things in series.        *)
LEMMA SerialCompleted ==
  ASSUME Typed, Fresh, Serial, NEW call \in pending, NEW kind, NEW r \in Texts,
         Completed(call, kind, r),
         \/ r = Subject(call.tag) /\ (kind = "refused" => call.tag = "do")
         \/ r = NoRequest /\ kind = "lost",
         \A k \in DOMAIN outbox' : outbox'[k].id \in 1..sent
  PROVE  Serial'
<1>0. pending \ {call} = {} /\ confirm = NoPrompt
  BY DEF Serial, OneCall
<1>1. CASE call.tag = "preview"
  <2>1. /\ pending' = {} /\ confirm' = confirm /\ lastDo' = lastDo
        /\ lastPlan' = PlanOf(kind, r) /\ lastPlanReq' = lastPreview
    BY <1>0, <1>1 DEF Completed, PreviewCompleted
  <2>2. lastPlan' \in {NoRequest, lastPreview}
    BY <1>1, <2>1 DEF PlanOf, Subject
  <2> QED
    BY <2>1, <2>2 DEF Serial, OneCall, OnSubject, Matching
<1>2. CASE call.tag = "preview-before-do"
  <2>0. ResolveStaged(call, kind, r)
    BY <1>2 DEF Completed
  <2> DEFINE plan == PlanOf(kind, r)
             sends == kind \notin {"unmatched", "lost"} /\ ~NeedsConfirmation(plan)
  <2>1. plan \in {NoRequest, staged} /\ (plan # NoRequest => plan = staged)
    BY <1>2 DEF PlanOf, Subject
  <2>2. /\ lastPlan' = plan /\ lastPlanReq' = staged
        /\ confirm' = IF NeedsConfirmation(plan)
                        THEN [gate |-> "REVERSIBILITY", req |-> staged, about |-> plan]
                        ELSE NoPrompt
    BY <1>0, <2>0 DEF ResolveStaged
  <2>3. NeedsConfirmation(plan) => plan = staged
    BY <2>1 DEF NeedsConfirmation
  <2> HIDE DEF plan
  <2>4. Matching'
    BY <2>1, <2>2, <2>3 DEF Matching, NoPrompt
  <2>5. CASE sends
    <3>1. /\ Send("do", staged, FALSE, {}) /\ lastDo' = staged /\ confirm' = NoPrompt
      BY <1>0, <2>0, <2>2, <2>5 DEF ResolveStaged, plan
    <3>2. Subject("do")' = staged /\ "do" \in Tags /\ staged \in Texts /\ "do" # "preview-before-do"
      BY <3>1 DEF Subject, Tags, Typed, HeldTyped
    <3>3. (\A c, d \in pending' : c = d) /\ OnSubject'
      BY <3>1, <3>2, SerialSend
    <3> QED
      BY <2>4, <3>1, <3>3 DEF Serial, OneCall
  <2>6. CASE ~sends
    <3>1. pending' = {}
      BY <1>0, <2>0, <2>6 DEF ResolveStaged, plan
    <3> QED
      BY <2>4, <3>1 DEF Serial, OneCall, OnSubject
  <2> QED
    BY <2>5, <2>6
<1>3. CASE call.tag = "do"
  <2>1. DoCompleted(call, kind, r)
    BY <1>3 DEF Completed
  <2>2. pending' = {} /\ lastPlan' = lastPlan /\ lastPlanReq' = lastPlanReq /\ lastDo' = lastDo
    BY <1>0, <2>1 DEF DoCompleted, holdVars
  <2>3. \/ confirm' = NoPrompt
        \/ confirm' = [gate |-> "KERNEL_CONSENT", req |-> lastDo, about |-> lastDo]
    BY <1>0, <1>3, <2>1 DEF DoCompleted, Subject
  <2>4. Matching'
    BY <2>2, <2>3 DEF Serial, Matching, NoPrompt
  <2> QED
    BY <2>2, <2>4 DEF Serial, OneCall, OnSubject
<1> QED
  BY <1>1, <1>2, <1>3 DEF Typed, WireTyped, Calls, Tags

(* Closing the prompt keeps things in series.                              *)
LEMMA SerialClosed ==
  ASSUME Typed, Serial, confirm' = NoPrompt,
         UNCHANGED <<lastDo, lastPreview, lastPlan, lastPlanReq>>,
         \/ pending' = {}
         \/ /\ pending' = pending /\ inbox' = inbox /\ outbox' = outbox
            /\ staged' = IF confirm = NoPrompt THEN staged ELSE NoRequest
  PROVE  Serial'
<1>1. Matching'
  BY DEF Serial, Matching, NoPrompt
<1>2. CASE pending' = {}
  BY <1>1, <1>2 DEF Serial, OneCall, OnSubject
<1>3. CASE pending' # {}
  <2>1. /\ pending' = pending /\ inbox' = inbox /\ outbox' = outbox /\ staged' = staged
    BY <1>3 DEF Serial, OneCall
  <2>2. OnSubject'
    BY <2>1, OnSubjectKept DEF Serial
  <2> QED
    BY <1>1, <2>1, <2>2 DEF Serial, OneCall
<1> QED
  BY <1>2, <1>3

(* The server answers a call with the request it was made for.             *)
LEMMA SerialKernel ==
  ASSUME Typed, Serial, inbox # <<>>, NEW kind \in Kinds, KernelSays(kind),
         kind = "refused" => Head(inbox).tag = "do"
  PROVE  Serial'
<1>0. inbox \in Seq(Frames) /\ outbox \in Seq(Answers)
  BY DEF Typed, WireTyped
<1> DEFINE a == [id |-> Head(inbox).id, kind |-> kind, req |-> Head(inbox).req]
<1>1. /\ inbox' = Tail(inbox) /\ outbox' = Append(outbox, a)
      /\ pending' = pending /\ confirm' = confirm
      /\ UNCHANGED <<staged, lastDo, lastPreview, lastPlan, lastPlanReq>>
  BY DEF KernelSays, holdVars
<1>2. Head(inbox) \in Frames /\ a \in Answers
  BY <1>0, HeadElement DEF Frames, Answers
<1>3. OneCall' /\ Matching'
  BY <1>1 DEF Serial, OneCall, Matching
<1>4. a.id = Head(inbox).id /\ a.kind = kind /\ a.req = Head(inbox).req
  OBVIOUS
<1> HIDE DEF a
<1>5. OnSubject'
  <2> SUFFICES ASSUME NEW c \in pending
               PROVE  /\ \A k \in DOMAIN inbox' :
                           inbox'[k].id = c.id =>
                             inbox'[k].tag = c.tag /\ inbox'[k].req = Subject(c.tag)
                      /\ \A k \in DOMAIN outbox' :
                           outbox'[k].id = c.id =>
                             /\ outbox'[k].req = Subject(c.tag)
                             /\ outbox'[k].kind = "refused" => c.tag = "do"
                      /\ c.tag = "preview-before-do" => staged # NoRequest
    <3>1. \A c \in pending : c.tag \in Tags
      BY DEF Typed, WireTyped, Calls
    <3>2. \A c \in pending : Subject(c.tag)' = Subject(c.tag)
      BY <1>1, <3>1, SubjectKept
    <3> QED
      BY <1>1, <3>2 DEF OnSubject
  <2>1. \A k \in DOMAIN inbox :
          inbox[k].id = c.id => inbox[k].tag = c.tag /\ inbox[k].req = Subject(c.tag)
    BY DEF Serial, OnSubject
  <2>2. \A k \in DOMAIN inbox' : k + 1 \in DOMAIN inbox /\ inbox'[k] = inbox[k + 1]
    BY <1>0, <1>1, TailElements
  <2>3. a.id = c.id => a.req = Subject(c.tag) /\ (a.kind = "refused" => c.tag = "do")
    BY <1>0, <1>4, <2>1, HeadElement
  <2>4. \A k \in DOMAIN outbox' :
          (k \in DOMAIN outbox /\ outbox'[k] = outbox[k]) \/ outbox'[k] = a
    BY <1>0, <1>1, <1>2, AppendElements
  <2> QED
    BY <2>1, <2>2, <2>3, <2>4 DEF Serial, OnSubject
<1> QED
  BY <1>3, <1>5 DEF Serial

(* While the owner settles one line before the next, every step keeps      *)
(* things in series.                                                       *)
LEMMA SerialStep ==
  ASSUME Typed, Fresh, ~hasty => Serial, [Next]_vars
  PROVE  ~hasty' => Serial'
<1> SUFFICES ASSUME ~hasty'
             PROVE  Serial'
  OBVIOUS
<1>0. ~hasty /\ Serial
  <2>1. ~hasty
    BY DEF Next, vars, pastVars, FinishBoot, Connect, HandshakeDone, HandshakeFails, Disconnect,
       ProcessError, ProcessExits, SetPolicy, Do, Preview, Approve, Decline, Reply,
       Expire, KernelPlays, KernelAnswers, KernelSays
  <2> QED
    BY <2>1
<1>a. outbox \in Seq(Answers)
  BY DEF Typed, WireTyped
<1>1. CASE FinishBoot \/ HandshakeDone
           \/ (\E name \in Policies : SetPolicy(name)) \/ UNCHANGED vars
  <2>1. UNCHANGED <<pending, inbox, outbox, confirm, staged, lastDo, lastPreview,
                    lastPlan, lastPlanReq>>
    BY <1>1 DEF FinishBoot, HandshakeDone, SetPolicy, vars, wireVars, holdVars
  <2>2. OnSubject'
    BY <1>0, <2>1, OnSubjectKept DEF Serial
  <2> QED
    BY <1>0, <2>1, <2>2 DEF Serial, OneCall, Matching
<1>2. CASE Connect
  <2>1. UNCHANGED <<lastDo, lastPreview, lastPlan, lastPlanReq, pending, inbox, outbox>>
    BY <1>2 DEF Connect, wireVars
  <2>2. CASE UNCHANGED <<confirm, staged>>
    <3>1. OnSubject'
      BY <1>0, <2>1, <2>2, OnSubjectKept DEF Serial
    <3> QED
      BY <1>0, <2>1, <2>2, <3>1 DEF Serial, OneCall, Matching
  <2>3. CASE confirm' = NoPrompt /\ staged' = IF confirm = NoPrompt THEN staged ELSE NoRequest
    BY <1>0, <2>1, <2>3, SerialClosed
  <2> QED
    BY <1>2, <2>2, <2>3 DEF Connect
<1>3. CASE ProcessError
  BY <1>0, <1>3, SerialClosed DEF ProcessError, Disconnected, wireVars
<1>4. CASE HandshakeFails \/ ProcessExits
  BY <1>0, <1>4, SerialClosed DEF HandshakeFails, ProcessExits, Stop, Disconnected
<1>5. CASE Disconnect
  <2>1. pending' = {} /\ UNCHANGED <<lastDo, lastPreview, lastPlan, lastPlanReq>>
    BY <1>5 DEF Disconnect, Stop
  <2>2. CASE confirm' = confirm
    BY <1>0, <2>1, <2>2 DEF Serial, OneCall, OnSubject, Matching
  <2>3. CASE confirm' = NoPrompt
    BY <1>0, <2>1, <2>3, SerialClosed
  <2> QED
    BY <1>5, <2>2, <2>3 DEF Disconnect, Disconnected
<1>6. CASE Decline
  <2>1. /\ pending = {} /\ pending' = {} /\ confirm' = NoPrompt
        /\ UNCHANGED <<lastDo, lastPreview, lastPlan, lastPlanReq>>
    BY <1>0, <1>6 DEF Decline, wireVars, Serial, OneCall
  <2> QED
    BY <1>0, <2>1, SerialClosed
<1>7. ASSUME NEW r \in Requests, Do(r) \/ Preview(r)
      PROVE  Serial'
  <2>1. pending = {} /\ confirm' = NoPrompt /\ UNCHANGED <<lastPlan, lastPlanReq>>
    BY <1>7 DEF Do, Preview, Settled
  <2>2. PICK tag \in Tags : /\ Send(tag, r, FALSE, {})
                            /\ Subject(tag)' = r
                            /\ tag = "preview-before-do" => staged' = r
    BY <1>7, <2>1 DEF Do, Preview, Tags, Subject
  <2>3. r \in Texts /\ r # NoRequest
    BY HudAssumption DEF Texts
  <2>4. \A k \in DOMAIN outbox' : outbox'[k].id \in 1..sent
    BY <1>7 DEF Do, Preview, Fresh
  <2>5. (\A c, d \in pending' : c = d) /\ OnSubject'
    BY <2>2, <2>3, <2>4, SerialSend
  <2>6. Matching'
    BY <1>0, <2>1 DEF Serial, Matching, NoPrompt
  <2> QED
    BY <2>1, <2>5, <2>6 DEF Serial, OneCall
<1>8. CASE Approve
  <2>1. pending = {} /\ confirm' = NoPrompt /\ UNCHANGED <<lastPlan, lastPlanReq>>
    BY <1>0, <1>8 DEF Approve, Serial, OneCall
  <2>2. Send("do", confirm.req, Grants(confirm.gate), {}) /\ lastDo' = confirm.req
    BY <1>0, <1>8, <2>1 DEF Approve, Serial, Matching
  <2>3. /\ confirm.req \in Texts /\ Grants(confirm.gate) \in BOOLEAN /\ "do" \in Tags
        /\ Subject("do")' = confirm.req
    BY <2>2 DEF Typed, HudTyped, Prompts, Grants, Tags, Subject
  <2>4. \A k \in DOMAIN outbox' : outbox'[k].id \in 1..sent
    BY <1>8 DEF Approve, Fresh
  <2>5. (\A c, d \in pending' : c = d) /\ OnSubject'
    BY <2>2, <2>3, <2>4, SerialSend
  <2>6. Matching'
    BY <1>0, <2>1 DEF Serial, Matching, NoPrompt
  <2> QED
    BY <2>1, <2>5, <2>6 DEF Serial, OneCall
<1>9. CASE Reply
  <2>1. outbox # <<>> /\ outbox' = Tail(outbox)
    BY <1>9 DEF Reply
  <2>2. \A k \in DOMAIN outbox' : k + 1 \in DOMAIN outbox /\ outbox'[k] = outbox[k + 1]
    BY <1>a, <2>1, TailElements
  <2>3. CASE {c \in pending : c.id = Head(outbox).id} = {}
    <3>1. UNCHANGED <<pending, inbox, confirm, staged, lastDo, lastPreview, lastPlan, lastPlanReq>>
      BY <1>9, <2>3 DEF Reply, wireVars, holdVars
    <3> QED
      <4>1. OnSubject'
        BY <1>0, <2>2, <3>1, OnSubjectKept DEF Serial
      <4> QED
        BY <1>0, <3>1, <4>1 DEF Serial, OneCall, Matching
  <2>4. CASE {c \in pending : c.id = Head(outbox).id} # {}
    <3>1. PICK c \in pending : /\ c.id = Head(outbox).id
                               /\ Completed(c, Head(outbox).kind, Head(outbox).req)
      BY <1>9, <2>4 DEF Reply
    <3>2. 1 \in DOMAIN outbox /\ Head(outbox) = outbox[1] /\ Head(outbox) \in Answers
      BY <1>a, <2>1, HeadElement
    <3>3. /\ Head(outbox).req = Subject(c.tag)
          /\ Head(outbox).kind = "refused" => c.tag = "do"
      BY <1>0, <3>1, <3>2 DEF Serial, OnSubject
    <3>4. Head(outbox).req \in Texts
      BY <3>2 DEF Answers
    <3>5. \A k \in DOMAIN outbox' : outbox'[k].id \in 1..sent
      BY <2>2 DEF Fresh
    <3> QED
      BY <1>0, <3>1, <3>3, <3>4, <3>5, SerialCompleted
  <2> QED
    BY <2>3, <2>4
<1>10. CASE Expire
  <2>1. PICK c \in pending : Completed(c, "lost", NoRequest)
    BY <1>10 DEF Expire, Abandon
  <2>2. (\A k \in DOMAIN outbox' : outbox'[k].id \in 1..sent) /\ NoRequest \in Texts
    BY <1>10 DEF Expire, Fresh, Texts
  <2> QED
    BY <1>0, <2>1, <2>2, SerialCompleted
<1>11. CASE KernelPlays
  <2>1. inbox # <<>> /\ (\E kind \in {"ok", "failed"} : KernelSays(kind))
    BY <1>11 DEF KernelPlays
  <2> QED
    BY <1>0, <2>1, SerialKernel DEF Kinds
<1>12. CASE KernelAnswers
  <2>1. PICK kind \in Kinds : KernelSays(kind) /\ (kind = "refused" => Head(inbox).tag = "do")
    BY <1>12 DEF KernelAnswers, Kinds
  <2>2. inbox # <<>>
    BY <1>12 DEF KernelAnswers
  <2> QED
    BY <1>0, <2>1, <2>2, SerialKernel
<1> QED
  BY <1>1, <1>2, <1>3, <1>4, <1>5, <1>6, <1>7, <1>8, <1>9, <1>10, <1>11, <1>12 DEF Next

(* While the owner settles one line before the next, a prompt names the    *)
(* request that the plan or the refusal behind it is about, and so does    *)
(* the plan shown.                                                         *)
THEOREM PromptRight == Spec => []PromptMatches
<1>1. Init => Typed /\ Fresh /\ (~hasty => Serial)
  BY TypedInit DEF Init, Fresh, Sorted, Serial, OneCall, OnSubject, Matching, NoPrompt
<1>2. Typed /\ Fresh /\ (~hasty => Serial) /\ [Next]_vars
        => (Typed /\ Fresh /\ (~hasty => Serial))'
  BY TypedStep, FreshStep, SerialStep
<1>3. Typed /\ Fresh /\ (~hasty => Serial) => PromptMatches
  BY DEF PromptMatches, Serial, Matching, ShownPlan
<1> QED
  BY <1>1, <1>2, <1>3, PTL DEF Spec

-----------------------------------------------------------------------------
(* One line at a time: whatever is played was asked for, and acknowledged. *)

(* A request may still be played because a refusal of it is on its way, or *)
(* because the kernel's question about it is open; ...                     *)
Refused(r) ==
  \E c \in pending, k \in DOMAIN outbox :
    /\ c.tag = "do" /\ outbox[k].id = c.id
    /\ outbox[k].kind = "refused" /\ outbox[k].req = r

Due(r) == Refused(r) \/ (confirm.gate = "KERNEL_CONSENT" /\ confirm.req = r)

(* ... or, if it was asked for and no more, since its preview or its       *)
(* prompt is before the owner.                                             *)
Owed(r) ==
  \/ Due(r) \/ confirm.req = r
  \/ staged = r /\ (\E c \in pending : c.tag = "preview-before-do")

(* A condition as a number, and what has been played or waits to be.       *)
Unit(b) == IF b THEN 1 ELSE 0
Spending(r) == executed[r] + Waiting(Lines(r))

(* What is played, waits to be played or may yet be sent is covered by the *)
(* lines asked for; if it cannot be undone, by an acknowledgement or a     *)
(* waiver.                                                                 *)
Debts ==
  \A r \in Requests :
    /\ Spending(r) + Unit(Owed(r)) <= asked[r]
    /\ Irreversible(r) => Spending(r) + Unit(Due(r)) <= acked[r] + waived[r]

(* What is played or waits to be played is a number.                       *)
LEMMA SpendingType ==
  ASSUME Typed, Fresh, NEW r \in Requests
  PROVE  /\ executed[r] \in Nat /\ Waiting(Lines(r)) \in Nat /\ Spending(r) \in Nat
         /\ asked[r] \in Nat /\ acked[r] \in Nat /\ waived[r] \in Nat
<1>1. /\ executed[r] \in Nat /\ Waiting(Lines(r)) \in Nat
      /\ asked[r] \in Nat /\ acked[r] \in Nat /\ waived[r] \in Nat
  BY WaitingType DEF Typed, TallyTyped, Tallies
<1> QED
  BY <1>1 DEF Spending

(* With the prompt closed and only a new call awaited, nothing more is     *)
(* owed.                                                                   *)
LEMMA NoneOwed ==
  ASSUME NEW r \in Requests, confirm' = NoPrompt,
         \A c \in pending' : /\ c.tag # "preview-before-do"
                              /\ \A k \in DOMAIN outbox' : outbox'[k].id # c.id
  PROVE  ~Owed(r)' /\ ~Due(r)'
<1>1. r # NoRequest
  BY HudAssumption
<1>2. ~Due(r)'
  BY DEF Due, Refused, NoPrompt
<1> QED
  BY <1>1, <1>2 DEF Owed, NoPrompt

(* A step that plays or sends no more than it uses up keeps the debts      *)
(* covered.                                                                *)
LEMMA DebtsKept ==
  ASSUME Typed, Fresh, Typed', Fresh', Debts,
         asked' = asked, acked' = acked,
         \A r \in Requests :
           /\ waived'[r] >= waived[r]
           /\ Spending(r)' <= Spending(r) + 1
           /\ Spending(r)' = Spending(r) + 1 =>
                ~Owed(r)' /\ ~Due(r)' /\ Owed(r)
                /\ (Irreversible(r) => Due(r) \/ waived'[r] >= waived[r] + 1)
           /\ Spending(r)' = Spending(r) => (Owed(r)' => Owed(r)) /\ (Due(r)' => Due(r))
  PROVE  Debts'
<1> SUFFICES ASSUME NEW r \in Requests
             PROVE  /\ Spending(r)' + Unit(Owed(r)') <= asked[r]
                    /\ Irreversible(r) =>
                         Spending(r)' + Unit(Due(r)') <= acked[r] + waived'[r]
  BY DEF Debts, Unit, Irreversible
<1>1. /\ Spending(r) \in Nat /\ asked[r] \in Nat /\ acked[r] \in Nat
      /\ waived[r] \in Nat /\ Spending(r)' \in Nat /\ waived'[r] \in Nat
  <2>1. executed'[r] \in Nat /\ Waiting(Lines(r))' \in Nat /\ waived'[r] \in Nat
    <3>1. Ids(inbox', Lines(r)) = Ids(inbox, Lines(r))' /\ sent' \in Nat
      BY DEF Typed, WireTyped
    <3>2. Waiting(Lines(r))' \in Nat
      BY <3>1, IdsFinite DEF Fresh, Waiting
    <3> QED
      BY <3>2 DEF Typed, TallyTyped, Tallies
  <2> QED
    BY <2>1, SpendingType DEF Spending
<1>2. /\ Spending(r) + Unit(Owed(r)) <= asked[r]
      /\ Irreversible(r) => Spending(r) + Unit(Due(r)) <= acked[r] + waived[r]
  BY DEF Debts
<1>3. CASE Spending(r)' = Spending(r) + 1
  BY <1>1, <1>2, <1>3 DEF Unit
<1>4. CASE Spending(r)' = Spending(r)
  BY <1>1, <1>2, <1>4 DEF Unit
<1>5. CASE Spending(r)' < Spending(r)
  BY <1>1, <1>2, <1>5 DEF Unit
<1> QED
  BY <1>1, <1>3, <1>4, <1>5

(* Sending adds at most one to what will be played, of the request that is *)
(* sent.                                                                   *)
LEMMA SpendingSend ==
  ASSUME Typed, Fresh, NEW tag \in Tags, NEW q \in Texts, NEW allow \in BOOLEAN,
         NEW others, Send(tag, q, allow, others), executed' = executed, NEW r \in Requests
  PROVE  /\ Spending(r)' \in {Spending(r), Spending(r) + 1}
         /\ Spending(r)' # Spending(r) => ready /\ tag = "do" /\ r = q
<1>1. tag # "do" \/ r # q =>
        [id |-> sent + 1, tag |-> tag, req |-> q, allow |-> allow] \notin Lines(r)
  BY DEF Lines
<1>2. /\ Waiting(Lines(r))' \in {Waiting(Lines(r)), Waiting(Lines(r)) + 1}
      /\ ~ready \/ tag # "do" \/ r # q => Waiting(Lines(r))' = Waiting(Lines(r))
  BY <1>1, WaitingSent
<1>3. executed[r] \in Nat /\ Waiting(Lines(r)) \in Nat
  BY SpendingType
<1> QED
  BY <1>2, <1>3 DEF Spending

(* No answer in flight is about the call just sent.                        *)
LEMMA SentIsNew ==
  ASSUME Typed, Fresh, NEW tag \in Tags, NEW q, NEW allow, Send(tag, q, allow, {}),
         \A k \in DOMAIN outbox' : outbox'[k].id \in 1..sent
  PROVE  \A c \in pending' : /\ c.tag = tag
                             /\ \A k \in DOMAIN outbox' : outbox'[k].id # c.id
<1>1. sent \in Nat
  BY DEF Typed, WireTyped
<1>2. \A c \in pending' : c.tag = tag /\ c.id = sent + 1
  BY DEF Send
<1> QED
  BY <1>1, <1>2

(* The end of a call turns what it was owed into a frame, a prompt, or     *)
(* nothing.                                                                *)
LEMMA DebtsCompleted ==
  ASSUME Typed, Fresh, Serial, Typed', Fresh', Debts,
         NEW call \in pending, NEW kind \in Kinds \cup {"lost"}, NEW q \in Texts,
         Completed(call, kind, q),
         \/ /\ q = Subject(call.tag)
            /\ kind = "refused" => call.tag = "do" /\ Refused(q)
         \/ q = NoRequest /\ kind = "lost",
         \A k \in DOMAIN outbox' : outbox'[k].id \in 1..sent,
         asked' = asked, acked' = acked, executed' = executed
  PROVE  Debts'
<1>0. pending \ {call} = {} /\ confirm = NoPrompt /\ waived \in Tallies
  BY DEF Serial, OneCall, Typed, TallyTyped
<1>z. \A r \in Requests : waived[r] \in Nat /\ Spending(r) \in Nat
  BY SpendingType
<1>a. CASE call.tag = "preview"
  <2>1. pending' = {} /\ confirm' = confirm /\ inbox' = inbox /\ waived' = waived
    BY <1>0, <1>a DEF Completed, PreviewCompleted
  <2>2. \A r \in Requests : ~Owed(r)' /\ ~Due(r)'
    BY <1>0, <2>1, NoneOwed
  <2>3. \A r \in Requests : Spending(r)' = Spending(r)
    BY <2>1 DEF Spending, Waiting
  <2>4. \A r \in Requests : /\ waived'[r] >= waived[r]
                             /\ Spending(r)' <= Spending(r) + 1
                             /\ Spending(r)' # Spending(r) + 1
    BY <1>z, <2>1, <2>3
  <2> QED
    BY <2>2, <2>4, DebtsKept
<1>b. CASE call.tag = "preview-before-do"
  <2>0. ResolveStaged(call, kind, q)
    BY <1>b DEF Completed
  <2> DEFINE plan == PlanOf(kind, q)
             sends == kind \notin {"unmatched", "lost"} /\ ~NeedsConfirmation(plan)
             excused == policy = "KERNEL_ONLY" \/ kind = "failed"
  <2>1. CASE sends
    <3>1. /\ Send("do", staged, FALSE, {}) /\ confirm' = NoPrompt
          /\ waived' = IF excused THEN Count(waived, staged) ELSE waived
      BY <1>0, <2>0, <2>1 DEF ResolveStaged
    <3>2. "do" \in Tags /\ staged \in Texts /\ "do" # "preview-before-do"
      BY DEF Tags, Typed, HeldTyped
    <3>3. \A c \in pending' : /\ c.tag # "preview-before-do"
                              /\ \A k \in DOMAIN outbox' : outbox'[k].id # c.id
      BY <3>1, <3>2, SentIsNew
    <3>4. \A r \in Requests : ~Owed(r)' /\ ~Due(r)'
      BY <3>1, <3>3, NoneOwed
    <3>5. \A r \in Requests : /\ Spending(r)' \in {Spending(r), Spending(r) + 1}
                               /\ Spending(r)' # Spending(r) => r = staged
      BY <3>1, <3>2, SpendingSend
    <3>6. \A r \in Requests : r = staged => Owed(r)
      BY <1>b DEF Owed
    <3>7. staged \in Requests /\ Irreversible(staged) => excused
      <4>1. SUFFICES ASSUME staged \in Requests, Irreversible(staged), ~excused
                     PROVE  FALSE
        OBVIOUS
      <4>2. kind = "ok" /\ q = staged
        BY <1>b, <2>1, <4>1 DEF Kinds, Subject
      <4>3. plan = staged /\ staged # NoRequest
        BY <4>1, <4>2, HudAssumption DEF PlanOf
      <4>4. policy \in {"IRREVERSIBLE", "ALWAYS"}
        BY <4>1 DEF Typed, HudTyped, Policies
      <4>5. NeedsConfirmation(plan)
        BY <4>1, <4>3, <4>4 DEF NeedsConfirmation, Irreversible
      <4> QED
        BY <2>1, <4>5
    <3>8. \A r \in Requests :
            /\ waived'[r] >= waived[r]
            /\ excused /\ r = staged => waived'[r] >= waived[r] + 1
      BY <1>0, <1>z, <3>1, CountFacts
    <3> HIDE DEF excused
    <3>9. \A r \in Requests :
            /\ waived'[r] >= waived[r]
            /\ Spending(r)' <= Spending(r) + 1
            /\ Spending(r)' = Spending(r) + 1 =>
                 Owed(r) /\ (Irreversible(r) => waived'[r] >= waived[r] + 1)
      <4> SUFFICES ASSUME NEW r \in Requests
                   PROVE  /\ waived'[r] >= waived[r]
                          /\ Spending(r)' <= Spending(r) + 1
                          /\ Spending(r)' = Spending(r) + 1 =>
                               Owed(r) /\ (Irreversible(r) => waived'[r] >= waived[r] + 1)
        OBVIOUS
      <4>1. CASE Spending(r)' = Spending(r)
        BY <1>z, <3>8, <4>1
      <4>2. CASE Spending(r)' # Spending(r)
        <5>1. r = staged /\ Spending(r)' = Spending(r) + 1
          BY <3>1, <3>2, <4>2, SpendingSend
        <5>2. Irreversible(r) => excused
          BY <3>7, <5>1
        <5> QED
          BY <1>z, <3>6, <3>8, <5>1, <5>2
      <4> QED
        BY <4>1, <4>2
    <3> QED
      BY <3>4, <3>9, DebtsKept
  <2>2. CASE ~sends
    <3>1. /\ pending' = {} /\ inbox' = inbox /\ waived' = waived
          /\ \/ confirm' = NoPrompt
             \/ confirm' = [gate |-> "REVERSIBILITY", req |-> staged, about |-> plan]
      BY <1>0, <2>0, <2>2 DEF ResolveStaged
    <3>2. \A r \in Requests : ~Due(r)' /\ (Owed(r)' => Owed(r))
      BY <1>b, <3>1, HudAssumption DEF Due, Refused, Owed, NoPrompt
    <3>3. \A r \in Requests : Spending(r)' = Spending(r)
      BY <3>1 DEF Spending, Waiting
    <3>4. \A r \in Requests : /\ waived'[r] >= waived[r]
                               /\ Spending(r)' <= Spending(r) + 1
                               /\ Spending(r)' # Spending(r) + 1
      BY <1>z, <3>1, <3>3
    <3> QED
      BY <3>2, <3>4, DebtsKept
  <2> QED
    BY <2>1, <2>2
<1>c. CASE call.tag = "do"
  <2>0. DoCompleted(call, kind, q)
    BY <1>c DEF Completed
  <2>1. /\ pending' = {} /\ inbox' = inbox /\ waived' = waived
        /\ \/ confirm' = NoPrompt
           \/ /\ kind = "refused"
              /\ confirm' = [gate |-> "KERNEL_CONSENT", req |-> lastDo, about |-> q]
    BY <1>0, <2>0 DEF DoCompleted
  <2>2. kind = "refused" => q = lastDo /\ Refused(q)
    BY <1>c DEF Subject
  <2>3. \A r \in Requests : (Due(r)' => Due(r)) /\ (Owed(r)' => Owed(r))
    BY <2>1, <2>2, HudAssumption DEF Due, Refused, Owed, NoPrompt
  <2>4. \A r \in Requests : Spending(r)' = Spending(r)
    BY <2>1 DEF Spending, Waiting
  <2>5. \A r \in Requests : /\ waived'[r] >= waived[r]
                             /\ Spending(r)' <= Spending(r) + 1
                             /\ Spending(r)' # Spending(r) + 1
    BY <1>z, <2>1, <2>4
  <2> QED
    BY <2>3, <2>5, DebtsKept
<1> QED
  BY <1>a, <1>b, <1>c DEF Typed, WireTyped, Calls, Tags

(* Losing calls, frames or the prompt leaves no more owed.                 *)
LEMMA DebtsQuiet ==
  ASSUME Typed, Fresh, Typed', Fresh', Debts,
         UNCHANGED <<asked, acked, waived, executed>>,
         inbox' = inbox \/ inbox' = <<>>,
         pending' \in SUBSET pending,
         \A k \in DOMAIN outbox' : \E j \in DOMAIN outbox : outbox'[k] = outbox[j],
         confirm' = confirm \/ confirm' = NoPrompt,
         staged' = staged \/ staged' = NoRequest
  PROVE  Debts'
<1>1. \A r \in Requests : waived[r] \in Nat /\ Spending(r) \in Nat
  BY SpendingType
<1>2. \A r \in Requests : Spending(r)' <= Spending(r)
  <2> SUFFICES ASSUME NEW r \in Requests
               PROVE  Spending(r)' <= Spending(r)
    OBVIOUS
  <2>1. CASE inbox' = inbox
    BY <1>1, <2>1 DEF Spending, Waiting
  <2>2. CASE inbox' = <<>>
    <3>1. Waiting(Lines(r))' = 0 /\ executed[r] \in Nat /\ Waiting(Lines(r)) \in Nat
      BY <2>2, WaitingEmpty, SpendingType
    <3> QED
      BY <3>1 DEF Spending
  <2> QED
    BY <2>1, <2>2
<1>3. \A r \in Requests : r # NoRequest
  BY HudAssumption
<1>4. \A r \in Requests : Refused(r)' => Refused(r)
  BY DEF Refused
<1>5. \A r \in Requests : (Due(r)' => Due(r)) /\ (Owed(r)' => Owed(r))
  BY <1>3, <1>4 DEF Due, Owed, NoPrompt
<1>6. \A r \in Requests :
        /\ waived'[r] >= waived[r] /\ Spending(r)' <= Spending(r) + 1
        /\ Spending(r)' # Spending(r) + 1
  <2> SUFFICES ASSUME NEW r \in Requests
               PROVE  /\ waived'[r] >= waived[r] /\ Spending(r)' <= Spending(r) + 1
                      /\ Spending(r)' # Spending(r) + 1
    OBVIOUS
  <2>1. Spending(r)' \in Int
    <3>1. Waiting(Lines(r))' \in Nat /\ executed'[r] \in Nat
      <4>1. IsFiniteSet(Ids(inbox', Lines(r))) /\ Cardinality(Ids(inbox', Lines(r))) \in Nat
        BY IdsFinite DEF Fresh, Typed, WireTyped
      <4> QED
        BY <4>1 DEF Waiting, Typed, TallyTyped, Tallies
    <3> QED
      BY <3>1 DEF Spending
  <2> QED
    BY <1>1, <1>2, <2>1
<1> QED
  BY <1>5, <1>6, DebtsKept

(* A line of the owner's pays for what it may lead to.                     *)
LEMMA DebtsAsk ==
  ASSUME Typed, Fresh, Typed', Fresh', Debts, pending = {}, confirm = NoPrompt,
         NEW q \in Requests, Do(q)
  PROVE  Debts'
<1> SUFFICES ASSUME NEW r \in Requests
             PROVE  /\ Spending(r)' + Unit(Owed(r)') <= asked'[r]
                    /\ Irreversible(r) =>
                         Spending(r)' + Unit(Due(r)') <= acked'[r] + waived'[r]
  BY DEF Debts, Unit, Irreversible
<1>1. /\ Spending(r) \in Nat /\ asked[r] \in Nat /\ acked[r] \in Nat /\ waived[r] \in Nat
      /\ asked \in Tallies /\ waived \in Tallies
  BY SpendingType DEF Typed, TallyTyped
<1>2. /\ Spending(r) <= asked[r]
      /\ Irreversible(r) => Spending(r) <= acked[r] + waived[r]
  <2>1. Unit(Owed(r)) \in {0, 1} /\ Unit(Due(r)) \in {0, 1}
    BY DEF Unit
  <2> QED
    BY <1>1, <2>1 DEF Debts
<1>3. /\ asked' = Count(asked, q) /\ acked' = acked /\ executed' = executed
      /\ confirm' = NoPrompt /\ q \in Texts
      /\ \A k \in DOMAIN outbox' : outbox'[k].id \in 1..sent
  BY DEF Do, Fresh, Texts
<1>4. asked'[r] = IF r = q THEN asked[r] + 1 ELSE asked[r]
  BY <1>1, <1>3, CountFacts
<1>5. CASE policy = "KERNEL_ONLY"
  <2>1. Send("do", q, FALSE, {}) /\ waived' = Count(waived, q) /\ "do" \in Tags
    BY <1>5 DEF Do, Tags
  <2>2. /\ Spending(r)' \in {Spending(r), Spending(r) + 1}
        /\ Spending(r)' # Spending(r) => r = q
    BY <1>3, <2>1, SpendingSend
  <2>3. \A c \in pending' : /\ c.tag = "do"
                            /\ \A k \in DOMAIN outbox' : outbox'[k].id # c.id
    BY <1>3, <2>1, SentIsNew
  <2>4. ~Owed(r)' /\ ~Due(r)'
    BY <1>3, <2>3, NoneOwed
  <2>5. waived'[r] = IF r = q THEN waived[r] + 1 ELSE waived[r]
    BY <1>1, <2>1, CountFacts
  <2>6. Unit(Owed(r)') = 0 /\ Unit(Due(r)') = 0
    BY <2>4 DEF Unit
  <2> QED
    BY <1>1, <1>2, <1>3, <1>4, <2>2, <2>5, <2>6
<1>6. CASE policy # "KERNEL_ONLY"
  <2>1. /\ Send("preview-before-do", q, FALSE, {}) /\ waived' = waived /\ staged' = q
        /\ "preview-before-do" \in Tags
    BY <1>6 DEF Do, Tags
  <2>2. Spending(r)' = Spending(r)
    BY <1>3, <2>1, SpendingSend
  <2>3. \A c \in pending' : /\ c.tag = "preview-before-do"
                            /\ \A k \in DOMAIN outbox' : outbox'[k].id # c.id
    BY <1>3, <2>1, SentIsNew
  <2>4. r # NoRequest
    BY HudAssumption
  <2>5. ~Due(r)' /\ (Owed(r)' => r = q)
    BY <1>3, <2>1, <2>3, <2>4 DEF Due, Refused, Owed, NoPrompt
  <2>6. Unit(Due(r)') = 0 /\ Unit(Owed(r)') \in {0, 1} /\ (r # q => Unit(Owed(r)') = 0)
    BY <2>5 DEF Unit
  <2> QED
    BY <1>1, <1>2, <1>3, <1>4, <2>1, <2>2, <2>6
<1> QED
  BY <1>5, <1>6

(* An approval turns the prompt's due into a frame, once.                  *)
LEMMA DebtsApprove ==
  ASSUME Typed, Fresh, Typed', Fresh', Debts, pending = {}, Approve
  PROVE  Debts'
<1> SUFFICES ASSUME NEW r \in Requests
             PROVE  /\ Spending(r)' + Unit(Owed(r)') <= asked'[r]
                    /\ Irreversible(r) =>
                         Spending(r)' + Unit(Due(r)') <= acked'[r] + waived'[r]
  BY DEF Debts, Unit, Irreversible
<1>1. /\ Spending(r) \in Nat /\ asked[r] \in Nat /\ acked[r] \in Nat /\ waived[r] \in Nat
      /\ acked \in Tallies
  BY SpendingType DEF Typed, TallyTyped
<1>2. /\ Spending(r) + Unit(Owed(r)) <= asked[r]
      /\ Irreversible(r) => Spending(r) + Unit(Due(r)) <= acked[r] + waived[r]
  BY DEF Debts
<1>3. /\ Send("do", confirm.req, Grants(confirm.gate), {})
      /\ asked' = asked /\ waived' = waived /\ executed' = executed /\ confirm' = NoPrompt
      /\ \A k \in DOMAIN outbox' : outbox'[k].id \in 1..sent
  BY DEF Approve, Fresh
<1>4. confirm.req \in Texts /\ Grants(confirm.gate) \in BOOLEAN /\ "do" \in Tags
  BY DEF Typed, HudTyped, Prompts, Grants, Tags
<1>5. /\ Spending(r)' \in {Spending(r), Spending(r) + 1}
      /\ Spending(r)' # Spending(r) => r = confirm.req
  BY <1>3, <1>4, SpendingSend
<1>6. \A c \in pending' : /\ c.tag = "do"
                          /\ \A k \in DOMAIN outbox' : outbox'[k].id # c.id
  BY <1>3, <1>4, SentIsNew
<1>7. ~Owed(r)' /\ ~Due(r)'
  BY <1>3, <1>6, NoneOwed
<1>8. /\ Unit(Owed(r)') = 0 /\ Unit(Due(r)') = 0
      /\ Unit(Owed(r)) \in {0, 1} /\ Unit(Due(r)) \in {0, 1}
      /\ r = confirm.req => Unit(Owed(r)) = 1
      /\ r = confirm.req /\ confirm.gate = "KERNEL_CONSENT" => Unit(Due(r)) = 1
  BY <1>7 DEF Unit, Owed, Due
<1>9. /\ acked'[r] \in {acked[r], acked[r] + 1}
      /\ r = confirm.req /\ confirm.gate # "KERNEL_CONSENT" => acked'[r] = acked[r] + 1
  <2>1. acked' = IF confirm.gate = "KERNEL_CONSENT" THEN acked ELSE Count(acked, confirm.req)
    BY DEF Approve
  <2> QED
    BY <1>1, <2>1, CountFacts
<1> QED
  BY <1>1, <1>2, <1>3, <1>5, <1>8, <1>9

(* The kernel plays a frame once, or hands its due back with the refusal.  *)
LEMMA DebtsKernel ==
  ASSUME Typed, Fresh, Typed', Fresh', Debts, inbox # <<>>,
         NEW kind \in Kinds, KernelSays(kind),
         kind = "refused" => Head(inbox).tag = "do",
         \/ executed' = executed
         \/ /\ executed' = Count(executed, Head(inbox).req) /\ Head(inbox).tag = "do"
            /\ kind # "refused"
  PROVE  Debts'
<1>0. inbox \in Seq(Frames) /\ outbox \in Seq(Answers)
  BY DEF Typed, WireTyped
<1> DEFINE a == [id |-> Head(inbox).id, kind |-> kind, req |-> Head(inbox).req]
<1>1. /\ inbox' = Tail(inbox) /\ outbox' = Append(outbox, a) /\ pending' = pending
      /\ confirm' = confirm /\ staged' = staged
      /\ asked' = asked /\ acked' = acked /\ waived' = waived
  BY DEF KernelSays, holdVars
<1>2. Head(inbox) \in Frames /\ a \in Answers
  BY <1>0, HeadElement DEF Frames, Answers
<1>3. a.kind = kind /\ a.req = Head(inbox).req
  OBVIOUS
<1> HIDE DEF a
<1>4. \A k \in DOMAIN outbox' :
        (k \in DOMAIN outbox /\ outbox'[k] = outbox[k]) \/ outbox'[k] = a
  BY <1>0, <1>1, <1>2, AppendElements
<1>5. ASSUME NEW r \in Requests
      PROVE  /\ waived'[r] >= waived[r]
             /\ Spending(r)' <= Spending(r) + 1
             /\ Spending(r)' # Spending(r) + 1
             /\ Spending(r)' = Spending(r) => (Owed(r)' => Owed(r)) /\ (Due(r)' => Due(r))
  <2>1. /\ waived[r] \in Nat /\ executed[r] \in Nat /\ Waiting(Lines(r)) \in Nat
        /\ executed \in Tallies
    BY SpendingType DEF Typed, TallyTyped
  <2>2. /\ Waiting(Lines(r))' \in Nat /\ Waiting(Lines(r))' <= Waiting(Lines(r))
        /\ Head(inbox) \in Lines(r) => Waiting(Lines(r))' = Waiting(Lines(r)) - 1
    BY <1>1, WaitingTaken
  <2>3. Head(inbox).tag = "do" /\ Head(inbox).req = r => Head(inbox) \in Lines(r)
    BY <1>2 DEF Lines
  <2>4. CASE executed' = executed
    <3>1. Spending(r)' <= Spending(r) /\ Spending(r)' \in Int /\ Spending(r) \in Int
      BY <2>1, <2>2, <2>4 DEF Spending
    <3>2. Spending(r)' = Spending(r) => Head(inbox) \notin Lines(r)
      BY <2>1, <2>2, <2>4 DEF Spending
    <3>3. Head(inbox) \notin Lines(r) => ~(a.kind = "refused" /\ a.req = r)
      BY <1>3, <2>3
    <3>4. Head(inbox) \notin Lines(r) => (Refused(r)' => Refused(r))
      BY <1>1, <1>4, <3>3 DEF Refused
    <3>5. Head(inbox) \notin Lines(r) => (Owed(r)' => Owed(r)) /\ (Due(r)' => Due(r))
      BY <1>1, <3>4 DEF Owed, Due
    <3> QED
      BY <1>1, <2>1, <3>1, <3>2, <3>5
  <2>5. CASE /\ executed' = Count(executed, Head(inbox).req) /\ Head(inbox).tag = "do"
             /\ kind # "refused"
    <3>1. executed'[r] = IF r = Head(inbox).req THEN executed[r] + 1 ELSE executed[r]
      BY <2>1, <2>5, CountFacts
    <3>2. Spending(r)' <= Spending(r) /\ Spending(r)' \in Int /\ Spending(r) \in Int
      BY <2>1, <2>2, <2>3, <2>5, <3>1 DEF Spending
    <3>4. Refused(r)' => Refused(r)
      BY <1>1, <1>3, <1>4, <2>5 DEF Refused
    <3>5. (Owed(r)' => Owed(r)) /\ (Due(r)' => Due(r))
      BY <1>1, <3>4 DEF Owed, Due
    <3> QED
      BY <1>1, <2>1, <3>2, <3>5
  <2> QED
    BY <2>4, <2>5
<1> QED
  BY <1>1, <1>5, DebtsKept

(* While the owner settles one line before the next, every step keeps the  *)
(* debts covered.                                                          *)
LEMMA DebtsStep ==
  ASSUME Typed, Fresh, ~hasty => Serial /\ Debts, Typed', Fresh', ~hasty' => Serial', [Next]_vars
  PROVE  ~hasty' => Debts'
<1> SUFFICES ASSUME ~hasty'
             PROVE  Debts'
  OBVIOUS
<1>0. ~hasty /\ Serial /\ Debts /\ outbox \in Seq(Answers)
  <2>1. ~hasty
    BY DEF Next, vars, pastVars, FinishBoot, Connect, HandshakeDone, HandshakeFails, Disconnect,
       ProcessError, ProcessExits, SetPolicy, Do, Preview, Approve, Decline, Reply,
       Expire, KernelPlays, KernelAnswers, KernelSays
  <2> QED
    BY <2>1 DEF Typed, WireTyped
<1>1. CASE FinishBoot \/ Connect \/ HandshakeDone \/ ProcessError \/ Decline
           \/ (\E name \in Policies : SetPolicy(name)) \/ UNCHANGED vars
  <2>1. /\ UNCHANGED <<asked, acked, waived, executed, inbox, pending, outbox>>
        /\ confirm' = confirm \/ confirm' = NoPrompt
        /\ staged' = staged \/ staged' = NoRequest
    BY <1>1 DEF FinishBoot, Connect, HandshakeDone, ProcessError, Decline, Disconnected,
       SetPolicy, vars, wireVars, pastVars, holdVars
  <2>2. pending' \in SUBSET pending
    BY <2>1
  <2> QED
    BY <1>0, <2>1, <2>2, DebtsQuiet
<1>2. CASE HandshakeFails \/ Disconnect \/ ProcessExits
  <2>1. /\ UNCHANGED <<asked, acked, waived, executed>>
        /\ inbox' = <<>> /\ pending' = {} /\ outbox' = <<>>
        /\ confirm' = confirm \/ confirm' = NoPrompt
        /\ staged' = staged \/ staged' = NoRequest
    BY <1>2 DEF HandshakeFails, Disconnect, ProcessExits, Stop, Disconnected, pastVars
  <2>2. \A k \in DOMAIN outbox' : \E j \in DOMAIN outbox : outbox'[k] = outbox[j]
    BY <2>1
  <2> QED
    BY <1>0, <2>1, <2>2, DebtsQuiet
<1>3. ASSUME NEW q \in Requests, Do(q)
      PROVE  Debts'
  <2>1. pending = {} /\ confirm = NoPrompt
    BY <1>3 DEF Do, Settled
  <2> QED
    BY <1>0, <1>3, <2>1, DebtsAsk
<1>4. ASSUME NEW q \in Requests, Preview(q)
      PROVE  Debts'
  <2>1. /\ Send("preview", q, FALSE, {}) /\ confirm' = NoPrompt /\ q \in Texts
        /\ "preview" \in Tags /\ UNCHANGED <<asked, acked, waived, executed>>
        /\ \A k \in DOMAIN outbox' : outbox'[k].id \in 1..sent
    BY <1>4 DEF Preview, Settled, Texts, Tags, Fresh
  <2>2. \A c \in pending' : /\ c.tag = "preview"
                            /\ \A k \in DOMAIN outbox' : outbox'[k].id # c.id
    BY <2>1, SentIsNew
  <2>3. \A r \in Requests : ~Owed(r)' /\ ~Due(r)'
    BY <2>1, <2>2, NoneOwed
  <2>4. ASSUME NEW r \in Requests
        PROVE  waived'[r] >= waived[r] /\ Spending(r)' <= Spending(r) + 1
               /\ Spending(r)' # Spending(r) + 1
    <3>1. Spending(r)' = Spending(r)
      BY <2>1, SpendingSend
    <3> QED
      BY <2>1, <3>1, SpendingType
  <2> QED
    BY <1>0, <2>1, <2>3, <2>4, DebtsKept
<1>5. CASE Approve
  <2>1. pending = {}
    BY <1>0, <1>5 DEF Approve, Serial, OneCall
  <2> QED
    BY <1>0, <1>5, <2>1, DebtsApprove
<1>6. CASE Reply
  <2>1. outbox # <<>> /\ outbox' = Tail(outbox)
    BY <1>6 DEF Reply
  <2>2. \A k \in DOMAIN outbox' : k + 1 \in DOMAIN outbox /\ outbox'[k] = outbox[k + 1]
    BY <1>0, <2>1, TailElements
  <2>3. CASE {c \in pending : c.id = Head(outbox).id} = {}
    <3>1. /\ UNCHANGED <<pending, inbox, confirm, staged, asked, acked, waived, executed>>
          /\ pending' \in SUBSET pending
      BY <1>6, <2>3 DEF Reply, wireVars, holdVars
    <3>2. \A k \in DOMAIN outbox' : \E j \in DOMAIN outbox : outbox'[k] = outbox[j]
      BY <2>2
    <3> QED
      BY <1>0, <3>1, <3>2, DebtsQuiet
  <2>4. CASE {c \in pending : c.id = Head(outbox).id} # {}
    <3>1. PICK c \in pending : /\ c.id = Head(outbox).id
                               /\ Completed(c, Head(outbox).kind, Head(outbox).req)
      BY <1>6, <2>4 DEF Reply
    <3>2. 1 \in DOMAIN outbox /\ Head(outbox) = outbox[1] /\ Head(outbox) \in Answers
      BY <1>0, <2>1, HeadElement
    <3>3. /\ Head(outbox).req = Subject(c.tag)
          /\ Head(outbox).kind = "refused" => c.tag = "do"
      BY <1>0, <3>1, <3>2 DEF Serial, OnSubject
    <3>4. Head(outbox).kind = "refused" => Refused(Head(outbox).req)
      BY <3>1, <3>2, <3>3 DEF Refused
    <3>5. Head(outbox).req \in Texts /\ Head(outbox).kind \in Kinds \cup {"lost"}
      BY <3>2 DEF Answers
    <3>6. \A k \in DOMAIN outbox' : outbox'[k].id \in 1..sent
      BY <2>2 DEF Fresh
    <3>7. asked' = asked /\ acked' = acked /\ executed' = executed
      BY <1>6 DEF Reply
    <3> QED
      BY <1>0, <3>1, <3>3, <3>4, <3>5, <3>6, <3>7, DebtsCompleted
  <2> QED
    BY <2>3, <2>4
<1>7. CASE Expire
  <2>1. PICK c \in pending : Completed(c, "lost", NoRequest)
    BY <1>7 DEF Expire, Abandon
  <2>2. /\ \A k \in DOMAIN outbox' : outbox'[k].id \in 1..sent
        /\ NoRequest \in Texts /\ "lost" \in Kinds \cup {"lost"}
        /\ asked' = asked /\ acked' = acked /\ executed' = executed
    BY <1>7 DEF Expire, Fresh, Texts
  <2> QED
    BY <1>0, <2>1, <2>2, DebtsCompleted
<1>8. CASE KernelPlays
  <2>1. PICK kind \in {"ok", "failed"} : KernelSays(kind)
    BY <1>8 DEF KernelPlays
  <2>2. /\ inbox # <<>> /\ kind \in Kinds /\ kind # "refused"
        /\ executed' = Count(executed, Head(inbox).req) /\ Head(inbox).tag = "do"
    BY <1>8 DEF KernelPlays, Plays, Kinds
  <2> QED
    BY <1>0, <2>1, <2>2, DebtsKernel
<1>9. CASE KernelAnswers
  <2>1. PICK kind \in Kinds : KernelSays(kind) /\ (kind = "refused" => Head(inbox).tag = "do")
    BY <1>9 DEF KernelAnswers, Kinds
  <2>2. inbox # <<>> /\ executed' = executed
    BY <1>9 DEF KernelAnswers
  <2> QED
    BY <1>0, <2>1, <2>2, DebtsKernel
<1> QED
  BY <1>1, <1>2, <1>3, <1>4, <1>5, <1>6, <1>7, <1>8, <1>9 DEF Next

(* The strengthening of GateTwo and OncePerAsk that is inductive.          *)
ConsentInv == Typed /\ Fresh /\ (~hasty => Serial /\ Debts)

(* The inductive invariant behind the two gates.                           *)
LEMMA ConsentInvariant == Spec => []ConsentInv
<1>1. Init => ConsentInv
  <2> SUFFICES ASSUME Init
               PROVE  ConsentInv
    OBVIOUS
  <2>1. Typed /\ Fresh /\ Serial
    BY TypedInit DEF Init, Fresh, Sorted, Serial, OneCall, OnSubject, Matching, NoPrompt
  <2>2. \A r \in Requests : Ids(inbox, Lines(r)) = {}
    BY DEF Init, Ids
  <2>3. \A r \in Requests : /\ Waiting(Lines(r)) = 0 /\ r # NoRequest
                             /\ executed[r] = 0 /\ asked[r] = 0 /\ acked[r] = 0 /\ waived[r] = 0
    BY <2>2, FS_EmptySet, HudAssumption DEF Init, Waiting
  <2>4. \A r \in Requests : ~Owed(r) /\ ~Due(r)
    BY <2>3 DEF Init, Owed, Due, Refused, NoPrompt
  <2>5. Debts
    BY <2>3, <2>4 DEF Debts, Spending, Unit
  <2> QED
    BY <2>1, <2>5 DEF ConsentInv
<1>2. ConsentInv /\ [Next]_vars => ConsentInv'
  <2> SUFFICES ASSUME ConsentInv, [Next]_vars
               PROVE  ConsentInv'
    OBVIOUS
  <2>1. Typed /\ Fresh /\ (~hasty => Serial) /\ (~hasty => Serial /\ Debts)
    BY DEF ConsentInv
  <2>2. Typed' /\ Fresh' /\ (~hasty' => Serial')
    BY <2>1, TypedStep, FreshStep, SerialStep
  <2>3. ~hasty' => Debts'
    BY <2>1, <2>2, DebtsStep
  <2> QED
    BY <2>2, <2>3 DEF ConsentInv
<1> QED
  BY <1>1, <1>2, PTL DEF Spec

(* While the owner settles one line before the next, the kernel plays a    *)
(* request at most once for every time it was asked for.                   *)
THEOREM PlayedOncePerAsk == Spec => []OncePerAsk
<1>1. ConsentInv => OncePerAsk
  <2> SUFFICES ASSUME ConsentInv, ~hasty, NEW r \in Requests
               PROVE  executed[r] <= asked[r]
    BY DEF OncePerAsk
  <2>1. /\ executed[r] \in Nat /\ Waiting(Lines(r)) \in Nat /\ asked[r] \in Nat
    BY SpendingType DEF ConsentInv
  <2>2. Spending(r) + Unit(Owed(r)) <= asked[r] /\ Unit(Owed(r)) \in {0, 1}
    BY DEF ConsentInv, Debts, Unit
  <2> QED
    BY <2>1, <2>2 DEF Spending
<1> QED
  BY <1>1, ConsentInvariant, PTL

(* While the owner settles one line before the next, what cannot be taken  *)
(* back is played only as often as it was acknowledged, or waived.         *)
THEOREM GateTwoHolds == Spec => []GateTwo
<1>1. ConsentInv => GateTwo
  <2> SUFFICES ASSUME ConsentInv, ~hasty, NEW r \in Requests, Irreversible(r)
               PROVE  executed[r] <= acked[r] + waived[r]
    BY DEF GateTwo, Gated
  <2>1. /\ executed[r] \in Nat /\ Waiting(Lines(r)) \in Nat
        /\ acked[r] \in Nat /\ waived[r] \in Nat
    BY SpendingType DEF ConsentInv
  <2>2. Spending(r) + Unit(Due(r)) <= acked[r] + waived[r] /\ Unit(Due(r)) \in {0, 1}
    BY DEF ConsentInv, Debts, Unit
  <2> QED
    BY <2>1, <2>2 DEF Spending
<1> QED
  BY <1>1, ConsentInvariant, PTL

-----------------------------------------------------------------------------
(* The bounds.                                                             *)

(* The calls of a tag.                                                     *)
Tagged(S, t) == Cardinality({c \in S : c.tag = t})

(* A prompt of gate g, as a number.                                        *)
Asks(g) == Unit(confirm.gate = g)

(* An open prompt has a gate.                                              *)
Named == confirm # NoPrompt => confirm.gate # "none"

(* The tallies are bounded by the ids taken: a call awaited and a prompt   *)
(* stand for the count they may yet become.                                *)
Bounds ==
  /\ Named
  /\ IsFiniteSet(pending)
  /\ sent + Tagged(pending, "preview-before-do") <= MaxCalls
  /\ \A r \in Requests :
       /\ asked[r] <= sent
       /\ executed[r] + Len(inbox) <= sent
       /\ waived[r] + Tagged(pending, "preview-before-do") <= sent
       /\ acked[r] + Asks("REVERSIBILITY")
            + Tagged(pending, "preview-before-do") <= sent
       /\ consents[r] + Asks("KERNEL_CONSENT")
            + Tagged(pending, "do") <= sent

(* The calls of a tag can be counted.                                      *)
LEMMA TaggedType ==
  ASSUME NEW S, IsFiniteSet(S), NEW t
  PROVE  IsFiniteSet({c \in S : c.tag = t}) /\ Tagged(S, t) \in Nat
<1>1. {c \in S : c.tag = t} \in SUBSET S
  OBVIOUS
<1> QED
  BY <1>1, FS_Subset, FS_CardinalityType DEF Tagged

(* A call that ends is one less of its tag.                                *)
LEMMA TaggedLess ==
  ASSUME NEW S, IsFiniteSet(S), NEW call \in S, NEW t
  PROVE  /\ IsFiniteSet(S \ {call})
         /\ Tagged(S \ {call}, t) = IF call.tag = t THEN Tagged(S, t) - 1 ELSE Tagged(S, t)
<1>1. IsFiniteSet({c \in S : c.tag = t})
  BY TaggedType
<1>2. {c \in S \ {call} : c.tag = t} = {c \in S : c.tag = t} \ {call}
  OBVIOUS
<1>3. call \in {c \in S : c.tag = t} <=> call.tag = t
  OBVIOUS
<1>4. Cardinality({c \in S : c.tag = t} \ {call})
        = IF call \in {c \in S : c.tag = t}
            THEN Cardinality({c \in S : c.tag = t}) - 1
            ELSE Cardinality({c \in S : c.tag = t})
  BY <1>1, FS_RemoveElement
<1>5. IsFiniteSet(S \ {call})
  BY FS_RemoveElement
<1> QED
  BY <1>2, <1>3, <1>4, <1>5 DEF Tagged

(* A call that is added is at most one more of its tag.                    *)
LEMMA TaggedMore ==
  ASSUME NEW S, IsFiniteSet(S), NEW call, NEW t
  PROVE  /\ IsFiniteSet(S \cup {call})
         /\ Tagged(S \cup {call}, t) \in Nat
         /\ Tagged(S \cup {call}, t) <= Tagged(S, t) + (IF call.tag = t THEN 1 ELSE 0)
<1>1. IsFiniteSet({c \in S : c.tag = t}) /\ Tagged(S, t) \in Nat
  BY TaggedType
<1>2. IsFiniteSet(S \cup {call})
  BY FS_AddElement
<1>3. Tagged(S \cup {call}, t) \in Nat
  BY <1>2, TaggedType
<1>4. CASE call.tag = t
  <2>1. {c \in S \cup {call} : c.tag = t} = {c \in S : c.tag = t} \cup {call}
    BY <1>4
  <2>2. Cardinality({c \in S : c.tag = t} \cup {call}) \in
          {Cardinality({c \in S : c.tag = t}), Cardinality({c \in S : c.tag = t}) + 1}
    BY <1>1, FS_AddElement
  <2>3. Tagged(S \cup {call}, t) \in {Tagged(S, t), Tagged(S, t) + 1}
    BY <2>1, <2>2 DEF Tagged
  <2> QED
    BY <1>1, <1>2, <1>3, <1>4, <2>3
<1>5. CASE call.tag # t
  <2>1. {c \in S \cup {call} : c.tag = t} = {c \in S : c.tag = t}
    BY <1>5
  <2>2. Tagged(S \cup {call}, t) = Tagged(S, t)
    BY <2>1 DEF Tagged
  <2> QED
    BY <1>1, <1>2, <1>3, <1>5, <2>2
<1> QED
  BY <1>4, <1>5

(* No calls, none of any tag.                                              *)
LEMMA TaggedNone == \A t : Tagged({}, t) = 0
<1>1. \A t : {c \in {} : c.tag = t} = {}
  OBVIOUS
<1> QED
  BY <1>1, FS_EmptySet DEF Tagged

(* What sending adds to the ids, the pipe and the calls.                   *)
LEMMA BoundsSend ==
  ASSUME Typed, NEW tag \in Tags, NEW r \in Texts, NEW allow \in BOOLEAN,
         NEW others \in SUBSET pending, IsFiniteSet(others), Send(tag, r, allow, others)
  PROVE  /\ sent' = sent + Unit(ready) /\ Len(inbox') = Len(inbox) + Unit(ready)
         /\ IsFiniteSet(pending')
         /\ \A t \in Tags : /\ Tagged(others, t) \in Nat /\ Tagged(pending', t) \in Nat
                            /\ t = tag => Tagged(pending', t) <= Tagged(others, t) + Unit(ready)
                            /\ t # tag => Tagged(pending', t) <= Tagged(others, t)
<1>0. sent \in Nat /\ inbox \in Seq(Frames)
  BY DEF Typed, WireTyped
<1>1. \A t \in Tags : Tagged(others, t) \in Nat
  BY TaggedType
<1>2. CASE ready
  <2> DEFINE m == [id |-> sent + 1, tag |-> tag, req |-> r, allow |-> allow]
             c == [id |-> sent + 1, tag |-> tag]
  <2>1. /\ sent' = sent + 1 /\ inbox' = Append(inbox, m) /\ m \in Frames
        /\ pending' = others \cup {c} /\ c.tag = tag
    BY <1>0, <1>2 DEF Send, Frames
  <2> HIDE DEF m, c
  <2>2. Len(inbox') = Len(inbox) + 1
    BY <1>0, <2>1, AppendProperties
  <2>3. ASSUME NEW t \in Tags
        PROVE  /\ IsFiniteSet(others \cup {c}) /\ Tagged(others \cup {c}, t) \in Nat
               /\ t = tag => Tagged(others \cup {c}, t) <= Tagged(others, t) + 1
               /\ t # tag => Tagged(others \cup {c}, t) <= Tagged(others, t)
    <3>1. /\ IsFiniteSet(others \cup {c}) /\ Tagged(others \cup {c}, t) \in Nat
          /\ Tagged(others \cup {c}, t) <= Tagged(others, t) + (IF c.tag = t THEN 1 ELSE 0)
      BY TaggedMore
    <3> QED
      BY <1>1, <2>1, <3>1
  <2> QED
    BY <1>1, <1>2, <2>1, <2>2, <2>3 DEF Unit
<1>3. CASE ~ready
  <2>1. /\ Len(inbox) \in Nat
    BY <1>0, LenProperties
  <2> QED
    BY <1>0, <1>1, <1>3, <2>1 DEF Send, Unit
<1> QED
  BY <1>2, <1>3

(* All that is bounded are numbers.                                        *)
LEMMA BoundsType ==
  ASSUME Typed, Bounds
  PROVE  /\ sent \in Nat /\ MaxCalls \in Nat /\ Len(inbox) \in Nat
         /\ Tagged(pending, "preview-before-do") \in Nat /\ Tagged(pending, "do") \in Nat
         /\ \A r \in Requests : /\ asked[r] \in Nat /\ acked[r] \in Nat /\ waived[r] \in Nat
                                /\ consents[r] \in Nat /\ executed[r] \in Nat
<1>1. sent \in Nat /\ MaxCalls \in Nat /\ Len(inbox) \in Nat
  BY HudAssumption, LenProperties DEF Typed, WireTyped
<1>2. Tagged(pending, "preview-before-do") \in Nat /\ Tagged(pending, "do") \in Nat
  BY TaggedType DEF Bounds
<1> QED
  BY <1>1, <1>2 DEF Typed, TallyTyped, Tallies

(* Losing calls, frames or the prompt stays within the bounds.             *)
LEMMA BoundsQuiet ==
  ASSUME Typed, Bounds, UNCHANGED <<asked, acked, waived, consents, executed, sent>>,
         inbox' = inbox \/ inbox' = <<>>, pending' = pending \/ pending' = {},
         confirm' = confirm \/ confirm' = NoPrompt
  PROVE  Bounds'
<1>1. Len(inbox') \in Nat /\ Len(inbox') <= Len(inbox)
  BY BoundsType
<1>2. /\ IsFiniteSet(pending')
      /\ \A t \in {"preview-before-do", "do"} :
           Tagged(pending', t) \in Nat /\ Tagged(pending', t) <= Tagged(pending, t)
  <2>1. CASE pending' = pending
    BY <2>1, BoundsType DEF Bounds
  <2>2. CASE pending' = {}
    BY <2>2, BoundsType, TaggedNone, FS_EmptySet
  <2> QED
    BY <2>1, <2>2
<1>3. \A g \in {"REVERSIBILITY", "KERNEL_CONSENT"} :
        Asks(g)' \in {0, 1} /\ Asks(g) \in {0, 1} /\ Asks(g)' <= Asks(g)
  BY DEF Asks, Unit, NoPrompt
<1>4. /\ Asks("REVERSIBILITY") \in {0, 1} /\ Asks("REVERSIBILITY")' \in {0, 1}
      /\ Asks("REVERSIBILITY")' <= Asks("REVERSIBILITY")
      /\ Asks("KERNEL_CONSENT") \in {0, 1} /\ Asks("KERNEL_CONSENT")' \in {0, 1}
      /\ Asks("KERNEL_CONSENT")' <= Asks("KERNEL_CONSENT")
  BY <1>3
<1>5. sent' + Tagged(pending', "preview-before-do") <= MaxCalls
  BY <1>2, BoundsType DEF Bounds
<1>6. ASSUME NEW r \in Requests
      PROVE  /\ asked'[r] <= sent'
             /\ executed'[r] + Len(inbox') <= sent'
             /\ waived'[r] + Tagged(pending', "preview-before-do") <= sent'
             /\ acked'[r] + Asks("REVERSIBILITY")'
                  + Tagged(pending', "preview-before-do") <= sent'
             /\ consents'[r] + Asks("KERNEL_CONSENT")'
                  + Tagged(pending', "do") <= sent'
  <2>1. /\ sent \in Nat /\ Len(inbox) \in Nat /\ asked[r] \in Nat /\ acked[r] \in Nat
        /\ waived[r] \in Nat /\ consents[r] \in Nat /\ executed[r] \in Nat
        /\ Tagged(pending, "preview-before-do") \in Nat /\ Tagged(pending, "do") \in Nat
    BY BoundsType
  <2>2. /\ asked[r] <= sent
        /\ executed[r] + Len(inbox) <= sent
        /\ waived[r] + Tagged(pending, "preview-before-do") <= sent
        /\ acked[r] + Asks("REVERSIBILITY") + Tagged(pending, "preview-before-do") <= sent
        /\ consents[r] + Asks("KERNEL_CONSENT") + Tagged(pending, "do") <= sent
    BY DEF Bounds
  <2>3. /\ Tagged(pending', "preview-before-do") \in Nat /\ Tagged(pending', "do") \in Nat
        /\ Tagged(pending', "preview-before-do") <= Tagged(pending, "preview-before-do")
        /\ Tagged(pending', "do") <= Tagged(pending, "do")
    BY <1>2
  <2>4. /\ asked' = asked /\ acked' = acked /\ waived' = waived /\ consents' = consents
        /\ executed' = executed /\ sent' = sent
    OBVIOUS
  <2>5. executed'[r] + Len(inbox') <= sent' /\ asked'[r] <= sent'
    BY <1>1, <2>1, <2>2, <2>4
  <2>6. waived'[r] + Tagged(pending', "preview-before-do") <= sent'
    BY <2>1, <2>2, <2>3, <2>4
  <2>7. acked'[r] + Asks("REVERSIBILITY")' + Tagged(pending', "preview-before-do") <= sent'
    BY <1>4, <2>1, <2>2, <2>3, <2>4
  <2>8. consents'[r] + Asks("KERNEL_CONSENT")' + Tagged(pending', "do") <= sent'
    BY <1>4, <2>1, <2>2, <2>3, <2>4
  <2> QED
    BY <2>5, <2>6, <2>7, <2>8
<1> QED
  BY <1>2, <1>5, <1>6 DEF Bounds, Named

(* The end of a call hands its share of the bounds to what follows it.     *)
LEMMA BoundsCompleted ==
  ASSUME Typed, Bounds, NEW call \in pending, NEW kind, NEW q, Completed(call, kind, q),
         UNCHANGED <<asked, acked, consents, executed>>
  PROVE  Bounds'
<1> DEFINE rest == pending \ {call}
<1>0. /\ IsFiniteSet(rest) /\ rest \in SUBSET pending
      /\ Tagged(rest, "preview-before-do") =
              IF call.tag = "preview-before-do" THEN Tagged(pending, "preview-before-do") - 1
                                                 ELSE Tagged(pending, "preview-before-do")
      /\ Tagged(rest, "do") = IF call.tag = "do" THEN Tagged(pending, "do") - 1
                                                 ELSE Tagged(pending, "do")
      /\ Tagged(rest, "preview-before-do") \in Nat /\ Tagged(rest, "do") \in Nat
  BY TaggedLess, TaggedType DEF Bounds
<1> HIDE DEF rest
<1>u. /\ Asks("REVERSIBILITY") \in {0, 1} /\ Asks("REVERSIBILITY")' \in {0, 1}
      /\ Asks("KERNEL_CONSENT") \in {0, 1} /\ Asks("KERNEL_CONSENT")' \in {0, 1}
  BY DEF Asks, Unit
<1>n. Named'
  <2>1. \/ confirm' = confirm
        \/ confirm'.gate \in {"KERNEL_CONSENT", "REVERSIBILITY"}
    <3>1. CASE call.tag = "preview"
      BY <3>1 DEF Completed, PreviewCompleted
    <3>2. CASE call.tag = "preview-before-do"
      <4>1. ResolveStaged(call, kind, q)
        BY <3>2 DEF Completed
      <4> QED
        BY <4>1 DEF ResolveStaged
    <3>3. CASE call.tag = "do"
      <4>1. DoCompleted(call, kind, q)
        BY <3>3 DEF Completed
      <4> QED
        BY <4>1 DEF DoCompleted
    <3> QED
      BY <3>1, <3>2, <3>3 DEF Typed, WireTyped, Calls, Tags
  <2> QED
    BY <2>1 DEF Bounds, Named
<1>1. CASE call.tag = "preview-before-do"
  <2>0. ResolveStaged(call, kind, q)
    BY <1>1 DEF Completed
  <2>1. /\ sent' \in {sent, sent + 1} /\ Len(inbox') = Len(inbox) + (sent' - sent)
        /\ IsFiniteSet(pending')
        /\ Tagged(pending', "preview-before-do") \in Nat /\ Tagged(pending', "do") \in Nat
        /\ Tagged(pending', "preview-before-do") <= Tagged(rest, "preview-before-do")
        /\ Tagged(pending', "do") <= Tagged(rest, "do") + (sent' - sent)
    <3>1. CASE Send("do", staged, FALSE, rest)
      <4>1. /\ "do" \in Tags /\ "preview-before-do" \in Tags /\ staged \in Texts
            /\ "do" # "preview-before-do"
            /\ FALSE \in BOOLEAN
        BY DEF Tags, Typed, HeldTyped
      <4>2. /\ sent' = sent + Unit(ready) /\ Len(inbox') = Len(inbox) + Unit(ready)
            /\ IsFiniteSet(pending')
            /\ \A t \in Tags :
                 /\ Tagged(rest, t) \in Nat /\ Tagged(pending', t) \in Nat
                 /\ t = "do" => Tagged(pending', t) <= Tagged(rest, t) + Unit(ready)
                 /\ t # "do" => Tagged(pending', t) <= Tagged(rest, t)
        BY <1>0, <3>1, <4>1, BoundsSend
      <4>3. sent \in Nat /\ Unit(ready) \in {0, 1}
        BY BoundsType DEF Unit
      <4> QED
        BY <4>1, <4>2, <4>3
    <3>2. CASE ~Send("do", staged, FALSE, rest)
      <4>1. pending' = rest /\ sent' = sent /\ inbox' = inbox
        BY <2>0, <3>2 DEF ResolveStaged, rest
      <4> QED
        BY <1>0, <4>1, BoundsType
    <3> QED
      BY <3>1, <3>2
  <2>2. /\ confirm'.gate = "KERNEL_CONSENT" => confirm.gate = "KERNEL_CONSENT"
        /\ waived' = waived \/ waived' = Count(waived, staged)
    BY <2>0 DEF ResolveStaged
  <2>3. Asks("KERNEL_CONSENT")' <= Asks("KERNEL_CONSENT")
    BY <2>2 DEF Asks, Unit
  <2>4. \A r \in Requests : waived'[r] \in {waived[r], waived[r] + 1}
    <3>1. waived \in Tallies
      BY DEF Typed, TallyTyped
    <3> QED
      BY <2>2, <3>1, CountFacts
  <2>5. sent' + Tagged(pending', "preview-before-do") <= MaxCalls
    BY <1>0, <1>1, <2>1, BoundsType DEF Bounds
  <2>6. ASSUME NEW r \in Requests
        PROVE  /\ asked'[r] <= sent'
               /\ executed'[r] + Len(inbox') <= sent'
               /\ waived'[r] + Tagged(pending', "preview-before-do") <= sent'
               /\ acked'[r] + Asks("REVERSIBILITY")'
                    + Tagged(pending', "preview-before-do") <= sent'
               /\ consents'[r] + Asks("KERNEL_CONSENT")'
                    + Tagged(pending', "do") <= sent'
    <3>1. /\ sent \in Nat /\ Len(inbox) \in Nat /\ asked[r] \in Nat /\ acked[r] \in Nat
          /\ waived[r] \in Nat /\ consents[r] \in Nat /\ executed[r] \in Nat
          /\ Tagged(pending, "preview-before-do") \in Nat /\ Tagged(pending, "do") \in Nat
      BY BoundsType
    <3>2. /\ asked[r] <= sent
          /\ executed[r] + Len(inbox) <= sent
          /\ waived[r] + Tagged(pending, "preview-before-do") <= sent
          /\ acked[r] + Asks("REVERSIBILITY") + Tagged(pending, "preview-before-do") <= sent
          /\ consents[r] + Asks("KERNEL_CONSENT")
               + Tagged(pending, "do") <= sent
      BY DEF Bounds
    <3>3. waived'[r] \in {waived[r], waived[r] + 1}
      BY <2>4
    <3>4. /\ Tagged(pending', "preview-before-do") + 1 <= Tagged(pending, "preview-before-do")
          /\ Tagged(pending', "do") <= Tagged(pending, "do") + (sent' - sent)
      BY <1>0, <1>1, <2>1, <3>1
    <3>5. asked' = asked /\ acked' = acked /\ consents' = consents /\ executed' = executed
      OBVIOUS
    <3>a. sent' \in Nat /\ sent <= sent' /\ Tagged(pending', "preview-before-do") \in Nat
      BY <2>1, <3>1
    <3>6. executed'[r] + Len(inbox') <= sent' /\ asked'[r] <= sent'
      <4>1. executed[r] + Len(inbox) <= sent /\ asked[r] <= sent
        BY <3>2
      <4>2. Len(inbox') = Len(inbox) + (sent' - sent)
        BY <2>1
      <4> QED
        <5>1. asked'[r] = asked[r] /\ executed'[r] = executed[r]
          BY <3>5
        <5>2. asked'[r] <= sent'
          BY <5>1, <3>1, <3>a, <4>1
        <5>3. executed[r] + Len(inbox) + (sent' - sent) <= sent'
          BY <3>1, <3>a, <4>1
        <5>4. executed[r] + Len(inbox') <= sent'
          BY <3>1, <3>a, <4>2, <5>3
        <5>5. executed'[r] + Len(inbox') <= sent'
          BY <5>1, <5>4
        <5> QED
          BY <5>2, <5>5
    <3>7. waived'[r] + Tagged(pending', "preview-before-do") <= sent'
      <4>1. waived'[r] \in Nat /\ waived'[r] <= waived[r] + 1
        BY <3>1, <3>3
      <4>2. waived[r] + Tagged(pending, "preview-before-do") <= sent
        BY <3>2
      <4>3. Tagged(pending', "preview-before-do") + 1 <= Tagged(pending, "preview-before-do")
        BY <3>4
      <4> QED
        BY <3>1, <3>a, <4>1, <4>2, <4>3
    <3>8. acked'[r] + Asks("REVERSIBILITY")' + Tagged(pending', "preview-before-do") <= sent'
      <4>1. /\ Asks("REVERSIBILITY")' <= Asks("REVERSIBILITY") + 1
            /\ Asks("REVERSIBILITY")' \in Nat /\ Asks("REVERSIBILITY") \in Nat
        BY <1>u
      <4>2. acked[r] + Asks("REVERSIBILITY") + Tagged(pending, "preview-before-do") <= sent
        BY <3>2
      <4>3. Tagged(pending', "preview-before-do") + 1 <= Tagged(pending, "preview-before-do")
        BY <3>4
      <4> QED
        BY <3>1, <3>5, <3>a, <4>1, <4>2, <4>3
    <3>9. consents'[r] + Asks("KERNEL_CONSENT")' + Tagged(pending', "do") <= sent'
      <4>1. /\ Asks("KERNEL_CONSENT")' <= Asks("KERNEL_CONSENT")
            /\ Asks("KERNEL_CONSENT")' \in Nat /\ Asks("KERNEL_CONSENT") \in Nat
        BY <1>u, <2>3
      <4>2. consents[r] + Asks("KERNEL_CONSENT") + Tagged(pending, "do") <= sent
        BY <3>2
      <4>3. Tagged(pending', "do") \in Nat
            /\ Tagged(pending', "do") <= Tagged(pending, "do") + (sent' - sent)
        BY <2>1, <3>4
      <4>4. consents[r] \in Nat /\ Tagged(pending, "do") \in Nat
        BY <3>1
      <4>5. consents[r] + Asks("KERNEL_CONSENT")' + Tagged(pending', "do") <= sent'
        <5> DEFINE n == consents[r]
                   a == Asks("KERNEL_CONSENT")
                   a1 == Asks("KERNEL_CONSENT")'
                   d == Tagged(pending, "do")
                   d1 == Tagged(pending', "do")
                   k == sent' - sent
        <5>1. n \in Nat /\ a \in Nat /\ a1 \in Nat /\ d \in Nat /\ d1 \in Nat
          BY <4>1, <4>3, <4>4
        <5>2. sent \in Nat /\ k \in Nat
          BY <3>1, <3>a
        <5>3. n + a + d <= sent
          BY <4>2
        <5>4. a1 <= a /\ d1 <= d + k
          BY <4>1, <4>3
        <5>5. sent' = sent + k
          BY <3>1, <3>a
        <5> HIDE DEF n, a, a1, d, d1, k
        <5>6. n + a1 + d1 <= sent + k
          BY <5>1, <5>3, <5>4, <5>2
        <5> QED
          BY <5>5, <5>6 DEF n, a1, d1
      <4> QED
        BY <3>5, <4>5
    <3> QED
      BY <3>6, <3>7, <3>8, <3>9
  <2> QED
    BY <1>n, <2>1, <2>5, <2>6 DEF Bounds
<1>2. CASE call.tag # "preview-before-do"
  <2>0. call.tag \in Tags
    BY DEF Typed, WireTyped, Calls
  <2>1. pending' = rest /\ sent' = sent /\ inbox' = inbox /\ waived' = waived
    BY <1>2, <2>0 DEF Completed, PreviewCompleted, DoCompleted, rest, Tags
  <2>2. /\ confirm'.gate = "REVERSIBILITY" => confirm.gate = "REVERSIBILITY"
        /\ confirm'.gate = "KERNEL_CONSENT" =>
             confirm.gate = "KERNEL_CONSENT" \/ call.tag = "do"
    <3>1. CASE call.tag = "preview"
      BY <3>1 DEF Completed, PreviewCompleted
    <3>2. CASE call.tag = "do"
      <4>1. DoCompleted(call, kind, q)
        BY <3>2 DEF Completed
      <4>2. confirm' = confirm
            \/ confirm' = [gate |-> "KERNEL_CONSENT", req |-> lastDo, about |-> q]
        BY <4>1 DEF DoCompleted
      <4> QED
        BY <3>2, <4>2
    <3> QED
      BY <1>2, <2>0, <3>1, <3>2 DEF Tags
  <2>3. /\ Asks("REVERSIBILITY")' <= Asks("REVERSIBILITY")
        /\ Asks("KERNEL_CONSENT")' + Tagged(pending', "do")
             <= Asks("KERNEL_CONSENT") + Tagged(pending, "do")
        /\ Tagged(pending', "preview-before-do") <= Tagged(pending, "preview-before-do")
        /\ Tagged(pending', "do") \in Nat /\ Tagged(pending', "preview-before-do") \in Nat
    BY <1>0, <1>2, <2>1, <2>2, BoundsType DEF Asks, Unit
  <2>4. sent' + Tagged(pending', "preview-before-do") <= MaxCalls
    BY <2>1, <2>3, BoundsType DEF Bounds
  <2>5. ASSUME NEW r \in Requests
        PROVE  /\ asked'[r] <= sent'
               /\ executed'[r] + Len(inbox') <= sent'
               /\ waived'[r] + Tagged(pending', "preview-before-do") <= sent'
               /\ acked'[r] + Asks("REVERSIBILITY")'
                    + Tagged(pending', "preview-before-do") <= sent'
               /\ consents'[r] + Asks("KERNEL_CONSENT")'
                    + Tagged(pending', "do") <= sent'
    <3>1. /\ sent \in Nat /\ Len(inbox) \in Nat /\ asked[r] \in Nat /\ acked[r] \in Nat
          /\ waived[r] \in Nat /\ consents[r] \in Nat /\ executed[r] \in Nat
          /\ Tagged(pending, "preview-before-do") \in Nat /\ Tagged(pending, "do") \in Nat
      BY BoundsType
    <3>2. /\ asked[r] <= sent
          /\ executed[r] + Len(inbox) <= sent
          /\ waived[r] + Tagged(pending, "preview-before-do") <= sent
          /\ acked[r] + Asks("REVERSIBILITY") + Tagged(pending, "preview-before-do") <= sent
          /\ consents[r] + Asks("KERNEL_CONSENT") + Tagged(pending, "do") <= sent
      BY DEF Bounds
    <3>3. /\ asked' = asked /\ acked' = acked /\ consents' = consents /\ executed' = executed
          /\ Len(inbox') = Len(inbox)
      BY <2>1
    <3>4. executed'[r] + Len(inbox') <= sent' /\ asked'[r] <= sent'
      BY <2>1, <3>2, <3>3
    <3>5. waived'[r] + Tagged(pending', "preview-before-do") <= sent'
      BY <2>1, <2>3, <3>1, <3>2
    <3>6. acked'[r] + Asks("REVERSIBILITY")' + Tagged(pending', "preview-before-do") <= sent'
      <4> DEFINE n == acked[r]
                 a == Asks("REVERSIBILITY")
                 a1 == Asks("REVERSIBILITY")'
                 d == Tagged(pending, "preview-before-do")
                 d1 == Tagged(pending', "preview-before-do")
      <4>1. n \in Nat /\ a \in Nat /\ a1 \in Nat /\ d \in Nat /\ d1 \in Nat
        BY <1>u, <2>3, <3>1
      <4>2. n + a + d <= sent /\ a1 + d1 <= a + d /\ sent' = sent /\ sent \in Nat
        BY <1>u, <2>1, <2>3, <3>1, <3>2
      <4>3. acked'[r] = n
        BY <3>3
      <4> HIDE DEF n, a, a1, d, d1
      <4>4. n + a1 + d1 <= sent'
        BY <4>1, <4>2
      <4> QED
        BY <4>3, <4>4 DEF a1, d1
    <3>7. consents'[r] + Asks("KERNEL_CONSENT")' + Tagged(pending', "do") <= sent'
      <4> DEFINE n == consents[r]
                 a == Asks("KERNEL_CONSENT")
                 a1 == Asks("KERNEL_CONSENT")'
                 d == Tagged(pending, "do")
                 d1 == Tagged(pending', "do")
      <4>1. n \in Nat /\ a \in Nat /\ a1 \in Nat /\ d \in Nat /\ d1 \in Nat
        BY <1>u, <2>3, <3>1
      <4>2. n + a + d <= sent /\ a1 + d1 <= a + d /\ sent' = sent /\ sent \in Nat
        BY <1>u, <2>1, <2>3, <3>1, <3>2
      <4>3. consents'[r] = n
        BY <3>3
      <4> HIDE DEF n, a, a1, d, d1
      <4>4. n + a1 + d1 <= sent'
        BY <4>1, <4>2
      <4> QED
        BY <4>3, <4>4 DEF a1, d1
    <3> QED
      BY <3>4, <3>5, <3>6, <3>7
  <2> QED
    BY <1>0, <1>n, <2>1, <2>4, <2>5 DEF Bounds
<1> QED
  BY <1>1, <1>2

(* A line finds room for the calls it may lead to.                         *)
LEMMA BoundsAsk ==
  ASSUME Typed, Bounds, NEW q \in Requests, Do(q) \/ Preview(q)
  PROVE  Bounds'
<1> DEFINE P == Tagged(pending, "preview-before-do")
           D == Tagged(pending, "do")
<1>1. PICK tag \in Tags : /\ Send(tag, q, FALSE, pending)
                          /\ tag # "do" => waived' = waived
                          /\ waived' = waived \/ waived' = Count(waived, q)
  BY DEF Do, Preview, Tags
<1>2. /\ ready /\ asked' \in {asked, Count(asked, q)} /\ confirm' = confirm
      /\ acked' = acked /\ consents' = consents /\ executed' = executed
      /\ Room(2)
  <2>1. Room(2)
    <3>1. CASE Do(q)
      BY <3>1 DEF Do
    <3>2. CASE Preview(q)
      <4>1. Room(3)
        BY <3>2 DEF Preview
      <4> QED
        BY <4>1, BoundsType, HudAssumption DEF Room, Tagged
    <3> QED
      BY <3>1, <3>2
  <2> QED
    BY <2>1 DEF Do, Preview
<1>3. sent + P + 2 <= MaxCalls /\ sent \in Nat /\ P \in Nat /\ D \in Nat /\ MaxCalls \in Nat
  BY <1>2, BoundsType DEF Room, Tagged
<1>4. /\ sent' = sent + 1 /\ Len(inbox') = Len(inbox) + 1 /\ IsFiniteSet(pending')
      /\ Tagged(pending', "preview-before-do") \in Nat /\ Tagged(pending', "do") \in Nat
      /\ Tagged(pending', "preview-before-do") <= P + 1
      /\ Tagged(pending', "do") <= D + 1
      /\ tag = "do" => Tagged(pending', "preview-before-do") <= P
  <2>1. /\ q \in Texts /\ pending \in SUBSET pending /\ IsFiniteSet(pending)
        /\ "preview-before-do" \in Tags /\ "do" \in Tags /\ Unit(ready) = 1
    BY <1>2 DEF Texts, Bounds, Tags, Unit
  <2>2. /\ sent' = sent + Unit(ready) /\ Len(inbox') = Len(inbox) + Unit(ready)
        /\ IsFiniteSet(pending')
        /\ \A t \in Tags : /\ Tagged(pending, t) \in Nat /\ Tagged(pending', t) \in Nat
                           /\ t = tag => Tagged(pending', t) <= Tagged(pending, t) + Unit(ready)
                           /\ t # tag => Tagged(pending', t) <= Tagged(pending, t)
    BY <1>1, <2>1, BoundsSend
  <2>3. \A t \in Tags : Tagged(pending', t) <= Tagged(pending, t) + 1
    BY <2>1, <2>2
  <2> QED
    BY <2>1, <2>2, <2>3
<1>5. /\ Asks("REVERSIBILITY")' = Asks("REVERSIBILITY")
      /\ Asks("KERNEL_CONSENT")' = Asks("KERNEL_CONSENT")
      /\ Asks("REVERSIBILITY") \in Nat /\ Asks("KERNEL_CONSENT") \in Nat
  BY <1>2 DEF Asks, Unit
<1>6. ASSUME NEW r \in Requests
      PROVE  /\ asked'[r] <= sent'
             /\ executed'[r] + Len(inbox') <= sent'
             /\ waived'[r] + Tagged(pending', "preview-before-do") <= sent'
             /\ acked'[r] + Asks("REVERSIBILITY")'
                  + Tagged(pending', "preview-before-do") <= sent'
             /\ consents'[r] + Asks("KERNEL_CONSENT")' + Tagged(pending', "do") <= sent'
  <2>1. /\ Len(inbox) \in Nat /\ asked[r] \in Nat /\ acked[r] \in Nat
        /\ waived[r] \in Nat /\ consents[r] \in Nat /\ executed[r] \in Nat
    BY BoundsType
  <2>2. asked[r] <= sent /\ executed[r] + Len(inbox) <= sent
    BY DEF Bounds
  <2>3. waived[r] + P <= sent
    BY DEF Bounds
  <2>4. acked[r] + Asks("REVERSIBILITY") + P <= sent
    BY DEF Bounds
  <2>5. consents[r] + Asks("KERNEL_CONSENT") + D <= sent
    BY DEF Bounds
  <2>6. asked'[r] \in {asked[r], asked[r] + 1} /\ waived'[r] \in {waived[r], waived[r] + 1}
    <3>1. asked \in Tallies /\ waived \in Tallies
      BY DEF Typed, TallyTyped
    <3> QED
      BY <1>1, <1>2, <3>1, CountFacts
  <2> HIDE DEF P, D
  <2>7. asked'[r] <= sent'
    BY <1>3, <1>4, <2>1, <2>2, <2>6
  <2>8. executed'[r] + Len(inbox') <= sent'
    BY <1>2, <1>3, <1>4, <2>1, <2>2
  <2>9. waived'[r] + Tagged(pending', "preview-before-do") <= sent'
    <3>1. CASE tag = "do"
      <4>1. waived'[r] \in Nat /\ waived'[r] <= waived[r] + 1
        BY <2>1, <2>6
      <4>2. Tagged(pending', "preview-before-do") <= P /\ sent' = sent + 1
        BY <1>4, <3>1
      <4>3. Tagged(pending', "preview-before-do") \in Nat /\ sent \in Nat /\ P \in Nat
        BY <1>3, <1>4
      <4> QED
        BY <2>1, <2>3, <4>1, <4>2, <4>3
    <3>2. CASE tag # "do"
      BY <1>1, <1>3, <1>4, <2>1, <2>3, <3>2
    <3> QED
      BY <3>1, <3>2
  <2>10. acked'[r] + Asks("REVERSIBILITY")' + Tagged(pending', "preview-before-do") <= sent'
    <3> DEFINE n == acked[r]
               a == Asks("REVERSIBILITY")
               p1 == Tagged(pending', "preview-before-do")
    <3>1. n \in Nat /\ a \in Nat /\ p1 \in Nat /\ n + a + P <= sent /\ p1 <= P + 1
      BY <1>4, <1>5, <2>1, <2>4
    <3>2. acked'[r] = n /\ Asks("REVERSIBILITY")' = a
      BY <1>2, <1>5
    <3> HIDE DEF n, a, p1
    <3>3. n + a + p1 <= sent'
      BY <1>3, <1>4, <3>1
    <3> QED
      BY <3>2, <3>3 DEF p1
  <2>11. consents'[r] + Asks("KERNEL_CONSENT")' + Tagged(pending', "do") <= sent'
    <3> DEFINE n == consents[r]
               a == Asks("KERNEL_CONSENT")
               d1 == Tagged(pending', "do")
    <3>1. n \in Nat /\ a \in Nat /\ d1 \in Nat /\ n + a + D <= sent /\ d1 <= D + 1
      BY <1>4, <1>5, <2>1, <2>5
    <3>2. consents'[r] = n /\ Asks("KERNEL_CONSENT")' = a
      BY <1>2, <1>5
    <3> HIDE DEF n, a, d1
    <3>3. n + a + d1 <= sent'
      BY <1>3, <1>4, <3>1
    <3> QED
      BY <3>2, <3>3 DEF d1
  <2> QED
    BY <2>7, <2>8, <2>9, <2>10, <2>11
<1> HIDE DEF P, D
<1>7. sent' + Tagged(pending', "preview-before-do") <= MaxCalls
  BY <1>3, <1>4
<1> QED
  BY <1>2, <1>4, <1>6, <1>7 DEF Bounds, Named

(* An approval uses the share its prompt had.                              *)
LEMMA BoundsApprove ==
  ASSUME Typed, Bounds, Approve
  PROVE  Bounds'
<1> DEFINE P == Tagged(pending, "preview-before-do")
           D == Tagged(pending, "do")
           u == Unit(ready)
<1>1. /\ Send("do", confirm.req, Grants(confirm.gate), pending) /\ confirm' = NoPrompt
      /\ asked' = asked /\ waived' = waived /\ executed' = executed /\ Room(1)
      /\ consents' = IF confirm.gate = "KERNEL_CONSENT"
                       THEN Count(consents, confirm.req) ELSE consents
      /\ acked' = IF confirm.gate = "KERNEL_CONSENT"
                    THEN acked ELSE Count(acked, confirm.req)
  BY DEF Approve
<1>2. sent + P + 1 <= MaxCalls /\ sent \in Nat /\ P \in Nat /\ D \in Nat /\ u \in {0, 1}
      /\ MaxCalls \in Nat
  BY <1>1, BoundsType DEF Room, Tagged, Unit
<1>3. /\ sent' = sent + u /\ Len(inbox') = Len(inbox) + u /\ IsFiniteSet(pending')
      /\ Tagged(pending', "preview-before-do") \in Nat /\ Tagged(pending', "do") \in Nat
      /\ Tagged(pending', "preview-before-do") <= P
      /\ Tagged(pending', "do") <= D + u
  <2>1. /\ confirm.req \in Texts /\ Grants(confirm.gate) \in BOOLEAN
        /\ pending \in SUBSET pending /\ IsFiniteSet(pending)
        /\ "preview-before-do" \in Tags /\ "do" \in Tags /\ "do" # "preview-before-do"
    BY DEF Typed, HudTyped, Prompts, Grants, Bounds, Tags
  <2>2. /\ sent' = sent + u /\ Len(inbox') = Len(inbox) + u /\ IsFiniteSet(pending')
        /\ \A t \in Tags : /\ Tagged(pending, t) \in Nat /\ Tagged(pending', t) \in Nat
                           /\ t = "do" => Tagged(pending', t) <= Tagged(pending, t) + u
                           /\ t # "do" => Tagged(pending', t) <= Tagged(pending, t)
    BY <1>1, <2>1, BoundsSend
  <2> QED
    BY <2>1, <2>2
<1>4. Asks("REVERSIBILITY")' = 0 /\ Asks("KERNEL_CONSENT")' = 0
      /\ Asks("REVERSIBILITY") \in Nat /\ Asks("KERNEL_CONSENT") \in Nat
  BY <1>1 DEF Asks, Unit, NoPrompt
<1>5. /\ confirm.gate = "KERNEL_CONSENT" => Asks("KERNEL_CONSENT") = 1
      /\ confirm.gate # "KERNEL_CONSENT" => Asks("REVERSIBILITY") = 1
  <2>1. confirm # NoPrompt
    BY DEF Approve
  <2>2. confirm.gate \in {"KERNEL_CONSENT", "REVERSIBILITY"}
    BY <2>1 DEF Typed, HudTyped, Prompts, Gates, Bounds, Named
  <2> QED
    BY <2>2 DEF Asks, Unit
<1> HIDE DEF P, D, u
<1>6. ASSUME NEW r \in Requests
      PROVE  /\ asked'[r] <= sent'
             /\ executed'[r] + Len(inbox') <= sent'
             /\ waived'[r] + Tagged(pending', "preview-before-do") <= sent'
             /\ acked'[r] + Asks("REVERSIBILITY")'
                  + Tagged(pending', "preview-before-do") <= sent'
             /\ consents'[r] + Asks("KERNEL_CONSENT")' + Tagged(pending', "do") <= sent'
  <2>1. /\ Len(inbox) \in Nat /\ asked[r] \in Nat /\ acked[r] \in Nat
        /\ waived[r] \in Nat /\ consents[r] \in Nat /\ executed[r] \in Nat
    BY BoundsType
  <2>2. asked[r] <= sent /\ executed[r] + Len(inbox) <= sent
    BY DEF Bounds
  <2>3. waived[r] + P <= sent
    BY DEF Bounds, P
  <2>4. acked[r] + Asks("REVERSIBILITY") + P <= sent
    BY DEF Bounds, P
  <2>5. consents[r] + Asks("KERNEL_CONSENT") + D <= sent
    BY DEF Bounds, D
  <2>6. /\ acked'[r] \in {acked[r], acked[r] + 1}
        /\ confirm.gate = "KERNEL_CONSENT" => acked'[r] = acked[r]
        /\ consents'[r] \in {consents[r], consents[r] + 1}
        /\ confirm.gate # "KERNEL_CONSENT" => consents'[r] = consents[r]
    <3>1. acked \in Tallies /\ consents \in Tallies
      BY DEF Typed, TallyTyped
    <3> QED
      BY <1>1, <3>1, CountFacts
  <2>7. asked'[r] <= sent'
    BY <1>1, <1>2, <1>3, <2>1, <2>2
  <2>8. executed'[r] + Len(inbox') <= sent'
    BY <1>1, <1>2, <1>3, <2>1, <2>2
  <2>9. waived'[r] + Tagged(pending', "preview-before-do") <= sent'
    BY <1>1, <1>2, <1>3, <2>1, <2>3
  <2>10. acked'[r] + Asks("REVERSIBILITY")' + Tagged(pending', "preview-before-do") <= sent'
    <3>1. acked'[r] <= acked[r] + Asks("REVERSIBILITY") /\ acked'[r] \in Nat
      BY <1>4, <1>5, <2>1, <2>6
    <3> QED
      <4>1. sent <= sent' /\ sent' \in Nat /\ Asks("REVERSIBILITY")' = 0
        BY <1>2, <1>3, <1>4
      <4>2. /\ Tagged(pending', "preview-before-do") <= P
            /\ Tagged(pending', "preview-before-do") \in Nat /\ P \in Nat /\ sent \in Nat
        BY <1>2, <1>3
      <4>3. Asks("REVERSIBILITY") \in Nat
        BY <1>4
      <4> QED
        BY <2>1, <2>4, <3>1, <4>1, <4>2, <4>3
  <2>11. consents'[r] + Asks("KERNEL_CONSENT")' + Tagged(pending', "do") <= sent'
    <3>1. consents'[r] <= consents[r] + Asks("KERNEL_CONSENT") /\ consents'[r] \in Nat
      BY <1>4, <1>5, <2>1, <2>6
    <3> QED
      <4>1. sent' = sent + u /\ u \in Nat /\ sent \in Nat /\ Asks("KERNEL_CONSENT")' = 0
        BY <1>2, <1>3, <1>4
      <4>2. /\ Tagged(pending', "do") <= D + u
            /\ Tagged(pending', "do") \in Nat /\ D \in Nat
        BY <1>2, <1>3
      <4>3. Asks("KERNEL_CONSENT") \in Nat
        BY <1>4
      <4> QED
        BY <2>1, <2>5, <3>1, <4>1, <4>2, <4>3
  <2> QED
    BY <2>7, <2>8, <2>9, <2>10, <2>11
<1>7. sent' + Tagged(pending', "preview-before-do") <= MaxCalls
  BY <1>2, <1>3
<1> QED
  BY <1>1, <1>3, <1>6, <1>7 DEF Bounds, Named

(* What the kernel plays, it has taken from the pipe.                      *)
LEMMA BoundsKernel ==
  ASSUME Typed, Bounds, inbox # <<>>, inbox' = Tail(inbox),
         UNCHANGED <<asked, acked, waived, consents, sent, pending, confirm>>,
         executed' = executed \/ executed' = Count(executed, Head(inbox).req)
  PROVE  Bounds'
<1>1. Len(inbox') = Len(inbox) - 1
  BY HeadTailProperties DEF Typed, WireTyped
<1>2. Asks("REVERSIBILITY")' = Asks("REVERSIBILITY")
      /\ Asks("KERNEL_CONSENT")' = Asks("KERNEL_CONSENT")
  BY DEF Asks
<1>3. ASSUME NEW r \in Requests
      PROVE  executed'[r] + Len(inbox') <= sent
  <2>1. /\ executed[r] \in Nat /\ Len(inbox) \in Nat /\ sent \in Nat
    BY BoundsType
  <2>2. executed[r] + Len(inbox) <= sent
    BY DEF Bounds
  <2>3. executed'[r] \in {executed[r], executed[r] + 1}
    <3>1. executed \in Tallies
      BY DEF Typed, TallyTyped
    <3> QED
      BY <3>1, CountFacts
  <2> QED
    BY <1>1, <2>1, <2>2, <2>3
<1> QED
  BY <1>2, <1>3 DEF Bounds, Named

(* Every step stays within the bounds.                                     *)
LEMMA BoundsStep ==
  ASSUME Typed, Bounds, [Next]_vars
  PROVE  Bounds'
<1>1. CASE FinishBoot \/ Connect \/ HandshakeDone \/ ProcessError \/ Decline
           \/ (\E name \in Policies : SetPolicy(name)) \/ UNCHANGED vars
  <2>1. /\ UNCHANGED <<asked, acked, waived, consents, executed, sent>>
        /\ inbox' = inbox /\ pending' = pending
        /\ confirm' = confirm \/ confirm' = NoPrompt
    BY <1>1 DEF FinishBoot, Connect, HandshakeDone, ProcessError, Decline, Disconnected,
       SetPolicy, vars, wireVars, pastVars
  <2> QED
    BY <2>1, BoundsQuiet
<1>2. CASE HandshakeFails \/ Disconnect \/ ProcessExits
  <2>1. /\ UNCHANGED <<asked, acked, waived, consents, executed, sent>>
        /\ inbox' = <<>> /\ pending' = {}
        /\ confirm' = confirm \/ confirm' = NoPrompt
    BY <1>2 DEF HandshakeFails, Disconnect, ProcessExits, Stop, Disconnected, pastVars
  <2> QED
    BY <2>1, BoundsQuiet
<1>3. CASE \E r \in Requests : Do(r) \/ Preview(r)
  BY <1>3, BoundsAsk
<1>4. CASE Approve
  BY <1>4, BoundsApprove
<1>5. CASE Reply
  <2>1. UNCHANGED <<asked, acked, consents, executed>>
    BY <1>5 DEF Reply
  <2>2. CASE {c \in pending : c.id = Head(outbox).id} = {}
    <3>1. UNCHANGED <<confirm, sent, pending, inbox, waived>>
      BY <1>5, <2>2 DEF Reply, wireVars
    <3> QED
      BY <2>1, <3>1, BoundsQuiet
  <2>3. CASE {c \in pending : c.id = Head(outbox).id} # {}
    <3>1. PICK c \in pending : Completed(c, Head(outbox).kind, Head(outbox).req)
      BY <1>5, <2>3 DEF Reply
    <3> QED
      BY <2>1, <3>1, BoundsCompleted
  <2> QED
    BY <2>2, <2>3
<1>6. CASE Expire
  <2>1. PICK c \in pending : Completed(c, "lost", NoRequest)
    BY <1>6 DEF Expire, Abandon
  <2>2. UNCHANGED <<asked, acked, consents, executed>>
    BY <1>6 DEF Expire
  <2> QED
    BY <2>1, <2>2, BoundsCompleted
<1>7. CASE KernelPlays \/ KernelAnswers
  <2>1. /\ inbox # <<>> /\ inbox' = Tail(inbox)
        /\ UNCHANGED <<asked, acked, waived, consents, sent, pending, confirm>>
        /\ executed' = executed \/ executed' = Count(executed, Head(inbox).req)
    BY <1>7 DEF KernelPlays, KernelAnswers, KernelSays
  <2> QED
    BY <2>1, BoundsKernel
<1> QED
  BY <1>1, <1>2, <1>3, <1>4, <1>5, <1>6, <1>7 DEF Next

(* A sequence whose elements are in a smaller set is a sequence over it.   *)
LEMMA Narrowed ==
  ASSUME NEW S, NEW T, NEW q \in Seq(S), \A k \in DOMAIN q : q[k] \in T
  PROVE  q \in Seq(T)
<1>1. Len(q) \in Nat /\ q \in [1..Len(q) -> S] /\ DOMAIN q = 1..Len(q)
  BY LenProperties
<1>2. q \in [1..Len(q) -> T]
  BY <1>1
<1> QED
  BY <1>1, <1>2, SeqDef

(* Every variable keeps to its type, and every tally to the calls sent.    *)
THEOREM TypesHold == Spec => []TypeOK
<1> DEFINE I == Typed /\ Fresh /\ Bounds
<1>1. Init => I
  <2> SUFFICES ASSUME Init
               PROVE  I
    OBVIOUS
  <2>1. Typed /\ Fresh
    BY TypedInit DEF Init, Fresh, Sorted
  <2>2. /\ IsFiniteSet(pending) /\ Tagged(pending, "preview-before-do") = 0
        /\ Tagged(pending, "do") = 0
    BY TaggedNone, FS_EmptySet DEF Init
  <2>3. Len(inbox) = 0 /\ sent = 0 /\ MaxCalls \in Nat
    BY EmptySeq, HudAssumption DEF Init
  <2>4. Named /\ Asks("REVERSIBILITY") = 0 /\ Asks("KERNEL_CONSENT") = 0
    BY DEF Init, Named, Asks, Unit, NoPrompt
  <2>5. \A r \in Requests : /\ asked[r] = 0 /\ acked[r] = 0 /\ waived[r] = 0
                             /\ consents[r] = 0 /\ executed[r] = 0
    BY DEF Init
  <2>6. Bounds
    BY <2>2, <2>3, <2>4, <2>5 DEF Bounds
  <2> QED
    BY <2>1, <2>6
<1>2. I /\ [Next]_vars => I'
  BY TypedStep, FreshStep, BoundsStep
<1>3. I => TypeOK
  <2> SUFFICES ASSUME I
               PROVE  TypeOK
    OBVIOUS
  <2>1. sent \in 0..MaxCalls
    BY BoundsType DEF Bounds
  <2>2. pending \subseteq [id : 1..sent, tag : Tags]
    BY DEF Typed, WireTyped, Calls, Fresh
  <2>3. inbox \in Seq([id : 1..sent, tag : Tags, req : Texts, allow : BOOLEAN])
    <3>1. \A k \in DOMAIN inbox : inbox[k] \in Frames
      BY LenProperties DEF Typed, WireTyped
    <3>2. \A k \in DOMAIN inbox :
            inbox[k] \in [id : 1..sent, tag : Tags, req : Texts, allow : BOOLEAN]
      BY <3>1 DEF Frames, Fresh
    <3> QED
      BY <3>2, Narrowed DEF Typed, WireTyped
  <2>4. outbox \in Seq([id : 1..sent, kind : Kinds, req : Texts])
    <3>1. \A k \in DOMAIN outbox : outbox[k] \in Answers
      BY LenProperties DEF Typed, WireTyped
    <3>2. \A k \in DOMAIN outbox : outbox[k] \in [id : 1..sent, kind : Kinds, req : Texts]
      BY <3>1 DEF Answers, Fresh
    <3> QED
      BY <3>2, Narrowed DEF Typed, WireTyped
  <2>5. {asked, acked, waived, consents, executed} \subseteq Counts
    <3>1. /\ sent \in Nat /\ MaxCalls \in Nat /\ Len(inbox) \in Nat /\ sent <= MaxCalls
          /\ Tagged(pending, "preview-before-do") \in Nat /\ Tagged(pending, "do") \in Nat
          /\ Asks("REVERSIBILITY") \in Nat /\ Asks("KERNEL_CONSENT") \in Nat
      BY <2>1, BoundsType DEF Asks, Unit
    <3>2. ASSUME NEW r \in Requests
          PROVE  /\ asked[r] \in 0..MaxCalls /\ acked[r] \in 0..MaxCalls
                 /\ waived[r] \in 0..MaxCalls /\ consents[r] \in 0..MaxCalls
                 /\ executed[r] \in 0..MaxCalls
      <4>1. /\ asked[r] \in Nat /\ acked[r] \in Nat /\ waived[r] \in Nat
            /\ consents[r] \in Nat /\ executed[r] \in Nat
        BY BoundsType
      <4>2. asked[r] <= sent /\ executed[r] + Len(inbox) <= sent
        BY DEF Bounds
      <4>3. waived[r] + Tagged(pending, "preview-before-do") <= sent
        BY DEF Bounds
      <4>4. acked[r] + Asks("REVERSIBILITY") + Tagged(pending, "preview-before-do") <= sent
        BY DEF Bounds
      <4>5. consents[r] + Asks("KERNEL_CONSENT") + Tagged(pending, "do") <= sent
        BY DEF Bounds
      <4>6. asked[r] <= sent /\ executed[r] <= sent /\ waived[r] <= sent
        BY <3>1, <4>1, <4>2, <4>3
      <4>7. acked[r] <= sent
        BY <3>1, <4>1, <4>4
      <4>8. consents[r] <= sent
        BY <3>1, <4>1, <4>5
      <4>9. \A n \in Nat : n <= sent => n \in 0..MaxCalls
        BY <3>1
      <4> QED
        BY <4>1, <4>6, <4>7, <4>8, <4>9
    <3> QED
      BY <3>2 DEF Typed, TallyTyped, Tallies, Counts
  <2> QED
    BY <2>1, <2>2, <2>3, <2>4, <2>5 DEF TypeOK, Typed, HudTyped, HeldTyped, ProcTyped,
       Prompts, Gates
<1> QED
  BY <1>1, <1>2, <1>3, PTL DEF Spec
=============================================================================
