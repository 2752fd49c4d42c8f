------------------------------ MODULE Desktop ------------------------------
(***************************************************************************)
(* `jarvis gui` (gui/service.py): one action on the desktop, from finding  *)
(* its target to the journal, while the owner and the other programs go on *)
(* using the same desktop.                                                 *)
(*                                                                         *)
(* A window manager is addressed by window id or, on i3, sway and          *)
(* Hyprland, by title, which these take as a pattern; keystrokes go        *)
(* wherever the focus is while they are sent.  What is remembered of a     *)
(* target between the looks is its title.  Whether the accessibility bus   *)
(* and a tool for synthetic input exist is found out once                  *)
(* (gui/capabilities.py).                                                  *)
(***************************************************************************)
EXTENDS Naturals, FiniteSets

CONSTANTS
  Windows, NoWindow,
  TitleOf,
  Containing,  \* of a window: those whose title contains its title, in any case
  Matching     \* those whose title its title matches as a pattern; it need not
               \* match itself

ASSUME DesktopAssumption ==
  /\ NoWindow \notin Windows /\ IsFiniteSet(Windows) /\ Windows \subseteq DOMAIN TitleOf
  /\ Containing \in [Windows -> SUBSET Windows] /\ Matching \in [Windows -> SUBSET Windows]
  /\ \A v, w \in Windows : TitleOf[v] = TitleOf[w] => v \in Containing[w]

Ops == {"open", "focus", "type", "key", "screenshot", "close"}
Unrecorded == [mech |-> "none", ok |-> FALSE]

VARIABLES
  \* the desktop
  open, focused,
  \* what the machine offers
  byTitle,   \* windows are addressed by title
  api,       \* AT-SPI is there
  injector,  \* xdotool, or ydotool with its socket
  \* the action
  gpc, op, target,
  \* what it has done
  asked,     \* the owner approved
  did,       \* mechanisms that reached the desktop
  touched,   \* windows that were closed or got input
  strayed,   \* windows that came into play after the last look
  record     \* what the journal says

deskVars == <<open, focused>>
machine == <<byTitle, api, injector>>
desktopVars == <<open, focused, byTitle, api, injector, gpc, op, target, asked,
                 did, touched, strayed, record>>

DesktopInit ==
  /\ open \in SUBSET Windows /\ focused \in open \cup {NoWindow}
  /\ byTitle \in BOOLEAN /\ api \in BOOLEAN /\ injector \in BOOLEAN
  /\ gpc = "idle" /\ op = "none" /\ target = NoWindow
  /\ asked = FALSE /\ did = {} /\ touched = {} /\ strayed = {}
  /\ record = Unrecorded

-----------------------------------------------------------------------------
(* Looking, asking, looking again.                                         *)

Twins(w) == {v \in Windows : TitleOf[v] = TitleOf[w]}
(* _find_unique: some text is in the title of this window only.            *)
Unique(w) == w \in open /\ Containing[w] \cap open = {w}

(* _require; type_text takes either way, the others have one.              *)
Available(o) == CASE o = "type" -> api \/ injector
                  [] o = "key" -> injector
                  [] OTHER -> TRUE

Goto(pc) == gpc' = pc /\ UNCHANGED <<op, asked, did, touched, record>>

(* What is aimed at, before anything is said: a window found by its title, *)
(* the focused one, or none for a launch and a screenshot.                 *)
Aim(o, w) ==
  /\ gpc = "idle" /\ Available(o)
  /\ \/ o \in {"focus", "close"} /\ Unique(w)
     \/ o \in {"type", "key"} /\ focused = w /\ w # NoWindow
     \/ o \in {"open", "screenshot"} /\ w = NoWindow
  /\ op' = o /\ target' = w /\ strayed' = {}
  /\ gpc' = IF o = "focus" THEN "activate" ELSE IF o = "close" THEN "first" ELSE "ask"
  /\ UNCHANGED <<deskVars, machine, asked, did, touched, record>>

Approve ==
  /\ gpc = "ask" /\ asked' = TRUE
  /\ gpc' = IF op \in {"type", "key"} THEN "recheck" ELSE "act"
  /\ UNCHANGED <<deskVars, machine, op, target, did, touched, strayed, record>>

(* Mutant: the answer is not looked at.                                    *)
Mut_Deny ==
  /\ gpc = "ask" /\ Goto("act")
  /\ UNCHANGED <<deskVars, machine, target, strayed>>

Deny ==  \* ApprovalRefused leaves the service
  /\ gpc = "ask" /\ Goto("done")
  /\ UNCHANGED <<deskVars, machine, target, strayed>>

(* Mutant: the focus is not checked again.                                 *)
Mut_Recheck ==
  /\ gpc = "recheck" /\ strayed' = {}
  /\ Goto(IF op = "type" /\ api THEN "edit" ELSE "act")
  /\ UNCHANGED <<deskVars, machine, target>>

(* _recheck_focus, the guard against a focus that moved during the prompt, *)
(* compares titles.                                                        *)
Recheck ==
  /\ gpc = "recheck" /\ focused \in Twins(target) /\ strayed' = {}
  /\ Goto(IF op = "type" /\ api THEN "edit" ELSE "act")
  /\ UNCHANGED <<deskVars, machine, target>>

RecheckFails ==  \* another title, or one that cannot be read
  /\ gpc = "recheck" /\ Goto("done")
  /\ UNCHANGED <<deskVars, machine, target, strayed>>

-----------------------------------------------------------------------------
(* Acting.                                                                 *)

Did(mech, windows, pc) ==
  /\ did' = did \cup {mech} /\ touched' = touched \cup windows /\ gpc' = pc
  /\ UNCHANGED <<op, target, asked, strayed>>

Writes(mech, ok) == record' = [mech |-> mech, ok |-> ok]

(* What a backend finds of the target.  A command may find nothing and say *)
(* that it succeeded.                                                      *)
Hits == (IF byTitle THEN Matching[target] ELSE {target}) \cap open

(* focus asks nobody.  A backend that fails raises before the journal.     *)
Activate ==
  /\ gpc = "activate"
  /\ \/ /\ \/ \E w \in Hits : focused' = w /\ Did("activate", {w}, "note")
           \/ Hits = {} /\ Did("activate", {}, "note") /\ UNCHANGED focused
        /\ UNCHANGED record
     \/ Goto("done") /\ UNCHANGED <<focused, target, strayed>>
  /\ UNCHANGED <<open, machine>>

(* Where windows go by title the focused one is asked for once more before *)
(* the journal, and that raises when the tool fails.                       *)
VerifyRaises ==
  /\ gpc = "note" /\ op = "focus" /\ byTitle /\ Goto("raised")
  /\ UNCHANGED <<deskVars, machine, target, strayed>>

(* i3 and sway close all that match, Hyprland one of them.                 *)
Closes == {Hits} \cup IF byTitle THEN {{w} : w \in Hits} ELSE {}
Vanish(ws) ==
  /\ open' = open \ ws
  /\ focused' = IF focused \in ws THEN NoWindow ELSE focused

(* close calls the backend once to build the command it will ask about; a  *)
(* backend that fails raises.                                              *)
CloseFirst ==
  /\ gpc = "first"
  /\ \/ /\ \E ws \in Closes : Vanish(ws) /\ Did("close1", ws, "ask")
        /\ UNCHANGED record
     \/ Goto("done") /\ UNCHANGED <<deskVars, target, strayed>>
  /\ UNCHANGED machine

(* Mutant: a success returns before the journal.                           *)
Mut_SetText ==
  /\ gpc = "edit" /\ focused # NoWindow /\ Did("edit", {focused}, "done")
  /\ UNCHANGED <<deskVars, machine, record>>

(* set_focused_text edits what is focused now.                             *)
SetText ==
  /\ gpc = "edit" /\ focused # NoWindow
  /\ Did("edit", {focused}, "note")
  /\ UNCHANGED <<deskVars, machine, record>>

SetTextFails ==
  /\ gpc = "edit" /\ injector /\ Goto("act")
  /\ UNCHANGED <<deskVars, machine, target, strayed>>

NothingLeft ==  \* no injector: the attempt is journaled as failed
  /\ gpc = "edit" /\ ~injector
  /\ gpc' = "done" /\ Writes("none", FALSE)
  /\ UNCHANGED <<deskVars, machine, op, target, asked, did, touched, strayed>>

(* The tool takes its time: xdotool waits 40 ms after every character.     *)
Inject ==
  /\ gpc = "act" /\ op \in {"type", "key"}
  /\ Did("inject", {focused} \ {NoWindow}, "typing")
  /\ UNCHANGED <<deskVars, machine, record>>

InjectEnds ==
  /\ gpc = "typing" /\ Goto("note")
  /\ UNCHANGED <<deskVars, machine, target, strayed>>

RunApp ==
  /\ gpc = "act" /\ op = "open" /\ Did("open", {}, "note")
  /\ UNCHANGED <<deskVars, machine, record>>

Shoot ==
  /\ gpc = "act" /\ op = "screenshot" /\ Did("screenshot", {}, "note")
  /\ UNCHANGED <<deskVars, machine, record>>

(* The command that was asked about; it may fail, as the window is gone.   *)
CloseAgain ==
  /\ gpc = "act" /\ op = "close"
  /\ \E ws \in Closes : Vanish(ws) /\ Did("close2", ws, "note")
  /\ UNCHANGED <<machine, record>>

(* _journal_action, after the fact; the exit code decides done or failed.  *)
Mech == IF op = "close" THEN "close2"
        ELSE IF op = "focus" THEN "activate"
        ELSE IF op = "type" /\ "edit" \in did THEN "edit"
        ELSE IF op \in {"type", "key"} THEN "inject" ELSE op
Note ==
  /\ gpc = "note"
  /\ \E ok \in IF Mech \in {"activate", "edit"} THEN {TRUE} ELSE BOOLEAN :
       Writes(Mech, ok)
  /\ gpc' = "done"
  /\ UNCHANGED <<deskVars, machine, op, target, asked, did, touched, strayed>>

Kill ==  \* or an exception of the runner or the journal
  /\ gpc \notin {"idle", "done", "raised", "killed"}
  /\ gpc' = "killed" /\ UNCHANGED <<deskVars, machine, op, target, asked, did,
                                    touched, strayed, record>>

Return ==
  /\ gpc \in {"done", "raised", "killed"}
  /\ gpc' = "idle" /\ op' = "none" /\ target' = NoWindow
  /\ asked' = FALSE /\ did' = {} /\ touched' = {} /\ strayed' = {}
  /\ record' = Unrecorded
  /\ UNCHANGED <<deskVars, machine>>

-----------------------------------------------------------------------------
(* Everybody else.                                                         *)

Strays(ws) == strayed' = IF gpc = "idle" THEN {} ELSE strayed \cup ws

FocusMoves(w) ==
  /\ w \in (open \cup {NoWindow}) \ {focused} /\ focused' = w
  /\ Strays({w} \ {NoWindow})
  /\ touched' = IF gpc = "typing" THEN touched \cup ({w} \ {NoWindow}) ELSE touched
  /\ UNCHANGED <<open, machine, gpc, op, target, asked, did, record>>

Opens(w) ==
  /\ w \in Windows \ open /\ open' = open \cup {w} /\ Strays({w})
  /\ UNCHANGED <<focused, machine, gpc, op, target, asked, did, touched, record>>

Disappears(w) ==
  /\ w \in open /\ Vanish({w})
  /\ UNCHANGED <<machine, gpc, op, target, asked, did, touched, strayed, record>>

DesktopNext ==
  \/ \E o \in Ops, w \in Windows \cup {NoWindow} : Aim(o, w)
  \/ Approve \/ Deny \/ Recheck \/ RecheckFails
  \/ Activate \/ VerifyRaises \/ CloseFirst \/ SetText \/ SetTextFails \/ NothingLeft
  \/ Inject \/ InjectEnds \/ RunApp \/ Shoot \/ CloseAgain \/ Note \/ Kill \/ Return
  \/ \E w \in Windows \cup {NoWindow} : FocusMoves(w)
  \/ \E w \in Windows : Opens(w) \/ Disappears(w)

DesktopSpec == DesktopInit /\ [][DesktopNext]_desktopVars

-----------------------------------------------------------------------------
Mechanisms == {"activate", "close1", "close2", "edit", "inject", "open", "screenshot"}
DesktopTypeOK ==
  /\ open \subseteq Windows /\ focused \in open \cup {NoWindow}
  /\ byTitle \in BOOLEAN /\ api \in BOOLEAN /\ injector \in BOOLEAN
  /\ gpc \in {"idle", "ask", "recheck", "activate", "first", "edit", "act",
              "typing", "note", "done", "raised", "killed"}
  /\ op \in Ops \cup {"none"} /\ target \in Windows \cup {NoWindow}
  /\ asked \in BOOLEAN /\ did \subseteq Mechanisms
  /\ touched \subseteq Windows /\ strayed \subseteq Windows
  /\ record \in [mech : Mechanisms \cup {"none"}, ok : BOOLEAN]

(* Nothing reaches the desktop before the owner has approved it, whichever *)
(* mechanism ends up acting (the fallback of type_text runs under the      *)
(* consent given for the first attempt); focus never asks, and close acts  *)
(* once before it does.                                                    *)
AskedBeforeActing == ~asked => did \subseteq {"activate", "close1"}

(* What the code takes for the target although it is not: a window of the  *)
(* same title for keystrokes, which go by the focus, and one the title     *)
(* only matches as a pattern where windows are addressed by title.         *)
Mistaken ==
  IF op \in {"type", "key"} THEN Twins(target)
  ELSE IF op \in {"focus", "close"} /\ byTitle THEN Matching[target] \ Containing[target]
  ELSE {}

(* A window other than the one whose title was disclosed is focused,       *)
(* closed or typed into only if it appeared or took the focus after the    *)
(* last look (the check for a unique title, or _recheck_focus after the    *)
(* prompt), or if its title is the same or merely matches.                 *)
ReachesTarget == touched \subseteq {target} \cup strayed \cup Mistaken

(* An action that is over is in the journal under the mechanism that       *)
(* reached the desktop, unless it was killed or the look after a focus     *)
(* raised; a close that was refused, or whose first call was all, is not.  *)
ActionIsRecorded ==
  gpc = "done" /\ did \notin {{}, {"close1"}} => record.mech \in did
=============================================================================
