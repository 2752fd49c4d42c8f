------------------------------ MODULE Catalog ------------------------------
(***************************************************************************)
(* The playbook catalog (planner/playbooks.py, file_cmds.py, fileops.py,   *)
(* proc_cmds.py, inspect_cmds.py): the steps and the undo plan that each   *)
(* playbook makes out of what it finds, and what becomes of the machine    *)
(* when they are run and undone.  The two are made together before the     *)
(* owner is asked and used later; the commands themselves (cp, mv, tee,    *)
(* rm, systemctl, the package manager) are external.                       *)
(*                                                                         *)
(* A file is its number of lines, a directory the number of things in it,  *)
(* and a path where nothing is the number of directories that are missing  *)
(* above it.  The paths do not lie in one another and share no missing     *)
(* directory.                                                              *)
(***************************************************************************)
EXTENDS Naturals, Sequences, FiniteSets

CONSTANTS
  Paths, Packages,
  Protected,  \* packages whose removal is refused
  MaxRuns,    \* tasks in the journal: bounds a behaviour
  Machines    \* the machines a behaviour may start on

Nothing(n) == [kind |-> "none", n |-> n]
Absent == Nothing(0)
File(n) == [kind |-> "file", n |-> n]
Link == [kind |-> "link", n |-> 0]
Dir(n) == [kind |-> "dir", n |-> n]
Nodes == [kind : {"none", "file", "link", "dir"}, n : Nat]
Worlds == [fs : [Paths -> Nodes], pkgs : SUBSET Packages, active : BOOLEAN, enabled : BOOLEAN]

ASSUME CatalogAssumption ==
  Protected \subseteq Packages /\ MaxRuns \in Nat /\ Machines \subseteq Worlds

VARIABLES
  world,    \* the machine
  backup,   \* backup_path_for(path): what it holds, and of which task
  journal   \* planned tasks, with the undo artifact

catalogVars == <<world, backup, journal>>

CatalogInit ==
  world \in Machines /\ backup = [p \in Paths |-> [node |-> Absent, by |-> 0]]
  /\ journal = <<>>

-----------------------------------------------------------------------------
(* Commands: one is [cmd, p, q, names], p and q paths, names packages.     *)

Command(cmd, p, q) == [cmd |-> cmd, p |-> p, q |-> q, names |-> {}]
Batch(cmd, names) == [cmd |-> cmd, p |-> "", q |-> "", names |-> names]

(* The directory a path lies in is there.                                  *)
Lies(w, p) == w.fs[p].kind = "none" => w.fs[p].n = 0
Goes(c) ==  \* the command exits 0, if nothing else goes wrong
  /\ c.cmd \in {"touch", "tee", "restore"} => Lies(world, c.p)
  /\ c.cmd \in {"cp", "mv", "ln"} => Lies(world, c.q)
  /\ CASE c.cmd = "mkdir" -> world.fs[c.p].kind \in {"none", "dir"}
       [] c.cmd = "rmdir" -> world.fs[c.p].kind = "dir"
       [] c.cmd = "rm" -> world.fs[c.p].kind # "dir"
       [] c.cmd = "cp" -> world.fs[c.p].kind = "file"
       [] c.cmd = "mv" -> /\ world.fs[c.p].kind # "none"
                          /\ world.fs[c.p].kind = "dir" => world.fs[c.q].kind \in {"none", "dir"}
       [] c.cmd = "save" -> world.fs[c.p].kind = "file"
       [] c.cmd = "restore" -> backup[c.p].node.kind = "file"
       [] c.cmd = "tee" -> world.fs[c.p].kind # "dir"
       [] OTHER -> TRUE

(* cp, mv and ln put things into a directory that is already there.        *)
Into(w, q, node) ==
  [w EXCEPT !.fs[q] = IF @.kind = "dir" THEN Dir(@.n + 1) ELSE node]

Result(w, c) ==
  CASE c.cmd = "mkdir" ->  \* -p makes what is missing above as well
         [w EXCEPT !.fs[c.p] = IF @.kind = "none" THEN Dir(0) ELSE @]
    [] c.cmd = "rmdir" -> [w EXCEPT !.fs[c.p] = IF @ = Dir(0) THEN Absent ELSE @]
    [] c.cmd = "touch" -> [w EXCEPT !.fs[c.p] = IF @.kind = "none" THEN File(0) ELSE @]
    [] c.cmd = "rm" -> [w EXCEPT !.fs[c.p] = IF @.kind = "none" THEN @ ELSE Absent]
    [] c.cmd = "cp" -> Into(w, c.q, w.fs[c.p])
    [] c.cmd = "mv" -> [Into(w, c.q, w.fs[c.p]) EXCEPT !.fs[c.p] = Absent]
    [] c.cmd = "ln" -> Into(w, c.q, Link)
    [] c.cmd = "restore" -> Into(w, c.p, backup[c.p].node)
    [] c.cmd = "tee" -> [w EXCEPT !.fs[c.p] = File(@.n + 1)]
    [] c.cmd = "install" -> [w EXCEPT !.pkgs = @ \cup c.names]
    [] c.cmd = "remove" -> [w EXCEPT !.pkgs = @ \ c.names]
    [] c.cmd \in {"start", "restart"} -> [w EXCEPT !.active = TRUE]
    [] c.cmd = "stop" -> [w EXCEPT !.active = FALSE]
    [] c.cmd = "enable" -> [w EXCEPT !.enabled = TRUE]
    [] c.cmd = "disable" -> [w EXCEPT !.enabled = FALSE]
    [] OTHER -> w

-----------------------------------------------------------------------------
(* Playbooks: the steps a request becomes and the reverse steps of an      *)
(* AVAILABLE undo plan, given what is there; or a refusal to build.        *)

Makes(steps, undo) == [ok |-> TRUE, steps |-> steps, undo |-> undo]
Refusal == [ok |-> FALSE, steps |-> <<>>, undo |-> <<>>]
Cmd(cmd, p) == <<Command(cmd, p, p)>>
External == Batch("show", {})  \* what it reads or does is not on this machine's model

(* Mutant: anything but a directory counts as absent.                      *)
Mut_Creates(p) == world.fs[p].kind # "dir"
Creates(p) == world.fs[p].kind = "none"  \* nothing is there, so the undo may delete it
UndoIf(new, cmd, p) == IF new THEN Cmd(cmd, p) ELSE <<>>

Mkdir(p) == Makes(Cmd("mkdir", p), UndoIf(world.fs[p].kind # "dir", "rmdir", p))
Touch(p) == Makes(Cmd("touch", p), UndoIf(Creates(p), "rm", p))
Copy(p, q) ==
  IF world.fs[p].kind # "file" THEN Refusal
  ELSE Makes(<<Command("cp", p, q)>>, UndoIf(Creates(q), "rm", q))
Move(p, q) ==
  IF world.fs[p].kind = "none" THEN Refusal
  ELSE Makes(<<Command("mv", p, q)>>, <<Command("mv", q, p)>>)
Delete(p) == IF world.fs[p].kind = "dir" THEN Refusal ELSE Makes(Cmd("rm", p), <<>>)
LinkTo(p, q) == Makes(<<Command("ln", p, q)>>, UndoIf(Creates(q), "rm", q))
AppendTo(p) ==
  IF world.fs[p].kind = "file" THEN Makes(Cmd("save", p) \o Cmd("tee", p), Cmd("restore", p))
  ELSE Makes(Cmd("tee", p), Cmd("rm", p))

InstallPackages(names) == Makes(<<Batch("install", names)>>, <<Batch("remove", names)>>)
RemovePackages(names) ==
  IF names \cap Protected # {} THEN Refusal
  ELSE Makes(<<Batch("remove", names)>>, <<Batch("install", names)>>)

SvcStart == Makes(<<Batch("start", {})>>, <<Batch("stop", {})>>)
SvcEnable == Makes(<<Batch("enable", {})>>, <<Batch("disable", {})>>)
SvcOther(cmd) == Makes(<<Batch(cmd, {})>>, <<>>)  \* stop, restart, disable

Query == Makes(<<External>>, <<>>)              \* pkg.search, pkg.info, refresh
Upgrade == Makes(<<External, External>>, <<>>)  \* the index first
Status == Makes(<<External>>, <<>>)
SysInfo == Makes(<<External>>, <<>>)
Signals == Makes(<<External>>, <<>>)            \* kill, pkill
Inspect == Makes(<<External>>, <<>>)
Launch == Makes(<<External>>, <<>>)
AppPack == Makes(<<External, External>>, <<>>)  \* the launch, and the steps of the pack

Quiet == {"query", "upgrade", "status", "sysinfo", "signal", "inspect", "launch", "app"}
FileOps == {"mkdir", "touch", "append", "delete", "copy", "move", "link"}
Requests ==
  [op : FileOps, p : Paths, q : Paths, names : {{}}]
    \cup [op : {"pkg.install", "pkg.remove"}, p : {""}, q : {""}, names : SUBSET Packages \ {{}}]
    \cup [op : Quiet \cup {"svc.start", "svc.enable", "svc.stop", "svc.disable", "svc.restart"},
          p : {""}, q : {""}, names : {{}}]

(* Links are left to their own undo: classify_for_edit would follow them.  *)
Built(r) ==
  IF r.op \in FileOps /\ (world.fs[r.p] = Link \/ world.fs[r.q] = Link) THEN Refusal
  ELSE CASE r.op = "mkdir" -> Mkdir(r.p)      [] r.op = "touch" -> Touch(r.p)
         [] r.op = "copy" -> Copy(r.p, r.q)   [] r.op = "move" -> Move(r.p, r.q)
         [] r.op = "link" -> LinkTo(r.p, r.q) [] r.op = "delete" -> Delete(r.p)
         [] r.op = "append" -> AppendTo(r.p)
         [] r.op = "pkg.install" -> InstallPackages(r.names)
         [] r.op = "pkg.remove" -> RemovePackages(r.names)
         [] r.op = "svc.start" -> SvcStart    [] r.op = "svc.enable" -> SvcEnable
         [] r.op = "svc.stop" -> SvcOther("stop")
         [] r.op = "svc.disable" -> SvcOther("disable")
         [] r.op = "svc.restart" -> SvcOther("restart")
         [] r.op = "query" -> Query           [] r.op = "upgrade" -> Upgrade
         [] r.op = "status" -> Status         [] r.op = "sysinfo" -> SysInfo
         [] r.op = "signal" -> Signals        [] r.op = "inspect" -> Inspect
         [] r.op = "launch" -> Launch         [] r.op = "app" -> AppPack

(* _revalidate_undo_step, and the checks that follow an undo.              *)
Revalidates(c) == c.cmd = "remove" => c.names \cap Protected = {}
Verifies(w, c) ==
  /\ c.cmd = "rmdir" => w.fs[c.p].kind # "dir"
  /\ c.cmd = "mv" => w.fs[c.q].kind # "none"
  /\ c.cmd = "restore" => w.fs[c.p].kind = "file"

-----------------------------------------------------------------------------
(* A task: planned, asked about, run, undone.                              *)

Plan(r) ==
  /\ Len(journal) < MaxRuns /\ Built(r).ok
  /\ r.op \in {"copy", "move", "link"} <=> r.p # r.q
  /\ journal' = Append(journal,
       [request |-> r, steps |-> Built(r).steps, undo |-> Built(r).undo, status |-> "planned",
        before |-> world, fresh |-> TRUE, after |-> world])
  /\ UNCHANGED <<world, backup>>

Reaches(i, w, status) ==
  /\ world' = w
  /\ journal' = [journal EXCEPT ![i].steps = Tail(@), ![i].status = status, ![i].after = w,
                                ![i].fresh = @ /\ world = journal[i].after]

Step(i) ==
  /\ journal[i].status \in {"planned", "running"} /\ Goes(Head(journal[i].steps))
  /\ LET c == Head(journal[i].steps)
     IN /\ Reaches(i, Result(world, c),
                IF Len(journal[i].steps) = 1 THEN "ran" ELSE "running")
        /\ backup' = IF c.cmd # "save" THEN backup
                     ELSE [backup EXCEPT ![c.p] = [node |-> world.fs[c.p], by |-> i]]

(* Not possible, not permitted, timed out or interrupted: the rest of the  *)
(* plan is dropped and the undo artifact is stored all the same.           *)
StepFails(i) ==
  /\ journal[i].status \in {"planned", "running"} /\ Reaches(i, world, "failed")
  /\ UNCHANGED backup

Undo(i) ==
  /\ journal[i].status \in {"ran", "failed"} /\ journal[i].undo # <<>>
  /\ LET c == journal[i].undo[1]
     IN /\ Revalidates(c) /\ Goes(c)
        /\ world' = Result(world, c)
        /\ journal' = IF Verifies(world', c) THEN [journal EXCEPT ![i].status = "undone"]
                      ELSE journal
  /\ UNCHANGED backup

CatalogNext ==
  \/ \E r \in Requests : Plan(r)
  \/ \E i \in DOMAIN journal : Step(i) \/ StepFails(i) \/ Undo(i)

CatalogSpec == CatalogInit /\ [][CatalogNext]_catalogVars

-----------------------------------------------------------------------------
CatalogTypeOK ==
  /\ world \in Worlds /\ DOMAIN backup = Paths
  /\ \A p \in Paths : backup[p].node \in Nodes /\ backup[p].by \in 0..MaxRuns
  /\ \A i \in DOMAIN journal :
       /\ journal[i].request \in Requests
       /\ journal[i].status \in {"planned", "running", "ran", "failed", "undone"}
       /\ journal[i].before \in Worlds /\ journal[i].after \in Worlds
       /\ journal[i].fresh \in BOOLEAN

(* What the undo plans do not allow for, although they say AVAILABLE.      *)
NotAllowedFor(i) ==
  LET t == journal[i]  r == t.request  b == t.before
  IN \/ r.op = "mkdir" /\ ~Lies(b, r.p)             \* rmdir takes the last directory only
     \/ r.op = "move" /\ b.fs[r.q].kind # "none"     \* something was there
     \/ r.op = "append" /\ backup[r.p].by # i /\ b.fs[r.p].kind # "none"  \* one backup per file
     \/ r.op = "pkg.install" /\ r.names \cap b.pkgs # {}
     \/ r.op = "pkg.remove" /\ ~(r.names \subseteq b.pkgs)
     \/ r.op = "svc.start" /\ b.active
     \/ r.op = "svc.enable" /\ b.enabled

(* An undo that reports success puts the machine back as the task's plan   *)
(* found it, if the task ran on what was planned and left what is undone,  *)
(* however far it got, and unless it is one of the cases above.            *)
UndoRestores ==
  [][\A i \in DOMAIN journal :
       /\ journal'[i].status = "undone" /\ journal[i].status # "undone"
       /\ journal[i].fresh /\ world = journal[i].after /\ ~NotAllowedFor(i)
       => world' = journal[i].before]_catalogVars
=============================================================================
