--------------------------- MODULE Catalog_proofs ---------------------------
(***************************************************************************)
(* The undo plans of the catalog, for any machines, paths, packages and    *)
(* requests: an undo that reports success puts the machine back as the     *)
(* plan found it, wherever the task was when it ended.                     *)
(***************************************************************************)
EXTENDS Catalog, SequenceTheorems, TLAPS

(* What a task does, as its request says: the command that does it, last,  *)
(* and the one there may be before it.                                     *)
Doer(r) ==
  CASE r.op \in {"mkdir", "touch"} -> Command(r.op, r.p, r.p)
    [] r.op = "delete" -> Command("rm", r.p, r.p)
    [] r.op = "append" -> Command("tee", r.p, r.p)
    [] r.op = "copy" -> Command("cp", r.p, r.q)
    [] r.op = "move" -> Command("mv", r.p, r.q)
    [] r.op = "link" -> Command("ln", r.p, r.q)
    [] r.op = "pkg.install" -> Batch("install", r.names)
    [] r.op = "pkg.remove" -> Batch("remove", r.names)
    [] r.op = "svc.start" -> Batch("start", {})
    [] r.op = "svc.enable" -> Batch("enable", {})
    [] r.op = "svc.stop" -> Batch("stop", {})
    [] r.op = "svc.disable" -> Batch("disable", {})
    [] r.op = "svc.restart" -> Batch("restart", {})
    [] OTHER -> External
Before(r) == IF r.op = "append" THEN Command("save", r.p, r.p) ELSE External

(* The undo plan of a request made on machine b.                           *)
Reverse(r, b) ==
  CASE r.op = "mkdir" -> UndoIf(b.fs[r.p].kind # "dir", "rmdir", r.p)
    [] r.op = "touch" -> UndoIf(b.fs[r.p].kind = "none", "rm", r.p)
    [] r.op \in {"copy", "link"} -> UndoIf(b.fs[r.q].kind = "none", "rm", r.q)
    [] r.op = "move" -> <<Command("mv", r.q, r.p)>>
    [] r.op = "append" -> Cmd(IF b.fs[r.p].kind = "file" THEN "restore" ELSE "rm", r.p)
    [] r.op = "pkg.install" -> <<Batch("remove", r.names)>>
    [] r.op = "pkg.remove" -> <<Batch("install", r.names)>>
    [] r.op = "svc.start" -> <<Batch("stop", {})>>
    [] r.op = "svc.enable" -> <<Batch("disable", {})>>
    [] OTHER -> <<>>

(* StepCommands on files, and those that are not.                              *)
StepCommands ==
  [cmd : {"mkdir", "rmdir", "touch", "rm", "cp", "mv", "ln", "save", "restore", "tee"},
   p : Paths, q : Paths, names : {{}}]
    \cup [cmd : {"install", "remove", "start", "stop", "restart", "enable", "disable", "show"},
          p : {""}, q : {""}, names : SUBSET Packages]
Tasks ==
  [request : Requests, steps : Seq(StepCommands), undo : Seq(StepCommands),
   status : {"planned", "running", "ran", "failed", "undone"},
   before : Worlds, fresh : BOOLEAN, after : Worlds]

(* What is left of a plan and what undoes it are of the request and of the *)
(* machine it was made on.                                                 *)
AsPlanned(t) ==
  /\ t.request.op \in {"copy", "move", "link"} <=> t.request.p # t.request.q
  /\ t.undo = Reverse(t.request, t.before)
  /\ t.status = "planned" =>
       \/ t.steps = <<Doer(t.request)>>
       \/ /\ t.steps = <<Before(t.request), Doer(t.request)>>
          /\ t.request.op = "append" => t.before.fs[t.request.p].kind = "file"
  /\ t.status = "running" => t.steps = <<Doer(t.request)>>

(* Where a task puts something, the directory is there; mkdir makes it.     *)
Possible(r, b) ==
  /\ r.op \in {"touch", "append"} => Lies(b, r.p)
  /\ r.op \in {"copy", "move", "link"} => Lies(b, r.q)
  /\ r.op = "copy" => b.fs[r.p].kind = "file"

(* What becomes of machine b when a task of request r is done on it.       *)
Done(r, b) ==
  CASE r.op = "mkdir" -> [b EXCEPT !.fs[r.p] = IF @.kind = "none" THEN Dir(0) ELSE @]
    [] r.op = "touch" -> [b EXCEPT !.fs[r.p] = IF @.kind = "none" THEN File(0) ELSE @]
    [] r.op = "delete" -> [b EXCEPT !.fs[r.p] = IF @.kind = "none" THEN @ ELSE Absent]
    [] r.op = "append" -> [b EXCEPT !.fs[r.p] = File(@.n + 1)]
    [] r.op = "copy" -> Into(b, r.q, b.fs[r.p])
    [] r.op = "move" -> [Into(b, r.q, b.fs[r.p]) EXCEPT !.fs[r.p] = Absent]
    [] r.op = "link" -> Into(b, r.q, Link)
    [] r.op = "pkg.install" -> [b EXCEPT !.pkgs = @ \cup r.names]
    [] r.op = "pkg.remove" -> [b EXCEPT !.pkgs = @ \ r.names]
    [] r.op \in {"svc.start", "svc.restart"} -> [b EXCEPT !.active = TRUE]
    [] r.op = "svc.stop" -> [b EXCEPT !.active = FALSE]
    [] r.op = "svc.enable" -> [b EXCEPT !.enabled = TRUE]
    [] r.op = "svc.disable" -> [b EXCEPT !.enabled = FALSE]
    [] OTHER -> b

(* A task that nobody came between has done nothing, or what it was to do. *)
Reached(t) ==
  t.fresh /\ t.status # "undone" =>
    IF t.status = "ran" THEN t.after = Done(t.request, t.before) /\ Possible(t.request, t.before)
    ELSE t.after = t.before

(* A backup a task made is of what its plan found there.                   *)
Saved(i) ==
  LET t == journal[i]  r == t.request
  IN r.op = "append" /\ backup[r.p].by = i =>
       /\ t.before.fs[r.p].kind = "file"
       /\ t.fresh => backup[r.p].node = t.before.fs[r.p]

Typed ==
  /\ world \in Worlds /\ journal \in Seq(Tasks) /\ Len(journal) <= MaxRuns
  /\ backup \in [Paths -> [node : Nodes, by : 0..Len(journal)]]
CatalogInv ==
  /\ Typed
  /\ \A i \in DOMAIN journal : AsPlanned(journal[i]) /\ Reached(journal[i]) /\ Saved(i)

-----------------------------------------------------------------------------
(* A request names paths if it is about files, and packages or nothing if  *)
(* it is not.                                                              *)
LEMMA RequestNames ==
  ASSUME NEW r \in Requests
  PROVE  /\ r.op \in FileOps => r.p \in Paths /\ r.q \in Paths /\ r.names = {}
         /\ r.op \notin FileOps => r.names \subseteq Packages
         /\ r.op \in FileOps \cup Quiet \cup
              {"pkg.install", "pkg.remove", "svc.start", "svc.enable", "svc.stop",
               "svc.disable", "svc.restart"}
  BY DEF Requests, FileOps, Quiet

(* Commands on files and others.                                           *)
LEMMA CommandTyped ==
  /\ \A cmd \in {"mkdir", "rmdir", "touch", "rm", "cp", "mv", "ln", "save", "restore", "tee"} :
       \A p, q \in Paths : Command(cmd, p, q) \in StepCommands
  /\ \A cmd \in {"install", "remove", "start", "stop", "restart", "enable", "disable", "show"} :
       \A names \in SUBSET Packages : Batch(cmd, names) \in StepCommands
  BY DEF Command, Batch, StepCommands

(* What a task runs and undoes are commands; it restores nothing.          *)
LEMMA DoerTyped ==
  ASSUME NEW r \in Requests
  PROVE  /\ Doer(r) \in StepCommands /\ Before(r) \in StepCommands
         /\ Doer(r).cmd \notin {"save", "restore"}
         /\ Before(r).cmd = IF r.op = "append" THEN "save" ELSE "show"
         /\ r.op = "append" => Before(r).p = r.p
<1>1. Before(r) \in StepCommands
  BY RequestNames, CommandTyped DEF Before, External, FileOps
<1>2. CASE r.op \in FileOps
  <2>1. \E cmd \in {"mkdir", "touch", "rm", "tee", "cp", "mv", "ln"}, q \in Paths :
          Doer(r) = Command(cmd, r.p, q)
    BY <1>2, RequestNames DEF Doer, FileOps
  <2>2. PICK cmd \in {"mkdir", "touch", "rm", "tee", "cp", "mv", "ln"}, q \in Paths :
          Doer(r) = Command(cmd, r.p, q)
    BY <2>1
  <2>3. Doer(r) \in StepCommands
    BY <1>2, <2>2, RequestNames, CommandTyped
  <2>4. Doer(r).cmd \notin {"save", "restore"}
    BY <2>2 DEF Command
  <2> QED
    BY <1>1, <2>3, <2>4 DEF Command, Before, External, Batch
<1>3. CASE r.op \notin FileOps
  <2>1. \E cmd \in {"install", "remove", "start", "stop", "restart", "enable", "disable", "show"},
           names \in SUBSET Packages : Doer(r) = Batch(cmd, names)
    BY <1>3, RequestNames DEF Doer, FileOps, Quiet, External
  <2>2. PICK cmd \in {"install", "remove", "start", "stop", "restart", "enable", "disable", "show"},
             names \in SUBSET Packages : Doer(r) = Batch(cmd, names)
    BY <2>1
  <2>3. Doer(r) \in StepCommands
    <3>1. Batch(cmd, names) \in StepCommands
      BY CommandTyped
    <3> QED
      BY <2>2, <3>1
  <2>4. Doer(r).cmd \notin {"save", "restore"}
    <3>1. Batch(cmd, names).cmd = cmd
      BY DEF Batch
    <3> QED
      BY <2>2, <3>1
  <2> QED
    BY <1>1, <1>3, <2>3, <2>4 DEF Batch, Before, External, Command, FileOps
<1> QED
  BY <1>2, <1>3

(* So is what undoes it.                                                   *)
LEMMA ReverseTyped ==
  ASSUME NEW r \in Requests, NEW b PROVE Reverse(r, b) \in Seq(StepCommands)
<1>1. CASE r.op \in FileOps
  <2>1. \/ Reverse(r, b) = <<>>
        \/ \E cmd \in {"rmdir", "rm", "mv", "restore"}, p \in Paths, q \in Paths :
             Reverse(r, b) = <<Command(cmd, p, q)>>
    BY <1>1, RequestNames DEF Reverse, FileOps, UndoIf, Cmd
  <2>2. ASSUME NEW cmd \in {"rmdir", "rm", "mv", "restore"}, NEW p \in Paths, NEW q \in Paths,
               Reverse(r, b) = <<Command(cmd, p, q)>>
        PROVE  Reverse(r, b) \in Seq(StepCommands)
    <3>1. Command(cmd, p, q) \in StepCommands
      BY CommandTyped
    <3> QED
      BY <2>2, <3>1
  <2>3. <<>> \in Seq(StepCommands)
    OBVIOUS
  <2> QED
    BY <2>1, <2>2, <2>3
<1>2. CASE r.op \notin FileOps
  <2>1. \/ Reverse(r, b) = <<>>
        \/ \E cmd \in {"install", "remove", "stop", "disable"}, names \in SUBSET Packages :
             Reverse(r, b) = <<Batch(cmd, names)>>
    BY <1>2, RequestNames DEF Reverse, FileOps
  <2>2. ASSUME NEW cmd \in {"install", "remove", "stop", "disable"}, NEW names \in SUBSET Packages,
               Reverse(r, b) = <<Batch(cmd, names)>>
        PROVE  Reverse(r, b) \in Seq(StepCommands)
    <3>1. Batch(cmd, names) \in StepCommands
      BY CommandTyped
    <3> QED
      BY <2>2, <3>1
  <2>3. <<>> \in Seq(StepCommands)
    OBVIOUS
  <2> QED
    BY <2>1, <2>2, <2>3
<1> QED
  BY <1>1, <1>2

(* A playbook is made as its request says.                                 *)
LEMMA PlanMade ==
  ASSUME NEW r \in Requests, Built(r).ok
  PROVE  /\ Built(r).undo = Reverse(r, world)
         /\ \/ Built(r).steps = <<Doer(r)>>
            \/ /\ Built(r).steps = <<Before(r), Doer(r)>>
               /\ r.op = "append" => world.fs[r.p].kind = "file"
<1>0. Built(r) # Refusal
  BY DEF Refusal
<1>1. CASE r.op = "mkdir"
  BY <1>0, <1>1 DEF Built, FileOps, Mkdir, Makes, Doer, Reverse, Cmd
<1>2. CASE r.op = "touch"
  BY <1>0, <1>2 DEF Built, FileOps, Touch, Makes, Doer, Reverse, Cmd, Creates
<1>3. CASE r.op = "copy"
  BY <1>0, <1>3 DEF Built, FileOps, Copy, Makes, Doer, Reverse, Creates
<1>4. CASE r.op = "move"
  BY <1>0, <1>4 DEF Built, FileOps, Move, Makes, Doer, Reverse
<1>5. CASE r.op = "link"
  BY <1>0, <1>5 DEF Built, FileOps, LinkTo, Makes, Doer, Reverse, Creates
<1>6. CASE r.op = "delete"
  BY <1>0, <1>6 DEF Built, FileOps, Delete, Makes, Doer, Reverse, Cmd
<1>7. CASE r.op = "append"
  <2>1. Built(r) = AppendTo(r.p)
    BY <1>0, <1>7 DEF Built, FileOps
  <2>2. Cmd("save", r.p) \o Cmd("tee", r.p) = <<Command("save", r.p, r.p), Command("tee", r.p, r.p)>>
    <3>1. ASSUME NEW c, NEW d PROVE <<c>> \o <<d>> = <<c, d>>
      <4> DEFINE s == <<c>> \o <<d>>  t == <<c, d>>
      <4>1. <<c>> \in Seq({c, d}) /\ <<d>> \in Seq({c, d})
        OBVIOUS
      <4>2. s \in Seq({c, d}) /\ Len(s) = 2 /\ s[1] = c /\ s[2] = d
        BY <4>1
      <4>3. t \in Seq({c, d}) /\ Len(t) = 2 /\ t[1] = c /\ t[2] = d
        OBVIOUS
      <4>4. s = t
        <5> HIDE DEF s, t
        <5>1. Len(s) = Len(t) /\ \A i \in 1..Len(s) : s[i] = t[i]
          BY <4>2, <4>3
        <5> QED
          BY <4>2, <4>3, <5>1, SeqEqual
      <4> QED
        BY <4>4
    <3> QED
      BY <3>1 DEF Cmd
  <2> QED
    BY <1>7, <2>1, <2>2 DEF AppendTo, Makes, Doer, Before, Reverse, Cmd
<1>8. CASE r.op \in {"pkg.install", "pkg.remove"}
  BY <1>0, <1>8 DEF Built, FileOps, InstallPackages, RemovePackages, Makes, Doer, Reverse
<1>9. CASE r.op \in {"svc.start", "svc.enable", "svc.stop", "svc.disable", "svc.restart"}
  BY <1>9 DEF Built, FileOps, SvcStart, SvcEnable, SvcOther, Makes, Doer, Reverse
<1>10. CASE r.op \in Quiet
  <2>1. Built(r) \in {Makes(<<External>>, <<>>), Makes(<<External, External>>, <<>>)}
    BY <1>10 DEF Built, FileOps, Quiet, Query, Upgrade, Status, SysInfo, Signals, Inspect,
                 Launch, AppPack
  <2>2. Doer(r) = External /\ Before(r) = External /\ Reverse(r, world) = <<>> /\ r.op # "append"
    BY <1>10 DEF Doer, Before, Reverse, Quiet
  <2> QED
    BY <2>1, <2>2 DEF Makes
<1> QED
  BY <1>1, <1>2, <1>3, <1>4, <1>5, <1>6, <1>7, <1>8, <1>9, <1>10, RequestNames DEF FileOps

-----------------------------------------------------------------------------
(* What commands do to a machine.                                          *)

(* A machine that a command ran on is one.                                 *)
LEMMA ResultTyped ==
  ASSUME Typed, NEW w \in Worlds, NEW c \in StepCommands PROVE Result(w, c) \in Worlds
<1>1. /\ w.fs \in [Paths -> Nodes] /\ w.pkgs \subseteq Packages
      /\ w.active \in BOOLEAN /\ w.enabled \in BOOLEAN
      /\ w = [fs |-> w.fs, pkgs |-> w.pkgs, active |-> w.active, enabled |-> w.enabled]
  BY DEF Worlds
<1>2. /\ Absent \in Nodes /\ Link \in Nodes
      /\ \A n \in Nat : Dir(n) \in Nodes /\ File(n) \in Nodes
  BY DEF Nodes, Absent, Nothing, Link, Dir, File
<1>3. \A v \in Worlds : \A p \in Paths, n \in Nodes : [v EXCEPT !.fs[p] = n] \in Worlds
  BY DEF Worlds
<1>4. \A v \in Worlds : \A p \in Paths : v.fs[p] \in Nodes /\ v.fs[p].n + 1 \in Nat
  BY DEF Worlds, Nodes
<1>5. ASSUME NEW v \in Worlds, NEW p \in Paths, NEW n \in Nodes PROVE Into(v, p, n) \in Worlds
  BY <1>2, <1>3, <1>4 DEF Into
<1>6. CASE c.cmd \in {"mkdir", "rmdir", "touch", "rm", "cp", "mv", "ln", "save", "restore", "tee"}
  <2>1. c.p \in Paths /\ c.q \in Paths
    BY <1>6 DEF StepCommands
  <2>2. CASE c.cmd \in {"mkdir", "rmdir", "touch", "rm", "tee"}
    BY <1>2, <1>3, <1>4, <2>1, <2>2 DEF Result
  <2>3. CASE c.cmd \in {"cp", "ln"}
    BY <1>2, <1>4, <1>5, <2>1, <2>3 DEF Result
  <2>4. CASE c.cmd = "mv"
    <3>1. Into(w, c.q, w.fs[c.p]) \in Worlds
      BY <1>4, <1>5, <2>1
    <3> QED
      BY <1>2, <1>3, <2>1, <2>4, <3>1 DEF Result
  <2>5. CASE c.cmd = "restore"
    <3>1. backup[c.p].node \in Nodes
      BY <2>1 DEF Typed
    <3> QED
      BY <1>5, <2>1, <2>5, <3>1 DEF Result
  <2>6. CASE c.cmd = "save"
    BY <2>6 DEF Result
  <2> QED
    BY <1>6, <2>2, <2>3, <2>4, <2>5, <2>6
<1>7. CASE c.cmd \in {"install", "remove", "start", "stop", "restart", "enable", "disable", "show"}
  <2>1. c.names \subseteq Packages
    BY <1>7 DEF StepCommands
  <2> QED
    BY <1>7, <2>1 DEF Result, Worlds
<1> QED
  BY <1>6, <1>7 DEF StepCommands

(* What the command that does a task does to the machine.                  *)
LEMMA DoerDoes ==
  ASSUME NEW r \in Requests, NEW w PROVE Result(w, Doer(r)) = Done(r, w)
<1>1. CASE r.op \in {"mkdir", "touch", "delete", "append"}
  <2>1. CASE r.op = "mkdir"
    BY <2>1 DEF Doer, Result, Done, Command
  <2>2. CASE r.op = "touch"
    BY <2>2 DEF Doer, Result, Done, Command
  <2>3. CASE r.op = "delete"
    BY <2>3 DEF Doer, Result, Done, Command
  <2>4. CASE r.op = "append"
    BY <2>4 DEF Doer, Result, Done, Command
  <2> QED
    BY <1>1, <2>1, <2>2, <2>3, <2>4
<1>2. CASE r.op \in {"copy", "move", "link"}
  BY <1>2 DEF Doer, Result, Done, Command
<1>3. CASE r.op \in {"pkg.install", "pkg.remove"}
  BY <1>3 DEF Doer, Result, Done, Batch
<1>4. CASE r.op \in {"svc.start", "svc.enable", "svc.stop", "svc.disable", "svc.restart"}
  <2>1. CASE r.op = "svc.start"
    BY <2>1 DEF Doer, Result, Done, Batch
  <2>2. CASE r.op = "svc.enable"
    BY <2>2 DEF Doer, Result, Done, Batch
  <2>3. CASE r.op = "svc.stop"
    BY <2>3 DEF Doer, Result, Done, Batch
  <2>4. CASE r.op = "svc.disable"
    BY <2>4 DEF Doer, Result, Done, Batch
  <2>5. CASE r.op = "svc.restart"
    BY <2>5 DEF Doer, Result, Done, Batch
  <2> QED
    BY <1>4, <2>1, <2>2, <2>3, <2>4, <2>5
<1>5. CASE r.op \in Quiet
  <2>1. Doer(r) = External
    BY <1>5 DEF Doer, Quiet
  <2>2. Done(r, w) = w
    BY <1>5 DEF Done, Quiet
  <2>3. Result(w, External) = w
    BY DEF Result, External, Batch
  <2> QED
    BY <2>1, <2>2, <2>3
<1> QED
  BY <1>1, <1>2, <1>3, <1>4, <1>5, RequestNames DEF FileOps

(* It goes only where it can put something.                                *)
LEMMA GoesWhere ==
  ASSUME NEW r \in Requests, Goes(Doer(r)) PROVE Possible(r, world)
<1> SUFFICES ASSUME r.op \in {"touch", "append", "copy", "move", "link"}
             PROVE  Possible(r, world)
  BY DEF Possible
<1> DEFINE c == Doer(r)
<1>1. /\ c.cmd \in {"touch", "tee", "restore"} => Lies(world, c.p)
      /\ c.cmd \in {"cp", "mv", "ln"} => Lies(world, c.q)
  BY DEF Goes
<1>2. CASE r.op \in {"touch", "append"}
  <2>1. c.p = r.p /\ c.cmd \in {"touch", "tee"}
    BY <1>2 DEF Doer, Command
  <2> QED
    BY <1>1, <1>2, <2>1 DEF Possible
<1>3. CASE r.op \in {"copy", "move", "link"}
  <2>1. c.q = r.q /\ c.cmd \in {"cp", "mv", "ln"}
    BY <1>3 DEF Doer, Command
  <2>2. r.op = "copy" => world.fs[r.p].kind = "file"
    <3>1. r.op = "copy" => c.cmd = "cp" /\ c.p = r.p
      BY DEF Doer, Command
    <3> QED
      BY <3>1 DEF Goes
  <2> QED
    BY <1>1, <1>3, <2>1, <2>2 DEF Possible
<1> QED
  BY <1>2, <1>3

(* Saving and showing leave the machine alone.                             *)
LEMMA BeforeLeaves ==
  ASSUME NEW w, NEW c, c.cmd \in {"save", "show"} PROVE Result(w, c) = w
  BY DEF Result

(* Two machines are one if all of them is.                                 *)
LEMMA SameWorld ==
  ASSUME NEW v \in Worlds, NEW w \in Worlds, v.pkgs = w.pkgs, v.active = w.active,
         v.enabled = w.enabled, \A p \in Paths : v.fs[p] = w.fs[p]
  PROVE  v = w
<1>1. v.fs = w.fs
  BY DEF Worlds
<1> QED
  BY <1>1 DEF Worlds

-----------------------------------------------------------------------------
(* The tasks.                                                              *)

(* The next of one command, or of two.                                     *)
LEMMA OneOrTwo ==
  ASSUME NEW c, NEW d
  PROVE  /\ Head(<<c>>) = c /\ Len(<<c>>) = 1 /\ <<c>> # <<>> /\ <<c, d>> # <<>>
         /\ Head(<<c, d>>) = c /\ Tail(<<c, d>>) = <<d>> /\ Len(<<c, d>>) = 2
  OBVIOUS

(* A task is of a request, made on a machine and left with one.            *)
LEMMA TaskIs ==
  ASSUME Typed, NEW i \in DOMAIN journal
  PROVE  /\ journal[i] \in Tasks /\ journal[i].request \in Requests
         /\ journal[i].before \in Worlds /\ journal[i].after \in Worlds
         /\ i \in 1..Len(journal)
<1>1. journal[i] \in Tasks /\ i \in 1..Len(journal)
  BY DEF Typed
<1> QED
  BY <1>1 DEF Tasks

(* A task that moves on: what it has left, and how far it got.             *)
LEMMA ReachesTask ==
  ASSUME Typed, NEW i \in DOMAIN journal, NEW w \in Worlds, journal[i].steps # <<>>,
         NEW status \in {"running", "ran", "failed"}, Reaches(i, w, status)
  PROVE  /\ journal' \in Seq(Tasks) /\ Len(journal') = Len(journal)
         /\ DOMAIN journal' = DOMAIN journal
         /\ \A k \in DOMAIN journal \ {i} : journal'[k] = journal[k]
         /\ journal'[i].request = journal[i].request /\ journal'[i].before = journal[i].before
         /\ journal'[i].undo = journal[i].undo /\ journal'[i].steps = Tail(journal[i].steps)
         /\ journal'[i].status = status /\ journal'[i].after = w
         /\ journal'[i].fresh <=> journal[i].fresh /\ world = journal[i].after
<1>1. journal[i] \in Tasks /\ journal \in Seq(Tasks)
  BY DEF Typed
<1>2. journal' = [journal EXCEPT ![i].steps = Tail(@), ![i].status = status, ![i].after = w,
                                 ![i].fresh = @ /\ world = journal[i].after]
  BY DEF Reaches
<1>3. /\ DOMAIN journal' = DOMAIN journal
      /\ \A k \in DOMAIN journal \ {i} : journal'[k] = journal[k]
  BY <1>1, <1>2
<1>4. journal'[i] = [journal[i] EXCEPT !.steps = Tail(@), !.status = status, !.after = w,
                                       !.fresh = @ /\ world = journal[i].after]
  BY <1>1, <1>2
<1>5. Tail(journal[i].steps) \in Seq(StepCommands)
  BY <1>1 DEF Tasks
<1>6. journal'[i] \in Tasks
  BY <1>1, <1>4, <1>5 DEF Tasks
<1>7. journal' \in Seq(Tasks) /\ Len(journal') = Len(journal)
  <2>1. journal' = [k \in 1..Len(journal) |-> journal'[k]]
    <3>1. DOMAIN journal = 1..Len(journal)
      BY <1>1
    <3>2. journal' = [k \in DOMAIN journal |-> journal'[k]]
      BY <1>2
    <3> QED
      BY <3>1, <3>2
  <2>2. \A k \in 1..Len(journal) : journal'[k] \in Tasks
    BY <1>1, <1>3, <1>6
  <2> QED
    BY <1>1, <2>1, <2>2
<1>8. /\ journal'[i].request = journal[i].request /\ journal'[i].before = journal[i].before
      /\ journal'[i].undo = journal[i].undo /\ journal'[i].steps = Tail(journal[i].steps)
      /\ journal'[i].status = status /\ journal'[i].after = w
  BY <1>1, <1>4 DEF Tasks
<1>9. journal'[i].fresh <=> journal[i].fresh /\ world = journal[i].after
  BY <1>1, <1>4 DEF Tasks
<1> QED
  BY <1>3, <1>7, <1>8, <1>9

(* A task keeps what it was planned as when it moves on, and the others    *)
(* theirs.                                                                 *)
LEMMA TasksKeep ==
  ASSUME CatalogInv, NEW i \in DOMAIN journal, world' \in Worlds,
         journal' \in Seq(Tasks), Len(journal') = Len(journal),
         DOMAIN journal' = DOMAIN journal,
         \A k \in DOMAIN journal \ {i} : journal'[k] = journal[k],
         backup' \in [Paths -> [node : Nodes, by : 0..Len(journal)]],
         AsPlanned(journal'[i]), Reached(journal'[i]), \A k \in DOMAIN journal : Saved(k)'
  PROVE  CatalogInv'
<1>1. Typed'
  BY DEF CatalogInv, Typed
<1>2. ASSUME NEW k \in DOMAIN journal PROVE AsPlanned(journal'[k]) /\ Reached(journal'[k])
  <2>1. CASE k = i
    BY <2>1
  <2>2. CASE k # i
    <3>1. journal'[k] = journal[k] /\ AsPlanned(journal[k]) /\ Reached(journal[k])
      BY <2>2 DEF CatalogInv
    <3> QED
      BY <3>1
  <2> QED
    BY <2>1, <2>2
<1> QED
  BY <1>1, <1>2 DEF CatalogInv

(* The command that does the task, on what the plan found or not.          *)
LEMMA DoerStep ==
  ASSUME CatalogInv, NEW i \in DOMAIN journal, Step(i),
         journal[i].steps = <<Doer(journal[i].request)>>
  PROVE  CatalogInv'
<1> DEFINE r == journal[i].request
<1>1. /\ Typed /\ r \in Requests /\ AsPlanned(journal[i]) /\ Reached(journal[i])
      /\ \A k \in DOMAIN journal : Saved(k)
  BY TaskIs DEF CatalogInv
<1>2. /\ Doer(r) \in StepCommands /\ Doer(r).cmd # "save"
  BY <1>1, DoerTyped
<1>3. Head(journal[i].steps) = Doer(r) /\ Len(journal[i].steps) = 1 /\ journal[i].steps # <<>>
  BY OneOrTwo
<1>4. /\ Reaches(i, Result(world, Doer(r)), "ran") /\ backup' = backup
      /\ journal[i].status \in {"planned", "running"}
  BY <1>2, <1>3 DEF Step
<1>5. Result(world, Doer(r)) = Done(r, world) /\ Result(world, Doer(r)) \in Worlds
  BY <1>1, <1>2, DoerDoes, ResultTyped DEF Typed
<1>6. /\ journal' \in Seq(Tasks) /\ Len(journal') = Len(journal)
      /\ DOMAIN journal' = DOMAIN journal
      /\ \A k \in DOMAIN journal \ {i} : journal'[k] = journal[k]
      /\ journal'[i].request = journal[i].request /\ journal'[i].before = journal[i].before
      /\ journal'[i].undo = journal[i].undo /\ journal'[i].status = "ran"
      /\ journal'[i].after = Done(r, world)
      /\ journal'[i].fresh <=> journal[i].fresh /\ world = journal[i].after
  BY <1>1, <1>3, <1>4, <1>5, ReachesTask
<1>7. AsPlanned(journal'[i])
  BY <1>1, <1>6 DEF AsPlanned
<1>8. Reached(journal'[i])
  <2> SUFFICES ASSUME journal'[i].fresh
               PROVE  /\ journal'[i].after = Done(r, journal[i].before)
                      /\ Possible(r, journal[i].before)
    BY <1>6 DEF Reached
  <2>1. journal[i].fresh /\ world = journal[i].after
    BY <1>6
  <2>2. journal[i].after = journal[i].before
    BY <1>1, <1>4, <2>1 DEF Reached
  <2>3. Goes(Doer(r))
    BY <1>3 DEF Step
  <2>4. Possible(r, world)
    BY <1>1, <2>3, GoesWhere
  <2> QED
    BY <1>6, <2>1, <2>2, <2>4
<1>9. ASSUME NEW k \in DOMAIN journal PROVE Saved(k)'
  <2>1. /\ journal'[k].request = journal[k].request /\ journal'[k].before = journal[k].before
        /\ journal'[k].fresh => journal[k].fresh
    BY <1>6
  <2> QED
    BY <1>1, <1>4, <2>1 DEF Saved
<1>10. world' \in Worlds
  BY <1>4, <1>5 DEF Reaches
<1>11. backup' \in [Paths -> [node : Nodes, by : 0..Len(journal)]]
  BY <1>1, <1>4 DEF Typed
<1> QED
  BY <1>6, <1>7, <1>8, <1>9, <1>10, <1>11, TasksKeep

(* The backup, or the index, before it.                                    *)
LEMMA BeforeStep ==
  ASSUME CatalogInv, NEW i \in DOMAIN journal, Step(i), journal[i].status = "planned",
         journal[i].steps = <<Before(journal[i].request), Doer(journal[i].request)>>,
         journal[i].request.op = "append" =>
           journal[i].before.fs[journal[i].request.p].kind = "file"
  PROVE  CatalogInv'
<1> DEFINE r == journal[i].request  c == Before(r)
<1>1. /\ Typed /\ r \in Requests /\ AsPlanned(journal[i]) /\ Reached(journal[i])
      /\ \A k \in DOMAIN journal : Saved(k)
  BY TaskIs DEF CatalogInv
<1>2. /\ c \in StepCommands /\ c.cmd = IF r.op = "append" THEN "save" ELSE "show"
      /\ r.op = "append" => c.p = r.p /\ r.p \in Paths
  BY <1>1, DoerTyped, RequestNames DEF FileOps
<1>3. /\ Head(journal[i].steps) = c /\ Len(journal[i].steps) = 2 /\ journal[i].steps # <<>>
      /\ Tail(journal[i].steps) = <<Doer(r)>>
  BY OneOrTwo
<1>4. Result(world, c) = world
  BY <1>2, BeforeLeaves
<1>5. /\ Reaches(i, world, "running")
      /\ backup' = IF r.op # "append" THEN backup
                   ELSE [backup EXCEPT ![r.p] = [node |-> world.fs[r.p], by |-> i]]
  <2>1. /\ Reaches(i, Result(world, c), "running")
        /\ backup' = IF c.cmd # "save" THEN backup
                     ELSE [backup EXCEPT ![c.p] = [node |-> world.fs[c.p], by |-> i]]
    BY <1>3 DEF Step
  <2>2. CASE r.op = "append"
    BY <1>2, <1>4, <2>1, <2>2
  <2>3. CASE r.op # "append"
    BY <1>2, <1>4, <2>1, <2>3
  <2> QED
    BY <2>2, <2>3
<1>6. /\ journal' \in Seq(Tasks) /\ Len(journal') = Len(journal)
      /\ DOMAIN journal' = DOMAIN journal
      /\ \A k \in DOMAIN journal \ {i} : journal'[k] = journal[k]
      /\ journal'[i].request = journal[i].request /\ journal'[i].before = journal[i].before
      /\ journal'[i].undo = journal[i].undo /\ journal'[i].status = "running"
      /\ journal'[i].steps = <<Doer(r)>> /\ journal'[i].after = world
      /\ journal'[i].fresh <=> journal[i].fresh /\ world = journal[i].after
  BY <1>1, <1>3, <1>5, ReachesTask DEF Typed
<1>7. AsPlanned(journal'[i])
  BY <1>1, <1>6 DEF AsPlanned
<1>8. journal'[i].fresh => journal[i].fresh /\ world = journal[i].before
  BY <1>1, <1>6 DEF Reached
<1>9. Reached(journal'[i])
  BY <1>6, <1>8 DEF Reached
<1>10. i \in 1..Len(journal) /\ \A p \in Paths : world.fs[p] \in Nodes
  BY <1>1 DEF Typed, Worlds
<1>11. backup' \in [Paths -> [node : Nodes, by : 0..Len(journal)]]
  BY <1>1, <1>2, <1>5, <1>10 DEF Typed
<1>12. ASSUME NEW k \in DOMAIN journal PROVE Saved(k)'
  <2>1. /\ journal'[k].request = journal[k].request /\ journal'[k].before = journal[k].before
        /\ journal'[k].fresh => journal[k].fresh
    BY <1>6
  <2>2. CASE r.op # "append"
    BY <1>1, <1>5, <2>1, <2>2 DEF Saved
  <2>3. CASE r.op = "append" /\ k = i
    <3>1. backup'[r.p].node = world.fs[r.p]
      BY <1>1, <1>2, <1>5, <2>3 DEF Typed
    <3> QED
      BY <1>8, <2>1, <2>3, <3>1 DEF Saved
  <2>4. CASE r.op = "append" /\ k # i
    <3>1. \A p \in Paths : backup'[p] = backup[p] \/ backup'[p].by = i
      BY <1>1, <1>2, <1>5, <2>4 DEF Typed
    <3>2. journal[k].request \in Requests
      BY <1>1, TaskIs
    <3>3. journal[k].request.op = "append" => journal[k].request.p \in Paths
      BY <3>2, RequestNames DEF FileOps
    <3> QED
      BY <1>1, <2>1, <2>4, <3>1, <3>3 DEF Saved
  <2> QED
    BY <2>2, <2>3, <2>4
<1>13. world' \in Worlds
  BY <1>1, <1>5 DEF Reaches, Typed
<1> QED
  BY <1>6, <1>7, <1>9, <1>11, <1>12, <1>13, TasksKeep

(* A task that fails keeps its undo plan.                                  *)
LEMMA FailStep ==
  ASSUME CatalogInv, NEW i \in DOMAIN journal, StepFails(i) PROVE CatalogInv'
<1>1. /\ Typed /\ AsPlanned(journal[i]) /\ Reached(journal[i])
      /\ \A k \in DOMAIN journal : Saved(k)
  BY DEF CatalogInv
<1>2. /\ journal[i].status \in {"planned", "running"} /\ Reaches(i, world, "failed")
      /\ backup' = backup
  BY DEF StepFails
<1>3. journal[i].steps # <<>>
  BY <1>1, <1>2, OneOrTwo DEF AsPlanned
<1>4. /\ journal' \in Seq(Tasks) /\ Len(journal') = Len(journal)
      /\ DOMAIN journal' = DOMAIN journal
      /\ \A k \in DOMAIN journal \ {i} : journal'[k] = journal[k]
      /\ journal'[i].request = journal[i].request /\ journal'[i].before = journal[i].before
      /\ journal'[i].undo = journal[i].undo /\ journal'[i].status = "failed"
      /\ journal'[i].after = world
      /\ journal'[i].fresh <=> journal[i].fresh /\ world = journal[i].after
  BY <1>1, <1>2, <1>3, ReachesTask DEF Typed
<1>5. AsPlanned(journal'[i])
  BY <1>1, <1>4 DEF AsPlanned
<1>6. Reached(journal'[i])
  BY <1>1, <1>2, <1>4 DEF Reached
<1>7. ASSUME NEW k \in DOMAIN journal PROVE Saved(k)'
  <2>1. /\ journal'[k].request = journal[k].request /\ journal'[k].before = journal[k].before
        /\ journal'[k].fresh => journal[k].fresh
    BY <1>4
  <2> QED
    BY <1>1, <1>2, <2>1 DEF Saved
<1>8. world' \in Worlds
  BY <1>1, <1>2 DEF Reaches, Typed
<1>9. backup' \in [Paths -> [node : Nodes, by : 0..Len(journal)]]
  BY <1>1, <1>2 DEF Typed
<1> QED
  BY <1>4, <1>5, <1>6, <1>7, <1>8, <1>9, TasksKeep

(* A task that is planned has not begun, and no backup is its own.         *)
LEMMA PlanStep ==
  ASSUME CatalogInv, NEW r \in Requests, Plan(r) PROVE CatalogInv'
<1> DEFINE t == [request |-> r, steps |-> Built(r).steps, undo |-> Built(r).undo,
                 status |-> "planned", before |-> world, fresh |-> TRUE, after |-> world]
<1>1. /\ Typed /\ world \in Worlds /\ journal \in Seq(Tasks)
      /\ \A k \in DOMAIN journal : AsPlanned(journal[k]) /\ Reached(journal[k]) /\ Saved(k)
  BY DEF CatalogInv, Typed
<1>n. PICK n \in Nat : n = Len(journal) + 1
  BY <1>1
<1>2. /\ Len(journal) < MaxRuns /\ journal' = Append(journal, t)
      /\ r.op \in {"copy", "move", "link"} <=> r.p # r.q
      /\ UNCHANGED <<world, backup>>
  BY DEF Plan
<1>3. /\ Built(r).undo = Reverse(r, world)
      /\ \/ Built(r).steps = <<Doer(r)>>
         \/ /\ Built(r).steps = <<Before(r), Doer(r)>>
            /\ r.op = "append" => world.fs[r.p].kind = "file"
  BY PlanMade DEF Plan
<1>4. Built(r).steps \in Seq(StepCommands) /\ Built(r).undo \in Seq(StepCommands)
  <2>1. Doer(r) \in StepCommands /\ Before(r) \in StepCommands
    BY DoerTyped
  <2>2. <<Doer(r)>> \in Seq(StepCommands) /\ <<Before(r), Doer(r)>> \in Seq(StepCommands)
    BY <2>1
  <2>3. Reverse(r, world) \in Seq(StepCommands)
    BY ReverseTyped
  <2> QED
    BY <1>3, <2>2, <2>3
<1>5. t \in Tasks
  BY <1>1, <1>4 DEF Tasks
<1>6. AsPlanned(t) /\ Reached(t)
  BY <1>2, <1>3 DEF AsPlanned, Reached
<1>7. /\ journal' \in Seq(Tasks) /\ Len(journal') = n /\ journal'[n] = t
      /\ DOMAIN journal' = DOMAIN journal \cup {n}
      /\ \A k \in DOMAIN journal : journal'[k] = journal[k]
      /\ n \in Nat /\ n <= MaxRuns
  <2> HIDE DEF t
  <2>1. Len(journal) \in Nat /\ n <= MaxRuns
    BY <1>1, <1>2, <1>n, CatalogAssumption
  <2> QED
    BY <1>1, <1>2, <1>5, <1>n, <2>1
<1>8. \A p \in Paths : backup[p].by \in 0..Len(journal)
  BY <1>1 DEF Typed
<1>9. Typed'
  <2>1. backup' \in [Paths -> [node : Nodes, by : 0..n]]
    <3>1. 0..Len(journal) \subseteq 0..n
      BY <1>1, <1>n
    <3> QED
      BY <1>1, <1>2, <3>1 DEF Typed
  <2> QED
    BY <1>1, <1>2, <1>7, <2>1 DEF Typed
<1>10. ASSUME NEW k \in DOMAIN journal
       PROVE  AsPlanned(journal'[k]) /\ Reached(journal'[k]) /\ Saved(k)'
  <2>1. journal'[k] = journal[k]
    BY <1>7
  <2>2. Saved(k)'
    BY <1>1, <1>2, <2>1 DEF Saved
  <2> QED
    BY <1>1, <2>1, <2>2
<1>11. AsPlanned(journal'[n]) /\ Reached(journal'[n]) /\ Saved(n)'
  <2>1. r.op = "append" => r.p \in Paths
    BY RequestNames DEF FileOps
  <2>2. n \notin 0..Len(journal)
    BY <1>1, <1>n
  <2>3. ~(r.op = "append" /\ backup'[r.p].by = n)
    BY <1>2, <1>8, <2>1, <2>2
  <2>4. journal'[n] = t /\ t.request = r
    BY <1>7
  <2> HIDE DEF t
  <2>5. journal'[n].request = r
    BY <2>4
  <2>6. Saved(n)'
    BY <2>3, <2>5 DEF Saved
  <2>7. AsPlanned(journal'[n])
    BY <1>6, <2>4
  <2>8. Reached(journal'[n])
    BY <1>6, <2>4
  <2> QED
    BY <2>6, <2>7, <2>8
<1> QED
  BY <1>7, <1>9, <1>10, <1>11 DEF CatalogInv

(* An undo changes the machine and what the journal says of the task, and  *)
(* nothing of what it was.                                                 *)
LEMMA UndoStep ==
  ASSUME CatalogInv, NEW i \in DOMAIN journal, Undo(i) PROVE CatalogInv'
<1> DEFINE c == journal[i].undo[1]
<1>1. /\ Typed /\ journal \in Seq(Tasks) /\ journal[i] \in Tasks
      /\ \A k \in DOMAIN journal : AsPlanned(journal[k]) /\ Reached(journal[k]) /\ Saved(k)
  BY TaskIs DEF CatalogInv, Typed
<1>2. /\ journal[i].status \in {"ran", "failed"} /\ journal[i].undo # <<>>
      /\ world' = Result(world, c) /\ backup' = backup
      /\ \/ journal' = [journal EXCEPT ![i].status = "undone"]
         \/ journal' = journal
  BY DEF Undo
<1>3. c \in StepCommands
  <2>1. journal[i].undo \in Seq(StepCommands)
    BY <1>1 DEF Tasks
  <2> QED
    BY <1>2, <2>1
<1>4. world' \in Worlds
  BY <1>1, <1>2, <1>3, ResultTyped DEF Typed
<1>5. backup' \in [Paths -> [node : Nodes, by : 0..Len(journal)]]
  BY <1>1, <1>2 DEF Typed
<1>6. CASE journal' = journal
  BY <1>1, <1>2, <1>4, <1>5, <1>6 DEF CatalogInv, Typed, Saved
<1>7. CASE journal' = [journal EXCEPT ![i].status = "undone"]
  <2>1. /\ DOMAIN journal' = DOMAIN journal
        /\ \A k \in DOMAIN journal \ {i} : journal'[k] = journal[k]
        /\ journal'[i] = [journal[i] EXCEPT !.status = "undone"]
    BY <1>1, <1>7
  <2>2. journal'[i] \in Tasks
    BY <1>1, <2>1 DEF Tasks
  <2>3. journal' \in Seq(Tasks) /\ Len(journal') = Len(journal)
    <3>1. DOMAIN journal = 1..Len(journal)
      BY <1>1
    <3>2. journal' = [k \in DOMAIN journal |-> journal'[k]]
      BY <1>7
    <3>3. \A k \in 1..Len(journal) : journal'[k] \in Tasks
      BY <1>1, <2>1, <2>2, <3>1
    <3>4. journal' = [k \in 1..Len(journal) |-> journal'[k]]
      BY <3>1, <3>2
    <3> QED
      BY <1>1, <3>3, <3>4
  <2>4. /\ journal'[i].request = journal[i].request /\ journal'[i].before = journal[i].before
        /\ journal'[i].undo = journal[i].undo /\ journal'[i].status = "undone"
        /\ journal'[i].fresh = journal[i].fresh
    BY <1>1, <2>1 DEF Tasks
  <2>5. AsPlanned(journal'[i]) /\ Reached(journal'[i])
    BY <1>1, <2>4 DEF AsPlanned, Reached
  <2>6. ASSUME NEW k \in DOMAIN journal PROVE Saved(k)'
    <3>1. /\ journal'[k].request = journal[k].request /\ journal'[k].before = journal[k].before
          /\ journal'[k].fresh = journal[k].fresh
      BY <2>1, <2>4
    <3> QED
      BY <1>1, <1>2, <3>1 DEF Saved
  <2> QED
    BY <1>4, <1>5, <2>1, <2>3, <2>5, <2>6, TasksKeep
<1> QED
  BY <1>2, <1>6, <1>7

-----------------------------------------------------------------------------
(* The inductive invariant holds in every reachable state.                 *)
THEOREM CatalogInvariance == CatalogSpec => []CatalogInv
<1>1. CatalogInit => CatalogInv
  <2> SUFFICES ASSUME CatalogInit PROVE CatalogInv
    OBVIOUS
  <2>1. Absent \in Nodes
    BY DEF Absent, Nothing, Nodes
  <2>2. journal \in Seq(Tasks) /\ Len(journal) = 0 /\ DOMAIN journal = {} /\ 0 <= MaxRuns
    BY CatalogAssumption DEF CatalogInit
  <2>3. backup \in [Paths -> [node : Nodes, by : 0..Len(journal)]]
    BY <2>1, <2>2 DEF CatalogInit
  <2>4. world \in Worlds
    BY CatalogAssumption DEF CatalogInit
  <2> QED
    BY <2>2, <2>3, <2>4 DEF CatalogInv, Typed
<1>2. CatalogInv /\ [CatalogNext]_catalogVars => CatalogInv'
  <2> SUFFICES ASSUME CatalogInv, [CatalogNext]_catalogVars PROVE CatalogInv'
    OBVIOUS
  <2>1. CASE UNCHANGED catalogVars
    BY <2>1 DEF catalogVars, CatalogInv, Typed, Saved
  <2>2. ASSUME NEW i \in DOMAIN journal, Step(i) PROVE CatalogInv'
    <3>1. AsPlanned(journal[i]) /\ journal[i].status \in {"planned", "running"}
      BY <2>2 DEF CatalogInv, Step
    <3>2. \/ journal[i].steps = <<Doer(journal[i].request)>>
          \/ /\ journal[i].status = "planned"
             /\ journal[i].steps = <<Before(journal[i].request), Doer(journal[i].request)>>
             /\ journal[i].request.op = "append" =>
                  journal[i].before.fs[journal[i].request.p].kind = "file"
      BY <3>1 DEF AsPlanned
    <3> QED
      BY <2>2, <3>2, DoerStep, BeforeStep
  <2> QED
    BY <2>1, <2>2, PlanStep, FailStep, UndoStep DEF CatalogNext
<1> QED
  BY <1>1, <1>2, PTL DEF CatalogSpec

-----------------------------------------------------------------------------
(* Undoing.                                                                *)

(* A machine with one path changed.                                        *)
PutAt(w, p, n) == [w EXCEPT !.fs[p] = n]

(* Nothing else of it is.                                                  *)
LEMMA PutThere ==
  ASSUME NEW w \in Worlds, NEW p \in Paths, NEW n
  PROVE  /\ n \in Nodes => PutAt(w, p, n) \in Worlds
         /\ PutAt(w, p, n).fs[p] = n /\ \A q \in Paths \ {p} : PutAt(w, p, n).fs[q] = w.fs[q]
         /\ PutAt(w, p, n).pkgs = w.pkgs /\ PutAt(w, p, n).active = w.active
         /\ PutAt(w, p, n).enabled = w.enabled
  BY DEF PutAt, Worlds

(* A machine that differs in one field becomes the other by it.            *)
LEMMA FieldsMake ==
  ASSUME NEW w \in Worlds, NEW b \in Worlds, w.fs = b.fs
  PROVE  /\ \A s : w.active = b.active /\ w.enabled = b.enabled /\ s = b.pkgs =>
                [w EXCEPT !.pkgs = s] = b
         /\ w.pkgs = b.pkgs /\ w.enabled = b.enabled /\ b.active = FALSE =>
                [w EXCEPT !.active = FALSE] = b
         /\ w.pkgs = b.pkgs /\ w.active = b.active /\ b.enabled = FALSE =>
                [w EXCEPT !.enabled = FALSE] = b
<1>1. /\ w = [fs |-> w.fs, pkgs |-> w.pkgs, active |-> w.active, enabled |-> w.enabled]
      /\ b = [fs |-> b.fs, pkgs |-> b.pkgs, active |-> b.active, enabled |-> b.enabled]
  BY DEF Worlds
<1> QED
  BY <1>1

(* Nothing is no file, no directory and no link.                           *)
LEMMA Kinds ==
  /\ Absent.kind = "none" /\ Link.kind = "link"
  /\ \A n : Dir(n).kind = "dir" /\ File(n).kind = "file"
  /\ Absent \in Nodes /\ Link \in Nodes /\ \A n \in Nat : Dir(n) \in Nodes /\ File(n) \in Nodes
  BY DEF Absent, Nothing, Link, Dir, File, Nodes

(* What was made where nothing was is taken away again.                    *)
LEMMA RemoveUndoes ==
  ASSUME NEW b \in Worlds, NEW w \in Worlds, NEW p \in Paths, b.fs[p] = Absent,
         w.pkgs = b.pkgs, w.active = b.active, w.enabled = b.enabled,
         \A q \in Paths \ {p} : w.fs[q] = b.fs[q]
  PROVE  PutAt(w, p, Absent) = b
<1>1. PutAt(w, p, Absent) \in Worlds
  BY Kinds, PutThere
<1>2. /\ PutAt(w, p, Absent).pkgs = b.pkgs /\ PutAt(w, p, Absent).active = b.active
      /\ PutAt(w, p, Absent).enabled = b.enabled
      /\ \A q \in Paths : PutAt(w, p, Absent).fs[q] = b.fs[q]
  BY PutThere
<1> QED
  BY <1>1, <1>2, SameWorld

(* So it is by rm.                                                         *)
LEMMA PutUndoes ==
  ASSUME NEW b \in Worlds, NEW w \in Worlds, NEW p \in Paths, b.fs[p] = Absent,
         NEW n, n.kind # "none", w = PutAt(b, p, n)
  PROVE  Result(w, Command("rm", p, p)) = b
<1>1. /\ w.pkgs = b.pkgs /\ w.active = b.active /\ w.enabled = b.enabled
      /\ w.fs[p] = n /\ \A q \in Paths \ {p} : w.fs[q] = b.fs[q]
  BY PutThere
<1>2. Result(w, Command("rm", p, p)) = PutAt(w, p, Absent)
  BY <1>1 DEF Result, Command, PutAt
<1> QED
  BY <1>1, <1>2, RemoveUndoes

(* rm -f of nothing does nothing.                                          *)
LEMMA RemoveNothing ==
  ASSUME NEW b \in Worlds, NEW p \in Paths, b.fs[p].kind = "none"
  PROVE  Result(b, Command("rm", p, p)) = b
<1>1. Result(b, Command("rm", p, p)) = PutAt(b, p, b.fs[p])
  BY DEF Result, Command, PutAt
<1>2. PutAt(b, p, b.fs[p]) \in Worlds
  BY PutThere DEF Worlds
<1>3. \A q \in Paths : PutAt(b, p, b.fs[p]).fs[q] = b.fs[q]
  BY PutThere
<1> QED
  BY <1>1, <1>2, <1>3, PutThere, SameWorld

(* The reverse of what a task did, or had not begun to do, leads back.     *)
LEMMA ReverseUndoes ==
  ASSUME CatalogInv, NEW i \in DOMAIN journal, journal[i].status \in {"ran", "failed"},
         journal[i].undo # <<>>, Goes(journal[i].undo[1]), journal[i].fresh,
         world = journal[i].after, ~NotAllowedFor(i)
  PROVE  Result(world, journal[i].undo[1]) = journal[i].before
<1>1. PICK r \in Requests, b \in Worlds : r = journal[i].request /\ b = journal[i].before
  BY TaskIs DEF CatalogInv
<1>2. PICK c : c = journal[i].undo[1]
  OBVIOUS
<1>3. /\ Typed /\ world \in Worlds /\ backup \in [Paths -> [node : Nodes, by : 0..Len(journal)]]
      /\ AsPlanned(journal[i]) /\ Reached(journal[i]) /\ Saved(i)
  BY DEF CatalogInv, Typed
<1>4. world = b \/ (world = Done(r, b) /\ Possible(r, b))
  BY <1>1, <1>3 DEF Reached
<1>5. Reverse(r, b) # <<>> /\ c = Reverse(r, b)[1] /\ Goes(c)
  BY <1>1, <1>2, <1>3 DEF AsPlanned
<1>6. r.op \in {"copy", "move", "link"} => r.p # r.q
  BY <1>1, <1>3 DEF AsPlanned
<1>7. /\ r.op = "mkdir" => Lies(b, r.p)
      /\ r.op = "move" => b.fs[r.q].kind = "none"
      /\ r.op = "append" => backup[r.p].by = i \/ b.fs[r.p].kind = "none"
      /\ r.op = "pkg.install" => r.names \cap b.pkgs = {}
      /\ r.op = "pkg.remove" => r.names \subseteq b.pkgs
      /\ r.op = "svc.start" => ~b.active
      /\ r.op = "svc.enable" => ~b.enabled
  BY <1>1 DEF NotAllowedFor
<1>e. \A p \in Paths : b.fs[p].kind = "none" /\ Lies(b, p) => b.fs[p] = Absent
  BY DEF Lies, Worlds, Nodes, Absent, Nothing
<1>8. /\ r.op \in FileOps => r.p \in Paths /\ r.q \in Paths
      /\ \A p \in Paths : b.fs[p] \in Nodes /\ world.fs[p] \in Nodes
  BY <1>3, RequestNames DEF Worlds
<1> SUFFICES Result(world, c) = b
  BY <1>1, <1>2
<1>9. CASE r.op = "mkdir"
  <2>1. b.fs[r.p].kind # "dir" /\ c = Command("rmdir", r.p, r.p) /\ r.p \in Paths
    BY <1>5, <1>8, <1>9 DEF Reverse, UndoIf, Cmd, FileOps
  <2>2. world.fs[r.p].kind = "dir"
    <3>1. c.cmd = "rmdir" /\ c.p = r.p /\ Goes(c)
      BY <1>5, <2>1 DEF Command
    <3> QED
      BY <3>1 DEF Goes
  <2>3. world = PutAt(b, r.p, IF b.fs[r.p].kind = "none" THEN Dir(0) ELSE b.fs[r.p])
    BY <1>4, <1>9, <2>1, <2>2 DEF Done, PutAt
  <2>4. /\ world.fs[r.p] = IF b.fs[r.p].kind = "none" THEN Dir(0) ELSE b.fs[r.p]
        /\ \A q \in Paths \ {r.p} : world.fs[q] = b.fs[q]
        /\ world.pkgs = b.pkgs /\ world.active = b.active /\ world.enabled = b.enabled
    BY <2>1, <2>3, PutThere
  <2>5. b.fs[r.p] = Absent /\ world.fs[r.p] = Dir(0)
    BY <1>7, <1>9, <1>e, <2>1, <2>2, <2>4
  <2>6. Result(world, c) = PutAt(world, r.p, Absent)
    BY <2>1, <2>5 DEF Result, Command, PutAt
  <2> QED
    BY <1>3, <2>1, <2>4, <2>5, <2>6, RemoveUndoes
<1>10. CASE r.op = "touch"
  <2>1. b.fs[r.p].kind = "none" /\ c = Command("rm", r.p, r.p) /\ r.p \in Paths
    BY <1>5, <1>8, <1>10 DEF Reverse, UndoIf, Cmd, FileOps
  <2>2. CASE world = b
    BY <2>1, <2>2, RemoveNothing
  <2>3. CASE world = Done(r, b) /\ Possible(r, b)
    <3>1. world = PutAt(b, r.p, File(0)) /\ b.fs[r.p] = Absent
      BY <1>10, <1>e, <2>1, <2>3 DEF Done, PutAt, Possible
    <3> QED
      BY <1>3, <2>1, <3>1, Kinds, PutUndoes
  <2> QED
    BY <1>4, <2>2, <2>3
<1>11. CASE r.op \in {"copy", "link"}
  <2>1. b.fs[r.q].kind = "none" /\ c = Command("rm", r.q, r.q) /\ r.q \in Paths
    BY <1>5, <1>8, <1>11 DEF Reverse, UndoIf, Cmd, FileOps
  <2>2. CASE world = b
    BY <2>1, <2>2, RemoveNothing
  <2>3. CASE world = Done(r, b) /\ Possible(r, b)
    <3>1. b.fs[r.q] = Absent
      BY <1>11, <1>e, <2>1, <2>3 DEF Possible
    <3>2. PICK n : world = PutAt(b, r.q, n) /\ n.kind # "none"
      <4>1. r.op = "copy" => world = PutAt(b, r.q, b.fs[r.p]) /\ b.fs[r.p].kind # "none"
        BY <2>3, <3>1, Kinds DEF Done, Into, PutAt, Possible
      <4>2. r.op = "link" => world = PutAt(b, r.q, Link) /\ Link.kind # "none"
        BY <2>3, <3>1, Kinds DEF Done, Into, PutAt
      <4> QED
        BY <1>11, <4>1, <4>2
    <3> QED
      BY <1>3, <2>1, <3>1, <3>2, PutUndoes
  <2> QED
    BY <1>4, <2>2, <2>3
<1>12. CASE r.op = "append"
  <2>1. /\ c = Command(IF b.fs[r.p].kind = "file" THEN "restore" ELSE "rm", r.p, r.p)
        /\ r.p \in Paths
    BY <1>5, <1>8, <1>12 DEF Reverse, Cmd, FileOps
  <2>2. world = b \/ world = PutAt(b, r.p, File(b.fs[r.p].n + 1))
    BY <1>4, <1>12 DEF Done, PutAt
  <2>3. /\ \A q \in Paths \ {r.p} : world.fs[q] = b.fs[q]
        /\ world.fs[r.p] = b.fs[r.p] \/ world.fs[r.p] = File(b.fs[r.p].n + 1)
        /\ world.pkgs = b.pkgs /\ world.active = b.active /\ world.enabled = b.enabled
    BY <2>1, <2>2, PutThere
  <2>4. CASE b.fs[r.p].kind = "none"
    <3>1. c = Command("rm", r.p, r.p)
      BY <2>1, <2>4
    <3>2. CASE world = b
      BY <2>1, <2>4, <3>1, <3>2, RemoveNothing
    <3>3. CASE world = Done(r, b) /\ Possible(r, b)
      <4>1. world = PutAt(b, r.p, File(b.fs[r.p].n + 1)) /\ b.fs[r.p] = Absent
        BY <1>12, <1>e, <2>1, <2>4, <3>3 DEF Done, PutAt, Possible
      <4>2. File(b.fs[r.p].n + 1).kind # "none"
        BY DEF File
      <4> QED
        BY <1>3, <2>1, <3>1, <4>1, <4>2, PutUndoes
    <3> QED
      BY <1>4, <3>2, <3>3
  <2>5. CASE b.fs[r.p].kind # "none"
    <3>1. b.fs[r.p].kind = "file" /\ backup[r.p].node = b.fs[r.p]
      BY <1>1, <1>3, <1>7, <1>12, <2>5 DEF Saved
    <3>2. world.fs[r.p].kind = "file"
      BY <2>3, <3>1, Kinds
    <3>3. Result(world, c) = PutAt(world, r.p, b.fs[r.p])
      BY <2>1, <3>1, <3>2 DEF Result, Command, Into, PutAt
    <3> DEFINE v == PutAt(world, r.p, b.fs[r.p])
    <3>4. v \in Worlds
      BY <1>3, <1>8, <2>1, PutThere
    <3>5. /\ v.pkgs = b.pkgs /\ v.active = b.active /\ v.enabled = b.enabled
          /\ \A q \in Paths : v.fs[q] = b.fs[q]
      <4>1. /\ v.fs[r.p] = b.fs[r.p] /\ \A q \in Paths \ {r.p} : v.fs[q] = world.fs[q]
            /\ v.pkgs = world.pkgs /\ v.active = world.active /\ v.enabled = world.enabled
        <5>1. world \in Worlds /\ r.p \in Paths
          BY <1>3, <2>1
        <5> QED
          BY <5>1, PutThere
      <4> HIDE DEF v
      <4> QED
        BY <2>3, <4>1
    <3>6. v = b
      <4> HIDE DEF v
      <4> QED
        BY <3>4, <3>5, SameWorld
    <3> QED
      BY <3>3, <3>6
  <2> QED
    BY <2>4, <2>5
<1>13. CASE r.op = "move"
  <2>1. /\ c = Command("mv", r.q, r.p) /\ r.p \in Paths /\ r.q \in Paths /\ r.p # r.q
        /\ b.fs[r.q].kind = "none"
    BY <1>5, <1>6, <1>7, <1>8, <1>13 DEF Reverse, FileOps
  <2>2. world.fs[r.q].kind # "none"
    <3>1. c.cmd = "mv" /\ c.p = r.q /\ Goes(c)
      BY <1>5, <2>1 DEF Command
    <3> QED
      BY <3>1 DEF Goes
  <2>0. b.fs[r.q] = Absent
    BY <1>4, <1>13, <1>e, <2>1, <2>2 DEF Possible
  <2>3. world = PutAt(Into(b, r.q, b.fs[r.p]), r.p, Absent)
    BY <1>4, <1>13, <2>0, <2>2, Kinds DEF Done, PutAt
  <2> DEFINE u == PutAt(b, r.q, b.fs[r.p])
  <2>4. Into(b, r.q, b.fs[r.p]) = u
    BY <2>0, Kinds DEF Into, PutAt
  <2>5. u \in Worlds
    BY <1>8, <2>1, PutThere
  <2>6. /\ u.fs[r.q] = b.fs[r.p] /\ \A q \in Paths \ {r.q} : u.fs[q] = b.fs[q]
        /\ u.pkgs = b.pkgs /\ u.active = b.active /\ u.enabled = b.enabled
    BY <2>1, PutThere
  <2>7. /\ world.fs[r.p] = Absent /\ world.fs[r.q] = b.fs[r.p]
        /\ \A q \in Paths \ {r.p, r.q} : world.fs[q] = b.fs[q]
        /\ world.pkgs = b.pkgs /\ world.active = b.active /\ world.enabled = b.enabled
    <3> HIDE DEF u
    <3>1. world = PutAt(u, r.p, Absent)
      BY <2>3, <2>4
    <3> QED
      BY <2>1, <2>5, <2>6, <3>1, PutThere
  <2> DEFINE v == PutAt(world, r.p, b.fs[r.p])
             x == PutAt(v, r.q, Absent)
  <2>8. Result(world, c) = x
    BY <2>1, <2>7, Kinds DEF Result, Command, Into, PutAt
  <2>9. v \in Worlds
    BY <1>3, <1>8, <2>1, PutThere
  <2>10. /\ v.fs[r.p] = b.fs[r.p] /\ \A q \in Paths \ {r.p, r.q} : v.fs[q] = b.fs[q]
         /\ v.pkgs = b.pkgs /\ v.active = b.active /\ v.enabled = b.enabled
    <3>0. world \in Worlds /\ r.p \in Paths
      BY <1>3, <2>1
    <3>1. v.fs[r.p] = b.fs[r.p] /\ \A q \in Paths \ {r.p} : v.fs[q] = world.fs[q]
      BY <3>0, PutThere
    <3>2. v.pkgs = world.pkgs /\ v.active = world.active /\ v.enabled = world.enabled
      BY <1>3, <2>1, PutThere
    <3> HIDE DEF v
    <3> QED
      BY <2>7, <3>1, <3>2
  <2>11. x = b
    <3> HIDE DEF v
    <3>1. \A q \in Paths \ {r.q} : v.fs[q] = b.fs[q]
      BY <2>10
    <3> QED
      BY <2>0, <2>1, <2>9, <2>10, <3>1, RemoveUndoes
  <2> QED
    BY <2>8, <2>11
<1>14. CASE r.op \in {"pkg.install", "pkg.remove"}
  <2>1. /\ r.op = "pkg.install" => c = Batch("remove", r.names)
        /\ r.op = "pkg.remove" => c = Batch("install", r.names)
    BY <1>5, <1>14 DEF Reverse
  <2>2. CASE r.op = "pkg.install"
    <3>1. world.pkgs \ r.names = b.pkgs
      <4>1. world = b \/ world.pkgs = b.pkgs \cup r.names
        BY <1>4, <2>2 DEF Done, Worlds
      <4> QED
        BY <1>7, <2>2, <4>1
    <3>2. world.fs = b.fs /\ world.active = b.active /\ world.enabled = b.enabled
      BY <1>4, <2>2 DEF Done, Worlds
    <3>3. c.cmd = "remove" /\ c.names = r.names
      <4>1. c = Batch("remove", r.names)
        BY <2>1, <2>2
      <4>2. c = [cmd |-> "remove", p |-> "", q |-> "", names |-> r.names]
        BY <4>1 DEF Batch
      <4> QED
        BY <4>2
    <3>4. Result(world, c) = [world EXCEPT !.pkgs = world.pkgs \ r.names]
      BY <3>3 DEF Result
    <3> QED
      BY <1>3, <3>1, <3>2, <3>4, FieldsMake
  <2>3. CASE r.op = "pkg.remove"
    <3>1. world.pkgs \cup r.names = b.pkgs
      <4>1. world = b \/ world.pkgs = b.pkgs \ r.names
        BY <1>4, <2>3 DEF Done, Worlds
      <4> QED
        BY <1>7, <2>3, <4>1
    <3>2. world.fs = b.fs /\ world.active = b.active /\ world.enabled = b.enabled
      BY <1>4, <2>3 DEF Done, Worlds
    <3>3. c.cmd = "install" /\ c.names = r.names
      <4>1. c = Batch("install", r.names)
        BY <2>1, <2>3
      <4>2. c = [cmd |-> "install", p |-> "", q |-> "", names |-> r.names]
        BY <4>1 DEF Batch
      <4> QED
        BY <4>2
    <3>4. Result(world, c) = [world EXCEPT !.pkgs = world.pkgs \cup r.names]
      BY <3>3 DEF Result
    <3> QED
      BY <1>3, <3>1, <3>2, <3>4, FieldsMake
  <2> QED
    BY <1>14, <2>2, <2>3
<1>15. CASE r.op = "svc.start"
  <2>1. c = Batch("stop", {}) /\ b.active = FALSE
    BY <1>5, <1>7, <1>15 DEF Reverse, Worlds
  <2>2. /\ world.fs = b.fs /\ world.pkgs = b.pkgs /\ world.enabled = b.enabled
    BY <1>4, <1>15 DEF Done, Worlds
  <2>3. Result(world, c) = [world EXCEPT !.active = FALSE]
    BY <2>1 DEF Result, Batch
  <2> QED
    BY <1>3, <2>1, <2>2, <2>3, FieldsMake
<1>16. CASE r.op = "svc.enable"
  <2>1. c = Batch("disable", {}) /\ b.enabled = FALSE
    BY <1>5, <1>7, <1>16 DEF Reverse, Worlds
  <2>2. /\ world.fs = b.fs /\ world.pkgs = b.pkgs /\ world.active = b.active
    BY <1>4, <1>16 DEF Done, Worlds
  <2>3. Result(world, c) = [world EXCEPT !.enabled = FALSE]
    BY <2>1 DEF Result, Batch
  <2> QED
    BY <1>3, <2>1, <2>2, <2>3, FieldsMake
<1>17. CASE r.op \notin {"mkdir", "touch", "copy", "link", "append", "move", "pkg.install",
                         "pkg.remove", "svc.start", "svc.enable"}
  BY <1>5, <1>17 DEF Reverse
<1> QED
  BY <1>9, <1>10, <1>11, <1>12, <1>13, <1>14, <1>15, <1>16, <1>17

(* An undo that reports success puts the machine back as the plan found    *)
(* it, if the task ran on what was planned and left what is undone, but    *)
(* for what the undo plans do not allow for: however many tasks there are  *)
(* between plan and undo, and wherever this one stopped (compensation      *)
(* plans of playbooks.py and fileops.py).                                  *)
THEOREM UndoRestoresTheorem == CatalogSpec => UndoRestores
<1>1. ASSUME CatalogInv, [CatalogNext]_catalogVars, NEW i \in DOMAIN journal,
             journal'[i].status = "undone", journal[i].status # "undone",
             journal[i].fresh, world = journal[i].after, ~NotAllowedFor(i)
      PROVE  world' = journal[i].before
  <2>1. ASSUME UNCHANGED catalogVars PROVE FALSE
    BY <1>1, <2>1 DEF catalogVars
  <2>2. journal \in Seq(Tasks)
    BY <1>1 DEF CatalogInv, Typed
  <2>3. ASSUME NEW r \in Requests, Plan(r) PROVE FALSE
    <3>1. journal'[i] = journal[i]
      BY <2>2, <2>3 DEF Plan
    <3> QED
      BY <1>1, <3>1
  <2>4. ASSUME NEW k \in DOMAIN journal, NEW w, NEW status \in {"running", "ran", "failed"},
               Reaches(k, w, status)
        PROVE  journal'[i].status # "undone"
    BY <1>1, <2>2, <2>4 DEF Reaches, Tasks
  <2>5. ASSUME NEW k \in DOMAIN journal, Step(k) \/ StepFails(k) PROVE FALSE
    BY <1>1, <2>4, <2>5 DEF Step, StepFails
  <2>6. ASSUME NEW k \in DOMAIN journal, Undo(k) PROVE world' = journal[i].before
    <3>1. k = i
      BY <1>1, <2>2, <2>6 DEF Undo, Tasks
    <3>2. /\ journal[i].status \in {"ran", "failed"} /\ journal[i].undo # <<>>
          /\ Goes(journal[i].undo[1]) /\ world' = Result(world, journal[i].undo[1])
      BY <2>6, <3>1 DEF Undo
    <3> QED
      BY <1>1, <3>2, ReverseUndoes
  <2> QED
    BY <1>1, <2>1, <2>3, <2>5, <2>6 DEF CatalogNext
<1>2. CatalogInv /\ [CatalogNext]_catalogVars =>
        (\A i \in DOMAIN journal :
           /\ journal'[i].status = "undone" /\ journal[i].status # "undone"
           /\ journal[i].fresh /\ world = journal[i].after /\ ~NotAllowedFor(i)
           => world' = journal[i].before)
  BY <1>1
<1> QED
  BY <1>2, CatalogInvariance, PTL DEF CatalogSpec, UndoRestores

(* What the catalog's journal holds is of its type.                        *)
THEOREM CatalogTypesTheorem == CatalogSpec => []CatalogTypeOK
<1>1. ASSUME CatalogInv PROVE CatalogTypeOK
  <2>1. Typed
    BY <1>1 DEF CatalogInv
  <2>2. ASSUME NEW p \in Paths
        PROVE  backup[p].node \in Nodes /\ backup[p].by \in 0..MaxRuns
    <3>1. 0..Len(journal) \subseteq 0..MaxRuns
      BY <2>1, CatalogAssumption DEF Typed
    <3> QED
      BY <2>1, <3>1 DEF Typed
  <2>3. ASSUME NEW i \in DOMAIN journal
        PROVE  /\ journal[i].request \in Requests
               /\ journal[i].status \in {"planned", "running", "ran", "failed", "undone"}
               /\ journal[i].before \in Worlds /\ journal[i].after \in Worlds
               /\ journal[i].fresh \in BOOLEAN
    BY <2>1, TaskIs DEF Tasks
  <2> QED
    BY <2>1, <2>2, <2>3 DEF CatalogTypeOK, Typed
<1> QED
  BY <1>1, CatalogInvariance, PTL
=============================================================================
