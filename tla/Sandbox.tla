------------------------------- MODULE Sandbox -------------------------------
(***************************************************************************)
(* The sandbox (sandbox.py): read_file, write_file_atomic and execute, one *)
(* step per system call or wait that others can get in between of.         *)
(*                                                                         *)
(* One path of the workspace leads to an inode or to nothing.  An inode    *)
(* has data and a stamp, which stands for what _file_identity compares     *)
(* besides the inode number: size and modification time.  Every change of  *)
(* an inode gives it a new stamp: changes of one size within one tick of   *)
(* the clock are not considered.  Path policy, symbolic links, parent      *)
(* directories and size limits decide before the first step modelled here. *)
(*                                                                         *)
(* A command is a process group: a leader and one child, which may ignore  *)
(* SIGTERM, leave the group, or keep the output pipes open.                *)
(***************************************************************************)
EXTENDS Naturals, FiniteSets

CONSTANTS
    Workers,        \* harness processes
    Data,           \* contents of a file
    ToolSets,       \* the choices of tools a behaviour may have
    MaxChanges,     \* bound: inodes made and changes of their data
    MaxFaults       \* bound: system calls that fail, and crashes

ASSUME SandboxAssumption ==
    /\ Data # {} /\ "any" \notin Data
    /\ ToolSets \subseteq SUBSET {"files", "commands"}
    /\ MaxChanges \in Nat \ {0}
    /\ MaxFaults \in Nat

VARIABLES
    tools,          \* what the registry offers, fixed for a behaviour
    path,           \* the inode the path leads to, 0 if there is none
    inode,          \* [stamp, data] by inode
    temps,          \* inodes that have a temporary name in the directory
    clock,          \* changes so far; also the source of inodes and stamps
    proc,           \* the processes of the command
    cancelled,      \* the cancellation token is set
    status,         \* the result of the last command
    faults,         \* counter of the bound
    pc, mem,        \* step and memory of each worker
    raced,          \* history: workers whose target changed since their recheck
    orphans,        \* history: temporary names a crash or a failed unlink left
    got             \* history: the last answer of read_file, and the file then

fileVars == <<path, inode, temps, clock>>
procVars == <<proc, cancelled, status>>
histVars == <<raced, orphans, got>>
vars     == <<tools, fileVars, procVars, faults, pc, mem, histVars>>

Inodes  == 1..MaxChanges
Members == {"leader", "child"}

Unused == [stamp |-> 0, data |-> "none"]

Absent == [alive |-> FALSE, group |-> FALSE, piped |-> FALSE, stubborn |-> FALSE]

Confirmed == {"SUCCEEDED", "FAILED", "TIMED_OUT", "CANCELLED"}

Status == Confirmed \cup {"START_FAILED", "UNKNOWN_RESULT"}

ReadSteps  == {"first", "second", "revalidate"}
WriteSteps == {"temp", "recheck", "commit"}
ExecSteps  == {"spawn", "wait", "term", "grace", "join"}

\* The memory of a worker: the write it does, what it saw of the file (seen,
\* stamp, digest), its temporary inode, the halves it has read, and what
\* _run_process knows.
Blank == [mode |-> "none", data |-> "none", seen |-> 0, stamp |-> 0, digest |-> "none",
          temp |-> 0, first |-> "none", second |-> "none",
          idempotent |-> FALSE, cause |-> "exit", terminated |-> FALSE]

Init ==
    /\ tools \in ToolSets
    /\ path = 1
    /\ inode \in [Inodes -> {Unused} \cup [stamp : {1}, data : Data]]
    /\ \A i \in Inodes : inode[i] = Unused <=> i # 1
    /\ temps = {} /\ clock = 1
    /\ proc = [m \in Members |-> Absent] /\ cancelled = FALSE /\ status = "none"
    /\ faults = 0
    /\ pc = [w \in Workers |-> "idle"]
    /\ mem = [w \in Workers |-> Blank]
    /\ raced = {} /\ orphans = {}
    /\ got = [first |-> "none", second |-> "none", disk |-> "none"]

Goto(w, to, m) ==
    /\ pc' = [pc EXCEPT ![w] = to]
    /\ mem' = [mem EXCEPT ![w] = m]

\* The path or its file changes: every worker about to commit has checked what is
\* no longer there, except those in done, which have committed.
Race(done) == raced' = (raced \cup {w \in Workers : pc[w] = "commit"}) \ done

-------------------------------------------------------------------------------
(* read_file *)

\* check_read, open and the first fstat, as one step: a file that is renamed away
\* and back around the open is not considered.
BeginRead(w) ==
    /\ "files" \in tools /\ pc[w] = "idle" /\ path # 0
    /\ Goto(w, "first", [Blank EXCEPT !.seen = path, !.stamp = inode[path].stamp])
    /\ UNCHANGED <<fileVars, procVars, faults, histVars>>

\* The loop of os.read, in two turns: the file is larger than one chunk.
ReadFirst(w) ==
    /\ pc[w] = "first"
    /\ Goto(w, "second", [mem[w] EXCEPT !.first = inode[mem[w].seen].data])
    /\ UNCHANGED <<fileVars, procVars, faults, histVars>>

ReadSecond(w) ==
    /\ pc[w] = "second"
    /\ Goto(w, "revalidate", [mem[w] EXCEPT !.second = inode[mem[w].seen].data])
    /\ UNCHANGED <<fileVars, procVars, faults, histVars>>

\* Mutant: it is enough that the path still leads to the inode.
SameFileByInode(m) == path = m.seen

\* The second fstat and revalidate_path: the inode read is unchanged and the
\* path still leads to it.
SameFile(m) == path = m.seen /\ inode[m.seen].stamp = m.stamp

Revalidate(w) ==
    LET m == mem[w] IN
    /\ pc[w] = "revalidate"
    /\ Goto(w, "idle", Blank)
    /\ IF SameFile(m)
       THEN got' = [first |-> m.first, second |-> m.second, disk |-> inode[path].data]
       ELSE UNCHANGED got
    /\ UNCHANGED <<fileVars, procVars, faults, raced, orphans>>

-------------------------------------------------------------------------------
(* write_file_atomic *)

\* The checks before the temporary file.  A write that fails one of them does
\* nothing.  expected is the digest the caller asks for, or "any".
BeginWrite(w, mode, data, expected) ==
    /\ "files" \in tools /\ pc[w] = "idle"
    /\ \/ /\ mode = "CREATE" /\ path = 0
          /\ Goto(w, "temp", [Blank EXCEPT !.mode = mode, !.data = data])
       \/ /\ mode = "REPLACE" /\ path # 0
          /\ expected \in {"any", inode[path].data}
          /\ Goto(w, "temp", [Blank EXCEPT !.mode = mode, !.data = data, !.seen = path,
                                           !.stamp = inode[path].stamp,
                                           !.digest = inode[path].data])
    /\ UNCHANGED <<fileVars, procVars, faults, histVars>>

\* Mutant: the temporary name is there, but its data was never written.
CreateTempUnwritten(w) ==
    /\ pc[w] = "temp" /\ clock < MaxChanges
    /\ clock' = clock + 1
    /\ temps' = temps \cup {clock'}
    /\ Goto(w, "recheck", [mem[w] EXCEPT !.temp = clock'])
    /\ UNCHANGED <<path, inode, procVars, faults, histVars>>

\* _create_exclusive_temp, and the data written to it
CreateTemp(w) ==
    /\ pc[w] = "temp" /\ clock < MaxChanges
    /\ clock' = clock + 1
    /\ inode' = [inode EXCEPT ![clock'] = [stamp |-> clock', data |-> mem[w].data]]
    /\ temps' = temps \cup {clock'}
    /\ Goto(w, "recheck", [mem[w] EXCEPT !.temp = clock'])
    /\ UNCHANGED <<path, procVars, faults, histVars>>

\* Mutant: the temporary file stays behind.
AbandonTemp(w) ==
    /\ Goto(w, "idle", Blank)
    /\ UNCHANGED temps

\* The call returns or raises, and the temporary name is gone: renamed, or
\* unlinked by the finally block (else UnlinkFails).
EndWrite(w) ==
    /\ Goto(w, "idle", Blank)
    /\ temps' = temps \ {mem[w].temp}

\* Mutant: the digest the write started from is trusted.
TargetAsBefore(m) == TRUE

\* The target is as it was when the write began: absent, or the same inode with
\* the same stamp and digest.
TargetUnchanged(m) ==
    IF m.mode = "CREATE" THEN path = 0
    ELSE path = m.seen /\ inode[path].stamp = m.stamp /\ inode[path].data = m.digest

Recheck(w) ==
    /\ pc[w] = "recheck"
    /\ IF TargetUnchanged(mem[w])
       THEN Goto(w, "commit", mem[w]) /\ UNCHANGED temps
       ELSE EndWrite(w)
    /\ UNCHANGED <<path, inode, clock, procVars, faults, histVars>>

\* os.replace, which replaces whatever is there
CommitReplace(w) ==
    /\ pc[w] = "commit" /\ mem[w].mode = "REPLACE"
    /\ path' = mem[w].temp
    /\ EndWrite(w)
    /\ Race({w})
    /\ UNCHANGED <<inode, clock, procVars, faults, orphans, got>>

\* os.link, which fails if anything is there, and the unlink of the temporary
\* name, whose failure is ignored.  What fails after the commit (the fsync of the
\* directory) is reported as an error, but changes nothing.
CommitCreate(w) ==
    /\ pc[w] = "commit" /\ mem[w].mode = "CREATE"
    /\ \/ /\ path # 0
          /\ EndWrite(w)
          /\ raced' = raced \ {w}
          /\ UNCHANGED <<path, faults, orphans>>
       \/ /\ path = 0
          /\ path' = mem[w].temp
          /\ EndWrite(w)
          /\ Race({w})
          /\ UNCHANGED <<faults, orphans>>
       \/ /\ path = 0 /\ faults < MaxFaults
          /\ path' = mem[w].temp
          /\ Goto(w, "idle", Blank)
          /\ Race({w})
          /\ orphans' = orphans \cup {mem[w].temp}
          /\ faults' = faults + 1
          /\ UNCHANGED temps
    /\ UNCHANGED <<inode, clock, procVars, got>>

\* A system call of the write fails before the commit.
WriteFails(w) ==
    /\ pc[w] \in WriteSteps /\ faults < MaxFaults
    /\ faults' = faults + 1
    /\ EndWrite(w)
    /\ raced' = raced \ {w}
    /\ UNCHANGED <<path, inode, clock, procVars, orphans, got>>

\* The call stops where it is, and a temporary name it has stays.
Abandoned(w) ==
    /\ faults < MaxFaults
    /\ faults' = faults + 1
    /\ Goto(w, "idle", Blank)
    /\ orphans' = orphans \cup ({mem[w].temp} \cap temps)
    /\ raced' = raced \ {w}
    /\ UNCHANGED <<fileVars, procVars, got>>

\* The write fails before the commit, one of its checks or a system call, and so
\* does the unlink in finally, which raises anything but FileNotFoundError.
UnlinkFails(w) == pc[w] \in {"recheck", "commit"} /\ Abandoned(w)

-------------------------------------------------------------------------------
(* execute *)

GroupAlive == {m \in Members : proc[m].alive /\ proc[m].group}

PipesHeld == \E m \in Members : proc[m].alive /\ proc[m].piped

\* Every process of S is dead.
Killed(S) == [m \in Members |-> IF m \in S THEN Absent ELSE proc[m]]

\* _classify_process_result; code is how the leader ended, readersFailed that an
\* output pipe was not read to its end.
ClassifyProcessResult(m, code, readersFailed) ==
    IF readersFailed \/ ~m.terminated \/ (m.cause # "exit" /\ ~m.idempotent)
    THEN "UNKNOWN_RESULT"
    ELSE CASE m.cause = "cancel"  -> "CANCELLED"
           [] m.cause = "timeout" -> "TIMED_OUT"
           [] OTHER               -> code

\* One command at a time: the tools that execute are SERIAL.
BeginExecute(w, idempotent) ==
    /\ "commands" \in tools /\ pc[w] = "idle"
    /\ \A v \in Workers : pc[v] \notin ExecSteps
    /\ \A m \in Members : ~proc[m].alive
    /\ Goto(w, "spawn", [Blank EXCEPT !.idempotent = idempotent])
    /\ cancelled' = FALSE
    /\ status' = "none"
    /\ UNCHANGED <<fileVars, proc, faults, histVars>>

\* The start of _run_process: cancelled before it starts, Popen fails, or the
\* leader of a new group runs.
Spawn(w) ==
    /\ pc[w] = "spawn"
    /\ \/ /\ cancelled
          /\ Goto(w, "idle", Blank)
          /\ status' = ClassifyProcessResult([mem[w] EXCEPT !.cause = "cancel", !.terminated = TRUE],
                                              "FAILED", FALSE)
          /\ UNCHANGED <<proc, faults>>
       \/ /\ ~cancelled /\ faults < MaxFaults
          /\ faults' = faults + 1
          /\ Goto(w, "idle", Blank)
          /\ status' = "START_FAILED"
          /\ UNCHANGED proc
       \/ /\ ~cancelled
          /\ \E stubborn \in BOOLEAN :
                proc' = [proc EXCEPT !["leader"] = [alive |-> TRUE, group |-> TRUE,
                                                    piped |-> TRUE, stubborn |-> stubborn]]
          /\ Goto(w, "wait", mem[w])
          /\ UNCHANGED <<faults, status>>
    /\ UNCHANGED <<fileVars, cancelled, histVars>>

\* Mutant: only the leader is looked at.
AfterLeader == "join"

\* What follows when the leader has exited by itself: a group that still has
\* members is terminated.
AfterExit == IF GroupAlive = {} THEN "join" ELSE "term"

\* Mutant: a loop that waits for the leader to exit, or for a cancellation.
PollForExit(w) ==
    /\ pc[w] = "wait"
    /\ \/ /\ ~proc["leader"].alive
          /\ Goto(w, AfterExit, [mem[w] EXCEPT !.terminated = TRUE])
       \/ /\ proc["leader"].alive /\ cancelled
          /\ Goto(w, "term", [mem[w] EXCEPT !.cause = "cancel"])
    /\ UNCHANGED <<fileVars, procVars, faults, histVars>>

\* The polling loop: the leader has exited, or it is cancelled or out of time.
Poll(w) ==
    /\ pc[w] = "wait"
    /\ \/ /\ ~proc["leader"].alive
          /\ Goto(w, AfterExit, [mem[w] EXCEPT !.terminated = TRUE])
       \/ /\ proc["leader"].alive /\ cancelled
          /\ Goto(w, "term", [mem[w] EXCEPT !.cause = "cancel"])
       \/ /\ proc["leader"].alive
          /\ Goto(w, "term", [mem[w] EXCEPT !.cause = "timeout"])
    /\ UNCHANGED <<fileVars, procVars, faults, histVars>>

\* _terminate_process_group: SIGTERM
SendTerm(w) ==
    /\ pc[w] = "term"
    /\ IF GroupAlive = {}
       THEN Goto(w, "join", [mem[w] EXCEPT !.terminated = TRUE])
       ELSE Goto(w, "grace", mem[w])
    /\ proc' = Killed({m \in GroupAlive : ~proc[m].stubborn})
    /\ UNCHANGED <<fileVars, cancelled, status, faults, histVars>>

\* The group is gone within the grace period, or is sent SIGKILL; a process that
\* cannot be signalled or does not die within a second is a fault.
Grace(w) ==
    /\ pc[w] = "grace"
    /\ \/ /\ GroupAlive = {}
          /\ Goto(w, "join", [mem[w] EXCEPT !.terminated = TRUE])
          /\ UNCHANGED <<proc, faults>>
       \/ /\ GroupAlive # {}
          /\ Goto(w, "join", [mem[w] EXCEPT !.terminated = TRUE])
          /\ proc' = Killed(GroupAlive)
          /\ UNCHANGED faults
       \/ /\ GroupAlive # {} /\ faults < MaxFaults
          /\ faults' = faults + 1
          /\ Goto(w, "join", [mem[w] EXCEPT !.terminated = FALSE])
          /\ UNCHANGED proc
    /\ UNCHANGED <<fileVars, cancelled, status, histVars>>

\* The readers end with the last process that holds a pipe.  If they do not in
\* time, the group is signalled once more and the result is unknown.
JoinReaders(w) ==
    /\ pc[w] = "join"
    /\ Goto(w, "idle", Blank)
    /\ \E code \in {"SUCCEEDED", "FAILED"} :
          status' = ClassifyProcessResult(mem[w], code, PipesHeld)
    /\ proc' = IF PipesHeld THEN Killed(GroupAlive) ELSE proc
    /\ UNCHANGED <<fileVars, cancelled, faults, histVars>>

\* A process of the command starts the child, which may leave the group with
\* setsid, close the pipes it inherits, or ignore SIGTERM.
Fork ==
    /\ proc["leader"].alive /\ proc["child"] = Absent
    /\ \E group, piped, stubborn \in BOOLEAN :
          proc' = [proc EXCEPT !["child"] = [alive |-> TRUE, group |-> group,
                                             piped |-> piped, stubborn |-> stubborn]]
    /\ UNCHANGED <<fileVars, cancelled, status, faults, pc, mem, histVars>>

MemberExits(m) ==
    /\ proc[m].alive
    /\ proc' = Killed({m})
    /\ UNCHANGED <<fileVars, cancelled, status, faults, pc, mem, histVars>>

\* CancellationToken.cancel
Cancel ==
    /\ ~cancelled
    /\ \E w \in Workers : pc[w] \in {"spawn", "wait"}
    /\ cancelled' = TRUE
    /\ UNCHANGED <<fileVars, proc, status, faults, pc, mem, histVars>>

-------------------------------------------------------------------------------
(* The world outside *)

\* Somebody writes the file in place.
EditInPlace(data) ==
    /\ "files" \in tools /\ path # 0 /\ clock < MaxChanges
    /\ clock' = clock + 1
    /\ inode' = [inode EXCEPT ![path] = [stamp |-> clock', data |-> data]]
    /\ Race({})
    /\ UNCHANGED <<path, temps, procVars, faults, pc, mem, orphans, got>>

Remove ==
    /\ "files" \in tools /\ path # 0
    /\ path' = 0
    /\ Race({})
    /\ UNCHANGED <<inode, temps, clock, procVars, faults, pc, mem, orphans, got>>

\* The process stops; a temporary file and a command stay behind.
Crash(w) == pc[w] # "idle" /\ Abandoned(w)

-------------------------------------------------------------------------------
Execute(w) ==
    Spawn(w) \/ Poll(w) \/ SendTerm(w) \/ Grace(w) \/ JoinReaders(w)

Step ==
    \/ \E w \in Workers :
          \/ BeginRead(w) \/ ReadFirst(w) \/ ReadSecond(w) \/ Revalidate(w)
          \/ \E mode \in {"CREATE", "REPLACE"}, d \in Data, e \in Data \cup {"any"} :
                BeginWrite(w, mode, d, e)
          \/ CreateTemp(w) \/ Recheck(w) \/ CommitReplace(w) \/ CommitCreate(w)
          \/ WriteFails(w) \/ UnlinkFails(w)
          \/ \E idempotent \in BOOLEAN : BeginExecute(w, idempotent)
          \/ Execute(w)
          \/ Crash(w)
    \/ Fork \/ Cancel
    \/ \E m \in Members : MemberExits(m)
    \/ \E d \in Data : EditInPlace(d)
    \/ Remove

Next == Step /\ UNCHANGED tools

\* A worker that runs a command goes on: every wait in it has a deadline.
Fairness == \A w \in Workers : WF_vars(Execute(w) /\ UNCHANGED tools)

Spec == Init /\ [][Next]_vars /\ Fairness

-------------------------------------------------------------------------------
(* Properties *)

\* Type invariant.
SandboxTypeOK ==
    /\ path \in 0..MaxChanges /\ clock \in 1..MaxChanges
    /\ inode \in [Inodes -> [stamp : 0..MaxChanges, data : Data \cup {"none"}]]
    /\ \A i \in temps \cup ({path} \ {0}) : inode[i].stamp # 0
    /\ temps \subseteq Inodes /\ orphans \subseteq temps
    /\ proc \in [Members -> [alive : BOOLEAN, group : BOOLEAN, piped : BOOLEAN,
                             stubborn : BOOLEAN]]
    /\ faults \in 0..MaxFaults
    /\ pc \in [Workers -> {"idle"} \cup ReadSteps \cup WriteSteps \cup ExecSteps]
    /\ status \in Status \cup {"none"}

\* read_file answers with one version of the file, the one that is there when it
\* answers: it never mixes two, also not when the file is written in place or
\* replaced between its chunks.
ReadIsCurrent ==
    got.first = got.disk /\ got.second = got.disk

\* write_file_atomic discards no content it has not seen: CREATE never replaces
\* anything, and REPLACE replaces the very file it was checked against, unless
\* that changed in the gap between the last check and the rename.
NothingUnseenIsLost ==
    [][\A w \in Workers :
          (path' # path /\ path' # 0 /\ path' = mem[w].temp) =>
              \/ mem[w].mode = "CREATE" /\ path = 0
              \/ /\ mem[w].mode = "REPLACE"
                 /\ w \in raced \/ SameFile(mem[w])]_vars

\* A temporary name belongs to a write under way, or was left by a crash or by
\* an unlink that failed.
TemporariesAreOwned ==
    \A i \in temps : i \in orphans \/ \E w \in Workers : pc[w] \in WriteSteps /\ mem[w].temp = i

\* A command reported with a confirmed result has ended: no process of its group
\* lives, and none holds its output.
ConfirmedMeansQuiet ==
    status \in Confirmed => GroupAlive = {} /\ ~PipesHeld

\* execute returns: a command that ignores SIGTERM, forks, leaves its group or
\* keeps its pipes open does not hold the harness up for ever.
ExecuteReturns ==
    \A w \in Workers : pc[w] = "spawn" ~> pc[w] = "idle"
===============================================================================
