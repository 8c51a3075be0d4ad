----------------------------- MODULE SandboxProofs -----------------------------
(***************************************************************************)
(* Proofs about Sandbox.  The invariant has three parts: the types; what   *)
(* holds of the file, its temporary names and the workers that read or     *)
(* write it; what holds of the command and the worker that runs it.        *)
(***************************************************************************)
EXTENDS Sandbox, TLAPS

Content == Data \cup {"none"}

Memory ==
    [mode : {"none", "CREATE", "REPLACE"}, data : Content, seen : 0..MaxChanges,
     stamp : 0..MaxChanges, digest : Content, temp : 0..MaxChanges,
     first : Content, second : Content, idempotent : BOOLEAN,
     cause : {"exit", "cancel", "timeout"}, terminated : BOOLEAN]

Process == [alive : BOOLEAN, group : BOOLEAN, piped : BOOLEAN, stubborn : BOOLEAN]

Steps == {"idle"} \cup ReadSteps \cup WriteSteps \cup ExecSteps

\* The types, without what relates two variables.
Typed ==
    /\ path \in 0..MaxChanges /\ clock \in 1..MaxChanges
    /\ inode \in [Inodes -> [stamp : 0..MaxChanges, data : Content]]
    /\ temps \subseteq Inodes /\ orphans \subseteq Inodes
    /\ proc \in [Members -> Process]
    /\ faults \in 0..MaxFaults
    /\ pc \in [Workers -> Steps]
    /\ mem \in [Workers -> Memory]
    /\ status \in Status \cup {"none"}

\* The clock is ahead of every inode in use, so what it gives out is new.
ClockIsAhead ==
    /\ path <= clock
    /\ \A i \in temps : i <= clock
    /\ \A i \in Inodes : inode[i].stamp <= clock

\* A name leads to an inode that was written.
NamesAreWritten == \A i \in temps \cup ({path} \ {0}) : inode[i].stamp # 0

\* A worker has a temporary name from its creation to the commit; nobody has
\* left it behind.
OwnsTemp(w) ==
    /\ mem[w].temp # 0 => pc[w] \in {"recheck", "commit"}
    /\ pc[w] \in {"recheck", "commit"} => mem[w].temp \in temps \ orphans

\* What a worker has seen of the file is an older or the present version.
SawVersion(w) ==
    /\ mem[w].seen <= clock /\ mem[w].stamp <= clock
    /\ pc[w] \in ReadSteps \/ mem[w].mode = "REPLACE" => mem[w].seen # 0

\* The halves read are the inode's data unless its stamp has changed.
ReadOneVersion(w) ==
    pc[w] \in ReadSteps /\ inode[mem[w].seen].stamp = mem[w].stamp =>
       /\ pc[w] \in {"second", "revalidate"} => mem[w].first = inode[mem[w].seen].data
       /\ pc[w] = "revalidate" => mem[w].second = inode[mem[w].seen].data

\* A worker about to rename has the target it has checked, or was raced.
CheckedTarget(w) ==
    pc[w] = "commit" /\ mem[w].mode = "REPLACE" => w \in raced \/ SameFile(mem[w])

TempsAreDistinct ==
    \A v, w \in Workers : mem[v].temp = mem[w].temp /\ mem[v].temp # 0 => v = w

FileInv ==
    /\ ClockIsAhead /\ NamesAreWritten /\ orphans \subseteq temps
    /\ \A w \in Workers : /\ OwnsTemp(w) /\ SawVersion(w)
                          /\ ReadOneVersion(w) /\ CheckedTarget(w)
    /\ TempsAreDistinct
    /\ ReadIsCurrent
    /\ TemporariesAreOwned

\* One worker runs the command, and there is no result while it does.
OneCommand ==
    \A w \in Workers : pc[w] \in ExecSteps =>
       /\ status = "none"
       /\ \A v \in Workers : pc[v] \in ExecSteps => v = w

\* Before the leader is started no process runs; termination was confirmed when
\* the group had no member left.
Confirmation(w) ==
    /\ pc[w] = "spawn" => \A m \in Members : ~proc[m].alive
    /\ pc[w] = "join" /\ mem[w].terminated => GroupAlive = {}

\* The leader stays in its group and keeps its pipes as long as it lives.
LeaderStays == proc["leader"].alive => proc["leader"].group /\ proc["leader"].piped

CommandInv ==
    /\ OneCommand
    /\ \A w \in Workers : Confirmation(w)
    /\ LeaderStays
    /\ ConfirmedMeansQuiet

SandboxInv == Typed /\ FileInv /\ CommandInv

-------------------------------------------------------------------------------
(* Types *)

\* A call begins with a blank memory and what it was asked for.
LEMMA BlankTyped ==
    /\ Blank \in Memory
    /\ \A i, n \in 0..MaxChanges : [Blank EXCEPT !.seen = i, !.stamp = n] \in Memory
    /\ \A mode \in {"CREATE", "REPLACE"}, d \in Content :
          [Blank EXCEPT !.mode = mode, !.data = d] \in Memory
    /\ \A mode \in {"CREATE", "REPLACE"}, d, e \in Content, i, n \in 0..MaxChanges :
          [Blank EXCEPT !.mode = mode, !.data = d, !.seen = i, !.stamp = n, !.digest = e]
             \in Memory
    /\ \A b \in BOOLEAN : [Blank EXCEPT !.idempotent = b] \in Memory
<1> USE SandboxAssumption DEF Memory, Content
<1>1. Blank \in Memory
  BY DEF Blank
<1>2. \A i, n \in 0..MaxChanges : [Blank EXCEPT !.seen = i, !.stamp = n] \in Memory
  BY <1>1
<1>3. \A mode \in {"CREATE", "REPLACE"}, d \in Content :
         [Blank EXCEPT !.mode = mode, !.data = d] \in Memory
  BY <1>1
<1>4. \A mode \in {"CREATE", "REPLACE"}, d, e \in Content, i, n \in 0..MaxChanges :
         [Blank EXCEPT !.mode = mode, !.data = d, !.seen = i, !.stamp = n, !.digest = e]
            \in Memory
  <2> SUFFICES ASSUME NEW mode \in {"CREATE", "REPLACE"}, NEW d \in Content, NEW e \in Content,
                      NEW i \in 0..MaxChanges, NEW n \in 0..MaxChanges
               PROVE  [Blank EXCEPT !.mode = mode, !.data = d, !.seen = i, !.stamp = n,
                                    !.digest = e] \in Memory
    OBVIOUS
  <2> QED
    BY <1>1, ZenonT(40)
<1>5. \A b \in BOOLEAN : [Blank EXCEPT !.idempotent = b] \in Memory
  BY <1>1
<1> QED
  BY <1>1, <1>2, <1>3, <1>4, <1>5

\* A worker's step changes its own place and memory.
LEMMA GotoTyped ==
    ASSUME Typed, NEW w \in Workers, NEW to \in Steps, NEW m \in Memory, Goto(w, to, m)
    PROVE  /\ pc' \in [Workers -> Steps] /\ mem' \in [Workers -> Memory]
           /\ pc'[w] = to /\ mem'[w] = m
           /\ \A v \in Workers \ {w} : pc'[v] = pc[v] /\ mem'[v] = mem[v]
  BY DEF Typed, Goto

\* What _run_process learns keeps the rest of the memory.
LEMMA MemoryKept ==
    ASSUME NEW x \in Memory, NEW m,
           \/ \E b \in BOOLEAN : m = [x EXCEPT !.terminated = b]
           \/ \E c \in {"exit", "cancel", "timeout"} : m = [x EXCEPT !.cause = c]
           \/ m = x
    PROVE  /\ m \in Memory
           /\ m.temp = x.temp /\ m.seen = x.seen /\ m.stamp = x.stamp /\ m.mode = x.mode
  BY DEF Memory

-------------------------------------------------------------------------------
(* The file *)

\* A worker moves and the file and its names stay: the invariant is kept if it
\* holds of what the worker then knows.
LEMMA MoveKeepsFile ==
    ASSUME Typed, FileInv, NEW w \in Workers, NEW to \in Steps, NEW m \in Memory,
           Goto(w, to, m), UNCHANGED <<fileVars, raced, orphans>>,
           ReadIsCurrent',
           m.temp = mem[w].temp, pc[w] \in WriteSteps => to \in WriteSteps,
           OwnsTemp(w)', SawVersion(w)', ReadOneVersion(w)', CheckedTarget(w)'
    PROVE  FileInv'
<1>1. /\ pc'[w] = to /\ mem'[w] = m
      /\ \A v \in Workers \ {w} : pc'[v] = pc[v] /\ mem'[v] = mem[v]
  BY GotoTyped
<1>2. \A v \in Workers : OwnsTemp(v)' /\ SawVersion(v)' /\ ReadOneVersion(v)'
                         /\ CheckedTarget(v)'
  BY <1>1 DEF FileInv, fileVars, OwnsTemp, SawVersion, ReadOneVersion, CheckedTarget, SameFile
<1>3. TempsAreDistinct'
  BY <1>1 DEF FileInv, TempsAreDistinct
<1>4. TemporariesAreOwned'
  BY <1>1 DEF FileInv, TemporariesAreOwned, fileVars
<1> QED
  BY <1>2, <1>3, <1>4 DEF FileInv, ClockIsAhead, NamesAreWritten, fileVars

\* A worker that neither reads nor writes leaves the file alone.
LEMMA OthersKeepFile ==
    ASSUME Typed, FileInv, NEW w \in Workers, NEW to \in {"idle"} \cup ExecSteps,
           NEW m \in Memory, Goto(w, to, m), UNCHANGED <<fileVars, histVars>>,
           pc[w] \in {"idle"} \cup ExecSteps,
           \/ m = Blank
           \/ m.temp = mem[w].temp /\ m.seen = mem[w].seen /\ m.stamp = mem[w].stamp
              /\ m.mode = mem[w].mode
    PROVE  FileInv'
<1>0. to \in Steps
  BY DEF Steps
<1>1. pc'[w] = to /\ mem'[w] = m
  BY <1>0, GotoTyped
<1>2. mem[w].temp = 0 /\ m.temp = 0
  BY DEF FileInv, OwnsTemp, ExecSteps, Blank
<1>3. OwnsTemp(w)' /\ ReadOneVersion(w)' /\ CheckedTarget(w)'
  BY <1>1, <1>2 DEF OwnsTemp, ReadOneVersion, CheckedTarget, ExecSteps, ReadSteps
<1>4. SawVersion(w)'
  <2>1. CASE m = Blank
    BY <1>1, <2>1 DEF SawVersion, Blank, Typed, fileVars, ExecSteps, ReadSteps
  <2>2. CASE m.seen = mem[w].seen /\ m.stamp = mem[w].stamp /\ m.mode = mem[w].mode
    BY <1>1, <2>2 DEF FileInv, SawVersion, fileVars, ExecSteps, ReadSteps
  <2> QED
    BY <2>1, <2>2
<1>5. ReadIsCurrent' /\ (pc[w] \in WriteSteps => to \in WriteSteps)
  BY DEF FileInv, ReadIsCurrent, histVars, WriteSteps, ExecSteps
<1> QED
  BY <1>0, <1>2, <1>3, <1>4, <1>5, MoveKeepsFile DEF histVars

\* The end of a write takes its temporary name away and no other.
LEMMA EndKeepsFile ==
    ASSUME Typed, FileInv, NEW w \in Workers, EndWrite(w), pc[w] \in WriteSteps,
           UNCHANGED <<inode, clock, orphans, got>>,
           path' = path \/ (pc[w] = "commit" /\ path' = mem[w].temp),
           \A v \in Workers \ {w} : CheckedTarget(v)'
    PROVE  FileInv'
<1>1. Goto(w, "idle", Blank) /\ "idle" \in Steps /\ Blank \in Memory
  BY BlankTyped DEF EndWrite, Steps
<1>2. /\ pc'[w] = "idle" /\ mem'[w] = Blank
      /\ \A v \in Workers \ {w} : pc'[v] = pc[v] /\ mem'[v] = mem[v]
  BY <1>1, GotoTyped
<1>3. /\ temps' = temps \ {mem[w].temp}
      /\ \A v \in Workers \ {w} : mem[v].temp # 0 => mem[v].temp # mem[w].temp
      /\ mem[w].temp \notin orphans
  BY DEF EndWrite, FileInv, TempsAreDistinct, OwnsTemp, Typed, Inodes
<1>4. \A v \in Workers : OwnsTemp(v)' /\ SawVersion(v)' /\ ReadOneVersion(v)'
                         /\ CheckedTarget(v)'
  <2>1. OwnsTemp(w)' /\ SawVersion(w)' /\ ReadOneVersion(w)' /\ CheckedTarget(w)'
    BY <1>2 DEF OwnsTemp, SawVersion, ReadOneVersion, CheckedTarget, Blank, ReadSteps, Typed
  <2>2. ASSUME NEW v \in Workers \ {w}
        PROVE  OwnsTemp(v)' /\ SawVersion(v)' /\ ReadOneVersion(v)'
    BY <1>2, <1>3 DEF FileInv, OwnsTemp, SawVersion, ReadOneVersion, Typed, Inodes
  <2> QED
    BY <2>1, <2>2
<1>5. TempsAreDistinct'
  BY <1>2 DEF FileInv, TempsAreDistinct, Blank
<1>6. TemporariesAreOwned'
  BY <1>2, <1>3 DEF FileInv, TemporariesAreOwned
<1>7. orphans' \subseteq temps'
  BY <1>3 DEF FileInv
<1>8. ClockIsAhead' /\ NamesAreWritten'
  BY <1>3 DEF FileInv, ClockIsAhead, NamesAreWritten, OwnsTemp
<1> QED
  BY <1>4, <1>5, <1>6, <1>7, <1>8 DEF FileInv, ReadIsCurrent

-------------------------------------------------------------------------------
(* The command *)

\* A step that has nothing to do with the command.
LEMMA OthersKeepCommand ==
    ASSUME Typed, CommandInv, NEW w \in Workers, NEW to \in Steps \ ExecSteps,
           NEW m \in Memory, Goto(w, to, m), UNCHANGED procVars
    PROVE  CommandInv'
<1>1. /\ pc'[w] = to /\ mem'[w] = m
      /\ \A v \in Workers \ {w} : pc'[v] = pc[v] /\ mem'[v] = mem[v]
  BY GotoTyped
<1>2. proc' = proc /\ status' = status /\ GroupAlive' = GroupAlive /\ PipesHeld' = PipesHeld
  BY DEF procVars, GroupAlive, PipesHeld
<1>3. OneCommand'
  BY <1>1, <1>2 DEF CommandInv, OneCommand
<1>4. \A v \in Workers : Confirmation(v)'
  BY <1>1, <1>2 DEF CommandInv, Confirmation, ExecSteps
<1> QED
  BY <1>2, <1>3, <1>4 DEF CommandInv, LeaderStays, ConfirmedMeansQuiet

-------------------------------------------------------------------------------
(* Steps *)

\* A step of read_file that is sound for the file changes nothing else.
LEMMA ReadMoves ==
    ASSUME SandboxInv, NEW w \in Workers, NEW to \in {"idle"} \cup ReadSteps, NEW m \in Memory,
           Goto(w, to, m), pc[w] \in {"idle"} \cup ReadSteps, m.temp = 0,
           UNCHANGED <<fileVars, procVars, faults, raced, orphans>>, ReadIsCurrent',
           SawVersion(w)', ReadOneVersion(w)'
    PROVE  SandboxInv'
<1>1. to \in Steps \ ExecSteps /\ to \notin WriteSteps
  BY DEF Steps, ReadSteps, ExecSteps, WriteSteps
<1>2. pc' \in [Workers -> Steps] /\ mem' \in [Workers -> Memory] /\ pc'[w] = to /\ mem'[w] = m
  BY <1>1, GotoTyped DEF SandboxInv
<1>3. Typed'
  BY <1>2 DEF SandboxInv, Typed, fileVars, procVars
<1>4. mem[w].temp = 0 /\ pc[w] \notin WriteSteps
  BY DEF SandboxInv, FileInv, OwnsTemp, ReadSteps, WriteSteps
<1>5. OwnsTemp(w)' /\ CheckedTarget(w)'
  BY <1>2 DEF OwnsTemp, CheckedTarget, ReadSteps
<1>6. FileInv'
  BY <1>1, <1>4, <1>5, MoveKeepsFile DEF SandboxInv
<1>7. CommandInv'
  BY <1>1, OthersKeepCommand DEF SandboxInv
<1> QED
  BY <1>3, <1>6, <1>7 DEF SandboxInv

\* Every step of read_file keeps the invariant.
LEMMA ReadStep ==
    ASSUME SandboxInv, NEW w \in Workers,
           BeginRead(w) \/ ReadFirst(w) \/ ReadSecond(w) \/ Revalidate(w)
    PROVE  SandboxInv'
<1> USE SandboxAssumption
<1>0. /\ Typed /\ FileInv /\ mem[w] \in Memory
      /\ mem[w].seen <= clock /\ mem[w].stamp <= clock
      /\ pc[w] \in ReadSteps => mem[w].seen \in Inodes
      /\ pc[w] \in ReadSteps => mem[w].temp = 0
  <2>1. Typed /\ FileInv /\ mem[w] \in Memory
    BY DEF SandboxInv, Typed
  <2>2. mem[w].seen \in 0..MaxChanges
    BY <2>1 DEF Memory
  <2> QED
    BY <2>1, <2>2 DEF FileInv, SawVersion, OwnsTemp, Inodes, ReadSteps
<1>1. ASSUME BeginRead(w) PROVE SandboxInv'
  <2> DEFINE m == [Blank EXCEPT !.seen = path, !.stamp = inode[path].stamp]
  <2>1. path \in Inodes /\ path <= clock /\ inode[path].stamp \in 0..MaxChanges
        /\ inode[path].stamp <= clock
    BY <1>0, <1>1 DEF BeginRead, Typed, Inodes, FileInv, ClockIsAhead
  <2>2. m \in Memory
    <3> DEFINE i == path
               n == inode[path].stamp
    <3>1. i \in 0..MaxChanges /\ n \in 0..MaxChanges
      BY <2>1 DEF Inodes
    <3>2. m = [Blank EXCEPT !.seen = i, !.stamp = n]
      OBVIOUS
    <3> HIDE DEF i, n, m
    <3> QED
      BY <3>1, <3>2, BlankTyped
  <2>3. m.temp = 0 /\ m.seen = path /\ m.stamp = inode[path].stamp
    BY DEF Blank
  <2>4. Goto(w, "first", m) /\ pc[w] = "idle" /\ UNCHANGED <<fileVars, procVars, faults, histVars>>
    BY <1>1 DEF BeginRead
  <2> HIDE DEF m
  <2>5. pc'[w] = "first" /\ mem'[w] = m
    BY <1>0, <2>2, <2>4, GotoTyped DEF Steps, ReadSteps
  <2>6. SawVersion(w)'
    BY <1>0, <2>1, <2>3, <2>4, <2>5 DEF SawVersion, fileVars, Inodes, ReadSteps
  <2>7. ReadOneVersion(w)'
    BY <1>0, <2>1, <2>3, <2>4, <2>5 DEF ReadOneVersion, FileInv, fileVars, ReadSteps
  <2>8. ReadIsCurrent'
    BY <1>0, <2>4 DEF ReadIsCurrent, FileInv, histVars
  <2> QED
    BY <2>2, <2>3, <2>4, <2>6, <2>7, <2>8, ReadMoves DEF ReadSteps, histVars
<1>2. ASSUME ReadFirst(w) PROVE SandboxInv'
  <2> DEFINE d == inode[mem[w].seen].data
             m == [mem[w] EXCEPT !.first = d]
  <2>1. d \in Content
    BY <1>0, <1>2 DEF ReadFirst, ReadSteps, Typed
  <2> HIDE DEF d
  <2>2. m \in Memory
    BY <1>0, <2>1 DEF Memory
  <2>3. m.temp = 0 /\ m.seen = mem[w].seen /\ m.stamp = mem[w].stamp /\ m.first = d
    BY <1>0, <1>2 DEF Memory, ReadFirst, ReadSteps
  <2>4. Goto(w, "second", m) /\ pc[w] = "first" /\ UNCHANGED <<fileVars, procVars, faults, histVars>>
    BY <1>2 DEF ReadFirst, d
  <2> HIDE DEF m
  <2>5. pc'[w] = "second" /\ mem'[w] = m
    BY <1>0, <2>2, <2>4, GotoTyped DEF Steps, ReadSteps
  <2>6. SawVersion(w)'
    BY <1>0, <2>3, <2>4, <2>5 DEF SawVersion, fileVars, Inodes, ReadSteps
  <2>7. ReadOneVersion(w)'
    BY <1>0, <2>3, <2>4, <2>5 DEF ReadOneVersion, FileInv, fileVars, ReadSteps, d
  <2>8. ReadIsCurrent'
    BY <1>0, <2>4 DEF ReadIsCurrent, FileInv, histVars
  <2> QED
    BY <2>2, <2>3, <2>4, <2>6, <2>7, <2>8, ReadMoves DEF ReadSteps, histVars
<1>3. ASSUME ReadSecond(w) PROVE SandboxInv'
  <2> DEFINE d == inode[mem[w].seen].data
             m == [mem[w] EXCEPT !.second = d]
  <2>1. d \in Content
    BY <1>0, <1>3 DEF ReadSecond, ReadSteps, Typed
  <2> HIDE DEF d
  <2>2. m \in Memory
    BY <1>0, <2>1 DEF Memory
  <2>3. /\ m.temp = 0 /\ m.seen = mem[w].seen /\ m.stamp = mem[w].stamp
        /\ m.first = mem[w].first /\ m.second = d
    BY <1>0, <1>3 DEF Memory, ReadSecond, ReadSteps
  <2>4. Goto(w, "revalidate", m) /\ pc[w] = "second"
        /\ UNCHANGED <<fileVars, procVars, faults, histVars>>
    BY <1>3 DEF ReadSecond, d
  <2> HIDE DEF m
  <2>5. pc'[w] = "revalidate" /\ mem'[w] = m
    BY <1>0, <2>2, <2>4, GotoTyped DEF Steps, ReadSteps
  <2>6. SawVersion(w)'
    BY <1>0, <2>3, <2>4, <2>5 DEF SawVersion, fileVars, Inodes, ReadSteps
  <2>7. ReadOneVersion(w)'
    BY <1>0, <2>3, <2>4, <2>5 DEF ReadOneVersion, FileInv, fileVars, ReadSteps, d
  <2>8. ReadIsCurrent'
    BY <1>0, <2>4 DEF ReadIsCurrent, FileInv, histVars
  <2> QED
    BY <2>2, <2>3, <2>4, <2>6, <2>7, <2>8, ReadMoves DEF ReadSteps, histVars
<1>4. ASSUME Revalidate(w) PROVE SandboxInv'
  <2>1. Goto(w, "idle", Blank) /\ pc[w] = "revalidate"
        /\ UNCHANGED <<fileVars, procVars, faults, raced, orphans>>
    BY <1>4 DEF Revalidate
  <2>2. Blank \in Memory /\ Blank.temp = 0 /\ Blank.seen = 0 /\ Blank.stamp = 0
        /\ Blank.mode = "none"
    BY BlankTyped DEF Blank
  <2>3. pc'[w] = "idle" /\ mem'[w] = Blank
    BY <1>0, <2>1, <2>2, GotoTyped DEF Steps
  <2>4. SawVersion(w)' /\ ReadOneVersion(w)'
    BY <1>0, <2>1, <2>2, <2>3 DEF SawVersion, ReadOneVersion, ReadSteps, fileVars, Typed
  <2>5. ReadIsCurrent'
    BY <1>0, <1>4 DEF Revalidate, SameFile, ReadIsCurrent, FileInv, ReadOneVersion, ReadSteps
  <2> QED
    BY <2>1, <2>2, <2>4, <2>5, ReadMoves DEF ReadSteps
<1> QED
  BY <1>1, <1>2, <1>3, <1>4

\* A write begins with what it saw of the target.
LEMMA BeginWriteStep ==
    ASSUME SandboxInv, NEW w \in Workers, NEW mode \in {"CREATE", "REPLACE"},
           NEW data \in Data, NEW expected, BeginWrite(w, mode, data, expected)
    PROVE  SandboxInv'
<1> USE SandboxAssumption
<1>0. Typed /\ FileInv /\ CommandInv /\ data \in Content /\ mem[w].temp = 0 /\ pc[w] = "idle"
  BY DEF SandboxInv, FileInv, OwnsTemp, BeginWrite, Content
<1>1. PICK m \in Memory : /\ Goto(w, "temp", m)
                          /\ m.temp = 0 /\ m.seen <= clock /\ m.stamp <= clock
                          /\ m.mode = "REPLACE" => m.seen # 0
  <2>1. CASE path = 0
    <3> DEFINE m == [Blank EXCEPT !.mode = mode, !.data = data]
    <3>1. Goto(w, "temp", m) /\ mode = "CREATE"
      BY <2>1 DEF BeginWrite
    <3>2. m \in Memory
      BY <1>0, BlankTyped
    <3>3. m.temp = 0 /\ m.seen = 0 /\ m.stamp = 0 /\ m.mode = "CREATE"
      BY <3>1 DEF Blank
    <3> HIDE DEF m
    <3> QED
      BY <1>0, <3>1, <3>2, <3>3 DEF Typed
  <2>2. CASE path # 0
    <3> DEFINE i == path
               n == inode[path].stamp
               e == inode[path].data
               m == [Blank EXCEPT !.mode = mode, !.data = data, !.seen = i, !.stamp = n,
                                  !.digest = e]
    <3>1. Goto(w, "temp", m)
      BY <2>2 DEF BeginWrite
    <3>2. /\ i \in 0..MaxChanges /\ n \in 0..MaxChanges /\ e \in Content
          /\ i # 0 /\ i <= clock /\ n <= clock
      BY <1>0, <2>2 DEF Typed, Inodes, FileInv, ClockIsAhead
    <3> HIDE DEF i, n, e
    <3>3. m \in Memory
      BY <1>0, <3>2, BlankTyped
    <3>4. m.temp = 0 /\ m.seen = i /\ m.stamp = n
      BY DEF Blank
    <3> HIDE DEF m
    <3> QED
      BY <3>1, <3>2, <3>3, <3>4
  <2> QED
    BY <2>1, <2>2
<1>2. "temp" \in Steps \ ExecSteps /\ "temp" \in WriteSteps
  BY DEF Steps, ExecSteps, WriteSteps
<1>3. pc' \in [Workers -> Steps] /\ mem' \in [Workers -> Memory] /\ pc'[w] = "temp" /\ mem'[w] = m
  BY <1>0, <1>1, <1>2, GotoTyped
<1>4. UNCHANGED <<fileVars, procVars, faults, histVars>>
  BY DEF BeginWrite
<1>5. Typed'
  BY <1>0, <1>3, <1>4 DEF Typed, fileVars, procVars, histVars
<1>6. OwnsTemp(w)' /\ SawVersion(w)' /\ ReadOneVersion(w)' /\ CheckedTarget(w)' /\ ReadIsCurrent'
  BY <1>0, <1>1, <1>3, <1>4
     DEF OwnsTemp, SawVersion, ReadOneVersion, CheckedTarget, ReadIsCurrent, FileInv, ReadSteps,
         fileVars, histVars
<1>7. FileInv'
  BY <1>0, <1>1, <1>2, <1>4, <1>6, MoveKeepsFile DEF histVars
<1>8. CommandInv'
  BY <1>0, <1>1, <1>2, <1>4, OthersKeepCommand
<1> QED
  BY <1>5, <1>7, <1>8 DEF SandboxInv

\* The temporary file is a new inode under a new name.
LEMMA CreateTempStep ==
    ASSUME SandboxInv, NEW w \in Workers, CreateTemp(w)
    PROVE  SandboxInv'
<1> USE SandboxAssumption
<1> DEFINE new == clock + 1
           m == [mem[w] EXCEPT !.temp = new]
<1>0. /\ Typed /\ FileInv /\ CommandInv /\ mem[w] \in Memory /\ mem[w].data \in Content
      /\ new \in Inodes /\ new \in 0..MaxChanges
  <2>1. Typed /\ FileInv /\ CommandInv /\ mem[w] \in Memory
    BY DEF SandboxInv, Typed
  <2>2. mem[w].data \in Content
    BY <2>1 DEF Memory
  <2>3. new \in Inodes /\ new \in 0..MaxChanges
    BY <2>1 DEF CreateTemp, Typed, Inodes
  <2> QED
    BY <2>1, <2>2, <2>3
<1>1. /\ pc[w] = "temp" /\ clock' = new /\ temps' = temps \cup {new}
      /\ inode' = [inode EXCEPT ![new] = [stamp |-> new, data |-> mem[w].data]]
      /\ Goto(w, "recheck", m)
      /\ UNCHANGED <<path, procVars, faults, histVars>>
  BY DEF CreateTemp
<1>2. /\ \A i \in Inodes : i # new => inode'[i] = inode[i]
      /\ inode'[new].stamp = new
      /\ inode' \in [Inodes -> [stamp : 0..MaxChanges, data : Content]]
  <2> HIDE DEF new
  <2> QED
    BY <1>0, <1>1 DEF Typed
<1>3. /\ m \in Memory /\ m.temp = new /\ m.seen = mem[w].seen /\ m.stamp = mem[w].stamp
      /\ m.mode = mem[w].mode
  <2> HIDE DEF new
  <2> QED
    BY <1>0 DEF Memory
<1>4. /\ clock \in Nat /\ new > clock /\ new # 0
      /\ new \notin temps /\ new # path /\ new \notin orphans
      /\ \A v \in Workers : mem[v].seen # new /\ mem[v].temp # new
      /\ \A v \in Workers : mem[v].seen \in 0..MaxChanges /\ mem[v].temp \in 0..MaxChanges
  <2>1. clock \in Nat /\ new > clock /\ new # 0
    BY <1>0 DEF Typed
  <2>2. \A i \in temps : i \in Nat /\ i <= clock
    BY <1>0 DEF FileInv, ClockIsAhead, Typed, Inodes
  <2>3. new \notin temps /\ new \notin orphans /\ new # path
    BY <1>0, <2>1, <2>2 DEF FileInv, ClockIsAhead, Typed
  <2>4. \A v \in Workers : mem[v].seen \in 0..MaxChanges /\ mem[v].temp \in 0..MaxChanges
    BY <1>0 DEF Typed, Memory
  <2>5. ASSUME NEW v \in Workers PROVE mem[v].seen # new /\ mem[v].temp # new
    BY <1>0, <2>1, <2>3, <2>4 DEF FileInv, SawVersion, OwnsTemp
  <2> QED
    BY <2>1, <2>3, <2>4, <2>5
<1> HIDE DEF m, new
<1>5. "recheck" \in Steps \ ExecSteps
  BY DEF Steps, ExecSteps, WriteSteps
<1>6. /\ pc' \in [Workers -> Steps] /\ mem' \in [Workers -> Memory]
      /\ pc'[w] = "recheck" /\ mem'[w] = m
      /\ \A v \in Workers \ {w} : pc'[v] = pc[v] /\ mem'[v] = mem[v]
  BY <1>0, <1>1, <1>3, <1>5, GotoTyped
<1>7. Typed'
  <2>1. clock' \in 1..MaxChanges /\ temps' \subseteq Inodes
    BY <1>0, <1>1 DEF Typed, Inodes
  <2> QED
    BY <1>0, <1>1, <1>2, <1>6, <2>1 DEF Typed, procVars, histVars
<1>8. ClockIsAhead'
  <2>1. path' <= clock'
    BY <1>0, <1>1, <1>4 DEF FileInv, ClockIsAhead, Typed
  <2>2. \A i \in temps' : i <= clock'
    BY <1>0, <1>1, <1>4 DEF FileInv, ClockIsAhead, Typed, Inodes
  <2>3. \A i \in Inodes : inode[i].stamp \in Nat
    BY <1>0 DEF Typed
  <2>4. \A i \in Inodes : inode'[i].stamp <= clock'
    BY <1>0, <1>1, <1>2, <1>4, <2>3 DEF FileInv, ClockIsAhead, Inodes
  <2> QED
    BY <2>1, <2>2, <2>4 DEF ClockIsAhead
<1>9. NamesAreWritten'
  BY <1>0, <1>1, <1>2, <1>4 DEF FileInv, NamesAreWritten, Typed, Inodes
<1>10. \A v \in Workers : OwnsTemp(v)' /\ SawVersion(v)'
  <2>1. OwnsTemp(w)'
    BY <1>0, <1>1, <1>3, <1>4, <1>6 DEF OwnsTemp, histVars
  <2>2. \A v \in Workers \ {w} : OwnsTemp(v)'
    BY <1>0, <1>1, <1>6 DEF FileInv, OwnsTemp, histVars
  <2>3. \A v \in Workers : /\ mem'[v].seen = mem[v].seen /\ mem'[v].stamp = mem[v].stamp
                           /\ mem'[v].mode = mem[v].mode /\ mem[v].stamp \in Nat
                           /\ pc'[v] \in ReadSteps => pc[v] \in ReadSteps
    BY <1>0, <1>3, <1>6 DEF ReadSteps, Typed, Memory
  <2>4. \A v \in Workers : SawVersion(v)'
    BY <1>0, <1>1, <1>4, <2>3 DEF FileInv, SawVersion
  <2> QED
    BY <2>1, <2>2, <2>4
<1>11. \A v \in Workers : ReadOneVersion(v)' /\ CheckedTarget(v)'
  <2>1. ReadOneVersion(w)' /\ CheckedTarget(w)'
    BY <1>6 DEF ReadOneVersion, CheckedTarget, ReadSteps
  <2>2. \A v \in Workers : pc[v] \in ReadSteps \/ mem[v].mode = "REPLACE" =>
                              inode'[mem[v].seen] = inode[mem[v].seen]
    BY <1>0, <1>2, <1>4 DEF FileInv, SawVersion, Inodes
  <2>3. \A v \in Workers \ {w} : ReadOneVersion(v)' /\ CheckedTarget(v)'
    BY <1>0, <1>1, <1>6, <2>2
       DEF FileInv, ReadOneVersion, CheckedTarget, SameFile, ReadSteps, histVars
  <2> QED
    BY <2>1, <2>3
<1>12. TempsAreDistinct'
  BY <1>0, <1>3, <1>4, <1>6 DEF FileInv, TempsAreDistinct
<1>13. TemporariesAreOwned'
  <2>1. mem[w].temp = 0
    BY <1>0, <1>1 DEF FileInv, OwnsTemp
  <2>2. \A i \in temps : i # 0
    BY <1>0 DEF Typed, Inodes
  <2>3. \A i \in temps : i \in orphans' \/ \E v \in Workers : pc'[v] \in WriteSteps /\ mem'[v].temp = i
    BY <1>0, <1>1, <1>6, <2>1, <2>2 DEF FileInv, TemporariesAreOwned, histVars
  <2>4. pc'[w] \in WriteSteps /\ mem'[w].temp = new
    BY <1>3, <1>6 DEF WriteSteps
  <2> QED
    BY <1>1, <2>3, <2>4 DEF TemporariesAreOwned
<1>14. FileInv'
  BY <1>0, <1>1, <1>8, <1>9, <1>10, <1>11, <1>12, <1>13 DEF FileInv, ReadIsCurrent, histVars
<1>15. CommandInv'
  BY <1>0, <1>1, <1>3, <1>5, OthersKeepCommand
<1> QED
  BY <1>7, <1>14, <1>15 DEF SandboxInv

\* A write that ends keeps the invariant if the others keep their targets.
LEMMA EndStep ==
    ASSUME SandboxInv, NEW w \in Workers, EndWrite(w), pc[w] \in WriteSteps,
           faults' \in 0..MaxFaults, UNCHANGED <<inode, clock, orphans, got, procVars>>,
           path' = path \/ (pc[w] = "commit" /\ path' = mem[w].temp),
           \A v \in Workers \ {w} : CheckedTarget(v)'
    PROVE  SandboxInv'
<1>0. Typed /\ FileInv /\ CommandInv /\ mem[w].temp \in 0..MaxChanges
  BY DEF SandboxInv, Typed, Memory
<1>1. Goto(w, "idle", Blank) /\ "idle" \in Steps \ ExecSteps /\ Blank \in Memory
      /\ temps' = temps \ {mem[w].temp}
  BY BlankTyped DEF EndWrite, Steps, ExecSteps
<1>2. pc' \in [Workers -> Steps] /\ mem' \in [Workers -> Memory]
  BY <1>0, <1>1, GotoTyped
<1>3. Typed'
  BY <1>0, <1>1, <1>2 DEF Typed, procVars
<1>4. FileInv'
  BY <1>0, EndKeepsFile
<1>5. CommandInv'
  BY <1>0, <1>1, OthersKeepCommand
<1> QED
  BY <1>3, <1>4, <1>5 DEF SandboxInv

\* A worker stops where it is, or after the commit, and leaves its temporary name
\* behind: what follows the unlink that failed, or a crash.
LEMMA LeaveStep ==
    ASSUME SandboxInv, NEW w \in Workers, Goto(w, "idle", Blank),
           faults' \in 0..MaxFaults, UNCHANGED <<inode, temps, clock, got, procVars>>,
           orphans' = orphans \cup ({mem[w].temp} \cap temps),
           path' = path \/ (pc[w] = "commit" /\ path' = mem[w].temp),
           \A v \in Workers \ {w} : CheckedTarget(v)'
    PROVE  SandboxInv'
<1>0. Typed /\ FileInv /\ CommandInv /\ mem[w].temp \in 0..MaxChanges
  BY DEF SandboxInv, Typed, Memory
<1>1. "idle" \in Steps \ ExecSteps /\ Blank \in Memory /\ Blank.temp = 0 /\ Blank.seen = 0
      /\ Blank.stamp = 0 /\ Blank.mode = "none"
  BY BlankTyped DEF Steps, ExecSteps, Blank
<1>2. /\ pc' \in [Workers -> Steps] /\ mem' \in [Workers -> Memory]
      /\ pc'[w] = "idle" /\ mem'[w] = Blank
      /\ \A v \in Workers \ {w} : pc'[v] = pc[v] /\ mem'[v] = mem[v]
  BY <1>0, <1>1, GotoTyped
<1>3. Typed'
  BY <1>0, <1>2 DEF Typed, procVars, Inodes
<1>4. \A v \in Workers \ {w} : mem[v].temp # 0 => mem[v].temp # mem[w].temp
  BY <1>0 DEF FileInv, TempsAreDistinct
<1>5. \A i \in temps : i # 0
  BY <1>0 DEF Typed, Inodes
<1>6. \A v \in Workers : OwnsTemp(v)' /\ SawVersion(v)' /\ ReadOneVersion(v)'
                         /\ CheckedTarget(v)'
  <2>1. OwnsTemp(w)' /\ SawVersion(w)' /\ ReadOneVersion(w)' /\ CheckedTarget(w)'
    BY <1>0, <1>1, <1>2 DEF OwnsTemp, SawVersion, ReadOneVersion, CheckedTarget, ReadSteps, Typed
  <2>2. ASSUME NEW v \in Workers \ {w}
        PROVE  OwnsTemp(v)' /\ SawVersion(v)' /\ ReadOneVersion(v)'
    BY <1>0, <1>2, <1>4, <1>5 DEF FileInv, OwnsTemp, SawVersion, ReadOneVersion
  <2> QED
    BY <2>1, <2>2
<1>7. TempsAreDistinct'
  BY <1>0, <1>1, <1>2 DEF FileInv, TempsAreDistinct
<1>8. TemporariesAreOwned'
  BY <1>0, <1>2 DEF FileInv, TemporariesAreOwned
<1>9. ClockIsAhead' /\ NamesAreWritten' /\ orphans' \subseteq temps'
  BY <1>0 DEF FileInv, ClockIsAhead, NamesAreWritten, OwnsTemp
<1>10. FileInv'
  BY <1>0, <1>6, <1>7, <1>8, <1>9 DEF FileInv, ReadIsCurrent
<1>11. CommandInv'
  BY <1>0, <1>1, OthersKeepCommand
<1> QED
  BY <1>3, <1>10, <1>11 DEF SandboxInv

\* The steps of write_file_atomic from its last check to its end, and a crash.
LEMMA WriteStep ==
    ASSUME SandboxInv, NEW w \in Workers,
           \/ Recheck(w) \/ CommitReplace(w) \/ CommitCreate(w) \/ WriteFails(w)
           \/ UnlinkFails(w) \/ Crash(w)
    PROVE  SandboxInv'
<1> USE SandboxAssumption
<1>0. /\ Typed /\ FileInv /\ CommandInv /\ mem[w] \in Memory
      /\ "commit" \in Steps \ ExecSteps /\ "commit" \in WriteSteps /\ "idle" \in Steps
      /\ Blank \in Memory
  BY BlankTyped DEF SandboxInv, Typed, Steps, ExecSteps, WriteSteps
<1>a. ASSUME Goto(w, "idle", Blank), UNCHANGED <<path, inode>>, raced \subseteq raced' \cup {w}
      PROVE  \A v \in Workers \ {w} : CheckedTarget(v)'
  <2>1. \A v \in Workers \ {w} : pc'[v] = pc[v] /\ mem'[v] = mem[v]
    BY <1>0, <1>a, GotoTyped
  <2> QED
    BY <1>0, <1>a, <2>1 DEF FileInv, CheckedTarget, SameFile
<1>b. ASSUME Goto(w, "idle", Blank), Race({w})
      PROVE  \A v \in Workers \ {w} : CheckedTarget(v)'
  <2>1. \A v \in Workers \ {w} : pc'[v] = pc[v] /\ mem'[v] = mem[v]
    BY <1>0, <1>b, GotoTyped
  <2> QED
    BY <1>b, <2>1 DEF CheckedTarget, Race
<1>1. ASSUME Recheck(w) PROVE SandboxInv'
  <2>1. CASE TargetUnchanged(mem[w])
    <3>1. /\ pc[w] = "recheck" /\ Goto(w, "commit", mem[w])
          /\ UNCHANGED <<fileVars, procVars, faults, histVars>>
      BY <1>1, <2>1 DEF Recheck, fileVars
    <3>2. /\ pc' \in [Workers -> Steps] /\ mem' \in [Workers -> Memory]
          /\ pc'[w] = "commit" /\ mem'[w] = mem[w]
      BY <1>0, <3>1, GotoTyped
    <3>3. Typed'
      BY <1>0, <3>1, <3>2 DEF Typed, fileVars, procVars, histVars
    <3>4. OwnsTemp(w)' /\ SawVersion(w)' /\ ReadOneVersion(w)' /\ ReadIsCurrent'
      BY <1>0, <3>1, <3>2 DEF FileInv, OwnsTemp, SawVersion, ReadOneVersion, ReadIsCurrent,
                              ReadSteps, fileVars, histVars
    <3>5. CheckedTarget(w)'
      BY <2>1, <3>1, <3>2 DEF CheckedTarget, TargetUnchanged, SameFile, fileVars
    <3>6. FileInv'
      BY <1>0, <3>1, <3>4, <3>5, MoveKeepsFile DEF histVars
    <3>7. CommandInv'
      BY <1>0, <3>1, OthersKeepCommand
    <3> QED
      BY <3>3, <3>6, <3>7 DEF SandboxInv
  <2>2. CASE ~TargetUnchanged(mem[w])
    <3>1. /\ pc[w] \in WriteSteps /\ EndWrite(w)
          /\ UNCHANGED <<path, inode, clock, procVars, faults, histVars>>
      BY <1>1, <2>2 DEF Recheck, WriteSteps
    <3>2. \A v \in Workers \ {w} : CheckedTarget(v)'
      BY <1>a, <3>1 DEF EndWrite, histVars
    <3>3. path' = path \/ (pc[w] = "commit" /\ path' = mem[w].temp)
      BY <3>1
    <3>4. UNCHANGED <<inode, clock, orphans, got, procVars>> /\ faults' \in 0..MaxFaults
          /\ pc[w] \in WriteSteps /\ EndWrite(w)
      BY <1>0, <3>1 DEF histVars, Typed
    <3> QED
      BY <3>2, <3>3, <3>4, EndStep
  <2> QED
    BY <2>1, <2>2
<1>2. ASSUME CommitReplace(w) PROVE SandboxInv'
  <2>1. /\ pc[w] = "commit" /\ path' = mem[w].temp /\ EndWrite(w) /\ Race({w})
        /\ UNCHANGED <<inode, clock, procVars, faults, orphans, got>>
    BY <1>2 DEF CommitReplace
  <2>2. \A v \in Workers \ {w} : CheckedTarget(v)'
    BY <1>b, <2>1 DEF EndWrite
  <2> QED
    BY <1>0, <2>1, <2>2, EndStep DEF Typed
<1>3. ASSUME CommitCreate(w) PROVE SandboxInv'
  <2>0. pc[w] = "commit" /\ UNCHANGED <<inode, clock, procVars, got>>
    BY <1>3 DEF CommitCreate
  <2>1. CASE path # 0
    <3>1. EndWrite(w) /\ raced' = raced \ {w} /\ UNCHANGED <<path, faults, orphans>>
      BY <1>3, <2>1 DEF CommitCreate
    <3>2. \A v \in Workers \ {w} : CheckedTarget(v)'
      BY <1>a, <2>0, <3>1 DEF EndWrite
    <3>3. path' = path \/ (pc[w] = "commit" /\ path' = mem[w].temp)
      BY <3>1
    <3>4. UNCHANGED <<inode, clock, orphans, got, procVars>> /\ faults' \in 0..MaxFaults
          /\ pc[w] \in WriteSteps /\ EndWrite(w)
      BY <1>0, <2>0, <3>1 DEF Typed
    <3> QED
      BY <3>2, <3>3, <3>4, EndStep
  <2>2. CASE path = 0
    <3>1. path' = mem[w].temp /\ Goto(w, "idle", Blank) /\ Race({w}) /\ faults' \in 0..MaxFaults
      BY <1>0, <1>3, <2>2 DEF CommitCreate, EndWrite, Typed
    <3>2. \A v \in Workers \ {w} : CheckedTarget(v)'
      BY <1>b, <3>1
    <3>3. CASE EndWrite(w) /\ UNCHANGED orphans
      BY <1>0, <2>0, <3>1, <3>2, <3>3, EndStep
    <3>4. CASE orphans' = orphans \cup {mem[w].temp} /\ UNCHANGED temps
      <4>1. mem[w].temp \in temps
        BY <1>0, <2>0 DEF FileInv, OwnsTemp
      <4>2. orphans' = orphans \cup ({mem[w].temp} \cap temps)
        BY <3>4, <4>1
      <4> QED
        BY <2>0, <3>1, <3>2, <3>4, <4>2, LeaveStep
    <3> QED
      BY <1>3, <2>2, <3>3, <3>4 DEF CommitCreate
  <2> QED
    BY <2>1, <2>2
<1>4. ASSUME WriteFails(w) PROVE SandboxInv'
  <2>1. /\ pc[w] \in WriteSteps /\ faults' \in 0..MaxFaults /\ EndWrite(w)
        /\ raced' = raced \ {w}
        /\ UNCHANGED <<path, inode, clock, procVars, orphans, got>>
    BY <1>0, <1>4 DEF WriteFails, Typed
  <2>2. \A v \in Workers \ {w} : CheckedTarget(v)'
    BY <1>a, <2>1 DEF EndWrite
  <2>3. path' = path \/ (pc[w] = "commit" /\ path' = mem[w].temp)
    BY <2>1
  <2>4. UNCHANGED <<inode, clock, orphans, got, procVars>> /\ faults' \in 0..MaxFaults
        /\ pc[w] \in WriteSteps /\ EndWrite(w)
    BY <2>1
  <2> QED
    BY <2>2, <2>3, <2>4, EndStep
<1>5. ASSUME UnlinkFails(w) \/ Crash(w) PROVE SandboxInv'
  <2>1. /\ faults' \in 0..MaxFaults /\ Goto(w, "idle", Blank) /\ raced' = raced \ {w}
        /\ orphans' = orphans \cup ({mem[w].temp} \cap temps)
        /\ UNCHANGED <<path, inode, temps, clock, procVars, got>>
    BY <1>0, <1>5 DEF UnlinkFails, Crash, Abandoned, Typed, fileVars
  <2>2. \A v \in Workers \ {w} : CheckedTarget(v)'
    BY <1>a, <2>1
  <2>3. path' = path \/ (pc[w] = "commit" /\ path' = mem[w].temp)
    BY <2>1
  <2>4. /\ faults' \in 0..MaxFaults /\ Goto(w, "idle", Blank)
        /\ orphans' = orphans \cup ({mem[w].temp} \cap temps)
        /\ UNCHANGED <<inode, temps, clock, got, procVars>>
    BY <2>1
  <2> QED
    BY <2>2, <2>3, <2>4, LeaveStep
<1> QED
  BY <1>1, <1>2, <1>3, <1>4, <1>5

\* A step that leaves the file, its names and the workers alone.
LEMMA StillFile ==
    ASSUME FileInv, UNCHANGED <<fileVars, histVars, pc, mem>>
    PROVE  FileInv'
  BY DEF FileInv, fileVars, histVars, ClockIsAhead, NamesAreWritten, OwnsTemp, SawVersion,
         ReadOneVersion, CheckedTarget, SameFile, TempsAreDistinct, ReadIsCurrent,
         TemporariesAreOwned

\* Signals and exits only end processes.
LEMMA KillingTyped ==
    ASSUME Typed, NEW S \in SUBSET Members, proc' = Killed(S)
    PROVE  /\ proc' \in [Members -> Process]
           /\ \A m \in S : ~proc'[m].alive
           /\ \A m \in Members \ S : proc'[m] = proc[m]
           /\ LeaderStays => LeaderStays'
           /\ GroupAlive' = GroupAlive \ S
           /\ PipesHeld' => PipesHeld
<1>1. /\ proc' \in [Members -> Process]
      /\ \A m \in S : proc'[m] = Absent
      /\ \A m \in Members \ S : proc'[m] = proc[m]
  BY DEF Typed, Killed, Absent, Process
<1>2. ~Absent.alive
  BY DEF Absent
<1> QED
  BY <1>1, <1>2 DEF LeaderStays, GroupAlive, PipesHeld, Members

\* The worker that runs the command goes on.
LEMMA CommandMoves ==
    ASSUME Typed, CommandInv, NEW w \in Workers, NEW to \in ExecSteps, NEW m \in Memory,
           Goto(w, to, m), pc[w] \in ExecSteps, UNCHANGED status, LeaderStays', Confirmation(w)'
    PROVE  CommandInv'
<1>1. /\ pc'[w] = to /\ mem'[w] = m
      /\ \A v \in Workers \ {w} : pc'[v] = pc[v] /\ mem'[v] = mem[v]
  BY GotoTyped DEF Steps
<1>2. status' = "none" /\ \A v \in Workers \ {w} : pc[v] \notin ExecSteps
  BY DEF CommandInv, OneCommand
<1>3. OneCommand'
  BY <1>1, <1>2 DEF OneCommand
<1>4. \A v \in Workers : Confirmation(v)'
  BY <1>1, <1>2 DEF Confirmation, ExecSteps
<1> QED
  BY <1>2, <1>3, <1>4 DEF CommandInv, ConfirmedMeansQuiet, Confirmed

\* The command has a result.
LEMMA CommandEnds ==
    ASSUME Typed, CommandInv, NEW w \in Workers, Goto(w, "idle", Blank), pc[w] \in ExecSteps,
           LeaderStays', ConfirmedMeansQuiet'
    PROVE  CommandInv'
<1>1. pc'[w] = "idle" /\ \A v \in Workers \ {w} : pc'[v] = pc[v] /\ mem'[v] = mem[v]
  BY BlankTyped, GotoTyped DEF Steps
<1>2. \A v \in Workers \ {w} : pc[v] \notin ExecSteps
  BY DEF CommandInv, OneCommand
<1>3. \A v \in Workers : pc'[v] \notin ExecSteps
  BY <1>1, <1>2 DEF ExecSteps
<1> QED
  BY <1>3 DEF CommandInv, OneCommand, Confirmation, ExecSteps

\* A step of the worker that runs the command is sound for the rest if it is for
\* the command.
LEMMA CommandStep ==
    ASSUME SandboxInv, NEW w \in Workers, NEW to \in {"idle"} \cup ExecSteps, NEW m \in Memory,
           Goto(w, to, m), pc[w] \in {"idle"} \cup ExecSteps,
           \/ m = Blank
           \/ /\ m.temp = mem[w].temp /\ m.seen = mem[w].seen /\ m.stamp = mem[w].stamp
              /\ m.mode = mem[w].mode,
           UNCHANGED <<fileVars, histVars>>, proc' \in [Members -> Process],
           faults' \in 0..MaxFaults, status' \in Status \cup {"none"}, CommandInv'
    PROVE  SandboxInv'
<1>1. pc' \in [Workers -> Steps] /\ mem' \in [Workers -> Memory]
  BY GotoTyped DEF SandboxInv, Steps
<1>2. Typed'
  BY <1>1 DEF SandboxInv, Typed, fileVars, histVars
<1>3. FileInv'
  BY OthersKeepFile DEF SandboxInv
<1> QED
  BY <1>2, <1>3 DEF SandboxInv

\* execute begins a command, and starts its leader or does not.
LEMMA SpawnStep ==
    ASSUME SandboxInv, NEW w \in Workers,
           Spawn(w) \/ \E idempotent \in BOOLEAN : BeginExecute(w, idempotent)
    PROVE  SandboxInv'
<1> USE SandboxAssumption
<1>0. Typed /\ CommandInv /\ mem[w] \in Memory /\ Blank \in Memory
  BY BlankTyped DEF SandboxInv, Typed
<1>1. ASSUME NEW idempotent \in BOOLEAN, BeginExecute(w, idempotent) PROVE SandboxInv'
  <2> DEFINE m == [Blank EXCEPT !.idempotent = idempotent]
  <2>1. m \in Memory
    BY BlankTyped
  <2>2. m.temp = 0 /\ m.seen = 0 /\ m.stamp = 0 /\ m.mode = "none"
    BY DEF Blank
  <2>3. /\ pc[w] = "idle" /\ Goto(w, "spawn", m) /\ status' = "none"
        /\ \A v \in Workers : pc[v] \notin ExecSteps
        /\ \A p \in Members : ~proc[p].alive
        /\ UNCHANGED <<fileVars, proc, faults, histVars>>
    BY <1>1 DEF BeginExecute
  <2> HIDE DEF m
  <2>4. /\ pc'[w] = "spawn"
        /\ \A v \in Workers \ {w} : pc'[v] = pc[v] /\ mem'[v] = mem[v]
    BY <1>0, <2>1, <2>3, GotoTyped DEF Steps, ExecSteps
  <2>5. OneCommand' /\ \A v \in Workers : Confirmation(v)'
    BY <2>3, <2>4 DEF OneCommand, Confirmation, ExecSteps
  <2>6. CommandInv'
    BY <1>0, <2>3, <2>5 DEF CommandInv, LeaderStays, ConfirmedMeansQuiet, Confirmed
  <2>7. /\ proc' \in [Members -> Process] /\ faults' \in 0..MaxFaults
        /\ status' \in Status \cup {"none"}
    BY <1>0, <2>3 DEF Typed
  <2>8. "spawn" \in ExecSteps
    BY DEF ExecSteps
  <2>9. FileInv'
    <3>1. mem[w].temp = 0
      BY <2>3 DEF SandboxInv, FileInv, OwnsTemp
    <3>2. OwnsTemp(w)' /\ SawVersion(w)' /\ ReadOneVersion(w)' /\ CheckedTarget(w)' /\ mem'[w] = m
      <4>1. mem'[w] = m
        BY <1>0, <2>1, <2>3, <2>8, GotoTyped DEF Steps
      <4> QED
        BY <1>0, <2>2, <2>3, <2>4, <4>1
           DEF OwnsTemp, SawVersion, ReadOneVersion, CheckedTarget, ReadSteps, Typed, fileVars
    <3>3. ReadIsCurrent'
      BY <2>3 DEF SandboxInv, FileInv, ReadIsCurrent, histVars
    <3> QED
      BY <2>1, <2>2, <2>3, <2>8, <3>1, <3>2, <3>3, MoveKeepsFile
         DEF SandboxInv, Steps, WriteSteps, histVars
  <2>10. Typed'
    <3>1. pc' \in [Workers -> Steps] /\ mem' \in [Workers -> Memory]
      BY <1>0, <2>1, <2>3, <2>8, GotoTyped DEF Steps
    <3> QED
      BY <1>0, <2>3, <2>7, <3>1 DEF Typed, fileVars, histVars
  <2> QED
    BY <2>6, <2>9, <2>10 DEF SandboxInv
<1>2. ASSUME Spawn(w) PROVE SandboxInv'
  <2>0. /\ pc[w] = "spawn" /\ "wait" \in ExecSteps /\ "spawn" \in ExecSteps
        /\ UNCHANGED <<fileVars, histVars>>
        /\ \A p \in Members : ~proc[p].alive
    BY <1>0, <1>2 DEF Spawn, ExecSteps, CommandInv, Confirmation
  <2>1. CASE UNCHANGED proc
    <3>1. Goto(w, "idle", Blank) /\ faults' \in 0..MaxFaults /\ status' \in Status \cup {"none"}
      BY <1>0, <1>2, <2>0, <2>1
         DEF Spawn, ClassifyProcessResult, Typed, Status, Confirmed, Members
    <3>2. LeaderStays' /\ ConfirmedMeansQuiet'
      BY <1>0, <2>0, <2>1 DEF CommandInv, LeaderStays, ConfirmedMeansQuiet, GroupAlive, PipesHeld
    <3>3. CommandInv'
      BY <1>0, <2>0, <3>1, <3>2, CommandEnds
    <3> QED
      BY <1>0, <2>0, <2>1, <3>1, <3>3, CommandStep DEF Typed
  <2>2. CASE ~UNCHANGED proc
    <3>1. PICK stubborn \in BOOLEAN :
             proc' = [proc EXCEPT !["leader"] = [alive |-> TRUE, group |-> TRUE,
                                                 piped |-> TRUE, stubborn |-> stubborn]]
      BY <1>2, <2>2 DEF Spawn
    <3>2. Goto(w, "wait", mem[w]) /\ UNCHANGED <<faults, status>>
      BY <1>2, <2>2 DEF Spawn
    <3>3. proc' \in [Members -> Process] /\ LeaderStays'
      BY <1>0, <3>1 DEF Typed, Process, Members, LeaderStays
    <3>4. Confirmation(w)'
      BY <1>0, <2>0, <3>2, GotoTyped DEF Confirmation, Steps
    <3>5. CommandInv'
      BY <1>0, <2>0, <3>2, <3>3, <3>4, CommandMoves
    <3> QED
      BY <1>0, <2>0, <3>2, <3>3, <3>5, CommandStep DEF Typed
  <2> QED
    BY <2>1, <2>2
<1> QED
  BY <1>1, <1>2

\* The steps that wait for the command, terminate its group and read its output.
LEMMA TerminateStep ==
    ASSUME SandboxInv, NEW w \in Workers,
           Poll(w) \/ SendTerm(w) \/ Grace(w) \/ JoinReaders(w)
    PROVE  SandboxInv'
<1> USE SandboxAssumption
<1>0. /\ Typed /\ CommandInv /\ mem[w] \in Memory
      /\ {"wait", "term", "grace", "join"} \subseteq ExecSteps
      /\ GroupAlive \in SUBSET Members
  BY DEF SandboxInv, Typed, ExecSteps, GroupAlive
<1>a. ASSUME NEW to \in ExecSteps, NEW m,
             \/ \E b \in BOOLEAN : m = [mem[w] EXCEPT !.terminated = b]
             \/ \E c \in {"exit", "cancel", "timeout"} : m = [mem[w] EXCEPT !.cause = c]
             \/ m = mem[w],
             Goto(w, to, m), pc[w] \in ExecSteps, UNCHANGED <<fileVars, histVars, status>>,
             proc' \in [Members -> Process], faults' \in 0..MaxFaults, LeaderStays',
             to # "spawn", to = "join" /\ m.terminated => GroupAlive' = {}
      PROVE  SandboxInv'
  <2>1. /\ m \in Memory /\ m.temp = mem[w].temp /\ m.seen = mem[w].seen
        /\ m.stamp = mem[w].stamp /\ m.mode = mem[w].mode
    BY <1>0, <1>a, MemoryKept
  <2>2. pc'[w] = to /\ mem'[w] = m
    BY <1>0, <1>a, <2>1, GotoTyped DEF Steps
  <2>3. Confirmation(w)'
    BY <1>a, <2>2 DEF Confirmation
  <2>4. CommandInv'
    BY <1>0, <1>a, <2>1, <2>3, CommandMoves
  <2>5. status' \in Status \cup {"none"}
    BY <1>0, <1>a DEF Typed
  <2> QED
    BY <1>a, <2>1, <2>4, <2>5, CommandStep
<1>1. ASSUME Poll(w) PROVE SandboxInv'
  <2>1. pc[w] = "wait" /\ UNCHANGED <<fileVars, procVars, faults, histVars>>
    BY <1>1 DEF Poll
  <2>2. /\ proc' \in [Members -> Process] /\ faults' \in 0..MaxFaults /\ LeaderStays'
        /\ GroupAlive' = GroupAlive
    BY <1>0, <2>1 DEF Typed, procVars, CommandInv, LeaderStays, GroupAlive
  <2>3. CASE Goto(w, AfterExit, [mem[w] EXCEPT !.terminated = TRUE])
    <3> DEFINE m == [mem[w] EXCEPT !.terminated = TRUE]
    <3>1. Goto(w, AfterExit, m) /\ \E b \in BOOLEAN : m = [mem[w] EXCEPT !.terminated = b]
      BY <2>3
    <3> HIDE DEF m
    <3>2. AfterExit \in ExecSteps /\ AfterExit # "spawn"
          /\ (AfterExit = "join" => GroupAlive = {})
      BY DEF AfterExit, ExecSteps
    <3> QED
      BY <1>0, <1>a, <2>1, <2>2, <3>1, <3>2 DEF procVars
  <2>4. CASE \E c \in {"cancel", "timeout"} : Goto(w, "term", [mem[w] EXCEPT !.cause = c])
    <3>1. PICK c \in {"cancel", "timeout"} : Goto(w, "term", [mem[w] EXCEPT !.cause = c])
      BY <2>4
    <3> DEFINE m == [mem[w] EXCEPT !.cause = c]
    <3>2. /\ Goto(w, "term", m)
          /\ \E k \in {"exit", "cancel", "timeout"} : m = [mem[w] EXCEPT !.cause = k]
      BY <3>1
    <3> HIDE DEF m
    <3> QED
      BY <1>0, <1>a, <2>1, <2>2, <3>2 DEF procVars
  <2> QED
    BY <1>1, <2>3, <2>4 DEF Poll
<1>2. ASSUME SendTerm(w) PROVE SandboxInv'
  <2> DEFINE S == {p \in GroupAlive : ~proc[p].stubborn}
  <2>1. /\ pc[w] = "term" /\ proc' = Killed(S) /\ S \in SUBSET Members
        /\ UNCHANGED <<fileVars, cancelled, status, faults, histVars>>
    BY <1>0, <1>2 DEF SendTerm
  <2> HIDE DEF S
  <2>2. /\ proc' \in [Members -> Process] /\ faults' \in 0..MaxFaults /\ LeaderStays'
        /\ GroupAlive' = GroupAlive \ S
    BY <1>0, <2>1, KillingTyped DEF Typed, CommandInv
  <2>3. CASE GroupAlive = {}
    <3> DEFINE m == [mem[w] EXCEPT !.terminated = TRUE]
    <3>1. Goto(w, "join", m) /\ \E b \in BOOLEAN : m = [mem[w] EXCEPT !.terminated = b]
      BY <1>2, <2>3 DEF SendTerm
    <3> HIDE DEF m
    <3>2. GroupAlive' = {}
      BY <2>2, <2>3
    <3> QED
      BY <1>0, <1>a, <2>1, <2>2, <3>1, <3>2
  <2>4. CASE GroupAlive # {}
    <3>1. Goto(w, "grace", mem[w])
      BY <1>2, <2>4 DEF SendTerm
    <3> QED
      BY <1>0, <1>a, <2>1, <2>2, <3>1
  <2> QED
    BY <2>3, <2>4
<1>3. ASSUME Grace(w) PROVE SandboxInv'
  <2>1. pc[w] = "grace" /\ faults' \in 0..MaxFaults /\ UNCHANGED <<fileVars, cancelled, status, histVars>>
    BY <1>0, <1>3 DEF Grace, Typed
  <2>2. CASE /\ Goto(w, "join", [mem[w] EXCEPT !.terminated = TRUE])
             /\ \/ GroupAlive = {} /\ UNCHANGED proc
                \/ proc' = Killed(GroupAlive)
    <3> DEFINE m == [mem[w] EXCEPT !.terminated = TRUE]
    <3>1. Goto(w, "join", m) /\ \E b \in BOOLEAN : m = [mem[w] EXCEPT !.terminated = b]
      BY <2>2
    <3> HIDE DEF m
    <3>2. proc' \in [Members -> Process] /\ LeaderStays' /\ GroupAlive' = {}
      <4>1. CASE proc' = Killed(GroupAlive)
        BY <1>0, <4>1, KillingTyped DEF CommandInv
      <4>2. CASE GroupAlive = {} /\ UNCHANGED proc
        BY <1>0, <4>2 DEF Typed, CommandInv, LeaderStays, GroupAlive
      <4> QED
        BY <2>2, <4>1, <4>2
    <3> QED
      BY <1>0, <1>a, <2>1, <3>1, <3>2
  <2>3. CASE Goto(w, "join", [mem[w] EXCEPT !.terminated = FALSE]) /\ UNCHANGED proc
    <3> DEFINE m == [mem[w] EXCEPT !.terminated = FALSE]
    <3>1. Goto(w, "join", m) /\ \E b \in BOOLEAN : m = [mem[w] EXCEPT !.terminated = b]
      BY <2>3
    <3>2. ~m.terminated
      BY <1>0 DEF Memory
    <3> HIDE DEF m
    <3>3. proc' \in [Members -> Process] /\ LeaderStays'
      BY <1>0, <2>3 DEF Typed, CommandInv, LeaderStays
    <3> QED
      BY <1>0, <1>a, <2>1, <3>1, <3>2, <3>3
  <2> QED
    BY <1>3, <2>2, <2>3 DEF Grace
<1>4. ASSUME JoinReaders(w) PROVE SandboxInv'
  <2>1. /\ pc[w] = "join" /\ Goto(w, "idle", Blank) /\ Blank \in Memory
        /\ UNCHANGED <<fileVars, cancelled, faults, histVars>>
    BY <1>4, BlankTyped DEF JoinReaders
  <2>2. PICK code \in {"SUCCEEDED", "FAILED"} :
           status' = ClassifyProcessResult(mem[w], code, PipesHeld)
    BY <1>4 DEF JoinReaders
  <2>3. status' \in Status /\ (status' \in Confirmed => ~PipesHeld /\ mem[w].terminated)
    BY <2>2 DEF ClassifyProcessResult, Status, Confirmed
  <2>4. /\ proc' \in [Members -> Process] /\ LeaderStays'
        /\ ~PipesHeld => proc' = proc
    <3>1. CASE PipesHeld
      BY <1>0, <1>4, <3>1, KillingTyped DEF JoinReaders, CommandInv
    <3>2. CASE ~PipesHeld
      BY <1>0, <1>4, <3>2 DEF JoinReaders, CommandInv, LeaderStays, Typed
    <3> QED
      BY <3>1, <3>2
  <2>5. ConfirmedMeansQuiet'
    <3>1. SUFFICES ASSUME status' \in Confirmed PROVE GroupAlive' = {} /\ ~PipesHeld'
      BY DEF ConfirmedMeansQuiet
    <3>2. GroupAlive = {} /\ ~PipesHeld /\ proc' = proc
      BY <1>0, <2>1, <2>3, <2>4, <3>1 DEF CommandInv, Confirmation
    <3> QED
      BY <3>2 DEF GroupAlive, PipesHeld
  <2>6. CommandInv'
    BY <1>0, <2>1, <2>4, <2>5, CommandEnds
  <2> QED
    BY <1>0, <2>1, <2>3, <2>4, <2>6, CommandStep DEF Typed
<1> QED
  BY <1>1, <1>2, <1>3, <1>4

\* What the processes of the command do, and the cancellation of the call.
LEMMA ProcessStep ==
    ASSUME SandboxInv, Fork \/ Cancel \/ \E p \in Members : MemberExits(p)
    PROVE  SandboxInv'
<1>0. Typed /\ FileInv /\ CommandInv
  BY DEF SandboxInv
<1>1. UNCHANGED <<fileVars, status, faults, pc, mem, histVars>>
  BY DEF Fork, Cancel, MemberExits
<1>2. SUFFICES /\ proc' \in [Members -> Process] /\ LeaderStays'
               /\ GroupAlive = {} => GroupAlive' = {}
               /\ GroupAlive = {} /\ ~PipesHeld => ~PipesHeld'
               /\ (\A p \in Members : ~proc[p].alive) => \A p \in Members : ~proc'[p].alive
  <2>1. Typed'
    BY <1>0, <1>1, <1>2 DEF Typed, fileVars, histVars
  <2>2. FileInv'
    BY <1>0, <1>1, StillFile
  <2>3. CommandInv'
    BY <1>0, <1>1, <1>2 DEF CommandInv, OneCommand, Confirmation, ConfirmedMeansQuiet
  <2> QED
    BY <2>1, <2>2, <2>3 DEF SandboxInv
<1>3. CASE Cancel
  BY <1>0, <1>3 DEF Cancel, Typed, CommandInv, LeaderStays, GroupAlive, PipesHeld
<1>4. ASSUME NEW p \in Members, MemberExits(p)
      PROVE  /\ proc' \in [Members -> Process] /\ LeaderStays'
             /\ GroupAlive = {} => GroupAlive' = {}
             /\ GroupAlive = {} /\ ~PipesHeld => ~PipesHeld'
             /\ (\A q \in Members : ~proc[q].alive) => \A q \in Members : ~proc'[q].alive
  <2>1. proc' = Killed({p}) /\ {p} \in SUBSET Members
    BY <1>4 DEF MemberExits
  <2> QED
    BY <1>0, <2>1, KillingTyped DEF CommandInv
<1>5. CASE Fork
  <2>1. PICK group, piped, stubborn \in BOOLEAN :
           proc' = [proc EXCEPT !["child"] = [alive |-> TRUE, group |-> group,
                                              piped |-> piped, stubborn |-> stubborn]]
    BY <1>5 DEF Fork
  <2>2. proc["leader"].alive /\ "leader" \in GroupAlive
    BY <1>0, <1>5 DEF Fork, CommandInv, LeaderStays, GroupAlive, Members
  <2>3. proc' \in [Members -> Process] /\ proc'["leader"] = proc["leader"]
    BY <1>0, <2>1 DEF Typed, Members, Process
  <2> QED
    BY <1>0, <2>2, <2>3 DEF CommandInv, LeaderStays, Members
<1> QED
  BY <1>3, <1>4, <1>5

\* Somebody else edits or removes the file.
LEMMA WorldStep ==
    ASSUME SandboxInv, Remove \/ \E data \in Data : EditInPlace(data)
    PROVE  SandboxInv'
<1> USE SandboxAssumption
<1>0. Typed /\ FileInv /\ CommandInv
  BY DEF SandboxInv
<1>1. UNCHANGED <<temps, procVars, faults, pc, mem, orphans, got>> /\ Race({})
  BY DEF Remove, EditInPlace
<1>2. CommandInv'
  BY <1>0, <1>1 DEF CommandInv, OneCommand, Confirmation, LeaderStays, ConfirmedMeansQuiet,
                    GroupAlive, PipesHeld, procVars
<1>3. /\ \A w \in Workers : OwnsTemp(w)' /\ CheckedTarget(w)'
      /\ TempsAreDistinct' /\ ReadIsCurrent' /\ TemporariesAreOwned' /\ orphans' \subseteq temps'
  BY <1>0, <1>1 DEF FileInv, OwnsTemp, CheckedTarget, TempsAreDistinct, ReadIsCurrent,
                    TemporariesAreOwned, Race
<1>4. CASE Remove
  <2>1. path' = 0 /\ UNCHANGED <<inode, clock>>
    BY <1>4 DEF Remove
  <2>2. Typed'
    BY <1>0, <1>1, <2>1 DEF Typed, procVars
  <2>3. ClockIsAhead' /\ NamesAreWritten'
    BY <1>0, <1>1, <2>1 DEF FileInv, ClockIsAhead, NamesAreWritten, Typed
  <2>4. \A w \in Workers : SawVersion(w)' /\ ReadOneVersion(w)'
    BY <1>0, <1>1, <2>1 DEF FileInv, SawVersion, ReadOneVersion
  <2> QED
    BY <1>2, <1>3, <2>2, <2>3, <2>4 DEF SandboxInv, FileInv
<1>5. ASSUME NEW data \in Data, EditInPlace(data) PROVE SandboxInv'
  <2> DEFINE new == clock + 1
  <2>1. /\ clock' = new /\ path' = path /\ path \in Inodes
        /\ inode' = [inode EXCEPT ![path] = [stamp |-> new, data |-> data]]
    BY <1>0, <1>5 DEF EditInPlace, Typed, Inodes
  <2>2. clock \in Nat /\ new > clock /\ new \in Nat \ {0} /\ new <= MaxChanges
    BY <1>0, <1>5 DEF EditInPlace, Typed
  <2> HIDE DEF new
  <2>3. /\ inode' \in [Inodes -> [stamp : 0..MaxChanges, data : Content]]
        /\ inode'[path].stamp = new
        /\ \A i \in Inodes : i # path => inode'[i] = inode[i]
    BY <1>0, <2>1, <2>2 DEF Typed, Content
  <2>4. Typed'
    BY <1>0, <1>1, <2>1, <2>2, <2>3 DEF Typed, procVars
  <2>5. ClockIsAhead' /\ NamesAreWritten'
    <3>1. path' <= clock' /\ \A i \in temps' : i <= clock'
      BY <1>0, <1>1, <2>1, <2>2 DEF FileInv, ClockIsAhead, Typed, Inodes
    <3>2. \A i \in Inodes : inode[i].stamp \in Nat
      BY <1>0 DEF Typed
    <3>3. \A i \in Inodes : inode'[i].stamp <= clock'
      BY <1>0, <2>1, <2>2, <2>3, <3>2 DEF FileInv, ClockIsAhead
    <3>4. NamesAreWritten'
      BY <1>0, <1>1, <2>1, <2>2, <2>3 DEF FileInv, NamesAreWritten, Typed
    <3> QED
      BY <3>1, <3>3, <3>4 DEF ClockIsAhead
  <2>6. \A w \in Workers : mem[w].seen \in 0..MaxChanges /\ mem[w].stamp \in 0..MaxChanges
    BY <1>0 DEF Typed, Memory
  <2>7. \A w \in Workers : SawVersion(w)'
    BY <1>0, <1>1, <2>1, <2>2, <2>6 DEF FileInv, SawVersion
  <2>8. ASSUME NEW w \in Workers PROVE ReadOneVersion(w)'
    <3>1. mem[w].stamp # new /\ (pc[w] \in ReadSteps => mem[w].seen \in Inodes)
      BY <1>0, <2>2, <2>6 DEF FileInv, SawVersion, Inodes
    <3> QED
      BY <1>0, <1>1, <2>1, <2>3, <3>1 DEF FileInv, ReadOneVersion
  <2> QED
    BY <1>2, <1>3, <2>4, <2>5, <2>7, <2>8 DEF SandboxInv, FileInv
<1> QED
  BY <1>4, <1>5

-------------------------------------------------------------------------------
(* Theorems *)

\* The sandbox starts within the invariant.
LEMMA InitInv == Init => SandboxInv
<1> USE SandboxAssumption
<1> SUFFICES ASSUME Init PROVE SandboxInv
  OBVIOUS
<1>1. /\ inode \in [Inodes -> [stamp : 0..MaxChanges, data : Content]]
      /\ 1 \in Inodes
      /\ \A i \in Inodes : inode[i].stamp \in {0, 1}
      /\ inode[1].stamp = 1
  BY DEF Init, Unused, Inodes, Content
<1>2. Blank \in Memory /\ Blank.temp = 0 /\ Blank.seen = 0 /\ Blank.stamp = 0
      /\ Blank.mode = "none"
  BY BlankTyped DEF Blank
<1>3. proc \in [Members -> Process] /\ \A p \in Members : ~proc[p].alive
  BY DEF Init, Absent, Process
<1>4. Typed
  BY <1>1, <1>2, <1>3 DEF Init, Typed, Steps
<1>5. FileInv
  <2>1. \A w \in Workers : pc[w] = "idle" /\ mem[w] = Blank
    BY DEF Init
  <2>2. ClockIsAhead /\ NamesAreWritten /\ ReadIsCurrent /\ TemporariesAreOwned
        /\ orphans \subseteq temps
    BY <1>1 DEF Init, ClockIsAhead, NamesAreWritten, ReadIsCurrent, TemporariesAreOwned
  <2>3. clock = 1
    BY DEF Init
  <2>4. \A w \in Workers : OwnsTemp(w) /\ SawVersion(w) /\ ReadOneVersion(w) /\ CheckedTarget(w)
    BY <1>2, <2>1, <2>3 DEF OwnsTemp, SawVersion, ReadOneVersion, CheckedTarget, ReadSteps
  <2>5. TempsAreDistinct
    BY <1>2, <2>1 DEF TempsAreDistinct
  <2> QED
    BY <2>2, <2>4, <2>5 DEF FileInv
<1>6. CommandInv
  BY <1>3 DEF Init, CommandInv, OneCommand, Confirmation, LeaderStays, ConfirmedMeansQuiet,
              Confirmed, ExecSteps, Members
<1> QED
  BY <1>4, <1>5, <1>6 DEF SandboxInv

\* Every step keeps the invariant.
LEMMA NextInv == SandboxInv /\ [Next]_vars => SandboxInv'
<1> SUFFICES ASSUME SandboxInv, [Next]_vars PROVE SandboxInv'
  OBVIOUS
<1>1. CASE UNCHANGED vars
  <2>1. UNCHANGED <<fileVars, procVars, faults, pc, mem, histVars>>
    BY <1>1 DEF vars
  <2>2. Typed' /\ CommandInv'
    BY <2>1 DEF SandboxInv, Typed, CommandInv, OneCommand, Confirmation, LeaderStays,
                ConfirmedMeansQuiet, GroupAlive, PipesHeld, fileVars, procVars, histVars
  <2>3. FileInv'
    BY <2>1, StillFile DEF SandboxInv
  <2> QED
    BY <2>2, <2>3 DEF SandboxInv
<1>2. CASE Step
  BY <1>2, ReadStep, BeginWriteStep, CreateTempStep, WriteStep, SpawnStep, TerminateStep,
     ProcessStep, WorldStep DEF Step, Execute
<1> QED
  BY <1>1, <1>2 DEF Next

\* The invariant holds in every reachable state.
LEMMA InvHolds == Spec => []SandboxInv
<1>1. Init => SandboxInv
  BY InitInv
<1>2. SandboxInv /\ [Next]_vars => SandboxInv'
  BY NextInv
<1> QED
  BY <1>1, <1>2, PTL DEF Spec

\* The file, its names, the processes and the workers keep their types, and every
\* name leads to an inode that write_file_atomic or somebody else has written.
THEOREM SandboxTypes == Spec => []SandboxTypeOK
<1>1. SandboxInv => SandboxTypeOK
  BY DEF SandboxInv, Typed, FileInv, NamesAreWritten, SandboxTypeOK, Content, Process, Steps
<1> QED
  BY <1>1, InvHolds, PTL

\* read_file never answers with parts of two versions, nor with an old one,
\* however many workers and edits there are.
THEOREM ReadsAreWhole == Spec => []ReadIsCurrent
<1>1. SandboxInv => ReadIsCurrent
  BY DEF SandboxInv, FileInv
<1> QED
  BY <1>1, InvHolds, PTL

\* write_file_atomic leaves a temporary name behind only by a crash or an unlink
\* that fails.
THEOREM TemporariesHaveOwners == Spec => []TemporariesAreOwned
<1>1. SandboxInv => TemporariesAreOwned
  BY DEF SandboxInv, FileInv
<1> QED
  BY <1>1, InvHolds, PTL

\* _classify_process_result confirms a result only of a command whose group is
\* dead and whose output nobody holds.
THEOREM ConfirmedIsQuiet == Spec => []ConfirmedMeansQuiet
<1>1. SandboxInv => ConfirmedMeansQuiet
  BY DEF SandboxInv, CommandInv
<1> QED
  BY <1>1, InvHolds, PTL

\* A step that puts a worker's temporary inode under the path is that worker's
\* commit, and has nothing unseen under it.
LEMMA CommitSound ==
    ASSUME SandboxInv, [Next]_vars, NEW w \in Workers,
           path' # path, path' # 0, path' = mem[w].temp
    PROVE  \/ mem[w].mode = "CREATE" /\ path = 0
           \/ mem[w].mode = "REPLACE" /\ (w \in raced \/ SameFile(mem[w]))
<1>1. PICK v \in Workers : path' = mem[v].temp /\ (CommitReplace(v) \/ CommitCreate(v))
  <2>1. Step
    BY DEF Next, vars, fileVars
  <2>2. ~Remove /\ ~Fork /\ ~Cancel /\ (\A p \in Members : ~MemberExits(p))
        /\ \A d \in Data : ~EditInPlace(d)
    BY DEF Remove, Fork, Cancel, MemberExits, EditInPlace, fileVars
  <2>3. ASSUME NEW v \in Workers
        PROVE  /\ ~BeginRead(v) /\ ~ReadFirst(v) /\ ~ReadSecond(v) /\ ~Revalidate(v)
               /\ \A mode, d, e : ~BeginWrite(v, mode, d, e)
               /\ ~CreateTemp(v) /\ ~Recheck(v) /\ ~WriteFails(v) /\ ~UnlinkFails(v)
               /\ ~Crash(v)
               /\ \A b : ~BeginExecute(v, b)
               /\ ~Execute(v)
    BY DEF BeginRead, ReadFirst, ReadSecond, Revalidate, BeginWrite, CreateTemp, Recheck,
           WriteFails, UnlinkFails, Crash, Abandoned, BeginExecute, Execute, Spawn, Poll,
           SendTerm, Grace, JoinReaders, fileVars
  <2>4. PICK v \in Workers : CommitReplace(v) \/ CommitCreate(v)
    BY <2>1, <2>2, <2>3 DEF Step
  <2>5. path' = mem[v].temp
    BY <2>4 DEF CommitReplace, CommitCreate
  <2> QED
    BY <2>4, <2>5
<1>2. v = w
  BY <1>1 DEF SandboxInv, FileInv, TempsAreDistinct
<1>3. CASE CommitReplace(w)
  BY <1>3 DEF CommitReplace, SandboxInv, FileInv, CheckedTarget
<1>4. CASE CommitCreate(w)
  BY <1>4 DEF CommitCreate
<1> QED
  BY <1>1, <1>2, <1>3, <1>4

\* write_file_atomic replaces only what it has checked, or what changed between
\* its last check and the rename; CREATE replaces nothing.
THEOREM UnseenIsKept == Spec => NothingUnseenIsLost
<1>1. SandboxInv /\ [Next]_vars =>
        [\A w \in Workers :
           (path' # path /\ path' # 0 /\ path' = mem[w].temp) =>
              \/ mem[w].mode = "CREATE" /\ path = 0
              \/ /\ mem[w].mode = "REPLACE"
                 /\ w \in raced \/ SameFile(mem[w])]_vars
  BY CommitSound
<1> QED
  BY <1>1, InvHolds, PTL DEF Spec, NothingUnseenIsLost

===============================================================================
