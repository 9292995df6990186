----------------------------- MODULE ShellProofs -----------------------------
(***************************************************************************)
(* For any programs, any lines and any number of processes and pipes: the  *)
(* shell's types, in what state its prompt comes back, and that the pipes  *)
(* keep what they promise under the shell and its pipelines.               *)
(*                                                                         *)
(* The shell's steps are steps of the pipes (PStep), so PInv holds; what   *)
(* is added is which pipes are open at each place of execute_pipe, and     *)
(* that the shell is in a read only while it reads a line.                 *)
(***************************************************************************)
EXTENDS Shell, TerminalProofs

Jobs == [prog : Programs \cup {"none", "end"}, in : Fds, out : Fds \cup {Screen}, todo : Seq(Bytes)]
ShellTypes ==
    /\ job \in [Procs -> Jobs] /\ at \in {"read", "open", "right", "left", "close"}
    /\ pos \in 0 .. MaxLine - 2 /\ line \in Lines \cup {NoLine} /\ fd \in Fds

(* The pipe of the line that is being run is open from its creation until the
   left program has been started and, if the line says so, waited for. *)
Piping == at \in {"right", "close"} \/ (at = "left" /\ line.right # "none")
SessionOK ==
    /\ at \in {"open", "right", "left"} => line \in Lines
    /\ at \in {"open", "right"} => line.right # "none"
    /\ Piping => fd # STDIN /\ used[fd]
    /\ \A f \in Fds : used[f] => f = STDIN \/ (Piping /\ f = fd)
    /\ call[Shell] # NoCall => at = "read"
    /\ job[Shell].prog = "none"
    /\ used[STDIN]

SInv == TInv /\ ShellTypes /\ (scene.lines # {} => SessionOK)

LEMMA ShellKnown ==
    /\ MaxLine \in Nat /\ MaxLine >= 2
    /\ \A g \in Programs : TextOf[g] \in Seq(Bytes)
    /\ \A s \in Scenes : s.lines \subseteq Lines
BY ShellOK DEF ShellOK

-----------------------------------------------------------------------------
(* The shell's steps are steps of the pipes. *)
LEMMA GetcharSteps ==
    ASSUME ShellTypes, NEW p \in Procs, Getchar(p)
    PROVE  [PStep]_pvars
<1>1. job[p].in \in Fds
  BY DEF ShellTypes, Jobs
<1>2. PICK f \in Fds : f = Redirected(p, STDIN)
  BY <1>1 DEF Redirected
<1>3. CASE Read(p, f, 1)
  BY <1>3, ReadSteps
<1>4. CASE UNCHANGED pvars
  BY <1>4
<1>5. QED BY <1>2, <1>3, <1>4 DEF Getchar

LEMMA PutcharSteps ==
    ASSUME ShellTypes, NEW p \in Procs, Putchar(p)
    PROVE  [PStep]_pvars
<1>1. job[p].out \in Fds \cup {Screen} /\ job[p].todo \in Seq(Bytes) /\ job[p].todo # <<>>
  BY DEF ShellTypes, Jobs, Putchar
<1>2. PICK f \in Fds \cup {Screen} : f = Redirected(p, Screen)
  BY <1>1 DEF Redirected, Screen, STDIN
<1>3. PICK b \in Bytes : b = Head(job[p].todo)
  BY <1>1
<1>4. CASE f # Screen /\ Write(p, f, <<b>>)
  <2>1. <<b>> \in Seq(Bytes) /\ <<b>> # <<>>
    OBVIOUS
  <2>2. f \in Fds
    BY <1>4
  <2>3. QED BY <1>4, <2>1, <2>2, WriteSteps
<1>5. CASE UNCHANGED pvars
  BY <1>5
<1>6. QED BY <1>2, <1>3, <1>4, <1>5 DEF Putchar

LEMMA LaunchesSteps ==
    ASSUME scene \in Scenes, NEW g, NEW in, NEW out, NEW waits \in BOOLEAN,
           Launches(g, in, out, waits)
    PROVE  [PStep]_pvars
<1>1. ASSUME NEW q \in scene.procs, Start(q, waits) PROVE PStep
  BY <1>1, ScenesOK DEF ScenesOK, PStep
<1>2. QED BY <1>1 DEF Launches

LEMMA RunsSteps ==
    ASSUME ShellTypes, NEW p \in Procs, Runs(p)
    PROVE  [PStep]_pvars
<1>1. Putchar(p) \/ Getchar(p) \/ Exit(p)
  BY DEF Runs, Echo, Loop, Cat
<1>2. CASE Exit(p)
  BY <1>2 DEF PStep
<1>3. QED BY <1>1, <1>2, PutcharSteps, GetcharSteps

LEMMA ShellSteps ==
    ASSUME SInv, scene.lines # {}, ShellRuns
    PROVE  [PStep]_pvars
<1>0. ShellTypes /\ SessionOK /\ scene \in Scenes /\ Shell \in Procs
  BY Known DEF SInv, TInv
<1>1. CASE Getchar(Shell)
  BY <1>0, <1>1, GetcharSteps
<1>2. CASE Opens
  BY <1>0, <1>2 DEF Opens, PStep
<1>3. CASE Right
  BY <1>0, <1>3, LaunchesSteps DEF Right
<1>4. CASE Left
  <2>1. line.waits \in BOOLEAN
    BY <1>0, <1>4 DEF Left, SessionOK, Lines
  <2>2. QED BY <1>0, <1>4, <2>1, LaunchesSteps DEF Left
<1>5. CASE Closes
  BY <1>0, <1>5 DEF Closes, PStep, ShellTypes
<1>6. QED BY <1>1, <1>2, <1>3, <1>4, <1>5 DEF ShellRuns

LEMMA InsideSteps == ASSUME NEW p \in Procs, Inside(p) PROVE PStep
BY DEF Inside, GoOn, PStep

LEMMA SNextSteps == SInv /\ SNext => [PStep]_pvars
<1> SUFFICES ASSUME SInv, SNext PROVE [PStep]_pvars
  OBVIOUS
<1>1. scene \in Scenes /\ ShellTypes
  BY DEF SInv, TInv
<1>2. CASE Next
  BY <1>1, <1>2, NextSteps
<1>3. CASE scene.lines # {} /\ Session
  <2>1. CASE ShellRuns
    BY <1>3, <2>1, ShellSteps
  <2>2. ASSUME NEW p \in Procs, Inside(p) \/ Runs(p) PROVE [PStep]_pvars
    BY <1>1, <2>2, InsideSteps, RunsSteps
  <2>3. ASSUME NEW key, NEW release, Key(key, release) PROVE [PStep]_pvars
    BY <2>3, KeySteps
  <2>4. CASE Tick
    BY <2>4 DEF PStep
  <2>5. QED BY <1>3, <2>1, <2>2, <2>3, <2>4 DEF Session
<1>4. QED BY <1>2, <1>3 DEF SNext

-----------------------------------------------------------------------------
(* What the shell and the programs do to their own variables. *)
LEMMA LineIsTypes ==
    ASSUME SInv, NEW n, LineIs(n)
    PROVE  /\ at' \in {at, "left", "open"} /\ pos' \in 0 .. MaxLine - 2
           /\ line' \in Lines \cup {NoLine}
           /\ \/ UNCHANGED <<at, line>>
              \/ /\ line' \in Lines
                 /\ at' = IF line'.right = "none" THEN "left" ELSE "open"
<1>1. scene.lines \subseteq Lines
  BY ShellKnown DEF SInv, TInv
<1>2. pos' = 0 /\ 0 \in 0 .. MaxLine - 2
  BY ShellKnown DEF LineIs
<1>3. line \in Lines \cup {NoLine}
  BY DEF SInv, ShellTypes
<1>4. QED BY <1>1, <1>2, <1>3 DEF LineIs

LEMMA ReadsLineTypes ==
    ASSUME SInv, NEW b, ReadsLine(b)
    PROVE  /\ at' \in {at, "left", "open"} /\ pos' \in 0 .. MaxLine - 2
           /\ line' \in Lines \cup {NoLine}
           /\ \/ UNCHANGED <<at, line>>
              \/ /\ line' \in Lines
                 /\ at' = IF line'.right = "none" THEN "left" ELSE "open"
<1>1. CASE \E n : LineIs(n)
  BY <1>1, LineIsTypes
<1>2. CASE /\ LengthWith(b) < MaxLine - 1
           /\ pos' = LengthWith(b) /\ UNCHANGED <<at, line>>
  <2>1. pos \in 0 .. MaxLine - 2 /\ MaxLine \in Nat /\ MaxLine >= 2
    BY ShellKnown DEF SInv, ShellTypes
  <2>2. LengthWith(b) \in Nat
    BY <2>1 DEF LengthWith
  <2>3. pos' \in 0 .. MaxLine - 2
    BY <1>2, <2>1, <2>2
  <2>4. line \in Lines \cup {NoLine}
    BY DEF SInv, ShellTypes
  <2>5. QED BY <1>2, <2>3, <2>4
<1>3. QED BY <1>1, <1>2 DEF ReadsLine

LEMMA GetsTypes ==
    ASSUME SInv, NEW p \in Procs, NEW b, Gets(p, b)
    PROVE  /\ ShellTypes'
           /\ p = Shell => /\ job' = job
                           /\ \/ UNCHANGED <<at, line>>
                              \/ /\ line' \in Lines
                                 /\ at' = IF line'.right = "none" THEN "left" ELSE "open"
           /\ p # Shell => job'[Shell] = job[Shell] /\ UNCHANGED <<at, line>>
           /\ fd' = fd
<1>1. ShellTypes
  BY DEF SInv
<1>2. CASE p = Shell
  <2>1. ReadsLine(b) /\ UNCHANGED <<job, fd>>
    BY <1>2 DEF Gets
  <2>2. /\ at' \in {at, "left", "open"} /\ pos' \in 0 .. MaxLine - 2
        /\ line' \in Lines \cup {NoLine}
    BY <2>1, ReadsLineTypes
  <2>3. ShellTypes'
    BY <1>1, <2>1, <2>2 DEF ShellTypes
  <2>4. QED BY <1>2, <2>1, <2>3, ReadsLineTypes
<1>3. CASE p # Shell
  <2>1. /\ job' = [job EXCEPT ![p] = IF b = Eof THEN [job[p] EXCEPT !.prog = "end"] ELSE job[p]]
        /\ UNCHANGED <<at, pos, line, fd>>
    BY <1>3 DEF Gets
  <2>2. job \in [Procs -> Jobs] /\ job[p] \in Jobs
    BY <1>1 DEF ShellTypes
  <2>3. [job[p] EXCEPT !.prog = "end"] \in Jobs
    BY <2>2 DEF Jobs
  <2>4. job' \in [Procs -> Jobs] /\ job'[Shell] = job[Shell]
    BY <1>3, <2>1, <2>2, <2>3, Known
  <2>5. ShellTypes'
    BY <1>1, <2>1, <2>4 DEF ShellTypes
  <2>6. QED BY <1>3, <2>1, <2>4, <2>5
<1>4. QED BY <1>2, <1>3

(* What leaves the open pipes alone, and is not the shell getting out of a
   read, keeps SessionOK. *)
LEMMA SessionKept ==
    ASSUME SessionOK, UNCHANGED <<used, at, line, fd>>, job'[Shell] = job[Shell],
           call'[Shell] \in {NoCall, call[Shell]} \/ at = "read"
    PROVE  SessionOK'
<1>1. Piping' <=> Piping
  BY DEF Piping
<1>2. QED BY <1>1 DEF SessionOK

LEMMA SessionReads ==
    ASSUME SInv, SessionOK, at = "read", UNCHANGED <<used, fd, job>>,
           \/ UNCHANGED <<at, line>>
           \/ /\ line' \in Lines /\ call'[Shell] = NoCall
              /\ at' = IF line'.right = "none" THEN "left" ELSE "open"
    PROVE  SessionOK'
<1>1. CASE UNCHANGED <<at, line>>
  BY <1>1, SessionKept
<1>2. CASE /\ line' \in Lines /\ call'[Shell] = NoCall
           /\ at' = IF line'.right = "none" THEN "left" ELSE "open"
  <2>1. ~Piping /\ ~Piping'
    BY <1>2 DEF Piping
  <2>2. QED BY <1>2, <2>1 DEF SessionOK
<1>3. QED BY <1>1, <1>2

-----------------------------------------------------------------------------
(* Each step of a session. *)
LEMMA PutcharKeeps ==
    ASSUME SInv, SessionOK, NEW p \in Procs, p # Shell, Putchar(p)
    PROVE  ShellTypes' /\ SessionOK'
<1>1. ShellTypes /\ PTypeOK
  BY DEF SInv, TInv, PInv
<1>2. /\ job \in [Procs -> Jobs] /\ job[p] \in Jobs /\ call \in [Procs -> Calls] /\ Shell \in Procs
  BY <1>1, Known DEF ShellTypes, PTypeOK, Calls
<1>3. PICK t : /\ t = IF job[p].prog = "loop" /\ Len(job[p].todo) = 1 THEN TextOf["loop"]
                     ELSE Tail(job[p].todo)
               /\ job' = [job EXCEPT ![p].todo = t]
  BY DEF Putchar
<1>4. job[p].todo # <<>> /\ UNCHANGED <<at, pos, line, fd>>
  BY DEF Putchar
<1>5. t \in Seq(Bytes)
  <2>1. CASE job[p].prog = "loop" /\ Len(job[p].todo) = 1
    <3>1. "loop" \in Programs
      BY <1>2, <2>1 DEF Jobs
    <3>2. QED BY <1>3, <2>1, <3>1, ShellKnown
  <2>2. CASE ~(job[p].prog = "loop" /\ Len(job[p].todo) = 1)
    <3>1. job[p].todo \in Seq(Bytes)
      BY <1>2 DEF Jobs
    <3>2. QED BY <1>3, <1>4, <2>2, <3>1
  <2>3. QED BY <2>1, <2>2
<1>6. job' \in [Procs -> Jobs] /\ job'[Shell] = job[Shell]
  BY <1>2, <1>3, <1>5 DEF Jobs
<1>7. ShellTypes'
  BY <1>1, <1>4, <1>6 DEF ShellTypes
<1>8. UNCHANGED used /\ call'[Shell] = call[Shell]
  BY <1>2 DEF Putchar, Write, Enters, pipes, pvars
<1>9. SessionOK'
  BY <1>4, <1>6, <1>8, SessionKept
<1>10. QED BY <1>7, <1>9

LEMMA GetcharKeeps ==
    ASSUME SInv, SessionOK, NEW p \in Procs, p = Shell => at = "read", Getchar(p)
    PROVE  ShellTypes' /\ SessionOK'
<1>1. ShellTypes /\ PTypeOK
  BY DEF SInv, TInv, PInv
<1>2. call \in [Procs -> Calls] /\ Shell \in Procs
  BY <1>1, Known DEF PTypeOK, Calls
<1>3. PICK f : (Read(p, f, 1) /\ UNCHANGED svars) \/ (Outside(p) /\ UNCHANGED pvars /\ \E b \in Bytes : Gets(p, b))
  BY DEF Getchar
<1>4. CASE Read(p, f, 1) /\ UNCHANGED svars
  <2>1. UNCHANGED <<job, at, pos, line, fd>>
    BY <1>4 DEF svars
  <2>2. UNCHANGED used /\ (p # Shell => call'[Shell] = call[Shell])
    BY <1>2, <1>4 DEF Read, Enters, pipes
  <2>3. ShellTypes'
    BY <1>1, <2>1 DEF ShellTypes
  <2>4. SessionOK'
    BY <2>1, <2>2, SessionKept
  <2>5. QED BY <2>3, <2>4
<1>5. CASE Outside(p) /\ UNCHANGED pvars /\ \E b \in Bytes : Gets(p, b)
  <2>1. UNCHANGED <<used, call>> /\ call[p] = NoCall
    BY <1>5 DEF pvars, pipes, Outside
  <2>2. PICK b \in Bytes : Gets(p, b)
    BY <1>5
  <2>3. CASE p = Shell
    BY <2>1, <2>2, <2>3, GetsTypes, SessionReads
  <2>4. CASE p # Shell
    BY <2>1, <2>2, <2>4, GetsTypes, SessionKept
  <2>5. QED BY <2>3, <2>4
<1>6. QED BY <1>3, <1>4, <1>5

LEMMA RunsKeeps ==
    ASSUME SInv, SessionOK, NEW p \in Procs, Runs(p)
    PROVE  ShellTypes' /\ SessionOK'
<1>1. p # Shell
  BY DEF Runs, SessionOK
<1>2. ShellTypes /\ PTypeOK
  BY DEF SInv, TInv, PInv
<1>3. CASE Putchar(p)
  BY <1>1, <1>3, PutcharKeeps
<1>4. CASE Getchar(p)
  BY <1>1, <1>4, GetcharKeeps
<1>5. CASE Exit(p) /\ UNCHANGED svars
  <2>1. UNCHANGED <<used, job, at, pos, line, fd>>
    BY <1>5 DEF Exit, svars, pipes
  <2>2. call'[Shell] = call[Shell]
    BY <1>1, <1>2, <1>5, Known DEF Exit, Ends, PTypeOK
  <2>3. ShellTypes'
    BY <1>2, <2>1 DEF ShellTypes
  <2>4. SessionOK'
    BY <2>1, <2>2, SessionKept
  <2>5. QED BY <2>3, <2>4
<1>6. QED BY <1>3, <1>4, <1>5 DEF Runs, Echo, Loop, Cat

LEMMA InsideKeeps ==
    ASSUME SInv, SessionOK, NEW p \in Procs, Inside(p)
    PROVE  ShellTypes' /\ SessionOK'
<1>1. ShellTypes /\ PTypeOK /\ CallsOK
  BY DEF SInv, TInv, PInv
<1>2. call \in [Procs -> Calls] /\ Shell \in Procs
  BY <1>1, Known DEF PTypeOK, Calls
<1>3. used' = used /\ \A q \in Procs \ {p} : call'[q] = call[q]
  <2>1. CASE GivesUp(p)
    BY <1>2, <2>1 DEF GivesUp, pipes
  <2>2. CASE Blocks(p)
    BY <1>2, <2>2 DEF Blocks, pipes
  <2>3. ASSUME NEW kp, Moves(p, kp) PROVE used' = used /\ \A q \in Procs \ {p} : call'[q] = call[q]
    BY <2>3 DEF Moves, Goes
  <2>4. QED BY <1>1, <2>1, <2>2, <2>3, TakesIs, GivesIs DEF Inside, GoOn
<1>4. p = Shell => at = "read"
  <2>1. MayGoOn(p)
    BY DEF Inside, GoOn, GivesUp, Blocks, Takes, Gives, Passes
  <2>2. call[p] # NoCall
    BY <1>1, <2>1, MoverIs
  <2>3. QED BY <2>2 DEF SessionOK
<1>5. CASE UNCHANGED svars
  <2>1. UNCHANGED <<job, at, pos, line, fd>>
    BY <1>5 DEF svars
  <2>2. ShellTypes'
    BY <1>1, <2>1 DEF ShellTypes
  <2>3. SessionOK'
    BY <1>2, <1>3, <1>4, <2>1, SessionKept
  <2>4. QED BY <2>2, <2>3
<1>6. CASE call'[p] = NoCall /\ \E b \in Bytes : Gets(p, b)
  <2>1. PICK b \in Bytes : Gets(p, b)
    BY <1>6
  <2>2. CASE p = Shell
    BY <1>3, <1>4, <1>6, <2>1, <2>2, GetsTypes, SessionReads
  <2>3. CASE p # Shell
    BY <1>2, <1>3, <2>1, <2>3, GetsTypes, SessionKept
  <2>4. QED BY <2>2, <2>3
<1>7. QED BY <1>5, <1>6 DEF Inside

LEMMA TickKeeps ==
    ASSUME SInv, SessionOK, Tick, UNCHANGED svars
    PROVE  ShellTypes' /\ SessionOK'
<1>1. UNCHANGED <<used, call, job, at, pos, line, fd>> /\ ShellTypes
  BY DEF Tick, pipes, svars, SInv
<1>2. QED BY <1>1, SessionKept DEF ShellTypes

LEMMA KeyKeeps ==
    ASSUME SInv, SessionOK, NEW key, NEW release, Key(key, release), UNCHANGED svars
    PROVE  ShellTypes' /\ SessionOK'
<1>1. ShellTypes /\ PTypeOK
  BY DEF SInv, TInv, PInv
<1>2. UNCHANGED <<job, at, pos, line, fd>>
  BY DEF svars
<1>3. used' = used
  BY DEF Key, pvars, pipes
<1>4. call'[Shell] \in {NoCall, call[Shell]}
  BY <1>1, Known DEF Key, pvars, Ends, PTypeOK
<1>5. QED BY <1>1, <1>2, <1>3, <1>4, SessionKept DEF ShellTypes

LEMMA LaunchesKeeps ==
    ASSUME SInv, SessionOK, NEW g \in Programs, NEW in \in Fds, NEW out \in Fds \cup {Screen},
           NEW waits, Launches(g, in, out, waits)
    PROVE  /\ job' \in [Procs -> Jobs] /\ job'[Shell] = job[Shell]
           /\ used' = used /\ call'[Shell] = NoCall
<1>1. job \in [Procs -> Jobs] /\ state[Shell] # "NEW" /\ Shell \in Procs /\ scene.procs \subseteq Procs
  BY Known, ScenesOK DEF ScenesOK, SInv, TInv, PInv, FrontOK, ShellTypes
<1>2. ASSUME NEW q \in scene.procs, Start(q, waits),
             job' = [job EXCEPT ![q] = [prog |-> g, in |-> in, out |-> out, todo |-> TextOf[g]]]
      PROVE  /\ job' \in [Procs -> Jobs] /\ job'[Shell] = job[Shell]
             /\ used' = used /\ call'[Shell] = NoCall
  <2>1. q # Shell /\ UNCHANGED <<used, call>> /\ call[Shell] = NoCall
    BY <1>1, <1>2 DEF Start, Outside, pipes
  <2>2. [prog |-> g, in |-> in, out |-> out, todo |-> TextOf[g]] \in Jobs
    BY ShellKnown DEF Jobs
  <2>3. QED BY <1>1, <1>2, <2>1, <2>2
<1>3. CASE Outside(Shell) /\ UNCHANGED <<pvars, job>>
  BY <1>1, <1>3 DEF pvars, pipes, Outside
<1>4. QED BY <1>2, <1>3 DEF Launches

LEMMA ShellRunsKeeps ==
    ASSUME SInv, SessionOK, ShellRuns
    PROVE  ShellTypes' /\ SessionOK'
<1>1. ShellTypes /\ PTypeOK /\ Shell \in Procs /\ STDIN \in Fds
  BY Known DEF SInv, TInv, PInv
<1>2. CASE at = "read" /\ Getchar(Shell)
  BY <1>1, <1>2, GetcharKeeps
<1>3. CASE Opens
  <2>1. /\ at = "open" /\ Open(Shell) /\ fd' = Lowest(UnusedPipes)
        /\ at' = (IF used'[fd'] THEN "right" ELSE "read") /\ UNCHANGED <<job, pos, line>>
    BY <1>3 DEF Opens
  <2>2. PICK f \in Fds : /\ f # STDIN /\ ~used[f] /\ f = Lowest(UnusedPipes)
                         /\ used' = [used EXCEPT ![f] = TRUE] \/ used' = used
    BY <1>1, <2>1, OpenIs
  <2>3. call'[Shell] = NoCall
    BY <2>1 DEF Open, Outside
  <2>4. fd' = f
    BY <2>1, <2>2
  <2>5. ShellTypes'
    BY <1>1, <2>1, <2>4 DEF ShellTypes
  <2>6. line \in Lines /\ line.right # "none" /\ ~Piping
    BY <2>1 DEF SessionOK, Piping
  <2>7. used \in [Fds -> BOOLEAN] /\ used[STDIN] /\ \A g \in Fds : used[g] => g = STDIN
    BY <1>1, <2>6 DEF PTypeOK, SessionOK
  <2>8. job'[Shell].prog = "none"
    BY <2>1 DEF SessionOK
  <2>9. CASE used' = used
    <3>1. at' = "read"
      BY <2>1, <2>2, <2>4, <2>9
    <3>2. QED BY <2>3, <2>5, <2>7, <2>8, <2>9, <3>1 DEF SessionOK, Piping
  <2>10. CASE used' = [used EXCEPT ![f] = TRUE]
    <3>1. used'[f] /\ used'[STDIN] /\ \A g \in Fds : used'[g] => g = STDIN \/ g = f
      BY <2>2, <2>7, <2>10
    <3>2. at' = "right"
      BY <2>1, <2>4, <3>1
    <3>3. QED BY <2>1, <2>2, <2>3, <2>4, <2>5, <2>6, <2>8, <3>1, <3>2 DEF SessionOK, Piping
  <2>11. QED BY <2>2, <2>9, <2>10
<1>4. CASE Right
  <2>1. /\ at = "right" /\ Launches(line.right, fd, Screen, FALSE) /\ at' = "left"
        /\ UNCHANGED <<pos, line, fd>>
    BY <1>4 DEF Right
  <2>2. line \in Lines /\ line.right # "none" /\ line.right \in Programs /\ fd \in Fds
    BY <1>1, <2>1 DEF SessionOK, Lines, ShellTypes
  <2>3. /\ job' \in [Procs -> Jobs] /\ job'[Shell] = job[Shell]
        /\ used' = used /\ call'[Shell] = NoCall
    BY <2>1, <2>2, LaunchesKeeps
  <2>4. ShellTypes'
    BY <1>1, <2>1, <2>3 DEF ShellTypes
  <2>5. Piping /\ Piping'
    BY <2>1, <2>2 DEF Piping
  <2>6. SessionOK'
    BY <2>1, <2>2, <2>3, <2>5 DEF SessionOK
  <2>7. QED BY <2>4, <2>6
<1>5. CASE Left
  <2>1. /\ at = "left" /\ at' = AfterLeft /\ line' = NoLine /\ UNCHANGED <<pos, fd>>
        /\ Launches(line.left, STDIN, IF line.right = "none" THEN Screen ELSE fd, line.waits)
    BY <1>5 DEF Left
  <2>2. line \in Lines /\ line.left \in Programs /\ fd \in Fds
    BY <1>1, <2>1 DEF SessionOK, Lines, ShellTypes
  <2>3. PICK out \in Fds \cup {Screen} : out = IF line.right = "none" THEN Screen ELSE fd
    BY <2>2
  <2>4. /\ job' \in [Procs -> Jobs] /\ job'[Shell] = job[Shell]
        /\ used' = used /\ call'[Shell] = NoCall
    BY <1>1, <2>1, <2>2, <2>3, LaunchesKeeps
  <2>5. at' = IF line.right = "none" THEN "read" ELSE "close"
    BY <2>1 DEF AfterLeft
  <2>6. ShellTypes'
    BY <1>1, <2>1, <2>4, <2>5 DEF ShellTypes
  <2>7. Piping' <=> Piping
    BY <2>1, <2>5 DEF Piping
  <2>8. at' \notin {"open", "right", "left"}
    BY <2>5
  <2>9. SessionOK'
    BY <2>1, <2>4, <2>7, <2>8 DEF SessionOK
  <2>10. QED BY <2>6, <2>9
<1>6. CASE Closes
  <2>1. /\ at = "close" /\ Close(Shell, fd) /\ at' = "read" /\ fd' = STDIN
        /\ UNCHANGED <<job, pos, line>>
    BY <1>6 DEF Closes
  <2>2. /\ used' = [used EXCEPT ![fd] = FALSE] /\ fd # STDIN /\ call'[Shell] = NoCall
    BY <2>1 DEF Close, Outside
  <2>3. ShellTypes'
    BY <1>1, <2>1 DEF ShellTypes
  <2>4. used \in [Fds -> BOOLEAN] /\ fd \in Fds
    BY <1>1 DEF PTypeOK, ShellTypes
  <2>5. used'[STDIN] /\ \A f \in Fds : used'[f] => f = STDIN
    BY <2>2, <2>4 DEF SessionOK
  <2>6. ~Piping'
    BY <2>1 DEF Piping
  <2>7. SessionOK'
    BY <2>1, <2>2, <2>5, <2>6 DEF SessionOK
  <2>8. QED BY <2>3, <2>7
<1>7. QED BY <1>2, <1>3, <1>4, <1>5, <1>6 DEF ShellRuns

-----------------------------------------------------------------------------
LEMMA SInvInductive == ShellSpec => []SInv
<1>1. SInit => SInv
  <2> SUFFICES ASSUME SInit PROVE SInv
    OBVIOUS
  <2>1. TInv
    BY PInvInit DEF SInit, Init, KInit, TInv, ModifiersOK
  <2>2. ShellTypes
    <3>1. NoJob \in Jobs /\ STDIN \in Fds /\ 0 \in 0 .. MaxLine - 2
      BY Known, ShellKnown DEF NoJob, Jobs
    <3>2. QED BY <3>1 DEF SInit, ShellTypes
  <2>3. SessionOK
    <3>1. /\ used = [f \in Fds |-> f = STDIN] /\ call[Shell] = NoCall /\ at = "read"
          /\ job[Shell] = NoJob /\ STDIN \in Fds
      BY Known DEF SInit, Init, PInit
    <3>2. ~Piping
      BY <3>1 DEF Piping
    <3>3. job[Shell].prog = "none"
      BY <3>1 DEF NoJob
    <3>4. used[STDIN] /\ \A f \in Fds : used[f] => f = STDIN
      BY <3>1
    <3>5. QED BY <3>1, <3>2, <3>3, <3>4 DEF SessionOK
  <2>4. QED BY <2>1, <2>2, <2>3 DEF SInv
<1>2. SInv /\ [SNext]_<<vars, svars>> => SInv'
  <2> SUFFICES ASSUME SInv, [SNext]_<<vars, svars>> PROVE SInv'
    OBVIOUS
  <2>0. TInv /\ PInv /\ ModifiersOK /\ ShellTypes /\ (scene.lines # {} => SessionOK)
    BY DEF SInv, TInv
  <2>1. CASE scene.lines = {} /\ Next /\ UNCHANGED svars
    <3>1. TInv'
      <4>1. PInv' /\ scene' = scene
        BY <2>0, <2>1, NextSteps, PInvStep DEF TInv, Next
      <4>2. ModifiersOK'
        BY <2>0, <2>1, KeyModifiers DEF Next, ModifiersOK, modifiers
      <4>3. QED BY <2>0, <4>1, <4>2 DEF TInv
    <3>2. scene' = scene /\ UNCHANGED <<job, at, pos, line, fd>>
      BY <2>1 DEF Next, svars
    <3>3. ShellTypes'
      BY <2>0, <3>2 DEF ShellTypes
    <3>4. QED BY <2>1, <3>1, <3>2, <3>3 DEF SInv
  <2>2. CASE scene.lines # {} /\ Session /\ UNCHANGED scene
    <3>1. SessionOK
      BY <2>0, <2>2
    <3>2. PInv'
      <4>1. SNext
        BY <2>2 DEF SNext
      <4>2. QED BY <2>0, <4>1, SNextSteps, PInvStep
    <3>3. ModifiersOK'
      <4>1. CASE UNCHANGED modifiers
        BY <2>0, <4>1 DEF ModifiersOK, modifiers
      <4>2. ASSUME NEW key \in Codes, NEW release \in BOOLEAN, Key(key, release) PROVE ModifiersOK'
        BY <2>0, <4>2, KeyModifiers
      <4>3. QED BY <2>2, <4>1, <4>2 DEF Session
    <3>4. ShellTypes' /\ SessionOK'
      <4>1. CASE ShellRuns
        BY <3>1, <4>1, ShellRunsKeeps
      <4>2. ASSUME NEW p \in Procs, Inside(p) \/ Runs(p) PROVE ShellTypes' /\ SessionOK'
        BY <3>1, <4>2, InsideKeeps, RunsKeeps
      <4>3. ASSUME NEW key, NEW release, Key(key, release), UNCHANGED svars
            PROVE  ShellTypes' /\ SessionOK'
        BY <3>1, <4>3, KeyKeeps
      <4>4. CASE Tick /\ UNCHANGED svars
        BY <3>1, <4>4, TickKeeps
      <4>5. QED BY <2>2, <4>1, <4>2, <4>3, <4>4 DEF Session
    <3>5. QED BY <2>0, <2>2, <3>2, <3>3, <3>4 DEF SInv, TInv
  <2>3. CASE UNCHANGED <<vars, svars>>
    <3>1. UNCHANGED <<pvars, used, call, capslock, shift, ctrl, alt, scene, job, at, pos, line, fd>>
      BY <2>3 DEF vars, svars, modifiers, pvars, pipes
    <3>2. PInv'
      BY <2>0, <3>1, PInvStep
    <3>3. TInv'
      BY <2>0, <3>1, <3>2 DEF TInv, ModifiersOK
    <3>4. ShellTypes'
      BY <2>0, <3>1 DEF ShellTypes
    <3>5. SessionOK => SessionOK'
      BY <3>1, SessionKept
    <3>6. QED BY <2>0, <3>1, <3>3, <3>4, <3>5 DEF SInv
  <2>4. QED BY <2>1, <2>2, <2>3 DEF SNext
<1>3. QED BY <1>1, <1>2, PTL DEF ShellSpec

(* The types of the shell, of its programs and of the terminal under them. *)
THEOREM ShellTypesCorrect == ShellSpec => []STypeOK
<1>1. SInv => STypeOK
  BY DEF SInv, TInv, PInv, ModifiersOK, ShellTypes, Jobs, STypeOK, TypeOK
<1>2. QED BY <1>1, SInvInductive, PTL

(* The prompt comes back with no pipe left open and nobody in front who has ended;
   and with the shell in front until a creation of a process that was to have the
   foreground has failed. *)
THEOREM PromptComesBack == ShellSpec => []PromptIsClean
<1>1. SInv => PromptIsClean
  <2> SUFFICES ASSUME SInv, scene.lines # {}
               PROVE  /\ at = "read" => Open0 = {STDIN}
                      /\ front # Shell => state[front] \in {"READY", "BLOCKED", "STILLBORN"}
                      /\ smooth => front = IF awaited = Nobody THEN Shell ELSE awaited
    BY DEF PromptIsClean
  <2>1. FrontOK /\ SessionOK
    BY DEF SInv, TInv, PInv
  <2>2. at = "read" => Open0 = {STDIN}
    BY <2>1, Known DEF SessionOK, Piping, Open0
  <2>3. QED BY <2>1, <2>2 DEF FrontOK, Alive
<1>2. QED BY <1>1, SInvInductive, PTL

(* What the pipes promise of their semaphores and of who is blocked in them, with
   the exceptions of Terminal (calm, steady). *)
THEOREM PipesOfTheShell ==
    ShellSpec => []UnitsCountBytes /\ []SemaphoresHaveOwners /\ []NobodyIsDeaf /\ []NobodyIsStranded
<1>1. SInv => UnitsCountBytes /\ SemaphoresHaveOwners /\ NobodyIsDeaf /\ NobodyIsStranded
  BY UnitsInv, OwnersInv, DeafInv, StrandedInv DEF SInv, TInv, PInv
<1>2. QED BY <1>1, SInvInductive, PTL

(* Under the shell too a pipe is a bounded queue of bytes, but for what a process
   writes to standard input and what a read gets that a close cut off. *)
THEOREM ShellDelivers == ShellSpec => Delivers
<1>1. SInv /\ [SNext]_<<vars, svars>> =>
        [calm' /\ Touched => Channel!Next \/ WritesInput \/ ReadsMadeUp]_<<Open0, content, moved, reading>>
  <2>1. UNCHANGED <<vars, svars>> => UNCHANGED pvars
    BY DEF vars
  <2>2. QED BY <2>1, SNextSteps, DeliversStep DEF SInv, TInv
<1>2. QED BY <1>1, SInvInductive, PTL DEF ShellSpec, Delivers
=============================================================================
