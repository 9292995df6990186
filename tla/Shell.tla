-------------------------------- MODULE Shell --------------------------------
(***************************************************************************)
(* The shell (Userland: shell.c, process-handler.c) and the programs of    *)
(* its pipelines (shell-programs.c), over the terminal.  A line is the     *)
(* number of its characters; what it means is any of the scene's lines,    *)
(* or no command.  Where a scene has no lines the processes do what they   *)
(* like (Terminal).                                                        *)
(***************************************************************************)
EXTENDS Terminal

CONSTANTS
    MaxLine,        \* MAX_CMD_LENGTH
    TextOf          \* TextOf[g]: what program g writes, a byte at a time

Newline   == "newline"
Backspace == "backspace"
Screen    == 1      \* STDOUT when it is not redirected
Programs  == DOMAIN TextOf
NoJob     == [prog |-> "none", in |-> STDIN, out |-> Screen, todo |-> <<>>]
NoLine    == [left |-> "none", right |-> "none", waits |-> TRUE]
Lines     == [left : Programs, right : Programs \cup {"none"}, waits : BOOLEAN]

ASSUME ShellOK ==
    /\ MaxLine \in Nat /\ MaxLine >= 2
    /\ {Interrupt, Eof, Newline} \subseteq Bytes
    /\ \A g \in Programs : TextOf[g] \in Seq(Bytes)
    /\ \A s \in Scenes : s.lines \subseteq Lines

VARIABLES
    job,        \* job[p]: the program of p, its two descriptors, what it has yet to write
    at,         \* where the shell is: "read" in read_line, else in execute_pipe
    pos, line,  \* the characters of the line, and the command that is being run
    fd          \* pipe_fd

svars == <<job, at, pos, line, fd>>

SInit ==
    /\ Init
    /\ job = [p \in Procs |-> NoJob]
    /\ at = "read" /\ pos = 0 /\ line = NoLine /\ fd = STDIN

-----------------------------------------------------------------------------
(* read_line ends with n characters: there is no command, or there is one. *)
LineIs(n) ==
    /\ pos' = 0
    /\ \/ UNCHANGED <<at, line>>
       \/ n > 0 /\ \E l \in scene.lines :
            line' = l /\ at' = IF l.right = "none" THEN "left" ELSE "open"

(* read_line, the next character. *)
Printable(b) == b \notin {Newline, Backspace, Interrupt, Eof, Nul}
LengthWith(b) == CASE b = Backspace   -> IF pos > 0 THEN pos - 1 ELSE 0
                   [] Printable(b)    -> pos + 1
                   [] OTHER           -> pos
Cancels(b) == b = Interrupt \/ (b = Eof /\ pos = 0)
ReadsLine(b) ==
    \/ Cancels(b) /\ LineIs(0)
    \/ b = Newline /\ LineIs(pos)
    \/ /\ b # Newline /\ ~Cancels(b)
       /\ IF LengthWith(b) < MaxLine - 1
          THEN pos' = LengthWith(b) /\ UNCHANGED <<at, line>>
          ELSE LineIs(LengthWith(b))

(* getc has got b.  The programs that read copy until CHAR_EOF. *)
Gets(p, b) ==
    IF p = Shell
    THEN ReadsLine(b) /\ UNCHANGED <<job, fd>>
    ELSE job' = [job EXCEPT ![p] = IF b = Eof THEN [@ EXCEPT !.prog = "end"] ELSE @]
         /\ UNCHANGED <<at, pos, line, fd>>

(* get_current_fds: where a descriptor of p leads. *)
Redirected(p, f) == IF f = STDIN THEN job[p].in ELSE job[p].out

(* getchar of p.  It takes the -1 of sys_read for a success, and its character
   is then whatever was there. *)
NotReadable(p, f) == ~used[f] \/ (f = STDIN /\ ~IsForeground(p))
Getchar(p) ==
    LET f == Redirected(p, STDIN) IN
    \/ Read(p, f, 1) /\ UNCHANGED svars
    \/ /\ Outside(p) /\ NotReadable(p, f) /\ UNCHANGED pvars
       /\ \E b \in Bytes : Gets(p, b)
Inside(p) ==
    \/ (Blocks(p) \/ Gives(p)) /\ UNCHANGED svars
    \/ /\ Takes(p) \/ GivesUp(p)
       /\ IF call'[p] = NoCall
          THEN \E b \in Bytes : (Refused(p) \/ b = moved'.byte) /\ Gets(p, b)
          ELSE UNCHANGED svars

(* putchar of the next byte that p has to write; what goes to the screen, or to
   a pipe that is closed, leaves nothing behind. *)
Putchar(p) ==
    /\ job[p].todo # <<>>
    /\ LET f == Redirected(p, Screen) IN
       IF f # Screen /\ used[f]
       THEN Write(p, f, <<Head(job[p].todo)>>)
       ELSE Outside(p) /\ UNCHANGED pvars
    /\ job' = [job EXCEPT ![p].todo =
                 IF job[p].prog = "loop" /\ Len(@) = 1 THEN TextOf["loop"] ELSE Tail(@)]
    /\ UNCHANGED <<at, pos, line, fd>>

(* The programs: echo writes and ends, loop writes for ever, the others read. *)
Echo(p) == Putchar(p) \/ (job[p].todo = <<>> /\ Exit(p) /\ UNCHANGED svars)
Loop(p) == Putchar(p)
Cat(p)  == Getchar(p)
Runs(p) == \/ job[p].prog = "echo" /\ Echo(p)
           \/ job[p].prog = "loop" /\ Loop(p)
           \/ job[p].prog = "cat" /\ Cat(p)
           \/ job[p].prog = "end" /\ Exit(p) /\ UNCHANGED svars

-----------------------------------------------------------------------------
(* process_handler: the shell creates the process, and waits for it unless the
   line ended with '&'; when the table is full nothing happens, and a creation
   can fail later (Start). *)
Launches(g, in, out, waits) ==
    \/ \E q \in scene.procs :
        /\ Start(q, waits)
        /\ job' = [job EXCEPT ![q] = [prog |-> g, in |-> in, out |-> out, todo |-> TextOf[g]]]
    \/ /\ \A q \in scene.procs : state[q] # "NEW"
       /\ Outside(Shell) /\ UNCHANGED <<pvars, job>>

(* execute_pipe: the right program is started first, in the background, since
   parse_simple_pipe appends an '&'; the pipe is closed when the left is done. *)
Opens ==
    /\ at = "open" /\ Open(Shell)
    /\ fd' = Lowest(UnusedPipes)
    /\ at' = IF used'[fd'] THEN "right" ELSE "read"
    /\ UNCHANGED <<job, pos, line>>
Right ==
    /\ at = "right" /\ Launches(line.right, fd, Screen, FALSE)
    /\ at' = "left"
    /\ UNCHANGED <<pos, line, fd>>
ForgetsPipe == IF line.right = "none" \/ ~line.waits THEN "read" ELSE "close"   \* mutant: closes only after a wait
AfterLeft == IF line.right = "none" THEN "read" ELSE "close"
Left ==
    /\ at = "left"
    /\ Launches(line.left, STDIN, IF line.right = "none" THEN Screen ELSE fd, line.waits)
    /\ at' = AfterLeft /\ line' = NoLine
    /\ UNCHANGED <<pos, fd>>
Closes ==
    /\ at = "close" /\ Close(Shell, fd)
    /\ at' = "read" /\ fd' = STDIN
    /\ UNCHANGED <<job, pos, line>>

ShellRuns == (at = "read" /\ Getchar(Shell)) \/ Opens \/ Right \/ Left \/ Closes

Session ==
    \/ ShellRuns /\ UNCHANGED modifiers
    \/ Tick /\ UNCHANGED <<svars, modifiers>>
    \/ \E p \in Procs : (Inside(p) \/ Runs(p)) /\ UNCHANGED modifiers
    \/ \E key \in Codes, release \in BOOLEAN : Key(key, release) /\ UNCHANGED svars

SNext ==
    \/ scene.lines = {} /\ Next /\ UNCHANGED svars
    \/ scene.lines # {} /\ Session /\ UNCHANGED scene

ShellSpec == SInit /\ [][SNext]_<<vars, svars>>

-----------------------------------------------------------------------------
STypeOK ==
    /\ TypeOK
    /\ job \in [Procs -> [prog : Programs \cup {"none", "end"}, in : Fds, out : Fds \cup {Screen}, todo : Seq(Bytes)]]
    /\ at \in {"read", "open", "right", "left", "close"}
    /\ pos \in 0 .. MaxLine - 2
    /\ line \in Lines \cup {NoLine} /\ fd \in Fds

(* Whatever becomes of the programs of a line, the prompt comes back clean: no
   pipe is left open, or they would run out; whoever has the foreground has not
   ended, so that Ctrl+C gives it back to the shell; and the shell has it
   whenever it waits for nobody, or it would be deaf, and who it waits for has it
   otherwise (execute_pipe, create_process, kill_process).  The last is so until
   a program that was to have the foreground could not be created or waited for:
   then the prompt is back and the foreground is not (smooth). *)
PromptIsClean ==
    scene.lines # {} =>
        /\ at = "read" => Open0 = {STDIN}
        /\ front # Shell => state[front] \in {"READY", "BLOCKED", "STILLBORN"}
        /\ smooth => front = IF awaited = Nobody THEN Shell ELSE awaited
=============================================================================
