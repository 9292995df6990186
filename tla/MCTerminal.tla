----------------------------- MODULE MCTerminal -----------------------------
(* What a behaviour makes use of.  Without the shell's programs: all kinds of keys
   and a shell that reads what is typed; three processes around one pipe, with
   Ctrl+C; two around a pipe and standard input; two that run out of semaphores and
   write to standard input.  With them: a pipeline, with Ctrl+C; all the lines
   of the shell, with Ctrl+D and room for one program. *)
EXTENDS Shell, TLC

CONSTANTS sh, proc1, proc2, nobody

MCTexts == {<<"1", "!">>}
MCTextOf == [echo |-> <<"newline">>, loop |-> <<"1">>, cat |-> <<>>]
MCPipelines == {[left |-> l, right |-> "cat", waits |-> w] : l \in {"echo", "loop"}, w \in BOOLEAN}
MCLines == {[left |-> "cat", right |-> "none", waits |-> w] : w \in BOOLEAN}
MCAround ==
    {[procs |-> {proc1, proc2}, keys |-> {29, 46}, pipes |-> 1, in |-> {3}, out |-> {3}, lines |-> {}, fails |-> FALSE]}
MCScenes ==
    {[procs |-> {}, keys |-> {1, 2, 29, 32, 42, 46, 54, 56, 58, 59, 87}, pipes |-> 0, in |-> {0}, out |-> {}, lines |-> {}, fails |-> FALSE],
     [procs |-> {proc1}, keys |-> {29, 46}, pipes |-> 1, in |-> {0, 3}, out |-> {3}, lines |-> {}, fails |-> FALSE],
     [procs |-> {proc1}, keys |-> {}, pipes |-> 2, in |-> {0, 3, 4}, out |-> {0, 3, 4}, lines |-> {}, fails |-> TRUE],
     [procs |-> {proc1, proc2}, keys |-> {2, 29, 46}, pipes |-> 1, in |-> {}, out |-> {}, lines |-> {[left |-> "loop", right |-> "cat", waits |-> TRUE]}, fails |-> TRUE],
     [procs |-> {proc1}, keys |-> {2, 28, 29, 32}, pipes |-> 1, in |-> {}, out |-> {}, lines |-> MCPipelines \cup MCLines, fails |-> TRUE]}
    \cup MCAround
Perms == Permutations({proc1, proc2})
=============================================================================
