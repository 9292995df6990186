---------------------------- MODULE MCProcesses ----------------------------
(* Small instances of Processes for TLC: the constants are in the cfg files. *)
EXTENDS Processes

(* What user programs can do without any semaphore: sleep, block, unblock. *)
PlainNext ==
    \/ Ticks
    \/ \E n \in Naps, start \in Priorities : Sleep(start, n)
    \/ \E s \in Slots : Block(s) \/ Unblock(s)
    \/ \E outcome \in Outcomes : Create(outcome)

PlainSpec == Init /\ [][PlainNext]_vars

(* As Next, but no program names the idle process (pid 0). *)
LiveNext ==
    \/ Ticks \/ Switches \/ Halted
    \/ \E s \in Slots \ {Idle} :
          Block(s) \/ Unblock(s) \/ SemPost(s) \/ \E l \in Priorities : SetPriority(s, l)
    \/ \E outcome \in Outcomes : Create(outcome)
    \/ \E s, w \in Slots : CtrlC(s, w)

LiveSpec ==
    Init /\ [][LiveNext]_vars /\ \A start \in Priorities : WF_vars(Tick(start))
=============================================================================
