----------------------------- MODULE ByteChannel -----------------------------
(***************************************************************************)
(* What the pipes of the kernel promise (pipes.h): a channel is a bounded  *)
(* queue of bytes.  What is read is the oldest byte that was written and   *)
(* was not read yet; who finds none waits.  Processes write to every       *)
(* channel but the input, which only the keyboard does.                    *)
(***************************************************************************)
EXTENDS Integers, Sequences

CONSTANTS Procs, Channels, Input, Capacity, Bytes, NoChannel

VARIABLES
    open,       \* the channels that are open
    content,    \* content[c]: the bytes in channel c
    moved,      \* the last byte that was written or read, and by whom
    reading     \* reading[p]: the channel p is blocked in for a byte, or NoChannel

IsOpen(c) == c \in open
Leaves(p) == reading' = [reading EXCEPT ![p] = NoChannel]

Open(c) == /\ ~IsOpen(c) /\ content[c] = <<>>
           /\ open' = open \cup {c}
           /\ UNCHANGED <<content, moved, reading>>

Close(c) == /\ IsOpen(c)
            /\ open' = open \ {c}
            /\ content' = [content EXCEPT ![c] = <<>>]
            /\ UNCHANGED <<moved, reading>>

(* A byte is written, by a process or by the keyboard; the one that Ctrl+C types
   also ends a process. *)
Adds(c, b, who) == /\ IsOpen(c) /\ Len(content[c]) < Capacity
                   /\ content' = [content EXCEPT ![c] = Append(@, b)]
                   /\ moved' = [by |-> who, byte |-> b]
                   /\ UNCHANGED open
Put(c, b) == c # Input /\ Adds(c, b, "process") /\ UNCHANGED reading
Type(b) == Adds(Input, b, "keyboard") /\ (UNCHANGED reading \/ \E p \in Procs : Leaves(p))

(* p finds nothing and waits. *)
Ask(p, c) == /\ IsOpen(c) /\ content[c] = <<>>
             /\ reading' = [reading EXCEPT ![p] = c]
             /\ UNCHANGED <<open, content, moved>>

Get(p, c) == /\ reading[p] \in {NoChannel, c}
             /\ IsOpen(c) /\ content[c] # <<>>
             /\ moved' = [by |-> "process", byte |-> Head(content[c])]
             /\ content' = [content EXCEPT ![c] = Tail(@)]
             /\ Leaves(p)
             /\ UNCHANGED open

(* p ends. *)
Leave(p) == Leaves(p) /\ UNCHANGED <<open, content, moved>>

Next ==
    \/ \E c \in Channels : Open(c) \/ Close(c) \/ \E b \in Bytes : Put(c, b)
    \/ \E b \in Bytes : Type(b)
    \/ \E p \in Procs : Leave(p) \/ \E c \in Channels : Ask(p, c) \/ Get(p, c)
=============================================================================
