--------------------------- MODULE SerialExecutor ---------------------------
(***************************************************************************)
(* What the command queue promises to its users while nobody clears it     *)
(* (doc/developer/main.tex:767: the commands "are added to a queue [...]   *)
(* and executed in order"): commands are accepted, run one at a time, in   *)
(* the order in which they were accepted, and each of them completes.      *)
(***************************************************************************)
EXTENDS Naturals, Sequences

CONSTANTS Commands,     \* the commands that may be submitted, each at most once
          NoCommand     \* no command is running; not one of Commands

VARIABLES waiting,      \* accepted and not started, oldest first
          current,      \* the command being executed, or NoCommand
          completed,    \* the commands that ran to their end
          disturbed     \* somebody has cancelled commands: nothing is promised any more

progress == <<waiting, current, completed>>
vars == <<progress, disturbed>>

Waiting == {waiting[i] : i \in DOMAIN waiting}

TypeOK == /\ waiting \in Seq(Commands)
          /\ current \in Commands \cup {NoCommand}
          /\ completed \subseteq Commands
          /\ disturbed \in BOOLEAN
-----------------------------------------------------------------------------
Init == /\ waiting = <<>>
        /\ current = NoCommand
        /\ completed = {}
        /\ disturbed = FALSE

Fresh(c) == c \notin Waiting \cup {current} \cup completed

\* An idle executor starts the command at once, a busy one lets it wait.
Submit(c) ==
    /\ Fresh(c)
    /\ \/ /\ current = NoCommand /\ waiting = <<>>
          /\ current' = c
          /\ UNCHANGED waiting
       \/ /\ current # NoCommand
          /\ waiting' = Append(waiting, c)
          /\ UNCHANGED current
    /\ UNCHANGED completed

\* The running command ends and the oldest waiting one, if any, takes over.
Complete ==
    /\ current # NoCommand
    /\ completed' = completed \cup {current}
    /\ \/ /\ waiting # <<>>
          /\ current' = Head(waiting)
          /\ waiting' = Tail(waiting)
       \/ /\ waiting = <<>>
          /\ current' = NoCommand
          /\ UNCHANGED waiting

\* Somebody interferes, and from then on anything may happen.
Disturb == disturbed'

Next ==
    \/ /\ ~disturbed /\ ~disturbed'
       /\ Complete \/ \E c \in Commands : Submit(c)
    \/ Disturb

Spec == Init /\ [][Next]_vars /\ WF_progress(~disturbed /\ Complete)
=============================================================================
