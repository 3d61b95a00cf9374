------------------------------ MODULE EventLog ------------------------------
(***************************************************************************)
(* What the store, the sessions and the lobby promise together: one log    *)
(* per game that only grows, by whole batches of events with the next      *)
(* numbers and one cause, and answers that only confirm what is logged.    *)
(***************************************************************************)
EXTENDS Integers

CONSTANT Causes  \* command ids, and the cause of events without a command

VARIABLES
  log,        \* events: a number, the command and the writer
  confirmed   \* commands somebody has been told have succeeded

Numbers == {row.seq : row \in log}

\* The batch of a writer takes the numbers right after the latest one.
Append(c) ==
  /\ log # log'
  /\ log \subseteq log'
  /\ \E row \in log' \ log :
       \A other \in log' \ log : other.cmd = c /\ other.by = row.by
  /\ \A x, y \in log' : x.seq = y.seq => x = y
  /\ \A x \in log' \ log :
       /\ \A n \in Numbers : n < x.seq
       /\ x.seq - 1 \in {row.seq : row \in log'}
  /\ UNCHANGED confirmed

Confirm(c) ==
  /\ \E row \in log : row.cmd = c
  /\ confirmed' = confirmed \cup {c}
  /\ UNCHANGED log

Init ==
  /\ Numbers = {1}
  /\ confirmed = {}

Next == \E c \in Causes : Append(c) \/ Confirm(c)

Spec == Init /\ [][Next]_<<log, confirmed>>

=============================================================================
