----------------------------- MODULE HistoryLog -----------------------------
(***************************************************************************)
(* What the history subsystem promises (src/src/native/history-writer.h):  *)
(* the entries of several shells reach one file whole, those of each shell *)
(* in the order they were entered and none twice; an entry may be lost,    *)
(* but never after it has reached the file.                                *)
(*                                                                         *)
(* The entries of a shell are numbered in the order they are entered.      *)
(***************************************************************************)
EXTENDS Integers, Sequences

CONSTANT Shell

VARIABLES
    log,        \* the entries in the file
    submitted,  \* per shell: how many entries were entered
    outbox      \* per shell: the entries on their way to the file

logVars == <<log, submitted, outbox>>

Entry == [shell : Shell, seq : Nat \ {0}]

LogInit ==
    /\ log = <<>>
    /\ submitted = [s \in Shell |-> 0]
    /\ outbox = [s \in Shell |-> {}]

\* An entry is entered.  It may be lost on the spot, and others with it.
Submit(s) ==
    /\ submitted' = [submitted EXCEPT ![s] = @ + 1]
    /\ \E kept \in SUBSET (outbox[s] \cup {submitted'[s]}) :
         outbox' = [outbox EXCEPT ![s] = kept]
    /\ UNCHANGED log

\* The oldest entry of a shell reaches the file.
Persist(s) ==
    \E n \in outbox[s] :
        /\ \A m \in outbox[s] : n <= m
        /\ log' = Append(log, [shell |-> s, seq |-> n])
        /\ outbox' = [outbox EXCEPT ![s] = @ \ {n}]
        /\ UNCHANGED submitted

Lose(s) ==
    /\ \E kept \in SUBSET outbox[s] : outbox' = [outbox EXCEPT ![s] = kept]
    /\ UNCHANGED <<log, submitted>>

LogNext == \E s \in Shell : Submit(s) \/ Persist(s) \/ Lose(s)

LogSpec == LogInit /\ [][LogNext]_logVars

LogTypeOK ==
    /\ log \in Seq(Entry)
    /\ submitted \in [Shell -> Nat]
    /\ outbox \in [Shell -> SUBSET (Nat \ {0})]

\* In the file, the entries of each shell are in the order it entered them,
\* and none is there twice.
LogInOrder ==
    \A i, j \in 1..Len(log) :
        i < j /\ log[i].shell = log[j].shell => log[i].seq < log[j].seq
=============================================================================
