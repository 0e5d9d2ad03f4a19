-------------------------- MODULE HistoryLogProofs --------------------------
(* What every implementation of HistoryLog inherits from it. *)
EXTENDS HistoryLog, TLAPS

\* What is on its way was entered, and came after whatever the same shell
\* has in the file.
OutboxIsLater ==
    /\ \A s \in Shell : \A n \in outbox[s] : n <= submitted[s]
    /\ \A i \in 1..Len(log) :
         /\ log[i].seq <= submitted[log[i].shell]
         /\ \A n \in outbox[log[i].shell] : log[i].seq < n

LogInv == LogTypeOK /\ OutboxIsLater /\ LogInOrder

LEMMA EntryFields ==
    ASSUME LogTypeOK, NEW i \in 1..Len(log)
    PROVE  log[i].shell \in Shell /\ log[i].seq \in Nat
  <1>1. log[i] \in Entry
    BY DEF LogTypeOK
  <1> QED BY <1>1 DEF Entry

LEMMA SubmitKeepsInv ==
    ASSUME LogInv, NEW s \in Shell, Submit(s) PROVE LogInv'
  <1>1. PICK kept \in SUBSET (outbox[s] \cup {submitted'[s]}) :
          outbox' = [outbox EXCEPT ![s] = kept]
    BY DEF Submit
  <1>2. submitted' = [submitted EXCEPT ![s] = @ + 1] /\ log' = log
    BY DEF Submit
  <1>3. submitted[s] \in Nat /\ submitted'[s] = submitted[s] + 1
    BY <1>2 DEF LogInv, LogTypeOK
  <1>4. LogTypeOK'
    <2>1. submitted' \in [Shell -> Nat]
      BY <1>2, <1>3 DEF LogInv, LogTypeOK
    <2>2. kept \in SUBSET (Nat \ {0})
      BY <1>3 DEF LogInv, LogTypeOK
    <2> QED BY <1>1, <1>2, <2>1, <2>2 DEF LogInv, LogTypeOK
  <1>5. ASSUME NEW t \in Shell, NEW n \in outbox'[t]
        PROVE  n \in outbox[t] \/ (t = s /\ n = submitted[s] + 1)
    BY <1>1, <1>3, <1>5 DEF LogInv, LogTypeOK
  <1>6. \A t \in Shell : submitted[t] \in Nat /\ submitted'[t] \in Nat
                         /\ submitted[t] <= submitted'[t]
    BY <1>2 DEF LogInv, LogTypeOK
  <1>7. \A i \in 1..Len(log) : log[i].shell \in Shell /\ log[i].seq \in Nat
    BY EntryFields DEF LogInv
  <1>8. \A t \in Shell : \A n \in outbox[t] : n \in Nat /\ n <= submitted[t]
    BY DEF LogInv, LogTypeOK, OutboxIsLater
  <1>9. OutboxIsLater'
    <2>1. ASSUME NEW t \in Shell, NEW n \in outbox'[t] PROVE n <= submitted'[t]
      BY <1>3, <1>5, <1>6, <1>8
    <2>2. ASSUME NEW i \in 1..Len(log) PROVE log[i].seq <= submitted'[log[i].shell]
      BY <1>6, <1>7 DEF LogInv, OutboxIsLater
    <2>3. ASSUME NEW i \in 1..Len(log), NEW n \in outbox'[log[i].shell]
          PROVE  log[i].seq < n
      <3>1. log[i].shell \in Shell /\ log[i].seq \in Nat
        BY <1>7
      <3>2. CASE n \in outbox[log[i].shell]
        BY <3>2 DEF LogInv, OutboxIsLater
      <3>3. CASE log[i].shell = s /\ n = submitted[s] + 1
        BY <3>1, <3>3, <1>3 DEF LogInv, OutboxIsLater
      <3> QED BY <1>5, <3>1, <3>2, <3>3
    <2> QED BY <1>2, <2>1, <2>2, <2>3 DEF OutboxIsLater
  <1>10. LogInOrder'
    BY <1>2 DEF LogInv, LogInOrder
  <1> QED BY <1>4, <1>9, <1>10 DEF LogInv

LEMMA PersistKeepsInv ==
    ASSUME LogInv, NEW s \in Shell, Persist(s) PROVE LogInv'
  <1>1. PICK n \in outbox[s] :
          /\ \A m \in outbox[s] : n <= m
          /\ log' = Append(log, [shell |-> s, seq |-> n])
          /\ outbox' = [outbox EXCEPT ![s] = @ \ {n}]
          /\ submitted' = submitted
    BY DEF Persist
  <1> DEFINE last == Len(log) + 1
  <1>2. n \in Nat \ {0} /\ n <= submitted[s] /\ log \in Seq(Entry)
    BY DEF LogInv, LogTypeOK, OutboxIsLater
  <1>3. [shell |-> s, seq |-> n] \in Entry
    BY <1>2 DEF Entry
  <1>4. /\ Len(log) \in Nat
        /\ Len(log') = last
        /\ log'[last] = [shell |-> s, seq |-> n]
        /\ \A i \in 1..Len(log) : log'[i] = log[i]
    BY <1>1, <1>2, <1>3
  <1>5. LogTypeOK'
    <2>1. log' \in Seq(Entry)
      BY <1>1, <1>2, <1>3
    <2> QED BY <1>1, <2>1 DEF LogInv, LogTypeOK
  <1>6. ASSUME NEW t \in Shell, NEW m \in outbox'[t]
        PROVE  m \in outbox[t] /\ m \in Nat /\ (t = s => n < m)
    <2>1. m \in outbox[t] /\ (t = s => m # n)
      BY <1>1 DEF LogInv, LogTypeOK
    <2>2. m \in Nat
      BY <2>1 DEF LogInv, LogTypeOK
    <2> QED BY <1>1, <1>2, <2>1, <2>2
  <1>7. \A i \in 1..Len(log) : log[i].shell \in Shell
    BY EntryFields DEF LogInv
  <1>8. OutboxIsLater'
    <2>1. ASSUME NEW i \in 1..Len(log')
          PROVE  /\ log'[i].seq <= submitted[log'[i].shell]
                 /\ \A m \in outbox'[log'[i].shell] : log'[i].seq < m
      <3>1. CASE i \in 1..Len(log)
        BY <3>1, <1>4, <1>6, <1>7 DEF LogInv, OutboxIsLater
      <3>2. CASE i = last
        BY <3>2, <1>2, <1>4, <1>6
      <3> QED BY <1>4, <3>1, <3>2
    <2>2. \A t \in Shell : \A m \in outbox'[t] : m <= submitted[t]
      BY <1>6 DEF LogInv, OutboxIsLater
    <2> QED BY <1>1, <2>1, <2>2 DEF OutboxIsLater
  <1>9. LogInOrder'
    <2> SUFFICES ASSUME NEW i \in 1..Len(log'), NEW j \in 1..Len(log'),
                        i < j, log'[i].shell = log'[j].shell
                 PROVE  log'[i].seq < log'[j].seq
      BY DEF LogInOrder
    <2>1. i \in 1..Len(log)
      BY <1>4
    <2>2. CASE j \in 1..Len(log)
      BY <2>1, <2>2, <1>4 DEF LogInv, LogInOrder
    <2>3. CASE j = last
      BY <2>1, <2>3, <1>4 DEF LogInv, OutboxIsLater
    <2> QED BY <1>4, <2>2, <2>3
  <1> QED BY <1>5, <1>8, <1>9 DEF LogInv

LEMMA LoseKeepsInv ==
    ASSUME LogInv, NEW s \in Shell, Lose(s) PROVE LogInv'
  <1>1. PICK kept \in SUBSET outbox[s] : outbox' = [outbox EXCEPT ![s] = kept]
    BY DEF Lose
  <1>2. submitted' = submitted /\ log' = log
    BY DEF Lose
  <1>3. \A t \in Shell : outbox'[t] \subseteq outbox[t]
    BY <1>1 DEF LogInv, LogTypeOK
  <1>4. LogTypeOK'
    BY <1>1, <1>2, <1>3 DEF LogInv, LogTypeOK
  <1>5. \A i \in 1..Len(log) : log[i].shell \in Shell
    BY EntryFields DEF LogInv
  <1>6. OutboxIsLater' /\ LogInOrder'
    BY <1>2, <1>3, <1>5 DEF LogInv, OutboxIsLater, LogInOrder
  <1> QED BY <1>4, <1>6 DEF LogInv

\* The invariant, for whoever implements HistoryLog.
LEMMA LogInvHolds ==
    /\ LogInit => LogInv
    /\ LogInv /\ [LogNext]_logVars => LogInv'
    /\ LogInv => LogInOrder
  <1>1. LogInit => LogInv
    BY DEF LogInit, LogInv, LogTypeOK, OutboxIsLater, LogInOrder, Entry
  <1>2. LogInv /\ [LogNext]_logVars => LogInv'
    <2> SUFFICES ASSUME LogInv, [LogNext]_logVars PROVE LogInv'
      OBVIOUS
    <2>1. CASE UNCHANGED logVars
      BY <2>1 DEF logVars, LogInv, LogTypeOK, OutboxIsLater, LogInOrder
    <2>2. CASE LogNext
      BY <2>2, SubmitKeepsInv, PersistKeepsInv, LoseKeepsInv DEF LogNext
    <2> QED BY <2>1, <2>2
  <1>3. LogInv => LogInOrder
    BY DEF LogInv
  <1> QED BY <1>1, <1>2, <1>3

\* In the history file the entries of each shell are in the order it entered
\* them, and none is there twice: what enqueue, the writer thread and its
\* losses promise for any number of shells.
THEOREM LogOrdered == LogSpec => []LogInOrder
  <1> QED BY LogInvHolds, PTL DEF LogSpec
=============================================================================
