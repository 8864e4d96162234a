----------------------------- MODULE DurableLog -----------------------------
(***************************************************************************)
(* What AOF persistence promises: the file is an append-only log in which  *)
(* the write commands of each worker appear in the order the worker        *)
(* executed them, none twice and none skipped, and when persistence has    *)
(* been shut down every accepted command is in it.                         *)
(***************************************************************************)
EXTENDS Naturals, Sequences

CONSTANT Worker

VARIABLES
  accepted,  \* accepted[w]: how many write commands worker w has handed over
  log,       \* the file: records [worker, n] for the n-th command of a worker
  open       \* persistence has not been shut down

InLog(l, w, n) == \E i \in 1..Len(l) : l[i].worker = w /\ l[i].n = n

\* The commands of each worker are in order, with none missing in between.
InOrder(l) ==
  \A i \in 1..Len(l) :
    /\ l[i].n = 1 \/ \E j \in 1..(i - 1) : l[j] = [l[i] EXCEPT !.n = @ - 1]
    /\ \A j \in 1..(i - 1) : l[j].worker = l[i].worker => l[j].n < l[i].n

Init ==
  /\ accepted = [w \in Worker |-> 0]
  /\ log = <<>>
  /\ open = TRUE

Accept(w) ==
  /\ open
  /\ accepted' = [accepted EXCEPT ![w] = @ + 1]
  /\ UNCHANGED <<log, open>>

\* Some accepted commands reach the file together.
Persist ==
  /\ open
  /\ Len(log') > Len(log) /\ SubSeq(log', 1, Len(log)) = log
  /\ InOrder(log')
  /\ \A i \in 1..Len(log') : log'[i].n \in 1..accepted[log'[i].worker]
  /\ UNCHANGED <<accepted, open>>

Close ==
  /\ open /\ open' = FALSE
  /\ \A w \in Worker : \A n \in 1..accepted[w] : InLog(log, w, n)
  /\ UNCHANGED <<accepted, log>>

Next == (\E w \in Worker : Accept(w)) \/ Persist \/ Close

Spec == Init /\ [][Next]_<<accepted, log, open>>
=============================================================================
