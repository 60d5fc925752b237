--------------------------- MODULE ConnectionLease --------------------------
(***************************************************************************)
(* What the connection manager promises its callers, without locks, lists  *)
(* or wake-ups: a connection is opened for a thread or lent to it by the   *)
(* pool, belongs to that thread alone, and is then returned or dropped.    *)
(* The pool only takes back a connection that is fit, that is open and     *)
(* without uncommitted work of a borrower that failed, and lends nothing   *)
(* else.  What a borrower that did not fail leaves on it is not promised.  *)
(* At shutdown the pool's connections go, and a borrowed one may become    *)
(* unfit under its borrower.                                               *)
(***************************************************************************)
CONSTANTS Thread, Conn, Pool, Gone

VARIABLES
  owner,  \* owner[c]: the borrower of c, Pool or Gone
  fit     \* fit[c]: c is open, without work of a borrower that failed

vars == <<owner, fit>>

Idle(t) == \A c \in Conn : owner[c] # t

Init ==
  /\ owner = [c \in Conn |-> Gone]
  /\ fit = [c \in Conn |-> FALSE]

Open(c, t) ==
  /\ owner[c] = Gone /\ Idle(t)
  /\ owner' = [owner EXCEPT ![c] = t]
  /\ fit' = [fit EXCEPT ![c] = TRUE]

Lend(c, t) ==
  /\ owner[c] = Pool /\ Idle(t)
  /\ owner' = [owner EXCEPT ![c] = t]
  /\ UNCHANGED fit

(* The borrower may fail on the connection, or roll back *)
Use(c) ==
  /\ owner[c] \in Thread
  /\ \E b \in BOOLEAN : fit' = [fit EXCEPT ![c] = b]
  /\ UNCHANGED owner

Return(c) ==
  /\ owner[c] \in Thread /\ fit[c]
  /\ owner' = [owner EXCEPT ![c] = Pool]
  /\ UNCHANGED fit

Drop(c) ==
  /\ owner[c] \in Thread
  /\ owner' = [owner EXCEPT ![c] = Gone]
  /\ fit' = [fit EXCEPT ![c] = FALSE]

Shutdown ==
  /\ owner' = [c \in Conn |-> IF owner[c] = Pool THEN Gone ELSE owner[c]]
  /\ \E S \in SUBSET {c \in Conn : owner[c] \in Thread} :
       fit' = [c \in Conn |-> fit[c] /\ owner[c] # Pool /\ c \notin S]

Next ==
  \/ \E c \in Conn : \/ \E t \in Thread : Open(c, t) \/ Lend(c, t)
                     \/ Use(c) \/ Return(c) \/ Drop(c)
  \/ Shutdown

Spec == Init /\ [][Next]_vars
=============================================================================
