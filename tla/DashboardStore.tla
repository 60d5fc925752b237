--------------------------- MODULE DashboardStore ---------------------------
(***************************************************************************)
(* The in-memory store of generated dashboard pages                        *)
(* (src/tools/dashboard_page_store.py), the tool that fills it             *)
(* (sessions_dashboard) and the HTTP routes that show and refresh a page   *)
(* (src/diagnostics/routes.py).                                            *)
(*                                                                         *)
(* The tool runs on the event loop and the routes in worker threads.       *)
(* Every operation of the store reads the clock first and takes the lock   *)
(* afterwards, up to MaxDelay later; a refresh reads the metadata of a     *)
(* page, queries the database without the lock for up to MaxQuery, and     *)
(* then stores a new page under the same id.                               *)
(*                                                                         *)
(* The html of a page is abstracted to the time at which its queries       *)
(* began, its metadata to whether it has any.                              *)
(***************************************************************************)
EXTENDS Integers, FiniteSets

CONSTANTS
  Worker,    \* the event loop and the threads of the routes
  Id,        \* request ids
  Ttl,       \* ttl_seconds = 900
  MaxDelay,  \* bound: time from reading the clock to entering the lock
  MaxQuery,  \* bound: time that the queries of a page take
  MaxClock   \* bound: clock ticks

ASSUME DashboardAssumption ==
  /\ IsFiniteSet(Worker) /\ IsFiniteSet(Id) /\ "none" \notin Id
  /\ Ttl \in Nat \ {0} /\ MaxDelay \in Nat /\ MaxQuery \in Nat
  /\ MaxClock \in Nat

VARIABLES
  clock,
  pages,      \* _DASHBOARD_PAGES
  pc,         \* where a worker is: idle, get, query, store or announce
  op,         \* what it does: view, refresh or register
  id,         \* the page it is about
  now,        \* the time it has read
  data,       \* the time at which its queries began
  answer,     \* its last answer: "none", "200", "404" or "500"
  used,       \* the ids that the tool has drawn (uuid4)
  until,      \* history: the expiry of the page stored last under an id
  newest,     \* history: the youngest data stored under an id
  announced   \* history: the expires_at_utc that the tool has returned

vars == <<clock, pages, pc, op, id, now, data, answer, used, until, newest,
          announced>>

-----------------------------------------------------------------------------
(* An id without a page; every time is later than its expiry *)
NoPage == [expires |-> -1, data |-> -1, metadata |-> FALSE]

Init ==
  /\ clock = 0
  /\ pages = [i \in Id |-> NoPage]
  /\ pc = [w \in Worker |-> "idle"]
  /\ op = [w \in Worker |-> "view"]
  /\ id = [w \in Worker |-> "none"]
  /\ now = [w \in Worker |-> 0]
  /\ data = [w \in Worker |-> 0]
  /\ answer = [w \in Worker |-> "none"]
  /\ used = {}
  /\ until = [i \in Id |-> -1]
  /\ newest = [i \in Id |-> -1]
  /\ announced = [i \in Id |-> -1]

Goto(w, label) == pc' = [pc EXCEPT ![w] = label]

ReadClock(w) == now' = [now EXCEPT ![w] = clock]

(* The worker is done and gives back what it used *)
Return(w, status) ==
  /\ Goto(w, "idle")
  /\ op' = [op EXCEPT ![w] = "view"]
  /\ id' = [id EXCEPT ![w] = "none"]
  /\ now' = [now EXCEPT ![w] = 0]
  /\ data' = [data EXCEPT ![w] = 0]
  /\ answer' = [answer EXCEPT ![w] = status]

(* Mutant of Cleaned: a page goes one unit before its expiry *)
CleanedEarly(t) ==
  [i \in Id |-> IF pages[i].expires <= t + 1 THEN NoPage ELSE pages[i]]

(* Mutant of Cleaned: only a page that is long expired goes *)
CleanedLate(t) ==
  [i \in Id |-> IF pages[i].expires + Ttl <= t THEN NoPage ELSE pages[i]]

(* _cleanup_expired removes every expired page, whosever it is *)
Cleaned(t) ==
  [i \in Id |-> IF pages[i].expires <= t THEN NoPage ELSE pages[i]]

-----------------------------------------------------------------------------
(* sessions_dashboard draws an id and begins its queries *)
Generate(w, i) ==
  /\ pc[w] = "idle" /\ i \notin used
  /\ used' = used \cup {i}
  /\ op' = [op EXCEPT ![w] = "register"]
  /\ id' = [id EXCEPT ![w] = i]
  /\ data' = [data EXCEPT ![w] = clock]
  /\ answer' = [answer EXCEPT ![w] = "none"]
  /\ Goto(w, "query")
  /\ UNCHANGED <<clock, pages, now, until, newest, announced>>

(* GET /dashboards/{id} or /dashboards/{id}/refresh, of any id: the first  *)
(* half of _get_valid_entry, before the lock.                              *)
Ask(w, i, o) ==
  /\ pc[w] = "idle" /\ o \in {"view", "refresh"}
  /\ op' = [op EXCEPT ![w] = o]
  /\ id' = [id EXCEPT ![w] = i]
  /\ ReadClock(w)
  /\ answer' = [answer EXCEPT ![w] = "none"]
  /\ Goto(w, "get")
  /\ UNCHANGED <<clock, pages, data, used, until, newest, announced>>

(* Mutant of Metadata: a page without metadata is refreshed with defaults *)
MetadataOrDefault(p) == TRUE

(* get_dashboard_page_metadata returns a dictionary, not None *)
Metadata(p) == p # NoPage /\ p.metadata

(* The locked half of _get_valid_entry, called by get_dashboard_page: the  *)
(* page or 404.                                                            *)
View(w) ==
  /\ pc[w] = "get" /\ op[w] = "view"
  /\ pages' = Cleaned(now[w])
  /\ Return(w, IF pages'[id[w]] = NoPage THEN "404" ELSE "200")
  /\ UNCHANGED <<clock, used, until, newest, announced>>

(* The same, called by get_dashboard_page_metadata: 404, or the queries    *)
(* begin.                                                                  *)
Refresh(w) ==
  /\ pc[w] = "get" /\ op[w] = "refresh"
  /\ pages' = Cleaned(now[w])
  /\ IF Metadata(pages'[id[w]])
     THEN /\ Goto(w, "query")
          /\ data' = [data EXCEPT ![w] = clock]
          /\ UNCHANGED <<op, id, now, answer>>
     ELSE Return(w, "404")
  /\ UNCHANGED <<clock, used, until, newest, announced>>

(* A query, the write guard or the validation of the metadata fails: the   *)
(* tool reports the error, the route answers 500, the store is untouched.  *)
Fail(w) ==
  /\ pc[w] = "query"
  /\ Return(w, "500")
  /\ UNCHANGED <<clock, pages, used, until, newest, announced>>

(* The queries are done: register_dashboard_page_with_metadata reads the   *)
(* clock.                                                                  *)
Register(w) ==
  /\ pc[w] = "query"
  /\ ReadClock(w)
  /\ Goto(w, "store")
  /\ UNCHANGED <<clock, pages, op, id, data, answer, used, until, newest,
                 announced>>

(* Mutant of Page: the page is stored without its metadata *)
PageBare(w) == [expires |-> now[w] + Ttl, data |-> data[w], metadata |-> FALSE]

(* Mutant of Page: the html that was shown so far is stored again *)
PageUnchanged(w) ==
  [expires |-> now[w] + Ttl, metadata |-> TRUE,
   data |-> IF pages[id[w]] = NoPage THEN data[w] ELSE pages[id[w]].data]

(* The entry that is stored *)
Page(w) == [expires |-> now[w] + Ttl, data |-> data[w], metadata |-> TRUE]

(* The locked part.  A refresh returns the page; the tool asks for the     *)
(* expiry of its page.                                                     *)
Store(w) ==
  LET i == id[w] IN
  /\ pc[w] = "store"
  /\ pages' = [Cleaned(now[w]) EXCEPT ![i] = Page(w)]
  /\ until' = [until EXCEPT ![i] = Page(w).expires]
  /\ newest' = [newest EXCEPT ![i] = IF data[w] > @ THEN data[w] ELSE @]
  /\ IF op[w] = "refresh"
     THEN Return(w, "200")
     ELSE Goto(w, "announce") /\ UNCHANGED <<op, id, now, data, answer>>
  /\ UNCHANGED <<clock, used, announced>>

(* get_dashboard_page_expiry_utc: expires_at_utc of the page, or None; the *)
(* clock is read on the way.                                               *)
Announce(w) ==
  LET i == id[w] IN
  /\ pc[w] = "announce"
  /\ \E t \in now[w]..clock :
       /\ pages' = Cleaned(t)
       /\ announced' = [announced EXCEPT ![i] = pages'[i].expires]
  /\ Return(w, "200")
  /\ UNCHANGED <<clock, used, until, newest>>

(* Time passes unless a worker has waited for as long as it may *)
Tick ==
  /\ clock < MaxClock
  /\ \A w \in Worker :
       /\ pc[w] \in {"get", "store"} => clock < now[w] + MaxDelay
       /\ pc[w] = "query" => clock < data[w] + MaxQuery
       /\ pc[w] = "announce" => clock < now[w] + MaxDelay
  /\ clock' = clock + 1
  /\ UNCHANGED <<pages, pc, op, id, now, data, answer, used, until, newest,
                 announced>>

Next ==
  \/ Tick
  \/ \E w \in Worker :
       \/ \E i \in Id : Generate(w, i)
       \/ \E i \in Id, o \in {"view", "refresh"} : Ask(w, i, o)
       \/ View(w) \/ Refresh(w) \/ Fail(w)
       \/ Register(w) \/ Store(w) \/ Announce(w)

Spec == Init /\ [][Next]_vars

-----------------------------------------------------------------------------
TypeOK ==
  /\ clock \in Nat
  /\ pages \in [Id -> [expires : Nat, data : Nat, metadata : BOOLEAN]
                      \cup {NoPage}]
  /\ pc \in [Worker -> {"idle", "get", "query", "store", "announce"}]
  /\ op \in [Worker -> {"view", "refresh", "register"}]
  /\ id \in [Worker -> Id \cup {"none"}]
  /\ now \in [Worker -> Nat] /\ data \in [Worker -> Nat]
  /\ answer \in [Worker -> {"none", "200", "404", "500"}]
  /\ used \subseteq Id
  /\ until \in [Id -> Nat \cup {-1}] /\ newest \in [Id -> Nat \cup {-1}]
  /\ announced \in [Id -> Nat \cup {-1}]

(* What a worker has read lies in the past, but not far *)
ReadRecently ==
  \A w \in Worker :
    /\ pc[w] # "idle" => id[w] \in Id /\ answer[w] = "none"
    /\ pc[w] \in {"get", "store", "announce"} =>
         now[w] <= clock /\ clock <= now[w] + MaxDelay
    /\ pc[w] \in {"query", "store", "announce"} => data[w] <= clock
    /\ pc[w] = "query" => clock <= data[w] + MaxQuery
    /\ pc[w] \in {"store", "announce"} =>
         data[w] <= now[w] /\ now[w] <= data[w] + MaxQuery

(* A page that the tool is about to store is new and nobody else's; one    *)
(* that a refresh is about to store was there when its queries began.      *)
InFlight ==
  /\ \A i \in Id : until[i] # -1 => i \in used
  /\ \A w \in Worker :
       /\ pc[w] = "get" => op[w] \in {"view", "refresh"}
       /\ pc[w] \in {"query", "store"} => op[w] \in {"refresh", "register"}
       /\ pc[w] = "announce" => op[w] = "register"
       /\ pc[w] # "idle" /\ op[w] = "register" =>
            /\ id[w] \in used
            /\ \A v \in Worker \ {w} :
                 pc[v] # "idle" /\ op[v] = "register" => id[v] # id[w]
       /\ pc[w] \in {"query", "store"} /\ op[w] = "register" =>
            until[id[w]] = -1
       /\ pc[w] \in {"query", "store"} /\ op[w] = "refresh" =>
            until[id[w]] # -1 /\ data[w] < until[id[w]] + MaxDelay

(* Expiries and data lie where the clock allows, and what was announced    *)
(* was set back by MaxDelay at most.                                       *)
Bounded ==
  \A i \in Id :
    /\ until[i] <= clock + Ttl /\ newest[i] <= clock
    /\ announced[i] <= clock + Ttl /\ announced[i] <= until[i] + MaxDelay

(* The page in the store is the one stored last *)
LastStored ==
  \A i \in Id : pages[i] # NoPage =>
    /\ pages[i].expires = until[i]
    /\ pages[i].data + Ttl <= until[i]
    /\ until[i] <= pages[i].data + MaxQuery + Ttl

(* A page is there until its expiry, and until MaxDelay before the         *)
(* expires_at_utc that the tool has told its caller: neither the cleanups  *)
(* of workers that have read the clock earlier, nor refreshes that store   *)
(* the same page out of order, take it away sooner.                        *)
PromisesKept ==
  \A i \in Id :
    /\ clock < until[i] => pages[i] # NoPage
    /\ clock + MaxDelay < announced[i] => pages[i] # NoPage

(* Overlapping refreshes of a page may store an older picture over a       *)
(* younger one, but never one that is older by more than a refresh takes.  *)
NotSetBackFar ==
  \A i \in Id : pages[i] # NoPage =>
    pages[i].data + MaxQuery + MaxDelay >= newest[i]

(* Whoever sees a page can refresh it: storing the page anew keeps the     *)
(* metadata that the next refresh needs.                                   *)
Refreshable == \A i \in Id : pages[i] # NoPage => Metadata(pages[i])

(* The inductive invariant: where the workers are, and what the store      *)
(* holds.                                                                  *)
WorkersInv == ReadRecently /\ InFlight

StoreInv ==
  LastStored /\ Bounded /\ PromisesKept /\ NotSetBackFar /\ Refreshable

DashboardInv == TypeOK /\ WorkersInv /\ StoreInv

(* A page that is shown was made of data at most Ttl old, but for the time *)
(* of its queries and of the wait for the lock.                            *)
ServedFresh ==
  [][\A w \in Worker : op[w] = "view" /\ pc[w] = "get" /\ answer'[w] = "200" =>
       clock < pages[id[w]].data + MaxQuery + Ttl + MaxDelay]_vars

(* A page that has expired and was removed comes back only through a       *)
(* refresh that had begun before it expired: shortly after its expiry an   *)
(* id is dead for ever.                                                    *)
DeadStaysDead ==
  [][\A i \in Id : until[i] # -1 /\ pages[i] = NoPage /\ pages'[i] # NoPage =>
       clock < until[i] + MaxQuery + 2 * MaxDelay]_vars
=============================================================================
