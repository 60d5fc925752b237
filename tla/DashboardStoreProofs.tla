------------------------ MODULE DashboardStoreProofs ------------------------
(***************************************************************************)
(* Proofs about DashboardStore for any number of workers and pages, any    *)
(* positive time to live and any delays.                                   *)
(***************************************************************************)
EXTENDS DashboardStore, TLAPS

-----------------------------------------------------------------------------
(* The types of what the steps look at. *)
LEMMA PageTypes ==
  ASSUME TypeOK, NEW i \in Id
  PROVE  /\ pages[i] # NoPage => pages[i].expires \in Nat /\ pages[i].data \in Nat
         /\ pages[i] = NoPage => pages[i].expires = -1
         /\ until[i] \in Nat \cup {-1} /\ newest[i] \in Nat \cup {-1}
         /\ announced[i] \in Nat \cup {-1} /\ clock \in Nat
  BY DEF TypeOK, NoPage

(* The types of what a worker has read. *)
LEMMA WorkerTypes ==
  ASSUME TypeOK, NEW w \in Worker
  PROVE  /\ now[w] \in Nat /\ data[w] \in Nat /\ clock \in Nat
         /\ Ttl \in Nat /\ Ttl > 0 /\ MaxDelay \in Nat /\ MaxQuery \in Nat
  BY DashboardAssumption DEF TypeOK

(* _cleanup_expired leaves the pages that expire later and only those. *)
LEMMA CleanedPages ==
  ASSUME TypeOK, NEW t \in Nat, NEW i \in Id
  PROVE  \/ Cleaned(t)[i] = pages[i] /\ (pages[i] # NoPage => pages[i].expires > t)
         \/ Cleaned(t)[i] = NoPage /\ pages[i].expires <= t
  BY PageTypes DEF Cleaned

(* A cleaned store is well-typed. *)
LEMMA CleanedType ==
  ASSUME TypeOK, NEW t
  PROVE  Cleaned(t) \in [Id -> [expires : Nat, data : Nat, metadata : BOOLEAN]
                               \cup {NoPage}]
  BY Zenon DEF TypeOK, Cleaned

(* The entry that Store writes *)
LEMMA StoredPage ==
  ASSUME TypeOK, NEW w \in Worker
  PROVE  /\ Page(w) \in [expires : Nat, data : Nat, metadata : BOOLEAN]
         /\ Page(w).expires = now[w] + Ttl /\ Page(w).data = data[w]
         /\ Page(w) # NoPage /\ Metadata(Page(w))
<1>1. now[w] + Ttl \in Nat /\ data[w] \in Nat
  BY WorkerTypes
<1>2. Page(w).expires = now[w] + Ttl /\ Page(w).data = data[w]
  BY DEF Page
<1>3. NoPage.expires = -1
  BY DEF NoPage
<1>4. Page(w) # NoPage
  BY <1>1, <1>2, <1>3
<1>5. Page(w).metadata = TRUE
  BY Zenon DEF Page
<1>6. Page(w) \in [expires : Nat, data : Nat, metadata : BOOLEAN]
  BY <1>1, Zenon DEF Page
<1> QED
  BY <1>2, <1>4, <1>5, <1>6, Zenon DEF Metadata

-----------------------------------------------------------------------------
(* The store *)

(* A cleanup by a worker that has read the clock some time ago keeps the   *)
(* promises about all pages.                                               *)
LEMMA CleanupKeeps ==
  ASSUME TypeOK, StoreInv, NEW t \in Nat, t <= clock, pages' = Cleaned(t),
         UNCHANGED <<clock, until, newest, announced>>
  PROVE  StoreInv'
<1> USE DEF StoreInv
<1>1. \A i \in Id : pages'[i] # NoPage => pages'[i] = pages[i]
  BY CleanedPages
<1>2. LastStored' /\ NotSetBackFar' /\ Refreshable' /\ Bounded'
  BY <1>1 DEF LastStored, NotSetBackFar, Refreshable, Bounded
<1>3. PromisesKept'
  <2> SUFFICES ASSUME NEW i \in Id
               PROVE  /\ clock < until[i] => pages'[i] # NoPage
                      /\ clock + MaxDelay < announced[i] => pages'[i] # NoPage
    BY DEF PromisesKept
  <2>1. clock < until[i] => pages'[i] # NoPage
    <3> SUFFICES ASSUME clock < until[i], pages'[i] = NoPage PROVE FALSE
      OBVIOUS
    <3>1. pages[i] # NoPage
      BY DEF PromisesKept
    <3>2. pages[i].expires <= t
      BY <3>1, CleanedPages
    <3>3. pages[i].expires = until[i]
      BY <3>1 DEF LastStored
    <3> QED
      BY <3>2, <3>3, PageTypes
  <2>2. announced[i] <= until[i] + MaxDelay
    BY DEF Bounded
  <2>3. clock + MaxDelay < announced[i] => clock < until[i]
    BY <2>2, PageTypes, DashboardAssumption
  <2> QED
    BY <2>1, <2>3
<1> QED
  BY <1>2, <1>3

(* Storing a page under the id of worker w. *)
LEMMA StoreKeeps ==
  ASSUME DashboardInv, NEW w \in Worker, Store(w)
  PROVE  StoreInv'
<1> DEFINE i == id[w]
<1> USE DEF DashboardInv, WorkersInv, StoreInv
<1>1. /\ i \in Id /\ clock' = clock /\ announced' = announced
      /\ pages' = [Cleaned(now[w]) EXCEPT ![i] = Page(w)]
      /\ until' = [until EXCEPT ![i] = now[w] + Ttl]
      /\ newest' = [newest EXCEPT ![i] = IF data[w] > @ THEN data[w] ELSE @]
  BY StoredPage DEF Store, ReadRecently
<1>2. /\ now[w] <= clock /\ clock <= now[w] + MaxDelay
      /\ data[w] <= now[w] /\ now[w] <= data[w] + MaxQuery
  BY DEF Store, ReadRecently
<1>3. \A j \in Id \ {i} : /\ pages'[j] = Cleaned(now[w])[j]
                          /\ until'[j] = until[j] /\ newest'[j] = newest[j]
  BY <1>1 DEF Cleaned, TypeOK
<1>4. /\ pages'[i] = Page(w) /\ until'[i] = now[w] + Ttl
      /\ newest'[i] = IF data[w] > newest[i] THEN data[w] ELSE newest[i]
  BY <1>1 DEF Cleaned, TypeOK
<1>5. \A j \in Id \ {i} : pages'[j] # NoPage => pages'[j] = pages[j]
  BY <1>3, WorkerTypes, CleanedPages
<1>6. LastStored'
  <2> SUFFICES ASSUME NEW j \in Id, pages'[j] # NoPage
               PROVE  /\ pages'[j].expires = until'[j]
                      /\ pages'[j].data + Ttl <= until'[j]
                      /\ until'[j] <= (pages'[j].data + MaxQuery) + Ttl
    BY DEF LastStored
  <2>1. CASE j = i
    BY <1>2, <1>4, <2>1, StoredPage, WorkerTypes
  <2>2. CASE j # i
    BY <1>3, <1>5, <2>2 DEF LastStored
  <2> QED
    BY <2>1, <2>2
<1>7. Bounded'
  <2> SUFFICES ASSUME NEW j \in Id
               PROVE  /\ until'[j] <= clock + Ttl /\ newest'[j] <= clock
                      /\ announced[j] <= clock + Ttl
                      /\ announced[j] <= until'[j] + MaxDelay
    BY <1>1 DEF Bounded
  <2>1. /\ until[j] <= clock + Ttl /\ newest[j] <= clock
        /\ announced[j] <= clock + Ttl /\ announced[j] <= until[j] + MaxDelay
    BY DEF Bounded
  <2>2. CASE j = i
    BY <1>2, <1>4, <2>1, <2>2, WorkerTypes, PageTypes
  <2>3. CASE j # i
    BY <1>3, <2>1, <2>3
  <2> QED
    BY <2>2, <2>3
<1>8. PromisesKept'
  <2> SUFFICES ASSUME NEW j \in Id
               PROVE  /\ clock < until'[j] => pages'[j] # NoPage
                      /\ clock + MaxDelay < announced[j] => pages'[j] # NoPage
    BY <1>1 DEF PromisesKept
  <2>1. CASE j = i
    BY <1>4, <2>1, StoredPage
  <2>2. CASE j # i
    <3>1. pages[j] # NoPage => pages[j].expires = until[j]
      BY DEF LastStored
    <3>2. clock < until[j] => pages[j] # NoPage
      BY DEF PromisesKept
    <3>3. announced[j] <= until[j] + MaxDelay
      BY DEF Bounded
    <3>4. pages'[j] = NoPage => pages[j] = NoPage \/ pages[j].expires <= now[w]
      BY <1>3, <2>2, WorkerTypes, CleanedPages
    <3>5. clock < until[j] => pages'[j] # NoPage
      BY <1>2, <3>1, <3>2, <3>4, WorkerTypes, PageTypes
    <3>6. clock + MaxDelay < announced[j] => clock < until[j]
      BY <3>3, WorkerTypes, PageTypes
    <3> QED
      BY <1>3, <2>2, <3>5, <3>6
  <2> QED
    BY <2>1, <2>2
<1>9. NotSetBackFar'
  <2> SUFFICES ASSUME NEW j \in Id, pages'[j] # NoPage
               PROVE  (pages'[j].data + MaxQuery) + MaxDelay >= newest'[j]
    BY DEF NotSetBackFar
  <2>1. CASE j = i
    <3>1. newest[i] <= clock
      BY <1>1 DEF Bounded
    <3> QED
      BY <1>1, <1>2, <1>4, <2>1, <3>1, StoredPage, WorkerTypes, PageTypes
  <2>2. CASE j # i
    BY <1>3, <1>5, <2>2 DEF NotSetBackFar
  <2> QED
    BY <2>1, <2>2
<1>10. Refreshable'
  <2> SUFFICES ASSUME NEW j \in Id, pages'[j] # NoPage PROVE Metadata(pages'[j])
    BY DEF Refreshable, Metadata
  <2>1. CASE j = i
    BY <1>4, <2>1, StoredPage
  <2>2. CASE j # i
    BY <1>5, <2>2 DEF Refreshable
  <2> QED
    BY <2>1, <2>2
<1> QED
  BY <1>6, <1>7, <1>8, <1>9, <1>10

(* The tool learns the expiry of its page. *)
LEMMA AnnounceKeeps ==
  ASSUME TypeOK, StoreInv, NEW t \in Nat, t <= clock, pages' = Cleaned(t),
         NEW i \in Id, announced' = [announced EXCEPT ![i] = pages'[i].expires],
         UNCHANGED <<clock, until, newest>>
  PROVE  StoreInv' /\ announced' \in [Id -> Nat \cup {-1}]
<1> USE DEF StoreInv
<1>1. \/ pages'[i] = NoPage /\ pages'[i].expires = -1
      \/ pages'[i] # NoPage /\ pages'[i].expires = until[i] /\ until[i] \in Nat
  <2>1. NoPage.expires = -1
    BY DEF NoPage
  <2>2. pages'[i] # NoPage => pages'[i] = pages[i]
    BY CleanedPages
  <2>3. pages[i] # NoPage => pages[i].expires = until[i]
    BY DEF LastStored
  <2> QED
    BY <2>1, <2>2, <2>3, PageTypes
<1>2. announced' \in [Id -> Nat \cup {-1}]
  BY <1>1 DEF TypeOK
<1>3. \A j \in Id : pages'[j] # NoPage => pages'[j] = pages[j]
  BY CleanedPages
<1>4. LastStored' /\ NotSetBackFar' /\ Refreshable'
  BY <1>3 DEF LastStored, NotSetBackFar, Refreshable
<1>5. Bounded'
  <2> SUFFICES ASSUME NEW j \in Id
               PROVE  /\ announced'[j] <= clock + Ttl
                      /\ announced'[j] <= until[j] + MaxDelay
    BY DEF Bounded
  <2>1. /\ until[j] <= clock + Ttl /\ announced[j] <= clock + Ttl
        /\ announced[j] <= until[j] + MaxDelay
    BY DEF Bounded
  <2>2. announced'[j] \in {announced[j], until[j], -1}
    BY <1>1 DEF TypeOK
  <2> QED
    BY <2>1, <2>2, PageTypes, DashboardAssumption
<1>6. PromisesKept'
  <2> SUFFICES ASSUME NEW j \in Id
               PROVE  /\ clock < until[j] => pages'[j] # NoPage
                      /\ clock + MaxDelay < announced'[j] => pages'[j] # NoPage
    BY DEF PromisesKept
  <2>1. pages[j] # NoPage => pages[j].expires = until[j]
    BY DEF LastStored
  <2>2. clock < until[j] => pages[j] # NoPage
    BY DEF PromisesKept
  <2>3. pages'[j] = NoPage => pages[j] = NoPage \/ pages[j].expires <= t
    BY CleanedPages
  <2>4. clock < until[j] => pages'[j] # NoPage
    BY <2>1, <2>2, <2>3, PageTypes
  <2>5. announced'[j] <= until[j] + MaxDelay
    BY <1>5 DEF Bounded
  <2>6. clock + MaxDelay < announced'[j] => clock < until[j]
    BY <1>2, <2>5, PageTypes, DashboardAssumption
  <2> QED
    BY <2>4, <2>6
<1> QED
  BY <1>2, <1>4, <1>5, <1>6

-----------------------------------------------------------------------------
(* The workers *)

(* A worker that returns leaves the others as they were. *)
LEMMA ReturnKeeps ==
  ASSUME TypeOK, WorkersInv, NEW w \in Worker,
         NEW r \in {"200", "404", "500"}, Return(w, r),
         UNCHANGED <<clock, used, until>>
  PROVE  /\ WorkersInv'
         /\ pc' \in [Worker -> {"idle", "get", "query", "store", "announce"}]
         /\ op' \in [Worker -> {"view", "refresh", "register"}]
         /\ id' \in [Worker -> Id \cup {"none"}]
         /\ now' \in [Worker -> Nat] /\ data' \in [Worker -> Nat]
         /\ answer' \in [Worker -> {"none", "200", "404", "500"}]
<1> USE DEF WorkersInv
<1>1. /\ pc' \in [Worker -> {"idle", "get", "query", "store", "announce"}]
      /\ op' \in [Worker -> {"view", "refresh", "register"}]
      /\ id' \in [Worker -> Id \cup {"none"}]
      /\ now' \in [Worker -> Nat] /\ data' \in [Worker -> Nat]
      /\ answer' \in [Worker -> {"none", "200", "404", "500"}]
  BY DEF Return, Goto, TypeOK
<1>2. /\ pc'[w] = "idle"
      /\ \A v \in Worker \ {w} :
           /\ pc'[v] = pc[v] /\ op'[v] = op[v] /\ id'[v] = id[v]
           /\ now'[v] = now[v] /\ data'[v] = data[v] /\ answer'[v] = answer[v]
  BY DEF Return, Goto, TypeOK
<1>3. ReadRecently'
  BY <1>2 DEF ReadRecently
<1>4. InFlight'
  BY <1>2 DEF InFlight
<1> QED
  BY <1>1, <1>3, <1>4

-----------------------------------------------------------------------------
(* DashboardInv is inductive: one lemma per action. *)
LEMMA InitInv == Init => DashboardInv
<1> SUFFICES ASSUME Init PROVE DashboardInv
  OBVIOUS
<1>1. pages \in [Id -> [expires : Nat, data : Nat, metadata : BOOLEAN]
                       \cup {NoPage}]
  BY Zenon DEF Init
<1>2. TypeOK
  <2> HIDE DEF NoPage
  <2> QED
    BY <1>1 DEF Init, TypeOK
<1>3. WorkersInv
  BY DEF Init, WorkersInv, ReadRecently, InFlight
<1>4. \A i \in Id : pages[i] = NoPage /\ until[i] = -1 /\ newest[i] = -1
                    /\ announced[i] = -1
  BY DEF Init
<1>5. LastStored /\ NotSetBackFar /\ Refreshable
  BY <1>4 DEF LastStored, NotSetBackFar, Refreshable
<1>6. Bounded /\ PromisesKept
  BY <1>4, DashboardAssumption DEF Init, Bounded, PromisesKept
<1> QED
  BY <1>2, <1>3, <1>5, <1>6 DEF DashboardInv, StoreInv

(* The tool draws an id that nobody has stored a page under. *)
LEMMA GenerateInv ==
  ASSUME DashboardInv, NEW w \in Worker, NEW i \in Id, Generate(w, i)
  PROVE  DashboardInv'
<1> USE DEF DashboardInv, WorkersInv
<1>1. TypeOK'
  BY DEF Generate, Goto, TypeOK
<1>2. /\ pc'[w] = "query" /\ op'[w] = "register" /\ id'[w] = i
      /\ data'[w] = clock /\ answer'[w] = "none" /\ clock' = clock
      /\ used' = used \cup {i} /\ i \notin used /\ until' = until
      /\ \A v \in Worker \ {w} :
           /\ pc'[v] = pc[v] /\ op'[v] = op[v] /\ id'[v] = id[v]
           /\ now'[v] = now[v] /\ data'[v] = data[v] /\ answer'[v] = answer[v]
  BY DEF Generate, Goto, TypeOK
<1>3. ReadRecently'
  BY <1>2, WorkerTypes DEF ReadRecently
<1>4. InFlight'
  BY <1>2 DEF InFlight
<1>5. StoreInv'
  BY DEF Generate, StoreInv, LastStored, Bounded, PromisesKept, NotSetBackFar,
         Refreshable
<1> QED
  BY <1>1, <1>3, <1>4, <1>5

(* A route reads the clock. *)
LEMMA AskInv ==
  ASSUME DashboardInv, NEW w \in Worker, NEW i \in Id,
         NEW o \in {"view", "refresh"}, Ask(w, i, o)
  PROVE  DashboardInv'
<1> USE DEF DashboardInv, WorkersInv
<1>1. TypeOK'
  BY DEF Ask, Goto, ReadClock, TypeOK
<1>2. /\ pc'[w] = "get" /\ op'[w] = o /\ id'[w] = i
      /\ now'[w] = clock /\ answer'[w] = "none" /\ clock' = clock
      /\ used' = used /\ until' = until
      /\ \A v \in Worker \ {w} :
           /\ pc'[v] = pc[v] /\ op'[v] = op[v] /\ id'[v] = id[v]
           /\ now'[v] = now[v] /\ data'[v] = data[v] /\ answer'[v] = answer[v]
  BY DEF Ask, Goto, ReadClock, TypeOK
<1>3. ReadRecently'
  BY <1>2, WorkerTypes DEF ReadRecently
<1>4. InFlight'
  BY <1>2 DEF InFlight
<1>5. StoreInv'
  BY DEF Ask, StoreInv, LastStored, Bounded, PromisesKept, NotSetBackFar,
         Refreshable
<1> QED
  BY <1>1, <1>3, <1>4, <1>5

(* A page is shown, or 404. *)
LEMMA ViewInv ==
  ASSUME DashboardInv, NEW w \in Worker, View(w)
  PROVE  DashboardInv'
<1>1. \E r \in {"200", "404", "500"} : Return(w, r)
  BY DEF View
<1>2. /\ pages' = Cleaned(now[w]) /\ now[w] \in Nat /\ now[w] <= clock
      /\ UNCHANGED <<clock, used, until, newest, announced>>
  BY WorkerTypes DEF View, DashboardInv, WorkersInv, ReadRecently
<1>3. StoreInv'
  BY <1>2, CleanupKeeps DEF DashboardInv
<1>4. TypeOK' /\ WorkersInv'
  <2> HIDE DEF NoPage
  <2> QED
    BY <1>1, <1>2, ReturnKeeps, CleanedType DEF DashboardInv, TypeOK
<1> QED
  BY <1>3, <1>4 DEF DashboardInv

(* A query fails. *)
LEMMA FailInv ==
  ASSUME DashboardInv, NEW w \in Worker, Fail(w)
  PROVE  DashboardInv'
<1>1. \E r \in {"200", "404", "500"} : Return(w, r)
  BY DEF Fail
<1>2. UNCHANGED <<clock, pages, used, until, newest, announced>>
  BY DEF Fail
<1>3. StoreInv'
  BY <1>2 DEF DashboardInv, StoreInv, LastStored, Bounded, PromisesKept,
              NotSetBackFar, Refreshable
<1>4. TypeOK' /\ WorkersInv'
  BY <1>1, <1>2, ReturnKeeps DEF DashboardInv, TypeOK
<1> QED
  BY <1>3, <1>4 DEF DashboardInv

(* A refresh finds its page, which expires later than the time it has read. *)
LEMMA RefreshInv ==
  ASSUME DashboardInv, NEW w \in Worker, Refresh(w)
  PROVE  DashboardInv'
<1>1. /\ pages' = Cleaned(now[w]) /\ now[w] \in Nat /\ now[w] <= clock
      /\ clock <= now[w] + MaxDelay /\ id[w] \in Id /\ pc[w] = "get"
      /\ op[w] = "refresh" /\ answer[w] = "none"
      /\ UNCHANGED <<clock, used, until, newest, announced>>
  BY WorkerTypes DEF Refresh, DashboardInv, WorkersInv, ReadRecently
<1>2. StoreInv'
  BY <1>1, CleanupKeeps DEF DashboardInv
<1>3. CASE Return(w, "404")
  <2>1. \E r \in {"200", "404", "500"} : Return(w, r)
    BY <1>3
  <2>2. TypeOK' /\ WorkersInv'
    <3> HIDE DEF NoPage
    <3> QED
      BY <1>1, <2>1, ReturnKeeps, CleanedType DEF DashboardInv, TypeOK
  <2> QED
    BY <1>2, <2>2 DEF DashboardInv
<1>4. CASE /\ Metadata(pages'[id[w]]) /\ Goto(w, "query")
           /\ data' = [data EXCEPT ![w] = clock]
           /\ UNCHANGED <<op, id, now, answer>>
  <2> USE DEF DashboardInv, WorkersInv
  <2>1. /\ pc' = [pc EXCEPT ![w] = "query"]
        /\ data' = [data EXCEPT ![w] = clock]
        /\ UNCHANGED <<op, id, now, answer>>
    BY <1>4 DEF Goto
  <2>2. TypeOK'
    <3> HIDE DEF NoPage
    <3> QED
      BY <1>1, <2>1, CleanedType DEF TypeOK
  <2>3. /\ pc'[w] = "query" /\ data'[w] = clock
        /\ \A v \in Worker \ {w} : pc'[v] = pc[v] /\ data'[v] = data[v]
    BY <2>1 DEF TypeOK
  <2>4. pages'[id[w]] # NoPage
    BY <1>4, Zenon DEF Metadata
  <2>5. pages[id[w]] # NoPage /\ pages[id[w]].expires > now[w]
    BY <1>1, <2>4, CleanedPages
  <2>6. until[id[w]] # -1 /\ clock < until[id[w]] + MaxDelay
    <3>1. pages[id[w]].expires = until[id[w]]
      BY <1>1, <2>5 DEF StoreInv, LastStored
    <3>2. until[id[w]] \in Nat /\ until[id[w]] > now[w] /\ clock \in Nat
      BY <1>1, <2>5, <3>1, PageTypes
    <3> QED
      BY <1>1, <3>2, DashboardAssumption
  <2>7. ReadRecently'
    BY <1>1, <2>1, <2>3, WorkerTypes DEF ReadRecently
  <2>8. InFlight'
    BY <1>1, <2>1, <2>3, <2>6 DEF InFlight
  <2> QED
    BY <1>2, <2>2, <2>7, <2>8
<1> QED
  BY <1>3, <1>4, Zenon DEF Refresh

(* The queries are done. *)
LEMMA RegisterInv ==
  ASSUME DashboardInv, NEW w \in Worker, Register(w)
  PROVE  DashboardInv'
<1> USE DEF DashboardInv, WorkersInv
<1>1. TypeOK'
  BY DEF Register, Goto, ReadClock, TypeOK
<1>2. /\ pc[w] = "query" /\ pc'[w] = "store" /\ now'[w] = clock
      /\ UNCHANGED <<clock, op, id, data, answer, used, until>>
      /\ \A v \in Worker \ {w} : pc'[v] = pc[v] /\ now'[v] = now[v]
  BY DEF Register, Goto, ReadClock, TypeOK
<1>3. ReadRecently'
  BY <1>2, WorkerTypes DEF ReadRecently
<1>4. InFlight'
  BY <1>2 DEF InFlight
<1>5. StoreInv'
  BY DEF Register, StoreInv, LastStored, Bounded, PromisesKept, NotSetBackFar,
         Refreshable
<1> QED
  BY <1>1, <1>3, <1>4, <1>5

(* After a store under its id a refresh under way is as close to the       *)
(* expiry as before, and no page of the tool is concerned.                 *)
LEMMA StoreActionInv ==
  ASSUME DashboardInv, NEW w \in Worker, Store(w)
  PROVE  DashboardInv'
<1> DEFINE i == id[w]
<1> USE DEF DashboardInv, WorkersInv
<1>1. /\ pc[w] = "store" /\ i \in Id /\ clock' = clock /\ used' = used
      /\ now[w] <= clock /\ clock <= now[w] + MaxDelay /\ data[w] <= clock
      /\ data[w] <= now[w] /\ now[w] <= data[w] + MaxQuery
      /\ op[w] \in {"refresh", "register"} /\ i \in used /\ answer[w] = "none"
      /\ until' = [until EXCEPT ![i] = now[w] + Ttl] /\ announced' = announced
  BY StoredPage DEF Store, ReadRecently, InFlight
<1>2. /\ until'[i] = now[w] + Ttl /\ until'[i] \in Nat
      /\ \A j \in Id \ {i} : until'[j] = until[j]
  BY <1>1, WorkerTypes DEF TypeOK
<1>3. \/ op[w] = "refresh" /\ Return(w, "200")
      \/ /\ op[w] = "register" /\ pc' = [pc EXCEPT ![w] = "announce"]
         /\ UNCHANGED <<op, id, now, data, answer>>
  <2>1. IF op[w] = "refresh" THEN Return(w, "200")
        ELSE Goto(w, "announce") /\ UNCHANGED <<op, id, now, data, answer>>
    BY Zenon DEF Store
  <2> QED
    BY <1>1, <2>1 DEF Goto
<1>4. /\ pc' \in [Worker -> {"idle", "get", "query", "store", "announce"}]
      /\ op' \in [Worker -> {"view", "refresh", "register"}]
      /\ id' \in [Worker -> Id \cup {"none"}]
      /\ now' \in [Worker -> Nat] /\ data' \in [Worker -> Nat]
      /\ answer' \in [Worker -> {"none", "200", "404", "500"}]
  BY <1>3 DEF Return, Goto, TypeOK
<1>5. /\ \/ pc'[w] = "idle"
         \/ /\ pc'[w] = "announce" /\ op[w] = "register" /\ op'[w] = op[w]
            /\ id'[w] = id[w] /\ now'[w] = now[w] /\ data'[w] = data[w]
            /\ answer'[w] = answer[w]
      /\ \A v \in Worker \ {w} :
           /\ pc'[v] = pc[v] /\ op'[v] = op[v] /\ id'[v] = id[v]
           /\ now'[v] = now[v] /\ data'[v] = data[v] /\ answer'[v] = answer[v]
  BY <1>3 DEF Return, Goto, TypeOK
<1>6. TypeOK'
  <2>1. pages' \in [Id -> [expires : Nat, data : Nat, metadata : BOOLEAN]
                          \cup {NoPage}]
    <3> DEFINE T == [expires : Nat, data : Nat, metadata : BOOLEAN] \cup {NoPage}
    <3>1. Page(w) \in T
      BY StoredPage, Zenon
    <3>2. Cleaned(now[w]) \in [Id -> T]
      BY CleanedType, Zenon
    <3>3. pages' = [Cleaned(now[w]) EXCEPT ![i] = Page(w)]
      BY DEF Store
    <3>4. pages' \in [Id -> T]
      <4> HIDE DEF T
      <4> QED
        BY <3>1, <3>2, <3>3
    <3> QED
      BY <3>4, Zenon
  <2>2. until' \in [Id -> Nat \cup {-1}]
    BY <1>1, WorkerTypes DEF TypeOK
  <2>3. newest' \in [Id -> Nat \cup {-1}]
    BY <1>1, WorkerTypes DEF Store, TypeOK
  <2> HIDE DEF NoPage
  <2> QED
    BY <1>1, <1>4, <2>1, <2>2, <2>3 DEF TypeOK
<1>7. ReadRecently'
  BY <1>1, <1>5 DEF ReadRecently
<1>8. InFlight'
  <2>1. \A j \in Id : until'[j] # -1 => j \in used
    BY <1>1, <1>2 DEF InFlight
  <2>2. ASSUME NEW v \in Worker, pc'[v] \in {"query", "store"}
        PROVE  /\ op'[v] = "register" => until'[id'[v]] = -1
               /\ op'[v] = "refresh" =>
                    until'[id'[v]] # -1 /\ data'[v] < until'[id'[v]] + MaxDelay
    <3>1. v # w /\ pc[v] = pc'[v] /\ op'[v] = op[v] /\ id'[v] = id[v]
          /\ data'[v] = data[v] /\ id[v] \in Id
      BY <1>5, <2>2 DEF ReadRecently
    <3>2. CASE id[v] # i
      BY <1>2, <2>2, <3>1, <3>2 DEF InFlight
    <3>3. CASE id[v] = i
      <4>1. op[v] # "register"
        BY <1>1, <2>2, <3>1, <3>3 DEF InFlight
      <4>2. data[v] <= clock
        BY <2>2, <3>1 DEF ReadRecently
      <4>3. data[v] < until'[i] + MaxDelay
        BY <1>1, <1>2, <4>2, WorkerTypes
      <4> QED
        BY <1>2, <3>1, <3>3, <4>1, <4>3
    <3> QED
      BY <3>2, <3>3
  <2> QED
    BY <1>1, <1>5, <2>1, <2>2 DEF InFlight
<1> QED
  BY <1>6, <1>7, <1>8, StoreKeeps

(* The tool asks for the expiry of its page. *)
LEMMA AnnounceInv ==
  ASSUME DashboardInv, NEW w \in Worker, Announce(w)
  PROVE  DashboardInv'
<1>1. PICK t \in now[w]..clock :
        /\ pages' = Cleaned(t)
        /\ announced' = [announced EXCEPT ![id[w]] = pages'[id[w]].expires]
  BY DEF Announce
<1>2. /\ t \in Nat /\ t <= clock /\ id[w] \in Id
      /\ UNCHANGED <<clock, used, until, newest>>
      /\ \E r \in {"200", "404", "500"} : Return(w, r)
  BY WorkerTypes DEF Announce, DashboardInv, WorkersInv, ReadRecently
<1>3. StoreInv' /\ announced' \in [Id -> Nat \cup {-1}]
  BY <1>1, <1>2, AnnounceKeeps DEF DashboardInv
<1>4. TypeOK' /\ WorkersInv'
  <2> HIDE DEF NoPage
  <2> QED
    BY <1>1, <1>2, <1>3, ReturnKeeps, CleanedType DEF DashboardInv, TypeOK
<1> QED
  BY <1>3, <1>4 DEF DashboardInv

(* Every step keeps the invariant. *)
LEMMA StepInv == DashboardInv /\ [Next]_vars => DashboardInv'
<1> SUFFICES ASSUME DashboardInv, [Next]_vars PROVE DashboardInv'
  OBVIOUS
<1>1. CASE Tick
  <2> USE DEF DashboardInv, WorkersInv
  <2>1. clock' = clock + 1 /\ clock \in Nat
        /\ UNCHANGED <<pages, pc, op, id, now, data, answer, used, until, newest,
                       announced>>
    BY <1>1 DEF Tick, TypeOK
  <2>2. TypeOK' /\ InFlight'
    <3>1. TypeOK'
      BY <2>1 DEF TypeOK
    <3>2. InFlight'
      BY <2>1 DEF InFlight
    <3> QED
      BY <3>1, <3>2
  <2>3. ReadRecently'
    <3> SUFFICES ASSUME NEW w \in Worker
                 PROVE  /\ pc[w] # "idle" => id[w] \in Id /\ answer[w] = "none"
                        /\ pc[w] \in {"get", "store", "announce"} =>
                             now[w] <= clock + 1 /\ clock + 1 <= now[w] + MaxDelay
                        /\ pc[w] \in {"query", "store", "announce"} =>
                             data[w] <= clock + 1
                        /\ pc[w] = "query" => clock + 1 <= data[w] + MaxQuery
                        /\ pc[w] \in {"store", "announce"} =>
                             data[w] <= now[w] /\ now[w] <= data[w] + MaxQuery
      BY <2>1 DEF ReadRecently
    <3> QED
      BY <1>1, WorkerTypes DEF Tick, ReadRecently
  <2>4. LastStored' /\ NotSetBackFar' /\ Refreshable'
    BY <2>1 DEF StoreInv, LastStored, NotSetBackFar, Refreshable
  <2>5. Bounded' /\ PromisesKept'
    <3> SUFFICES ASSUME NEW i \in Id
                 PROVE  /\ until[i] <= (clock + 1) + Ttl /\ newest[i] <= clock + 1
                        /\ announced[i] <= (clock + 1) + Ttl
                        /\ announced[i] <= until[i] + MaxDelay
                        /\ clock + 1 < until[i] => pages[i] # NoPage
                        /\ (clock + 1) + MaxDelay < announced[i] => pages[i] # NoPage
      BY <2>1 DEF Bounded, PromisesKept
    <3>1. /\ until[i] <= clock + Ttl /\ newest[i] <= clock
          /\ announced[i] <= clock + Ttl /\ announced[i] <= until[i] + MaxDelay
      BY DEF StoreInv, Bounded
    <3>2. /\ clock < until[i] => pages[i] # NoPage
          /\ clock + MaxDelay < announced[i] => pages[i] # NoPage
      BY DEF StoreInv, PromisesKept
    <3> QED
      BY <3>1, <3>2, PageTypes, DashboardAssumption
  <2> QED
    BY <2>2, <2>3, <2>4, <2>5 DEF StoreInv
<1>2. CASE UNCHANGED vars
  <2> USE <1>2 DEF vars, DashboardInv, WorkersInv, StoreInv
  <2>1. TypeOK' /\ ReadRecently' /\ InFlight'
    BY DEF TypeOK, ReadRecently, InFlight
  <2>2. LastStored' /\ NotSetBackFar' /\ Refreshable' /\ Bounded' /\ PromisesKept'
    BY DEF LastStored, NotSetBackFar, Refreshable, Bounded, PromisesKept
  <2> QED
    BY <2>1, <2>2
<1> QED
  BY <1>1, <1>2, GenerateInv, AskInv, ViewInv, RefreshInv, FailInv, RegisterInv,
     StoreActionInv, AnnounceInv DEF Next

(* The workers and the store stay consistent. *)
THEOREM DashboardInvariance == Spec => []DashboardInv
  BY InitInv, StepInv, PTL DEF Spec

(* Pages are there for as long as their expiry and the announced one say.  *)
THEOREM PagesLiveAsPromised == Spec => []PromisesKept
<1>1. DashboardInv => PromisesKept
  BY DEF DashboardInv, StoreInv
<1> QED
  BY <1>1, DashboardInvariance, PTL

(* Whoever sees a page can refresh it, however often it was stored anew. *)
THEOREM PagesStayRefreshable == Spec => []Refreshable
<1>1. DashboardInv => Refreshable
  BY DEF DashboardInv, StoreInv
<1> QED
  BY <1>1, DashboardInvariance, PTL

(* Overlapping refreshes never set a page back by more than one refresh. *)
THEOREM NeverSetBackFar == Spec => []NotSetBackFar
<1>1. DashboardInv => NotSetBackFar
  BY DEF DashboardInv, StoreInv
<1> QED
  BY <1>1, DashboardInvariance, PTL

-----------------------------------------------------------------------------
(* A page that is shown is fresh. *)
THEOREM PagesServedFresh == Spec => ServedFresh
<1> DEFINE A ==
      \A w \in Worker : op[w] = "view" /\ pc[w] = "get" /\ answer'[w] = "200" =>
        clock < pages[id[w]].data + MaxQuery + Ttl + MaxDelay
<1>1. DashboardInv /\ [Next]_vars => [A]_vars
  <2> SUFFICES ASSUME DashboardInv, [Next]_vars, NEW w \in Worker,
                      op[w] = "view", pc[w] = "get", answer'[w] = "200"
               PROVE  clock < pages[id[w]].data + MaxQuery + Ttl + MaxDelay
    OBVIOUS
  <2>1. /\ id[w] \in Id /\ answer[w] = "none"
        /\ now[w] <= clock /\ clock <= now[w] + MaxDelay
    BY DEF DashboardInv, WorkersInv, ReadRecently
  <2>2. answer'[w] # answer[w]
    BY <2>1
  <2>3. ASSUME NEW v \in Worker, v # w, NEW r, Return(v, r) PROVE FALSE
    BY <2>2, <2>3 DEF Return, DashboardInv, TypeOK
  <2>4. ASSUME NEW v \in Worker,
               \/ \E i \in Id : Generate(v, i)
               \/ \E i \in Id, o \in {"view", "refresh"} : Ask(v, i, o)
        PROVE  FALSE
    BY <2>1, <2>4 DEF Generate, Ask, DashboardInv, TypeOK
  <2>5. ASSUME NEW v \in Worker,
               Refresh(v) \/ Fail(v) \/ Register(v) \/ Store(v) \/ Announce(v)
        PROVE  (\E r : Return(v, r)) \/ UNCHANGED answer
    BY <2>5, Zenon DEF Refresh, Fail, Register, Store, Announce
  <2>6. ~Refresh(w) /\ ~Fail(w) /\ ~Register(w) /\ ~Store(w) /\ ~Announce(w)
    BY DEF Refresh, Fail, Register, Store, Announce
  <2>7. ~Tick /\ ~(UNCHANGED vars)
    BY <2>2 DEF Tick, vars
  <2>8. ASSUME NEW v \in Worker, View(v) PROVE v = w
    BY <2>3, <2>8 DEF View
  <2>9. View(w)
    BY <2>2, <2>3, <2>4, <2>5, <2>6, <2>7, <2>8 DEF Next
  <2>10. Cleaned(now[w])[id[w]] # NoPage
    <3>1. pages' = Cleaned(now[w])
          /\ answer' = [answer EXCEPT ![w] =
               IF pages'[id[w]] = NoPage THEN "404" ELSE "200"]
      BY <2>9 DEF View, Return
    <3> QED
      BY <3>1 DEF DashboardInv, TypeOK
  <2>11. pages[id[w]] # NoPage /\ pages[id[w]].expires > now[w]
    BY <2>1, <2>10, CleanedPages, WorkerTypes DEF DashboardInv
  <2>12. /\ pages[id[w]].expires = until[id[w]]
         /\ until[id[w]] <= pages[id[w]].data + MaxQuery + Ttl
    BY <2>1, <2>11 DEF DashboardInv, StoreInv, LastStored
  <2> QED
    BY <2>1, <2>11, <2>12, PageTypes, WorkerTypes DEF DashboardInv
<1> QED
  BY <1>1, DashboardInvariance, PTL DEF Spec, ServedFresh

(* An expired page that was removed comes back only through a refresh that *)
(* had begun before.                                                       *)
THEOREM DeadPagesStayDead == Spec => DeadStaysDead
<1> DEFINE A ==
      \A i \in Id : until[i] # -1 /\ pages[i] = NoPage /\ pages'[i] # NoPage =>
        clock < until[i] + MaxQuery + 2 * MaxDelay
<1>1. DashboardInv /\ [Next]_vars => [A]_vars
  <2> SUFFICES ASSUME DashboardInv, [Next]_vars, NEW i \in Id,
                      until[i] # -1, pages[i] = NoPage, pages'[i] # NoPage
               PROVE  clock < until[i] + MaxQuery + 2 * MaxDelay
    OBVIOUS
  <2>1. ASSUME NEW t, pages' = Cleaned(t) PROVE FALSE
    BY <2>1, Zenon DEF Cleaned
  <2>2. ~(UNCHANGED pages)
    OBVIOUS
  <2>3. PICK w \in Worker : Store(w)
    <3>1. ASSUME NEW v \in Worker, View(v) \/ Refresh(v) \/ Announce(v) PROVE FALSE
      BY <2>1, <3>1, Zenon DEF View, Refresh, Announce
    <3>2. ASSUME NEW v \in Worker,
                 \/ \E j \in Id : Generate(v, j)
                 \/ \E j \in Id, o \in {"view", "refresh"} : Ask(v, j, o)
                 \/ Fail(v) \/ Register(v)
          PROVE  FALSE
      BY <2>2, <3>2, Zenon DEF Generate, Ask, Fail, Register
    <3>3. ~Tick /\ ~(UNCHANGED vars)
      BY <2>2, Zenon DEF Tick, vars
    <3> QED
      BY <3>1, <3>2, <3>3, Zenon DEF Next
  <2>4. id[w] = i
    <3>1. pages' = [Cleaned(now[w]) EXCEPT ![id[w]] = Page(w)]
      BY <2>3 DEF Store
    <3>2. Cleaned(now[w])[i] = NoPage
      BY Zenon DEF Cleaned
    <3> QED
      BY <3>1, <3>2 DEF Cleaned
  <2>5. /\ pc[w] = "store" /\ clock <= now[w] + MaxDelay
        /\ now[w] <= data[w] + MaxQuery
    BY <2>3 DEF Store, DashboardInv, WorkersInv, ReadRecently
  <2>6. data[w] < until[i] + MaxDelay
    BY <2>4, <2>5 DEF DashboardInv, WorkersInv, InFlight
  <2> QED
    BY <2>5, <2>6, PageTypes, WorkerTypes DEF DashboardInv
<1> QED
  BY <1>1, DashboardInvariance, PTL DEF Spec, DeadStaysDead
=============================================================================
