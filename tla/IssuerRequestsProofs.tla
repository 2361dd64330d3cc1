------------------------- MODULE IssuerRequestsProofs -------------------------
(***************************************************************************)
(* Theorems about the inbox of issuer requests, for any number of accounts *)
(* and any history of the core beside it, and about the page that reads    *)
(* its list.                                                               *)
(***************************************************************************)
EXTENDS IssuerConsole, PassCoreProofs

(* seen is the set of accounts on the list, and whoever has an open request has
   been seen. *)
SeenIsListed ==
  /\ seen = { requesters[i] : i \in 1 .. Len(requesters) }
  /\ \A a \in Addr : requests[a] # 0 => a \in seen

NobodyTwice ==
  \A i, j \in 1 .. Len(requesters) : requesters[i] = requesters[j] => i = j

(* The invariant the proofs carry. *)
RequestInv == CoreInv /\ RequestTypeOK /\ SeenIsListed /\ NobodyTwice

LEMMA RequestInitInv == RequestInit => RequestInv
  <1> SUFFICES ASSUME RequestInit PROVE RequestInv
    OBVIOUS
  <1>1. CoreInv
    BY InitType DEF RequestInit
  <1>2. requesters = << >> /\ seen = {} /\ requests = [a \in Addr |-> 0]
    BY DEF RequestInit, InboxInit
  <1>3. RequestTypeOK
    BY <1>2, ConstantFacts DEF RequestTypeOK
  <1>4. SeenIsListed /\ NobodyTwice
    BY <1>2 DEF SeenIsListed, NobodyTwice
  <1> QED
    BY <1>1, <1>3, <1>4 DEF RequestInv

(* The core's own steps. *)
LEMMA CatalogueInv ==
  ASSUME RequestInv, [Next]_coreVars, UNCHANGED inboxVars
  PROVE  RequestInv'
  <1>1. CoreInv'
    BY StepType DEF RequestInv
  <1> QED
    BY <1>1 DEF RequestInv, RequestTypeOK, SeenIsListed, NobodyTwice, inboxVars

LEMMA RequestStepInv ==
  ASSUME RequestInv, NEW c \in Addr, Request(c)
  PROVE  RequestInv' /\ \A i \in 1 .. Len(requesters) :
                          i <= Len(requesters') /\ requesters'[i] = requesters[i]
  <1>1. CoreInv'
    BY StepType DEF Request, RequestInv
  <1>2. /\ requests \in [Addr -> 0 .. MaxTime] /\ requesters \in Seq(Addr)
        /\ seen \subseteq Addr /\ now \in 1 .. MaxTime /\ Len(requesters) \in Nat
    BY LenProperties DEF RequestInv, RequestTypeOK, CoreInv, TypeOK, ChainTypeOK
  <1>3. requests' = [requests EXCEPT ![c] = now]
    BY DEF Request
  <1>4. requests' \in [Addr -> 0 .. MaxTime]
    BY <1>2, <1>3, ConstantFacts
  <1>5. CASE c \in seen
    <2>1. UNCHANGED <<seen, requesters>>
      BY <1>5 DEF Request
    <2>2. RequestTypeOK'
      BY <1>2, <1>4, <2>1 DEF RequestTypeOK
    <2>3. SeenIsListed' /\ NobodyTwice'
      BY <1>2, <1>3, <1>5, <2>1 DEF RequestInv, SeenIsListed, NobodyTwice
    <2> QED
      BY <1>1, <1>2, <2>1, <2>2, <2>3 DEF RequestInv
  <1>6. CASE c \notin seen
    <2> DEFINE n == Len(requesters)
    <2>1. seen' = seen \cup {c} /\ requesters' = Append(requesters, c)
      BY <1>6 DEF Request
    <2>2. /\ requesters' \in Seq(Addr) /\ Len(requesters') = n + 1
          /\ \A i \in 1 .. n : requesters'[i] = requesters[i]
          /\ requesters'[n + 1] = c
      BY <1>2, <2>1, AppendProperties
    <2>3. seen = { requesters[i] : i \in 1 .. n }
      BY DEF RequestInv, SeenIsListed
    <2> HIDE DEF n
    <2>4. RequestTypeOK'
      BY <1>2, <1>4, <2>1, <2>2 DEF RequestTypeOK
    <2>5. n \in Nat
      BY <1>2 DEF n
    <2>6. seen' = { requesters'[i] : i \in 1 .. n + 1 }
      <3>1. \A i \in 1 .. n + 1 : i \in 1 .. n \/ i = n + 1
        BY <2>5
      <3>2. \A i \in 1 .. n : i \in 1 .. n + 1
        BY <2>5
      <3>3. n + 1 \in 1 .. n + 1
        BY <2>5
      <3>4. ASSUME NEW a \in seen' PROVE a \in { requesters'[i] : i \in 1 .. n + 1 }
        <4>1. CASE a = c
          BY <2>2, <3>3, <4>1
        <4>2. CASE a \in seen
          <5>1. PICK i \in 1 .. n : a = requesters[i]
            BY <2>3, <4>2
          <5> QED
            BY <2>2, <3>2, <5>1
        <4> QED
          BY <2>1, <4>1, <4>2
      <3>5. ASSUME NEW i \in 1 .. n + 1 PROVE requesters'[i] \in seen'
        <4>1. CASE i \in 1 .. n
          BY <2>1, <2>2, <2>3, <4>1
        <4>2. CASE i = n + 1
          BY <2>1, <2>2, <4>2
        <4> QED
          BY <3>1, <4>1, <4>2
      <3> QED
        BY <3>4, <3>5
    <2>7. \A a \in Addr : requests'[a] # 0 => a \in seen'
      BY <1>2, <1>3, <2>1 DEF RequestInv, SeenIsListed
    <2>8. SeenIsListed'
      BY <2>2, <2>6, <2>7 DEF SeenIsListed
    <2>9. NobodyTwice'
      <3> SUFFICES ASSUME NEW i \in 1 .. n + 1, NEW j \in 1 .. n + 1,
                          requesters'[i] = requesters'[j]
                   PROVE  i = j
        BY <2>2 DEF NobodyTwice
      <3>1. \A k \in 1 .. n : requesters'[k] # c
        BY <1>6, <2>2, <2>3
      <3>2. CASE i \in 1 .. n /\ j \in 1 .. n
        BY <2>2, <3>2 DEF RequestInv, NobodyTwice, n
      <3>3. CASE i \notin 1 .. n \/ j \notin 1 .. n
        BY <2>2, <2>5, <3>1, <3>3
      <3> QED
        BY <3>2, <3>3
    <2>10. \A i \in 1 .. n : i <= Len(requesters') /\ requesters'[i] = requesters[i]
      BY <2>2, <2>5
    <2> QED
      BY <1>1, <2>4, <2>8, <2>9, <2>10 DEF RequestInv, n
  <1> QED
    BY <1>5, <1>6

(* Closing a request, by whoever made it or by the admin. *)
LEMMA CloseInv ==
  ASSUME RequestInv, NEW a \in Addr, requests' = [requests EXCEPT ![a] = 0],
         UNCHANGED <<coreVars, seen, requesters>>
  PROVE  RequestInv'
  <1>1. CoreInv'
    BY StepType DEF RequestInv
  <1>2. requests \in [Addr -> 0 .. MaxTime]
    BY DEF RequestInv, RequestTypeOK
  <1>3. RequestTypeOK'
    BY <1>2, ConstantFacts DEF RequestInv, RequestTypeOK
  <1>4. SeenIsListed' /\ NobodyTwice'
    BY <1>2 DEF RequestInv, SeenIsListed, NobodyTwice
  <1> QED
    BY <1>1, <1>3, <1>4 DEF RequestInv

LEMMA RequestsStep ==
  RequestInv /\ [RequestNext]_requestVars
    => /\ RequestInv'
       /\ \A i \in 1 .. Len(requesters) :
            i <= Len(requesters') /\ requesters'[i] = requesters[i]
  <1> DEFINE Kept == \A i \in 1 .. Len(requesters) :
                       i <= Len(requesters') /\ requesters'[i] = requesters[i]
  <1> SUFFICES ASSUME RequestInv, [RequestNext]_requestVars
               PROVE  RequestInv' /\ Kept
    OBVIOUS
  <1>1. Len(requesters) \in Nat
    BY LenProperties DEF RequestInv, RequestTypeOK
  <1>2. CASE UNCHANGED requesters
    <2>1. Kept
      BY <1>1, <1>2
    <2>2. CASE [Next]_coreVars /\ UNCHANGED inboxVars
      BY <2>1, <2>2, CatalogueInv
    <2>3. ASSUME NEW c \in Addr, Request(c) PROVE RequestInv'
      BY <2>3, RequestStepInv
    <2>4. ASSUME NEW c \in Addr, NEW a \in Addr, WithdrawRequest(c) \/ Dismiss(c, a)
          PROVE  RequestInv'
      BY <2>4, CloseInv DEF WithdrawRequest, Dismiss
    <2> QED
      BY <2>1, <2>2, <2>3, <2>4, RequestersAssumption
      DEF RequestNext, InboxStep, Next, requestVars
  <1>3. ASSUME NEW c \in Addr, Request(c) PROVE RequestInv' /\ Kept
    BY <1>3, RequestStepInv
  <1> HIDE DEF Kept
  <1> QED
    BY <1>2, <1>3, RequestersAssumption
    DEF RequestNext, InboxStep, WithdrawRequest, Dismiss, requestVars, inboxVars

-----------------------------------------------------------------------------
(* RequestInv holds of every behaviour of the inbox beside the core. *)
THEOREM RequestInvariant == RequestSpec => []RequestInv
  <1>1. RequestInit => RequestInv
    BY RequestInitInv
  <1>2. RequestInv /\ [RequestNext]_requestVars => RequestInv'
    BY RequestsStep
  <1> QED
    BY <1>1, <1>2, PTL DEF RequestSpec

(* ListComplete for every value of the constants: request(), withdraw() and
   dismiss() in any order leave a list that misses nobody and repeats nobody. *)
THEOREM ListIsComplete == RequestSpec => []ListComplete
  <1>1. RequestInv => ListComplete
    BY DEF RequestInv, SeenIsListed, NobodyTwice, ListComplete
  <1> QED
    BY <1>1, RequestInvariant, PTL

(* PositionsKept for every value of the constants: the list is only appended to. *)
THEOREM PositionsStand == RequestSpec => PositionsKept
  <1>1. RequestInv /\ [RequestNext]_requestVars
          => [\A i \in 1 .. Len(requesters) :
                i <= Len(requesters') /\ requesters'[i] = requesters[i]]_requestVars
    BY RequestsStep
  <1> QED
    BY <1>1, RequestInvariant, PTL DEF RequestSpec, PositionsKept
-----------------------------------------------------------------------------
(* The page that reads the list.                                           *)

InboxTypes ==
  now \in Nat /\ requests \in [Addr -> Nat] /\ requesters \in Seq(Addr)

(* Flows and reads are records of these fields. *)
FlowShape(f) == f = [kind |-> f.kind, phase |-> f.phase, by |-> f.by, arg |-> f.arg]

LoadShape(l) ==
  l = [of |-> l.of, step |-> l.step, since |-> l.since, count |-> l.count,
       todo |-> l.todo, rows |-> l.rows, awaited |-> l.awaited]

(* A flow that was pressed is one the page can send, and a request is filed or withdrawn
   by an account. *)
FlowInv(f) ==
  /\ FlowShape(f)
  /\ f.phase # "none" => f.kind \in {"grant", "revoke", "dismiss", "request", "withdraw",
                                     "create", "toggle"}
  /\ f.kind \in {"request", "withdraw"} => f.by \in Addr

(* A read of the list has every entry of its page in hand or still to ask for.  A request
   older than the read, if it is still open, is the one that was read. *)
LoadInv(l) ==
  /\ LoadShape(l)
  /\ l.since \in Nat /\ l.since <= now
  /\ l.count \in Nat
  /\ l.step \in {"who", "rows"} => l.count <= Len(requesters)
  /\ l.todo \subseteq Addr
  /\ l.step = "rows" =>
       \A i \in Page(l.count) : \/ requesters[i] \in l.todo
                                \/ \E r \in l.rows : r.requester = requesters[i]
  /\ l.step # "rows" => l.rows = {}
  /\ \A r \in l.rows :
       LET a == r.requester
       IN  /\ a \in Addr
           /\ requests[a] # 0 /\ requests[a] < l.since => r.requestedAt = requests[a]

ConsoleInv ==
  /\ InboxTypes
  /\ account \in Addr \cup {NoOne}
  /\ FlowInv(access) /\ FlowInv(plan)
  /\ \A l \in loads : LoadInv(l)

(* What any step may do to the inbox, while time goes on. *)
InboxMoves ==
  /\ InboxTypes' /\ now <= now'
  /\ Len(requesters) <= Len(requesters')
  /\ \A i \in 1 .. Len(requesters) : requesters'[i] = requesters[i]
  /\ \A a \in Addr : requests'[a] \in {requests[a], 0, now}

LEMMA InboxStepMoves ==
  ASSUME InboxTypes,
         \/ UNCHANGED <<now, inboxVars>>
         \/ now' = now + 1 /\ UNCHANGED inboxVars
         \/ \E c \in Addr : Request(c) \/ WithdrawRequest(c)
         \/ \E c, a : Dismiss(c, a)
  PROVE  InboxMoves
  <1>1. /\ now \in Nat /\ requests \in [Addr -> Nat] /\ requesters \in Seq(Addr)
        /\ Len(requesters) \in Nat
    BY LenProperties DEF InboxTypes
  <1>2. CASE UNCHANGED inboxVars /\ now' \in {now, now + 1}
    <2>1. UNCHANGED <<requests, requesters>> /\ now' \in Nat /\ now <= now'
      BY <1>1, <1>2 DEF inboxVars
    <2> QED
      BY <1>1, <2>1 DEF InboxMoves, InboxTypes
  <1>3. ASSUME NEW a, requests' = [requests EXCEPT ![a] = 0], UNCHANGED <<now, requesters>>
        PROVE  InboxMoves
    <2>1. requests' \in [Addr -> Nat] /\ \A b \in Addr : requests'[b] \in {requests[b], 0}
      BY <1>1, <1>3
    <2> QED
      BY <1>1, <1>3, <2>1 DEF InboxMoves, InboxTypes
  <1>4. ASSUME NEW c \in Addr, Request(c) PROVE InboxMoves
    <2>1. requests' = [requests EXCEPT ![c] = now] /\ now' = now
      BY <1>4 DEF Request, coreVars
    <2>2. \/ requesters' = requesters
          \/ requesters' = Append(requesters, c)
      BY <1>4 DEF Request
    <2>3. /\ requesters' \in Seq(Addr) /\ Len(requesters) <= Len(requesters')
          /\ \A i \in 1 .. Len(requesters) : requesters'[i] = requesters[i]
      <3>1. CASE requesters' = requesters
        BY <1>1, <3>1
      <3>2. CASE requesters' = Append(requesters, c)
        <4>1. /\ Append(requesters, c) \in Seq(Addr)
              /\ Len(Append(requesters, c)) = Len(requesters) + 1
              /\ \A i \in 1 .. Len(requesters) : Append(requesters, c)[i] = requesters[i]
          BY <1>1, AppendProperties
        <4> QED
          BY <1>1, <3>2, <4>1
      <3> QED
        BY <2>2, <3>1, <3>2
    <2> QED
      BY <1>1, <2>1, <2>3 DEF InboxMoves, InboxTypes
  <1> QED
    BY <1>2, <1>3, <1>4 DEF WithdrawRequest, Dismiss, coreVars, inboxVars

(* A read stays right while the inbox moves under it: a request filed since is not older
   than the read. *)
LEMMA LoadStays ==
  ASSUME InboxTypes, InboxMoves, NEW l, LoadInv(l)
  PROVE  LoadInv(l)'
  <1>1. /\ now \in Nat /\ now' \in Nat /\ now <= now' /\ l.since \in Nat /\ l.since <= now
        /\ Len(requesters) \in Nat /\ Len(requesters') \in Nat
        /\ Len(requesters) <= Len(requesters')
        /\ requests \in [Addr -> Nat] /\ requests' \in [Addr -> Nat]
    BY LenProperties DEF InboxTypes, InboxMoves, LoadInv
  <1>2. l.since <= now'
    BY <1>1
  <1>3. l.count \in Nat /\ (l.step \in {"who", "rows"} => l.count <= Len(requesters'))
    BY <1>1 DEF LoadInv
  <1>4. ASSUME l.step = "rows", NEW i \in Page(l.count)
        PROVE  requesters'[i] \in l.todo \/ \E r \in l.rows : r.requester = requesters'[i]
    <2>1. i \in 1 .. Len(requesters)
      BY <1>1, <1>4 DEF LoadInv, Page
    <2> QED
      BY <1>4, <2>1 DEF LoadInv, InboxMoves
  <1>5. ASSUME NEW r \in l.rows, requests'[r.requester] # 0,
               requests'[r.requester] < l.since
        PROVE  r.requestedAt = requests'[r.requester]
    <2>1. r.requester \in Addr
      BY DEF LoadInv
    <2>2. requests'[r.requester] = requests[r.requester]
      BY <1>1, <1>5, <2>1 DEF InboxMoves
    <2> QED
      BY <1>5, <2>2 DEF LoadInv
  <1> QED
    BY <1>2, <1>3, <1>4, <1>5 DEF LoadInv

(* What a transaction of the page does to the inbox. *)
LEMMA ExecuteMoves ==
  ASSUME InboxTypes, NEW f, FlowInv(f), f.phase # "none", Execute(f)
  PROVE  InboxMoves
  <1>1. CASE f.kind \in {"grant", "revoke", "create", "toggle"}
    <2>1. UNCHANGED <<now, inboxVars>>
      BY <1>1 DEF Execute, AtCore, SetIssuer, CreatePlan, SetPlanOpen
    <2> QED
      BY <2>1, InboxStepMoves
  <1>2. CASE f.kind = "dismiss"
    <2>1. Dismiss(f.by, f.arg)
      BY <1>2 DEF Execute
    <2> QED
      BY <2>1, InboxStepMoves
  <1>3. CASE f.kind \in {"request", "withdraw"}
    <2>1. f.by \in Addr /\ (Request(f.by) \/ WithdrawRequest(f.by))
      BY <1>3 DEF Execute, FlowInv
    <2> QED
      BY <2>1, InboxStepMoves
  <1> QED
    BY <1>1, <1>2, <1>3 DEF FlowInv

LEMMA NewLoad ==
  ASSUME NEW who, NEW awaited, InboxTypes
  PROVE  LoadInv(Load(who, awaited))
  BY DEF LoadInv, LoadShape, Load, InboxTypes

(* The fields of a record after a change. *)
LEMMA FlowChange ==
  ASSUME NEW f, FlowShape(f), NEW p
  PROVE  [f EXCEPT !.phase = p] = [kind |-> f.kind, phase |-> p, by |-> f.by, arg |-> f.arg]
  <1> DEFINE k == f.kind
             q == f.phase
             b == f.by
             a == f.arg
  <1>1. f = [kind |-> k, phase |-> q, by |-> b, arg |-> a]
    BY DEF FlowShape
  <1> HIDE DEF k, q, b, a
  <1>2. [f EXCEPT !.phase = p] = [kind |-> k, phase |-> p, by |-> b, arg |-> a]
    BY <1>1
  <1> QED
    BY <1>2 DEF k, b, a

(* The same of a read, for each change the page makes to one.  Of several fields at once
   the provers see the result only one field at a time. *)
LEMMA LoadForm ==
  ASSUME NEW l, LoadShape(l)
  PROVE  l = [of |-> l.of, step |-> l.step, since |-> l.since, count |-> l.count,
              todo |-> l.todo, rows |-> l.rows, awaited |-> l.awaited]
  BY DEF LoadShape

LEMMA StepChange ==
  ASSUME NEW l, LoadShape(l), NEW s
  PROVE  [l EXCEPT !.step = s] =
           [of |-> l.of, step |-> s, since |-> l.since, count |-> l.count,
            todo |-> l.todo, rows |-> l.rows, awaited |-> l.awaited]
  <1> DEFINE a == l.of
             b == l.step
             c == l.since
             d == l.count
             e == l.todo
             f == l.rows
             g == l.awaited
  <1>1. l = [of |-> a, step |-> b, since |-> c, count |-> d, todo |-> e,
             rows |-> f, awaited |-> g]
    BY LoadForm
  <1> HIDE DEF a, b, c, d, e, f, g
  <1> DEFINE m1 == [l EXCEPT !.step = s]
  <1>3. m1 = [of |-> a, step |-> s, since |-> c, count |-> d, todo |-> e,
              rows |-> f, awaited |-> g]
    BY <1>1
  <1> QED
    BY <1>3 DEF a, b, c, d, e, f, g, m1

LEMMA CountChange ==
  ASSUME NEW l, LoadShape(l), NEW t, NEW n
  PROVE  [l EXCEPT !.step = "who", !.since = t, !.count = n] =
           [of |-> l.of, step |-> "who", since |-> t, count |-> n,
            todo |-> l.todo, rows |-> l.rows, awaited |-> l.awaited]
  <1> DEFINE a == l.of
             b == l.step
             c == l.since
             d == l.count
             e == l.todo
             f == l.rows
             g == l.awaited
  <1>1. l = [of |-> a, step |-> b, since |-> c, count |-> d, todo |-> e,
             rows |-> f, awaited |-> g]
    BY LoadForm
  <1> HIDE DEF a, b, c, d, e, f, g
  <1>2. [l EXCEPT !.step = "who", !.since = t, !.count = n] =
          [[[l EXCEPT !.step = "who"] EXCEPT !.since = t] EXCEPT !.count = n]
    BY <1>1
  <1> DEFINE m1 == [l EXCEPT !.step = "who"]
  <1>3. m1 = [of |-> a, step |-> "who", since |-> c, count |-> d, todo |-> e,
              rows |-> f, awaited |-> g]
    BY <1>1
  <1>4. [l EXCEPT !.step = "who", !.since = t, !.count = n] =
          [[m1 EXCEPT !.since = t] EXCEPT !.count = n]
    BY <1>2
  <1> HIDE DEF m1
  <1> DEFINE m2 == [m1 EXCEPT !.since = t]
  <1>5. m2 = [of |-> a, step |-> "who", since |-> t, count |-> d, todo |-> e,
              rows |-> f, awaited |-> g]
    BY <1>3
  <1>6. [l EXCEPT !.step = "who", !.since = t, !.count = n] = [m2 EXCEPT !.count = n]
    BY <1>4
  <1> HIDE DEF m2
  <1> DEFINE m3 == [m2 EXCEPT !.count = n]
  <1>7. m3 = [of |-> a, step |-> "who", since |-> t, count |-> n, todo |-> e,
              rows |-> f, awaited |-> g]
    BY <1>5
  <1> QED
    BY <1>7, <1>6 DEF a, b, c, d, e, f, g, m3

LEMMA AskedChange ==
  ASSUME NEW l, LoadShape(l), NEW s, NEW T
  PROVE  [l EXCEPT !.step = s, !.todo = T] =
           [of |-> l.of, step |-> s, since |-> l.since, count |-> l.count,
            todo |-> T, rows |-> l.rows, awaited |-> l.awaited]
  <1> DEFINE a == l.of
             b == l.step
             c == l.since
             d == l.count
             e == l.todo
             f == l.rows
             g == l.awaited
  <1>1. l = [of |-> a, step |-> b, since |-> c, count |-> d, todo |-> e,
             rows |-> f, awaited |-> g]
    BY LoadForm
  <1> HIDE DEF a, b, c, d, e, f, g
  <1>2. [l EXCEPT !.step = s, !.todo = T] =
          [[l EXCEPT !.step = s] EXCEPT !.todo = T]
    BY <1>1
  <1> DEFINE m1 == [l EXCEPT !.step = s]
  <1>3. m1 = [of |-> a, step |-> s, since |-> c, count |-> d, todo |-> e,
              rows |-> f, awaited |-> g]
    BY <1>1
  <1>4. [l EXCEPT !.step = s, !.todo = T] = [m1 EXCEPT !.todo = T]
    BY <1>2
  <1> HIDE DEF m1
  <1> DEFINE m2 == [m1 EXCEPT !.todo = T]
  <1>5. m2 = [of |-> a, step |-> s, since |-> c, count |-> d, todo |-> T,
              rows |-> f, awaited |-> g]
    BY <1>3
  <1> QED
    BY <1>5, <1>4 DEF a, b, c, d, e, f, g, m2

LEMMA RowsChange ==
  ASSUME NEW l, LoadShape(l), NEW T, NEW R
  PROVE  [l EXCEPT !.todo = T, !.rows = R] =
           [of |-> l.of, step |-> l.step, since |-> l.since, count |-> l.count,
            todo |-> T, rows |-> R, awaited |-> l.awaited]
  <1> DEFINE a == l.of
             b == l.step
             c == l.since
             d == l.count
             e == l.todo
             f == l.rows
             g == l.awaited
  <1>1. l = [of |-> a, step |-> b, since |-> c, count |-> d, todo |-> e,
             rows |-> f, awaited |-> g]
    BY LoadForm
  <1> HIDE DEF a, b, c, d, e, f, g
  <1>2. [l EXCEPT !.todo = T, !.rows = R] =
          [[l EXCEPT !.todo = T] EXCEPT !.rows = R]
    BY <1>1
  <1> DEFINE m1 == [l EXCEPT !.todo = T]
  <1>3. m1 = [of |-> a, step |-> b, since |-> c, count |-> d, todo |-> T,
              rows |-> f, awaited |-> g]
    BY <1>1
  <1>4. [l EXCEPT !.todo = T, !.rows = R] = [m1 EXCEPT !.rows = R]
    BY <1>2
  <1> HIDE DEF m1
  <1> DEFINE m2 == [m1 EXCEPT !.rows = R]
  <1>5. m2 = [of |-> a, step |-> b, since |-> c, count |-> d, todo |-> T,
              rows |-> R, awaited |-> g]
    BY <1>3
  <1> QED
    BY <1>5, <1>4 DEF a, b, c, d, e, f, g, m2

(* Each answer that comes leaves the read right. *)
LEMMA AnswerKept ==
  ASSUME InboxTypes, NEW l, LoadInv(l)
  PROVE  /\ l.step = "self" => LoadInv([l EXCEPT !.step = "mine"])
         /\ l.step = "mine" => LoadInv([l EXCEPT !.step = "count"])
         /\ l.step = "count" => LoadInv([l EXCEPT !.step = "who", !.since = now,
                                                  !.count = Len(requesters)])
  <1>0. LoadShape(l)
    BY DEF LoadInv
  <1>1. now \in Nat /\ Len(requesters) \in Nat /\ LoadShape(l)
    BY LenProperties DEF InboxTypes, LoadInv
  <1>2. ASSUME NEW s \in {"mine", "count"}, l.step # "rows"
        PROVE  LoadInv([l EXCEPT !.step = s])
    BY <1>1, <1>2, StepChange DEF LoadInv, LoadShape
  <1>3. CASE l.step = "count"
    <2> DEFINE n == Len(requesters)
    <2> HIDE DEF n
    <2> DEFINE t == now
    <2> HIDE DEF t
    <2> DEFINE m == [l EXCEPT !.step = "who", !.since = t, !.count = n]
    <2>0. n \in Nat /\ n = Len(requesters)
      BY <1>1 DEF n
    <2>1. m = [of |-> l.of, step |-> "who", since |-> t, count |-> n,
               todo |-> l.todo, rows |-> l.rows, awaited |-> l.awaited]
      BY <1>0, CountChange, ZenonT(30)
    <2>2. l.rows = {}
      BY <1>3 DEF LoadInv
    <2> HIDE DEF m, n
    <2>3. LoadInv(m)
      BY <1>1, <2>0, <2>1, <2>2 DEF LoadInv, LoadShape, t
    <2> QED
      BY <1>3, <2>3 DEF m, n, t
  <1> QED
    BY <1>2, <1>3

LEMMA WhoKept ==
  ASSUME InboxTypes, NEW l, LoadInv(l), l.step = "who", l.count <= Len(requesters)
  PROVE  LoadInv([l EXCEPT !.step = "rows",
                           !.todo = { requesters[i] : i \in Page(l.count) }])
  <1> DEFINE asked == { requesters[i] : i \in Page(l.count) }
  <1>1. /\ l.count \in Nat /\ Len(requesters) \in Nat /\ l.rows = {}
        /\ \A i \in 1 .. Len(requesters) : requesters[i] \in Addr
    BY LenProperties DEF InboxTypes, LoadInv
  <1>2. \A i \in Page(l.count) : i \in 1 .. Len(requesters)
    BY <1>1 DEF Page
  <1>3. asked \subseteq Addr
    BY <1>1, <1>2
  <1>4. \A i \in Page(l.count) : requesters[i] \in asked
    OBVIOUS
  <1> HIDE DEF asked
  <1> DEFINE m == [l EXCEPT !.step = "rows", !.todo = asked]
  <1>0. LoadShape(l)
    BY DEF LoadInv
  <1>5. m = [of |-> l.of, step |-> "rows", since |-> l.since, count |-> l.count,
             todo |-> asked, rows |-> l.rows, awaited |-> l.awaited]
    BY <1>0, AskedChange, ZenonT(30)
  <1> HIDE DEF m
  <1>6. LoadInv(m)
    BY <1>1, <1>3, <1>4, <1>5 DEF LoadInv, LoadShape
  <1> QED
    BY <1>6 DEF m, asked

LEMMA RowKept ==
  ASSUME InboxTypes, NEW l, LoadInv(l), l.step = "rows", NEW who \in l.todo,
         NEW row, row.requester = who, row.requestedAt = requests[who]
  PROVE  LoadInv([l EXCEPT !.todo = @ \ {who}, !.rows = @ \cup {row}])
  <1> DEFINE m == [l EXCEPT !.todo = @ \ {who}, !.rows = @ \cup {row}]
  <1>1. /\ m = [of |-> l.of, step |-> l.step, since |-> l.since, count |-> l.count,
                todo |-> l.todo \ {who}, rows |-> l.rows \cup {row}, awaited |-> l.awaited]
        /\ who \in Addr
    BY RowsChange DEF LoadInv
  <1> HIDE DEF m
  <1>2. ASSUME NEW i \in Page(l.count)
        PROVE  \/ requesters[i] \in l.todo \ {who}
               \/ \E r \in l.rows \cup {row} : r.requester = requesters[i]
    BY DEF LoadInv
  <1>3. ASSUME NEW r \in l.rows \cup {row}
        PROVE  /\ r.requester \in Addr
               /\ requests[r.requester] # 0 /\ requests[r.requester] < l.since
                    => r.requestedAt = requests[r.requester]
    BY <1>1 DEF LoadInv
  <1>4. LoadInv(m)
    BY <1>1, <1>2, <1>3 DEF LoadInv, LoadShape
  <1> QED
    BY <1>4 DEF m

(* What a step of the page has to show, when it changes nothing else. *)
LEMMA ConsoleKept ==
  ASSUME ConsoleInv, InboxMoves, account' \in Addr \cup {NoOne},
         FlowInv(access'), FlowInv(plan'),
         \A m \in loads' : m \in loads \/ LoadInv(m)
  PROVE  ConsoleInv'
  <1>1. \A m \in loads' : LoadInv(m)
    BY DEF ConsoleInv
  <1>2. ASSUME NEW m \in loads' PROVE LoadInv(m)'
    BY <1>1, LoadStays DEF ConsoleInv
  <1> QED
    BY <1>2 DEF ConsoleInv, InboxMoves, FlowInv

LEMMA IdleFlow == FlowInv(Idle)
  BY DEF FlowInv, FlowShape, Idle

LEMMA LoadStepInv ==
  ASSUME ConsoleInv, NEW l \in loads, LoadStep(l)
  PROVE  ConsoleInv'
  <1>1. /\ InboxTypes /\ LoadInv(l) /\ FlowInv(access) /\ FlowInv(plan)
        /\ account \in Addr \cup {NoOne}
    BY DEF ConsoleInv
  <1>2. UNCHANGED <<requestVars, account, plan>>
    BY DEF LoadStep, ReadSelf, ReadMine, ReadCount, ReadWho, ReadRow, ListArrives, ReadFails
  <1>3. InboxMoves
    BY <1>1, <1>2, InboxStepMoves DEF requestVars, coreVars
  <1>4. FlowInv(access')
    <2>1. access' \in {access, Idle}
      BY DEF LoadStep, ReadSelf, ReadMine, ReadCount, ReadWho, ReadRow, ListArrives,
             ReadFails, LoadEnds
    <2> QED
      BY <1>1, <2>1, IdleFlow
  <1>5. \A m \in loads' : m \in loads \/ LoadInv(m)
    <2>1. CASE loads' = loads \ {l}
      BY <2>1
    <2>2. ASSUME NEW n, LoadInv(n), loads' = Replaced(l, n)
          PROVE  \A m \in loads' : m \in loads \/ LoadInv(m)
      BY <2>2 DEF Replaced
    <2>3. CASE ReadSelf(l)
      BY <1>1, <2>2, <2>3, AnswerKept DEF ReadSelf
    <2>4. CASE ReadMine(l)
      BY <1>1, <2>1, <2>2, <2>4, AnswerKept DEF ReadMine, LoadEnds
    <2>5. CASE ReadCount(l)
      BY <1>1, <2>2, <2>5, AnswerKept DEF ReadCount
    <2>6. CASE ReadWho(l)
      BY <1>1, <2>2, <2>6, WhoKept DEF ReadWho
    <2>7. ASSUME NEW who \in l.todo, ReadRow(l, who)
          PROVE  \A m \in loads' : m \in loads \/ LoadInv(m)
      <3> DEFINE row == [requester |-> who, requestedAt |-> requests[who],
                         allowed |-> who \in allowed_issuers]
      <3>1. row.requester = who /\ row.requestedAt = requests[who]
        OBVIOUS
      <3>2. /\ l.step = "rows"
            /\ loads' = Replaced(l, [l EXCEPT !.todo = @ \ {who}, !.rows = @ \cup {row}])
        BY <2>7 DEF ReadRow
      <3> HIDE DEF row
      <3> QED
        BY <1>1, <2>2, <3>1, <3>2, RowKept
    <2> QED
      BY <2>1, <2>3, <2>4, <2>5, <2>6, <2>7 DEF LoadStep, ListArrives, ReadFails, LoadEnds
  <1> QED
    BY <1>1, <1>2, <1>3, <1>4, <1>5, ConsoleKept

LEMMA PressInv ==
  ASSUME ConsoleInv, Press
  PROVE  ConsoleInv'
  <1>1. /\ InboxTypes /\ FlowInv(access) /\ FlowInv(plan)
        /\ account \in Addr \cup {NoOne}
    BY DEF ConsoleInv
  <1>2. InboxMoves /\ UNCHANGED <<account, loads>>
    <2>1. UNCHANGED <<requestVars, account, loads>>
      BY DEF Press, Approve, Decline, Submit, FileRequest, WithdrawOwn, handleCreatePlan,
             handleTogglePlan, Send, PressPlan
    <2> QED
      BY <1>1, <2>1, InboxStepMoves DEF requestVars, coreVars
  <1>3. ASSUME NEW kind \in {"grant", "revoke", "dismiss", "create", "toggle"}, NEW arg
        PROVE  FlowInv(Flow(kind, arg))
    BY DEF FlowInv, FlowShape, Flow
  <1>4. ASSUME NEW kind \in {"request", "withdraw"}, NEW arg, account # NoOne
        PROVE  FlowInv(Flow(kind, arg))
    BY <1>1, <1>4 DEF FlowInv, FlowShape, Flow
  <1>5. FlowInv(access')
    BY <1>1, <1>3, <1>4
    DEF Press, Approve, Decline, Submit, FileRequest, WithdrawOwn, handleCreatePlan,
        handleTogglePlan, Send, PressPlan, RequestOffered, WithdrawOffered
  <1>6. FlowInv(plan')
    BY <1>1, <1>3
    DEF Press, Approve, Decline, Submit, FileRequest, WithdrawOwn, handleCreatePlan,
        handleTogglePlan, Send, PressPlan
  <1> QED
    BY <1>1, <1>2, <1>5, <1>6, ConsoleKept

LEMMA SendingInv ==
  ASSUME ConsoleInv, AccessStep \/ PlanStep
  PROVE  ConsoleInv'
  <1>1. /\ InboxTypes /\ FlowInv(access) /\ FlowInv(plan)
        /\ account \in Addr \cup {NoOne}
    BY DEF ConsoleInv
  <1>2. ASSUME NEW f, FlowInv(f), f.phase # "none"
        PROVE  \A p \in {"pending", "mined", "reverted", "reading"} :
                 FlowInv([f EXCEPT !.phase = p])
    BY <1>2, FlowChange DEF FlowInv, FlowShape
  <1>3. \/ InboxMoves
        \/ UNCHANGED requestVars
    BY <1>1, ExecuteMoves
    DEF AccessStep, PlanStep, AnswerAccess, AccessMined, AccessReceipt, AnswerPlan,
        PlanMined, PlanReceipt
  <1>4. InboxMoves
    BY <1>1, <1>3, InboxStepMoves DEF requestVars, coreVars
  <1>5. FlowInv(access')
    BY <1>1, <1>2, IdleFlow
    DEF AccessStep, PlanStep, AnswerAccess, AccessMined, AccessReceipt, AnswerPlan,
        PlanMined, PlanReceipt
  <1>6. FlowInv(plan')
    BY <1>1, <1>2, IdleFlow
    DEF AccessStep, PlanStep, AnswerAccess, AccessMined, AccessReceipt, AnswerPlan,
        PlanMined, PlanReceipt
  <1>7. \A m \in loads' : m \in loads \/ LoadInv(m)
    <2>1. loads' \in {loads, loads \cup {Load(access.by, TRUE)}}
      BY DEF AccessStep, PlanStep, AnswerAccess, AccessMined, AccessReceipt, AnswerPlan,
             PlanMined, PlanReceipt
    <2>2. LoadInv(Load(access.by, TRUE))
      BY <1>1, NewLoad
    <2> HIDE DEF Load
    <2> QED
      BY <2>1, <2>2
  <1>8. account' = account
    BY DEF AccessStep, PlanStep, AnswerAccess, AccessMined, AccessReceipt, AnswerPlan,
           PlanMined, PlanReceipt
  <1> QED
    BY <1>1, <1>4, <1>5, <1>6, <1>7, <1>8, ConsoleKept

LEMMA ConsoleStepInv == ConsoleInv /\ [ConsoleNext]_issuerVars => ConsoleInv'
  <1> SUFFICES ASSUME ConsoleInv, [ConsoleNext]_issuerVars PROVE ConsoleInv'
    OBVIOUS
  <1>1. /\ InboxTypes /\ FlowInv(access) /\ FlowInv(plan)
        /\ account \in Addr \cup {NoOne}
    BY DEF ConsoleInv
  <1>2. ASSUME InboxMoves, UNCHANGED consoleVars PROVE ConsoleInv'
    BY <1>1, <1>2, ConsoleKept DEF consoleVars
  <1>3. CASE Tick /\ UNCHANGED <<inboxVars, consoleVars, elsewhere>>
    <2>1. now' = now + 1
      BY <1>3 DEF Tick, TimePasses
    <2> QED
      BY <1>1, <1>2, <1>3, <2>1, InboxStepMoves
  <1>4. CASE Elsewhere
    <2>1. ASSUME NEW c \in Addr, CatalogueStep(c), UNCHANGED inboxVars PROVE InboxMoves
      <3>1. now' = now
        BY <2>1 DEF CatalogueStep, SetIssuer, SetMarketplace, CreatePlan, SetPlanOpen
      <3> QED
        BY <1>1, <2>1, <3>1, InboxStepMoves
    <2>2. ASSUME NEW c \in Requesters, InboxStep(c) PROVE InboxMoves
      <3>1. c \in Addr
        BY RequestersAssumption
      <3> QED
        BY <1>1, <2>2, <3>1, InboxStepMoves DEF InboxStep
    <2> QED
      BY <1>2, <1>4, <2>1, <2>2 DEF Elsewhere
  <1>5. ASSUME NEW l \in loads, LoadStep(l) PROVE ConsoleInv'
    BY <1>5, LoadStepInv
  <1>6. ASSUME NEW who \in Requesters \cup {NoOne}, SwitchAccount(who) PROVE ConsoleInv'
    <2>1. InboxMoves
      BY <1>1, <1>6, InboxStepMoves DEF SwitchAccount, requestVars, coreVars
    <2>2. account' \in Addr \cup {NoOne} /\ UNCHANGED <<access, plan>>
      BY <1>6, RequestersAssumption DEF SwitchAccount
    <2>3. \A m \in loads' : m \in loads \/ LoadInv(m)
      BY <1>1, <1>6, NewLoad DEF SwitchAccount
    <2> QED
      BY <1>1, <2>1, <2>2, <2>3, ConsoleKept
  <1>7. CASE Press \/ AccessStep \/ PlanStep
    BY <1>7, PressInv, SendingInv
  <1>8. CASE PlansReload \/ UNCHANGED issuerVars
    <2>1. UNCHANGED <<requestVars, account, loads, access, plan>>
      BY <1>8 DEF PlansReload, issuerVars, consoleVars
    <2>2. InboxMoves
      BY <1>1, <2>1, InboxStepMoves DEF requestVars, coreVars
    <2> QED
      BY <1>1, <2>1, <2>2, ConsoleKept
  <1> QED
    BY <1>3, <1>4, <1>5, <1>6, <1>7, <1>8 DEF ConsoleNext

LEMMA ConsoleInitInv == ConsoleInit => ConsoleInv
  <1> SUFFICES ASSUME ConsoleInit PROVE ConsoleInv
    OBVIOUS
  <1>1. InboxTypes
    BY DEF ConsoleInit, RequestInit, Init, ChainInit, InboxInit, InboxTypes
  <1>2. account \in Addr \cup {NoOne} /\ access = Idle /\ plan = Idle
    BY RequestersAssumption DEF ConsoleInit
  <1>3. \A l \in loads : LoadInv(l)
    BY <1>1, NewLoad DEF ConsoleInit
  <1> QED
    BY <1>1, <1>2, <1>3, IdleFlow DEF ConsoleInv

(* NobodySkipped for every value of the constants: any number of requesters and pages of
   any length, whatever is filed, withdrawn and decided while the list is being read. *)
THEOREM ListMissesNobody == ConsoleSpec => NobodySkipped
  <1> DEFINE Missed(l) ==
        \A i \in 1 .. l.count :
          LET a == requesters[i]
          IN  l.count - i < REQUEST_PAGE /\ requests[a] # 0 /\ requests[a] < l.since =>
                \/ \E r \in openRequests' : r.requester = a /\ r.requestedAt = requests[a]
                \/ \E r \in l.rows : r.requester = a /\ r.allowed
  <1>1. ASSUME ConsoleInv, NEW l \in loads, ListArrives(l), NEW i \in 1 .. l.count,
               l.count - i < REQUEST_PAGE, requests[requesters[i]] # 0,
               requests[requesters[i]] < l.since
        PROVE  \/ \E r \in openRequests' : /\ r.requester = requesters[i]
                                           /\ r.requestedAt = requests[requesters[i]]
               \/ \E r \in l.rows : r.requester = requesters[i] /\ r.allowed
    <2>1. LoadInv(l) /\ l.step = "rows" /\ l.todo = {} /\ openRequests' = Open(l.rows)
      BY <1>1 DEF ConsoleInv, ListArrives
    <2>2. i \in Page(l.count)
      BY <1>1, <2>1, ConsoleAssumption DEF Page, LoadInv
    <2>3. PICK r \in l.rows : r.requester = requesters[i]
      BY <2>1, <2>2 DEF LoadInv
    <2>4. r.requestedAt = requests[requesters[i]] /\ requesters[i] \in Addr
      BY <1>1, <2>1, <2>3 DEF LoadInv
    <2>5. requests[requesters[i]] \in Nat
      BY <1>1, <2>4 DEF ConsoleInv, InboxTypes
    <2>6. r.requestedAt > 0
      BY <1>1, <2>4, <2>5
    <2> QED
      BY <2>1, <2>3, <2>4, <2>6 DEF Open
  <1>2. ConsoleInv => [\A l \in loads : ListArrives(l) => Missed(l)]_issuerVars
    BY <1>1
  <1>3. ConsoleInit => ConsoleInv
    BY ConsoleInitInv
  <1>4. ConsoleInv /\ [ConsoleNext]_issuerVars => ConsoleInv'
    BY ConsoleStepInv
  <1> QED
    BY <1>2, <1>3, <1>4, PTL DEF ConsoleSpec, NobodySkipped
=============================================================================
