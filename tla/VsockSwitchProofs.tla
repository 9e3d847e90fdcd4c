-------------------------- MODULE VsockSwitchProofs --------------------------
(***************************************************************************)
(* The switch keeps its invariants for every number of flows, every queue  *)
(* length, window, budget and counter width, and every packet of a guest.  *)
(***************************************************************************)
EXTENDS VsockSwitch, StreamConnectionProofs, FiniteSetTheorems

-----------------------------------------------------------------------------
(* The inductive invariant.  TableInv adds to the properties that numbers  *)
(* in use or used up lie below the counter, and on each stream what        *)
(* StreamInv adds.                                                         *)

EndpointInv(e, i) ==
  /\ e \in Endpoint
  /\ StreamInv(e.stream)
  /\ e.stream.role = e.role
  /\ i > FIXED_ENDPOINTS => IsLive(e.stream) \/ e.retiring # None
  /\ e.retiring # None =>
       /\ ~IsLive(e.stream)
       /\ \A k \in DOMAIN e.stream.replies : e.stream.replies[k].op = "RST"

TableInv(eps, next, gone) ==
  /\ eps \in Seq(Endpoint)
  /\ Len(eps) \in FIXED_ENDPOINTS .. FIXED_ENDPOINTS + NetworkSocketCapacity
  /\ next \in Nat
  /\ gone \in SUBSET Nat
  /\ \A i \in DOMAIN eps :
       /\ EndpointInv(eps[i], i)
       /\ eps[i].connection_number < next
       /\ eps[i].connection_number \notin gone
  /\ \A i, j \in DOMAIN eps : IsAt(eps[i], eps[j].guest_port, eps[j].host_port) => i = j
  /\ \A i, j \in DOMAIN eps : eps[i].connection_number = eps[j].connection_number => i = j
  /\ \A m \in gone : m < next

Rejection == [guest_port : Port, host_port : Port, connection_number : Nat]

SwitchInv ==
  /\ TableInv(endpoints, next_connection_number, ended)
  /\ network_enabled \in BOOLEAN
  /\ next_reply \in 0 .. REPLY_CLASSES - 1
  /\ next_flow_reply \in Nat
  /\ rejected \in Seq(Rejection)
  /\ Len(rejected) <= MAX_REJECTED_RESETS

(* The table of a reachable switch, as the steps below use it.             *)
LEMMA TableFacts ==
  ASSUME SwitchInv
  PROVE  /\ endpoints \in Seq(Endpoint) /\ Len(endpoints) \in Nat /\ Len(endpoints) >= 2
         /\ DOMAIN endpoints = 1 .. Len(endpoints)
         /\ next_connection_number \in Nat /\ ended \in SUBSET Nat
         /\ \A i \in DOMAIN endpoints : /\ i \in Nat /\ endpoints[i] \in Endpoint
                                        /\ EndpointInv(endpoints[i], i)
<1>1. /\ endpoints \in Seq(Endpoint) /\ Len(endpoints) \in Nat
      /\ DOMAIN endpoints = 1 .. Len(endpoints)
      /\ next_connection_number \in Nat /\ ended \in SUBSET Nat
      /\ \A i \in DOMAIN endpoints : EndpointInv(endpoints[i], i)
  BY DEF SwitchInv, TableInv
<1>2. Len(endpoints) \in FIXED_ENDPOINTS .. FIXED_ENDPOINTS + NetworkSocketCapacity
  BY DEF SwitchInv, TableInv
<1>3. Len(endpoints) >= 2
  BY <1>2, SwitchAssumption DEF FIXED_ENDPOINTS
<1>4. \A i \in DOMAIN endpoints : i \in Nat /\ endpoints[i] \in Endpoint
  BY <1>1
<1> QED BY <1>1, <1>3, <1>4

(* The invariant gives the properties the runs check.                      *)
LEMMA SwitchInvImplies ==
  SwitchInv => /\ TypeOK /\ SlotsAreOwned /\ NumbersAreFresh
               /\ ReceiveWindowHolds /\ SendBudgetHolds
               /\ CreditReportedHolds /\ DataBeforeCloseHolds
<1> SUFFICES ASSUME SwitchInv PROVE /\ TypeOK /\ SlotsAreOwned /\ NumbersAreFresh
               /\ ReceiveWindowHolds /\ SendBudgetHolds
               /\ CreditReportedHolds /\ DataBeforeCloseHolds
  OBVIOUS
<1>1. \A i \in DOMAIN endpoints : EndpointInv(endpoints[i], i)
  BY DEF SwitchInv, TableInv
<1>2. TypeOK
  BY <1>1 DEF SwitchInv, TableInv, EndpointInv, StreamInv, BaseInv, QueueInv, TypeOK, Rejection
<1>3. SlotsAreOwned
  BY <1>1 DEF SwitchInv, TableInv, EndpointInv, SlotsAreOwned, Flows
<1>4. NumbersAreFresh
  BY DEF SwitchInv, TableInv, NumbersAreFresh
<1>5. ReceiveWindowHolds /\ SendBudgetHolds /\ CreditReportedHolds /\ DataBeforeCloseHolds
  BY <1>1, StreamInvImplies
     DEF EndpointInv, ReceiveWindowHolds, SendBudgetHolds, CreditReportedHolds, DataBeforeCloseHolds
<1> QED BY <1>2, <1>3, <1>4, <1>5

-----------------------------------------------------------------------------
(* What the operations do to the endpoint table.                           *)

(* Numbers in use and numbers used up lie below the counter.               *)
LEMMA NumbersBelow ==
  ASSUME NEW eps, NEW next, NEW gone, TableInv(eps, next, gone)
  PROVE  /\ next \in Nat
         /\ \A j \in DOMAIN eps : eps[j].connection_number \in Nat
                                   /\ eps[j].connection_number < next
         /\ \A m \in gone : m \in Nat /\ m < next
<1>1. \A j \in DOMAIN eps : eps[j] \in Endpoint /\ eps[j].connection_number < next
  BY DEF TableInv, EndpointInv
<1>2. \A j \in DOMAIN eps : eps[j].connection_number \in Nat
  BY <1>1 DEF Endpoint
<1>3. next \in Nat /\ \A m \in gone : m \in Nat /\ m < next
  BY Zenon DEF TableInv
<1> QED BY <1>1, <1>2, <1>3

(* One endpoint replaced under its own number.                             *)
LEMMA ReplaceKeeps ==
  ASSUME NEW eps, NEW next, NEW gone, TableInv(eps, next, gone), NEW i \in DOMAIN eps,
         NEW e, EndpointInv(e, i), IsAt(e, eps[i].guest_port, eps[i].host_port),
         e.connection_number = eps[i].connection_number
  PROVE  TableInv([eps EXCEPT ![i] = e], next, gone)
<1> DEFINE t == [eps EXCEPT ![i] = e]
<1>1. eps \in Seq(Endpoint) /\ e \in Endpoint
  BY DEF TableInv, EndpointInv
<1>2. t \in Seq(Endpoint) /\ Len(t) = Len(eps) /\ DOMAIN t = DOMAIN eps
      /\ t[i] = e /\ \A j \in DOMAIN eps : j # i => t[j] = eps[j]
  BY <1>1
<1> HIDE DEF t
<1>3. \A j \in DOMAIN t : /\ EndpointInv(t[j], j)
                          /\ t[j].connection_number = eps[j].connection_number
                          /\ t[j].guest_port = eps[j].guest_port
                          /\ t[j].host_port = eps[j].host_port
  BY <1>2 DEF TableInv, IsAt
<1>4. TableInv(t, next, gone)
  BY <1>2, <1>3 DEF TableInv, IsAt
<1> QED BY <1>4 DEF t

(* One endpoint replaced under the fresh number, the old one being over or *)
(* not.                                                                    *)
LEMMA RenumberKeeps ==
  ASSUME NEW eps, NEW next, NEW gone, TableInv(eps, next, gone), NEW i \in DOMAIN eps,
         NEW e, EndpointInv(e, i), IsAt(e, eps[i].guest_port, eps[i].host_port),
         e.connection_number = next
  PROVE  /\ TableInv([eps EXCEPT ![i] = e], next + 1, gone)
         /\ TableInv([eps EXCEPT ![i] = e], next + 1, gone \cup {eps[i].connection_number})
<1> DEFINE t == [eps EXCEPT ![i] = e]
<1>1. eps \in Seq(Endpoint) /\ e \in Endpoint /\ next \in Nat
  BY DEF TableInv, EndpointInv
<1>2. t \in Seq(Endpoint) /\ Len(t) = Len(eps) /\ DOMAIN t = DOMAIN eps
      /\ t[i] = e /\ \A j \in DOMAIN eps : j # i => t[j] = eps[j]
  BY <1>1
<1> HIDE DEF t
<1>3. \A j \in DOMAIN t : /\ EndpointInv(t[j], j)
                          /\ t[j].guest_port = eps[j].guest_port
                          /\ t[j].host_port = eps[j].host_port
  BY <1>2 DEF TableInv, IsAt
<1>4. \A j \in DOMAIN eps : eps[j].connection_number \in Nat /\ eps[j].connection_number < next
  BY NumbersBelow
<1>5. \A j \in DOMAIN t : t[j].connection_number < next + 1 /\ t[j].connection_number \notin gone
  BY <1>1, <1>2, <1>4 DEF TableInv
<1>6. \A j \in DOMAIN t : t[j].connection_number # eps[i].connection_number
  BY <1>1, <1>2, <1>4 DEF TableInv
<1>7. \A j, k \in DOMAIN t : t[j].connection_number = t[k].connection_number => j = k
  BY <1>1, <1>2, <1>4 DEF TableInv
<1>8. \A j, k \in DOMAIN t : IsAt(t[j], t[k].guest_port, t[k].host_port) => j = k
  BY <1>2, <1>3 DEF TableInv, IsAt
<1>9. \A m \in gone \cup {eps[i].connection_number} : m \in Nat /\ m < next + 1
  BY <1>1, <1>4, NumbersBelow
<1>a. gone \in SUBSET Nat /\ gone \cup {eps[i].connection_number} \in SUBSET Nat
  BY <1>9
<1>10. TableInv(t, next + 1, gone)
  BY <1>1, <1>2, <1>3, <1>5, <1>7, <1>8, <1>9, <1>a DEF TableInv
<1>11. TableInv(t, next + 1, gone \cup {eps[i].connection_number})
  <2>1. \A j \in DOMAIN t : t[j].connection_number \notin gone \cup {eps[i].connection_number}
    BY <1>5, <1>6
  <2>2. \A m \in gone \cup {eps[i].connection_number} : m < next + 1
    BY <1>9
  <2>3. Len(t) \in FIXED_ENDPOINTS .. FIXED_ENDPOINTS + NetworkSocketCapacity /\ next + 1 \in Nat
    BY <1>1, <1>2 DEF TableInv
  <2> QED BY <1>2, <1>3, <1>5, <1>7, <1>8, <1>a, <2>1, <2>2, <2>3, Zenon DEF TableInv
<1> QED BY <1>10, <1>11 DEF t

(* An endpoint added under the fresh number on a free port pair.           *)
LEMMA AppendKeeps ==
  ASSUME NEW eps, NEW next, NEW gone, TableInv(eps, next, gone),
         Len(eps) - FIXED_ENDPOINTS < NetworkSocketCapacity,
         NEW e, EndpointInv(e, Len(eps) + 1), e.connection_number = next,
         \A j \in DOMAIN eps : ~IsAt(eps[j], e.guest_port, e.host_port)
  PROVE  TableInv(Append(eps, e), next + 1, gone)
<1> DEFINE t == Append(eps, e)
           n == Len(eps)
<1>1. eps \in Seq(Endpoint) /\ e \in Endpoint /\ next \in Nat /\ n \in Nat
  BY DEF TableInv, EndpointInv
<1>2. t \in Seq(Endpoint) /\ Len(t) = n + 1 /\ DOMAIN t = 1 .. n + 1 /\ DOMAIN eps = 1 .. n
      /\ t[n + 1] = e /\ \A j \in 1 .. n : t[j] = eps[j]
  BY <1>1
<1>3. Len(t) \in FIXED_ENDPOINTS .. FIXED_ENDPOINTS + NetworkSocketCapacity
  BY <1>1, <1>2, SwitchAssumption DEF TableInv, FIXED_ENDPOINTS
<1> HIDE DEF t
<1>4. \A j \in DOMAIN t : EndpointInv(t[j], j)
  BY <1>1, <1>2 DEF TableInv
<1>5. \A j \in DOMAIN eps : eps[j].connection_number \in Nat /\ eps[j].connection_number < next
  BY NumbersBelow
<1>6. \A j \in DOMAIN t : t[j].connection_number < next + 1 /\ t[j].connection_number \notin gone
  BY <1>1, <1>2, <1>5 DEF TableInv
<1>7. \A j, k \in DOMAIN t : t[j].connection_number = t[k].connection_number => j = k
  BY <1>1, <1>2, <1>5 DEF TableInv
<1>8. \A j, k \in DOMAIN t : IsAt(t[j], t[k].guest_port, t[k].host_port) => j = k
  BY <1>1, <1>2 DEF TableInv, IsAt
<1>9. TableInv(t, next + 1, gone)
  BY <1>1, <1>2, <1>3, <1>4, <1>6, <1>7, <1>8 DEF TableInv
<1> QED BY <1>9 DEF t

(* A number below the next one stays below those after it.                 *)
LEMMA BelowTheNext == \A n, m, k \in Nat : n < m => n < m + k
OBVIOUS

(* A flow taken out of the table.                                          *)
LEMMA RemoveKeeps ==
  ASSUME NEW eps, NEW next, NEW gone, TableInv(eps, next, gone), NEW i \in DOMAIN eps,
         i > FIXED_ENDPOINTS
  PROVE  TableInv([j \in 1 .. Len(eps) - 1 |-> IF j < i THEN eps[j] ELSE eps[j + 1]], next, gone)
<1> DEFINE n == Len(eps)
           t == [j \in 1 .. n - 1 |-> IF j < i THEN eps[j] ELSE eps[j + 1]]
           at(j) == IF j < i THEN j ELSE j + 1
<1>1. eps \in Seq(Endpoint) /\ n \in Nat /\ DOMAIN eps = 1 .. n /\ i \in 1 .. n /\ i > 2
  BY DEF TableInv, FIXED_ENDPOINTS
<1>2. \A j \in 1 .. n - 1 : at(j) \in 1 .. n /\ t[j] = eps[at(j)] /\ (at(j) > 2 <=> j > 2)
  BY <1>1
<1>3. \A j, k \in 1 .. n - 1 : at(j) = at(k) => j = k
  BY <1>1
<1>4. t \in Seq(Endpoint) /\ Len(t) = n - 1 /\ DOMAIN t = 1 .. n - 1
  <2>1. \A j \in 1 .. n - 1 : t[j] \in Endpoint
    BY <1>1, <1>2
  <2>2. n - 1 \in Nat
    BY <1>1
  <2> QED BY <2>1, <2>2
<1>5. n - 1 \in FIXED_ENDPOINTS .. FIXED_ENDPOINTS + NetworkSocketCapacity
  BY <1>1, SwitchAssumption DEF TableInv, FIXED_ENDPOINTS
<1> HIDE DEF t, at
<1>6. ASSUME NEW j \in DOMAIN t PROVE EndpointInv(t[j], j)
  <2>1. EndpointInv(eps[at(j)], at(j)) /\ t[j] = eps[at(j)] /\ (at(j) > 2 <=> j > 2)
    BY <1>1, <1>2, <1>4, Zenon DEF TableInv
  <2> QED
    BY <2>1, SMTT(60) DEF EndpointInv, FIXED_ENDPOINTS
<1>7. \A j \in DOMAIN t : t[j].connection_number < next /\ t[j].connection_number \notin gone
  BY <1>1, <1>2, <1>4, Zenon DEF TableInv
<1>a. \A j, k \in DOMAIN eps : eps[j].connection_number = eps[k].connection_number => j = k
  BY DEF TableInv
<1>8. ASSUME NEW j \in DOMAIN t, NEW k \in DOMAIN t,
             t[j].connection_number = t[k].connection_number
      PROVE  j = k
  <2>1. /\ at(j) \in DOMAIN eps /\ at(k) \in DOMAIN eps
        /\ eps[at(j)].connection_number = eps[at(k)].connection_number
    BY <1>1, <1>2, <1>4, <1>8
  <2>2. at(j) = at(k)
    BY <1>a, <2>1
  <2> QED BY <1>3, <1>4, <2>2
<1>9. \A j, k \in DOMAIN t : IsAt(t[j], t[k].guest_port, t[k].host_port) => j = k
  BY <1>1, <1>2, <1>3, <1>4 DEF TableInv
<1>10. TableInv(t, next, gone)
  BY <1>4, <1>5, <1>6, <1>7, <1>8, <1>9, Zenon DEF TableInv
<1> QED BY <1>10 DEF t

-----------------------------------------------------------------------------
(* Endpoints.                                                              *)

(* Endpoint::retire of a live connection, or of one the call just ended.   *)
LEMMA RetiredKeeps ==
  ASSUME NEW e \in Endpoint, BaseInv(e.stream), e.stream.role = e.role, e.retiring = None,
         NEW m \in Nat, NEW i
  PROVE  /\ EndpointInv(Retired(e, m), i)
         /\ IsAt(Retired(e, m), e.guest_port, e.host_port)
         /\ Retired(e, m).connection_number = m
<1> DEFINE r == [e EXCEPT !.retiring = e.connection_number, !.connection_number = m]
           s == RetireStream(e.stream)
           t == [r EXCEPT !.stream = s]
<1>1. r \in Endpoint /\ r.role = e.role /\ r.stream = e.stream /\ r.connection_number = m
      /\ r.retiring \in Nat /\ r.guest_port = e.guest_port /\ r.host_port = e.host_port
  BY Zenon DEF Endpoint
<1>2. Retired(e, m) = t
  BY <1>1 DEF Retired
<1>3. /\ StreamInv(s) /\ ~IsLive(s) /\ s.role = e.role
      /\ \A k \in DOMAIN s.replies : s.replies[k].op = "RST"
  BY RetireKeeps
<1> HIDE DEF r, s
<1>4. s \in Stream
  BY <1>3 DEF StreamInv, BaseInv
<1>5. t \in Endpoint /\ t.role = e.role /\ t.stream = s /\ t.connection_number = m
      /\ t.retiring \in Nat /\ t.guest_port = e.guest_port /\ t.host_port = e.host_port
  BY <1>1, <1>4 DEF Endpoint
<1> HIDE DEF t
<1>6. t.retiring # None
  BY <1>5, NoneAssumption
<1> QED BY <1>2, <1>3, <1>5, <1>6 DEF EndpointInv, IsAt

(* UpdateStream: whatever a call on endpoint i made of its stream.         *)
LEMMA UpdateStreamKeeps ==
  ASSUME TableInv(endpoints, next_connection_number, ended),
         NEW i \in DOMAIN endpoints, endpoints[i].retiring = None,
         NEW s, Kept(endpoints[i].stream, s), UpdateStream(i, s)
  PROVE  TableInv(endpoints, next_connection_number, ended)'
<1> DEFINE e == endpoints[i]
           u == [e EXCEPT !.stream = s]
           m == next_connection_number
<1>1. e \in Endpoint /\ m \in Nat /\ EndpointInv(e, i) /\ i \in Nat
  BY DEF TableInv
<1>2. BaseInv(s) /\ s \in Stream /\ s.role = e.role
  BY <1>1 DEF Kept, BaseInv, EndpointInv
<1>3. u \in Endpoint /\ u.role = e.role /\ u.stream = s /\ u.retiring = None
      /\ u.guest_port = e.guest_port /\ u.host_port = e.host_port
      /\ u.connection_number = e.connection_number
  BY <1>1, <1>2 DEF Endpoint
<1> HIDE DEF u
<1>4. CASE IsLive(e.stream) /\ ~IsLive(s)
  <2>1. /\ endpoints' = [endpoints EXCEPT ![i] = Retired(u, m)]
        /\ next_connection_number' = m + 1
        /\ ended' = ended \cup {e.connection_number}
    BY <1>4 DEF UpdateStream, u
  <2>2. EndpointInv(Retired(u, m), i) /\ IsAt(Retired(u, m), u.guest_port, u.host_port)
        /\ Retired(u, m).connection_number = m
    BY <1>1, <1>2, <1>3, RetiredKeeps
  <2>3. TableInv([endpoints EXCEPT ![i] = Retired(u, m)], m + 1, ended \cup {e.connection_number})
    BY <1>3, <2>2, RenumberKeeps
  <2> QED BY <2>1, <2>3
<1>5. CASE ~(IsLive(e.stream) /\ ~IsLive(s))
  <2>1. endpoints' = [endpoints EXCEPT ![i] = u] /\ next_connection_number' = m /\ ended' = ended
    BY <1>5 DEF UpdateStream, u
  <2>2. StreamInv(s)
    BY <1>2, <1>5 DEF Kept, StreamInv
  <2>3. EndpointInv(u, i)
    BY <1>1, <1>2, <1>3, <1>5, <2>2 DEF EndpointInv, FIXED_ENDPOINTS
  <2>4. TableInv([endpoints EXCEPT ![i] = u], m, ended)
    BY <1>3, <2>3, ReplaceKeeps DEF IsAt
  <2> QED BY <2>1, <2>4
<1> QED BY <1>4, <1>5

-----------------------------------------------------------------------------
(* One lemma per action.                                                   *)

(* A reset for a packet that no connection takes is queued while it fits.  *)
LEMMA RejectAction ==
  ASSUME SwitchInv, NEW p \in GuestPairs, NEW h \in Headers, Reject(p[1], p[2], h)
  PROVE  SwitchInv'
<1> DEFINE r == RejectedReset(p[1], p[2])
<1>1. p[1] \in Port /\ p[2] \in Port
  BY SwitchAssumption
<1>2. r \in Rejection
  <2> DEFINE n == IF HasEndpoint(p[1], p[2])
                  THEN endpoints[CHOOSE i \in DOMAIN endpoints :
                         IsAt(endpoints[i], p[1], p[2])].connection_number
                  ELSE 0
  <2>1. n \in Nat
    <3>1. CASE HasEndpoint(p[1], p[2])
      <4>1. (CHOOSE i \in DOMAIN endpoints : IsAt(endpoints[i], p[1], p[2])) \in DOMAIN endpoints
        BY <3>1 DEF HasEndpoint
      <4> QED BY <3>1, <4>1, NumbersBelow DEF SwitchInv
    <3> QED BY <3>1
  <2>2. r = [guest_port |-> p[1], host_port |-> p[2], connection_number |-> n]
    BY DEF RejectedReset
  <2> HIDE DEF n
  <2> QED BY <1>1, <2>1, <2>2 DEF Rejection
<1> HIDE DEF r
<1>3. rejected \in Seq(Rejection) /\ Len(rejected) <= MAX_REJECTED_RESETS
  BY DEF SwitchInv
<1>4. rejected' = rejected \/ (rejected' = Append(rejected, r) /\ Len(rejected) < MAX_REJECTED_RESETS)
  BY DEF Reject, r
<1>5. rejected' \in Seq(Rejection) /\ Len(rejected') <= MAX_REJECTED_RESETS
  BY <1>2, <1>3, <1>4, SwitchAssumption
<1> QED BY <1>5 DEF SwitchInv, Reject, rotation

(* Forgetting the resets of a port pair shortens the list at most.         *)
LEMMA ForgetKeeps ==
  ASSUME SwitchInv, NEW g, NEW p
  PROVE  ForgetRejected(g, p) \in Seq(Rejection) /\ Len(ForgetRejected(g, p)) <= MAX_REJECTED_RESETS
<1> DEFINE f == ForgetRejected(g, p)
<1>1. rejected \in Seq(Rejection) /\ Len(rejected) <= MAX_REJECTED_RESETS
  BY DEF SwitchInv
<1>2. f \in Seq(Rejection) /\ Len(f) <= Len(rejected)
  BY <1>1, RetainProperty DEF ForgetRejected
<1> HIDE DEF f
<1>3. f \in Seq(Rejection) /\ Len(f) <= MAX_REJECTED_RESETS
  BY <1>1, <1>2, SwitchAssumption
<1> QED BY <1>3 DEF f

(* A flow that is admitted starts connected.                               *)
LEMMA RxAdmittedAction ==
  ASSUME SwitchInv, NEW p \in GuestPairs, NEW h \in Headers, RxAdmitted(p[1], p[2], h)
  PROVE  SwitchInv'
<1> DEFINE role == Classify(p[1], p[2])
           m == next_connection_number
           e == NewEndpoint(role, p[1], p[2], m)
           z == NewStream(role)
           s == StreamRx(z, h)
           t == [e EXCEPT !.stream = s]
<1>1. p[1] \in Port /\ p[2] \in Port /\ h \in Header /\ role \in {"Tcp", "Udp"} /\ role \in Role
  BY SwitchAssumption DEF RxAdmitted, Admissible, Role
<1>2. m \in Nat
  BY DEF SwitchInv, TableInv
<1>3. /\ endpoints' = Append(endpoints, t) /\ next_connection_number' = m + 1
      /\ rejected' = ForgetRejected(p[1], p[2])
      /\ UNCHANGED <<network_enabled, next_reply, next_flow_reply, ended>>
      /\ ~HasEndpoint(p[1], p[2]) /\ NetworkSocketCount < NetworkSocketCapacity
      /\ h.well_formed /\ h.op = "REQUEST" /\ h.fwd_cnt = 0
  BY DEF RxAdmitted, Admissible, NewEndpoint, rotation
<1> HIDE DEF role
<1>4. StreamInv(z) /\ ~IsLive(z)
  BY <1>1, RequestKeeps
<1>5. z \in Stream /\ z.role = role /\ z.replies = <<>> /\ z.reply_bytes = 0
      /\ z.connection = None /\ z.is_connecting = FALSE
  BY <1>4 DEF NewStream, StreamInv, BaseInv
<1>6. Kept(z, s)
  BY <1>1, <1>4, StreamRxKeeps, Zenon
<1>7. StreamInv(s) /\ s \in Stream /\ s.role = role
  BY <1>4, <1>5, <1>6 DEF Kept, StreamInv, BaseInv
<1>8. IsLive(s)
  <2>1. CanRespond(z, "RESPONSE")
    BY <1>1, <1>5, StreamAssumption DEF CanRespond, CanQueueReply
  <2>2. s = [Respond(z, "RESPONSE", 0) EXCEPT !.connection = NewConnection(h.buf_alloc)]
    BY <1>3, <1>4, <1>5, <2>1 DEF StreamRx, OnRequest
  <2>3. 0 \in Word /\ "RESPONSE" \in Op \ {"RW", "CREDIT_UPDATE"} /\ h.buf_alloc \in Word
    BY <1>1, StreamAssumption DEF Word, Wrap, Op, Header
  <2>4. Respond(z, "RESPONSE", 0) \in Stream
    BY <1>4, <1>5, <2>3, PushControl DEF Respond, StreamInv, BaseInv
  <2>5. NewConnection(h.buf_alloc) \in Connection
    BY <2>3 DEF NewConnection, Connection
  <2>6. s.connection # None
    BY <2>2, <2>4, <2>5, SetConnection
  <2> QED BY <2>6 DEF IsLive
<1> HIDE DEF s, z
<1>9. e \in [role : Role, guest_port : Port, host_port : Port, stream : {NewStream(role)},
              connection_number : Nat, retiring : {None}]
      /\ e.role = role /\ e.guest_port = p[1] /\ e.host_port = p[2] /\ e.connection_number = m
  BY <1>1, <1>2 DEF NewEndpoint
<1> HIDE DEF e
<1>10. /\ t \in Endpoint /\ t.role = role /\ t.stream = s /\ t.retiring = None
       /\ t.guest_port = p[1] /\ t.host_port = p[2] /\ t.connection_number = m
  BY <1>7, <1>9 DEF Endpoint
<1> HIDE DEF t
<1>11. EndpointInv(t, Len(endpoints) + 1)
  BY <1>7, <1>8, <1>10, Zenon DEF EndpointInv
<1>12. TableInv(Append(endpoints, t), m + 1, ended)
  BY <1>3, <1>10, <1>11, AppendKeeps DEF SwitchInv, HasEndpoint, NetworkSocketCount
<1>13. rejected' \in Seq(Rejection) /\ Len(rejected') <= MAX_REJECTED_RESETS
  BY <1>3, ForgetKeeps
<1> QED BY <1>3, <1>12, <1>13 DEF SwitchInv

(* A call on one endpoint that is not retiring, whatever it does.          *)
LEMMA StreamAction ==
  ASSUME SwitchInv, NEW i \in DOMAIN endpoints, endpoints[i].retiring = None,
         NEW s, Kept(endpoints[i].stream, s), UpdateStream(i, s),
         UNCHANGED <<network_enabled, rotation, rejected>>
  PROVE  SwitchInv'
<1>1. TableInv(endpoints, next_connection_number, ended)'
  BY UpdateStreamKeeps DEF SwitchInv
<1> QED BY <1>1 DEF SwitchInv, rotation

(* A packet for a connection (rx_endpoint) is one method of its stream,    *)
(* and a reply or a retirement.                                            *)
LEMMA RxEndpointAction ==
  ASSUME SwitchInv, NEW p \in GuestPairs, NEW h \in Headers, RxEndpoint(p[1], p[2], h)
  PROVE  SwitchInv'
<1>1. PICK i \in DOMAIN endpoints : /\ endpoints[i].retiring = None
                                    /\ UpdateStream(i, StreamRx(endpoints[i].stream, h))
  BY DEF RxEndpoint
<1>2. StreamInv(endpoints[i].stream) /\ h \in Header
  BY SwitchAssumption DEF SwitchInv, TableInv, EndpointInv
<1>3. Kept(endpoints[i].stream, StreamRx(endpoints[i].stream, h))
  BY <1>2, StreamRxKeeps
<1> QED BY <1>1, <1>3, StreamAction DEF RxEndpoint

(* A connected endpoint is not retiring, so host calls find it whole.      *)
LEMMA HostCallAction ==
  ASSUME SwitchInv, NEW i \in DOMAIN endpoints, NEW s,
         StreamInv(endpoints[i].stream) => Kept(endpoints[i].stream, s), HostCall(i, s)
  PROVE  SwitchInv'
<1>1. StreamInv(endpoints[i].stream) /\ endpoints[i].retiring = None
  BY DEF SwitchInv, TableInv, EndpointInv, HostCall, Connected, IsLive
<1> QED BY <1>1, StreamAction, Zenon DEF HostCall

(* A publication that connects (connect_publication) takes a new number    *)
(* and a row of its own.                                                   *)
LEMMA ConnectPublicationAction ==
  ASSUME SwitchInv, NEW port \in PublicationHostPorts, ConnectPublication(port)
  PROVE  SwitchInv'
<1> DEFINE m == next_connection_number
           e == NewEndpoint("Publication", PUBLICATION_PORT, port, m)
           s == Request(NewStream("Publication"))
           t == [e EXCEPT !.stream = s]
<1>1. port \in Port /\ "Publication" \in Role /\ m \in Nat /\ PUBLICATION_PORT \in Port
  <2>1. port \in Port
    BY DEF Port
  <2>2. "Publication" \in Role /\ m \in Nat
    BY DEF Role, SwitchInv, TableInv
  <2>3. PUBLICATION_PORT \in Port
    BY DEF Port
  <2> QED BY <2>1, <2>2, <2>3
<1>2. /\ endpoints' = Append(endpoints, t) /\ next_connection_number' = m + 1
      /\ UNCHANGED <<network_enabled, next_reply, next_flow_reply, rejected, ended>>
      /\ ~HasEndpoint(PUBLICATION_PORT, port) /\ NetworkSocketCount < NetworkSocketCapacity
  BY DEF ConnectPublication, NewEndpoint, rotation
<1>3. StreamInv(s) /\ IsLive(s) /\ s.role = "Publication"
  BY <1>1, RequestKeeps
<1>4. s \in Stream
  BY <1>3 DEF StreamInv, BaseInv
<1> HIDE DEF s
<1>5. e \in [role : Role, guest_port : Port, host_port : Port,
              stream : {NewStream("Publication")}, connection_number : Nat, retiring : {None}]
      /\ e.role = "Publication" /\ e.guest_port = PUBLICATION_PORT /\ e.host_port = port
      /\ e.connection_number = m
  BY <1>1 DEF NewEndpoint
<1> HIDE DEF e
<1>6. /\ t \in Endpoint /\ t.role = "Publication" /\ t.stream = s /\ t.retiring = None
      /\ t.guest_port = PUBLICATION_PORT /\ t.host_port = port /\ t.connection_number = m
  BY <1>4, <1>5 DEF Endpoint
<1> HIDE DEF t
<1>7. EndpointInv(t, Len(endpoints) + 1)
  BY <1>3, <1>6 DEF EndpointInv
<1>8. TableInv(Append(endpoints, t), m + 1, ended)
  BY <1>2, <1>6, <1>7, AppendKeeps, Zenon DEF SwitchInv, HasEndpoint, NetworkSocketCount
<1> QED BY <1>2, <1>8 DEF SwitchInv

(* A reset queues its RST if it fits, then retires the connection.         *)
LEMMA ResetEndpointKeeps ==
  ASSUME NEW e, NEW i, EndpointInv(e, i), IsLive(e.stream), NEW m \in Nat
  PROVE  /\ EndpointInv(ResetEndpoint(e, m), i)
         /\ IsAt(ResetEndpoint(e, m), e.guest_port, e.host_port)
         /\ ResetEndpoint(e, m).connection_number = m
<1> DEFINE s == Rst(e.stream)
           u == [e EXCEPT !.stream = s]
<1>1. e \in Endpoint /\ BaseInv(e.stream) /\ e.retiring = None /\ e.stream.role = e.role
  BY DEF EndpointInv, StreamInv
<1>2. BaseInv(s) /\ s \in Stream /\ s.role = e.role
  BY <1>1, RstKeeps DEF SameConnection, BaseInv
<1>3. ResetEndpoint(e, m) = Retired(u, m)
  BY DEF ResetEndpoint
<1> HIDE DEF s
<1>4. u \in Endpoint /\ u.stream = s /\ u.role = e.role /\ u.retiring = None
      /\ u.guest_port = e.guest_port /\ u.host_port = e.host_port
  BY <1>1, <1>2 DEF Endpoint
<1> HIDE DEF u
<1> QED BY <1>2, <1>3, <1>4, RetiredKeeps

(* A reset of one connection (reset_connection) retires or empties its row *)
(* only.                                                                   *)
LEMMA ResetConnectionAction ==
  ASSUME SwitchInv, NEW i \in DOMAIN endpoints, ResetConnection(i)
  PROVE  SwitchInv'
<1> DEFINE m == next_connection_number
           t == ResetEndpoint(endpoints[i], m)
<1>1. m \in Nat /\ EndpointInv(endpoints[i], i) /\ IsLive(endpoints[i].stream)
  BY DEF SwitchInv, TableInv, ResetConnection
<1>2. EndpointInv(t, i) /\ IsAt(t, endpoints[i].guest_port, endpoints[i].host_port)
      /\ t.connection_number = m
  BY <1>1, ResetEndpointKeeps
<1>3. /\ endpoints' = [endpoints EXCEPT ![i] = t] /\ next_connection_number' = m + 1
      /\ ended' = ended \cup {endpoints[i].connection_number}
      /\ UNCHANGED <<network_enabled, next_reply, next_flow_reply, rejected>>
  BY DEF ResetConnection, rotation
<1> HIDE DEF t
<1>4. TableInv([endpoints EXCEPT ![i] = t], m + 1, ended \cup {endpoints[i].connection_number})
  BY <1>2, RenumberKeeps DEF SwitchInv
<1> QED BY <1>3, <1>4 DEF SwitchInv

(* A retirement frees the slot of a flow, or gives a fixed endpoint a      *)
(* fresh number.                                                           *)
LEMMA RetireConnectionAction ==
  ASSUME SwitchInv, NEW i \in DOMAIN endpoints, RetireConnection(i)
  PROVE  SwitchInv'
<1> DEFINE m == next_connection_number
           e == endpoints[i]
           t == [e EXCEPT !.retiring = None, !.connection_number = m]
<1>1. m \in Nat /\ EndpointInv(e, i) /\ e \in Endpoint /\ endpoints \in Seq(Endpoint) /\ i \in Nat
  BY TableFacts
<1>2. rejected' \in Seq(Rejection) /\ Len(rejected') <= MAX_REJECTED_RESETS
  BY ForgetKeeps DEF RetireConnection
<1>3. CASE i > FIXED_ENDPOINTS
  <2>1. TableInv(RemoveEndpoint(i), m, ended)
    BY <1>3, RemoveKeeps DEF SwitchInv, RemoveEndpoint
  <2>2. endpoints' = RemoveEndpoint(i) /\ next_connection_number' = m /\ ended' = ended
    BY <1>3 DEF RetireConnection
  <2> QED BY <1>2, <2>1, <2>2 DEF SwitchInv, RetireConnection, rotation
<1>4. CASE ~(i > FIXED_ENDPOINTS)
  <2>1. endpoints' = [endpoints EXCEPT ![i] = t] /\ next_connection_number' = m + 1 /\ ended' = ended
    BY <1>1, <1>4 DEF RetireConnection
  <2>2. /\ t \in Endpoint /\ t.stream = e.stream /\ t.role = e.role /\ t.retiring = None
        /\ t.guest_port = e.guest_port /\ t.host_port = e.host_port /\ t.connection_number = m
    BY <1>1, Zenon DEF Endpoint
  <2> HIDE DEF t
  <2>3. EndpointInv(t, i)
    BY <1>1, <1>4, <2>2 DEF EndpointInv
  <2>4. TableInv([endpoints EXCEPT ![i] = t], m + 1, ended)
    BY <2>2, <2>3, RenumberKeeps, Zenon DEF SwitchInv, IsAt
  <2> QED BY <1>2, <2>1, <2>4 DEF SwitchInv, RetireConnection, rotation
<1> QED BY <1>3, <1>4

-----------------------------------------------------------------------------
(* Resetting many endpoints at once.                                       *)

(* The numbers handed out in one pass are distinct and all below the       *)
(* counter afterwards.                                                     *)
LEMMA NumberOfFresh ==
  ASSUME TableInv(endpoints, next_connection_number, ended), NEW first
  PROVE  /\ Cardinality(LiveFrom(first)) \in Nat
         /\ \A i \in LiveFrom(first) :
              /\ NumberOf(first, i) \in Nat
              /\ NumberOf(first, i) >= next_connection_number
              /\ NumberOf(first, i) < next_connection_number + Cardinality(LiveFrom(first))
         /\ \A i, j \in LiveFrom(first) : NumberOf(first, i) = NumberOf(first, j) => i = j
<1> DEFINE L == LiveFrom(first)
           below(i) == {j \in L : j < i}
           m == next_connection_number
<1>1. endpoints \in Seq(Endpoint) /\ m \in Nat
  BY DEF TableInv
<1>2. L \subseteq 1 .. Len(endpoints) /\ L \subseteq Nat
  BY <1>1 DEF LiveFrom
<1>3. IsFiniteSet(L)
  <2>1. IsFiniteSet(1 .. Len(endpoints))
    BY <1>1, FS_Interval
  <2> QED BY <1>2, <2>1, FS_Subset
<1>4. Cardinality(L) \in Nat
  BY <1>3, FS_CardinalityType
<1>5. \A i : NumberOf(first, i) = m + Cardinality(below(i))
  BY DEF NumberOf
<1> HIDE DEF L
<1>6. \A i : IsFiniteSet(below(i)) /\ Cardinality(below(i)) \in Nat
  BY <1>3, FS_Subset, FS_CardinalityType
<1>7. ASSUME NEW S \in SUBSET L, NEW T \in SUBSET S, S # T
      PROVE  Cardinality(T) < Cardinality(S)
  <2>1. IsFiniteSet(S)
    BY <1>3, FS_Subset
  <2>2. IsFiniteSet(T) /\ Cardinality(T) <= Cardinality(S) /\ Cardinality(T) # Cardinality(S)
    BY <1>7, <2>1, FS_Subset
  <2>3. Cardinality(T) \in Nat /\ Cardinality(S) \in Nat
    BY <2>1, <2>2, FS_CardinalityType
  <2> QED BY <2>2, <2>3
<1>8. ASSUME NEW i \in L PROVE Cardinality(below(i)) < Cardinality(L)
  <2>1. below(i) \in SUBSET L /\ i \notin below(i)
    BY <1>2
  <2> QED BY <1>7, <2>1
<1>9. ASSUME NEW i \in L, NEW j \in L, i < j
      PROVE  Cardinality(below(i)) < Cardinality(below(j))
  <2>1. below(i) \in SUBSET below(j) /\ below(j) \in SUBSET L /\ i \in below(j) /\ i \notin below(i)
    <3>1. \A x \in below(i) : x \in L /\ x \in Nat /\ x < i
      BY <1>2
    <3>2. \A x \in below(i) : x < j
      BY <1>2, <1>9, <3>1
    <3>3. below(i) \in SUBSET below(j) /\ below(j) \in SUBSET L
      BY <3>1, <3>2
    <3>4. i \in below(j) /\ i \notin below(i)
      BY <1>2, <1>9
    <3> QED BY <3>3, <3>4
  <2> QED BY <1>7, <2>1
<1>10. ASSUME NEW i \in L
       PROVE  /\ NumberOf(first, i) \in Nat /\ NumberOf(first, i) >= m
              /\ NumberOf(first, i) < m + Cardinality(L)
  <2>1. Cardinality(below(i)) \in Nat
    BY <1>6
  <2>2. Cardinality(below(i)) < Cardinality(L)
    BY <1>8
  <2>3. NumberOf(first, i) = m + Cardinality(below(i))
    BY <1>5
  <2> QED BY <1>1, <1>4, <2>1, <2>2, <2>3
<1>11. ASSUME NEW i \in L, NEW j \in L, NumberOf(first, i) = NumberOf(first, j) PROVE i = j
  <2>1. Cardinality(below(i)) = Cardinality(below(j))
    <3>1. Cardinality(below(i)) \in Nat /\ Cardinality(below(j)) \in Nat
      BY <1>6
    <3>2. m + Cardinality(below(i)) = m + Cardinality(below(j))
      BY <1>5, <1>11
    <3> QED BY <1>1, <3>1, <3>2
  <2>2. ~(i < j) /\ ~(j < i)
    <3>1. Cardinality(below(i)) \in Nat
      BY <1>6
    <3> QED BY <1>9, <2>1, <3>1
  <2> QED BY <1>2, <2>2
<1> QED BY <1>4, <1>10, <1>11 DEF L

(* The table after every live endpoint from index first on was replaced    *)
(* under a fresh number, and the others kept theirs.                       *)
LEMMA EndAllKeeps ==
  ASSUME TableInv(endpoints, next_connection_number, ended), NEW first, EndAll(first),
         DOMAIN endpoints' = DOMAIN endpoints, endpoints' \in Seq(Endpoint),
         Len(endpoints') = Len(endpoints),
         \A i \in DOMAIN endpoints :
           /\ EndpointInv(endpoints'[i], i)
           /\ IsAt(endpoints'[i], endpoints[i].guest_port, endpoints[i].host_port)
           /\ i \in LiveFrom(first) => endpoints'[i].connection_number = NumberOf(first, i)
           /\ i \notin LiveFrom(first) =>
                endpoints'[i].connection_number = endpoints[i].connection_number
  PROVE  TableInv(endpoints, next_connection_number, ended)'
<1> DEFINE L == LiveFrom(first)
           m == next_connection_number
           k == Cardinality(L)
           over == {endpoints[i].connection_number : i \in L}
<1>1. /\ k \in Nat
      /\ \A i \in L : /\ NumberOf(first, i) \in Nat /\ NumberOf(first, i) >= m
                       /\ NumberOf(first, i) < m + k
      /\ \A i, j \in L : NumberOf(first, i) = NumberOf(first, j) => i = j
  BY NumberOfFresh, Zenon
<1>2. m \in Nat /\ next_connection_number' = m + k /\ ended' = ended \cup over
      /\ L \subseteq DOMAIN endpoints
  BY Zenon DEF EndAll, TableInv, LiveFrom
<1>3. /\ \A j \in DOMAIN endpoints : endpoints[j].connection_number \in Nat
                                      /\ endpoints[j].connection_number < m
      /\ \A n \in ended : n \in Nat /\ n < m
  BY NumbersBelow
<1> HIDE DEF L, k
<1>4. \A n \in ended' : n \in Nat /\ n < m
  BY <1>2, <1>3
<1>5. \A i \in DOMAIN endpoints : endpoints'[i].connection_number < m + k
  <2> SUFFICES ASSUME NEW i \in DOMAIN endpoints
               PROVE  endpoints'[i].connection_number < m + k
    OBVIOUS
  <2>1. CASE i \in L
    <3>1. endpoints'[i].connection_number = NumberOf(first, i)
      BY <2>1, Zenon DEF L
    <3> QED BY <1>1, <2>1, <3>1, Zenon
  <2>2. CASE i \notin L
    <3>1. endpoints'[i].connection_number = endpoints[i].connection_number
      BY <2>2 DEF L
    <3>2. endpoints[i].connection_number \in Nat /\ endpoints[i].connection_number < m
      BY <1>3, Zenon
    <3> QED BY <1>1, <1>2, <3>1, <3>2, BelowTheNext, Zenon
  <2> QED BY <2>1, <2>2
<1>6. ASSUME NEW i \in DOMAIN endpoints PROVE endpoints'[i].connection_number \notin ended'
  <2>1. CASE i \in L
    <3>1. endpoints'[i].connection_number = NumberOf(first, i)
      BY <2>1 DEF L
    <3>2. NumberOf(first, i) >= m /\ NumberOf(first, i) \in Nat
      BY <1>1, <2>1, Zenon
    <3> QED BY <1>2, <1>4, <3>1, <3>2
  <2>2. CASE i \notin L
    <3>1. endpoints'[i].connection_number = endpoints[i].connection_number
      BY <2>2 DEF L
    <3>2. endpoints[i].connection_number \notin ended
      BY Zenon DEF TableInv
    <3>3. endpoints[i].connection_number \notin over
      <4>1. \A j \in L : endpoints[j].connection_number # endpoints[i].connection_number
        BY <1>2, <2>2, Zenon DEF TableInv
      <4> QED BY <4>1, Zenon
    <3> QED BY <1>2, <3>1, <3>2, <3>3, Zenon
  <2> QED BY <2>1, <2>2
<1>7. ASSUME NEW i \in DOMAIN endpoints, NEW j \in DOMAIN endpoints,
             endpoints'[i].connection_number = endpoints'[j].connection_number
      PROVE  i = j
  <2>1. CASE i \in L /\ j \in L
    BY <1>1, <1>7, <2>1, Zenon DEF L
  <2>2. CASE i \notin L /\ j \notin L
    <3>1. endpoints[i].connection_number = endpoints[j].connection_number
      BY <1>7, <2>2, Zenon DEF L
    <3> QED BY <3>1, Zenon DEF TableInv
  <2>3. ASSUME NEW a \in DOMAIN endpoints, NEW b \in DOMAIN endpoints, a \in L, b \notin L,
               endpoints'[a].connection_number = endpoints'[b].connection_number
        PROVE  FALSE
    <3>1. NumberOf(first, a) = endpoints[b].connection_number
      BY <2>3, Zenon DEF L
    <3>2. NumberOf(first, a) \in Nat /\ NumberOf(first, a) >= m
      BY <1>1, <2>3, Zenon
    <3>3. endpoints[b].connection_number < m
      BY <1>3, Zenon
    <3> QED BY <1>2, <3>1, <3>2, <3>3
  <2> QED BY <1>7, <2>1, <2>2, <2>3, Zenon
<1>8. \A i, j \in DOMAIN endpoints :
        IsAt(endpoints'[i], endpoints'[j].guest_port, endpoints'[j].host_port) => i = j
  BY Zenon DEF TableInv, IsAt
<1>9. /\ m + k \in Nat /\ ended' \in SUBSET Nat /\ \A n \in ended' : n < m + k
      /\ Len(endpoints') \in FIXED_ENDPOINTS .. FIXED_ENDPOINTS + NetworkSocketCapacity
  <2>1. \A n \in ended' : n < m + k
    <3> SUFFICES ASSUME NEW n \in ended' PROVE n < m + k
      OBVIOUS
    <3>1. n \in Nat /\ n < m
      BY <1>4
    <3> QED BY <1>1, <1>2, <3>1
  <2>2. m + k \in Nat /\ ended' \in SUBSET Nat
    <3>1. m + k \in Nat
      BY <1>1, <1>2
    <3>2. ended' \subseteq Nat
      BY <1>4, Zenon
    <3> QED BY <3>1, <3>2, Zenon
  <2>3. Len(endpoints') \in FIXED_ENDPOINTS .. FIXED_ENDPOINTS + NetworkSocketCapacity
    BY Zenon DEF TableInv
  <2> QED BY <2>1, <2>2, <2>3, Zenon
<1>10. TableInv(endpoints', m + k, ended')
  BY <1>5, <1>6, <1>7, <1>8, <1>9, Zenon DEF TableInv
<1> QED BY <1>2, <1>10, Zenon

(* A reset of all connections (reset_connections) is that of each live     *)
(* row.                                                                    *)
LEMMA ResetConnectionsAction ==
  ASSUME SwitchInv, ResetConnections
  PROVE  SwitchInv'
<1> DEFINE L == LiveFrom(1)
           a(i) == IF i \in L THEN Retired(endpoints[i], NumberOf(1, i)) ELSE endpoints[i]
           t(i) == [a(i) EXCEPT !.stream.replies = <<>>]
<1>0. TableInv(endpoints, next_connection_number, ended) /\ endpoints \in Seq(Endpoint)
      /\ \A i \in DOMAIN endpoints : EndpointInv(endpoints[i], i)
  BY DEF SwitchInv, TableInv
<1>1. /\ EndAll(1) /\ endpoints' = [i \in DOMAIN endpoints |-> t(i)] /\ rejected' = <<>>
      /\ UNCHANGED <<network_enabled, next_reply, next_flow_reply>>
  BY Zenon DEF ResetConnections, rotation
<1>2. ASSUME NEW i \in DOMAIN endpoints
      PROVE  /\ EndpointInv(t(i), i)
             /\ IsAt(t(i), endpoints[i].guest_port, endpoints[i].host_port)
             /\ i \in L => t(i).connection_number = NumberOf(1, i)
             /\ i \notin L => t(i).connection_number = endpoints[i].connection_number
  <2> DEFINE e == endpoints[i]
             b == a(i)
             s == [b.stream EXCEPT !.replies = <<>>]
  <2>1. EndpointInv(e, i) /\ i \in Nat /\ i >= 1
    BY <1>0
  <2>2. /\ EndpointInv(b, i) /\ IsAt(b, e.guest_port, e.host_port) /\ ~IsLive(b.stream)
        /\ i \in L => b.connection_number = NumberOf(1, i)
        /\ i \notin L => b.connection_number = e.connection_number
    <3>1. CASE i \in L
      <4>1. IsLive(e.stream)
        BY <3>1 DEF LiveFrom
      <4>2. e \in Endpoint /\ BaseInv(e.stream) /\ e.stream.role = e.role /\ e.retiring = None
        BY <2>1, <4>1 DEF EndpointInv, StreamInv
      <4>3. NumberOf(1, i) \in Nat
        BY <1>0, <3>1, NumberOfFresh, Zenon
      <4>4. /\ EndpointInv(b, i) /\ IsAt(b, e.guest_port, e.host_port)
            /\ b.connection_number = NumberOf(1, i)
        BY <3>1, <4>2, <4>3, RetiredKeeps, Zenon
      <4>5. ~IsLive(b.stream)
        <5>1. b.stream = RetireStream(e.stream)
          BY <3>1, <4>2, Zenon DEF Retired, Endpoint
        <5> QED BY <4>2, <5>1, RetireKeeps
      <4> QED BY <3>1, <4>4, <4>5
    <3>2. CASE i \notin L
      BY <2>1, <3>2 DEF LiveFrom, IsAt
    <3> QED BY <3>1, <3>2, Zenon
  <2> HIDE DEF b
  <2>3. StreamInv(s) /\ SameConnection(b.stream, s) /\ s.replies = <<>>
    BY <2>2, ClearKeeps DEF EndpointInv
  <2>4. t(i) = [b EXCEPT !.stream = s]
    BY Zenon DEF b
  <2> HIDE DEF s
  <2>5. b \in Endpoint /\ s \in Stream
    BY <2>2, <2>3 DEF EndpointInv, StreamInv, BaseInv
  <2>6. /\ t(i) \in Endpoint /\ t(i).stream = s /\ t(i).role = b.role /\ t(i).retiring = b.retiring
        /\ t(i).guest_port = b.guest_port /\ t(i).host_port = b.host_port
        /\ t(i).connection_number = b.connection_number
    BY <2>4, <2>5, Zenon DEF Endpoint
  <2> HIDE DEF t
  <2>7. EndpointInv(t(i), i)
    <3>1. IsLive(s) <=> IsLive(b.stream)
      BY <2>3, Zenon DEF SameConnection, IsLive
    <3>2. s.role = b.role
      BY <2>2, <2>3 DEF SameConnection, EndpointInv
    <3>3. \A k \in DOMAIN s.replies : s.replies[k].op = "RST"
      BY <2>3
    <3>4. /\ i > FIXED_ENDPOINTS => IsLive(b.stream) \/ b.retiring # None
          /\ b.retiring # None => ~IsLive(b.stream)
      BY <2>2 DEF EndpointInv
    <3> QED BY <2>3, <2>6, <3>1, <3>2, <3>3, <3>4, Zenon DEF EndpointInv
  <2> QED BY <2>2, <2>6, <2>7 DEF IsAt
<1> HIDE DEF t
<1>3. /\ DOMAIN endpoints' = DOMAIN endpoints /\ endpoints' \in Seq(Endpoint)
      /\ Len(endpoints') = Len(endpoints)
      /\ \A i \in DOMAIN endpoints : endpoints'[i] = t(i)
  <2>1. \A i \in DOMAIN endpoints : t(i) \in Endpoint
    BY <1>2 DEF EndpointInv
  <2> QED BY <1>0, <1>1, <2>1
<1>4. TableInv(endpoints, next_connection_number, ended)'
  BY <1>0, <1>1, <1>2, <1>3, EndAllKeeps, Zenon
<1>5. rejected' \in Seq(Rejection) /\ Len(rejected') <= MAX_REJECTED_RESETS
  BY <1>1, SwitchAssumption
<1> QED BY <1>1, <1>4, <1>5, Zenon DEF SwitchInv

(* A network that ends (disable_network) retires the rows after the fixed  *)
(* ones.                                                                   *)
LEMMA DisableNetworkAction ==
  ASSUME SwitchInv, DisableNetwork
  PROVE  SwitchInv'
<1> DEFINE L == LiveFrom(FIXED_ENDPOINTS)
           t(i) == IF i \in L THEN ResetEndpoint(endpoints[i], NumberOf(FIXED_ENDPOINTS, i))
                   ELSE endpoints[i]
<1>0. TableInv(endpoints, next_connection_number, ended) /\ endpoints \in Seq(Endpoint)
      /\ \A i \in DOMAIN endpoints : EndpointInv(endpoints[i], i)
  BY DEF SwitchInv, TableInv
<1>1. /\ EndAll(FIXED_ENDPOINTS) /\ endpoints' = [i \in DOMAIN endpoints |-> t(i)]
      /\ network_enabled' = FALSE /\ UNCHANGED <<next_reply, next_flow_reply, rejected>>
  BY Zenon DEF DisableNetwork, rotation
<1>2. ASSUME NEW i \in DOMAIN endpoints
      PROVE  /\ EndpointInv(t(i), i)
             /\ IsAt(t(i), endpoints[i].guest_port, endpoints[i].host_port)
             /\ i \in L => t(i).connection_number = NumberOf(FIXED_ENDPOINTS, i)
             /\ i \notin L => t(i).connection_number = endpoints[i].connection_number
  <2>1. CASE i \in L
    <3>1. IsLive(endpoints[i].stream)
      BY <2>1 DEF LiveFrom
    <3>2. NumberOf(FIXED_ENDPOINTS, i) \in Nat
      BY <1>0, <2>1, NumberOfFresh, Zenon
    <3> QED BY <1>0, <2>1, <3>1, <3>2, ResetEndpointKeeps, Zenon
  <2>2. CASE i \notin L
    BY <1>0, <2>2 DEF IsAt
  <2> QED BY <2>1, <2>2
<1> HIDE DEF t
<1>3. /\ DOMAIN endpoints' = DOMAIN endpoints /\ endpoints' \in Seq(Endpoint)
      /\ Len(endpoints') = Len(endpoints)
      /\ \A i \in DOMAIN endpoints : endpoints'[i] = t(i)
  <2>1. \A i \in DOMAIN endpoints : t(i) \in Endpoint
    BY <1>2 DEF EndpointInv
  <2> QED BY <1>0, <1>1, <2>1
<1>4. TableInv(endpoints, next_connection_number, ended)'
  BY <1>0, <1>1, <1>2, <1>3, EndAllKeeps
<1> QED BY <1>1, <1>4, Zenon DEF SwitchInv

-----------------------------------------------------------------------------
(* Replies leaving.                                                        *)

(* A remainder is below its divisor.                                       *)
LEMMA ModRange ==
  ASSUME NEW a \in Nat, NEW n \in Nat \ {0}
  PROVE  a % n \in Nat /\ a % n < n
OBVIOUS

(* The flow that take_flow_reply settles on exists and its head fits.      *)
LEMMA FlowServedProperty ==
  ASSUME SwitchInv, NEW max, FlowServed(max) # None
  PROVE  /\ FlowServed(max) \in DOMAIN endpoints
         /\ FlowServed(max) > FIXED_ENDPOINTS
         /\ NetworkSocketCount \in Nat \ {0}
         /\ CanTake(endpoints[FlowServed(max)].stream, max)
<1> DEFINE n == NetworkSocketCount
           fits == {o \in 0 .. n - 1 : CanTake(endpoints[FlowAt(o)].stream, max)}
           c == CHOOSE o \in fits : \A p \in fits : o <= p
<1>1. endpoints \in Seq(Endpoint) /\ n = Len(endpoints) - 2 /\ n \in Nat /\ next_flow_reply \in Nat
  BY SwitchAssumption DEF SwitchInv, TableInv, NetworkSocketCount, FIXED_ENDPOINTS
<1>2. fits # {} /\ FlowServed(max) = FlowAt(c)
  BY DEF FlowServed
<1> HIDE DEF n
<1>3. fits \subseteq Nat
  BY <1>1
<1>4. \E o \in fits : \A p \in fits : o <= p
  BY <1>2, <1>3, NatWellOrdered, Zenon
<1>5. c \in fits
  BY <1>4
<1>6. c \in 0 .. n - 1 /\ CanTake(endpoints[FlowAt(c)].stream, max)
  BY <1>5
<1> HIDE DEF c, fits
<1>7. n # 0 /\ next_flow_reply + c \in Nat
  BY <1>1, <1>6
<1>8. (next_flow_reply + c) % n \in Nat /\ (next_flow_reply + c) % n < n
  BY <1>1, <1>7, ModRange
<1>9. FlowAt(c) = 3 + ((next_flow_reply + c) % n)
  BY <1>8 DEF FlowAt, n, FIXED_ENDPOINTS
<1>10. FlowAt(c) \in 1 .. Len(endpoints) /\ FlowAt(c) > 2
  BY <1>1, <1>8, <1>9
<1> QED BY <1>1, <1>2, <1>6, <1>7, <1>10 DEF n, FIXED_ENDPOINTS

(* Whatever class is served, its endpoint exists and its head fits.        *)
LEMMA ClassServedProperty ==
  ASSUME SwitchInv, NEW max, NEW class \in 0 .. REPLY_CLASSES - 1, ClassServed(class, max) # None
  PROVE  /\ ClassServed(class, max) \in DOMAIN endpoints
         /\ CanTake(endpoints[ClassServed(class, max)].stream, max)
         /\ class = FIXED_ENDPOINTS => /\ NetworkSocketCount \in Nat \ {0}
                                       /\ ClassServed(class, max) > FIXED_ENDPOINTS
<1>1. CASE class = FIXED_ENDPOINTS
  <2>1. ClassServed(class, max) = FlowServed(max)
    BY <1>1 DEF ClassServed
  <2> QED BY <2>1, FlowServedProperty
<1>2. CASE class # FIXED_ENDPOINTS
  <2>1. class \in {0, 1}
    BY <1>2 DEF REPLY_CLASSES, FIXED_ENDPOINTS
  <2>2. endpoints \in Seq(Endpoint) /\ Len(endpoints) >= 2
    BY TableFacts
  <2>3. ClassServed(class, max) = class + 1 /\ CanTake(endpoints[class + 1].stream, max)
    BY <1>2, Zenon DEF ClassServed
  <2> QED BY <1>2, <2>1, <2>2, <2>3
<1> QED BY <1>1, <1>2

(* The rotation of take_reply picks a class that has something to send.    *)
LEMMA NextClassProperty ==
  ASSUME SwitchInv, NEW max, NextClass(max) # None
  PROVE  NextClass(max) \in 0 .. REPLY_CLASSES - 1 /\ ClassServed(NextClass(max), max) # None
<1> DEFINE at(o) == (next_reply + o) % REPLY_CLASSES
           ready == {o \in 0 .. REPLY_CLASSES - 1 : ClassServed(at(o), max) # None}
           c == CHOOSE o \in ready : \A p \in ready : o <= p
<1>1. ready # {} /\ NextClass(max) = at(c)
  BY DEF NextClass
<1>2. ready \subseteq Nat
  BY DEF REPLY_CLASSES, FIXED_ENDPOINTS
<1>3. \E o \in ready : \A p \in ready : o <= p
  BY <1>1, <1>2, NatWellOrdered, Zenon
<1>4. c \in ready
  BY <1>3
<1>5. c \in Nat /\ ClassServed(at(c), max) # None
  BY <1>2, <1>4, Zenon
<1> HIDE DEF c, ready
<1>6. at(c) \in 0 .. REPLY_CLASSES - 1
  <2>1. next_reply \in Nat
    BY DEF SwitchInv, REPLY_CLASSES, FIXED_ENDPOINTS
  <2> QED BY <1>5, <2>1 DEF REPLY_CLASSES, FIXED_ENDPOINTS
<1> QED BY <1>1, <1>5, <1>6

(* A reply taken from an endpoint (take_reply) is one method of its        *)
(* stream.                                                                 *)
LEMMA TakeEndpointReplyAction ==
  ASSUME SwitchInv, NEW max, TakeEndpointReply(max)
  PROVE  SwitchInv'
<1> DEFINE class == NextClass(max)
           i == ClassServed(class, max)
           e == endpoints[i]
           s == StreamTake(e.stream)
           t == [e EXCEPT !.stream = s]
<1>1. class \in 0 .. REPLY_CLASSES - 1 /\ i # None
  BY NextClassProperty DEF TakeEndpointReply
<1>2. /\ endpoints' = [endpoints EXCEPT ![i].stream = StreamTake(@)]
      /\ next_reply' = (class + 1) % REPLY_CLASSES
      /\ next_flow_reply' = IF class = FIXED_ENDPOINTS
                            THEN (i - FIXED_ENDPOINTS) % NetworkSocketCount
                            ELSE next_flow_reply
      /\ UNCHANGED <<next_connection_number, network_enabled, rejected, ended>>
  BY DEF TakeEndpointReply
<1>3. /\ i \in DOMAIN endpoints /\ CanTake(e.stream, max)
      /\ class = FIXED_ENDPOINTS => NetworkSocketCount \in Nat \ {0} /\ i > FIXED_ENDPOINTS
  BY <1>1, ClassServedProperty
<1> HIDE DEF class, i
<1>4. EndpointInv(e, i) /\ i \in Nat /\ endpoints \in Seq(Endpoint) /\ e.stream.replies # <<>>
  BY <1>3, TableFacts DEF CanTake
<1>5. StreamInv(s) /\ SameConnection(e.stream, s) /\ s.replies = Tail(e.stream.replies)
  BY <1>4, TakeKeeps, Zenon DEF EndpointInv
<1>6. endpoints' = [endpoints EXCEPT ![i] = t]
  BY <1>2, <1>3, <1>4
<1> HIDE DEF s
<1>7. s \in Stream /\ e \in Endpoint /\ e.stream.replies \in Seq(Reply)
  BY <1>4, <1>5, Zenon DEF StreamInv, BaseInv, EndpointInv, Endpoint, Stream
<1>8. /\ t \in Endpoint /\ t.stream = s /\ t.role = e.role /\ t.retiring = e.retiring
      /\ t.guest_port = e.guest_port /\ t.host_port = e.host_port
      /\ t.connection_number = e.connection_number
  BY <1>7 DEF Endpoint
<1> HIDE DEF t
<1>9. \A k \in DOMAIN s.replies : k + 1 \in DOMAIN e.stream.replies
                                  /\ s.replies[k] = e.stream.replies[k + 1]
  <2> DEFINE q == e.stream.replies
  <2>1. q \in Seq(Reply) /\ q # <<>> /\ s.replies = Tail(q)
    BY <1>4, <1>5, <1>7
  <2> HIDE DEF q
  <2>2. /\ \A k \in DOMAIN Tail(q) : k + 1 \in DOMAIN q /\ Tail(q)[k] = q[k + 1]
    BY <2>1
  <2> QED BY <2>1, <2>2, Zenon DEF q
<1>10. EndpointInv(t, i)
  BY <1>4, <1>5, <1>8, <1>9, Zenon DEF EndpointInv, SameConnection, IsLive
<1>11. TableInv([endpoints EXCEPT ![i] = t], next_connection_number, ended)
  BY <1>3, <1>8, <1>10, ReplaceKeeps DEF SwitchInv, IsAt
<1>12. next_reply' \in 0 .. REPLY_CLASSES - 1
  BY <1>1, <1>2 DEF REPLY_CLASSES, FIXED_ENDPOINTS
<1>13. next_flow_reply' \in Nat
  <2>1. CASE class = FIXED_ENDPOINTS
    <3>1. i - FIXED_ENDPOINTS \in Nat
      <4>1. i > FIXED_ENDPOINTS /\ i \in Nat
        BY <1>3, <1>4, <2>1, Zenon
      <4> QED BY <4>1 DEF FIXED_ENDPOINTS
    <3> QED BY <1>2, <1>3, <2>1, <3>1, ModRange, Zenon
  <2> QED BY <1>2, <2>1 DEF SwitchInv
<1> QED BY <1>2, <1>6, <1>11, <1>12, <1>13, Zenon DEF SwitchInv

(* A rejection that was sent leaves the queue of rejections and nothing    *)
(* else.                                                                   *)
LEMMA TakeRejectedAction ==
  ASSUME SwitchInv, NEW max, TakeRejected(max)
  PROVE  SwitchInv'
<1>1. rejected \in Seq(Rejection) /\ rejected # <<>> /\ rejected' = Tail(rejected)
      /\ Len(rejected) <= MAX_REJECTED_RESETS
  BY DEF TakeRejected, SwitchInv
<1>2. rejected' \in Seq(Rejection) /\ Len(rejected') <= MAX_REJECTED_RESETS
  BY <1>1, SwitchAssumption
<1> QED BY <1>2 DEF TakeRejected, SwitchInv, rotation

-----------------------------------------------------------------------------
(* A new switch has its fixed endpoints, without connections.              *)
LEMMA InitSwitchInv == Init => SwitchInv
<1> SUFFICES ASSUME Init PROVE SwitchInv
  OBVIOUS
<1> DEFINE a == NewEndpoint("Agent", AGENT_PORT, AGENT_PORT, 1)
           b == NewEndpoint("Control", CONTROL_PORT, CONTROL_PORT, 2)
<1>1. /\ "Agent" \in Role /\ "Control" \in Role /\ AGENT_PORT \in Port /\ CONTROL_PORT \in Port
      /\ AGENT_PORT # CONTROL_PORT
  BY DEF Role, Port, AGENT_PORT, CONTROL_PORT
<1>2. /\ StreamInv(NewStream("Agent")) /\ ~IsLive(NewStream("Agent"))
      /\ StreamInv(NewStream("Control")) /\ ~IsLive(NewStream("Control"))
  BY <1>1, RequestKeeps, Zenon
<1>3. /\ NewStream("Agent") \in Stream /\ NewStream("Agent").role = "Agent"
      /\ NewStream("Control") \in Stream /\ NewStream("Control").role = "Control"
  BY <1>2, Zenon DEF StreamInv, BaseInv, NewStream
<1>4. /\ a \in Endpoint /\ a.role = "Agent" /\ a.stream = NewStream("Agent") /\ a.retiring = None
      /\ a.guest_port = AGENT_PORT /\ a.host_port = AGENT_PORT /\ a.connection_number = 1
      /\ b \in Endpoint /\ b.role = "Control" /\ b.stream = NewStream("Control")
      /\ b.retiring = None /\ b.guest_port = CONTROL_PORT /\ b.host_port = CONTROL_PORT
      /\ b.connection_number = 2
  BY <1>1, <1>3 DEF NewEndpoint, Endpoint
<1>5. endpoints = <<a, b>> /\ next_connection_number = 3 /\ ended = {}
  BY Zenon DEF Init
<1> HIDE DEF a, b
<1>6. EndpointInv(a, 1) /\ EndpointInv(b, 2)
  <2>1. ~(1 > FIXED_ENDPOINTS) /\ ~(2 > FIXED_ENDPOINTS)
    BY DEF FIXED_ENDPOINTS
  <2>2. /\ StreamInv(a.stream) /\ a.stream.role = a.role
        /\ StreamInv(b.stream) /\ b.stream.role = b.role
    BY <1>2, <1>3, <1>4
  <2> QED BY <1>4, <2>1, <2>2 DEF EndpointInv
<1>7. TableInv(<<a, b>>, 3, {})
  <2>1. <<a, b>> \in Seq(Endpoint) /\ Len(<<a, b>>) = 2 /\ DOMAIN <<a, b>> = {1, 2}
    BY <1>4
  <2>2. Len(<<a, b>>) \in FIXED_ENDPOINTS .. FIXED_ENDPOINTS + NetworkSocketCapacity
    BY <2>1, SwitchAssumption DEF FIXED_ENDPOINTS
  <2> DEFINE p == <<a, b>>
  <2>3. p[1] = a /\ p[2] = b
    OBVIOUS
  <2> HIDE DEF p
  <2>4. \A i \in {1, 2} : EndpointInv(p[i], i) /\ p[i].connection_number = i
    BY <1>4, <1>6, <2>3, Zenon
  <2>5. p[1].guest_port # p[2].guest_port
    BY <1>1, <1>4, <2>3
  <2>6. \A i, j \in {1, 2} : IsAt(p[i], p[j].guest_port, p[j].host_port) => i = j
    BY <2>5 DEF IsAt
  <2>7. \A i \in {1, 2} : p[i].connection_number < 3
    BY <2>4
  <2> QED BY <2>1, <2>2, <2>4, <2>6, <2>7, Zenon DEF TableInv, p
<1>8. rejected \in Seq(Rejection) /\ Len(rejected) <= MAX_REJECTED_RESETS
  BY SwitchAssumption DEF Init
<1> QED BY <1>5, <1>7, <1>8, SwitchAssumption DEF SwitchInv, Init, REPLY_CLASSES, FIXED_ENDPOINTS

(* Every step of the switch keeps the invariant.                           *)
LEMMA NextSwitchInv == SwitchInv /\ [Next]_vars => SwitchInv'
<1> SUFFICES ASSUME SwitchInv, [Next]_vars PROVE SwitchInv'
  OBVIOUS
<1>1. ASSUME NEW p \in GuestPairs, NEW h \in Headers,
             \/ RxUnserved(p[1], p[2], h) \/ RxRefused(p[1], p[2], h)
             \/ RxAdmitted(p[1], p[2], h) \/ RxRetiring(p[1], p[2], h)
             \/ RxEndpoint(p[1], p[2], h)
      PROVE  SwitchInv'
  <2>1. CASE Reject(p[1], p[2], h)
    BY <2>1, RejectAction
  <2>2. CASE RxAdmitted(p[1], p[2], h)
    BY <2>2, RxAdmittedAction
  <2>3. CASE RxEndpoint(p[1], p[2], h)
    BY <2>3, RxEndpointAction
  <2> QED BY <1>1, <2>1, <2>2, <2>3 DEF RxUnserved, RxRefused, RxRetiring
<1>2. ASSUME NEW port \in PublicationHostPorts, ConnectPublication(port) PROVE SwitchInv'
  BY <1>2, ConnectPublicationAction
<1>3. ASSUME NEW i \in DOMAIN endpoints, NEW len \in SendLengths, SwitchDeliver(i, len)
      PROVE  SwitchInv'
  <2>1. len \in Nat
    BY SwitchAssumption, Zenon
  <2> QED BY <1>3, <2>1, HostCallAction, DeliverKeeps DEF SwitchDeliver
<1>4. ASSUME NEW i \in DOMAIN endpoints, NEW max \in ReadLengths, ConsumeUpstream(i, max)
      PROVE  SwitchInv'
  <2>1. max \in Nat
    BY SwitchAssumption
  <2> QED BY <1>4, <2>1, HostCallAction, ConsumeKeeps DEF ConsumeUpstream
<1>5. ASSUME NEW i \in DOMAIN endpoints, SwitchShutdown(i) PROVE SwitchInv'
  BY <1>5, HostCallAction, ShutdownKeeps DEF SwitchShutdown
<1>6. ASSUME NEW i \in DOMAIN endpoints, SwitchRequestCredit(i) PROVE SwitchInv'
  BY <1>6, HostCallAction, RequestCreditKeeps DEF SwitchRequestCredit
<1>7. ASSUME NEW i \in DOMAIN endpoints, ResetConnection(i) PROVE SwitchInv'
  BY <1>7, ResetConnectionAction
<1>8. ASSUME NEW i \in DOMAIN endpoints, RetireConnection(i) PROVE SwitchInv'
  BY <1>8, RetireConnectionAction
<1>9. ASSUME NEW max \in ReadLengths, TakeReply(max) PROVE SwitchInv'
  BY <1>9, TakeEndpointReplyAction, TakeRejectedAction DEF TakeReply
<1>10. CASE ResetConnections
  BY <1>10, ResetConnectionsAction
<1>11. CASE DisableNetwork
  BY <1>11, DisableNetworkAction
<1>12. CASE UNCHANGED vars
  BY <1>12 DEF vars, SwitchInv
<1> QED BY <1>1, <1>2, <1>3, <1>4, <1>5, <1>6, <1>7, <1>8, <1>9, <1>10, <1>11, <1>12, Zenon
        DEF Next, Rx

(* The invariant holds in every state of the switch.                       *)
LEMMA SwitchCorrect == Spec => []SwitchInv
<1>1. Init => SwitchInv
  BY InitSwitchInv
<1>2. SwitchInv /\ [Next]_vars => SwitchInv'
  BY NextSwitchInv
<1> QED BY <1>1, <1>2, PTL DEF Spec

(* Types, queue limits and the capacity of the flow table, for any guest.  *)
THEOREM SwitchTypeOK == Spec => []TypeOK
BY SwitchCorrect, SwitchInvImplies, PTL

(* Counters and buffers of every stream agree and stay within the window   *)
(* and the budget of the stream's role, across the wrap of the counters.   *)
THEOREM SwitchFlowControl ==
  Spec => [](ReceiveWindowHolds /\ SendBudgetHolds /\ CreditReportedHolds)
BY SwitchCorrect, SwitchInvImplies, PTL

(* No payload follows the host's shutdown, goes to a closed receiver or    *)
(* outlives its connection.                                                *)
THEOREM SwitchDataBeforeClose == Spec => []DataBeforeCloseHolds
BY SwitchCorrect, SwitchInvImplies, PTL

(* A slot of the flow table is held by a live or a retiring connection,    *)
(* and a port pair by one endpoint.                                        *)
THEOREM SwitchSlotsAreOwned == Spec => []SlotsAreOwned
BY SwitchCorrect, SwitchInvImplies, PTL

(* A number of a connection that is over never names another connection.   *)
THEOREM SwitchNumbersAreFresh == Spec => []NumbersAreFresh
BY SwitchCorrect, SwitchInvImplies, PTL
=============================================================================
