----------------------- MODULE StreamConnectionProofs -----------------------
(***************************************************************************)
(* Every method of StreamConnection keeps the stream's invariants, for     *)
(* every window, budget, queue length and counter width.                   *)
(***************************************************************************)
EXTENDS StreamConnection, WellFoundedInduction, TLAPS

-----------------------------------------------------------------------------
(* Queues.                                                                 *)

(* A non-empty set of naturals has a least element.                        *)
LEMMA NatWellOrdered ==
  ASSUME NEW T \in SUBSET Nat, T # {}
  PROVE  \E m \in T : \A n \in T : m <= n
<1> DEFINE R == OpToRel(<, Nat)
<1>1. \A x, y \in Nat : <<y, x>> \in R <=> y < x
  BY Zenon DEF OpToRel
<1>2. IsWellFoundedOn(R, Nat)
  BY NatLessThanWellFounded, Zenon
<1> HIDE DEF R
<1>3. PICK x \in T : \A y \in T : ~ (<<y, x>> \in R)
  BY <1>2, WFMin, Zenon
<1>4. \A y \in T : ~(y < x)
  BY <1>1, <1>3, Zenon
<1> QED BY <1>4

(* Induction over the naturals, for a property given as a set.             *)
LEMMA NatSetInduction ==
  ASSUME NEW G, 0 \in G, \A n \in Nat : n \in G => n + 1 \in G
  PROVE  Nat \subseteq G
<1> SUFFICES ASSUME Nat \ G # {} PROVE FALSE
  OBVIOUS
<1>1. PICK m \in Nat \ G : \A n \in Nat \ G : m <= n
  BY NatWellOrdered, Zenon
<1>2. m # 0 /\ m - 1 \in Nat /\ m - 1 \notin G
  BY <1>1
<1> QED BY <1>1, <1>2

(* Retain returns elements of the queue at kept positions, and no more of   *)
(* them than there were.                                                   *)
LEMMA RetainProperty ==
  ASSUME NEW S, NEW q \in Seq(S), NEW keep
  PROVE  /\ Retain(q, keep) \in Seq(S)
         /\ Len(Retain(q, keep)) <= Len(q)
         /\ \A k \in DOMAIN Retain(q, keep) :
              \E j \in keep \cap DOMAIN q : Retain(q, keep)[k] = q[j]
<1> DEFINE D == 0 .. Len(q)
           T == {q[j] : j \in keep \cap DOMAIN q}
           Step(f, i) == IF i = 0 THEN <<>>
                         ELSE IF i \in keep THEN Append(f[i - 1], q[i])
                         ELSE f[i - 1]
           Good(f, n) == \A i \in 0 .. n : f[i] = Step(f, i) /\ f[i] \in Seq(T) /\ Len(f[i]) <= i
           Ex(n) == \E f : f = [i \in 0 .. n |-> f[i]] /\ Good(f, n)
           G == {n \in Nat : n \in D => Ex(n)}
<1>1. 0 \in G
  <2> DEFINE f == [i \in 0 .. 0 |-> <<>>]
  <2>1. f = [i \in 0 .. 0 |-> f[i]] /\ Good(f, 0)
    OBVIOUS
  <2> QED BY <2>1, Zenon
<1>2. ASSUME NEW n \in Nat, n \in G PROVE n + 1 \in G
  <2> HIDE DEF Ex
  <2> SUFFICES ASSUME n + 1 \in D PROVE Ex(n + 1)
    OBVIOUS
  <2>0. Ex(n)
    BY <1>2
  <2> USE DEF Ex
  <2> HIDE DEF Good, G
  <2>1. PICK g : g = [i \in 0 .. n |-> g[i]] /\ Good(g, n)
    BY <2>0
  <2> USE DEF Good
  <2> DEFINE f == [i \in 0 .. n + 1 |-> IF i = n + 1 THEN Step(g, n + 1) ELSE g[i]]
  <2>2. n + 1 \in keep => q[n + 1] \in T
    OBVIOUS
  <2>3. Step(g, n + 1) \in Seq(T) /\ Len(Step(g, n + 1)) <= n + 1
    <3> HIDE DEF T
    <3>1. g[n] \in Seq(T) /\ Len(g[n]) <= n
      BY <2>1
    <3>2. Step(g, n + 1) = IF n + 1 \in keep THEN Append(g[n], q[n + 1]) ELSE g[n]
      OBVIOUS
    <3> QED BY <3>1, <3>2, <2>2
  <2>4. Good(f, n + 1)
    <3> SUFFICES ASSUME NEW i \in 0 .. n + 1
                 PROVE  f[i] = Step(f, i) /\ f[i] \in Seq(T) /\ Len(f[i]) <= i
      BY Zenon
    <3>1. CASE i = n + 1
      BY <3>1, <2>3
    <3>2. CASE i # n + 1
      <4>1. i \in 0 .. n /\ f[i] = g[i] /\ (i # 0 => f[i - 1] = g[i - 1])
        BY <3>2
      <4> QED BY <4>1, <2>1, Zenon
    <3> QED BY <3>1, <3>2
  <2> HIDE DEF Good
  <2> QED BY <2>4
<1>3. Len(q) \in G /\ Len(q) \in D
  <2> HIDE DEF G
  <2> QED BY <1>1, <1>2, NatSetInduction
<1>4. PICK f : f = [i \in 0 .. Len(q) |-> f[i]] /\ Good(f, Len(q))
  BY <1>3, Zenon
<1>5. f = [i \in D |-> Step(f, i)]
  BY <1>4
<1> DEFINE F == CHOOSE h : h = [i \in D |-> Step(h, i)]
<1>6. F = [i \in D |-> Step(F, i)]
  BY <1>5, Zenon
<1>7. Retain(q, keep) = F[Len(q)]
  BY DEF Retain
<1> HIDE DEF F
<1>8. \A i \in D : F[i] \in Seq(T) /\ Len(F[i]) <= i
  <2> DEFINE H == {n \in Nat : n \in D => F[n] \in Seq(T) /\ Len(F[n]) <= n}
  <2>1. 0 \in H
    BY <1>6
  <2>2. ASSUME NEW n \in Nat, n \in H PROVE n + 1 \in H
    <3> SUFFICES ASSUME n + 1 \in D PROVE F[n + 1] \in Seq(T) /\ Len(F[n + 1]) <= n + 1
      OBVIOUS
    <3>0. F[n + 1] = Step(F, n + 1)
      BY <1>6, Zenon
    <3>1. F[n + 1] = IF n + 1 \in keep THEN Append(F[n], q[n + 1]) ELSE F[n]
      BY <3>0
    <3>2. n + 1 \in keep => q[n + 1] \in T
      OBVIOUS
    <3> QED BY <2>2, <3>1, <3>2
  <2> HIDE DEF H
  <2>3. Nat \subseteq H
    BY <2>1, <2>2, NatSetInduction
  <2>4. \A i \in D : i \in H
    BY <2>3
  <2> QED BY <2>4, Zenon DEF H
<1>9. Retain(q, keep) \in Seq(T) /\ Len(Retain(q, keep)) <= Len(q)
  BY <1>7, <1>8
<1>10. T \subseteq S
  OBVIOUS
<1>11. Retain(q, keep) \in Seq(S)
  BY <1>9, <1>10
<1>12. \A k \in DOMAIN Retain(q, keep) : Retain(q, keep)[k] \in T
  BY <1>9
<1> QED BY <1>9, <1>11, <1>12

(* A queue of replies without payload holds no bytes.                      *)
LEMMA PayloadNone ==
  ASSUME NEW q \in Seq(Reply), \A k \in DOMAIN q : q[k].len = 0
  PROVE  IsPayloadOf(0, q)
<1> DEFINE rest == [k \in 1 .. Len(q) + 1 |-> 0]
<1>1. rest \in [1 .. Len(q) + 1 -> 0 .. 0] /\ rest[1] = 0 /\ rest[Len(q) + 1] = 0
  OBVIOUS
<1>2. \A k \in DOMAIN q : rest[k] = q[k].len + rest[k + 1]
  OBVIOUS
<1> HIDE DEF rest
<1> QED BY <1>1, <1>2 DEF IsPayloadOf

(* Conversely, a queue without payload has payload 0: by induction, the    *)
(* suffixes all hold the same amount, and the empty one holds nothing.     *)
LEMMA PayloadZero ==
  ASSUME NEW q \in Seq(Reply), NEW t \in Nat, IsPayloadOf(t, q),
         \A k \in DOMAIN q : q[k].len = 0
  PROVE  t = 0
<1>1. PICK rest \in [1 .. Len(q) + 1 -> 0 .. t] :
        /\ rest[1] = t
        /\ rest[Len(q) + 1] = 0
        /\ \A k \in DOMAIN q : rest[k] = q[k].len + rest[k + 1]
  BY Zenon DEF IsPayloadOf
<1> DEFINE G == {n \in Nat : n + 1 \in 1 .. Len(q) + 1 => rest[n + 1] = t}
<1>2. 0 \in G
  BY <1>1
<1>3. ASSUME NEW n \in Nat, n \in G PROVE n + 1 \in G
  <2>1. SUFFICES ASSUME n + 2 \in 1 .. Len(q) + 1 PROVE rest[n + 2] = t
    OBVIOUS
  <2>2. n + 1 \in DOMAIN q /\ rest[n + 1] = t /\ q[n + 1].len = 0
    BY <1>3, <2>1
  <2>3. rest[n + 1] = q[n + 1].len + rest[n + 2] /\ rest[n + 2] \in Nat
    BY <1>1, <2>1, <2>2, SMTT(60)
  <2> QED BY <2>2, <2>3
<1> HIDE DEF G
<1>4. Nat \subseteq G
  BY <1>2, <1>3, NatSetInduction, Zenon
<1>5. rest[Len(q) + 1] = t
  <2>1. Len(q) \in G
    BY <1>4
  <2> QED BY <2>1 DEF G
<1> QED BY <1>1, <1>5

(* A reply pushed at the back adds its payload.                            *)
LEMMA PayloadAppend ==
  ASSUME NEW q \in Seq(Reply), NEW r \in Reply, NEW t \in Nat, IsPayloadOf(t, q)
  PROVE  IsPayloadOf(t + r.len, Append(q, r))
<1>1. PICK rest \in [1 .. Len(q) + 1 -> 0 .. t] :
        /\ rest[1] = t
        /\ rest[Len(q) + 1] = 0
        /\ \A k \in DOMAIN q : rest[k] = q[k].len + rest[k + 1]
  BY Zenon DEF IsPayloadOf
<1> DEFINE n == Len(q)
           p == Append(q, r)
           more == [k \in 1 .. Len(p) + 1 |-> IF k = n + 2 THEN 0 ELSE rest[k] + r.len]
<1>2. n \in Nat /\ Len(p) = n + 1 /\ DOMAIN p = 1 .. n + 1 /\ r.len \in Nat
  BY DEF Reply
<1>3. p[n + 1] = r /\ \A k \in 1 .. n : p[k] = q[k]
  OBVIOUS
<1> HIDE DEF n, p
<1>4. more \in [1 .. Len(p) + 1 -> 0 .. t + r.len]
  BY <1>1, <1>2 DEF n
<1>5. more[1] = t + r.len /\ more[Len(p) + 1] = 0
  BY <1>1, <1>2
<1>6. ASSUME NEW k \in DOMAIN p PROVE more[k] = p[k].len + more[k + 1]
  <2>1. CASE k = n + 1
    BY <2>1, <1>1, <1>2, <1>3 DEF n
  <2>2. CASE k \in 1 .. n
    <3>1. k \in DOMAIN q /\ q[k].len \in Nat /\ rest[k] \in Nat /\ rest[k + 1] \in Nat
      BY <2>2, <1>2 DEF n, Reply
    <3>2. rest[k] = q[k].len + rest[k + 1] /\ p[k] = q[k]
      BY <3>1, <2>2, <1>1, <1>3
    <3>3. more[k] = rest[k] + r.len /\ more[k + 1] = rest[k + 1] + r.len
      BY <2>2, <1>2, SMTT(60)
    <3> HIDE DEF more
    <3> QED BY <3>1, <3>2, <3>3, <1>2, SMTT(60)
  <2> QED BY <2>1, <2>2, <1>2
<1> HIDE DEF more
<1> QED BY <1>4, <1>5, <1>6, Zenon DEF IsPayloadOf, p

(* The payload of the front is part of the total, and leaves with it.      *)
LEMMA PayloadTail ==
  ASSUME NEW q \in Seq(Reply), NEW t \in Nat, IsPayloadOf(t, q), q # <<>>
  PROVE  q[1].len <= t /\ IsPayloadOf(t - q[1].len, Tail(q))
<1>1. PICK rest \in [1 .. Len(q) + 1 -> 0 .. t] :
        /\ rest[1] = t
        /\ rest[Len(q) + 1] = 0
        /\ \A k \in DOMAIN q : rest[k] = q[k].len + rest[k + 1]
  BY Zenon DEF IsPayloadOf
<1> DEFINE n == Len(q)
           p == Tail(q)
           less == [k \in 1 .. Len(p) + 1 |-> rest[k + 1]]
<1>2. /\ n \in Nat \ {0} /\ Len(p) = n - 1 /\ DOMAIN p = 1 .. n - 1 /\ DOMAIN q = 1 .. n
      /\ \A k \in 1 .. n - 1 : p[k] = q[k + 1]
      /\ \A k \in 1 .. n : q[k].len \in Nat
  BY DEF Reply
<1>3. \A k \in 1 .. n + 1 : rest[k] \in Nat
  OBVIOUS
<1>4. t = q[1].len + rest[2]
  BY <1>1, <1>2
<1> HIDE DEF n, p
<1>5. \A k \in 2 .. n + 1 : rest[k] <= rest[2]
  <2> DEFINE H == {k \in Nat : k + 2 \in 2 .. n + 1 => rest[k + 2] <= rest[2]}
  <2>1. 0 \in H
    BY <1>2, <1>3
  <2>2. ASSUME NEW k \in Nat, k \in H PROVE k + 1 \in H
    <3> SUFFICES ASSUME k + 3 \in 2 .. n + 1 PROVE rest[k + 3] <= rest[2]
      OBVIOUS
    <3>1. k + 2 \in DOMAIN q /\ rest[k + 2] <= rest[2]
      BY <2>2, <1>2
    <3>2. rest[k + 2] = q[k + 2].len + rest[k + 3]
      BY <3>1, <1>1
    <3>3. q[k + 2].len \in Nat /\ rest[k + 2] \in Nat /\ rest[k + 3] \in Nat /\ rest[2] \in Nat
      BY <1>2, <1>3, <3>1
    <3> QED BY <3>1, <3>2, <3>3
  <2> HIDE DEF H
  <2>3. Nat \subseteq H
    BY <2>1, <2>2, NatSetInduction
  <2>4. ASSUME NEW k \in 2 .. n + 1 PROVE rest[k] <= rest[2]
    <3>1. k - 2 \in H
      BY <2>3, <1>2
    <3> QED BY <3>1, <1>2 DEF H
  <2> QED BY <2>4
<1>6. less \in [1 .. Len(p) + 1 -> 0 .. t - q[1].len]
  BY <1>2, <1>3, <1>4, <1>5, SMTT(60)
<1>7. less[1] = t - q[1].len /\ less[Len(p) + 1] = 0
  BY <1>1, <1>2, <1>3, <1>4 DEF n
<1>8. ASSUME NEW k \in DOMAIN p PROVE less[k] = p[k].len + less[k + 1]
  BY <1>1, <1>2, SMTT(60)
<1> HIDE DEF less
<1>9. IsPayloadOf(t - q[1].len, p)
  BY <1>6, <1>7, <1>8, Zenon DEF IsPayloadOf
<1> QED BY <1>2, <1>3, <1>4, <1>9 DEF p

(* Two queues with the same lengths hold the same payload.                 *)
LEMMA PayloadSame ==
  ASSUME NEW q \in Seq(Reply), NEW p \in Seq(Reply), NEW t \in Nat, IsPayloadOf(t, q),
         Len(p) = Len(q), \A k \in DOMAIN q : p[k].len = q[k].len
  PROVE  IsPayloadOf(t, p)
<1>1. PICK rest \in [1 .. Len(q) + 1 -> 0 .. t] :
        /\ rest[1] = t
        /\ rest[Len(q) + 1] = 0
        /\ \A k \in DOMAIN q : rest[k] = q[k].len + rest[k + 1]
  BY Zenon DEF IsPayloadOf
<1>2. DOMAIN p = DOMAIN q
  OBVIOUS
<1>3. \A k \in DOMAIN p : rest[k] = p[k].len + rest[k + 1]
  BY <1>1, <1>2
<1> QED BY <1>1, <1>3, Zenon DEF IsPayloadOf

-----------------------------------------------------------------------------
(* The invariant of a stream.  BaseInv holds after every method; LinkInv,  *)
(* which ties the queued replies to the connection, is given up by a       *)
(* method that ends the connection and restored when the endpoint retires. *)

QueueInv(s) ==
  /\ Len(s.replies) <= MAX_QUEUED_REPLIES
  /\ s.reply_bytes <= MaxTxBytes[s.role]
  /\ IsPayloadOf(s.reply_bytes, s.replies)
  /\ \A j, k \in DOMAIN s.replies :
       s.replies[j].op = "SHUTDOWN" /\ s.replies[k].op = "RW" => k < j

WindowInv(s) ==
  /\ s.is_connecting => s.connection = None
  /\ ReceiveWindow(s)
  /\ s.connection # None =>
       /\ UnackedBytes(s.connection.tx_fwd_cnt, s.connection.peer_fwd_cnt)
            <= MaxTxBytes[s.role]
       /\ s.connection.peer_receive_closed => s.connection.tx_shutdown

LinkInv(s) ==
  \A k \in DOMAIN s.replies :
    /\ s.connection = None => s.replies[k].op \in {"RST", "REQUEST"}
    /\ s.connection # None =>
         /\ s.replies[k].op = "SHUTDOWN" => s.connection.tx_shutdown
         /\ s.replies[k].op = "RW" => ~s.connection.peer_receive_closed

BaseInv(s) == s \in Stream /\ QueueInv(s) /\ WindowInv(s) /\ CreditReported(s)
StreamInv(s) == BaseInv(s) /\ LinkInv(s)

(* t differs from s at most in its queue.                                  *)
SameConnection(s, t) ==
  /\ t.role = s.role
  /\ t.connection = s.connection
  /\ t.is_connecting = s.is_connecting
  /\ t.upstream = s.upstream

(* The window facts do not depend on the queue.                            *)
LEMMA SameConnectionKeeps ==
  ASSUME NEW s \in Stream, NEW t \in Stream, SameConnection(s, t)
  PROVE  /\ WindowInv(s) => WindowInv(t)
         /\ CreditReported(s) => CreditReported(t)
BY DEF SameConnection, WindowInv, CreditReported, ReceiveWindow

(* Pushing a reply that fits keeps the queue's invariant; data may be      *)
(* pushed only where no SHUTDOWN is queued.                                *)
LEMMA PushKeepsQueue ==
  ASSUME NEW s \in Stream, NEW t \in Stream, NEW r \in Reply, QueueInv(s),
         CanQueueReply(s, r.len), t.role = s.role,
         t.replies = Append(s.replies, r), t.reply_bytes = s.reply_bytes + r.len,
         r.op = "RW" => \A k \in DOMAIN s.replies : s.replies[k].op # "SHUTDOWN"
  PROVE  QueueInv(t)
<1>1. s.replies \in Seq(Reply) /\ s.reply_bytes \in Nat /\ r.len \in Nat
  BY DEF Stream, Reply
<1>2. Len(t.replies) = Len(s.replies) + 1
  BY <1>1
<1>3. Len(t.replies) <= MAX_QUEUED_REPLIES /\ t.reply_bytes <= MaxTxBytes[t.role]
  BY <1>1, <1>2, StreamAssumption DEF CanQueueReply
<1>4. IsPayloadOf(t.reply_bytes, t.replies)
  BY <1>1, PayloadAppend DEF QueueInv
<1>5. ASSUME NEW j \in DOMAIN t.replies, NEW k \in DOMAIN t.replies,
             t.replies[j].op = "SHUTDOWN", t.replies[k].op = "RW"
      PROVE  k < j
  <2> DEFINE n == Len(s.replies)
  <2>1. n \in Nat /\ j \in 1 .. n + 1 /\ k \in 1 .. n + 1
    BY <1>1, <1>2
  <2>2. t.replies[n + 1] = r /\ \A i \in 1 .. n : t.replies[i] = s.replies[i] /\ i \in DOMAIN s.replies
    BY <1>1
  <2>3. CASE k = n + 1
    BY <2>1, <2>2, <2>3, <1>5
  <2>4. CASE k \in 1 .. n
    BY <2>1, <2>2, <2>4, <1>5 DEF QueueInv
  <2> QED BY <2>1, <2>3, <2>4
<1> QED BY <1>3, <1>4, <1>5 DEF QueueInv

(* A control reply other than a credit update: pushed at the back, or lost *)
(* where the queue is full; the connection is untouched either way.        *)
LEMMA PushControl ==
  ASSUME NEW s \in Stream, QueueInv(s), NEW op \in Op \ {"RW", "CREDIT_UPDATE"}, NEW f \in Word
  PROVE  LET t == QueueReply(s, Control(op, f))
         IN  /\ t \in Stream /\ QueueInv(t) /\ SameConnection(s, t)
             /\ ~CanQueueReply(s, 0) => t = s
             /\ CanQueueReply(s, 0) => t.replies = Append(s.replies, Control(op, f))
<1> DEFINE r == Control(op, f)
           t == QueueReply(s, r)
<1>1. r \in Reply /\ r.len = 0 /\ r.op = op
  BY DEF Control, Reply
<1>2. CASE ~CanQueueReply(s, 0)
  BY <1>1, <1>2 DEF QueueReply, SameConnection
<1>3. CASE CanQueueReply(s, 0)
  <2>1. t = [s EXCEPT !.replies = Append(@, r), !.reply_bytes = @ + r.len]
    BY <1>1, <1>3 DEF QueueReply
  <2>a. Append(s.replies, r) \in Seq(Reply) /\ s.reply_bytes + r.len \in Nat
    BY <1>1 DEF Stream
  <2> HIDE DEF r, t
  <2>2. t \in Stream /\ SameConnection(s, t)
        /\ t.replies = Append(s.replies, r) /\ t.reply_bytes = s.reply_bytes + r.len
    BY <2>1, <2>a, Zenon DEF Stream, SameConnection
  <2>3. QueueInv(t)
    BY <2>2, <1>1, <1>3, PushKeepsQueue DEF SameConnection
  <2> QED BY <2>2, <2>3, <1>3 DEF r, t
<1> QED BY <1>2, <1>3

(* A reset may be queued behind anything.                                  *)
LEMMA RstKeeps ==
  ASSUME NEW s, BaseInv(s)
  PROVE  /\ BaseInv(Rst(s)) /\ SameConnection(s, Rst(s))
         /\ LinkInv(s) => LinkInv(Rst(s))
<1> DEFINE t == Rst(s)
<1>1. 0 \in Word /\ "RST" \in Op \ {"RW", "CREDIT_UPDATE"}
  BY StreamAssumption DEF Word, Wrap, Op
<1>2. /\ t \in Stream /\ QueueInv(t) /\ SameConnection(s, t)
      /\ ~CanQueueReply(s, 0) => t = s
      /\ CanQueueReply(s, 0) => t.replies = Append(s.replies, Control("RST", 0))
  BY <1>1, PushControl DEF Rst, BaseInv
<1> HIDE DEF t
<1>3. BaseInv(t)
  BY <1>2, SameConnectionKeeps DEF BaseInv
<1>4. ASSUME LinkInv(s) PROVE LinkInv(t)
  <2>1. CASE ~CanQueueReply(s, 0)
    BY <2>1, <1>2, <1>4
  <2>2. CASE CanQueueReply(s, 0)
    <3>1. s.replies \in Seq(Reply)
      BY DEF BaseInv, Stream
    <3>2. ASSUME NEW k \in DOMAIN t.replies
          PROVE  t.replies[k].op = "RST" \/ (k \in DOMAIN s.replies /\ t.replies[k] = s.replies[k])
      BY <3>1, <2>2, <1>2 DEF Control
    <3> QED BY <3>2, <1>2, <1>4 DEF LinkInv, SameConnection
  <2> QED BY <2>1, <2>2
<1> QED BY <1>2, <1>3, <1>4 DEF t

(* Giving the connection up leaves the queue.                              *)
LEMMA DropKeeps ==
  ASSUME NEW s \in Stream, QueueInv(s)
  PROVE  /\ BaseInv(DropConnection(s))
         /\ DropConnection(s).role = s.role
         /\ DropConnection(s).replies = s.replies
         /\ ~IsLive(DropConnection(s))
<1> DEFINE t == DropConnection(s)
<1>1. /\ t \in Stream /\ t.role = s.role /\ t.replies = s.replies
      /\ t.reply_bytes = s.reply_bytes /\ t.connection = None
      /\ t.is_connecting = FALSE /\ t.upstream = 0
  BY Zenon DEF DropConnection, Stream
<1> HIDE DEF t
<1>2. QueueInv(t)
  BY <1>1 DEF QueueInv
<1>3. WindowInv(t) /\ CreditReported(t)
  BY <1>1, StreamAssumption DEF WindowInv, ReceiveWindow, CreditReported, Stream
<1> QED BY <1>1, <1>2, <1>3 DEF BaseInv, IsLive, t

(* A retired stream has no connection and holds only resets.               *)
LEMMA RetireKeeps ==
  ASSUME NEW s, BaseInv(s)
  PROVE  /\ StreamInv(RetireStream(s)) /\ ~IsLive(RetireStream(s))
         /\ RetireStream(s).role = s.role
         /\ \A k \in DOMAIN RetireStream(s).replies : RetireStream(s).replies[k].op = "RST"
<1> DEFINE d == DropConnection(s)
           q == RetainOps(s.replies, {"RST"})
           t == RetireStream(s)
<1>1. d \in Stream /\ d.role = s.role /\ d.replies = s.replies /\ d.connection = None
      /\ d.is_connecting = FALSE /\ d.upstream = 0
  BY Zenon DEF BaseInv, DropConnection, Stream
<1>2. s.replies \in Seq(Reply) /\ Len(s.replies) <= MAX_QUEUED_REPLIES
  BY DEF BaseInv, Stream, QueueInv
<1>3. /\ q \in Seq(Reply) /\ Len(q) <= Len(s.replies)
      /\ \A k \in DOMAIN q : q[k].op = "RST"
  BY <1>2, RetainProperty DEF RetainOps
<1>4. t = [d EXCEPT !.replies = q, !.reply_bytes = 0]
  BY <1>1 DEF RetireStream
<1> HIDE DEF d, q, t
<1>5. /\ t \in Stream /\ t.role = s.role /\ t.replies = q /\ t.reply_bytes = 0
      /\ t.connection = None /\ t.is_connecting = FALSE /\ t.upstream = 0
  BY <1>1, <1>3, <1>4, Zenon DEF Stream
<1>6. IsPayloadOf(0, q)
  <2>1. \A k \in DOMAIN q : q[k].len = 0
    BY <1>3 DEF Reply
  <2> QED BY <2>1, <1>3, PayloadNone
<1>7. QueueInv(t)
  BY <1>2, <1>3, <1>5, <1>6, StreamAssumption DEF QueueInv, Stream
<1>8. WindowInv(t) /\ CreditReported(t) /\ LinkInv(t)
  BY <1>3, <1>5, StreamAssumption DEF WindowInv, ReceiveWindow, CreditReported, LinkInv, Stream
<1> QED BY <1>3, <1>5, <1>7, <1>8 DEF StreamInv, BaseInv, IsLive, t

(* Numbers that wrap stay words, and their differences behave.             *)
LEMMA WordArithmetic ==
  ASSUME NEW a \in Word, NEW b \in Word
  PROVE  /\ WrappingSub(a, b) \in Word
         /\ WrappingSub(a, a) = 0
         /\ WrappingSub(a, b) = 0 => a = b
         /\ \A n \in Word : WrappingAdd(a, n) \in Word
         /\ \A n \in Word : WrappingSub(a, b) + n < Wrap =>
              WrappingSub(WrappingAdd(a, n), b) = WrappingSub(a, b) + n
         /\ \A n \in Word : n <= WrappingSub(a, b) =>
              WrappingSub(a, WrappingAdd(b, n)) = WrappingSub(a, b) - n
BY StreamAssumption DEF Word, Wrap, WrappingAdd, WrappingSub

(* A credit update either fits, and then nothing consumed is unreported,   *)
(* or the connection is given up.                                          *)
LEMMA UpdateCreditKeeps ==
  ASSUME NEW s \in Stream, QueueInv(s), WindowInv(s), LinkInv(s), s.connection # None
  PROVE  LET t == UpdateCreditOrDrop(s)
         IN  /\ BaseInv(t) /\ t.role = s.role
             /\ t.connection = None => ~IsLive(t)
             /\ t.connection # None =>
                  /\ LinkInv(t)
                  /\ t.connection = [s.connection EXCEPT
                                       !.rx_credit_update_fwd_cnt = s.connection.rx_fwd_cnt]
<1> DEFINE t == UpdateCreditOrDrop(s)
           f == s.connection.rx_fwd_cnt
           c == [s.connection EXCEPT !.rx_credit_update_fwd_cnt = f]
           n == Len(s.replies)
<1>1. s.connection \in Connection /\ f \in Word /\ c \in Connection /\ c # None
  BY NoneAssumption DEF Stream, Connection
<1>2. s.replies \in Seq(Reply) /\ n \in Nat /\ s.reply_bytes \in Nat
  BY DEF Stream
<1>3. CASE ~CanRespond(s, "CREDIT_UPDATE")
  <2>1. t = DropConnection(s)
    BY <1>3 DEF UpdateCreditOrDrop
  <2> QED BY <2>1, DropKeeps DEF IsLive
<1>4. ASSUME t \in Stream, t.role = s.role, t.is_connecting = s.is_connecting,
             t.upstream = s.upstream, t.connection = c
      PROVE  WindowInv(t) /\ CreditReported(t)
  <2> HIDE DEF t
  <2>1. /\ c.rx_received = s.connection.rx_received /\ c.rx_fwd_cnt = f
        /\ c.tx_fwd_cnt = s.connection.tx_fwd_cnt /\ c.peer_fwd_cnt = s.connection.peer_fwd_cnt
        /\ c.peer_receive_closed = s.connection.peer_receive_closed
        /\ c.tx_shutdown = s.connection.tx_shutdown /\ c.rx_credit_update_fwd_cnt = f
    BY <1>1 DEF Connection
  <2> HIDE DEF c
  <2>2. WindowInv(t)
    BY <1>1, <1>4, <2>1 DEF WindowInv, ReceiveWindow, QueuedBytes
  <2>3. UnreportedBytes(c) = 0
    BY <1>1, <2>1, WordArithmetic DEF UnreportedBytes
  <2> QED BY <1>4, <2>2, <2>3 DEF CreditReported
<1>5. CASE EndsInCreditUpdate(s)
  <2> DEFINE q == [s.replies EXCEPT ![n].fwd_cnt = f]
  <2>1. t = NoteCreditUpdate([s EXCEPT !.replies[n].fwd_cnt = f], f)
    BY <1>5 DEF UpdateCreditOrDrop, CanRespond, Respond
  <2>2. n \in DOMAIN s.replies /\ s.replies[n].op = "CREDIT_UPDATE" /\ s.replies[n] \in Reply
    BY <1>2, <1>5 DEF EndsInCreditUpdate
  <2>3. [s.replies[n] EXCEPT !.fwd_cnt = f] \in Reply
        /\ [s.replies[n] EXCEPT !.fwd_cnt = f].op = "CREDIT_UPDATE"
        /\ [s.replies[n] EXCEPT !.fwd_cnt = f].len = s.replies[n].len
    BY <1>1, <2>2 DEF Reply
  <2>4. /\ q \in Seq(Reply) /\ Len(q) = n /\ DOMAIN q = DOMAIN s.replies
        /\ \A k \in DOMAIN s.replies : q[k].op = s.replies[k].op /\ q[k].len = s.replies[k].len
    <3>1. q = [s.replies EXCEPT ![n] = [s.replies[n] EXCEPT !.fwd_cnt = f]]
      BY <2>2
    <3> QED BY <3>1, <1>2, <2>2, <2>3
  <2>5. [s EXCEPT !.replies[n].fwd_cnt = f] = [s EXCEPT !.replies = q]
    OBVIOUS
  <2>6. t = [s EXCEPT !.replies = q, !.connection = c]
    BY <2>1, <2>5 DEF NoteCreditUpdate, Stream
  <2> HIDE DEF t, q, c
  <2>7. /\ t \in Stream /\ t.role = s.role /\ t.is_connecting = s.is_connecting
        /\ t.upstream = s.upstream /\ t.connection = c /\ t.replies = q
        /\ t.reply_bytes = s.reply_bytes
    BY <2>6, <2>4, <1>1, Zenon DEF Stream
  <2>8. QueueInv(t)
    <3>1. IsPayloadOf(t.reply_bytes, q)
      BY <1>2, <2>4, <2>7, PayloadSame DEF QueueInv
    <3> QED BY <3>1, <2>4, <2>7 DEF QueueInv
  <2>9. LinkInv(t)
    <3>1. c.tx_shutdown = s.connection.tx_shutdown
          /\ c.peer_receive_closed = s.connection.peer_receive_closed
      BY <1>1 DEF Connection, c
    <3> QED BY <3>1, <1>1, <2>4, <2>7 DEF LinkInv
  <2> QED BY <1>1, <1>4, <2>7, <2>8, <2>9 DEF BaseInv, c, t
<1>6. CASE ~EndsInCreditUpdate(s) /\ CanRespond(s, "CREDIT_UPDATE")
  <2> DEFINE r == Control("CREDIT_UPDATE", f)
             p == [s EXCEPT !.replies = Append(@, r), !.reply_bytes = @ + r.len]
  <2>1. r \in Reply /\ r.len = 0 /\ r.op = "CREDIT_UPDATE" /\ r.fwd_cnt = f
    BY <1>1 DEF Control, Reply, Op
  <2>2. CanQueueReply(s, r.len)
    BY <1>6, <2>1 DEF CanRespond
  <2>3. t = QueueReply(s, r)
    BY <1>6 DEF UpdateCreditOrDrop, Respond
  <2>4. t = NoteCreditUpdate(p, f)
    BY <2>1, <2>2, <2>3 DEF QueueReply
  <2>5. Append(s.replies, r) \in Seq(Reply) /\ s.reply_bytes + r.len \in Nat
    BY <1>2, <2>1
  <2> HIDE DEF r
  <2>6. /\ p \in Stream /\ p.connection = s.connection /\ p.role = s.role
        /\ p.is_connecting = s.is_connecting /\ p.upstream = s.upstream
        /\ p.replies = Append(s.replies, r) /\ p.reply_bytes = s.reply_bytes + r.len
    BY <2>5, Zenon DEF Stream
  <2> HIDE DEF p
  <2>7. t = [p EXCEPT !.connection = c]
    BY <2>4, <2>6 DEF NoteCreditUpdate
  <2> HIDE DEF t, c
  <2>8. /\ t \in Stream /\ t.role = s.role /\ t.is_connecting = s.is_connecting
        /\ t.upstream = s.upstream /\ t.connection = c
        /\ t.replies = Append(s.replies, r) /\ t.reply_bytes = s.reply_bytes + r.len
    BY <2>6, <2>7, <1>1, Zenon DEF Stream
  <2>9. QueueInv(t)
    BY <2>1, <2>2, <2>8, PushKeepsQueue
  <2>10. LinkInv(t)
    <3>1. c.tx_shutdown = s.connection.tx_shutdown
          /\ c.peer_receive_closed = s.connection.peer_receive_closed
      BY <1>1 DEF Connection, c
    <3>2. ASSUME NEW k \in DOMAIN t.replies
          PROVE  t.replies[k].op = "CREDIT_UPDATE"
                   \/ (k \in DOMAIN s.replies /\ t.replies[k] = s.replies[k])
      BY <1>2, <2>1, <2>8
    <3> QED BY <3>1, <3>2, <1>1, <2>8 DEF LinkInv
  <2> QED BY <1>1, <1>4, <2>8, <2>9, <2>10 DEF BaseInv, c, t
<1> QED BY <1>3, <1>5, <1>6

-----------------------------------------------------------------------------
(* Packets from the guest.  A method keeps the whole invariant, or ends a  *)
(* live connection and keeps BaseInv.                                      *)

Kept(s, t) ==
  /\ BaseInv(t)
  /\ t.role = s.role
  /\ LinkInv(t) \/ (IsLive(s) /\ ~IsLive(t))

(* Replacing the connection leaves everything else.                        *)
LEMMA SetConnection ==
  ASSUME NEW s \in Stream, NEW c \in Connection
  PROVE  LET t == [s EXCEPT !.connection = c]
         IN  /\ t \in Stream /\ t.role = s.role /\ t.connection = c
             /\ t.is_connecting = s.is_connecting /\ t.upstream = s.upstream
             /\ t.replies = s.replies /\ t.reply_bytes = s.reply_bytes
             /\ t.connection # None
             /\ QueueInv(s) => QueueInv(t)
<1> DEFINE t == [s EXCEPT !.connection = c]
<1>1. /\ t \in Stream /\ t.role = s.role /\ t.connection = c
      /\ t.is_connecting = s.is_connecting /\ t.upstream = s.upstream
      /\ t.replies = s.replies /\ t.reply_bytes = s.reply_bytes
  BY DEF Stream
<1>2. c # None
  BY NoneAssumption
<1> HIDE DEF t
<1>3. QueueInv(s) => QueueInv(t)
  BY <1>1 DEF QueueInv
<1> QED BY <1>1, <1>2, <1>3 DEF t

(* reset and drop, as reject_packet, note_peer_credit and on_data do.      *)
LEMMA RstDropKeeps ==
  ASSUME NEW s, StreamInv(s), IsLive(s)
  PROVE  Kept(s, DropConnection(Rst(s))) /\ Kept(s, DropConnection(s))
<1>1. BaseInv(Rst(s)) /\ Rst(s).role = s.role
  BY RstKeeps DEF StreamInv, SameConnection
<1>2. BaseInv(DropConnection(Rst(s))) /\ ~IsLive(DropConnection(Rst(s)))
      /\ DropConnection(Rst(s)).role = s.role
  BY <1>1, DropKeeps DEF BaseInv
<1>3. BaseInv(DropConnection(s)) /\ ~IsLive(DropConnection(s)) /\ DropConnection(s).role = s.role
  BY DropKeeps DEF BaseInv, StreamInv
<1> QED BY <1>2, <1>3 DEF Kept

(* reject_packet keeps the invariant or ends the connection.               *)
LEMMA RejectKeeps ==
  ASSUME NEW s, NEW h, StreamInv(s)
  PROVE  Kept(s, RejectPacket(s, h)) /\ ~IsLive(RejectPacket(s, h))
<1>1. /\ BaseInv(Rst(s)) /\ LinkInv(Rst(s)) /\ Rst(s).role = s.role
      /\ IsLive(Rst(s)) <=> IsLive(s)
  BY RstKeeps DEF StreamInv, SameConnection, IsLive
<1>2. CASE IsLive(s)
  <2>1. RejectPacket(s, h) \in {DropConnection(s), DropConnection(Rst(s))}
    BY <1>1, <1>2 DEF RejectPacket
  <2>2. ~IsLive(DropConnection(s)) /\ ~IsLive(DropConnection(Rst(s)))
    BY <1>1, DropKeeps DEF BaseInv, StreamInv
  <2> QED BY <2>1, <2>2, <1>2, RstDropKeeps
<1>3. CASE ~IsLive(s)
  <2>1. RejectPacket(s, h) \in {s, Rst(s)}
    BY <1>1, <1>3 DEF RejectPacket
  <2> QED BY <2>1, <1>1, <1>3 DEF Kept, StreamInv
<1> QED BY <1>2, <1>3

(* The peer's credit: noted, ignored, or the connection is over.           *)
LEMMA NotePeerCreditKeeps ==
  ASSUME NEW s, StreamInv(s), NEW h \in Header, s.connection # None
  PROVE  LET t == NotePeerCredit(s, h)
         IN  /\ Kept(s, t)
             /\ t.connection = None => ~IsLive(t)
             /\ t.connection # None => StreamInv(t) /\ t.connection.rx_shutdown = s.connection.rx_shutdown
<1> DEFINE c == s.connection
           t == NotePeerCredit(s, h)
           unacked == UnackedBytes(c.tx_fwd_cnt, h.fwd_cnt)
           noted == TakePeerCredit(s, h)
           d == noted.connection
<1>1. s \in Stream /\ c \in Connection /\ h.fwd_cnt \in Word /\ h.buf_alloc \in Word /\ IsLive(s)
  BY DEF StreamInv, BaseInv, Stream, Header, IsLive
<1>2. CASE t = DropConnection(Rst(s))
  <2>1. BaseInv(Rst(s))
    BY RstKeeps DEF StreamInv
  <2>2. ~IsLive(t)
    BY <1>2, <2>1, DropKeeps DEF BaseInv
  <2> QED BY <1>1, <1>2, <2>2, RstDropKeeps DEF IsLive
<1>3. CASE t = s
  BY <1>1, <1>3 DEF Kept, StreamInv, BaseInv
<1>4. ASSUME unacked <= MaxTxBytes[s.role],
             t = noted \/ t = UpdateCreditOrDrop(noted),
             h.buf_alloc < c.peer_buf_alloc /\ UnreportedBytes(c) # 0 => t = UpdateCreditOrDrop(noted)
      PROVE  /\ Kept(s, t)
             /\ t.connection = None => ~IsLive(t)
             /\ t.connection # None => StreamInv(t) /\ t.connection.rx_shutdown = c.rx_shutdown
  <2> DEFINE before == SaturatingSub(c.peer_buf_alloc, UnackedBytes(c.tx_fwd_cnt, c.peer_fwd_cnt))
             e == [c EXCEPT !.peer_buf_alloc = h.buf_alloc,
                            !.peer_fwd_cnt = h.fwd_cnt,
                            !.is_credit_requested =
                              c.is_credit_requested /\ SaturatingSub(h.buf_alloc, unacked) <= before]
  <2>a. noted = [s EXCEPT !.connection = e]
    BY DEF TakePeerCredit
  <2>b. e \in Connection
    BY <1>1, Zenon DEF Connection
  <2>c. d = e
    BY <2>a, <1>1 DEF Stream
  <2>1. /\ d \in Connection /\ d.peer_buf_alloc = h.buf_alloc /\ d.peer_fwd_cnt = h.fwd_cnt
        /\ d.rx_received = c.rx_received /\ d.rx_fwd_cnt = c.rx_fwd_cnt
        /\ d.rx_credit_update_fwd_cnt = c.rx_credit_update_fwd_cnt
        /\ d.is_receive_credit_requested = c.is_receive_credit_requested
        /\ d.tx_fwd_cnt = c.tx_fwd_cnt /\ d.tx_shutdown = c.tx_shutdown
        /\ d.peer_receive_closed = c.peer_receive_closed /\ d.rx_shutdown = c.rx_shutdown
    BY <1>1, <2>b, <2>c DEF Connection
  <2> HIDE DEF d, t, e
  <2>2. /\ noted \in Stream /\ noted.role = s.role /\ noted.connection = d
        /\ noted.is_connecting = s.is_connecting /\ noted.upstream = s.upstream
        /\ noted.replies = s.replies /\ noted.connection # None /\ QueueInv(noted)
    BY <1>1, <2>a, <2>b, <2>c, SetConnection DEF StreamInv, BaseInv
  <2> HIDE DEF noted
  <2>3. WindowInv(noted)
    BY <2>1, <2>2, <1>4 DEF StreamInv, BaseInv, WindowInv, ReceiveWindow, QueuedBytes
  <2>4. LinkInv(noted)
    BY <2>1, <2>2 DEF StreamInv, LinkInv
  <2>5. CASE t = UpdateCreditOrDrop(noted)
    <3>1. /\ BaseInv(t) /\ t.role = s.role
          /\ t.connection = None => ~IsLive(t)
          /\ t.connection # None =>
               /\ LinkInv(t)
               /\ t.connection = [d EXCEPT !.rx_credit_update_fwd_cnt = d.rx_fwd_cnt]
      BY <2>2, <2>3, <2>4, <2>5, UpdateCreditKeeps
    <3>2. [d EXCEPT !.rx_credit_update_fwd_cnt = d.rx_fwd_cnt].rx_shutdown = c.rx_shutdown
      BY <2>1 DEF Connection
    <3> QED BY <1>1, <3>1, <3>2, Zenon DEF Kept, StreamInv
  <2>6. CASE t = noted /\ t # UpdateCreditOrDrop(noted)
    <3>1. h.buf_alloc >= c.peer_buf_alloc \/ UnreportedBytes(c) = 0
      BY <1>1, <1>4, <2>6 DEF Connection, Word
    <3>2. UnreportedBytes(d) = UnreportedBytes(c)
      BY <2>1 DEF UnreportedBytes
    <3>3. UnreportedBytes(c) \in Word /\ RxAlloc[s.role] \in Nat /\ c.peer_buf_alloc \in Nat
          /\ h.buf_alloc \in Nat
      <4>1. c.rx_fwd_cnt \in Word /\ c.rx_credit_update_fwd_cnt \in Word /\ c.peer_buf_alloc \in Word
        BY <1>1 DEF Connection
      <4>2. UnreportedBytes(c) \in Word
        BY <4>1, WordArithmetic DEF UnreportedBytes
      <4>3. RxAlloc[s.role] \in Nat
        BY <1>1, StreamAssumption DEF Stream
      <4> QED BY <1>1, <4>1, <4>2, <4>3 DEF Word
    <3>4. h.buf_alloc >= c.peer_buf_alloc =>
            Least(RxAlloc[s.role], c.peer_buf_alloc) \div 2
              <= Least(RxAlloc[s.role], h.buf_alloc) \div 2
      BY <3>3 DEF Least
    <3>5. Least(RxAlloc[s.role], c.peer_buf_alloc) \div 2 \in Nat
          /\ Least(RxAlloc[s.role], h.buf_alloc) \div 2 \in Nat
      BY <3>3 DEF Least
    <3>6. CreditReported(noted)
      BY <2>1, <2>2, <3>1, <3>2, <3>3, <3>4, <3>5 DEF StreamInv, BaseInv, CreditReported, Word
    <3> QED BY <1>1, <2>1, <2>2, <2>3, <2>4, <2>6, <3>6 DEF Kept, StreamInv, BaseInv
  <2> QED BY <1>4, <2>5, <2>6
<1>5. CASE AckAhead(h.fwd_cnt, c.tx_fwd_cnt)
  BY <1>2, <1>5, Zenon DEF NotePeerCredit
<1>6. CASE ~AckAhead(h.fwd_cnt, c.tx_fwd_cnt) /\ IsStaleCredit(s, h)
  BY <1>3, <1>6 DEF NotePeerCredit
<1>7. CASE ~AckAhead(h.fwd_cnt, c.tx_fwd_cnt) /\ ~IsStaleCredit(s, h)
  <2>1. unacked <= MaxTxBytes[s.role]
    <3>1. c.tx_fwd_cnt \in Word
      BY <1>1 DEF Connection
    <3>2. unacked \in Word
      BY <1>1, <3>1, WordArithmetic DEF UnackedBytes
    <3>3. MaxTxBytes[s.role] \in Nat
      BY <1>1, StreamAssumption DEF Stream
    <3> QED BY <1>7, <3>2, <3>3 DEF Word, IsStaleCredit
  <2>2. /\ t = noted \/ t = UpdateCreditOrDrop(noted)
        /\ h.buf_alloc < c.peer_buf_alloc /\ UnreportedBytes(c) # 0 => t = UpdateCreditOrDrop(noted)
    BY <1>7 DEF NotePeerCredit
  <2> QED BY <2>1, <2>2, <1>4
<1> QED BY <1>5, <1>6, <1>7

(* Half-closes: a closed receiver's data is discarded with its count.      *)
LEMMA OnShutdownKeeps ==
  ASSUME NEW s, StreamInv(s), NEW h \in Header, s.connection # None
  PROVE  Kept(s, OnShutdown(s, h))
<1> DEFINE c == s.connection
           d == [c EXCEPT !.tx_shutdown = c.tx_shutdown \/ h.rcv,
                          !.peer_receive_closed = c.peer_receive_closed \/ h.rcv,
                          !.rx_shutdown = c.rx_shutdown \/ h.send]
           closed == [s EXCEPT !.connection = d]
           t == OnShutdown(s, h)
<1>1. s \in Stream /\ c \in Connection /\ h.rcv \in BOOLEAN /\ h.send \in BOOLEAN
  BY DEF StreamInv, BaseInv, Stream, Header
<1>2. /\ d \in Connection /\ d.tx_shutdown = (c.tx_shutdown \/ h.rcv)
      /\ d.peer_receive_closed = (c.peer_receive_closed \/ h.rcv)
      /\ d.peer_buf_alloc = c.peer_buf_alloc /\ d.peer_fwd_cnt = c.peer_fwd_cnt
      /\ d.rx_received = c.rx_received /\ d.rx_fwd_cnt = c.rx_fwd_cnt
      /\ d.rx_credit_update_fwd_cnt = c.rx_credit_update_fwd_cnt
      /\ d.is_receive_credit_requested = c.is_receive_credit_requested
      /\ d.tx_fwd_cnt = c.tx_fwd_cnt
  BY <1>1, ZenonT(60) DEF Connection
<1>3. t = IF h.rcv THEN [closed EXCEPT !.replies = RetainOps(@, Op \ {"RW"}), !.reply_bytes = 0]
          ELSE closed
  BY DEF OnShutdown
<1> HIDE DEF d, t
<1>4. /\ closed \in Stream /\ closed.role = s.role /\ closed.connection = d
      /\ closed.is_connecting = s.is_connecting /\ closed.upstream = s.upstream
      /\ closed.replies = s.replies /\ closed.connection # None /\ QueueInv(closed)
  BY <1>1, <1>2, SetConnection DEF StreamInv, BaseInv
<1> HIDE DEF closed
<1>5. ASSUME NEW u \in Stream, u.role = s.role, u.connection = d, u.connection # None,
             u.is_connecting = s.is_connecting, u.upstream = s.upstream
      PROVE  WindowInv(u) /\ CreditReported(u)
  <2>1. WindowInv(u)
    BY <1>2, <1>5, Zenon DEF StreamInv, BaseInv, WindowInv, ReceiveWindow, QueuedBytes
  <2>2. CreditReported(u)
    BY <1>2, <1>5 DEF StreamInv, BaseInv, CreditReported, UnreportedBytes
  <2> QED BY <2>1, <2>2
<1>6. CASE ~h.rcv
  <2>1. t = closed
    BY <1>3, <1>6
  <2>2. LinkInv(t)
    BY <2>1, <1>1, <1>2, <1>4, <1>6, Zenon DEF StreamInv, LinkInv
  <2> QED BY <2>1, <2>2, <1>4, <1>5 DEF Kept, BaseInv, t
<1>7. CASE h.rcv
  <2> DEFINE q == RetainOps(s.replies, Op \ {"RW"})
  <2>1. s.replies \in Seq(Reply) /\ Len(s.replies) <= MAX_QUEUED_REPLIES
    BY DEF StreamInv, BaseInv, Stream, QueueInv
  <2>2. /\ q \in Seq(Reply) /\ Len(q) <= Len(s.replies)
        /\ \A k \in DOMAIN q : q[k].op # "RW"
    BY <2>1, RetainProperty DEF RetainOps
  <2>3. t = [closed EXCEPT !.replies = q, !.reply_bytes = 0]
    BY <1>3, <1>4, <1>7
  <2> HIDE DEF q
  <2>4. /\ t \in Stream /\ t.role = s.role /\ t.connection = d /\ t.connection # None
        /\ t.is_connecting = s.is_connecting /\ t.upstream = s.upstream
        /\ t.replies = q /\ t.reply_bytes = 0
    BY <1>4, <2>2, <2>3, Zenon DEF Stream
  <2>5. IsPayloadOf(0, q)
    <3>1. \A k \in DOMAIN q : q[k].len = 0
      BY <2>2 DEF Reply
    <3> QED BY <3>1, <2>2, PayloadNone
  <2>6. QueueInv(t)
    BY <2>1, <2>2, <2>4, <2>5, StreamAssumption DEF QueueInv, Stream
  <2>7. LinkInv(t)
    BY <2>2, <2>4, <1>2, <1>7, Zenon DEF LinkInv
  <2> QED BY <2>4, <2>6, <2>7, <1>5 DEF Kept, BaseInv, t
<1> QED BY <1>6, <1>7

(* Data within the window moves buffer and counter together.               *)
LEMMA OnDataKeeps ==
  ASSUME NEW s, StreamInv(s), NEW h \in Header, s.connection # None
  PROVE  Kept(s, OnData(s, h))
<1> DEFINE c == s.connection
           d == [c EXCEPT !.rx_received = WrappingAdd(@, h.len)]
           t == OnData(s, h)
<1>1. /\ s \in Stream /\ c \in Connection /\ h.len \in Nat /\ IsLive(s) /\ s.role \in Role
      /\ c.rx_received \in Word /\ c.rx_fwd_cnt \in Word /\ s.upstream \in Nat
  BY DEF StreamInv, BaseInv, Stream, Header, Connection, IsLive
<1>2. CASE t = DropConnection(Rst(s))
  BY <1>1, <1>2, RstDropKeeps
<1>3. CASE s.upstream + h.len <= RxAlloc[s.role] /\ QueuedBytes(c) + h.len <= RxAlloc[s.role]
  <2>1. RxAlloc[s.role] \in 1 .. HalfWrap - 1 /\ HalfWrap \in Nat
    BY <1>1, StreamAssumption
  <2>2. h.len \in Word /\ QueuedBytes(c) \in Nat /\ QueuedBytes(c) + h.len < Wrap
    <3>1. QueuedBytes(c) \in Word
      BY <1>1, WordArithmetic DEF QueuedBytes
    <3> QED BY <3>1, <2>1, <1>1, <1>3 DEF Word, Wrap
  <2>3. t = [s EXCEPT !.connection = d, !.upstream = @ + h.len]
    <3>1. ~(QueuedBytes(c) + h.len > RxAlloc[s.role]) /\ ~(s.upstream + h.len > RxAlloc[s.role])
      BY <1>1, <1>3, <2>1, <2>2
    <3> QED BY <3>1 DEF OnData
  <2>4. d \in Connection /\ QueuedBytes(d) = QueuedBytes(c) + h.len
    <3>1. WrappingAdd(c.rx_received, h.len) \in Word
      BY <1>1, <2>2, WordArithmetic, Zenon
    <3>2. d \in Connection /\ d.rx_received = WrappingAdd(c.rx_received, h.len)
          /\ d.rx_fwd_cnt = c.rx_fwd_cnt
      BY <3>1, <1>1 DEF Connection
    <3> HIDE DEF d
    <3>3. WrappingSub(WrappingAdd(c.rx_received, h.len), c.rx_fwd_cnt)
            = WrappingSub(c.rx_received, c.rx_fwd_cnt) + h.len
      BY <1>1, <2>2, WordArithmetic DEF QueuedBytes
    <3> QED BY <3>2, <3>3 DEF QueuedBytes
  <2>5. /\ d.tx_fwd_cnt = c.tx_fwd_cnt /\ d.peer_fwd_cnt = c.peer_fwd_cnt
        /\ d.tx_shutdown = c.tx_shutdown /\ d.peer_receive_closed = c.peer_receive_closed
        /\ d.peer_buf_alloc = c.peer_buf_alloc /\ d.rx_fwd_cnt = c.rx_fwd_cnt
        /\ d.rx_credit_update_fwd_cnt = c.rx_credit_update_fwd_cnt
        /\ d.is_receive_credit_requested = c.is_receive_credit_requested
    BY <1>1 DEF Connection
  <2>6. d # None
    BY <2>4, NoneAssumption
  <2> HIDE DEF d, t
  <2>7. /\ t \in Stream /\ t.role = s.role /\ t.connection = d
        /\ t.is_connecting = s.is_connecting /\ t.upstream = s.upstream + h.len
        /\ t.replies = s.replies /\ t.reply_bytes = s.reply_bytes
    <3>1. s.upstream + h.len \in Nat
      BY <1>1
    <3> QED BY <1>1, <2>3, <2>4, <3>1, Zenon DEF Stream
  <2>8. QueueInv(t)
    BY <2>7 DEF StreamInv, BaseInv, QueueInv
  <2>9. WindowInv(t)
    BY <1>3, <2>4, <2>5, <2>6, <2>7 DEF StreamInv, BaseInv, WindowInv, ReceiveWindow
  <2>10. CreditReported(t)
    BY <2>5, <2>6, <2>7 DEF StreamInv, BaseInv, CreditReported, UnreportedBytes
  <2>11. LinkInv(t)
    BY <2>5, <2>6, <2>7 DEF StreamInv, LinkInv
  <2> QED BY <2>7, <2>8, <2>9, <2>10, <2>11 DEF Kept, BaseInv, t
<1>4. CASE ~(s.upstream + h.len <= RxAlloc[s.role] /\ QueuedBytes(c) + h.len <= RxAlloc[s.role])
  <2>1. RxAlloc[s.role] \in Nat /\ QueuedBytes(c) \in Nat
    <3>1. QueuedBytes(c) \in Word
      BY <1>1, WordArithmetic DEF QueuedBytes
    <3> QED BY <1>1, <3>1, StreamAssumption DEF Word
  <2>2. QueuedBytes(c) + h.len > RxAlloc[s.role] \/ s.upstream + h.len > RxAlloc[s.role]
    BY <1>1, <1>4, <2>1
  <2> QED BY <2>2, <1>2 DEF OnData
<1> QED BY <1>3, <1>4

(* A credit request is answered with everything consumed so far.           *)
LEMMA OnCreditRequestKeeps ==
  ASSUME NEW s, StreamInv(s), s.connection # None
  PROVE  Kept(s, OnCreditRequest(s))
<1> DEFINE c == s.connection
           d == [c EXCEPT !.is_receive_credit_requested = QueuedBytes(c) # 0]
           u == [s EXCEPT !.connection = d]
<1>1. s \in Stream /\ c \in Connection /\ IsLive(s)
  BY DEF StreamInv, BaseInv, Stream, IsLive
<1>2. /\ d \in Connection /\ d.tx_fwd_cnt = c.tx_fwd_cnt /\ d.peer_fwd_cnt = c.peer_fwd_cnt
      /\ d.tx_shutdown = c.tx_shutdown /\ d.peer_receive_closed = c.peer_receive_closed
      /\ d.rx_received = c.rx_received /\ d.rx_fwd_cnt = c.rx_fwd_cnt
  BY <1>1, Zenon DEF Connection
<1>3. OnCreditRequest(s) = UpdateCreditOrDrop(u)
  BY DEF OnCreditRequest
<1> HIDE DEF d
<1>4. /\ u \in Stream /\ u.role = s.role /\ u.connection = d /\ u.connection # None
      /\ u.is_connecting = s.is_connecting /\ u.upstream = s.upstream
      /\ u.replies = s.replies /\ QueueInv(u)
  BY <1>1, <1>2, SetConnection DEF StreamInv, BaseInv
<1> HIDE DEF u
<1>5. WindowInv(u) /\ LinkInv(u)
  BY <1>2, <1>4 DEF StreamInv, BaseInv, WindowInv, ReceiveWindow, QueuedBytes, LinkInv
<1> QED BY <1>1, <1>3, <1>4, <1>5, UpdateCreditKeeps, Zenon DEF Kept

(* Every packet on an established connection.                              *)
LEMMA OnConnectedKeeps ==
  ASSUME NEW s, StreamInv(s), NEW h \in Header
  PROVE  Kept(s, OnConnected(s, h))
<1> DEFINE noted == NotePeerCredit(s, h)
<1>1. CASE s.connection = None
  BY <1>1, RstKeeps DEF OnConnected, Kept, StreamInv, SameConnection
<1>2. CASE s.connection # None /\ h.op = "RW" /\ s.connection.rx_shutdown
  BY <1>2, RejectKeeps DEF OnConnected
<1>3. CASE s.connection # None /\ ~(h.op = "RW" /\ s.connection.rx_shutdown)
  <2>1. /\ Kept(s, noted)
        /\ noted.connection # None => StreamInv(noted)
    BY <1>3, NotePeerCreditKeeps
  <2>2. OnConnected(s, h) =
          IF noted.connection = None THEN noted
          ELSE CASE h.op = "SHUTDOWN" -> OnShutdown(noted, h)
                 [] h.op = "RW" -> OnData(noted, h)
                 [] h.op = "CREDIT_REQUEST" -> OnCreditRequest(noted)
                 [] OTHER -> noted
    BY <1>3 DEF OnConnected
  <2> HIDE DEF noted
  <2>3. CASE noted.connection = None
    BY <2>1, <2>2, <2>3
  <2>4. CASE noted.connection # None
    <3>1. StreamInv(noted) /\ noted.role = s.role
      BY <2>1, <2>4 DEF Kept
    <3>2. \A u : Kept(noted, u) => Kept(s, u)
      BY <1>3, <3>1 DEF Kept, IsLive
    <3>3. Kept(noted, OnShutdown(noted, h)) /\ Kept(noted, OnData(noted, h))
          /\ Kept(noted, OnCreditRequest(noted)) /\ Kept(noted, noted)
      BY <2>4, <3>1, OnShutdownKeeps, OnDataKeeps, OnCreditRequestKeeps DEF Kept, StreamInv
    <3>4. OnConnected(s, h) \in {OnShutdown(noted, h), OnData(noted, h), OnCreditRequest(noted), noted}
      BY <2>2, <2>4
    <3> QED BY <3>2, <3>3, <3>4
  <2> QED BY <2>3, <2>4
<1> QED BY <1>1, <1>2, <1>3

(* A connection as it is accepted: nothing sent, received or owed.         *)
LEMMA OpenKeeps ==
  ASSUME NEW s \in Stream, QueueInv(s), s.upstream = 0, ~s.is_connecting,
         NEW b \in Word,
         \A k \in DOMAIN s.replies : s.replies[k].op \in {"RST", "REQUEST", "RESPONSE"}
  PROVE  StreamInv([s EXCEPT !.connection = NewConnection(b)])
<1> DEFINE c == NewConnection(b)
           t == [s EXCEPT !.connection = c]
<1>1. 0 \in Word
  BY StreamAssumption DEF Word, Wrap
<1>2. /\ c \in Connection /\ c.rx_received = 0 /\ c.rx_fwd_cnt = 0
      /\ c.rx_credit_update_fwd_cnt = 0 /\ c.tx_fwd_cnt = 0 /\ c.peer_fwd_cnt = 0
      /\ c.peer_receive_closed = FALSE
  BY <1>1 DEF NewConnection, Connection
<1> HIDE DEF c
<1>3. /\ t \in Stream /\ t.role = s.role /\ t.connection = c
      /\ t.is_connecting = s.is_connecting /\ t.upstream = s.upstream
      /\ t.replies = s.replies /\ t.connection # None /\ QueueInv(t)
  BY <1>2, SetConnection
<1> HIDE DEF t
<1>4. WrappingSub(0, 0) = 0
  BY <1>1, WordArithmetic
<1>5. RxAlloc[t.role] \in Nat /\ MaxTxBytes[t.role] \in Nat
  BY <1>3, StreamAssumption DEF Stream
<1>6. WindowInv(t) /\ CreditReported(t)
  BY <1>2, <1>3, <1>4, <1>5
     DEF WindowInv, ReceiveWindow, CreditReported, QueuedBytes, UnackedBytes, UnreportedBytes
<1>7. LinkInv(t)
  BY <1>2, <1>3 DEF LinkInv
<1> QED BY <1>3, <1>6, <1>7 DEF StreamInv, BaseInv, t, c

(* A request: answered and accepted together, refused, or lost.            *)
LEMMA OnRequestKeeps ==
  ASSUME NEW s, StreamInv(s), NEW h \in Header
  PROVE  Kept(s, OnRequest(s, h))
<1>1. CASE h.fwd_cnt # 0 \/ IsLive(s)
  BY <1>1, RejectKeeps DEF OnRequest
<1>2. CASE ~(h.fwd_cnt # 0 \/ IsLive(s)) /\ ~CanRespond(s, "RESPONSE")
  BY <1>2 DEF OnRequest, Kept, StreamInv
<1>3. CASE ~(h.fwd_cnt # 0 \/ IsLive(s)) /\ CanRespond(s, "RESPONSE")
  <2> DEFINE u == QueueReply(s, Control("RESPONSE", 0))
             t == [u EXCEPT !.connection = NewConnection(h.buf_alloc)]
  <2>1. OnRequest(s, h) = t
    BY <1>3 DEF OnRequest, Respond
  <2>2. CanQueueReply(s, 0)
    BY <1>3 DEF CanRespond
  <2>3. 0 \in Word /\ "RESPONSE" \in Op \ {"RW", "CREDIT_UPDATE"} /\ h.buf_alloc \in Word
    BY StreamAssumption DEF Word, Wrap, Op, Header
  <2>4. /\ u \in Stream /\ QueueInv(u) /\ SameConnection(s, u)
        /\ u.replies = Append(s.replies, Control("RESPONSE", 0))
    BY <2>2, <2>3, PushControl DEF StreamInv, BaseInv
  <2> HIDE DEF u
  <2>5. s.replies \in Seq(Reply) /\ s.connection = None /\ ~s.is_connecting /\ s.upstream = 0
    BY <1>3 DEF StreamInv, BaseInv, WindowInv, ReceiveWindow, Stream, IsLive
  <2>6. \A k \in DOMAIN u.replies : u.replies[k].op \in {"RST", "REQUEST", "RESPONSE"}
    <3>1. ASSUME NEW k \in DOMAIN u.replies
          PROVE  u.replies[k].op = "RESPONSE" \/ (k \in DOMAIN s.replies /\ u.replies[k] = s.replies[k])
      BY <2>4, <2>5 DEF Control
    <3> QED BY <3>1, <2>5 DEF StreamInv, LinkInv
  <2>7. StreamInv(t)
    BY <2>3, <2>4, <2>5, <2>6, OpenKeeps, Zenon DEF SameConnection
  <2>8. t.role = s.role
    BY <2>4 DEF SameConnection, Stream
  <2> QED BY <2>1, <2>7, <2>8 DEF Kept, StreamInv
<1> QED BY <1>1, <1>2, <1>3

(* The answer to the host's own request.                                   *)
LEMMA OnResponseKeeps ==
  ASSUME NEW s, StreamInv(s), NEW h \in Header
  PROVE  Kept(s, OnResponse(s, h))
<1>0. s \in Stream /\ h.buf_alloc \in Word
  BY DEF StreamInv, BaseInv, Header
<1>1. CASE ~s.is_connecting \/ h.fwd_cnt # 0
  <2> DEFINE u == RejectPacket(s, h)
             t == [u EXCEPT !.is_connecting = FALSE]
  <2>1. OnResponse(s, h) = t
    BY <1>1 DEF OnResponse
  <2>2. Kept(s, u) /\ ~IsLive(u)
    BY RejectKeeps
  <2> HIDE DEF u
  <2>3. u \in Stream /\ u.is_connecting = FALSE
    BY <2>2 DEF Kept, BaseInv, Stream, IsLive
  <2>4. t = u
    BY <2>3 DEF Stream
  <2> QED BY <2>1, <2>2, <2>4, Zenon
<1>2. CASE ~(~s.is_connecting \/ h.fwd_cnt # 0)
  <2> DEFINE u == [s EXCEPT !.is_connecting = FALSE]
             t == [u EXCEPT !.connection = NewConnection(h.buf_alloc)]
  <2>1. OnResponse(s, h) = t
    BY <1>0, <1>2 DEF OnResponse, Stream
  <2>2. /\ u \in Stream /\ u.role = s.role /\ u.is_connecting = FALSE /\ u.upstream = s.upstream
        /\ u.replies = s.replies /\ u.reply_bytes = s.reply_bytes
    BY <1>0, Zenon DEF Stream
  <2> HIDE DEF u
  <2>3. s.connection = None /\ s.upstream = 0
    BY <1>2 DEF StreamInv, BaseInv, WindowInv, ReceiveWindow
  <2>4. QueueInv(u) /\ \A k \in DOMAIN u.replies : u.replies[k].op \in {"RST", "REQUEST", "RESPONSE"}
    BY <2>2, <2>3 DEF StreamInv, BaseInv, QueueInv, LinkInv
  <2>5. StreamInv(t)
    BY <1>0, <2>2, <2>3, <2>4, OpenKeeps
  <2>6. t.role = s.role
    BY <2>2 DEF Stream
  <2> QED BY <2>1, <2>5, <2>6 DEF Kept, StreamInv
<1> QED BY <1>1, <1>2

(* StreamConnection::rx keeps every invariant of the stream for every      *)
(* packet a guest can send, or ends the connection.                        *)
THEOREM StreamRxKeeps ==
  ASSUME NEW s, StreamInv(s), NEW h \in Header
  PROVE  Kept(s, StreamRx(s, h))
<1>1. Kept(s, RejectPacket(s, h)) /\ Kept(s, OnRequest(s, h)) /\ Kept(s, OnResponse(s, h))
      /\ Kept(s, OnConnected(s, h))
  BY RejectKeeps, OnRequestKeeps, OnResponseKeeps, OnConnectedKeeps
<1>2. Kept(s, OnRst(s))
  BY RstDropKeeps DEF OnRst, Kept, StreamInv
<1>3. StreamRx(s, h) \in {RejectPacket(s, h), OnRequest(s, h), OnResponse(s, h), OnRst(s),
                          OnConnected(s, h)}
  BY DEF StreamRx
<1> QED BY <1>1, <1>2, <1>3

-----------------------------------------------------------------------------
(* Calls from the host.                                                    *)

(* Opening towards the guest, from a stream that has never been used.      *)
LEMMA RequestKeeps ==
  ASSUME NEW role \in Role
  PROVE  LET s == NewStream(role)
         IN  StreamInv(s) /\ StreamInv(Request(s)) /\ Request(s).role = role
             /\ IsLive(Request(s)) /\ ~IsLive(s)
<1> DEFINE s == NewStream(role)
           u == QueueReply(s, Control("REQUEST", 0))
           t == [u EXCEPT !.is_connecting = TRUE]
<1>1. /\ s \in Stream /\ s.role = role /\ s.connection = None /\ s.is_connecting = FALSE
      /\ s.upstream = 0 /\ s.replies = <<>> /\ s.reply_bytes = 0
  BY DEF NewStream, Stream
<1>2. MaxTxBytes[role] \in Nat /\ RxAlloc[role] \in Nat /\ MAX_QUEUED_REPLIES \in Nat \ {0}
  BY StreamAssumption
<1> HIDE DEF s
<1>3. QueueInv(s)
  <2>0. s.replies \in Seq(Reply) /\ \A k \in DOMAIN s.replies : s.replies[k].len = 0
    BY <1>1
  <2>1. IsPayloadOf(0, s.replies)
    BY <2>0, PayloadNone
  <2> QED BY <1>1, <1>2, <2>1 DEF QueueInv
<1>4. StreamInv(s)
  BY <1>1, <1>2, <1>3 DEF StreamInv, BaseInv, WindowInv, ReceiveWindow, CreditReported, LinkInv
<1>5. CanQueueReply(s, 0)
  BY <1>1, <1>2 DEF CanQueueReply
<1>6. Request(s) = t
  BY <1>1, <1>5 DEF Request, IsLive
<1>7. 0 \in Word /\ "REQUEST" \in Op \ {"RW", "CREDIT_UPDATE"}
  BY StreamAssumption DEF Word, Wrap, Op
<1>8. /\ u \in Stream /\ QueueInv(u) /\ SameConnection(s, u)
      /\ u.replies = Append(s.replies, Control("REQUEST", 0))
  BY <1>1, <1>3, <1>5, <1>7, PushControl
<1> HIDE DEF u
<1>9. /\ t \in Stream /\ t.role = role /\ t.connection = None /\ t.is_connecting = TRUE
      /\ t.upstream = 0 /\ t.replies = u.replies /\ t.reply_bytes = u.reply_bytes
  BY <1>1, <1>8, Zenon DEF Stream, SameConnection
<1> HIDE DEF t
<1>10. QueueInv(t)
  BY <1>1, <1>8, <1>9 DEF QueueInv, SameConnection
<1>11. LinkInv(t)
  <2>1. \A k \in DOMAIN t.replies : t.replies[k].op = "REQUEST"
    BY <1>1, <1>8, <1>9 DEF Control
  <2> QED BY <2>1, <1>9 DEF LinkInv
<1>12. StreamInv(t)
  BY <1>2, <1>9, <1>10, <1>11 DEF StreamInv, BaseInv, WindowInv, ReceiveWindow, CreditReported
<1> QED BY <1>1, <1>4, <1>6, <1>9, <1>12 DEF IsLive, s

(* A control reply queued for a connection, with flags of it raised that   *)
(* the window does not depend on.                                          *)
LEMMA RequestCreditKeeps ==
  ASSUME NEW s, StreamInv(s)
  PROVE  Kept(s, RequestCredit(s))
<1> DEFINE c == s.connection
           f == c.rx_fwd_cnt
           u == QueueReply(s, Control("CREDIT_REQUEST", f))
           d == [c EXCEPT !.is_credit_requested = TRUE]
           t == [u EXCEPT !.connection = d]
<1>1. CASE RequestCredit(s) = s
  BY <1>1 DEF Kept, StreamInv
<1>2. CASE s.connection # None /\ ~s.connection.is_credit_requested /\ CanQueueReply(s, 0)
  <2>1. s \in Stream /\ c \in Connection /\ f \in Word /\ s.replies \in Seq(Reply)
    BY <1>2 DEF StreamInv, BaseInv, Stream, Connection
  <2>2. "CREDIT_REQUEST" \in Op \ {"RW", "CREDIT_UPDATE"}
    BY DEF Op
  <2>3. /\ u \in Stream /\ QueueInv(u) /\ SameConnection(s, u)
        /\ u.replies = Append(s.replies, Control("CREDIT_REQUEST", f))
    BY <1>2, <2>1, <2>2, PushControl DEF StreamInv, BaseInv
  <2>4. RequestCredit(s) = [u EXCEPT !.connection.is_credit_requested = TRUE]
    BY <1>2 DEF RequestCredit
  <2>5. RequestCredit(s) = t
    BY <2>3, <2>4, Zenon DEF SameConnection
  <2>6. /\ d \in Connection /\ d.tx_fwd_cnt = c.tx_fwd_cnt /\ d.peer_fwd_cnt = c.peer_fwd_cnt
        /\ d.tx_shutdown = c.tx_shutdown /\ d.peer_receive_closed = c.peer_receive_closed
        /\ d.rx_received = c.rx_received /\ d.rx_fwd_cnt = c.rx_fwd_cnt
        /\ d.peer_buf_alloc = c.peer_buf_alloc
        /\ d.rx_credit_update_fwd_cnt = c.rx_credit_update_fwd_cnt
        /\ d.is_receive_credit_requested = c.is_receive_credit_requested
    BY <2>1, Zenon DEF Connection
  <2> HIDE DEF u, d
  <2>7. \A k \in DOMAIN u.replies :
          u.replies[k].op = "CREDIT_REQUEST" \/ (k \in DOMAIN s.replies /\ u.replies[k] = s.replies[k])
    BY <2>1, <2>3 DEF Control
  <2>8. /\ t \in Stream /\ t.role = s.role /\ t.connection = d /\ t.connection # None
        /\ t.is_connecting = s.is_connecting /\ t.upstream = s.upstream
        /\ t.replies = u.replies /\ QueueInv(t)
    BY <2>3, <2>6, SetConnection DEF SameConnection
  <2> HIDE DEF t
  <2>9. WindowInv(t) /\ CreditReported(t)
    BY <1>2, <2>6, <2>8 DEF StreamInv, BaseInv, WindowInv, ReceiveWindow, QueuedBytes,
                            CreditReported, UnreportedBytes
  <2>10. LinkInv(t)
    BY <1>2, <2>6, <2>7, <2>8, ZenonT(60) DEF StreamInv, LinkInv
  <2> QED BY <2>5, <2>8, <2>9, <2>10 DEF Kept, BaseInv
<1> QED BY <1>1, <1>2 DEF RequestCredit

(* Bytes that deliver accepts fit the send budget on top of those the      *)
(* guest has yet to acknowledge.                                           *)
LEMMA CapacityBound ==
  ASSUME NEW s \in Stream, s.connection # None, ~s.connection.tx_shutdown,
         NEW len \in Nat \ {0}, len <= SendCapacity(s)
  PROVE  UnackedBytes(s.connection.tx_fwd_cnt, s.connection.peer_fwd_cnt) + len
           <= MaxTxBytes[s.role]
<1> DEFINE unacked == UnackedBytes(s.connection.tx_fwd_cnt, s.connection.peer_fwd_cnt)
<1>1. /\ s.connection.tx_fwd_cnt \in Word /\ s.connection.peer_fwd_cnt \in Word
      /\ s.connection.peer_buf_alloc \in Nat /\ s.reply_bytes \in Nat
  BY DEF Stream, Connection, Word
<1>2. unacked \in Nat
  <2>1. unacked \in Word
    BY <1>1, WordArithmetic DEF UnackedBytes
  <2> QED BY <2>1 DEF Word
<1>3. MaxTxBytes[s.role] \in Nat /\ MAX_PACKET_DATA_BYTES \in Nat
  BY StreamAssumption DEF Stream
<1>4. AvailableSendCredit(s) = Least(SaturatingSub(s.connection.peer_buf_alloc, unacked),
                                     SaturatingSub(MaxTxBytes[s.role], unacked))
  BY DEF AvailableSendCredit
<1> HIDE DEF unacked
<1>5. /\ AvailableSendCredit(s) \in Nat
      /\ AvailableSendCredit(s) <= SaturatingSub(MaxTxBytes[s.role], unacked)
  BY <1>1, <1>2, <1>3, <1>4 DEF Least, SaturatingSub
<1>6. len <= AvailableSendCredit(s)
  BY <1>1, <1>3, <1>5 DEF SendCapacity, Least, SaturatingSub
<1>7. unacked + len <= MaxTxBytes[s.role]
  BY <1>2, <1>3, <1>5, <1>6 DEF SaturatingSub
<1> QED BY <1>7 DEF unacked

(* deliver queues the data, asks for credit, or leaves the stream alone.   *)
LEMMA DeliverKeeps ==
  ASSUME NEW s, StreamInv(s), NEW len \in Nat
  PROVE  Kept(s, Deliver(s, len))
<1> DEFINE c == s.connection
           d == [c EXCEPT !.tx_fwd_cnt = WrappingAdd(@, len)]
           u == [s EXCEPT !.connection = d]
           r == [op |-> "RW", len |-> len, fwd_cnt |-> c.rx_fwd_cnt]
           t == QueueReply(u, r)
<1>1. CASE Deliver(s, len) = s
  BY <1>1 DEF Kept, StreamInv
<1>2. CASE Deliver(s, len) = RequestCredit(s)
  BY <1>2, RequestCreditKeeps
<1>3. CASE s.connection # None /\ len # 0 /\ CanDeliver(s, len) /\ CanQueueReply(s, len)
  <2>1. /\ s \in Stream /\ c \in Connection /\ c.rx_fwd_cnt \in Word /\ s.replies \in Seq(Reply)
        /\ c.tx_fwd_cnt \in Word /\ c.peer_fwd_cnt \in Word /\ s.reply_bytes \in Nat
    BY <1>3 DEF StreamInv, BaseInv, Stream, Connection
  <2>2. ~c.tx_shutdown /\ len <= SendCapacity(s)
    BY <1>3 DEF CanDeliver
  <2>3. UnackedBytes(c.tx_fwd_cnt, c.peer_fwd_cnt) + len <= MaxTxBytes[s.role]
    BY <1>3, <2>1, <2>2, CapacityBound
  <2>4. /\ MaxTxBytes[s.role] \in Nat /\ MaxTxBytes[s.role] < HalfWrap /\ HalfWrap \in Nat
    BY <2>1, StreamAssumption DEF Stream
  <2>5. UnackedBytes(c.tx_fwd_cnt, c.peer_fwd_cnt) \in Nat
    <3>1. UnackedBytes(c.tx_fwd_cnt, c.peer_fwd_cnt) \in Word
      BY <2>1, WordArithmetic DEF UnackedBytes
    <3> QED BY <3>1 DEF Word
  <2>6. len \in Word /\ UnackedBytes(c.tx_fwd_cnt, c.peer_fwd_cnt) + len < Wrap
    BY <2>3, <2>4, <2>5 DEF Word, Wrap
  <2>7. WrappingAdd(c.tx_fwd_cnt, len) \in Word
    BY <2>1, <2>6, WordArithmetic, Zenon
  <2>8. UnackedBytes(WrappingAdd(c.tx_fwd_cnt, len), c.peer_fwd_cnt)
          = UnackedBytes(c.tx_fwd_cnt, c.peer_fwd_cnt) + len
    BY <2>1, <2>6, WordArithmetic, ZenonT(60) DEF UnackedBytes
  <2>9. /\ d \in Connection /\ d.tx_fwd_cnt = WrappingAdd(c.tx_fwd_cnt, len)
        /\ d.peer_fwd_cnt = c.peer_fwd_cnt
        /\ d.tx_shutdown = c.tx_shutdown /\ d.peer_receive_closed = c.peer_receive_closed
        /\ d.rx_received = c.rx_received /\ d.rx_fwd_cnt = c.rx_fwd_cnt
        /\ d.peer_buf_alloc = c.peer_buf_alloc
        /\ d.rx_credit_update_fwd_cnt = c.rx_credit_update_fwd_cnt
        /\ d.is_receive_credit_requested = c.is_receive_credit_requested
    BY <2>1, <2>7 DEF Connection
  <2>10. r \in Reply /\ r.len = len /\ r.op = "RW"
    BY <2>1 DEF Reply, Op
  <2>11. Deliver(s, len) = t
    BY <1>3, <2>2 DEF Deliver
  <2> HIDE DEF d, r
  <2>12. /\ u \in Stream /\ u.role = s.role /\ u.connection = d /\ u.connection # None
         /\ u.is_connecting = s.is_connecting /\ u.upstream = s.upstream
         /\ u.replies = s.replies /\ u.reply_bytes = s.reply_bytes /\ QueueInv(u)
    BY <2>1, <2>9, SetConnection DEF StreamInv, BaseInv
  <2> HIDE DEF u
  <2>13. CanQueueReply(u, len)
    BY <1>3, <2>12 DEF CanQueueReply
  <2>14. t = [u EXCEPT !.replies = Append(@, r), !.reply_bytes = @ + r.len]
    BY <2>10, <2>13 DEF QueueReply
  <2>15. Append(u.replies, r) \in Seq(Reply) /\ u.reply_bytes + r.len \in Nat
    BY <2>1, <2>10, <2>12
  <2> HIDE DEF t
  <2>16. /\ t \in Stream /\ t.role = s.role /\ t.connection = d /\ t.connection # None
         /\ t.is_connecting = s.is_connecting /\ t.upstream = s.upstream
         /\ t.replies = Append(u.replies, r) /\ t.reply_bytes = u.reply_bytes + r.len
    BY <2>12, <2>14, <2>15, Zenon DEF Stream
  <2>17. \A k \in DOMAIN u.replies : u.replies[k].op # "SHUTDOWN"
    BY <1>3, <2>2, <2>12 DEF StreamInv, LinkInv
  <2>18. QueueInv(t)
    BY <2>10, <2>12, <2>13, <2>16, <2>17, PushKeepsQueue
  <2>19. UnackedBytes(d.tx_fwd_cnt, d.peer_fwd_cnt) <= MaxTxBytes[t.role]
    BY <2>3, <2>8, <2>9, <2>16, Zenon
  <2>20. WindowInv(t) /\ CreditReported(t)
    BY <1>3, <2>9, <2>16, <2>19 DEF StreamInv, BaseInv, WindowInv, ReceiveWindow, QueuedBytes,
                              CreditReported, UnreportedBytes
  <2>21. \A k \in DOMAIN t.replies :
           t.replies[k].op = "RW" \/ (k \in DOMAIN s.replies /\ t.replies[k] = s.replies[k])
    BY <2>1, <2>10, <2>12, <2>16
  <2>22. ~d.peer_receive_closed
    BY <1>3, <2>2, <2>9 DEF StreamInv, BaseInv, WindowInv
  <2>23. LinkInv(t)
    BY <1>3, <2>9, <2>16, <2>21, <2>22 DEF StreamInv, LinkInv
  <2> QED BY <2>11, <2>16, <2>18, <2>20, <2>23 DEF Kept, BaseInv
<1> QED BY <1>1, <1>2, <1>3 DEF Deliver

(* shutdown closes the sending side and queues the SHUTDOWN behind data.   *)
LEMMA ShutdownKeeps ==
  ASSUME NEW s, StreamInv(s)
  PROVE  Kept(s, Shutdown(s))
<1> DEFINE c == s.connection
           d == [c EXCEPT !.tx_shutdown = TRUE]
           u == [s EXCEPT !.connection = d]
           t == QueueReply(u, Control("SHUTDOWN", c.rx_fwd_cnt))
<1>1. CASE Shutdown(s) = s
  BY <1>1 DEF Kept, StreamInv
<1>2. CASE s.connection # None /\ ~s.connection.tx_shutdown /\ CanQueueReply(s, 0)
  <2>1. s \in Stream /\ c \in Connection /\ c.rx_fwd_cnt \in Word /\ s.replies \in Seq(Reply)
    BY <1>2 DEF StreamInv, BaseInv, Stream, Connection
  <2>2. "SHUTDOWN" \in Op \ {"RW", "CREDIT_UPDATE"}
    BY DEF Op
  <2>3. Shutdown(s) = t
    BY <1>2 DEF Shutdown, Respond
  <2>4. /\ d \in Connection /\ d.tx_shutdown
        /\ d.tx_fwd_cnt = c.tx_fwd_cnt /\ d.peer_fwd_cnt = c.peer_fwd_cnt
        /\ d.peer_receive_closed = c.peer_receive_closed
        /\ d.rx_received = c.rx_received /\ d.rx_fwd_cnt = c.rx_fwd_cnt
        /\ d.peer_buf_alloc = c.peer_buf_alloc
        /\ d.rx_credit_update_fwd_cnt = c.rx_credit_update_fwd_cnt
        /\ d.is_receive_credit_requested = c.is_receive_credit_requested
    BY <2>1, Zenon DEF Connection
  <2> HIDE DEF d
  <2>5. /\ u \in Stream /\ u.role = s.role /\ u.connection = d /\ u.connection # None
        /\ u.is_connecting = s.is_connecting /\ u.upstream = s.upstream
        /\ u.replies = s.replies /\ u.reply_bytes = s.reply_bytes /\ QueueInv(u)
    BY <2>1, <2>4, SetConnection DEF StreamInv, BaseInv
  <2> HIDE DEF u
  <2>6. CanQueueReply(u, 0)
    BY <1>2, <2>5 DEF CanQueueReply
  <2>7. /\ t \in Stream /\ QueueInv(t) /\ SameConnection(u, t)
        /\ t.replies = Append(u.replies, Control("SHUTDOWN", c.rx_fwd_cnt))
    BY <2>1, <2>2, <2>5, <2>6, PushControl, Zenon
  <2> HIDE DEF t
  <2>8. WindowInv(u) /\ CreditReported(u)
    BY <1>2, <2>4, <2>5 DEF StreamInv, BaseInv, WindowInv, ReceiveWindow, QueuedBytes,
                            CreditReported, UnreportedBytes
  <2>9. WindowInv(t) /\ CreditReported(t)
    BY <2>5, <2>7, <2>8, SameConnectionKeeps
  <2>10. \A k \in DOMAIN t.replies :
           t.replies[k].op = "SHUTDOWN" \/ (k \in DOMAIN s.replies /\ t.replies[k] = s.replies[k])
    <3> DEFINE r == Control("SHUTDOWN", c.rx_fwd_cnt)
    <3>1. r.op = "SHUTDOWN" /\ t.replies = Append(s.replies, r)
      BY <2>5, <2>7 DEF Control
    <3> HIDE DEF r
    <3>2. /\ Len(t.replies) = Len(s.replies) + 1 /\ t.replies[Len(s.replies) + 1] = r
          /\ DOMAIN t.replies = 1 .. Len(s.replies) + 1 /\ DOMAIN s.replies = 1 .. Len(s.replies)
          /\ \A k \in 1 .. Len(s.replies) : t.replies[k] = s.replies[k]
      BY <2>1, <3>1
    <3>3. Len(s.replies) \in Nat
      BY <2>1
    <3> QED BY <3>1, <3>2, <3>3
  <2>11. LinkInv(t)
    BY <1>2, <2>4, <2>5, <2>7, <2>10, ZenonT(60) DEF StreamInv, LinkInv, SameConnection
  <2> QED BY <2>3, <2>5, <2>7, <2>9, <2>11 DEF Kept, BaseInv, SameConnection
<1> QED BY <1>1, <1>2 DEF Shutdown

(* Consuming moves buffer and counter together, and tells the guest when   *)
(* that is due.                                                            *)
LEMMA ConsumeKeeps ==
  ASSUME NEW s, StreamInv(s), NEW max \in Nat
  PROVE  Kept(s, StreamConsume(s, max))
<1> DEFINE c == s.connection
           count == Least(max, s.upstream)
           f == WrappingAdd(c.rx_fwd_cnt, count)
           d == [c EXCEPT !.rx_fwd_cnt = f,
                          !.is_receive_credit_requested =
                            c.is_receive_credit_requested
                              /\ WrappingSub(c.rx_received, f) # 0]
           a == [s EXCEPT !.upstream = s.upstream - count, !.connection = d]
<1>1. CASE s.connection = None \/ count = 0
  BY <1>1 DEF StreamConsume, Kept, StreamInv
<1>2. CASE ~(s.connection = None \/ count = 0)
  <2>1. /\ s \in Stream /\ c \in Connection /\ c.rx_fwd_cnt \in Word /\ c.rx_received \in Word
        /\ s.upstream \in Nat /\ IsLive(s) /\ c.rx_credit_update_fwd_cnt \in Word
        /\ c.peer_buf_alloc \in Nat /\ s.role \in Role
    BY <1>2 DEF StreamInv, BaseInv, Stream, Connection, IsLive, Word
  <2>2. count \in Nat /\ count <= s.upstream
    BY <2>1 DEF Least
  <2>3. s.upstream = QueuedBytes(c) /\ s.upstream <= RxAlloc[s.role]
    BY <1>2 DEF StreamInv, BaseInv, WindowInv, ReceiveWindow
  <2>4. QueuedBytes(c) \in Word
    BY <2>1, WordArithmetic DEF QueuedBytes
  <2>5. count \in Word
    BY <2>1, <2>2, <2>3, <2>4, StreamAssumption DEF Word, Wrap
  <2>6. f \in Word /\ WrappingSub(c.rx_received, f) = QueuedBytes(c) - count
    <3>1. count <= WrappingSub(c.rx_received, c.rx_fwd_cnt)
      BY <2>2, <2>3 DEF QueuedBytes
    <3> QED BY <2>1, <2>5, <3>1, WordArithmetic DEF QueuedBytes
  <2>7. /\ d \in Connection /\ d.rx_fwd_cnt = f /\ d.rx_received = c.rx_received
        /\ d.tx_fwd_cnt = c.tx_fwd_cnt /\ d.peer_fwd_cnt = c.peer_fwd_cnt
        /\ d.tx_shutdown = c.tx_shutdown /\ d.peer_receive_closed = c.peer_receive_closed
        /\ d.peer_buf_alloc = c.peer_buf_alloc
        /\ d.rx_credit_update_fwd_cnt = c.rx_credit_update_fwd_cnt
        /\ d.is_receive_credit_requested => c.is_receive_credit_requested
    BY <2>1, <2>6, Zenon DEF Connection
  <2>8. d # None
    BY <2>7, NoneAssumption
  <2>9. StreamConsume(s, max) = IF MustReport(a, c.is_receive_credit_requested)
                                THEN UpdateCreditOrDrop(a) ELSE a
    BY <1>2, <2>1, Zenon DEF StreamConsume, AdvanceReceiveCredit, QueuedBytes, Stream, Connection
  <2> HIDE DEF d, f, count
  <2>10. /\ a \in Stream /\ a.role = s.role /\ a.connection = d
         /\ a.is_connecting = s.is_connecting /\ a.upstream = s.upstream - count
         /\ a.replies = s.replies /\ a.reply_bytes = s.reply_bytes
    <3>1. s.upstream - count \in Nat
      BY <2>1, <2>2
    <3> QED BY <2>1, <2>7, <3>1, Zenon DEF Stream
  <2> HIDE DEF a
  <2>11. QueueInv(a)
    BY <2>10 DEF StreamInv, BaseInv, QueueInv
  <2>12. WindowInv(a)
    <3>1. RxAlloc[s.role] \in Nat
      BY <2>1, StreamAssumption
    <3>2. ReceiveWindow(a)
      BY <2>1, <2>2, <2>3, <2>6, <2>7, <2>8, <2>10, <3>1 DEF ReceiveWindow, QueuedBytes
    <3> QED BY <1>2, <2>7, <2>8, <2>10, <3>2 DEF StreamInv, BaseInv, WindowInv
  <2>13. LinkInv(a)
    BY <1>2, <2>7, <2>8, <2>10 DEF StreamInv, LinkInv
  <2>14. CASE MustReport(a, c.is_receive_credit_requested)
    BY <2>1, <2>8, <2>9, <2>10, <2>11, <2>12, <2>13, <2>14, UpdateCreditKeeps, Zenon DEF Kept
  <2>15. CASE ~MustReport(a, c.is_receive_credit_requested)
    <3>1. UnreportedBytes(d) \in Nat
      <4>1. UnreportedBytes(d) \in Word
        BY <2>1, <2>6, <2>7, WordArithmetic DEF UnreportedBytes
      <4> QED BY <4>1 DEF Word
    <3>2. Least(RxAlloc[s.role], c.peer_buf_alloc) \in Nat
      BY <2>1, StreamAssumption DEF Least
    <3>3. CreditReported(a)
      <4> DEFINE unreported == UnreportedBytes(d)
                 half == Least(RxAlloc[s.role], c.peer_buf_alloc) \div 2
      <4>1. unreported \in Nat /\ half \in Nat
        BY <3>1, <3>2
      <4>2. ~(unreported >= half) /\ a.role # "Agent" /\ ~c.is_receive_credit_requested
        BY <2>7, <2>10, <2>15 DEF MustReport
      <4> HIDE DEF unreported, half
      <4>3. unreported < half
        BY <4>1, <4>2
      <4> QED BY <2>7, <2>10, <4>2, <4>3 DEF CreditReported, unreported, half
    <3> QED BY <2>9, <2>10, <2>11, <2>12, <2>13, <2>15, <3>3 DEF Kept, BaseInv
  <2> QED BY <2>14, <2>15
<1> QED BY <1>1, <1>2

(* A reply leaves at the front, and its bytes with it.                     *)
LEMMA TakeKeeps ==
  ASSUME NEW s, StreamInv(s), s.replies # <<>>
  PROVE  /\ StreamInv(StreamTake(s)) /\ SameConnection(s, StreamTake(s))
         /\ StreamTake(s).replies = Tail(s.replies)
<1> DEFINE t == StreamTake(s)
           q == Tail(s.replies)
           b == s.reply_bytes - s.replies[1].len
<1>1. s \in Stream /\ s.replies \in Seq(Reply) /\ s.reply_bytes \in Nat /\ s.role \in Role
  BY DEF StreamInv, BaseInv, Stream
<1>2. s.replies[1].len <= s.reply_bytes /\ IsPayloadOf(b, q)
  BY <1>1, PayloadTail DEF StreamInv, BaseInv, QueueInv
<1>3. s.replies[1].len \in Nat
  BY <1>1 DEF Reply
<1>4. b \in Nat /\ b <= s.reply_bytes
  BY <1>1, <1>2, <1>3
<1>5. q \in Seq(Reply) /\ Len(q) = Len(s.replies) - 1
  BY <1>1
<1>6. \A k \in DOMAIN q : k \in Nat /\ k + 1 \in DOMAIN s.replies /\ q[k] = s.replies[k + 1]
  BY <1>1
<1>7. t = [s EXCEPT !.replies = q, !.reply_bytes = b]
  BY DEF StreamTake
<1> HIDE DEF t, q, b
<1>8. t \in Stream /\ SameConnection(s, t) /\ t.replies = q /\ t.reply_bytes = b
  BY <1>1, <1>4, <1>5, <1>7, Zenon DEF Stream, SameConnection
<1>9. QueueInv(t)
  <2>1. MaxTxBytes[s.role] \in Nat /\ MAX_QUEUED_REPLIES \in Nat
    BY <1>1, StreamAssumption
  <2>2. Len(q) <= MAX_QUEUED_REPLIES /\ b <= MaxTxBytes[s.role]
    BY <1>1, <1>4, <1>5, <2>1 DEF StreamInv, BaseInv, QueueInv
  <2>3. ASSUME NEW j \in DOMAIN q, NEW k \in DOMAIN q, q[j].op = "SHUTDOWN", q[k].op = "RW"
        PROVE  k < j
    <3>1. k + 1 < j + 1
      BY <1>6, <2>3 DEF StreamInv, BaseInv, QueueInv
    <3> QED BY <1>6, <3>1
  <2> QED BY <1>2, <1>8, <2>2, <2>3 DEF QueueInv, SameConnection
<1>10. LinkInv(t)
  BY <1>6, <1>8 DEF StreamInv, LinkInv, SameConnection
<1>11. WindowInv(t) /\ CreditReported(t)
  BY <1>1, <1>8, SameConnectionKeeps DEF StreamInv, BaseInv
<1> QED BY <1>8, <1>9, <1>10, <1>11 DEF StreamInv, BaseInv, t, q

(* What replies.clear() leaves: reply_bytes is not touched, and need not   *)
(* be, because a stream without a connection queues no payload.            *)
LEMMA ClearKeeps ==
  ASSUME NEW s, StreamInv(s), ~IsLive(s)
  PROVE  LET t == [s EXCEPT !.replies = <<>>]
         IN  StreamInv(t) /\ SameConnection(s, t) /\ t.replies = <<>>
<1> DEFINE t == [s EXCEPT !.replies = <<>>]
<1>1. s \in Stream /\ s.replies \in Seq(Reply) /\ s.reply_bytes \in Nat /\ s.connection = None
  BY DEF StreamInv, BaseInv, Stream, IsLive
<1>2. \A k \in DOMAIN s.replies : s.replies[k].len = 0
  BY <1>1 DEF StreamInv, LinkInv, Reply
<1>3. s.reply_bytes = 0
  BY <1>1, <1>2, PayloadZero DEF StreamInv, BaseInv, QueueInv
<1>a. <<>> \in Seq(Reply)
  OBVIOUS
<1>4. /\ t \in Stream /\ SameConnection(s, t) /\ t.replies = <<>> /\ t.reply_bytes = 0
  BY <1>1, <1>3, <1>a, Zenon DEF Stream, SameConnection
<1> HIDE DEF t
<1>5. IsPayloadOf(0, t.replies)
  <2>1. t.replies \in Seq(Reply) /\ \A k \in DOMAIN t.replies : t.replies[k].len = 0
    BY <1>4
  <2> QED BY <2>1, PayloadNone
<1>6. QueueInv(t) /\ LinkInv(t)
  BY <1>4, <1>5, StreamAssumption DEF QueueInv, LinkInv, Stream
<1>7. WindowInv(t) /\ CreditReported(t)
  BY <1>1, <1>4, SameConnectionKeeps, Zenon DEF StreamInv, BaseInv
<1> QED BY <1>4, <1>6, <1>7 DEF StreamInv, BaseInv, t

(* The invariant gives what the switch promises of every stream.           *)
THEOREM StreamInvImplies ==
  ASSUME NEW s, StreamInv(s)
  PROVE  ReceiveWindow(s) /\ SendBudget(s) /\ CreditReported(s) /\ DataBeforeClose(s)
BY DEF StreamInv, BaseInv, QueueInv, WindowInv, LinkInv, SendBudget, DataBeforeClose
=============================================================================
