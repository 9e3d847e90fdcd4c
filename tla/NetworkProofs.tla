---------------------------- MODULE NetworkProofs ---------------------------
(***************************************************************************)
(* Proofs about the network broker (NetFlows): who owns a listener grant   *)
(* and what the semaphores bound, for any number of streams, and the name  *)
(* queries of the guest, for any number of them.                           *)
(***************************************************************************)
EXTENDS NetFlows, SequenceTheorems, FiniteSetTheorems, TLAPS

(***************************************************************************)
(* Grants and permits of the broker's streams.                             *)
(***************************************************************************)

(* The states of a stream of the broker.                                   *)
StreamPcs == {"new", "done", "lookup", "reply", "claim", "insert", "poll", "released", "permit",
              "prepare", "opened", "relay", "resolving"}
Claiming == {"claim", "insert", "poll", "released"}
StreamStates == [pc : StreamPcs, permit : BOOLEAN, owner : BOOLEAN]

(* The streams that own a grant.                                           *)
Owners == {s \in NetStreams : nstream[s].owner}

(* GrantOwners::owned lists exactly the grants of these streams, and no    *)
(* two of them own the same one.                                           *)
OwnerInv ==
  /\ \A s \in Owners : nopen[s].grant \in owned
  /\ \A g \in owned : \E s \in Owners : nopen[s].grant = g
  /\ \A s, t \in Owners : nopen[s].grant = nopen[t].grant => s = t

(* What a stream owns and holds where it is: only a stream with a grant    *)
(* waits for one, and it has it before it takes a permit.                  *)
StreamInv(s) ==
  /\ nstream[s].owner => nstream[s].pc \in {"permit", "prepare", "opened", "relay"}
  /\ nstream[s].pc = "prepare" => nstream[s].permit
  /\ nstream[s].pc \in {"permit", "prepare"} /\ HasGrant(s) => nstream[s].owner
  /\ nstream[s].pc \in Claiming => HasGrant(s) /\ IsGranted(s)

(* Types.                                                                  *)
NetTypes ==
  /\ nstream \in [NetStreams -> StreamStates]
  /\ enabled \subseteq NetStreams
  /\ lookups \subseteq NetStreams /\ threads \subseteq NetStreams

(* No semaphore is overdrawn.                                              *)
PermitInv ==
  /\ Cardinality(PermitHolders) <= MaxResources
  /\ Cardinality(threads) <= MaxResolvers
  /\ Cardinality(lookups) <= MaxDnsRequests

(* The inductive invariant.                                                *)
NetInv ==
  /\ NetTypes /\ OwnerInv /\ PermitInv /\ owned \subseteq NetGrants
  /\ \A s \in NetStreams : StreamInv(s)

-----------------------------------------------------------------------------

(* A set below a bound may grow by one,                                    *)
LEMMA WithinOneMore ==
  ASSUME NEW S, IsFiniteSet(S), NEW x, NEW n \in Nat, Cardinality(S) < n
  PROVE  Cardinality(S \cup {x}) <= n
<1>1. Cardinality(S \cup {x}) \in {Cardinality(S), Cardinality(S) + 1}
  BY FS_AddElement
<1>2. Cardinality(S) \in Nat
  BY FS_CardinalityType
<1> QED
  BY <1>1, <1>2

(* and shrinks within it.                                                  *)
LEMMA WithinOneLess ==
  ASSUME NEW S, IsFiniteSet(S), NEW T \in SUBSET S, NEW n \in Nat, Cardinality(S) <= n
  PROVE  Cardinality(T) <= n
<1>1. IsFiniteSet(T) /\ Cardinality(T) <= Cardinality(S)
  BY FS_Subset
<1>2. Cardinality(S) \in Nat /\ Cardinality(T) \in Nat
  BY <1>1, FS_CardinalityType
<1> QED
  BY <1>1, <1>2

(* What the bounds count is finite.                                        *)
LEMMA StreamSetsAreFinite ==
  ASSUME NetTypes
  PROVE  IsFiniteSet(PermitHolders) /\ IsFiniteSet(threads) /\ IsFiniteSet(lookups)
<1>1. PermitHolders \subseteq NetStreams
  BY DEF PermitHolders
<1> QED
  BY <1>1, FS_Subset, NetAssumption DEF NetTypes

(* No stream has begun.                                                    *)
LEMMA NetStarts == NetInit => NetInv
<1> SUFFICES ASSUME NetInit PROVE NetInv
  OBVIOUS
<1>1. NetTypes
  BY DEF NetInit, NetTypes, StreamStates, StreamPcs
<1>2. Owners = {} /\ PermitHolders = {}
  BY DEF NetInit, Owners, PermitHolders
<1>3. OwnerInv
  BY <1>2 DEF NetInit, OwnerInv
<1>4. PermitInv
  <2>1. Cardinality({}) = 0
    BY FS_EmptySet
  <2> QED
    BY <1>2, <2>1, NetAssumption DEF NetInit, PermitInv
<1>5. \A s \in NetStreams : StreamInv(s)
  BY DEF NetInit, StreamInv, Claiming
<1> QED
  BY <1>1, <1>3, <1>4, <1>5 DEF NetInit, NetInv

\* A stream that is not at an owner's step, or that keeps what it owns.
LEMMA OwnersStay ==
  ASSUME OwnerInv, owned' = owned, Owners' = Owners, nopen' = nopen
  PROVE  OwnerInv'
BY DEF OwnerInv

(* A stream takes a grant nobody owns,                                     *)
LEMMA OwnerTakes ==
  ASSUME OwnerInv, NEW s \in NetStreams, nopen[s].grant \notin owned,
         owned' = owned \cup {nopen[s].grant}, Owners' = Owners \cup {s}, nopen' = nopen
  PROVE  OwnerInv'
BY DEF OwnerInv

(* and gives up what it owns, if anything.                                 *)
LEMMA OwnerDrops ==
  ASSUME OwnerInv, NEW s \in NetStreams, owned' = OwnedWithout(s), Owners' = Owners \ {s}, nopen' = nopen
  PROVE  OwnerInv'
<1>1. CASE s \in Owners
  <2>1. owned' = owned \ {nopen[s].grant}
    BY <1>1 DEF OwnedWithout, Owners
  <2> QED
    BY <1>1, <2>1 DEF OwnerInv
<1>2. CASE s \notin Owners
  <2>1. owned' = owned /\ Owners' = Owners
    BY <1>2 DEF OwnedWithout, Owners
  <2> QED
    BY <2>1, OwnersStay
<1> QED
  BY <1>1, <1>2

\* What a step that gives one stream a new state does to the sets.
LEMMA OneStream ==
  ASSUME NetTypes, NEW s \in NetStreams, NEW st \in StreamStates, nstream' = [nstream EXCEPT ![s] = st]
  PROVE  /\ nstream' \in [NetStreams -> StreamStates]
         /\ nstream'[s] = st /\ \A t \in NetStreams \ {s} : nstream'[t] = nstream[t]
         /\ st.owner => Owners' = Owners \cup {s}
         /\ ~st.owner => Owners' = Owners \ {s}
         /\ st.permit => PermitHolders' = PermitHolders \cup {s}
         /\ ~st.permit => PermitHolders' = PermitHolders \ {s}
<1>1. nstream' \in [NetStreams -> StreamStates]
  BY DEF NetTypes
<1>2. nstream'[s] = st /\ \A t \in NetStreams \ {s} : nstream'[t] = nstream[t]
  BY DEF NetTypes
<1>3. st.owner \in BOOLEAN /\ st.permit \in BOOLEAN
  BY DEF StreamStates
<1> QED
  BY <1>1, <1>2, <1>3 DEF Owners, PermitHolders

(* A step of one stream says nothing new of the others.                    *)
LEMMA OthersKeep ==
  ASSUME \A t \in NetStreams : StreamInv(t), NEW s \in NetStreams, UNCHANGED <<listeners, nopen>>,
         \A t \in NetStreams \ {s} : nstream'[t] = nstream[t], StreamInv(s)'
  PROVE  \A t \in NetStreams : StreamInv(t)'
<1>1. \A t \in NetStreams : HasGrant(t)' = HasGrant(t) /\ IsGranted(t)' = IsGranted(t)
  BY DEF HasGrant, IsGranted, Adopted
<1> QED
  BY <1>1 DEF StreamInv

(* A step takes a permit only where one is left.                           *)
LEMMA PermitsWithin ==
  ASSUME NetTypes, PermitInv, NEW s \in NetStreams,
         \/ PermitHolders' \subseteq PermitHolders
         \/ PermitHolders' = PermitHolders \cup {s} /\ Cardinality(PermitHolders) < MaxResources,
         \/ threads' \subseteq threads
         \/ threads' = threads \cup {s} /\ Cardinality(threads) < MaxResolvers,
         \/ lookups' \subseteq lookups
         \/ lookups' = lookups \cup {s} /\ Cardinality(lookups) < MaxDnsRequests
  PROVE  PermitInv'
<1>1. /\ IsFiniteSet(PermitHolders) /\ IsFiniteSet(threads) /\ IsFiniteSet(lookups)
      /\ MaxResources \in Nat /\ MaxResolvers \in Nat /\ MaxDnsRequests \in Nat
  BY StreamSetsAreFinite, NetAssumption
<1>2. Cardinality(PermitHolders') <= MaxResources
  BY <1>1, WithinOneMore, WithinOneLess, Zenon DEF PermitInv
<1>3. Cardinality(threads') <= MaxResolvers
  BY <1>1, WithinOneMore, WithinOneLess, Zenon DEF PermitInv
<1>4. Cardinality(lookups') <= MaxDnsRequests
  BY <1>1, WithinOneMore, WithinOneLess, Zenon DEF PermitInv
<1> QED
  BY <1>2, <1>3, <1>4 DEF PermitInv

\* The step of a stream to another place, with what it holds.
LEMMA StreamMoves ==
  ASSUME NetTypes, NEW s \in NetStreams, NEW pc \in StreamPcs, StreamAt(s, pc)
  PROVE  /\ nstream' \in [NetStreams -> StreamStates]
         /\ nstream'[s] = [nstream[s] EXCEPT !.pc = pc] /\ \A t \in NetStreams \ {s} : nstream'[t] = nstream[t]
         /\ nstream'[s].pc = pc /\ nstream'[s].owner = nstream[s].owner /\ nstream'[s].permit = nstream[s].permit
         /\ Owners' = Owners /\ PermitHolders' = PermitHolders
<1> DEFINE st == [nstream[s] EXCEPT !.pc = pc]
<1>1. nstream[s] \in StreamStates
  BY DEF NetTypes
<1>2. st \in StreamStates /\ st.pc = pc /\ st.owner = nstream[s].owner /\ st.permit = nstream[s].permit
  BY <1>1 DEF StreamStates
<1>3. nstream' = [nstream EXCEPT ![s] = st]
  BY DEF StreamAt
<1> HIDE DEF st
<1>4. /\ nstream' \in [NetStreams -> StreamStates]
      /\ nstream'[s] = st /\ \A t \in NetStreams \ {s} : nstream'[t] = nstream[t]
  BY <1>2, <1>3, OneStream, Zenon
<1>5. Owners' = Owners /\ PermitHolders' = PermitHolders
  BY <1>2, <1>4 DEF Owners, PermitHolders
<1> QED
  BY <1>2, <1>4, <1>5 DEF st

(* A release wakes streams that wait.                                      *)
LEMMA EnabledShrinks ==
  ASSUME NetTypes, NEW s \in NetStreams, WakeWaiters(s)
  PROVE  enabled' \subseteq NetStreams
BY DEF WakeWaiters, NetTypes

(* A stream ends and drops its permit and its grant.                       *)
LEMMA FinishKeeps ==
  ASSUME NetInv, NEW s \in NetStreams, Finish(s), UNCHANGED <<listeners, nopen, threads>>
  PROVE  NetInv'
<1> DEFINE st == [pc |-> "done", permit |-> FALSE, owner |-> FALSE]
<1>1. st \in StreamStates /\ st.pc = "done" /\ ~st.permit /\ ~st.owner
  BY DEF StreamStates, StreamPcs
<1>2. nstream' = [nstream EXCEPT ![s] = st]
  BY DEF Finish
<1> HIDE DEF st
<1>3. /\ nstream' \in [NetStreams -> StreamStates] /\ nstream'[s] = st
      /\ \A t \in NetStreams \ {s} : nstream'[t] = nstream[t]
      /\ Owners' = Owners \ {s} /\ PermitHolders' = PermitHolders \ {s}
  BY <1>1, <1>2, OneStream, Zenon DEF NetInv
<1>4. NetTypes'
  BY <1>3, EnabledShrinks, Zenon DEF NetInv, NetTypes, Finish
<1>5. OwnerInv'
  BY <1>3, OwnerDrops DEF NetInv, Finish
<1>6. PermitInv'
  <2>1. lookups' \subseteq lookups /\ threads' \subseteq threads /\ PermitHolders' \subseteq PermitHolders
    BY <1>3 DEF Finish
  <2> QED
    BY <2>1, PermitsWithin DEF NetInv
<1>7. StreamInv(s)'
  BY <1>1, <1>3 DEF StreamInv, Claiming
<1>8. \A t \in NetStreams : StreamInv(t)'
  BY <1>3, <1>7, OthersKeep, Zenon DEF NetInv
<1>9. owned' \subseteq NetGrants'
  BY DEF NetInv, Finish, OwnedWithout, NetGrants, Adopted
<1> QED
  BY <1>4, <1>5, <1>6, <1>8, <1>9, Zenon DEF NetInv

\* A move that leaves what is owned.
LEMMA MoveKeeps ==
  ASSUME NetInv, NEW s \in NetStreams, NEW pc \in StreamPcs, StreamAt(s, pc),
         UNCHANGED <<listeners, nopen, owned>>, enabled' \subseteq NetStreams,
         \/ threads' \subseteq threads
         \/ threads' = threads \cup {s} /\ Cardinality(threads) < MaxResolvers,
         \/ lookups' \subseteq lookups
         \/ lookups' = lookups \cup {s} /\ Cardinality(lookups) < MaxDnsRequests,
         nstream[s].owner => pc \in {"permit", "prepare", "opened", "relay"},
         pc = "prepare" => nstream[s].permit,
         pc \in {"permit", "prepare"} /\ HasGrant(s) => nstream[s].owner,
         pc \in Claiming => HasGrant(s) /\ IsGranted(s)
  PROVE  NetInv'
<1>1. /\ nstream' \in [NetStreams -> StreamStates]
      /\ \A t \in NetStreams \ {s} : nstream'[t] = nstream[t]
      /\ nstream'[s].pc = pc /\ nstream'[s].owner = nstream[s].owner /\ nstream'[s].permit = nstream[s].permit
      /\ Owners' = Owners /\ PermitHolders' = PermitHolders
  BY StreamMoves, Zenon DEF NetInv
<1>2. NetTypes'
  BY <1>1 DEF NetInv, NetTypes
<1>3. OwnerInv'
  BY <1>1, OwnersStay, Zenon DEF NetInv
<1>4. PermitInv'
  BY <1>1, PermitsWithin, Zenon DEF NetInv
<1>5. StreamInv(s)'
  <2>1. HasGrant(s)' = HasGrant(s) /\ IsGranted(s)' = IsGranted(s)
    BY Zenon DEF HasGrant, IsGranted, Adopted
  <2> QED
    BY <1>1, <2>1, Zenon DEF StreamInv
<1>6. \A t \in NetStreams : StreamInv(t)'
  BY <1>1, <1>5, OthersKeep, Zenon DEF NetInv
<1>7. owned' \subseteq NetGrants'
  BY DEF NetInv, NetGrants, Adopted
<1> QED
  BY <1>2, <1>3, <1>4, <1>6, <1>7, Zenon DEF NetInv

(* serve_stream reads the operation.                                       *)
LEMMA OpenStreamKeeps ==
  ASSUME NetInv, NEW s \in NetStreams, OpenStream(s)
  PROVE  NetInv'
<1>1. ~nstream[s].owner /\ UNCHANGED <<listeners, nopen, threads, owned, enabled>>
  BY DEF OpenStream, NetInv, StreamInv
<1>2. enabled' \subseteq NetStreams /\ threads' \subseteq threads
  BY <1>1 DEF NetInv, NetTypes
<1>3. CASE StreamAt(s, "done") /\ UNCHANGED lookups
  BY <1>1, <1>2, <1>3, MoveKeeps, Zenon DEF StreamPcs, Claiming
<1>4. CASE StreamAt(s, "lookup") /\ lookups' = lookups \cup {s} /\ Cardinality(lookups) < MaxDnsRequests
  BY <1>1, <1>2, <1>4, MoveKeeps, Zenon DEF StreamPcs, Claiming
<1>5. CASE StreamAt(s, "reply") /\ UNCHANGED lookups
  BY <1>1, <1>2, <1>5, MoveKeeps, Zenon DEF StreamPcs, Claiming
<1>6. CASE StreamAt(s, "claim") /\ HasGrant(s) /\ IsGranted(s) /\ UNCHANGED lookups
  BY <1>1, <1>2, <1>6, MoveKeeps, Zenon DEF StreamPcs, Claiming
<1>7. CASE StreamAt(s, "permit") /\ nopen[s].kind \in {"tcp", "udp"} /\ UNCHANGED lookups
  <2>1. ~HasGrant(s)
    BY <1>7 DEF HasGrant
  <2> QED
    BY <1>1, <1>2, <1>7, <2>1, MoveKeeps, Zenon DEF StreamPcs, Claiming
<1> QED
  BY <1>3, <1>4, <1>5, <1>6, <1>7, Zenon DEF OpenStream

(* claim registers its wait before it looks, and wakes;                    *)
LEMMA ClaimKeeps ==
  ASSUME NetInv, NEW s \in NetStreams, EnableWait(s) \/ WaitReleased(s)
  PROVE  NetInv'
<1>1. /\ nstream[s].pc \in Claiming /\ ~nstream[s].owner
      /\ UNCHANGED <<listeners, nopen, owned, lookups, threads>>
  BY DEF EnableWait, WaitReleased, NetInv, StreamInv, Claiming
<1>2. HasGrant(s) /\ IsGranted(s)
  BY <1>1 DEF NetInv, StreamInv
<1>3. enabled' \subseteq NetStreams
  BY DEF EnableWait, WaitReleased, NetInv, NetTypes
<1>4. \E pc \in {"insert", "released", "claim"} : StreamAt(s, pc)
  BY DEF EnableWait, WaitReleased
<1>5. PICK pc \in {"insert", "released", "claim"} : StreamAt(s, pc)
  BY <1>4
<1> QED
  BY <1>1, <1>2, <1>3, <1>5, MoveKeeps, Zenon DEF StreamPcs, Claiming

(* it takes the grant or waits for its release.                            *)
LEMMA InsertKeeps ==
  ASSUME NetInv, NEW s \in NetStreams, InsertGrant(s)
  PROVE  NetInv'
<1>1. /\ nstream[s].pc \in Claiming /\ ~nstream[s].owner
      /\ UNCHANGED <<listeners, nopen, lookups, threads>>
  BY Zenon DEF InsertGrant, NetInv, StreamInv, Claiming
<1>2. HasGrant(s) /\ IsGranted(s)
  BY <1>1, Zenon DEF NetInv, StreamInv
<1>3. CASE nopen[s].grant \in owned
  <2>1. StreamAt(s, "poll") /\ UNCHANGED <<owned, enabled>>
    BY <1>3 DEF InsertGrant
  <2>2. enabled' \subseteq NetStreams
    BY <2>1 DEF NetInv, NetTypes
  <2> QED
    BY <1>1, <1>2, <2>1, <2>2, MoveKeeps, Zenon DEF StreamPcs, Claiming
<1>4. CASE nopen[s].grant \notin owned
  <2> DEFINE st == [nstream[s] EXCEPT !.pc = "permit", !.owner = TRUE]
  <2>1. owned' = owned \cup {nopen[s].grant} /\ enabled' = enabled \ {s} /\ nstream' = [nstream EXCEPT ![s] = st]
    BY <1>4, Zenon DEF InsertGrant
  <2>2. nstream[s] \in StreamStates
    BY DEF NetInv, NetTypes
  <2>3. st \in StreamStates /\ st.pc = "permit" /\ st.owner /\ st.permit = nstream[s].permit
    BY <2>2, Zenon DEF StreamStates, StreamPcs
  <2> HIDE DEF st
  <2>4. /\ nstream' \in [NetStreams -> StreamStates] /\ nstream'[s] = st
        /\ \A t \in NetStreams \ {s} : nstream'[t] = nstream[t]
        /\ Owners' = Owners \cup {s}
    BY <2>1, <2>3, OneStream, Zenon DEF NetInv
  <2>5. PermitHolders' = PermitHolders
    BY <2>3, <2>4, Zenon DEF PermitHolders
  <2>6. NetTypes'
    BY <1>1, <2>1, <2>4, Zenon DEF NetInv, NetTypes
  <2>7. OwnerInv'
    BY <1>1, <1>4, <2>1, <2>4, OwnerTakes, Zenon DEF NetInv
  <2>8. PermitInv'
    BY <1>1, <2>5, PermitsWithin, Zenon DEF NetInv
  <2>9. StreamInv(s)'
    BY <2>3, <2>4, Zenon DEF StreamInv, Claiming
  <2>10. \A t \in NetStreams : StreamInv(t)'
    BY <1>1, <2>4, <2>9, OthersKeep, Zenon DEF NetInv
  <2>11. owned' \subseteq NetGrants'
    <3>1. nopen[s].grant \in NetGrants
      BY <1>2, Zenon DEF IsGranted, NetGrants
    <3>2. NetGrants' = NetGrants
      BY <1>1 DEF NetGrants, Adopted
    <3> QED
      BY <2>1, <3>1, <3>2 DEF NetInv
  <2> QED
    BY <2>6, <2>7, <2>8, <2>10, <2>11, Zenon DEF NetInv
<1> QED
  BY <1>3, <1>4, Zenon

\* A stream that gives its grant back and goes on.
LEMMA DropKeeps ==
  ASSUME NetInv, NEW s \in NetStreams, NEW st \in StreamStates, nstream' = [nstream EXCEPT ![s] = st],
         ~st.owner, st.permit => nstream[s].permit, st.pc \in {"reply", "opened"},
         owned' = OwnedWithout(s), WakeWaiters(s), UNCHANGED <<listeners, nopen, lookups, threads>>
  PROVE  NetInv'
<1>1. /\ nstream' \in [NetStreams -> StreamStates] /\ nstream'[s] = st
      /\ \A t \in NetStreams \ {s} : nstream'[t] = nstream[t]
      /\ Owners' = Owners \ {s}
  BY OneStream, Zenon DEF NetInv
<1>2. PermitHolders' \subseteq PermitHolders
  BY <1>1 DEF PermitHolders
<1>3. NetTypes'
  BY <1>1, EnabledShrinks, Zenon DEF NetInv, NetTypes
<1>4. OwnerInv'
  BY <1>1, OwnerDrops, Zenon DEF NetInv
<1>5. PermitInv'
  BY <1>2, PermitsWithin, Zenon DEF NetInv
<1>6. StreamInv(s)'
  BY <1>1 DEF StreamInv, Claiming
<1>7. \A t \in NetStreams : StreamInv(t)'
  BY <1>1, <1>6, OthersKeep, Zenon DEF NetInv
<1>8. owned' \subseteq NetGrants'
  BY DEF NetInv, OwnedWithout, NetGrants, Adopted
<1> QED
  BY <1>3, <1>4, <1>5, <1>7, <1>8, Zenon DEF NetInv

(* A resource permit, or the answer that there is none.                    *)
LEMMA ClaimResourceKeeps ==
  ASSUME NetInv, NEW s \in NetStreams, ClaimResource(s)
  PROVE  NetInv'
<1>0. nstream[s] \in StreamStates /\ UNCHANGED <<listeners, nopen, lookups, threads>>
  BY Zenon DEF NetInv, NetTypes, ClaimResource
<1>1. CASE Cardinality(PermitHolders) < MaxResources
  <2> DEFINE st == [nstream[s] EXCEPT !.pc = "prepare", !.permit = TRUE]
  <2>1. nstream' = [nstream EXCEPT ![s] = st] /\ UNCHANGED <<owned, enabled>>
    BY <1>1, Zenon DEF ClaimResource
  <2>2. st \in StreamStates /\ st.pc = "prepare" /\ st.permit /\ st.owner = nstream[s].owner
    BY <1>0, Zenon DEF StreamStates, StreamPcs
  <2> HIDE DEF st
  <2>3. /\ nstream' \in [NetStreams -> StreamStates] /\ nstream'[s] = st
        /\ \A t \in NetStreams \ {s} : nstream'[t] = nstream[t]
        /\ PermitHolders' = PermitHolders \cup {s}
    BY <2>1, <2>2, OneStream, Zenon DEF NetInv
  <2>4. Owners' = Owners
    BY <2>2, <2>3, Zenon DEF Owners
  <2>5. NetTypes'
    BY <1>0, <2>1, <2>3, Zenon DEF NetInv, NetTypes
  <2>6. OwnerInv'
    BY <1>0, <2>1, <2>4, OwnersStay, Zenon DEF NetInv
  <2>7. PermitInv'
    BY <1>0, <1>1, <2>3, PermitsWithin, Zenon DEF NetInv
  <2>8. StreamInv(s)'
    <3>1. HasGrant(s)' = HasGrant(s)
      BY <1>0 DEF HasGrant
    <3>2. HasGrant(s) => nstream[s].owner
      BY DEF ClaimResource, NetInv, StreamInv
    <3> QED
      BY <2>2, <2>3, <3>1, <3>2, Zenon DEF StreamInv, Claiming
  <2>9. \A t \in NetStreams : StreamInv(t)'
    BY <1>0, <2>3, <2>8, OthersKeep, Zenon DEF NetInv
  <2>10. owned' \subseteq NetGrants'
    BY <1>0, <2>1, Zenon DEF NetInv, NetGrants, Adopted
  <2> QED
    BY <2>5, <2>6, <2>7, <2>9, <2>10 DEF NetInv
<1>2. CASE ~(Cardinality(PermitHolders) < MaxResources)
  <2> DEFINE st == [nstream[s] EXCEPT !.pc = "reply", !.owner = FALSE]
  <2>1. nstream' = [nstream EXCEPT ![s] = st] /\ owned' = OwnedWithout(s) /\ WakeWaiters(s)
    BY <1>2, Zenon DEF ClaimResource
  <2>2. st \in StreamStates /\ st.pc = "reply" /\ ~st.owner /\ st.permit = nstream[s].permit
    BY <1>0, Zenon DEF StreamStates, StreamPcs
  <2> HIDE DEF st
  <2> QED
    BY <1>0, <2>1, <2>2, DropKeeps, Zenon
<1> QED
  BY <1>1, <1>2

(* The socket is opened, or the open fails.                                *)
LEMMA PrepareKeeps ==
  ASSUME NetInv, NEW s \in NetStreams, Prepare(s)
  PROVE  NetInv'
<1>0. /\ nstream[s] \in StreamStates /\ nstream[s].permit
      /\ UNCHANGED <<listeners, nopen, lookups, threads>>
  BY DEF NetInv, NetTypes, StreamInv, Prepare
<1>1. PICK ok \in BOOLEAN :
        LET keeps == ok /\ nopen[s].kind = "published"
        IN  /\ nstream' = [nstream EXCEPT ![s] = [pc |-> IF ok THEN "opened" ELSE "reply",
                                                  permit |-> ok, owner |-> keeps]]
            /\ owned' = (IF keeps THEN owned ELSE OwnedWithout(s))
            /\ IF keeps THEN UNCHANGED <<enabled, woken>> ELSE WakeWaiters(s)
  BY Zenon DEF Prepare
<1>2. CASE ok /\ nopen[s].kind = "published"
  <2> DEFINE st == [pc |-> "opened", permit |-> TRUE, owner |-> TRUE]
  <2>1. nstream' = [nstream EXCEPT ![s] = st] /\ UNCHANGED <<owned, enabled>>
    BY <1>1, <1>2, Zenon
  <2>2. st \in StreamStates /\ st.pc = "opened" /\ st.permit /\ st.owner
    BY Zenon DEF StreamStates, StreamPcs
  <2> HIDE DEF st
  <2>3. nstream[s].owner
    BY <1>2, Zenon DEF NetInv, StreamInv, Prepare, HasGrant
  <2>4. /\ nstream' \in [NetStreams -> StreamStates] /\ nstream'[s] = st
        /\ \A t \in NetStreams \ {s} : nstream'[t] = nstream[t]
    BY <2>1, <2>2, OneStream, Zenon DEF NetInv
  <2>5. Owners' = Owners /\ PermitHolders' = PermitHolders
    BY <1>0, <2>2, <2>3, <2>4, Zenon DEF Owners, PermitHolders
  <2>6. NetTypes'
    BY <1>0, <2>1, <2>4, Zenon DEF NetInv, NetTypes
  <2>7. OwnerInv'
    BY <1>0, <2>1, <2>5, OwnersStay, Zenon DEF NetInv
  <2>8. PermitInv'
    BY <1>0, <2>5, PermitsWithin, Zenon DEF NetInv
  <2>9. StreamInv(s)'
    BY <2>2, <2>4 DEF StreamInv, Claiming
  <2>10. \A t \in NetStreams : StreamInv(t)'
    BY <1>0, <2>4, <2>9, OthersKeep, Zenon DEF NetInv
  <2>11. owned' \subseteq NetGrants'
    BY <1>0, <2>1 DEF NetInv, NetGrants, Adopted
  <2> QED
    BY <2>6, <2>7, <2>8, <2>10, <2>11, Zenon DEF NetInv
<1>3. CASE ~(ok /\ nopen[s].kind = "published")
  <2> DEFINE st == [pc |-> IF ok THEN "opened" ELSE "reply", permit |-> ok, owner |-> FALSE]
  <2>1. nstream' = [nstream EXCEPT ![s] = st] /\ owned' = OwnedWithout(s) /\ WakeWaiters(s)
    BY <1>1, <1>3, Zenon
  <2>2. st \in StreamStates /\ st.pc \in {"reply", "opened"} /\ ~st.owner
    BY DEF StreamStates, StreamPcs
  <2> HIDE DEF st
  <2> QED
    BY <1>0, <2>1, <2>2, DropKeeps, Zenon
<1> QED
  BY <1>2, <1>3, Zenon

(* A name is looked up on a thread of its own, the answer may time out.    *)
LEMMA LookupKeeps ==
  ASSUME NetInv, NEW s \in NetStreams, NetResolve(s) \/ NetResolved(s)
  PROVE  NetInv'
<1>1. ~nstream[s].owner /\ UNCHANGED <<listeners, nopen, owned, enabled>> /\ lookups' \subseteq lookups
  BY Zenon DEF NetResolve, NetResolved, NetInv, StreamInv
<1>2. enabled' \subseteq NetStreams
  BY <1>1 DEF NetInv, NetTypes
<1>3. CASE StreamAt(s, "reply") /\ threads' = threads
  BY <1>1, <1>2, <1>3, MoveKeeps, Zenon DEF StreamPcs, Claiming
<1>4. CASE StreamAt(s, "resolving") /\ threads' = threads \cup {s} /\ Cardinality(threads) < MaxResolvers
  BY <1>1, <1>2, <1>4, MoveKeeps, Zenon DEF StreamPcs, Claiming
<1> QED
  BY <1>3, <1>4, Zenon DEF NetResolve, NetResolved

(* The thread ends, however late,                                          *)
LEMMA ThreadEndKeeps ==
  ASSUME NetInv, NEW s \in NetStreams, ThreadEnds(s)
  PROVE  NetInv'
<1>1. UNCHANGED <<listeners, nopen, nstream, owned, enabled, woken, lookups>> /\ threads' \subseteq threads
  BY DEF ThreadEnds
<1>2. Owners' = Owners /\ PermitHolders' = PermitHolders
  BY <1>1 DEF Owners, PermitHolders
<1>3. NetTypes'
  BY <1>1 DEF NetInv, NetTypes
<1>4. OwnerInv'
  BY <1>1, <1>2, OwnersStay, Zenon DEF NetInv
<1>5. PermitInv'
  BY <1>1, <1>2, PermitsWithin DEF NetInv
<1>6. \A t \in NetStreams : StreamInv(t)'
  BY <1>1, Zenon DEF NetInv, StreamInv, HasGrant, IsGranted, Adopted
<1>7. owned' \subseteq NetGrants'
  BY <1>1, Zenon DEF NetInv, NetGrants, Adopted
<1> QED
  BY <1>3, <1>4, <1>5, <1>6, <1>7 DEF NetInv

(* and the stream is answered.                                             *)
LEMMA ReplyKeeps ==
  ASSUME NetInv, NEW s \in NetStreams, Reply(s)
  PROVE  NetInv'
<1>1. CASE Finish(s)
  BY <1>1, FinishKeeps, Zenon DEF Reply
<1>2. CASE StreamAt(s, "relay") /\ UNCHANGED <<owned, enabled, woken, lookups>>
  <2>1. UNCHANGED <<listeners, nopen, threads>>
    BY Zenon DEF Reply
  <2>2. enabled' \subseteq NetStreams
    BY <1>2 DEF NetInv, NetTypes
  <2> QED
    BY <1>2, <2>1, <2>2, MoveKeeps DEF StreamPcs, Claiming
<1> QED
  BY <1>1, <1>2 DEF Reply

(* The invariant holds in every state.                                     *)
LEMMA NetInvariant == NetSpec => []NetInv
<1>1. NetInit => NetInv
  BY NetStarts
<1>2. NetInv /\ [NetNext]_netVars => NetInv'
  <2> SUFFICES ASSUME NetInv, [NetNext]_netVars PROVE NetInv'
    OBVIOUS
  <2>1. CASE UNCHANGED netVars
    <3>1. UNCHANGED <<listeners, nopen, nstream, owned, enabled, lookups, threads>>
      BY <2>1 DEF netVars
    <3>2. NetTypes'
      BY <3>1 DEF NetInv, NetTypes
    <3>3. OwnerInv' /\ owned' \subseteq NetGrants'
      BY <3>1, Zenon DEF NetInv, OwnerInv, Owners, NetGrants, Adopted
    <3>4. PermitInv'
      BY <3>1, Zenon DEF NetInv, PermitInv, PermitHolders
    <3>5. \A s \in NetStreams : StreamInv(s)'
      BY <3>1, Zenon DEF NetInv, StreamInv, HasGrant, IsGranted, Adopted
    <3> QED
      BY <3>2, <3>3, <3>4, <3>5, Zenon DEF NetInv
  <2>2. ASSUME NEW s \in NetStreams, HandlerStep(s) \/ Prepare(s) \/ NetResolved(s) \/ ThreadEnds(s)
                                      \/ EndRelay(s) \/ ClientLeaves(s)
        PROVE  NetInv'
    <3>1. CASE EndRelay(s) \/ ClientLeaves(s)
      BY <3>1, FinishKeeps, Zenon DEF EndRelay, ClientLeaves
    <3> QED
      BY <2>2, <3>1, OpenStreamKeeps, ClaimKeeps, InsertKeeps, ClaimResourceKeeps, PrepareKeeps,
         LookupKeeps, ThreadEndKeeps, ReplyKeeps, Zenon DEF HandlerStep
  <2> QED
    BY <2>1, <2>2 DEF NetNext
<1> QED
  BY <1>1, <1>2, PTL DEF NetSpec

(* For any number of streams and listeners: only grants that exist are     *)
(* owned, only streams wait for one, and lookups stay within their         *)
(* permits.                                                                *)
THEOREM NetTypeCorrect == NetSpec => []NetTypeOK
<1>1. NetInv => NetTypeOK
  BY DEF NetInv, NetTypes, PermitInv, NetTypeOK
<1> QED
  BY <1>1, NetInvariant, PTL

(* For any number of streams, listeners and permits: a grant is owned by   *)
(* exactly one stream if it is taken and by none otherwise, whichever      *)
(* stream waits, ends, fails or is abandoned (GrantOwners::claim,          *)
(* GrantOwner::drop), and resolver threads and resources stay within their *)
(* permits.                                                                *)
THEOREM GrantsAreOwnedOnce == NetSpec => []GrantsHaveOneOwner
<1>1. NetInv => GrantsHaveOneOwner
  <2> SUFFICES ASSUME NetInv, NEW g \in NetGrants
               PROVE  Cardinality({s \in NetStreams : nstream[s].owner /\ nopen[s].grant = g})
                        = IF g \in owned THEN 1 ELSE 0
    BY DEF GrantsHaveOneOwner, NetInv, PermitInv
  <2> DEFINE holding == {s \in NetStreams : nstream[s].owner /\ nopen[s].grant = g}
  <2>1. CASE g \in owned
    <3>1. PICK s \in Owners : nopen[s].grant = g
      BY <2>1 DEF NetInv, OwnerInv
    <3>2. holding = {s}
      BY <3>1 DEF NetInv, OwnerInv, Owners
    <3>3. Cardinality({s}) = 1
      BY FS_Singleton
    <3> QED
      BY <2>1, <3>2, <3>3, Zenon
  <2>2. CASE g \notin owned
    <3>1. holding = {}
      BY <2>2 DEF NetInv, OwnerInv, Owners
    <3> QED
      BY <2>2, <3>1, FS_EmptySet, Zenon
  <2> QED
    BY <2>1, <2>2, Zenon
<1> QED
  BY <1>1, NetInvariant, PTL

-----------------------------------------------------------------------------
(***************************************************************************)
(* The guest's name queries over the control stream.                       *)
(***************************************************************************)

(* Where a query of the guest's resolver is.                               *)
QueryPcs == {"idle", "permit", "lock", "head", "tail", "unlock", "wait", "answered", "failed"}
Writing == {"head", "tail", "unlock"}

(* A query is numbered once it waits for the lock, and its number stands   *)
(* for its question.                                                       *)
Clients == {r \in [pc : QueryPcs, id : Nat, question : Nat, answer : Nat] :
              /\ r.id = r.question
              /\ r.pc \in {"lock", "head", "tail"} => r.id # 0
              /\ r.pc = "answered" => r.answer = r.question}

(* The parts of a frame on the control stream, and the answers the broker  *)
(* works on.                                                               *)
Frames == {f \in [id : Nat, question : Nat, part : {"ready", "head", "tail"}] :
             f.id = f.question /\ (f.part # "ready" => f.id # 0)}

Answers == {a \in [id : Nat, question : Nat, st : {"resolve", "lock", "head", "tail"}] :
              a.id = a.question /\ a.id # 0}

(* A head is followed by the tail of the same frame, a whole frame by the  *)
(* head of the next.                                                       *)
Follows(p, r) ==
  /\ p.part = "head" => r.part = "tail" /\ r.id = p.id
  /\ p.part # "head" => r.part = "head"

Whole(q) == \A i \in 1..(Len(q) - 1) : Follows(q[i], q[i + 1])

(* Types.                                                                  *)
DnsTypes ==
  /\ dns \in [DnsClients -> Clients]
  /\ nextId \in Nat \ {0} /\ cancelled \in BOOLEAN /\ partial \in Nat
  /\ queryUp \in Seq(Frames) /\ down \in Seq(Frames) /\ answering \in SUBSET Answers

(* What is queued to the broker ends with a whole frame.                   *)
AtFrameEnd == Len(queryUp) > 0 => queryUp[Len(queryUp)].part = "tail"

(* Only the query that holds the lock writes. One that was abandoned       *)
(* inside a frame cancels the connection before it gives the lock back.    *)
WriterInv(c) ==
  /\ dns[c].pc \in Writing => lockedBy = c
  /\ dns[c].pc = "unlock" => cancelled
  /\ dns[c].pc = "head" => AtFrameEnd
  /\ dns[c].pc = "tail" => /\ Len(queryUp) > 0 /\ queryUp[Len(queryUp)].part = "head"
                           /\ queryUp[Len(queryUp)].id = dns[c].id

(* Queries arrive whole: nobody writes behind half a frame.                *)
UpInv ==
  /\ Whole(queryUp) /\ (Len(queryUp) > 0 => queryUp[1].part = "head")
  /\ \A c \in DnsClients : WriterInv(c)
  /\ ~cancelled /\ lockedBy = NoQuery => AtFrameEnd

(* The ready message comes first, and no answer is read before it.         *)
HandshakeInv ==
  /\ network = "connect" => control = "idle" /\ ~guestOpen
  /\ network \in {"connect", "handshake"} => results = "off" /\ partial = NoQuery
  /\ control \in {"idle", "opening"} => down = <<>> /\ answering = {}
  /\ control \in {"idle", "opening", "serving", "off"}
  /\ network = "handshake" /\ control = "serving" => Len(down) > 0
  /\ network = "handshake" /\ Len(down) > 0 => down[1].part = "ready"
  /\ results = "on" => network = "serving" /\ control \in {"serving", "off"}

(* The guest still reads the answers.                                      *)
Listening == network = "handshake" \/ results = "on"

(* An answer half written is the last on the wire, or half read.           *)
AnswerInv(a) ==
  a.st = "tail" => IF Len(down) > 0
                   THEN down[Len(down)].part = "head" /\ down[Len(down)].id = a.id
                   ELSE partial = a.id

(* Answers arrive whole: one at a time is written, and what the reader     *)
(* holds is the head of what comes next.                                   *)
DownInv ==
  /\ \A a, b \in answering : {a.st, b.st} \subseteq {"head", "tail"} => a = b
  /\ Listening => Whole(down)
  /\ results = "on" /\ Len(down) > 0 =>
       IF partial = NoQuery THEN down[1].part = "head" ELSE down[1].part = "tail" /\ down[1].id = partial
  /\ Listening /\ control = "serving" =>
       /\ \A a \in answering : AnswerInv(a)
       /\ (\A a \in answering : a.st # "tail") =>
            IF Len(down) > 0 THEN down[Len(down)].part # "head" ELSE partial = NoQuery

(* The inductive invariant.                                                *)
DnsInv == DnsTypes /\ UpInv /\ HandshakeInv /\ DownInv /\ ~confused

-----------------------------------------------------------------------------
(* Sequences of frame parts *)

(* A count goes up and down by one.                                        *)
LEMMA Counts == \A n \in Nat : /\ n + 1 \in Nat /\ n + 1 > 0 /\ (n + 1) - 1 = n
                               /\ n > 0 => n - 1 \in Nat /\ 1 \in 1..n /\ n \in 1..n
                               /\ ~(n > 0) => n = 0
OBVIOUS

(* A frame part that follows the last one may be appended,                 *)
LEMMA AppendedWhole ==
  ASSUME NEW q \in Seq(Frames), NEW x \in Frames, Whole(q), Len(q) > 0 => Follows(q[Len(q)], x)
  PROVE  /\ Append(q, x) \in Seq(Frames) /\ Whole(Append(q, x))
         /\ Len(Append(q, x)) > 0 /\ Append(q, x)[Len(Append(q, x))] = x
         /\ Append(q, x)[1] = IF Len(q) > 0 THEN q[1] ELSE x
<1> DEFINE t == Append(q, x)
           n == Len(q)
<1>1. n \in Nat /\ t \in Seq(Frames) /\ Len(t) = n + 1 /\ t[n + 1] = x /\ \A i \in 1..n : t[i] = q[i]
  OBVIOUS
<1>2. Whole(t)
  <2> SUFFICES ASSUME NEW i \in 1..n PROVE Follows(t[i], t[i + 1])
    BY <1>1 DEF Whole
  <2>1. CASE i < n
    <3>1. i \in 1..(n - 1) /\ i + 1 \in 1..n
      BY <1>1, <2>1
    <3> QED
      BY <1>1, <3>1, Zenon DEF Whole
  <2>2. CASE i = n
    <3>1. n > 0
      BY <1>1, <2>2
    <3> QED
      BY <1>1, <2>2, <3>1, Zenon
  <2> QED
    BY <1>1, <2>1, <2>2
<1> QED
  BY <1>1, <1>2

(* and what is left after the first one is whole.                          *)
LEMMA RestIsWhole ==
  ASSUME NEW q \in Seq(Frames), Len(q) > 0, Whole(q)
  PROVE  /\ Tail(q) \in Seq(Frames) /\ Whole(Tail(q)) /\ Len(Tail(q)) = Len(q) - 1
         /\ Len(Tail(q)) > 0 => /\ Follows(q[1], Tail(q)[1]) /\ Tail(q)[1] = q[2]
                                /\ Tail(q)[Len(Tail(q))] = q[Len(q)]
<1> DEFINE t == Tail(q)
           n == Len(q)
<1>1. n \in Nat /\ t \in Seq(Frames) /\ Len(t) = n - 1 /\ \A i \in 1..(n - 1) : t[i] = q[i + 1]
  OBVIOUS
<1>2. Whole(t)
  <2> SUFFICES ASSUME NEW i \in 1..(n - 2) PROVE Follows(t[i], t[i + 1])
    BY <1>1 DEF Whole
  <2>1. i \in 1..(n - 1) /\ i + 1 \in 1..(n - 1) /\ (i + 1) + 1 = i + 2
    BY <1>1
  <2>2. t[i] = q[i + 1] /\ t[i + 1] = q[(i + 1) + 1]
    BY <1>1, <2>1, Zenon
  <2> QED
    BY <2>1, <2>2, Zenon DEF Whole
<1>3. ASSUME n - 1 > 0
      PROVE  Follows(q[1], t[1]) /\ t[1] = q[2] /\ t[n - 1] = q[n]
  <2>1. 1 \in 1..(n - 1) /\ n - 1 \in 1..(n - 1) /\ (n - 1) + 1 = n /\ 1 + 1 = 2
    BY <1>1, <1>3
  <2> QED
    BY <1>1, <2>1, Zenon DEF Whole
<1> QED
  BY <1>1, <1>2, <1>3, Zenon

(* One frame part is a sequence of whole ones.                             *)
LEMMA OneFrame ==
  ASSUME NEW x \in Frames
  PROVE  LET q == Append(<<>>, x)
         IN  q \in Seq(Frames) /\ Whole(q) /\ Len(q) > 0 /\ q[Len(q)] = x /\ q[1] = x
<1> DEFINE e == <<>>
<1>1. e \in Seq(Frames) /\ Len(e) = 0
  BY EmptySeq
<1>2. Whole(e)
  BY <1>1 DEF Whole
<1> HIDE DEF e
<1>3. ~(Len(e) > 0)
  BY <1>1
<1>4. /\ Append(e, x) \in Seq(Frames) /\ Whole(Append(e, x)) /\ Len(Append(e, x)) > 0
      /\ Append(e, x)[Len(Append(e, x))] = x /\ Append(e, x)[1] = x
  BY <1>1, <1>2, <1>3, AppendedWhole, Zenon
<1> QED
  BY <1>4 DEF e

(* Where the parts of a queue go when the first is taken.                  *)
LEMMA TailParts ==
  ASSUME NEW q \in Seq(Frames), Len(q) > 0
  PROVE  Tail(q) \in Seq(Frames) /\ Len(Tail(q)) = Len(q) - 1 /\ \A i \in 1..(Len(q) - 1) : Tail(q)[i] = q[i + 1]
OBVIOUS

(* Taking a whole frame is taking two parts.                               *)
LEMMA TwoLess ==
  ASSUME NEW q \in Seq(Frames), Len(q) >= 2
  PROVE  SubSeq(q, 3, Len(q)) = Tail(Tail(q))
<1> DEFINE n == Len(q)
           t == Tail(q)
           u == Tail(t)
           s == SubSeq(q, 3, n)
<1>1. n \in Nat /\ t \in Seq(Frames) /\ Len(t) = n - 1 /\ \A i \in 1..(n - 1) : t[i] = q[i + 1]
  OBVIOUS
<1>2. u \in Seq(Frames) /\ Len(u) = n - 2 /\ \A i \in 1..(n - 2) : u[i] = t[i + 1]
  <2>1. Len(t) > 0 /\ Len(t) - 1 = n - 2
    BY <1>1
  <2> HIDE DEF t
  <2> QED
    BY <1>1, <2>1, TailParts, Zenon
<1>3. s \in Seq(Frames) /\ Len(s) = n - 2 /\ \A i \in 1..(n - 2) : s[i] = q[i + 2]
  BY <1>1, SubSeqProperties
<1>4. \A i \in 1..(n - 2) : u[i] = s[i]
  <2> SUFFICES ASSUME NEW i \in 1..(n - 2) PROVE u[i] = s[i]
    OBVIOUS
  <2>1. i + 1 \in 1..(n - 1) /\ (i + 1) + 1 = i + 2
    BY <1>1
  <2> QED
    BY <1>1, <1>2, <1>3, <2>1, Zenon
<1> QED
  BY <1>2, <1>3, <1>4, SeqEqual, Zenon

(* A part is queued behind the others.                                     *)
LEMMA Appended ==
  ASSUME NEW q \in Seq(Frames), NEW f \in Frames
  PROVE  LET t == Append(q, f)
         IN  /\ t \in Seq(Frames) /\ Len(t) = Len(q) + 1 /\ Len(t) > 0
             /\ \A i \in 1..Len(q) : t[i] = q[i]
OBVIOUS

(* A queue with something in it.                                           *)
LEMMA SomeIsLeft ==
  ASSUME NEW q \in Seq(Frames), q # <<>>
  PROVE  Len(q) > 0 /\ Len(q) \in Nat
BY EmptySeq

(* Nothing is not something.                                               *)
LEMMA NothingIsNotMore == ~(0 > 0)
OBVIOUS

(* Two parts are some.                                                     *)
LEMMA AtLeastTwo == \A n \in Nat : n >= 2 => n > 0
OBVIOUS

(* A stream loses its first frame, both parts of it: it starts with the    *)
(* next one and ends as it did.                                            *)
LEMMA FrameTaken ==
  ASSUME NEW q \in Seq(Frames), Len(q) >= 2, Whole(q)
  PROVE  LET u == SubSeq(q, 3, Len(q))
         IN  /\ Follows(q[1], q[2]) /\ u \in Seq(Frames) /\ Whole(u)
             /\ Len(u) > 0 => Follows(q[2], u[1]) /\ u[Len(u)] = q[Len(q)]
             /\ ~(Len(u) > 0) => Len(q) = 2
<1> DEFINE t == Tail(q)
           u == SubSeq(q, 3, Len(q))
<1>1. Len(q) \in Nat /\ Len(q) > 0
  OBVIOUS
<1>2. /\ t \in Seq(Frames) /\ Whole(t) /\ Len(t) = Len(q) - 1
      /\ Len(t) > 0 => Follows(q[1], t[1]) /\ t[1] = q[2] /\ t[Len(t)] = q[Len(q)]
  BY <1>1, RestIsWhole, Zenon
<1>3. u = Tail(t)
  BY TwoLess, Zenon
<1> HIDE DEF t, u
<1>4. Len(t) > 0 /\ Len(t) - 1 = Len(q) - 2
  BY <1>1, <1>2
<1>5. /\ u \in Seq(Frames) /\ Whole(u) /\ Len(u) = Len(t) - 1
      /\ Len(u) > 0 => Follows(t[1], u[1]) /\ u[Len(u)] = t[Len(t)]
  BY <1>2, <1>3, <1>4, RestIsWhole, Zenon
<1>6. ~(Len(u) > 0) => Len(q) = 2
  BY <1>1, <1>4, <1>5
<1> QED
  BY <1>2, <1>4, <1>5, <1>6, Zenon DEF u

-----------------------------------------------------------------------------
(* The agent's clients and the writer *)

(* A query that moves on is a query.                                       *)
LEMMA ClientMoves ==
  ASSUME NEW r \in Clients, NEW x \in QueryPcs \ {"answered"}, x \in {"lock", "head", "tail"} => r.id # 0
  PROVE  /\ [r EXCEPT !.pc = x] \in Clients
         /\ [r EXCEPT !.pc = x].pc = x /\ [r EXCEPT !.pc = x].id = r.id
BY DEF Clients

(* A new query, and one that has its number.                               *)
LEMMA FreshClients ==
  /\ [pc |-> "idle", id |-> NoQuery, question |-> NoQuery, answer |-> NoQuery] \in Clients
  /\ \A n \in Nat \ {0} : [pc |-> "lock", id |-> n, question |-> n, answer |-> NoQuery] \in Clients
BY DEF Clients, QueryPcs, NoQuery

(* What a query writes is part of a frame with its number,                 *)
LEMMA ClientParts ==
  ASSUME NEW r \in Clients, r.pc \in {"head", "tail"}
  PROVE  /\ FramePart(r, r.pc) \in Frames /\ FramePart(r, r.pc).part = r.pc /\ FramePart(r, r.pc).id = r.id
BY Zenon DEF Clients, Frames, FramePart

(* and so is what an answer writes.                                        *)
LEMMA AnswerParts ==
  ASSUME NEW a \in Answers, a.st \in {"head", "tail"}
  PROVE  /\ FramePart(a, a.st) \in Frames /\ FramePart(a, a.st).part = a.st /\ FramePart(a, a.st).id = a.id
BY DEF Answers, Frames, FramePart

\* Steps that give no client a place at the writer.
LEMMA WritersStay ==
  ASSUME UpInv, UNCHANGED <<queryUp, lockedBy>>, cancelled => cancelled',
         \A c \in DnsClients : dns'[c].pc \in Writing => dns'[c] = dns[c]
  PROVE  UpInv'
<1>1. \A c \in DnsClients : WriterInv(c)'
  BY Zenon DEF UpInv, WriterInv, Writing, AtFrameEnd
<1> QED
  BY <1>1, Zenon DEF UpInv, AtFrameEnd

\* The side of the stream that the clients' steps leave alone.
downSide == <<network, down, results, partial, guestOpen, control, answering>>

(* and one that leaves all that alone keeps the answers whole.             *)
LEMMA DownStays ==
  ASSUME HandshakeInv, DownInv, UNCHANGED downSide
  PROVE  HandshakeInv' /\ DownInv'
<1>1. \A a \in answering : AnswerInv(a)' = AnswerInv(a)
  BY Zenon DEF AnswerInv, downSide
<1>2. HandshakeInv'
  BY DEF HandshakeInv, downSide
<1>3. Listening' = Listening
  BY DEF Listening, downSide
<1> QED
  BY <1>1, <1>2, <1>3, Zenon DEF DownInv, downSide

(* A query begins, ends or is answered by its number,                      *)
LEMMA ClientStepKeeps ==
  ASSUME DnsInv, NEW c \in DnsClients,
         AdmitQuery(c) \/ BeginQuery(c) \/ EndQuery(c) \/ QueryRespond(c)
  PROVE  DnsInv'
<1> DEFINE r == dns[c]
<1>0. r \in Clients /\ nextId \in Nat \ {0}
  BY DEF DnsInv, DnsTypes
<1>1. /\ UNCHANGED <<cancelled, lockedBy, queryUp, confused>> /\ UNCHANGED downSide
  BY DEF AdmitQuery, BeginQuery, EndQuery, QueryRespond, StreamState, FrontendState, downSide
<1>2. \E s \in Clients : s.pc \notin Writing /\ dns' = [dns EXCEPT ![c] = s]
  <2>1. CASE AdmitQuery(c)
    <3>1. [r EXCEPT !.pc = "permit"] \in Clients /\ [r EXCEPT !.pc = "permit"].pc = "permit"
      BY <1>0, ClientMoves, Zenon DEF QueryPcs
    <3>2. dns' = [dns EXCEPT ![c] = [r EXCEPT !.pc = "permit"]]
      BY <2>1 DEF AdmitQuery
    <3> QED
      BY <3>1, <3>2, Zenon DEF Writing
  <2>2. CASE BeginQuery(c)
    BY <1>0, <2>2, FreshClients, Zenon DEF BeginQuery, Writing
  <2>3. CASE EndQuery(c)
    <3>1. [r EXCEPT !.pc = "failed"] \in Clients /\ [r EXCEPT !.pc = "failed"].pc = "failed"
      BY <1>0, ClientMoves, Zenon DEF QueryPcs
    <3>2. dns' = [dns EXCEPT ![c] = [r EXCEPT !.pc = "failed"]]
      BY <2>3 DEF EndQuery, LeaveQuery
    <3> QED
      BY <3>1, <3>2, Zenon DEF Writing
  <2>4. CASE QueryRespond(c)
    BY <2>4, FreshClients, Zenon DEF QueryRespond, Writing
  <2> QED
    BY <2>1, <2>2, <2>3, <2>4, Zenon
<1>3. PICK s \in Clients : s.pc \notin Writing /\ dns' = [dns EXCEPT ![c] = s]
  BY <1>2, Zenon
<1>4. dns' \in [DnsClients -> Clients] /\ \A d \in DnsClients : dns'[d] = IF d = c THEN s ELSE dns[d]
  BY <1>3 DEF DnsInv, DnsTypes
<1>5. nextId' \in Nat \ {0}
  <2>1. nextId' \in {nextId, nextId + 1}
    BY DEF AdmitQuery, BeginQuery, EndQuery, QueryRespond
  <2> QED
    BY <1>0, <2>1
<1>6. DnsTypes'
  BY <1>1, <1>4, <1>5, Zenon DEF DnsInv, DnsTypes, downSide
<1>7. UpInv'
  BY <1>1, <1>3, <1>4, WritersStay, Zenon DEF DnsInv
<1> QED
  BY <1>1, <1>6, <1>7, DownStays, Zenon DEF DnsInv

(* takes the write lock, unless the connection is cancelled,               *)
LEMMA LockWriterKeeps ==
  ASSUME DnsInv, NEW c \in DnsClients, LockWriter(c)
  PROVE  DnsInv'
<1> DEFINE r == dns[c]
           x == IF cancelled THEN "failed" ELSE "head"
           s == [r EXCEPT !.pc = x]
<1>0. r \in Clients /\ r.pc = "lock" /\ r.id # 0 /\ lockedBy = NoQuery
  <2>1. r \in Clients /\ r.pc = "lock" /\ lockedBy = NoQuery
    BY DEF DnsInv, DnsTypes, LockWriter
  <2> QED
    BY <2>1, Zenon DEF Clients
<1>1. /\ UNCHANGED <<cancelled, nextId, queryUp, confused>> /\ UNCHANGED downSide
  BY DEF LockWriter, StreamState, FrontendState, downSide
<1>2. dns' = [dns EXCEPT ![c] = s] /\ lockedBy' = IF cancelled THEN NoQuery ELSE c
  BY <1>0 DEF LockWriter, LeaveQuery
<1>3. s \in Clients /\ s.pc = x
  BY <1>0, ClientMoves DEF QueryPcs
<1> HIDE DEF s
<1>4. dns' \in [DnsClients -> Clients] /\ \A d \in DnsClients : dns'[d] = IF d = c THEN s ELSE dns[d]
  BY <1>2, <1>3, Zenon DEF DnsInv, DnsTypes
<1>5. DnsTypes'
  BY <1>1, <1>4 DEF DnsInv, DnsTypes, downSide
<1>6. \A d \in DnsClients : dns[d].pc \notin Writing
  BY <1>0, DnsAssumption, Zenon DEF DnsInv, UpInv, WriterInv
<1>7. UpInv'
  <2>1. CASE cancelled
    BY <1>0, <1>1, <1>2, <1>3, <1>4, <2>1, WritersStay, Zenon DEF DnsInv, Writing
  <2>2. CASE ~cancelled
    <3>1. AtFrameEnd /\ AtFrameEnd'
      BY <1>0, <1>1, <2>2, Zenon DEF DnsInv, UpInv, AtFrameEnd
    <3>2. \A d \in DnsClients : WriterInv(d)'
      BY <1>2, <1>3, <1>4, <1>6, <2>2, <3>1, Zenon DEF WriterInv, Writing
    <3> QED
      BY <1>1, <3>1, <3>2, Zenon DEF DnsInv, UpInv
  <2> QED
    BY <2>1, <2>2
<1> QED
  BY <1>1, <1>5, <1>7, DownStays, Zenon DEF DnsInv

(* writes its head and its tail,                                           *)
LEMMA WritePartKeeps ==
  ASSUME DnsInv, NEW c \in DnsClients, WritePart(c)
  PROVE  DnsInv'
<1> DEFINE r == dns[c]
           p == FramePart(r, r.pc)
           x == IF r.pc = "head" THEN "tail" ELSE "wait"
           s == [r EXCEPT !.pc = x]
           last == Len(queryUp)
<1>0. r \in Clients /\ r.pc \in {"head", "tail"} /\ r.id # 0 /\ WriterInv(c)
  <2>1. r \in Clients /\ r.pc \in {"head", "tail"} /\ WriterInv(c)
    BY DEF DnsInv, DnsTypes, UpInv, WritePart
  <2> QED
    BY <2>1 DEF Clients
<1>1. /\ UNCHANGED <<cancelled, nextId, confused>> /\ UNCHANGED downSide /\ queryUp' = Append(queryUp, p)
  BY DEF WritePart, FrontendState, downSide
<1>2. dns' = [dns EXCEPT ![c] = s] /\ lockedBy' = IF r.pc = "head" THEN lockedBy ELSE NoQuery
  BY <1>0 DEF WritePart
<1>3. s \in Clients /\ s.pc = x /\ s.id = r.id
  <2>1. x \in QueryPcs \ {"answered"}
    BY Zenon DEF QueryPcs
  <2> QED
    BY <1>0, <2>1, ClientMoves, Zenon
<1>4. p \in Frames /\ p.part = r.pc /\ p.id = r.id
  BY <1>0, ClientParts, Zenon
<1> HIDE DEF s, p
<1>5. dns' \in [DnsClients -> Clients] /\ \A d \in DnsClients : dns'[d] = IF d = c THEN s ELSE dns[d]
  BY <1>2, <1>3, Zenon DEF DnsInv, DnsTypes
<1>6. last > 0 => Follows(queryUp[last], p)
  BY <1>0, <1>4, Zenon DEF WriterInv, AtFrameEnd, Follows
<1>7. /\ queryUp' \in Seq(Frames) /\ Whole(queryUp')
      /\ Len(queryUp') > 0 /\ queryUp'[Len(queryUp')] = p
      /\ queryUp'[1] = IF last > 0 THEN queryUp[1] ELSE p
  BY <1>1, <1>4, <1>6, AppendedWhole DEF DnsInv, DnsTypes, UpInv
<1>8. DnsTypes'
  BY <1>1, <1>5, <1>7, Zenon DEF DnsInv, DnsTypes, downSide
<1>9. queryUp'[1].part = "head"
  BY <1>0, <1>4, <1>7, Zenon DEF DnsInv, UpInv, WriterInv
<1>10. \A d \in DnsClients : d # c => dns[d].pc \notin Writing
  BY <1>0, Zenon DEF DnsInv, UpInv, WriterInv, Writing
<1>11. \A d \in DnsClients : WriterInv(d)'
  BY <1>0, <1>2, <1>3, <1>4, <1>5, <1>7, <1>10, Zenon DEF WriterInv, Writing
<1>12. (~cancelled /\ lockedBy = NoQuery => AtFrameEnd)'
  <2>1. CASE r.pc = "head"
    <3>1. lockedBy' = c
      BY <1>0, <1>2, <2>1, Zenon DEF WriterInv, Writing
    <3> QED
      BY <3>1, DnsAssumption, Zenon
  <2>2. CASE r.pc = "tail"
    BY <1>4, <1>7, <2>2, Zenon DEF AtFrameEnd
  <2> QED
    BY <1>0, <2>1, <2>2, Zenon
<1>13. UpInv'
  BY <1>7, <1>9, <1>11, <1>12, Zenon DEF UpInv
<1> QED
  BY <1>1, <1>8, <1>13, DownStays, Zenon DEF DnsInv

(* or is abandoned while it writes, which cancels the connection.          *)
LEMMA AbandonKeeps ==
  ASSUME DnsInv, NEW c \in DnsClients, AbandonWrite(c) \/ ReleaseWriter(c)
  PROVE  DnsInv'
<1> DEFINE r == dns[c]
           x == IF AbandonWrite(c) THEN "unlock" ELSE "failed"
           s == [r EXCEPT !.pc = x]
<1>0. r \in Clients /\ r.pc \in Writing /\ WriterInv(c)
  BY DEF DnsInv, DnsTypes, UpInv, AbandonWrite, ReleaseWriter, Writing
<1>1. UNCHANGED <<nextId, queryUp, confused>> /\ UNCHANGED downSide /\ cancelled'
  BY <1>0, Zenon DEF AbandonWrite, ReleaseWriter, StreamState, FrontendState, downSide, WriterInv
<1>2. dns' = [dns EXCEPT ![c] = s] /\ (AbandonWrite(c) => lockedBy' = lockedBy)
  BY DEF AbandonWrite, ReleaseWriter, LeaveQuery
<1>3. s \in Clients /\ s.pc = x
  BY <1>0, ClientMoves DEF QueryPcs
<1>4. x = "unlock" => lockedBy' = lockedBy
  BY <1>2, Zenon
<1> HIDE DEF s
<1>5. dns' \in [DnsClients -> Clients] /\ \A d \in DnsClients : dns'[d] = IF d = c THEN s ELSE dns[d]
  BY <1>2, <1>3 DEF DnsInv, DnsTypes
<1>6. DnsTypes'
  BY <1>1, <1>5, Zenon DEF DnsInv, DnsTypes, downSide
<1>7. \A d \in DnsClients : d # c => dns[d].pc \notin Writing
  BY <1>0, Zenon DEF DnsInv, UpInv, WriterInv
<1>8. \A d \in DnsClients : WriterInv(d)'
  BY <1>0, <1>1, <1>3, <1>4, <1>5, <1>7, Zenon DEF WriterInv, Writing
<1>9. UpInv'
  BY <1>1, <1>8, Zenon DEF DnsInv, UpInv
<1> QED
  BY <1>1, <1>6, <1>9, DownStays, Zenon DEF DnsInv

-----------------------------------------------------------------------------
(* The handshake and the results *)

(* The control stream opens and the ready message crosses it.              *)
LEMMA HandshakeKeeps ==
  ASSUME DnsInv,
         \/ ConnectControl \/ AwaitNetworkReady \/ ServeControl \/ DeliverReady
  PROVE  DnsInv'
<1>0. /\ UNCHANGED <<cancelled, dns, pendingIds, lockedBy, nextId, queryUp, partial, answering, confused>>
  BY DEF ConnectControl, AwaitNetworkReady, ServeControl, DeliverReady, ClientState, StreamState, FrontendState
<1>1. UpInv'
  BY <1>0, WritersStay DEF DnsInv
<1>2. CASE ConnectControl \/ ServeControl
  <2>1. UNCHANGED <<down, results>> /\ (network' = network \/ (network' = "handshake" /\ network = "connect"))
        /\ (control' = control \/ (control' = "opening" /\ control = "idle" /\ guestOpen))
    BY <1>2, Zenon DEF ConnectControl, ServeControl, StreamState, FrontendState
  <2>2. (network' = "handshake" /\ network = "connect" => control' = control)
        /\ (guestOpen' = guestOpen \/ (network = "connect" /\ network' = "handshake"))
    BY <1>2 DEF ConnectControl, ServeControl, StreamState, FrontendState
  <2>3. DnsTypes'
    BY <1>0, <2>1, Zenon DEF DnsInv, DnsTypes
  <2>4. HandshakeInv'
    <3>1. CASE ConnectControl
      <4>1. network = "connect" /\ network' = "handshake" /\ UNCHANGED <<control, down, results, partial, answering>>
        BY <3>1, Zenon DEF ConnectControl, FrontendState
      <4>2. control = "idle" /\ results = "off" /\ partial = NoQuery /\ down = <<>> /\ answering = {}
        BY <4>1, Zenon DEF DnsInv, HandshakeInv
      <4>3. ~(Len(<<>>) > 0)
        BY EmptySeq
      <4> QED
        BY <4>1, <4>2, <4>3, Zenon DEF HandshakeInv
    <3>2. CASE ServeControl
      <4>1. /\ control = "idle" /\ guestOpen /\ control' = "opening"
            /\ UNCHANGED <<network, guestOpen, down, results, partial, answering>>
        BY <3>2, Zenon DEF ServeControl, StreamState
      <4> QED
        BY <4>1, Zenon DEF DnsInv, HandshakeInv
    <3> QED
      BY <1>2, <3>1, <3>2, Zenon
  <2>5. DownInv'
    <3>1. control' # "serving" \/ UNCHANGED <<network, control>>
      BY <2>1, <2>2, Zenon DEF DnsInv, HandshakeInv
    <3>2. CASE control' # "serving"
      <4>1. down = <<>> => Whole(down)
        BY DEF Whole
      <4>2. Listening' => Whole(down')
        BY <2>1, <2>2, <4>1, Zenon DEF DnsInv, HandshakeInv, DownInv, Listening
      <4> QED
        BY <1>0, <2>1, <3>2, <4>2, Zenon DEF DnsInv, DownInv
    <3>3. CASE UNCHANGED <<network, control>>
      <4>1. Listening' = Listening /\ \A a \in answering : AnswerInv(a)' = AnswerInv(a)
        BY <1>0, <2>1, <3>3, Zenon DEF Listening, AnswerInv
      <4> QED
        BY <1>0, <2>1, <3>3, <4>1, Zenon DEF DnsInv, DownInv
    <3> QED
      BY <3>1, <3>2, <3>3, Zenon
  <2> QED
    BY <1>0, <1>1, <2>3, <2>4, <2>5, Zenon DEF DnsInv
<1>3. CASE AwaitNetworkReady
  <2>1. network = "handshake" /\ control' = control /\ results = "off" /\ partial = NoQuery
    BY <1>3, Zenon DEF AwaitNetworkReady, FrontendState, DnsInv, HandshakeInv
  <2>2. CASE network' = "failed"
    <3>1. UNCHANGED <<down, results>> /\ ~Listening'
      BY <1>3, <2>1, <2>2, Zenon DEF AwaitNetworkReady, Listening
    <3>2. DnsTypes'
      BY <1>0, <3>1, Zenon DEF DnsInv, DnsTypes
    <3>3. HandshakeInv'
      BY <1>0, <2>1, <2>2, <3>1, Zenon DEF DnsInv, HandshakeInv
    <3>4. DownInv'
      BY <1>0, <2>1, <3>1, Zenon DEF DnsInv, DownInv
    <3> QED
      BY <1>0, <1>1, <3>2, <3>3, <3>4, Zenon DEF DnsInv
  <2>3. CASE network' # "failed"
    <3>1. down # <<>> /\ network' = "serving" /\ down' = Tail(down) /\ results' = "on"
      BY <1>3, <2>3 DEF AwaitNetworkReady
    <3>2. Len(down) > 0 /\ Len(down) \in Nat /\ down \in Seq(Frames)
      <4>1. down \in Seq(Frames)
        BY Zenon DEF DnsInv, DnsTypes
      <4> QED
        BY <3>1, <4>1, SomeIsLeft, Zenon
    <3>3. Whole(down) /\ down[1].part = "ready" /\ control \in {"serving", "off"}
      BY <2>1, <3>1, <3>2, Zenon DEF DnsInv, DownInv, HandshakeInv, Listening
    <3>4. /\ down' \in Seq(Frames) /\ Whole(down') /\ Len(down') = Len(down) - 1
          /\ Len(down') > 0 => /\ Follows(down[1], down'[1]) /\ down'[Len(down')] = down[Len(down)]
      BY <3>1, <3>2, <3>3, RestIsWhole, Zenon
    <3>5. DnsTypes'
      BY <1>0, <3>4, Zenon DEF DnsInv, DnsTypes
    <3>6. HandshakeInv'
      BY <1>0, <2>1, <3>1, <3>3, Zenon DEF HandshakeInv
    <3>7. Len(down') > 0 => down'[1].part = "head"
      BY <3>3, <3>4, Zenon DEF Follows
    <3>8. ~(Len(down') > 0) => Len(down) = 1
      BY <3>2, <3>4
    <3>9. ASSUME control' = "serving"
          PROVE  /\ \A a \in answering' : AnswerInv(a)'
                 /\ (\A a \in answering' : a.st # "tail") =>
                      IF Len(down') > 0 THEN down'[Len(down')].part # "head" ELSE partial' = NoQuery
      <4>1. /\ \A a \in answering : AnswerInv(a)
            /\ (\A a \in answering : a.st # "tail") => down[Len(down)].part # "head"
        BY <2>1, <3>2, <3>9, Zenon DEF DnsInv, DownInv, Listening
      <4>2. CASE Len(down') > 0
        BY <1>0, <3>2, <3>4, <4>1, <4>2, Zenon DEF AnswerInv
      <4>3. CASE ~(Len(down') > 0)
        <5>1. \A a \in answering : a.st # "tail"
          BY <3>2, <3>3, <3>8, <4>1, <4>3, Zenon DEF AnswerInv
        <5> QED
          BY <1>0, <2>1, <4>3, <5>1, Zenon DEF AnswerInv
      <4> QED
        BY <4>2, <4>3, Zenon
    <3>10. DownInv'
      BY <1>0, <2>1, <3>4, <3>7, <3>9, Zenon DEF DnsInv, DownInv
    <3> QED
      BY <1>0, <1>1, <3>5, <3>6, <3>10, Zenon DEF DnsInv
  <2> QED
    BY <2>2, <2>3, Zenon
<1>4. CASE DeliverReady
  <2>0. /\ control = "opening" /\ down = <<>> /\ answering = {} /\ UNCHANGED <<network, results, guestOpen>>
        /\ results # "on" /\ network # "connect"
    BY <1>4, Zenon DEF DeliverReady, ClientState, DnsInv, HandshakeInv
  <2>1. CASE control' = "off"
    <3>1. down' = down
      BY <1>4, <2>1, Zenon DEF DeliverReady
    <3>2. DnsTypes'
      BY <1>0, <3>1, Zenon DEF DnsInv, DnsTypes
    <3>3. HandshakeInv'
      BY <1>0, <2>0, <2>1, <3>1, Zenon DEF DnsInv, HandshakeInv
    <3>4. Whole(down')
      BY <2>0, <3>1 DEF Whole
    <3>5. DownInv'
      BY <1>0, <2>0, <2>1, <3>1, <3>4, Zenon DEF DnsInv, DownInv
    <3> QED
      BY <1>0, <1>1, <3>2, <3>3, <3>5 DEF DnsInv
  <2>2. CASE control' # "off"
    <3>1. control' = "serving" /\ down' = Append(<<>>, ReadyPart)
      BY <1>4, <2>0, <2>2, Zenon DEF DeliverReady
    <3>2. ReadyPart \in Frames /\ ReadyPart.part = "ready"
      BY DEF ReadyPart, Frames, NoQuery
    <3>4. /\ down' \in Seq(Frames) /\ Whole(down') /\ Len(down') > 0 /\ down'[Len(down')] = ReadyPart
          /\ down'[1] = ReadyPart
      BY <3>1, <3>2, OneFrame, Zenon
    <3>5. DnsTypes'
      BY <1>0, <3>4, Zenon DEF DnsInv, DnsTypes
    <3>6. HandshakeInv'
      BY <1>0, <2>0, <3>1, <3>2, <3>4, Zenon DEF DnsInv, HandshakeInv
    <3>7. DownInv'
      BY <1>0, <2>0, <3>2, <3>4, Zenon DEF DownInv
    <3> QED
      BY <1>0, <1>1, <3>5, <3>6, <3>7 DEF DnsInv
  <2> QED
    BY <2>1, <2>2, Zenon
<1> QED
  BY <1>2, <1>3, <1>4, Zenon

(* The reader takes a head, or the tail that belongs to it.                *)
LEMMA ReceiveKeeps == DnsInv /\ ReceiveResult => DnsInv'
<1> SUFFICES ASSUME DnsInv, ReceiveResult PROVE DnsInv'
  OBVIOUS
<1> DEFINE p == down[1]
<1>0. /\ results = "on" /\ down # <<>> /\ down' = Tail(down) /\ Head(down) = p
      /\ UNCHANGED <<network, cancelled, lockedBy, nextId, queryUp, results, guestOpen, control, answering>>
  <2>1. /\ results = "on" /\ down # <<>> /\ down' = Tail(down)
        /\ UNCHANGED <<network, cancelled, lockedBy, nextId, queryUp, results, guestOpen, control, answering>>
    BY Zenon DEF ReceiveResult, FrontendState
  <2>2. down \in Seq(Frames)
    BY DEF DnsInv, DnsTypes
  <2>3. Head(down) = p
    BY <2>1, <2>2
  <2> QED
    BY <2>1, <2>3, Zenon
<1>1. /\ down \in Seq(Frames) /\ Len(down) \in Nat /\ Len(down) > 0 /\ p \in Frames /\ Whole(down)
      /\ network = "serving" /\ control \in {"serving", "off"} /\ partial \in Nat
  <2>1. down \in Seq(Frames) /\ Len(down) \in Nat /\ Len(down) > 0
    BY <1>0, EmptySeq DEF DnsInv, DnsTypes
  <2> QED
    BY <1>0, <2>1 DEF DnsInv, DnsTypes, DownInv, HandshakeInv, Listening
<1>2. IF partial = NoQuery THEN p.part = "head" ELSE p.part = "tail" /\ p.id = partial
  BY <1>0, <1>1, Zenon DEF DnsInv, DownInv
<1>3. /\ down' \in Seq(Frames) /\ Whole(down') /\ Len(down') = Len(down) - 1
      /\ Len(down') > 0 => /\ Follows(p, down'[1]) /\ down'[Len(down')] = down[Len(down)]
  BY <1>0, <1>1, RestIsWhole
<1>4. p.id \in Nat /\ p.id = p.question /\ p.id # 0
  <2>1. p.part # "ready"
    BY <1>2
  <2> QED
    BY <1>1, <2>1, Zenon DEF Frames
<1>5. ~confused' /\ partial' = IF partial = NoQuery THEN p.id ELSE NoQuery
  BY <1>0, <1>2, Zenon DEF ReceiveResult, DnsInv
<1>6. /\ dns' \in [DnsClients -> Clients]
      /\ \A c \in DnsClients : dns'[c].pc \in Writing => dns'[c] = dns[c]
  <2>1. CASE partial = NoQuery
    <3>1. dns' = dns
      BY <1>0, <2>1, Zenon DEF ReceiveResult
    <3> QED
      BY <3>1 DEF DnsInv, DnsTypes
  <2>2. CASE partial # NoQuery
    <3> DEFINE g(c) == p.id \in pendingIds /\ dns[c].id = p.id /\ dns[c].pc = "wait"
               w(c) == [dns[c] EXCEPT !.pc = "answered", !.answer = p.question]
    <3>1. dns' = [c \in DnsClients |-> IF g(c) THEN w(c) ELSE dns[c]]
      BY <1>0, <2>2, Zenon DEF ReceiveResult
    <3>2. ASSUME NEW c \in DnsClients, g(c)
          PROVE  w(c) \in Clients /\ w(c).pc = "answered"
      <4>1. dns[c] \in Clients /\ dns[c].id = p.id
        BY <3>2, Zenon DEF DnsInv, DnsTypes
      <4> QED
        BY <1>4, <4>1, Zenon DEF Clients, QueryPcs
    <3>3. \A c \in DnsClients : dns[c] \in Clients
      BY DEF DnsInv, DnsTypes
    <3> HIDE DEF g, w
    <3> QED
      BY <3>1, <3>2, <3>3, Zenon DEF Writing
  <2> QED
    BY <2>1, <2>2, Zenon
<1>7. DnsTypes'
  BY <1>0, <1>3, <1>4, <1>5, <1>6, Zenon DEF DnsInv, DnsTypes, NoQuery
<1>8. UpInv'
  BY <1>0, <1>6, WritersStay, Zenon DEF DnsInv
<1>9. HandshakeInv'
  BY <1>0, <1>1, Zenon DEF HandshakeInv
<1>10. Len(down') > 0 =>
         IF partial' = NoQuery THEN down'[1].part = "head" ELSE down'[1].part = "tail" /\ down'[1].id = partial'
  BY <1>2, <1>3, <1>4, <1>5, Zenon DEF Follows, NoQuery
<1>11. ASSUME control = "serving"
       PROVE  /\ \A a \in answering : AnswerInv(a)'
              /\ (\A a \in answering : a.st # "tail") =>
                   IF Len(down') > 0 THEN down'[Len(down')].part # "head" ELSE partial' = NoQuery
  <2>1. /\ \A a \in answering : AnswerInv(a)
        /\ (\A a \in answering : a.st # "tail") => down[Len(down)].part # "head"
    BY <1>0, <1>1, <1>11, Zenon DEF DnsInv, DownInv, Listening
  <2>2. CASE Len(down') > 0
    BY <1>1, <1>3, <2>1, <2>2, Zenon DEF AnswerInv
  <2>3. CASE ~(Len(down') > 0)
    <3>1. Len(down) = 1
      BY <1>1, <1>3, <2>3
    <3> QED
      BY <1>1, <1>2, <1>4, <1>5, <2>1, <2>3, <3>1, Zenon DEF AnswerInv
  <2> QED
    BY <2>2, <2>3
<1>12. DownInv'
  BY <1>0, <1>3, <1>10, <1>11, Zenon DEF DnsInv, DownInv
<1> QED
  BY <1>5, <1>7, <1>8, <1>9, <1>12, Zenon DEF DnsInv

(* The connection ends, from either side.                                  *)
LEMMA EndsKeep ==
  ASSUME DnsInv, ResultsEnd \/ CancelServices \/ DropServices \/ DisableNetworking
  PROVE  DnsInv'
<1>0. /\ UNCHANGED <<network, lockedBy, nextId, queryUp, down, partial, confused>>
      /\ results' \in {results, "off"} /\ cancelled' \in BOOLEAN /\ (cancelled => cancelled')
      /\ ((control' = control /\ answering' = answering) \/ (control' = "off" /\ control = "serving" /\ answering' = {}))
      /\ guestOpen' \in {guestOpen, FALSE}
  BY Zenon DEF ResultsEnd, CancelServices, DropServices, DisableNetworking, ClientState, StreamState, FrontendState,
         DnsInv, DnsTypes
<1>1. /\ dns' \in [DnsClients -> Clients]
      /\ \A c \in DnsClients : dns'[c].pc \in Writing => dns'[c] = dns[c]
  <2>0. \A c \in DnsClients : dns[c] \in Clients
    BY Zenon DEF DnsInv, DnsTypes
  <2>1. CASE ResultsEnd
    <3> DEFINE w(c) == [dns[c] EXCEPT !.pc = "failed"]
    <3>1. dns' = [c \in DnsClients |-> IF dns[c].pc = "wait" THEN w(c) ELSE dns[c]]
      BY <2>1 DEF ResultsEnd
    <3>2. \A c \in DnsClients : w(c) \in Clients /\ w(c).pc = "failed"
      BY <2>0, ClientMoves, Zenon DEF QueryPcs
    <3> HIDE DEF w
    <3> QED
      BY <2>0, <3>1, <3>2, Zenon DEF Writing
  <2>2. CASE dns' = dns
    BY <2>2, Zenon DEF DnsInv, DnsTypes
  <2> QED
    BY <2>1, <2>2, Zenon DEF CancelServices, DropServices, DisableNetworking, ClientState
<1>2. DnsTypes'
  BY <1>0, <1>1 DEF DnsInv, DnsTypes
<1>3. UpInv'
  BY <1>0, <1>1, WritersStay, Zenon DEF DnsInv
<1>4. HandshakeInv'
  <2>1. network' = "connect" => control' = "idle" /\ ~guestOpen'
    BY <1>0, Zenon DEF DnsInv, HandshakeInv
  <2>2. control' \in {"idle", "opening"} => down' = <<>> /\ answering' = {}
    BY <1>0, Zenon DEF DnsInv, HandshakeInv
  <2>3. /\ control' \in {"idle", "opening", "serving", "off"} /\ down' = down /\ network' = network
        /\ control' = "serving" => control = "serving"
        /\ results' = "on" => results = "on"
        /\ partial' = partial /\ (network \in {"connect", "handshake"} => results' = "off")
    BY <1>0, Zenon DEF DnsInv, HandshakeInv
  <2>4. results' = "on" => network = "serving" /\ control' \in {"serving", "off"}
    BY <1>0, Zenon DEF DnsInv, HandshakeInv
  <2> QED
    BY <2>1, <2>2, <2>3, <2>4, Zenon DEF DnsInv, HandshakeInv
<1>5. (Listening' => Listening) /\ \A a \in answering : AnswerInv(a)' = AnswerInv(a)
  BY <1>0 DEF Listening, AnswerInv
<1>6. DownInv'
  BY <1>0, <1>5, Zenon DEF DnsInv, DownInv
<1> QED
  BY <1>0, <1>2, <1>3, <1>4, <1>6, Zenon DEF DnsInv

-----------------------------------------------------------------------------
(* The frontend *)

(* The broker takes a whole query.                                         *)
LEMMA ReadQueryKeeps == DnsInv /\ ReadQuery => DnsInv'
<1> SUFFICES ASSUME DnsInv, ReadQuery PROVE DnsInv'
  OBVIOUS
<1> DEFINE q == queryUp
           a == [id |-> q[1].id, question |-> q[1].question, st |-> "resolve"]
<1>0. /\ control = "serving" /\ Len(q) >= 2 /\ queryUp' = SubSeq(q, 3, Len(q)) /\ answering' = answering \cup {a}
      /\ UNCHANGED <<network, cancelled, dns, lockedBy, nextId, down, results, partial, guestOpen, control>>
  BY Zenon DEF ReadQuery, ClientState
<1>1. q \in Seq(Frames) /\ Len(q) \in Nat /\ Whole(q) /\ q[1].part = "head" /\ q[1] \in Frames
  <2>1. q \in Seq(Frames) /\ Whole(q) /\ (Len(q) > 0 => q[1].part = "head")
    BY Zenon DEF DnsInv, DnsTypes, UpInv
  <2>2. Len(q) \in Nat /\ Len(q) > 0 /\ q[1] \in Frames
    BY <1>0, <2>1
  <2> QED
    BY <2>1, <2>2, Zenon
<1>2. /\ Follows(q[1], q[2]) /\ queryUp' \in Seq(Frames) /\ Whole(queryUp')
      /\ Len(queryUp') > 0 => Follows(q[2], queryUp'[1]) /\ queryUp'[Len(queryUp')] = q[Len(q)]
      /\ ~(Len(queryUp') > 0) => Len(q) = 2
  BY <1>0, <1>1, FrameTaken, Zenon
<1>3. ~confused'
  BY <1>1, <1>2, Zenon DEF ReadQuery, DnsInv, Follows
<1>4. a \in Answers /\ a.st = "resolve"
  BY <1>1, Zenon DEF Frames, Answers
<1> HIDE DEF a
<1>7. DnsTypes'
  BY <1>0, <1>2, <1>4, Zenon DEF DnsInv, DnsTypes
<1>8. UpInv'
  <2>1. q[2].part = "tail"
    BY <1>1, <1>2, Zenon DEF Follows
  <2>2. Len(queryUp') > 0 => queryUp'[1].part = "head"
    BY <1>2, <2>1, Zenon DEF Follows
  <2>3. CASE Len(queryUp') > 0
    <3>1. queryUp'[Len(queryUp')] = q[Len(q)] /\ Len(q) > 0
      BY <1>0, <1>1, <1>2, <2>3, AtLeastTwo, Zenon
    <3>2. AtFrameEnd' = AtFrameEnd /\ \A c \in DnsClients : WriterInv(c) => WriterInv(c)'
      BY <1>0, <2>3, <3>1, Zenon DEF AtFrameEnd, WriterInv
    <3> QED
      BY <1>0, <1>2, <2>2, <3>2, Zenon DEF DnsInv, UpInv
  <2>4. CASE ~(Len(queryUp') > 0)
    <3>1. Len(q) = 2
      BY <1>2, <2>4, Zenon
    <3>2. AtFrameEnd'
      BY <2>4 DEF AtFrameEnd
    <3>3. \A c \in DnsClients : WriterInv(c) => WriterInv(c)'
      BY <1>0, <2>1, <3>1, <3>2, Zenon DEF WriterInv
    <3> QED
      BY <1>0, <1>2, <2>2, <3>2, <3>3, Zenon DEF DnsInv, UpInv
  <2> QED
    BY <2>3, <2>4
<1>9. HandshakeInv'
  BY <1>0, Zenon DEF DnsInv, HandshakeInv
<1>10. Listening' = Listening /\ \A b : AnswerInv(b)' = AnswerInv(b)
  BY <1>0, Zenon DEF Listening, AnswerInv
<1>11. AnswerInv(a)
  BY <1>4 DEF AnswerInv
<1>12. DownInv'
  BY <1>0, <1>4, <1>10, <1>11, Zenon DEF DnsInv, DownInv
<1> QED
  BY <1>3, <1>7, <1>8, <1>9, <1>12, Zenon DEF DnsInv

(* It resolves it, in any order, and takes the lock of the results,        *)
LEMMA ResolveKeeps ==
  ASSUME DnsInv, ResolveQuestion \/ LockResults
  PROVE  DnsInv'
<1>0. /\ UNCHANGED <<network, cancelled, dns, lockedBy, nextId, queryUp, down, results, partial, guestOpen, control,
                     confused>>
      /\ control = "serving"
  BY DEF ResolveQuestion, LockResults, ClientState, StreamState
<1>1. PICK a \in answering, st \in {"lock", "head"} :
        /\ answering' = (answering \ {a}) \cup {[a EXCEPT !.st = st]} /\ a.st \notin {"head", "tail"}
        /\ st = "head" => \A b \in answering : b.st \notin {"head", "tail"}
  BY DEF ResolveQuestion, LockResults, MoveAnswer
<1> DEFINE b == [a EXCEPT !.st = st]
<1>2. b \in Answers /\ b.st = st
  BY DEF DnsInv, DnsTypes, Answers
<1> HIDE DEF b
<1>3. answering' = (answering \ {a}) \cup {b}
  BY <1>1, Zenon DEF b
<1>4. DnsTypes'
  BY <1>0, <1>2, <1>3, Zenon DEF DnsInv, DnsTypes
<1>5. UpInv'
  BY <1>0, WritersStay, Zenon DEF DnsInv
<1>6. HandshakeInv'
  BY <1>0 DEF DnsInv, HandshakeInv
<1>7. Listening' = Listening /\ \A x : AnswerInv(x)' = AnswerInv(x)
  BY <1>0, Zenon DEF Listening, AnswerInv
<1>8. AnswerInv(b)
  BY <1>2 DEF AnswerInv
<1>9. \A x, y \in answering' : {x.st, y.st} \subseteq {"head", "tail"} => x = y
  BY <1>1, <1>2, <1>3, Zenon DEF DnsInv, DownInv
<1>10. (\A x \in answering' : x.st # "tail") => \A x \in answering : x.st # "tail"
  BY <1>1, <1>3
<1>11. DownInv'
  BY <1>0, <1>3, <1>7, <1>8, <1>9, <1>10, Zenon DEF DnsInv, DownInv
<1> QED
  BY <1>0, <1>4, <1>5, <1>6, <1>11, Zenon DEF DnsInv

(* under which it writes the two parts of an answer.                       *)
LEMMA DeliverKeeps == DnsInv /\ DeliverResult => DnsInv'
<1> SUFFICES ASSUME DnsInv, DeliverResult PROVE DnsInv'
  OBVIOUS
<1>0. /\ UNCHANGED <<network, cancelled, dns, lockedBy, nextId, queryUp, results, partial, guestOpen, control, confused>>
      /\ control = "serving"
  BY DEF DeliverResult, ClientState
<1>1. PICK a \in answering :
         /\ a.st \in {"head", "tail"}
         /\ down' = Append(down, FramePart(a, a.st))
         /\ IF a.st = "head" THEN MoveAnswer(a, "tail") ELSE answering' = answering \ {a}
  BY DEF DeliverResult
<1> DEFINE p == FramePart(a, a.st)
           b == [a EXCEPT !.st = "tail"]
<1>2. a \in Answers /\ a.id # 0 /\ p \in Frames /\ p.part = a.st /\ p.id = a.id
  <2>1. a \in Answers
    BY DEF DnsInv, DnsTypes
  <2> QED
    BY <1>1, <2>1, AnswerParts, Zenon DEF Answers
<1>3. b \in Answers /\ b.st = "tail" /\ b.id = a.id
  BY <1>2 DEF Answers
<1>4. answering' = IF a.st = "head" THEN (answering \ {a}) \cup {b} ELSE answering \ {a}
  BY <1>1, Zenon DEF MoveAnswer
<1>5. down' = Append(down, p) /\ down \in Seq(Frames) /\ Len(down) \in Nat
  BY <1>1 DEF DnsInv, DnsTypes
<1> HIDE DEF p, b
<1>6. answering' \in SUBSET Answers
  BY <1>3, <1>4, Zenon DEF DnsInv, DnsTypes
<1>7. down' \in Seq(Frames) /\ Len(down') = Len(down) + 1 /\ Len(down') > 0
      /\ \A i \in 1..Len(down) : down'[i] = down[i]
  BY <1>2, <1>5, Appended, Zenon
<1>8. DnsTypes'
  BY <1>0, <1>6, <1>7, Zenon DEF DnsInv, DnsTypes
<1>9. UpInv'
  BY <1>0, WritersStay DEF DnsInv
<1>10. network = "handshake" => Len(down) > 0 /\ down[1].part = "ready"
  BY <1>0, Zenon DEF DnsInv, HandshakeInv
<1>11. HandshakeInv'
  BY <1>0, <1>5, <1>7, <1>10 DEF DnsInv, HandshakeInv
<1>12. \A x \in answering : x # a => x.st \notin {"head", "tail"}
  BY <1>1, Zenon DEF DnsInv, DownInv
<1>13. \A x, y \in answering' : {x.st, y.st} \subseteq {"head", "tail"} => x = y
  BY <1>4, <1>12, Zenon
<1>14. Listening' = Listening
  BY <1>0 DEF Listening
<1>15. ASSUME Listening
       PROVE  /\ Whole(down') /\ down'[Len(down')] = p
              /\ down'[1] = IF Len(down) > 0 THEN down[1] ELSE p
              /\ Len(down) = 0 => IF a.st = "head" THEN partial = NoQuery ELSE partial = a.id
  <2>1. Whole(down) /\ AnswerInv(a)
    BY <1>0, <1>15, Zenon DEF DnsInv, DownInv
  <2>2. a.st = "head" => IF Len(down) > 0 THEN down[Len(down)].part # "head" ELSE partial = NoQuery
    BY <1>0, <1>12, <1>15, Zenon DEF DnsInv, DownInv
  <2>3. Len(down) > 0 => Follows(down[Len(down)], p)
    BY <1>1, <1>2, <2>1, <2>2, Zenon DEF AnswerInv, Follows
  <2>4. Len(down) = 0 => IF a.st = "head" THEN partial = NoQuery ELSE partial = a.id
    BY <1>1, <2>1, <2>2, NothingIsNotMore, Zenon DEF AnswerInv
  <2> QED
    <3> DEFINE t == Append(down, p)
    <3>1. Whole(t) /\ t[Len(t)] = p /\ t[1] = IF Len(down) > 0 THEN down[1] ELSE p
      BY <1>2, <1>5, <2>1, <2>3, AppendedWhole, Zenon
    <3> HIDE DEF t
    <3>2. down' = t
      BY <1>5 DEF t
    <3> QED BY <2>4, <3>1, <3>2, Zenon
<1>16. results' = "on" =>
         IF partial' = NoQuery THEN down'[1].part = "head" ELSE down'[1].part = "tail" /\ down'[1].id = partial'
  <2> SUFFICES ASSUME results = "on"
               PROVE  IF partial = NoQuery THEN down'[1].part = "head"
                                           ELSE down'[1].part = "tail" /\ down'[1].id = partial
    BY <1>0
  <2>0. Listening
    BY Zenon DEF Listening
  <2>1. CASE Len(down) > 0
    BY <1>15, <2>0, <2>1, Zenon DEF DnsInv, DownInv
  <2>2. CASE Len(down) = 0
    <3>1. /\ down'[1] = p
          /\ IF a.st = "head" THEN partial = NoQuery ELSE partial = a.id
      BY <1>15, <2>0, <2>2, NothingIsNotMore, Zenon
    <3> QED
      BY <1>1, <1>2, <3>1, Zenon DEF NoQuery
  <2> QED
    <3>1. Len(down) > 0 \/ Len(down) = 0
      BY <1>5
    <3> QED BY <2>1, <2>2, <3>1, Zenon
<1>17. ASSUME Listening
       PROVE  /\ \A x \in answering' : AnswerInv(x)'
              /\ (\A x \in answering' : x.st # "tail") => down'[Len(down')].part # "head"
  <2>1. down'[Len(down')] = p
    BY <1>15, <1>17, Zenon
  <2>2. CASE a.st = "head"
    <3>1. \A x \in answering' : x.st = "tail" => x = b
      BY <1>4, <1>12, <2>2, Zenon
    <3> QED
      BY <1>2, <1>3, <1>4, <1>7, <2>1, <2>2, <3>1, Zenon DEF AnswerInv
  <2>3. CASE a.st = "tail"
    <3>1. \A x \in answering' : x.st # "tail"
      BY <1>4, <1>12, <2>3, Zenon
    <3> QED
      BY <1>2, <2>1, <2>3, <3>1, Zenon DEF AnswerInv
  <2> QED
    BY <1>1, <2>2, <2>3, Zenon
<1>18. DownInv'
  BY <1>7, <1>13, <1>14, <1>15, <1>16, <1>17, Zenon DEF DownInv
<1> QED
  BY <1>0, <1>8, <1>9, <1>11, <1>18, Zenon DEF DnsInv

(* Nothing was asked yet.                                                  *)
LEMMA DnsStarts == DnsInit => DnsInv
<1> SUFFICES ASSUME DnsInit PROVE DnsInv
  OBVIOUS
<1>1. <<>> \in Seq(Frames) /\ Len(<<>>) = 0
  BY EmptySeq
<1>2. DnsTypes
  <2>1. dns \in [DnsClients -> Clients]
    BY FreshClients, Zenon DEF DnsInit
  <2>2. nextId \in Nat \ {0} /\ partial \in Nat
    BY DEF DnsInit, NoQuery
  <2>3. queryUp \in Seq(Frames) /\ down \in Seq(Frames) /\ cancelled \in BOOLEAN /\ answering \in SUBSET Answers
    BY <1>1, Zenon DEF DnsInit
  <2> QED
    BY <2>1, <2>2, <2>3, Zenon DEF DnsTypes
<1>3. UpInv
  BY <1>1 DEF DnsInit, UpInv, Whole, WriterInv, Writing, AtFrameEnd
<1>4. HandshakeInv
  BY <1>1, Zenon DEF DnsInit, HandshakeInv
<1>5. DownInv
  BY <1>1, Zenon DEF DnsInit, DownInv, Listening
<1> QED
  BY <1>2, <1>3, <1>4, <1>5, Zenon DEF DnsInit, DnsInv

(* The invariant holds in every state.                                     *)
LEMMA DnsInvariant == DnsSpec => []DnsInv
<1>1. DnsInit => DnsInv
  BY DnsStarts
<1>2. DnsInv /\ [DnsNext]_dnsVars => DnsInv'
  <2> SUFFICES ASSUME DnsInv, [DnsNext]_dnsVars PROVE DnsInv'
    OBVIOUS
  <2>1. CASE UNCHANGED dnsVars
    <3>1. UNCHANGED downSide /\ UNCHANGED <<queryUp, lockedBy, cancelled, dns, nextId, confused>>
      BY <2>1, Zenon DEF dnsVars, downSide
    <3>2. DnsTypes'
      BY <3>1 DEF DnsInv, DnsTypes, downSide
    <3>3. UpInv'
      BY <3>1, WritersStay DEF DnsInv
    <3> QED
      BY <3>1, <3>2, <3>3, DownStays, Zenon DEF DnsInv
  <2>2. CASE \E c \in DnsClients : \/ AdmitQuery(c) \/ BeginQuery(c) \/ LockWriter(c) \/ WritePart(c)
                                   \/ AbandonWrite(c) \/ ReleaseWriter(c) \/ EndQuery(c) \/ QueryRespond(c)
    BY <2>2, ClientStepKeeps, LockWriterKeeps, WritePartKeeps, AbandonKeeps, Zenon
  <2> QED
    BY <2>1, <2>2, HandshakeKeeps, ReceiveKeeps, EndsKeep, ReadQueryKeeps, ResolveKeeps, DeliverKeeps, Zenon DEF DnsNext
<1> QED
  BY <1>1, <1>2, PTL DEF DnsSpec

(* For any number of concurrent queries and any buffer: nothing on the     *)
(* control stream is taken for what it is not, though queries are          *)
(* abandoned in the middle of a frame, and each query is answered with the *)
(* answer to its own question, in whatever order the broker resolves them. *)
THEOREM AnswersMatchQuestions == DnsSpec => []AnswersAreOwn
<1>1. DnsInv => AnswersAreOwn
  BY DEF DnsInv, DnsTypes, Clients, AnswersAreOwn
<1> QED
  BY <1>1, DnsInvariant, PTL
=============================================================================
