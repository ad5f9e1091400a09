---------------------------- MODULE RanchProofs ----------------------------
(***************************************************************************)
(* For any number of instances of an application, and through any joins,   *)
(* take-overs, crashes and commands: once the views are handled, only the  *)
(* first member of the group speaks to the dispatchers, and a coordinator  *)
(* has loads of members only, but for those the model records as left over *)
(* by a late store, a broken loop or a view handled too early.             *)
(*                                                                         *)
(* The first argument: what a member will know when it has handled its     *)
(* views is the membership itself, and a member that opens its channel to  *)
(* the dispatchers is the first of the view it has.                        *)
(*                                                                         *)
(* The second concerns each Ranch alone: it knows the address of whom it   *)
(* has a load of, so that the loop over the addresses comes to all that    *)
(* the view is without; what is stored behind the loop is left over.       *)
(*                                                                         *)
(* Type correctness comes last: what is on the wires was sent by members,  *)
(* and the dispatchers only know what was on the wires.                    *)
(***************************************************************************)
EXTENDS Ranch, TLAPS, SequenceTheorems, FiniteSetTheorems

Distinct(seq) == \A i, j \in DOMAIN seq : seq[i] = seq[j] => i = j

\* The view that is the last of some to be given, or the one in use.
LastOf(pending, view) == IF pending = <<>> THEN view ELSE pending[Len(pending)]

GroupType ==
    /\ ranch \in [Cattle -> RanchState]
    /\ group \in Seq(Cattle) /\ Distinct(group)
    /\ views \in [Cattle -> Seq(Seq(Cattle))]

\* A member, whose state is r and who is to be given the views of pending, has its
\* channel open; it will know the membership, and every view it is given has it.
Agrees(m, r, pending, members) ==
    /\ (r.status = "up" /\ r.ranchMgrChannel) <=> m \in ToSet(members)
    /\ m \notin ToSet(members) => pending = <<>>
    /\ m \in ToSet(members) =>
          /\ LastOf(pending, r.view) = members
          /\ m \in ToSet(r.view)
          /\ \A i \in DOMAIN pending : m \in ToSet(pending[i])

\* Who speaks to the dispatchers is the first of the view it has handled.
SpeaksAsFirst(m, r) ==
    r.status = "up" /\ r.ranchMgrChannel /\ ~r.accepting /\ r.taskDispatcherChannel
        => Head(r.view) = m

ViewsAgree    == \A m \in Cattle : Agrees(m, ranch[m], views[m], group)
SpeakerIsFirst == \A m \in Cattle : SpeaksAsFirst(m, ranch[m])

GroupInv == GroupType /\ ViewsAgree /\ SpeakerIsFirst

\* No group exists at first.
LEMMA InitGroup == Init => GroupInv
BY RanchAssumption, EmptySeq
   DEF Init, GroupInv, GroupType, ViewsAgree, SpeakerIsFirst, Agrees, SpeaksAsFirst,
       NewRanch, RanchState, Distinct, ToSet

\* What the invariant is for.
LEMMA InvGivesProperty == GroupInv => OnlyFirstSpeaks
BY DEF GroupInv, ViewsAgree, SpeakerIsFirst, Agrees, SpeaksAsFirst, LastOf,
       OnlyFirstSpeaks, Settled, InGroup

-----------------------------------------------------------------------------
(* Sequences without repetitions. *)

\* A member that joins a group is its last, and is in it once.
LEMMA AppendDistinct ==
    ASSUME NEW seq \in Seq(Cattle), Distinct(seq), NEW n \in Cattle, n \notin ToSet(seq)
    PROVE  /\ Append(seq, n) \in Seq(Cattle) /\ Distinct(Append(seq, n))
           /\ ToSet(Append(seq, n)) = ToSet(seq) \cup {n}
           /\ Append(seq, n) # <<>>
           /\ Len(Append(seq, n)) = 1 => Head(Append(seq, n)) = n
           /\ Head(Append(seq, n)) \in Cattle
PROOF
<1>1. /\ Append(seq, n) \in Seq(Cattle) /\ Len(Append(seq, n)) = Len(seq) + 1
      /\ \A i \in 1 .. Len(seq) : Append(seq, n)[i] = seq[i]
      /\ Append(seq, n)[Len(seq) + 1] = n
      /\ Len(seq) \in Nat
      /\ Append(seq, n) # <<>>
   BY AppendProperties, LenProperties
<1> DEFINE new == Append(seq, n)
<1>2. DOMAIN new = 1 .. Len(seq) + 1 /\ DOMAIN seq = 1 .. Len(seq)
   BY <1>1, LenProperties
<1>3. Head(new) = new[1]
   BY <1>1
<1> HIDE DEF new
<1>4. Distinct(new) /\ ToSet(new) = ToSet(seq) \cup {n}
   BY <1>1, <1>2 DEF Distinct, ToSet, new
<1>5. QED
   BY <1>1, <1>2, <1>3, <1>4 DEF new, ToSet

\* Taking a member out of the group leaves the others.
LEMMA WithoutDistinct ==
    ASSUME NEW seq \in Seq(Cattle), Distinct(seq), NEW n \in Cattle
    PROVE  /\ Without(seq, n) \in Seq(Cattle) /\ Distinct(Without(seq, n))
           /\ ToSet(Without(seq, n)) = ToSet(seq) \ {n}
           /\ n # Head(seq) => Head(Without(seq, n)) = Head(seq)
PROOF
<1>1. CASE n \notin ToSet(seq)
   BY <1>1 DEF Without
<1>2. CASE n \in ToSet(seq)
   <2>1. PICK k : k = Place(seq, n)
      OBVIOUS
   <2>2. k \in 1 .. Len(seq) /\ seq[k] = n /\ Len(seq) \in Nat /\ DOMAIN seq = 1 .. Len(seq)
      <3>1. \E i \in DOMAIN seq : seq[i] = n
         BY <1>2 DEF ToSet
      <3>2. Place(seq, n) \in DOMAIN seq /\ seq[Place(seq, n)] = n
         BY <3>1 DEF Place
      <3>3. QED
         BY <2>1, <3>2, LenProperties
   <2>3. PICK new : new = SubSeq(seq, 1, k - 1) \o SubSeq(seq, k + 1, Len(seq))
      OBVIOUS
   <2>4. new = Without(seq, n)
      BY <1>2, <2>1, <2>3 DEF Without
   <2>5. /\ new \in Seq(Cattle) /\ Len(new) = Len(seq) - 1
         /\ \A i \in 1 .. Len(new) : new[i] = IF i < k THEN seq[i] ELSE seq[i + 1]
      <3>1. k - 1 \in Nat /\ k + 1 \in Nat
         BY <2>2
      <3>2. PICK s1, s2 : s1 = SubSeq(seq, 1, k - 1) /\ s2 = SubSeq(seq, k + 1, Len(seq))
         OBVIOUS
      <3>3. /\ s1 \in Seq(Cattle) /\ Len(s1) = k - 1
            /\ \A i \in 1 .. k - 1 : s1[i] = seq[i]
         <4>1. \A i \in 1 .. k - 1 : seq[i] \in Cattle
            BY <2>2, ElementOfSeq
         <4>2. /\ s1 \in Seq(Cattle)
               /\ Len(s1) = IF 1 <= k - 1 THEN k - 1 - 1 + 1 ELSE 0
               /\ \A i \in 1 .. k - 1 - 1 + 1 : s1[i] = seq[1 + i - 1]
            BY <3>1, <3>2, <4>1, SubSeqProperties
         <4>3. QED
            BY <2>2, <4>2
      <3>4. /\ s2 \in Seq(Cattle) /\ Len(s2) = Len(seq) - k
            /\ \A i \in 1 .. Len(seq) - k : s2[i] = seq[k + i]
         <4>1. \A i \in k + 1 .. Len(seq) : seq[i] \in Cattle
            BY <2>2, ElementOfSeq
         <4>2. /\ s2 \in Seq(Cattle)
               /\ Len(s2) = IF k + 1 <= Len(seq) THEN Len(seq) - (k + 1) + 1 ELSE 0
               /\ \A i \in 1 .. Len(seq) - (k + 1) + 1 : s2[i] = seq[k + 1 + i - 1]
            BY <2>2, <3>1, <3>2, <4>1, SubSeqProperties
         <4>3. \A i \in 1 .. Len(seq) - k :
                  i \in 1 .. Len(seq) - (k + 1) + 1 /\ k + 1 + i - 1 = k + i
            BY <2>2
         <4>4. \A i \in 1 .. Len(seq) - k : s2[i] = seq[k + i]
            BY <4>2, <4>3
         <4>5. Len(s2) = Len(seq) - k
            <5>1. CASE k + 1 <= Len(seq)
               <6>1. Len(s2) = Len(seq) - (k + 1) + 1
                  BY <4>2, <5>1
               <6>2. QED
                  BY <2>2, <6>1
            <5>2. CASE ~(k + 1 <= Len(seq))
               <6>1. \A x \in Nat : \A y \in 1 .. x : ~(y + 1 <= x) => y = x
                  OBVIOUS
               <6>2. k = Len(seq)
                  BY <2>2, <5>2, <6>1
               <6>3. Len(s2) = 0
                  BY <4>2, <5>2
               <6>4. QED
                  BY <2>2, <6>2, <6>3
            <5>3. QED
               BY <5>1, <5>2
         <4>6. QED
            BY <4>2, <4>4, <4>5
      <3>5. /\ new \in Seq(Cattle) /\ Len(new) = Len(s1) + Len(s2)
            /\ \A i \in 1 .. Len(s1) + Len(s2) :
                  new[i] = IF i <= Len(s1) THEN s1[i] ELSE s2[i - Len(s1)]
         BY <2>3, <3>2, <3>3, <3>4, ConcatProperties
      <3>6. QED
         BY <2>2, <3>3, <3>4, <3>5
   <2>6. DOMAIN new = 1 .. Len(seq) - 1
      BY <2>5, LenProperties
   <2>7. Distinct(new)
      <3>1. ASSUME NEW i \in 1 .. Len(seq) - 1, NEW j \in 1 .. Len(seq) - 1,
                   new[i] = new[j]
            PROVE  i = j
         <4>1. PICK i1 \in 1 .. Len(seq) : i1 = (IF i < k THEN i ELSE i + 1)
            BY <2>2
         <4>2. PICK j1 \in 1 .. Len(seq) : j1 = (IF j < k THEN j ELSE j + 1)
            BY <2>2
         <4>3. seq[i1] = seq[j1]
            BY <2>2, <2>5, <3>1, <4>1, <4>2
         <4>4. i1 = j1
            BY <2>2, <4>3 DEF Distinct
         <4>5. QED
            BY <2>2, <4>1, <4>2, <4>4
      <3>2. QED
         BY <2>6, <3>1 DEF Distinct
   <2>8. ASSUME NEW x \in ToSet(seq) \ {n} PROVE x \in ToSet(new)
      <3>1. PICK i \in 1 .. Len(seq) : seq[i] = x
         BY <2>2 DEF ToSet
      <3>2. i # k
         BY <2>2, <3>1
      <3>3. CASE i < k
         BY <2>2, <2>5, <2>6, <3>1, <3>3 DEF ToSet
      <3>4. CASE i > k
         <4>1. i - 1 \in DOMAIN new /\ new[i - 1] = seq[i]
            BY <2>2, <2>5, <2>6, <3>1, <3>4
         <4>2. QED
            BY <3>1, <4>1 DEF ToSet
      <3>5. QED
         BY <2>2, <3>1, <3>2, <3>3, <3>4
   <2>9. ASSUME NEW x \in ToSet(new) PROVE x \in ToSet(seq) \ {n}
      <3>1. PICK i \in 1 .. Len(seq) - 1 : new[i] = x
         BY <2>6 DEF ToSet
      <3>2. PICK j \in 1 .. Len(seq) : j # k /\ seq[j] = x
         <4>1. CASE i < k
            BY <2>2, <2>5, <3>1, <4>1
         <4>2. CASE i >= k
            <5>1. i + 1 \in 1 .. Len(seq) /\ i + 1 # k /\ seq[i + 1] = x
               BY <2>2, <2>5, <3>1, <4>2
            <5>2. QED
               BY <5>1
         <4>3. QED
            BY <2>2, <4>1, <4>2
      <3>3. x # n
         BY <2>2, <3>2 DEF Distinct
      <3>4. QED
         BY <2>2, <3>2, <3>3 DEF ToSet
   <2>10. ASSUME n # Head(seq) PROVE Head(new) = Head(seq)
      <3>1. Head(seq) = seq[1]
         BY <2>2
      <3>2. k # 1
         BY <2>2, <2>10, <3>1
      <3>3. Len(new) \in Nat \ {0} /\ 1 < k
         BY <2>2, <2>5, <3>2
      <3>4. Head(new) = new[1] /\ new[1] = seq[1]
         BY <2>5, <3>3
      <3>5. QED
         BY <3>1, <3>4
   <2>11. QED
      BY <2>4, <2>5, <2>7, <2>8, <2>9, <2>10
<1>3. QED
   BY <1>1, <1>2

\* A view that is given last is the last.
LEMMA LastAppended ==
    ASSUME NEW pending \in Seq(Seq(Cattle)), NEW members \in Seq(Cattle), NEW view,
           NEW m, m \in ToSet(members), \A i \in DOMAIN pending : m \in ToSet(pending[i])
    PROVE  /\ Append(pending, members) \in Seq(Seq(Cattle))
           /\ LastOf(Append(pending, members), view) = members
           /\ \A i \in DOMAIN Append(pending, members) :
                 m \in ToSet(Append(pending, members)[i])
PROOF
<1>1. /\ Append(pending, members) \in Seq(Seq(Cattle))
      /\ Append(pending, members) # <<>>
      /\ Len(Append(pending, members)) = Len(pending) + 1
      /\ \A i \in 1 .. Len(pending) : Append(pending, members)[i] = pending[i]
      /\ Append(pending, members)[Len(pending) + 1] = members
      /\ Len(pending) \in Nat
   BY AppendProperties, LenProperties
<1>2. /\ DOMAIN Append(pending, members) = 1 .. Len(pending) + 1
      /\ DOMAIN pending = 1 .. Len(pending)
   BY <1>1, LenProperties
<1>3. LastOf(Append(pending, members), view) = members
   BY <1>1 DEF LastOf
<1>4. ASSUME NEW i \in 1 .. Len(pending) + 1
      PROVE  m \in ToSet(Append(pending, members)[i])
   BY <1>1, <1>2
<1>5. QED
   BY <1>1, <1>2, <1>3, <1>4

\* A view that is installed moves from the pending ones into use.
LEMMA LastInstalled ==
    ASSUME NEW pending \in Seq(Seq(Cattle)), pending # <<>>, NEW view, NEW m,
           \A i \in DOMAIN pending : m \in ToSet(pending[i])
    PROVE  /\ Head(pending) \in Seq(Cattle) /\ Tail(pending) \in Seq(Seq(Cattle))
           /\ LastOf(Tail(pending), Head(pending)) = LastOf(pending, view)
           /\ m \in ToSet(Head(pending))
           /\ \A i \in DOMAIN Tail(pending) : m \in ToSet(Tail(pending)[i])
PROOF
<1>1. /\ Head(pending) \in Seq(Cattle) /\ Tail(pending) \in Seq(Seq(Cattle))
      /\ Len(Tail(pending)) = Len(pending) - 1
      /\ \A i \in 1 .. Len(Tail(pending)) : Tail(pending)[i] = pending[i + 1]
      /\ Len(pending) \in Nat \ {0}
      /\ Head(pending) = pending[1]
   BY HeadTailProperties, EmptySeq
<1>2. DOMAIN Tail(pending) = 1 .. Len(pending) - 1 /\ DOMAIN pending = 1 .. Len(pending)
   BY <1>1, LenProperties
<1>3. Tail(pending) = <<>> <=> Len(pending) = 1
   <2>1. Tail(pending) = <<>> => Len(Tail(pending)) = 0
      BY EmptySeq
   <2>2. Tail(pending) # <<>> => Len(Tail(pending)) \in Nat \ {0}
      BY <1>1, EmptySeq
   <2>3. Len(Tail(pending)) = Len(pending) - 1 /\ Len(pending) \in Nat \ {0}
      BY <1>1
   <2>4. Len(Tail(pending)) = 0 <=> Len(pending) = 1
      BY <2>3
   <2>5. Tail(pending) = <<>> <=> Len(Tail(pending)) = 0
      BY <2>1, <2>2
   <2>6. QED
      BY <2>4, <2>5
<1>4. LastOf(Tail(pending), Head(pending)) = LastOf(pending, view)
   BY <1>1, <1>3 DEF LastOf
<1>5. QED
   BY <1>1, <1>2, <1>4

-----------------------------------------------------------------------------
(* What a step does to the group. *)

\* Most steps leave the group, the views and the channels as they are.
LEMMA QuietKeepsGroup ==
    ASSUME GroupInv, UNCHANGED <<group, views>>, ranch' \in [Cattle -> RanchState],
           \A m \in Cattle :
              /\ ranch'[m].status = ranch[m].status
              /\ ranch'[m].ranchMgrChannel = ranch[m].ranchMgrChannel
              /\ ranch'[m].view = ranch[m].view
              /\ SpeaksAsFirst(m, ranch'[m])
    PROVE  GroupInv'
PROOF
<1>1. GroupType'
   BY DEF GroupInv, GroupType
<1>2. ViewsAgree'
   BY DEF GroupInv, ViewsAgree, Agrees
<1>3. SpeakerIsFirst'
   BY DEF SpeakerIsFirst
<1>4. QED
   BY <1>1, <1>2, <1>3 DEF GroupInv

\* A member leaves the group, and the others will know.
LEMMA LeavingKeepsGroup ==
    ASSUME GroupInv, NEW n \in Cattle, NEW failed, LeavesGroup(n, failed),
           NEW state \in RanchState, ranch' = [ranch EXCEPT ![n] = state],
           ~(state.status = "up" /\ state.ranchMgrChannel)
    PROVE  GroupInv'
PROOF
<1> USE DEF GroupInv, GroupType
<1>1. PICK members : members = Without(group, n)
   OBVIOUS
<1>2. /\ group' = members
      /\ members \in Seq(Cattle) /\ Distinct(members)
      /\ ToSet(members) = ToSet(group) \ {n}
   BY <1>1, WithoutDistinct DEF LeavesGroup
<1>3. views' = [m \in Cattle |-> IF m = n THEN <<>>
                                 ELSE IF {m, n} \subseteq ToSet(group)
                                      THEN Append(views[m], members) ELSE views[m]]
   BY <1>2 DEF LeavesGroup
<1>4. n \notin ToSet(group) => members = group
   BY <1>1 DEF Without
<1>5. ASSUME NEW m \in Cattle
      PROVE  views'[m] \in Seq(Seq(Cattle)) /\ Agrees(m, ranch'[m], views'[m], members)
   <2>1. Agrees(m, ranch[m], views[m], group) /\ views[m] \in Seq(Seq(Cattle))
      BY DEF ViewsAgree
   <2>2. CASE m = n
      BY <1>2, <1>3, <2>2, EmptySeq DEF Agrees
   <2>3. CASE m # n /\ {m, n} \subseteq ToSet(group)
      <3>1. m \in ToSet(members) /\ \A i \in DOMAIN views[m] : m \in ToSet(views[m][i])
         BY <1>2, <2>1, <2>3 DEF Agrees
      <3>2. /\ Append(views[m], members) \in Seq(Seq(Cattle))
            /\ LastOf(Append(views[m], members), ranch[m].view) = members
            /\ \A i \in DOMAIN Append(views[m], members) :
                  m \in ToSet(Append(views[m], members)[i])
         BY <1>2, <2>1, <3>1, LastAppended
      <3>3. ranch'[m] = ranch[m] /\ views'[m] = Append(views[m], members)
         BY <1>3, <2>3
      <3>4. QED
         BY <2>1, <2>3, <3>1, <3>2, <3>3 DEF Agrees
   <2>4. CASE m # n /\ ~({m, n} \subseteq ToSet(group))
      <3>1. ranch'[m] = ranch[m] /\ views'[m] = views[m]
         BY <1>3, <2>4
      <3>2. CASE n \in ToSet(group)
         BY <1>2, <2>1, <2>4, <3>1, <3>2 DEF Agrees
      <3>3. CASE n \notin ToSet(group)
         BY <1>4, <2>1, <3>1, <3>3
      <3>4. QED
         BY <3>2, <3>3
   <2>5. QED
      BY <2>2, <2>3, <2>4
<1>6. views' \in [Cattle -> Seq(Seq(Cattle))]
   <2>1. views' = [m \in Cattle |-> views'[m]]
      BY <1>3
   <2>2. QED
      BY <1>5, <2>1
<1>7. ranch' \in [Cattle -> RanchState]
   OBVIOUS
<1>8. SpeakerIsFirst'
   BY DEF SpeakerIsFirst, SpeaksAsFirst
<1>9. ViewsAgree'
   BY <1>2, <1>5 DEF ViewsAgree
<1>10. QED
   BY <1>2, <1>6, <1>7, <1>8, <1>9

-----------------------------------------------------------------------------
(* The steps. *)

\* Fields are replaced by values of their types.
LEMMA FieldsType ==
    ASSUME NEW r \in RanchState
    PROVE  /\ [r EXCEPT !.localAddress = TRUE] \in RanchState
           /\ \A v \in Seq(Cattle) :
                 [r EXCEPT !.view = v, !.accepting = TRUE] \in RanchState
           /\ \A c \in Cattle : /\ [r EXCEPT !.coordinatorAddress = c] \in RanchState
                                /\ [r EXCEPT !.coordinatorAddress = c,
                                             !.taskDispatcherChannel = TRUE] \in RanchState
           /\ \A load \in SUBSET Cattle : [r EXCEPT !.cattleLoad = load] \in RanchState
           /\ \A address \in SUBSET Cattle : [r EXCEPT !.cattleAddress = address] \in RanchState
           /\ \A S \in SUBSET Cattle : /\ [r EXCEPT !.storing = S] \in RanchState
                                       /\ [r EXCEPT !.toScan = S] \in RanchState
BY DEF RanchState

\* The states that viewAccepted leads to.
LEMMA ViewFieldsType ==
    ASSUME NEW r \in RanchState, NEW c \in Cattle, NEW keys \in SUBSET Cattle,
           NEW scanning \in BOOLEAN, NEW left \in SUBSET Cattle
    PROVE  /\ [r EXCEPT !.accepting = FALSE, !.coordinatorAddress = c,
                        !.taskDispatcherChannel = TRUE, !.scanning = scanning,
                        !.keys = keys, !.toScan = keys] \in RanchState
           /\ [r EXCEPT !.accepting = FALSE, !.coordinatorAddress = c,
                        !.taskDispatcherChannel = FALSE, !.leftover = left] \in RanchState
BY DEF RanchState

\* The states that the loop over the addresses, and what is stored meanwhile, lead to.
LEMMA ScanFieldsType ==
    ASSUME NEW r \in RanchState, NEW S \in SUBSET Cattle, NEW left \in SUBSET Cattle,
           NEW load \in SUBSET Cattle
    PROVE  /\ [r EXCEPT !.cattleLoad = load, !.leftover = left] \in RanchState
           /\ [r EXCEPT !.scanning = FALSE, !.keys = {}, !.cattleAddress = S,
                        !.leftover = left] \in RanchState
           /\ [r EXCEPT !.scanning = FALSE, !.keys = {}, !.toScan = {},
                        !.leftover = left] \in RanchState
           /\ [r EXCEPT !.storing = S, !.cattleLoad = load, !.leftover = left]
                 \in RanchState
BY DEF RanchState

\* A member that closes its channel is a member.
LEMMA ClosedType ==
    ASSUME NEW r \in RanchState
    PROVE  /\ Closed(r) \in RanchState /\ ~Closed(r).ranchMgrChannel
           /\ \A status \in {"stoped", "crashed"} :
                 LET s == [Closed(r) EXCEPT !.status = status]
                 IN  s \in RanchState /\ ~s.ranchMgrChannel
BY EmptySeq DEF RanchState, Closed

\* A new member is last in the view that it starts with.
LEMMA JoinKeepsGroup ==
    ASSUME GroupInv, NEW n \in Cattle, Join(n)
    PROVE  GroupInv'
PROOF
<1> USE DEF GroupInv, GroupType
<1>1. PICK members : members = Append(group, n)
   OBVIOUS
<1>2. Agrees(n, ranch[n], views[n], group) /\ ranch[n].status = "new"
   BY DEF ViewsAgree, Join
<1>3. n \notin ToSet(group) /\ views[n] = <<>>
   BY <1>2 DEF Agrees
<1>4. /\ members \in Seq(Cattle) /\ Distinct(members)
      /\ ToSet(members) = ToSet(group) \cup {n}
      /\ Len(members) = 1 => Head(members) = n
      /\ Head(members) \in Cattle
   BY <1>1, <1>3, AppendDistinct
<1>5. PICK first : first = Head(members)
   OBVIOUS
<1>6. PICK speaks \in BOOLEAN : speaks = (Len(members) = 1)
   OBVIOUS
<1>7. PICK state : state = [NewRanch EXCEPT !.status = "up", !.ranchMgrChannel = TRUE,
                               !.view = members, !.coordinatorAddress = first,
                               !.taskDispatcherChannel = speaks]
   OBVIOUS
<1>8. /\ group' = members
      /\ views' = [m \in Cattle |-> IF m \in ToSet(members) \ {n}
                                    THEN Append(views[m], members) ELSE views[m]]
      /\ ranch' = [ranch EXCEPT ![n] = state]
   BY <1>1, <1>5, <1>6, <1>7 DEF Join, Announce
<1>9. /\ state \in RanchState /\ state.status = "up" /\ state.ranchMgrChannel
      /\ state.view = members /\ state.taskDispatcherChannel = speaks
   BY <1>4, <1>5, <1>7 DEF NewRanch, RanchState
<1>10. ASSUME NEW m \in Cattle
       PROVE  views'[m] \in Seq(Seq(Cattle)) /\ Agrees(m, ranch'[m], views'[m], members)
   <2>1. Agrees(m, ranch[m], views[m], group) /\ views[m] \in Seq(Seq(Cattle))
      BY DEF ViewsAgree
   <2>2. CASE m = n
      <3>1. ranch'[m] = state /\ views'[m] = <<>>
         BY <1>3, <1>8, <2>2
      <3>2. QED
         BY <1>4, <1>9, <2>2, <3>1, EmptySeq DEF Agrees, LastOf
   <2>3. CASE m # n /\ m \in ToSet(group)
      <3>1. m \in ToSet(members) /\ \A i \in DOMAIN views[m] : m \in ToSet(views[m][i])
         BY <1>4, <2>1, <2>3 DEF Agrees
      <3>2. /\ Append(views[m], members) \in Seq(Seq(Cattle))
            /\ LastOf(Append(views[m], members), ranch[m].view) = members
            /\ \A i \in DOMAIN Append(views[m], members) :
                  m \in ToSet(Append(views[m], members)[i])
         BY <1>4, <2>1, <3>1, LastAppended
      <3>3. ranch'[m] = ranch[m] /\ views'[m] = Append(views[m], members)
         BY <1>8, <2>3, <3>1
      <3>4. QED
         BY <2>1, <2>3, <3>1, <3>2, <3>3 DEF Agrees
   <2>4. CASE m # n /\ m \notin ToSet(group)
      <3>1. ranch'[m] = ranch[m] /\ views'[m] = views[m] /\ m \notin ToSet(members)
         BY <1>4, <1>8, <2>4
      <3>2. QED
         BY <2>1, <2>4, <3>1 DEF Agrees
   <2>5. QED
      BY <2>2, <2>3, <2>4
<1>11. views' \in [Cattle -> Seq(Seq(Cattle))]
   <2>1. views' = [m \in Cattle |-> views'[m]]
      BY <1>8
   <2>2. QED
      BY <1>10, <2>1
<1>12. SpeakerIsFirst'
   <2>1. SpeaksAsFirst(n, state)
      BY <1>4, <1>6, <1>9 DEF SpeaksAsFirst
   <2>2. QED
      BY <1>8, <2>1 DEF SpeakerIsFirst
<1>13. ViewsAgree'
   BY <1>8, <1>10 DEF ViewsAgree
<1>14. QED
   BY <1>4, <1>8, <1>9, <1>11, <1>12, <1>13

\* A view that is installed is one the group had.
LEMMA InstallKeepsGroup ==
    ASSUME GroupInv, NEW n \in Cattle, InstallView(n)
    PROVE  GroupInv'
PROOF
<1> USE DEF GroupInv, GroupType
<1>1. /\ Agrees(n, ranch[n], views[n], group) /\ views[n] # <<>>
      /\ views[n] \in Seq(Seq(Cattle)) /\ ranch[n].status = "up" /\ ranch[n].ranchMgrChannel
   BY DEF ViewsAgree, InstallView, InGroup
<1>2. n \in ToSet(group) /\ \A i \in DOMAIN views[n] : n \in ToSet(views[n][i])
   BY <1>1 DEF Agrees
<1>3. PICK view, rest : view = Head(views[n]) /\ rest = Tail(views[n])
   OBVIOUS
<1>4. /\ view \in Seq(Cattle) /\ rest \in Seq(Seq(Cattle))
      /\ LastOf(rest, view) = LastOf(views[n], ranch[n].view)
      /\ n \in ToSet(view)
      /\ \A i \in DOMAIN rest : n \in ToSet(rest[i])
   BY <1>1, <1>2, <1>3, LastInstalled
<1>5. PICK state : state = [ranch[n] EXCEPT !.view = view, !.accepting = TRUE]
   OBVIOUS
<1>6. /\ ranch' = [ranch EXCEPT ![n] = state]
      /\ views' = [views EXCEPT ![n] = rest]
      /\ group' = group
   BY <1>3, <1>5 DEF InstallView
<1>7. state \in RanchState
   BY <1>4, <1>5, FieldsType
<1>8. /\ state.status = "up" /\ state.ranchMgrChannel /\ state.view = view
      /\ state.accepting
   BY <1>1, <1>5 DEF RanchState
<1>9. Agrees(n, state, rest, group)
   BY <1>1, <1>2, <1>4, <1>8 DEF Agrees
<1>10. ViewsAgree'
   <2>1. ASSUME NEW m \in Cattle PROVE Agrees(m, ranch'[m], views'[m], group)
      BY <1>6, <1>9 DEF ViewsAgree
   <2>2. QED
      BY <1>6, <2>1 DEF ViewsAgree
<1>11. SpeakerIsFirst'
   BY <1>6, <1>8 DEF SpeakerIsFirst, SpeaksAsFirst
<1>12. QED
   BY <1>4, <1>6, <1>7, <1>10, <1>11

\* A step that changes some fields of one Ranch, which has its view and its channel
\* of the group still, and speaks only as the first.
LEMMA OneRanchKeepsGroup ==
    ASSUME GroupInv, UNCHANGED <<group, views>>, NEW n \in Cattle, NEW r \in RanchState,
           ranch' = [ranch EXCEPT ![n] = r],
           r.status = ranch[n].status, r.ranchMgrChannel = ranch[n].ranchMgrChannel,
           r.view = ranch[n].view, SpeaksAsFirst(n, r)
    PROVE  GroupInv'
PROOF
<1>1. ranch' \in [Cattle -> RanchState]
   BY DEF GroupInv, GroupType
<1>2. ASSUME NEW m \in Cattle
      PROVE  /\ ranch'[m].status = ranch[m].status
             /\ ranch'[m].ranchMgrChannel = ranch[m].ranchMgrChannel
             /\ ranch'[m].view = ranch[m].view
             /\ SpeaksAsFirst(m, ranch'[m])
   BY DEF GroupInv, GroupType, SpeakerIsFirst
<1>3. QED
   BY <1>1, <1>2, QuietKeepsGroup

\* A member of a group has a view, whose first is a member of the group once.
LEMMA ViewOfMember ==
    ASSUME GroupInv, NEW n \in Cattle, InGroup(n)
    PROVE  /\ ranch[n] \in RanchState
           /\ Head(ranch[n].view) \in Cattle
           /\ Len(ranch[n].view) = 1 => Head(ranch[n].view) = n
PROOF
<1>1. ranch[n] \in RanchState /\ ranch[n].view \in Seq(Cattle) /\ n \in ToSet(ranch[n].view)
   BY DEF GroupInv, GroupType, ViewsAgree, Agrees, InGroup, RanchState
<1>2. PICK v \in Seq(Cattle) : v = ranch[n].view
   BY <1>1
<1>3. PICK i \in 1 .. Len(v) : v[i] = n
   BY <1>1, <1>2, LenProperties DEF ToSet
<1>4. Len(v) \in Nat \ {0} /\ v # <<>>
   BY <1>3, LenProperties, EmptySeq
<1>5. Head(v) = v[1] /\ v[1] \in Cattle
   BY <1>4, ElementOfSeq
<1>6. Len(v) = 1 => v[1] = n
   BY <1>3
<1>7. QED
   BY <1>1, <1>2, <1>5, <1>6

\* A view that is accepted is the one that was installed.
LEMMA AcceptKeepsGroup ==
    ASSUME GroupInv, NEW n \in Cattle, AcceptView(n)
    PROVE  GroupInv'
PROOF
<1>1. InGroup(n) /\ UNCHANGED <<group, views>>
   BY DEF AcceptView, groupVars
<1>2. PICK r \in RanchState : r = ranch[n]
   BY <1>1, ViewOfMember
<1>3. PICK first \in Cattle : first = Head(r.view)
   BY <1>1, <1>2, ViewOfMember
<1>4. PICK keys \in SUBSET Cattle, left \in SUBSET Cattle, scanning \in BOOLEAN :
         /\ keys = IF r.cattleAddress \ ToSet(r.view) = {} THEN {} ELSE r.cattleAddress
         /\ scanning = (r.cattleAddress \ ToSet(r.view) # {})
         /\ left = r.leftover \cup IF Head(r.view) = n
                                   THEN r.cattleAddress \ ToSet(r.view) ELSE {}
   BY DEF RanchState
<1>6. PICK heard : heard = [r EXCEPT !.accepting = FALSE, !.coordinatorAddress = first,
                               !.taskDispatcherChannel = TRUE, !.scanning = scanning,
                               !.keys = keys, !.toScan = keys]
   OBVIOUS
<1>7. PICK silent : silent = [r EXCEPT !.accepting = FALSE, !.coordinatorAddress = first,
                                 !.taskDispatcherChannel = FALSE, !.leftover = left]
   OBVIOUS
<1>8. heard \in RanchState /\ silent \in RanchState
   BY <1>6, <1>7, ViewFieldsType
<1>9. /\ heard.status = r.status /\ heard.ranchMgrChannel = r.ranchMgrChannel
      /\ heard.view = r.view
      /\ silent.status = r.status /\ silent.ranchMgrChannel = r.ranchMgrChannel
      /\ silent.view = r.view /\ silent.taskDispatcherChannel = FALSE
   BY <1>6, <1>7 DEF RanchState
<1>10. CASE /\ Len(r.view) = 1 \/ (r.localAddress /\ Head(r.view) = n)
            /\ ranch' = [ranch EXCEPT ![n] = heard]
   <2>1. SpeaksAsFirst(n, heard)
      BY <1>1, <1>2, <1>9, <1>10, ViewOfMember DEF SpeaksAsFirst
   <2>2. QED
      BY <1>1, <1>2, <1>8, <1>9, <1>10, <2>1, OneRanchKeepsGroup
<1>11. CASE ranch' = [ranch EXCEPT ![n] = silent]
   <2>1. SpeaksAsFirst(n, silent)
      BY <1>9 DEF SpeaksAsFirst
   <2>2. QED
      BY <1>1, <1>2, <1>8, <1>9, <1>11, <2>1, OneRanchKeepsGroup
<1>12. QED
   BY <1>2, <1>3, <1>4, <1>6, <1>7, <1>10, <1>11 DEF AcceptView

\* A suspicion makes a member speak only when it is the first of its view.
LEMMA SuspectKeepsGroup ==
    ASSUME GroupInv, NEW n \in Cattle, NEW s \in Cattle, Suspect(n, s)
    PROVE  GroupInv'
PROOF
<1>1. InGroup(n)
   BY DEF Suspect, SuspectAsCoordinator, SuspectTakesOver, SuspectIgnored
<1>2. PICK r \in RanchState : r = ranch[n]
   BY <1>1, ViewOfMember
<1>3. CASE SuspectAsCoordinator(n, s)
   <2>1. CASE s \in ranch[n].cattleAddress
      <3>1. LeavesGroup(n, FALSE) /\ ranch' = [ranch EXCEPT ![n] = Closed(r)]
         BY <1>2, <1>3, <2>1 DEF SuspectAsCoordinator
      <3>2. QED
         BY <3>1, ClosedType, LeavingKeepsGroup
   <2>2. CASE s \notin ranch[n].cattleAddress
      <3>1. UNCHANGED <<ranch, group, views>>
         BY <1>3, <2>2 DEF SuspectAsCoordinator
      <3>2. QED
         BY <3>1 DEF GroupInv, GroupType, ViewsAgree, SpeakerIsFirst
   <2>3. QED
      BY <2>1, <2>2
<1>4. CASE SuspectTakesOver(n, s)
   <2>1. PICK taking : taking = [r EXCEPT !.coordinatorAddress = n,
                                          !.taskDispatcherChannel = TRUE]
      OBVIOUS
   <2>2. /\ taking \in RanchState /\ taking.status = r.status
         /\ taking.ranchMgrChannel = r.ranchMgrChannel /\ taking.view = r.view
      <3>1. taking \in RanchState
         BY <2>1, FieldsType
      <3>2. QED
         BY <2>1, <3>1 DEF RanchState
   <2>3. CASE s \in ranch[n].cattleAddress
      <3>1. LeavesGroup(n, FALSE) /\ ranch' = [ranch EXCEPT ![n] = Closed(taking)]
         BY <1>2, <1>4, <2>1, <2>3 DEF SuspectTakesOver
      <3>2. QED
         BY <2>2, <3>1, ClosedType, LeavingKeepsGroup
   <2>4. CASE s \notin ranch[n].cattleAddress
      <3>1. ranch' = [ranch EXCEPT ![n] = taking] /\ UNCHANGED <<group, views>>
         BY <1>2, <1>4, <2>1, <2>4 DEF SuspectTakesOver
      <3>2. SpeaksAsFirst(n, taking)
         BY <1>2, <1>4, <2>2 DEF SuspectTakesOver, SpeaksAsFirst
      <3>3. QED
         BY <1>2, <2>2, <3>1, <3>2, OneRanchKeepsGroup
   <2>5. QED
      BY <2>3, <2>4
<1>5. CASE SuspectIgnored(n, s)
   BY <1>5 DEF SuspectIgnored, GroupInv, GroupType, ViewsAgree, SpeakerIsFirst
<1>6. QED
   BY <1>3, <1>4, <1>5 DEF Suspect

\* unregister, stop and the end of the process: the channel is closed.
LEMMA DepartureKeepsGroup ==
    ASSUME GroupInv, NEW n \in Cattle, Unregister(n) \/ Stop(n) \/ Crash(n)
    PROVE  GroupInv'
PROOF
<1>1. PICK r \in RanchState : r = ranch[n]
   BY DEF GroupInv, GroupType
<1>2. CASE Unregister(n)
   <2>1. LeavesGroup(n, FALSE) /\ ranch' = [ranch EXCEPT ![n] = Closed(r)]
      BY <1>1, <1>2 DEF Unregister
   <2>2. QED
      BY <2>1, ClosedType, LeavingKeepsGroup
<1>3. CASE Stop(n)
   <2>1. /\ LeavesGroup(n, FALSE)
         /\ ranch' = [ranch EXCEPT ![n] = [Closed(r) EXCEPT !.status = "stoped"]]
      BY <1>1, <1>3 DEF Stop
   <2>2. QED
      BY <2>1, ClosedType, LeavingKeepsGroup
<1>4. CASE Crash(n)
   <2>1. /\ LeavesGroup(n, n \in ToSet(group))
         /\ ranch' = [ranch EXCEPT ![n] = [Closed(r) EXCEPT !.status = "crashed"]]
      BY <1>1, <1>4 DEF Crash
   <2>2. QED
      BY <2>1, ClosedType, LeavingKeepsGroup
<1>5. QED
   BY <1>2, <1>3, <1>4

\* Messages change what a Ranch knows of the others, not whom it speaks to.
LEMMA MessagesKeepGroup ==
    ASSUME GroupInv, NEW n \in Cattle,
           \/ Started(n) \/ SendRanchLoad(n)
           \/ \E s \in Cattle : Deliver(s, n)
    PROVE  GroupInv'
PROOF
<1>1. UNCHANGED <<group, views>>
   BY DEF Started, SendRanchLoad, Deliver, groupVars
<1>2. PICK r \in RanchState : r = ranch[n]
   BY DEF GroupInv, GroupType
<1>3. SpeaksAsFirst(n, r)
   BY <1>2 DEF GroupInv, SpeakerIsFirst
<1>4. PICK q \in RanchState :
         /\ ranch' = [ranch EXCEPT ![n] = q]
         /\ q.status = r.status /\ q.ranchMgrChannel = r.ranchMgrChannel
         /\ q.view = r.view /\ q.accepting = r.accepting
         /\ q.taskDispatcherChannel = r.taskDispatcherChannel
   <2>1. CASE Started(n)
      <3>1. PICK q : q = [r EXCEPT !.localAddress = TRUE]
         OBVIOUS
      <3>2. ranch' = [ranch EXCEPT ![n] = q]
         BY <1>2, <2>1, <3>1 DEF Started
      <3>3. q \in RanchState
         BY <3>1, FieldsType
      <3>4. /\ q.status = r.status /\ q.ranchMgrChannel = r.ranchMgrChannel
            /\ q.view = r.view /\ q.accepting = r.accepting
            /\ q.taskDispatcherChannel = r.taskDispatcherChannel
         BY <3>1 DEF RanchState
      <3>5. QED
         BY <3>2, <3>3, <3>4
   <2>2. CASE SendRanchLoad(n)
      <3>1. PICK load \in SUBSET Cattle : load = r.cattleLoad \cup {n}
         BY DEF RanchState
      <3>2. PICK q : q = [r EXCEPT !.cattleLoad = load]
         OBVIOUS
      <3>3. ranch' = [ranch EXCEPT ![n] = q]
         BY <1>2, <2>2, <3>1, <3>2 DEF SendRanchLoad
      <3>4. q \in RanchState
         BY <3>2, FieldsType
      <3>5. /\ q.status = r.status /\ q.ranchMgrChannel = r.ranchMgrChannel
            /\ q.view = r.view /\ q.accepting = r.accepting
            /\ q.taskDispatcherChannel = r.taskDispatcherChannel
         BY <3>2 DEF RanchState
      <3>6. QED
         BY <3>3, <3>4, <3>5
   <2>3. ASSUME NEW s \in Cattle, Deliver(s, n)
         PROVE  \E q \in RanchState :
                   /\ ranch' = [ranch EXCEPT ![n] = q]
                   /\ q.status = r.status /\ q.ranchMgrChannel = r.ranchMgrChannel
                   /\ q.view = r.view /\ q.accepting = r.accepting
                   /\ q.taskDispatcherChannel = r.taskDispatcherChannel
      <3>1. PICK address \in SUBSET Cattle : address = r.cattleAddress \cup {s}
         BY DEF RanchState
      <3>2. PICK storing \in SUBSET Cattle : storing = r.storing \cup {s}
         BY DEF RanchState
      <3>3. PICK heard : heard = [r EXCEPT !.cattleAddress = address]
         OBVIOUS
      <3>4. PICK loaded : loaded = [heard EXCEPT !.storing = storing]
         OBVIOUS
      <3>5. PICK told : told = [heard EXCEPT !.coordinatorAddress = s]
         OBVIOUS
      <3>6. heard.storing = r.storing
         BY <3>3 DEF RanchState
      <3>7. ranch' \in {[ranch EXCEPT ![n] = heard], [ranch EXCEPT ![n] = loaded],
                        [ranch EXCEPT ![n] = told]}
         BY <1>2, <2>3, <3>1, <3>2, <3>3, <3>4, <3>5, <3>6 DEF Deliver
      <3>8. heard \in RanchState /\ loaded \in RanchState /\ told \in RanchState
         <4>1. heard \in RanchState
            BY <3>3, FieldsType
         <4>2. QED
            BY <3>4, <3>5, <4>1, FieldsType
      <3>9. \A q \in {heard, loaded, told} :
               /\ q.status = r.status /\ q.ranchMgrChannel = r.ranchMgrChannel
               /\ q.view = r.view /\ q.accepting = r.accepting
               /\ q.taskDispatcherChannel = r.taskDispatcherChannel
         BY <3>3, <3>4, <3>5 DEF RanchState
      <3>10. QED
         BY <3>7, <3>8, <3>9
   <2>4. QED
      BY <2>1, <2>2, <2>3
<1>5. SpeaksAsFirst(n, q)
   BY <1>3, <1>4 DEF SpeaksAsFirst
<1>6. QED
   BY <1>1, <1>2, <1>4, <1>5, OneRanchKeepsGroup

\* n has the address of whom it has a load of, the loop comes to whom the view is
\* without, and a first member that has handled its view is done with them.
Swept(n, r) ==
    r.status = "up" /\ r.ranchMgrChannel =>
       /\ r.cattleLoad \subseteq r.cattleAddress \cup {n} \cup r.leftover
       /\ r.storing \subseteq r.cattleAddress \cup r.leftover
       /\ r.toScan \subseteq r.keys
       /\ ~r.accepting /\ r.coordinatorAddress = n => Head(r.view) = n
       /\ r.scanning => r.cattleLoad \subseteq ToSet(r.view) \cup r.toScan \cup r.leftover
       /\ ~r.accepting /\ ~r.scanning /\ Head(r.view) = n
             => r.cattleLoad \subseteq ToSet(r.view) \cup r.leftover

\* The fields that tell whom a Ranch speaks to.
SameRole(q, r) ==
    /\ q.status = r.status /\ q.ranchMgrChannel = r.ranchMgrChannel
    /\ q.view = r.view /\ q.accepting = r.accepting
    /\ q.coordinatorAddress = r.coordinatorAddress
    /\ q.taskDispatcherChannel = r.taskDispatcherChannel

\* One turn of the loop over the addresses.
LEMMA TurnSweeps ==
    ASSUME GroupInv, NEW n \in Cattle, NEW c \in Cattle, ScanMember(n, c)
    PROVE  \E q \in RanchState :
              /\ ranch' = [ranch EXCEPT ![n] = q] /\ SameRole(q, ranch[n])
              /\ Swept(n, ranch[n]) => Swept(n, q)
PROOF
<1>1. PICK r \in RanchState : r = ranch[n]
   BY DEF GroupInv, GroupType
<1>2. r.scanning /\ c \in r.toScan /\ r.cattleAddress = r.keys
   BY <1>1 DEF ScanMember
<1>3. PICK rest \in SUBSET Cattle, load \in SUBSET Cattle, left \in SUBSET Cattle :
         rest = r.toScan \ {c} /\ load = r.cattleLoad \ {c} /\ left = r.leftover \ {c}
   BY DEF RanchState
<1>4. PICK kept : kept = [r EXCEPT !.toScan = rest]
   OBVIOUS
<1>5. kept \in RanchState
   BY <1>4, FieldsType
<1>6. /\ SameRole(kept, r) /\ kept.toScan = rest /\ kept.keys = r.keys
      /\ kept.scanning = r.scanning /\ kept.storing = r.storing
      /\ kept.leftover = r.leftover /\ kept.cattleLoad = r.cattleLoad
      /\ kept.cattleAddress = r.cattleAddress
   BY <1>4 DEF RanchState, SameRole
<1>7. PICK removed : removed = [kept EXCEPT !.cattleLoad = load, !.leftover = left]
   OBVIOUS
<1>8. removed \in RanchState
   BY <1>5, <1>7, ScanFieldsType
<1>9. /\ SameRole(removed, r) /\ removed.toScan = rest /\ removed.keys = r.keys
      /\ removed.scanning = r.scanning /\ removed.storing = r.storing
      /\ removed.leftover = left /\ removed.cattleLoad = load
      /\ removed.cattleAddress = r.cattleAddress
   BY <1>5, <1>6, <1>7 DEF RanchState, SameRole
<1>10. CASE c \in ToSet(r.view) /\ ranch' = [ranch EXCEPT ![n] = kept]
   <2>1. Swept(n, r) => Swept(n, kept)
      BY <1>2, <1>3, <1>6, <1>10 DEF Swept, SameRole
   <2>2. QED
      BY <1>1, <1>5, <1>6, <1>10, <2>1
<1>11. CASE ranch' = [ranch EXCEPT ![n] = removed]
   <2>1. Swept(n, r) => Swept(n, removed)
      BY <1>2, <1>3, <1>9 DEF Swept, SameRole
   <2>2. QED
      BY <1>1, <1>8, <1>9, <1>11, <2>1
<1>12. QED
   BY <1>1, <1>3, <1>4, <1>6, <1>7, <1>10, <1>11 DEF ScanMember

\* The end of the loop, in order or not, and a load that is stored.
LEMMA EndSweeps ==
    ASSUME GroupInv, NEW n \in Cattle,
           ScanEnds(n) \/ ScanFails(n) \/ \E s \in Cattle : StoreLoad(s, n)
    PROVE  \E q \in RanchState :
              /\ ranch' = [ranch EXCEPT ![n] = q] /\ SameRole(q, ranch[n])
              /\ Swept(n, ranch[n]) => Swept(n, q)
PROOF
<1>1. PICK r \in RanchState : r = ranch[n]
   BY DEF GroupInv, GroupType
<1>2. CASE ScanEnds(n)
   <2>1. PICK missing \in SUBSET Cattle : missing = r.keys \ ToSet(r.view)
      BY DEF RanchState
   <2>2. PICK address \in SUBSET Cattle, left \in SUBSET Cattle :
            /\ address = r.cattleAddress \ missing
            /\ left = r.leftover \cup (missing \cap r.storing)
      BY DEF RanchState
   <2>3. PICK q : q = [r EXCEPT !.scanning = FALSE, !.keys = {}, !.cattleAddress = address,
                                !.leftover = left]
      OBVIOUS
   <2>4. q \in RanchState
      BY <2>3, ScanFieldsType
   <2>5. /\ SameRole(q, r) /\ q.toScan = r.toScan /\ q.keys = {} /\ ~q.scanning
         /\ q.storing = r.storing /\ q.leftover = left /\ q.cattleLoad = r.cattleLoad
         /\ q.cattleAddress = address
      BY <2>3 DEF RanchState, SameRole
   <2>6. /\ r.scanning /\ r.toScan = {} /\ ranch' = [ranch EXCEPT ![n] = q]
      BY <1>1, <1>2, <2>1, <2>2, <2>3 DEF ScanEnds
   <2>7. Swept(n, r) => Swept(n, q)
      <3> SUFFICES ASSUME Swept(n, r), r.status = "up", r.ranchMgrChannel
                   PROVE  Swept(n, q)
         BY <2>5 DEF Swept, SameRole
      <3>1. r.cattleLoad \subseteq ToSet(r.view) \cup left
         BY <2>2, <2>6 DEF Swept
      <3>2. r.cattleLoad \subseteq address \cup {n} \cup left
         BY <2>1, <2>2, <3>1 DEF Swept
      <3>3. r.storing \subseteq address \cup left
         BY <2>2 DEF Swept
      <3>4. QED
         BY <2>5, <2>6, <3>1, <3>2, <3>3 DEF Swept, SameRole
   <2>8. QED
      BY <1>1, <2>4, <2>5, <2>6, <2>7
<1>3. CASE ScanFails(n)
   <2>1. PICK left \in SUBSET Cattle : left = r.leftover \cup (r.toScan \ ToSet(r.view))
      BY DEF RanchState
   <2>2. PICK q : q = [r EXCEPT !.scanning = FALSE, !.keys = {}, !.toScan = {},
                                !.leftover = left]
      OBVIOUS
   <2>3. q \in RanchState
      BY <2>2, ScanFieldsType
   <2>4. /\ SameRole(q, r) /\ q.toScan = {} /\ q.keys = {} /\ ~q.scanning
         /\ q.storing = r.storing /\ q.leftover = left /\ q.cattleLoad = r.cattleLoad
         /\ q.cattleAddress = r.cattleAddress
      BY <2>2 DEF RanchState, SameRole
   <2>5. r.scanning /\ ranch' = [ranch EXCEPT ![n] = q]
      BY <1>1, <1>3, <2>1, <2>2 DEF ScanFails
   <2>6. Swept(n, r) => Swept(n, q)
      BY <2>1, <2>4, <2>5 DEF Swept, SameRole
   <2>7. QED
      BY <1>1, <2>3, <2>4, <2>5, <2>6
<1>4. ASSUME NEW s \in Cattle, StoreLoad(s, n)
      PROVE  \E q \in RanchState :
                /\ ranch' = [ranch EXCEPT ![n] = q] /\ SameRole(q, r)
                /\ Swept(n, r) => Swept(n, q)
   <2>1. PICK storing \in SUBSET Cattle, load \in SUBSET Cattle, left \in SUBSET Cattle :
            /\ storing = r.storing \ {s} /\ load = r.cattleLoad \cup {s}
            /\ left = IF s \in ToSet(r.view) THEN r.leftover ELSE r.leftover \cup {s}
      BY DEF RanchState
   <2>2. PICK q : q = [r EXCEPT !.storing = storing, !.cattleLoad = load, !.leftover = left]
      OBVIOUS
   <2>3. q \in RanchState
      BY <2>2, ScanFieldsType
   <2>4. /\ SameRole(q, r) /\ q.toScan = r.toScan /\ q.keys = r.keys
         /\ q.scanning = r.scanning /\ q.storing = storing /\ q.leftover = left
         /\ q.cattleLoad = load /\ q.cattleAddress = r.cattleAddress
      BY <2>2 DEF RanchState, SameRole
   <2>5. s \in r.storing /\ ranch' = [ranch EXCEPT ![n] = q]
      BY <1>1, <1>4, <2>1, <2>2 DEF StoreLoad
   <2>6. Swept(n, r) => Swept(n, q)
      BY <2>1, <2>4, <2>5 DEF Swept, SameRole
   <2>7. QED
      BY <2>3, <2>4, <2>5, <2>6
<1>5. QED
   BY <1>1, <1>2, <1>3, <1>4

\* What is stored and removed meanwhile does not change whom a Ranch speaks to.
LEMMA ScanKeepsGroup ==
    ASSUME GroupInv, NEW n \in Cattle,
           \/ ScanEnds(n) \/ ScanFails(n)
           \/ \E c \in Cattle : ScanMember(n, c) \/ StoreLoad(c, n)
    PROVE  GroupInv'
PROOF
<1>1. UNCHANGED <<group, views>>
   BY DEF ScanEnds, ScanFails, ScanMember, StoreLoad, groupVars
<1>2. PICK q \in RanchState : ranch' = [ranch EXCEPT ![n] = q] /\ SameRole(q, ranch[n])
   BY TurnSweeps, EndSweeps
<1>3. SpeaksAsFirst(n, q)
   BY <1>2 DEF GroupInv, SpeakerIsFirst, SpeaksAsFirst, SameRole
<1>4. QED
   BY <1>1, <1>2, <1>3, OneRanchKeepsGroup DEF SameRole

\* Each step keeps the group.
LEMMA GroupStep == GroupInv /\ [Next]_vars => GroupInv'
PROOF
<1> SUFFICES ASSUME GroupInv, [Next]_vars PROVE GroupInv'
   OBVIOUS
<1>1. CASE UNCHANGED <<ranch, group, views>>
   BY <1>1 DEF GroupInv, GroupType, ViewsAgree, SpeakerIsFirst
<1>2. CASE RestartDispatcher
   BY <1>1, <1>2 DEF RestartDispatcher, groupVars
<1>3. ASSUME NEW n \in Cattle,
             \/ SendLocalLoad(n) \/ AnswerSyn(n) \/ Dispatch(n) \/ SuspectManager(n)
             \/ \E k \in Commands : Command(n, k)
      PROVE  GroupInv'
   BY <1>1, <1>3 DEF SendLocalLoad, AnswerSyn, Dispatch, SuspectManager, Command, groupVars
<1>4. CASE UNCHANGED vars
   BY <1>1, <1>4 DEF vars
<1>5. QED
   BY <1>2, <1>3, <1>4, JoinKeepsGroup, InstallKeepsGroup, AcceptKeepsGroup,
      SuspectKeepsGroup, DepartureKeepsGroup, MessagesKeepGroup, ScanKeepsGroup
      DEF Next, Views, Messages, Reports

\* The invariant of the group.
THEOREM GroupInvariant == Spec => []GroupInv
BY InitGroup, GroupStep, PTL DEF Spec

\* Once the views are handled, only the first member of the group speaks to the
\* dispatchers (Ranch.java:374-409).
THEOREM OneSpeaker == Spec => []OnlyFirstSpeaks
BY GroupInvariant, InvGivesProperty, PTL

-----------------------------------------------------------------------------
(* A coordinator has loads of members, and of those that are left over. *)

AllSwept == \A n \in Cattle : Swept(n, ranch[n])

\* What the invariant is for.
LEMMA SweptGivesReports == GroupInv /\ AllSwept => ReportsMembersOnly
PROOF
<1> SUFFICES ASSUME GroupInv, AllSwept, NEW n \in Cattle, Settled(n),
                    ~ranch[n].scanning, IsCoordinator(n)
             PROVE  ranch[n].cattleLoad \subseteq ToSet(group) \cup ranch[n].leftover
   BY DEF ReportsMembersOnly
<1>1. InGroup(n) /\ ~ranch[n].accepting /\ views[n] = <<>>
   BY DEF Settled
<1>2. Swept(n, ranch[n]) /\ ranch[n].coordinatorAddress = n
   BY DEF AllSwept, IsCoordinator
<1>3. Agrees(n, ranch[n], views[n], group) /\ n \in ToSet(group)
   BY <1>1 DEF GroupInv, ViewsAgree, Agrees, InGroup
<1>4. ranch[n].view = group
   BY <1>1, <1>3 DEF Agrees, LastOf
<1>5. QED
   BY <1>1, <1>2, <1>4 DEF Swept, InGroup

\* One Ranch changes.
LEMMA OneSwept ==
    ASSUME GroupInv, AllSwept, NEW n \in Cattle, NEW q, Swept(n, q),
           ranch' = [ranch EXCEPT ![n] = q]
    PROVE  AllSwept'
PROOF
<1>1. ASSUME NEW m \in Cattle PROVE Swept(m, ranch'[m])
   <2>1. CASE m = n
      BY <2>1 DEF GroupInv, GroupType
   <2>2. CASE m # n
      <3>1. ranch'[m] = ranch[m]
         BY <2>2 DEF GroupInv, GroupType
      <3>2. QED
         BY <3>1 DEF AllSwept
   <2>3. QED
      BY <2>1, <2>2
<1>2. QED
   BY <1>1 DEF AllSwept

\* A channel that is closed has nothing to sweep.
LEMMA ClosedSwept ==
    ASSUME NEW n, NEW r \in RanchState
    PROVE  /\ Swept(n, Closed(r))
           /\ \A status \in {"stoped", "crashed"} :
                 Swept(n, [Closed(r) EXCEPT !.status = status])
BY ClosedType DEF Swept

\* A new member has no loads.
LEMMA JoinSwept ==
    ASSUME GroupInv, AllSwept, NEW n \in Cattle, Join(n)
    PROVE  AllSwept'
PROOF
<1>1. PICK members, first, speaks : /\ members = Append(group, n)
                                    /\ first = Head(members)
                                    /\ speaks = (Len(members) = 1)
   OBVIOUS
<1>2. PICK state : state = [NewRanch EXCEPT !.status = "up", !.ranchMgrChannel = TRUE,
                               !.view = members, !.coordinatorAddress = first,
                               !.taskDispatcherChannel = speaks]
   OBVIOUS
<1>3. ranch' = [ranch EXCEPT ![n] = state]
   BY <1>1, <1>2 DEF Join
<1>4. /\ state.cattleLoad = {} /\ state.storing = {} /\ state.toScan = {}
      /\ state.view = members /\ state.coordinatorAddress = first
   BY <1>2 DEF NewRanch
<1>5. Swept(n, state)
   BY <1>1, <1>4 DEF Swept
<1>6. QED
   BY <1>3, <1>5, OneSwept

\* A view that is installed is still to be handled.
LEMMA InstallSwept ==
    ASSUME GroupInv, AllSwept, NEW n \in Cattle, InstallView(n)
    PROVE  AllSwept'
PROOF
<1>1. PICK r \in RanchState : r = ranch[n]
   BY DEF GroupInv, GroupType
<1>2. PICK view : view = Head(views[n])
   OBVIOUS
<1>3. PICK state : state = [r EXCEPT !.view = view, !.accepting = TRUE]
   OBVIOUS
<1>4. ranch' = [ranch EXCEPT ![n] = state] /\ ~r.scanning
   BY <1>1, <1>2, <1>3 DEF InstallView
<1>5. /\ state.status = r.status /\ state.ranchMgrChannel = r.ranchMgrChannel
      /\ state.accepting /\ state.scanning = r.scanning /\ state.keys = r.keys
      /\ state.toScan = r.toScan /\ state.storing = r.storing
      /\ state.leftover = r.leftover /\ state.cattleLoad = r.cattleLoad
      /\ state.cattleAddress = r.cattleAddress
   BY <1>3 DEF RanchState
<1>6. Swept(n, state)
   BY <1>1, <1>4, <1>5 DEF AllSwept, Swept
<1>7. QED
   BY <1>4, <1>6, OneSwept

\* The loop is to come to all that the view is without, or they are left over.
LEMMA AcceptSwept ==
    ASSUME GroupInv, AllSwept, NEW n \in Cattle, AcceptView(n)
    PROVE  AllSwept'
PROOF
<1>1. InGroup(n) /\ ranch[n].accepting
   BY DEF AcceptView
<1>2. PICK r \in RanchState : r = ranch[n]
   BY <1>1, ViewOfMember
<1>3. PICK first : first = Head(r.view)
   OBVIOUS
<1>4. PICK keys \in SUBSET Cattle, left \in SUBSET Cattle, scanning \in BOOLEAN :
         /\ keys = IF r.cattleAddress \ ToSet(r.view) = {} THEN {} ELSE r.cattleAddress
         /\ scanning = (r.cattleAddress \ ToSet(r.view) # {})
         /\ left = r.leftover \cup IF Head(r.view) = n
                                   THEN r.cattleAddress \ ToSet(r.view) ELSE {}
   BY DEF RanchState
<1>5. PICK heard : heard = [r EXCEPT !.accepting = FALSE, !.coordinatorAddress = first,
                               !.taskDispatcherChannel = TRUE, !.scanning = scanning,
                               !.keys = keys, !.toScan = keys]
   OBVIOUS
<1>6. PICK silent : silent = [r EXCEPT !.accepting = FALSE, !.coordinatorAddress = first,
                                 !.taskDispatcherChannel = FALSE, !.leftover = left]
   OBVIOUS
<1>7. /\ heard.status = r.status /\ heard.ranchMgrChannel = r.ranchMgrChannel
      /\ heard.view = r.view /\ heard.coordinatorAddress = first
      /\ heard.scanning = scanning /\ heard.keys = keys /\ heard.toScan = keys
      /\ heard.storing = r.storing /\ heard.leftover = r.leftover
      /\ heard.cattleLoad = r.cattleLoad /\ heard.cattleAddress = r.cattleAddress
   BY <1>5 DEF RanchState
<1>8. /\ silent.status = r.status /\ silent.ranchMgrChannel = r.ranchMgrChannel
      /\ silent.view = r.view /\ silent.coordinatorAddress = first
      /\ silent.scanning = r.scanning /\ silent.keys = r.keys /\ silent.toScan = r.toScan
      /\ silent.storing = r.storing /\ silent.leftover = left
      /\ silent.cattleLoad = r.cattleLoad /\ silent.cattleAddress = r.cattleAddress
   BY <1>6 DEF RanchState
<1>9. /\ r.cattleLoad \subseteq r.cattleAddress \cup {n} \cup r.leftover
      /\ r.storing \subseteq r.cattleAddress \cup r.leftover
      /\ r.toScan \subseteq r.keys
      /\ r.scanning => r.cattleLoad \subseteq ToSet(r.view) \cup r.toScan \cup r.leftover
   BY <1>1, <1>2 DEF AllSwept, Swept, InGroup
<1>10. n \in ToSet(r.view)
   BY <1>1, <1>2 DEF GroupInv, ViewsAgree, Agrees, InGroup
<1>11. CASE ranch' = [ranch EXCEPT ![n] = heard]
   <2>1. /\ scanning => r.cattleLoad \subseteq ToSet(r.view) \cup keys \cup r.leftover
         /\ ~scanning => r.cattleLoad \subseteq ToSet(r.view) \cup r.leftover
      BY <1>4, <1>9, <1>10
   <2>2. Swept(n, heard)
      BY <1>3, <1>7, <1>9, <2>1 DEF Swept
   <2>3. QED
      BY <1>11, <2>2, OneSwept
<1>12. CASE ranch' = [ranch EXCEPT ![n] = silent]
   <2>1. first = n => r.cattleLoad \subseteq ToSet(r.view) \cup left
      BY <1>3, <1>4, <1>9, <1>10
   <2>2. r.leftover \subseteq left
      BY <1>4
   <2>3. Swept(n, silent)
      BY <1>3, <1>8, <1>9, <2>1, <2>2 DEF Swept
   <2>4. QED
      BY <1>12, <2>3, OneSwept
<1>13. QED
   BY <1>2, <1>3, <1>4, <1>5, <1>6, <1>11, <1>12 DEF AcceptView

\* What a Ranch hears, sends, is told of failures, and how it leaves.
LEMMA MessagesSwept ==
    ASSUME GroupInv, AllSwept, NEW n \in Cattle,
           \/ Started(n) \/ SendRanchLoad(n) \/ \E s \in Cattle : Deliver(s, n)
    PROVE  AllSwept'
PROOF
<1>1. PICK r \in RanchState : r = ranch[n] /\ Swept(n, r)
   BY DEF GroupInv, GroupType, AllSwept
<1>2. CASE Started(n)
   <2>1. PICK q : q = [r EXCEPT !.localAddress = TRUE]
      OBVIOUS
   <2>2. ranch' = [ranch EXCEPT ![n] = q]
      BY <1>1, <1>2, <2>1 DEF Started
   <2>3. Swept(n, q)
      BY <1>1, <2>1 DEF RanchState, Swept
   <2>4. QED
      BY <2>2, <2>3, OneSwept
<1>3. CASE SendRanchLoad(n)
   <2>1. PICK load : load = r.cattleLoad \cup {n}
      OBVIOUS
   <2>2. PICK q : q = [r EXCEPT !.cattleLoad = load]
      OBVIOUS
   <2>3. ranch' = [ranch EXCEPT ![n] = q]
      BY <1>1, <1>3, <2>1, <2>2 DEF SendRanchLoad
   <2>4. r.status = "up" /\ r.ranchMgrChannel => n \in ToSet(r.view)
      BY <1>1 DEF GroupInv, ViewsAgree, Agrees
   <2>5. /\ SameRole(q, r) /\ q.toScan = r.toScan /\ q.keys = r.keys
         /\ q.scanning = r.scanning /\ q.storing = r.storing /\ q.leftover = r.leftover
         /\ q.cattleLoad = load /\ q.cattleAddress = r.cattleAddress
      BY <2>2 DEF RanchState, SameRole
   <2>6. Swept(n, q)
      BY <1>1, <2>1, <2>4, <2>5 DEF Swept, SameRole
   <2>7. QED
      BY <2>3, <2>6, OneSwept
<1>4. ASSUME NEW s \in Cattle, Deliver(s, n)
      PROVE  AllSwept'
   <2>1. PICK address, storing : /\ address = r.cattleAddress \cup {s}
                                 /\ storing = r.storing \cup {s}
      OBVIOUS
   <2>2. PICK heard : heard = [r EXCEPT !.cattleAddress = address]
      OBVIOUS
   <2>3. /\ SameRole(heard, r) /\ heard.toScan = r.toScan /\ heard.keys = r.keys
         /\ heard.scanning = r.scanning /\ heard.storing = r.storing
         /\ heard.leftover = r.leftover /\ heard.cattleLoad = r.cattleLoad
         /\ heard.cattleAddress = address
      BY <2>2 DEF RanchState, SameRole
   <2>4. Swept(n, heard)
      BY <1>1, <2>1, <2>3 DEF Swept, SameRole
   <2>5. CASE ranch' = [ranch EXCEPT ![n] = heard]
      BY <2>4, <2>5, OneSwept
   <2>6. CASE ranch' = [ranch EXCEPT ![n] = [heard EXCEPT !.storing = storing]]
      <3>1. PICK q : q = [heard EXCEPT !.storing = storing]
         OBVIOUS
      <3>2. /\ SameRole(q, r) /\ q.toScan = r.toScan /\ q.keys = r.keys
            /\ q.scanning = r.scanning /\ q.storing = storing
            /\ q.leftover = r.leftover /\ q.cattleLoad = r.cattleLoad
            /\ q.cattleAddress = address
         BY <2>2, <3>1 DEF RanchState, SameRole
      <3>3. Swept(n, q)
         BY <1>1, <2>1, <3>2 DEF Swept, SameRole
      <3>4. QED
         BY <2>6, <3>1, <3>3, OneSwept
   <2>7. CASE s # n /\ ranch' = [ranch EXCEPT ![n] = [heard EXCEPT !.coordinatorAddress = s]]
      <3>1. PICK q : q = [heard EXCEPT !.coordinatorAddress = s]
         OBVIOUS
      <3>2. /\ q.status = r.status /\ q.ranchMgrChannel = r.ranchMgrChannel
            /\ q.view = r.view /\ q.accepting = r.accepting
            /\ q.coordinatorAddress = s
            /\ q.toScan = r.toScan /\ q.keys = r.keys
            /\ q.scanning = r.scanning /\ q.storing = r.storing
            /\ q.leftover = r.leftover /\ q.cattleLoad = r.cattleLoad
            /\ q.cattleAddress = address
         BY <2>2, <3>1 DEF RanchState
      <3>3. Swept(n, q)
         BY <1>1, <2>1, <2>7, <3>2 DEF Swept
      <3>4. QED
         BY <2>7, <3>1, <3>3, OneSwept
   <2>8. \/ ranch' = [ranch EXCEPT ![n] = [heard EXCEPT !.storing = heard.storing \cup {s}]]
         \/ ranch' = [ranch EXCEPT ![n] = heard]
         \/ s # n /\ ranch' = [ranch EXCEPT ![n] = [heard EXCEPT !.coordinatorAddress = s]]
      BY <1>1, <1>4, <2>1, <2>2 DEF Deliver
   <2>9. QED
      BY <2>1, <2>3, <2>5, <2>6, <2>7, <2>8
<1>5. QED
   BY <1>2, <1>3, <1>4

\* Who takes over is the first of its view; who leaves has nothing to sweep.
LEMMA LeavingSwept ==
    ASSUME GroupInv, AllSwept, NEW n \in Cattle,
           \/ Unregister(n) \/ Stop(n) \/ Crash(n)
           \/ \E s \in Cattle : Suspect(n, s)
    PROVE  AllSwept'
PROOF
<1>1. PICK r \in RanchState : r = ranch[n] /\ Swept(n, r)
   BY DEF GroupInv, GroupType, AllSwept
<1>2. CASE Unregister(n) \/ Stop(n) \/ Crash(n)
   <2>1. PICK q : /\ ranch' = [ranch EXCEPT ![n] = q] /\ Swept(n, q)
      BY <1>1, <1>2, ClosedSwept DEF Unregister, Stop, Crash
   <2>2. QED
      BY <2>1, OneSwept
<1>3. ASSUME NEW s \in Cattle, Suspect(n, s)
      PROVE  AllSwept'
   <2>1. PICK taking : taking = [r EXCEPT !.coordinatorAddress = n,
                                          !.taskDispatcherChannel = TRUE]
      OBVIOUS
   <2>2. taking \in RanchState
      BY <2>1, FieldsType
   <2>3. /\ taking.status = r.status /\ taking.ranchMgrChannel = r.ranchMgrChannel
         /\ taking.view = r.view /\ taking.accepting = r.accepting
         /\ taking.toScan = r.toScan /\ taking.keys = r.keys
         /\ taking.scanning = r.scanning /\ taking.storing = r.storing
         /\ taking.leftover = r.leftover /\ taking.cattleLoad = r.cattleLoad
         /\ taking.cattleAddress = r.cattleAddress
      BY <2>1 DEF RanchState
   <2>4. Head(r.view) = n => Swept(n, taking)
      BY <1>1, <2>3 DEF Swept
   <2>5. Swept(n, Closed(r)) /\ Swept(n, Closed(taking))
      BY <2>2, ClosedSwept
   <2>6. \/ ranch' = ranch
         \/ ranch' = [ranch EXCEPT ![n] = Closed(r)]
         \/ ranch' = [ranch EXCEPT ![n] = Closed(taking)]
         \/ Head(r.view) = n /\ ranch' = [ranch EXCEPT ![n] = taking]
      BY <1>1, <1>3, <2>1
         DEF Suspect, SuspectAsCoordinator, SuspectTakesOver, SuspectIgnored
   <2>7. CASE ranch' = ranch
      BY <2>7 DEF AllSwept
   <2>8. QED
      BY <2>4, <2>5, <2>6, <2>7, OneSwept
<1>4. QED
   BY <1>2, <1>3

\* Each step leaves every Ranch swept.
LEMMA SweptStep == GroupInv /\ AllSwept /\ [Next]_vars => AllSwept'
PROOF
<1> SUFFICES ASSUME GroupInv, AllSwept, [Next]_vars PROVE AllSwept'
   OBVIOUS
<1>1. ASSUME ranch' = ranch PROVE AllSwept'
   BY <1>1 DEF AllSwept
<1>2. CASE UNCHANGED vars \/ RestartDispatcher
   BY <1>1, <1>2 DEF vars, RestartDispatcher
<1>3. ASSUME NEW n \in Cattle,
             \/ SendLocalLoad(n) \/ AnswerSyn(n) \/ Dispatch(n) \/ SuspectManager(n)
             \/ \E k \in Commands : Command(n, k)
      PROVE  AllSwept'
   BY <1>1, <1>3 DEF SendLocalLoad, AnswerSyn, Dispatch, SuspectManager, Command
<1>4. ASSUME NEW n \in Cattle,
             \/ ScanEnds(n) \/ ScanFails(n)
             \/ \E c \in Cattle : ScanMember(n, c) \/ StoreLoad(c, n)
      PROVE  AllSwept'
   <2>1. PICK q \in RanchState :
            ranch' = [ranch EXCEPT ![n] = q] /\ (Swept(n, ranch[n]) => Swept(n, q))
      BY <1>4, TurnSweeps, EndSweeps
   <2>2. QED
      BY <2>1, OneSwept DEF AllSwept
<1>5. QED
   BY <1>2, <1>3, <1>4, JoinSwept, InstallSwept, AcceptSwept, MessagesSwept, LeavingSwept
      DEF Next, Views, Messages, Reports

\* A coordinator that has handled the views has loads of members only, and of those
\* that a late store, a broken loop or a view handled too early left over
\* (Ranch.java:323-333, 381-401).
THEOREM MembersReported == Spec => []ReportsMembersOnly
PROOF
<1>1. Init => AllSwept
   BY DEF Init, AllSwept, Swept, NewRanch
<1>2. Spec => []AllSwept
   BY <1>1, SweptStep, GroupInvariant, PTL DEF Spec
<1>3. QED
   BY <1>2, GroupInvariant, SweptGivesReports, PTL

-----------------------------------------------------------------------------
(* Queues. *)

ChanSpace == [Cattle -> [Cattle -> Seq(RanchMessage)]]

\* What members send are messages.
LEMMA MessageTypes ==
    ASSUME NEW c \in Cattle
    PROVE  /\ \A op \in GroupOp : Msg(op, c) \in RanchMessage /\ Msg(op, c).op = op
           /\ \A k \in Commands :
                 LET msg == [Msg(k.op, c) EXCEPT !.version = k.version]
                 IN  msg \in RanchMessage /\ msg.op \notin {"LOAD", "COORDINATOR"}
BY RanchAssumption DEF Msg, RanchMessage, GroupOp

\* Sending appends to one queue, if the receiver is a member.
LEMMA SentQueues ==
    ASSUME NEW queues \in ChanSpace, NEW from \in Cattle, NEW to, NEW msg \in RanchMessage,
           group \in Seq(Cattle)
    PROVE  /\ Sent(queues, from, to, msg) \in ChanSpace
           /\ \A s, m \in Cattle :
                 Sent(queues, from, to, msg)[s][m] =
                    IF s = from /\ m = to /\ to \in ToSet(group)
                    THEN Append(queues[s][m], msg) ELSE queues[s][m]
PROOF
<1>1. CASE to \notin ToSet(group)
   BY <1>1 DEF Sent
<1>2. CASE to \in ToSet(group)
   <2>1. to \in Cattle
      BY <1>2, ElementOfSeq, LenProperties DEF ToSet
   <2>2. PICK row : row = [queues[from] EXCEPT ![to] = Append(queues[from][to], msg)]
      OBVIOUS
   <2>3. Append(queues[from][to], msg) \in Seq(RanchMessage)
      BY <2>1, AppendProperties DEF ChanSpace
   <2>4. /\ row \in [Cattle -> Seq(RanchMessage)]
         /\ \A m \in Cattle : row[m] = IF m = to THEN Append(queues[from][m], msg)
                                       ELSE queues[from][m]
      BY <2>1, <2>2, <2>3 DEF ChanSpace
   <2>5. Sent(queues, from, to, msg) = [queues EXCEPT ![from] = row]
      BY <1>2, <2>2 DEF Sent
   <2>6. QED
      BY <1>2, <2>4, <2>5 DEF ChanSpace
<1>3. QED
   BY <1>1, <1>2

\* The queues of a member that is gone are empty, and the others are as they were.
LEMMA DroppedQueues ==
    ASSUME NEW queues \in ChanSpace, NEW n \in Cattle
    PROVE  /\ DroppedFor(n, queues) \in ChanSpace
           /\ \A s, m \in Cattle :
                 DroppedFor(n, queues)[s][m] = IF m = n THEN <<>> ELSE queues[s][m]
PROOF
<1>1. ASSUME NEW s \in Cattle
      PROVE  /\ [queues[s] EXCEPT ![n] = <<>>] \in [Cattle -> Seq(RanchMessage)]
             /\ \A m \in Cattle : [queues[s] EXCEPT ![n] = <<>>][m] =
                                     IF m = n THEN <<>> ELSE queues[s][m]
   BY EmptySeq DEF ChanSpace
<1>2. QED
   BY <1>1 DEF DroppedFor, ChanSpace

-----------------------------------------------------------------------------
(* Types of the rest: what is under way, and the dispatcher's side. *)

ToTdSpace == [Cattle -> Seq(RanchMessage)]

UsedType == used \in [crashes : 0 .. MaxCrashes, stops : 0 .. MaxStops,
                      restarts : 0 .. MaxRestarts, commands : 0 .. MaxCommands]

QueuesType == suspects \in [Cattle -> SUBSET Cattle] /\ chan \in ChanSpace /\ toTd \in ToTdSpace

DispatcherType ==
    /\ syn \subseteq Cattle /\ tdSuspects \subseteq Cattle
    /\ shed \in ShedRecord /\ paused \in BOOLEAN
    /\ managers \in [Cattle -> Cattle \cup {NoCattle}]

WireType == QueuesType /\ DispatcherType /\ UsedType

\* A single message is a queue.
LEMMA OneMessage == \A msg \in RanchMessage : <<msg>> \in Seq(RanchMessage)
OBVIOUS

\* What a member sends to the dispatchers comes behind what it sent before.
LEMMA AppendedToTd ==
    ASSUME toTd \in ToTdSpace, NEW n \in Cattle, NEW msgs \in Seq(RanchMessage)
    PROVE  /\ [toTd EXCEPT ![n] = @ \o msgs] \in ToTdSpace
           /\ SentToTd(n, msgs) \in ToTdSpace
<1>1. toTd[n] \o msgs \in Seq(RanchMessage)
   BY ConcatProperties DEF ToTdSpace
<1>2. QED
   BY <1>1 DEF ToTdSpace, SentToTd

\* A message to the leader goes into a queue, or to the dispatchers.
LEMMA SubmitType ==
    ASSUME toTd \in ToTdSpace, group \in Seq(Cattle), NEW n \in Cattle,
           NEW msg \in RanchMessage, NEW queues \in ChanSpace, Submit(n, msg, queues)
    PROVE  chan' \in ChanSpace /\ toTd' \in ToTdSpace
<1>1. \A to : Sent(queues, n, to, msg) \in ChanSpace
   BY SentQueues
<1>2. <<msg>> \in Seq(RanchMessage)
   BY OneMessage
<1>3. SentToTd(n, <<msg>>) \in ToTdSpace
   BY <1>2, AppendedToTd
<1>4. QED
   BY <1>1, <1>3 DEF Submit

\* Members are suspected by members.
LEMMA LeavesGroupType ==
    ASSUME suspects \in [Cattle -> SUBSET Cattle], NEW n \in Cattle, NEW failed,
           LeavesGroup(n, failed)
    PROVE  suspects' \in [Cattle -> SUBSET Cattle]
<1>1. ASSUME NEW m \in Cattle
      PROVE  (IF m = n THEN {} ELSE IF failed /\ m \in ToSet(group)
              THEN suspects[m] \cup {n} ELSE suspects[m]) \in SUBSET Cattle
   OBVIOUS
<1>2. QED
   BY <1>1 DEF LeavesGroup

\* A dispatcher forgets a coordinator by putting nobody in its place.
LEMMA ForgetTdType ==
    ASSUME managers \in [Cattle -> Cattle \cup {NoCattle}], NEW n \in Cattle
    PROVE  ForgetTd(n) \in [Cattle -> Cattle \cup {NoCattle}]
BY DEF ForgetTd

\* An event is counted.
LEMMA HappensType ==
    ASSUME UsedType,
           \/ Happens("crashes", MaxCrashes) \/ Happens("stops", MaxStops)
           \/ Happens("restarts", MaxRestarts) \/ Happens("commands", MaxCommands)
    PROVE  UsedType'
<1>1. /\ MaxCrashes \in Nat /\ MaxStops \in Nat /\ MaxRestarts \in Nat /\ MaxCommands \in Nat
   BY RanchAssumption
<1>2. CASE Happens("crashes", MaxCrashes)
   BY <1>1, <1>2 DEF Happens, UsedType
<1>3. CASE Happens("stops", MaxStops)
   BY <1>1, <1>3 DEF Happens, UsedType
<1>4. CASE Happens("restarts", MaxRestarts)
   BY <1>1, <1>4 DEF Happens, UsedType
<1>5. CASE Happens("commands", MaxCommands)
   BY <1>1, <1>5 DEF Happens, UsedType
<1>6. QED
   BY <1>2, <1>3, <1>4, <1>5

\* The operations of the dispatcher's Shed keep its type.
LEMMA ShedOperations ==
    ASSUME NEW s \in ShedRecord, NEW c \in Cattle
    PROVE  /\ EmptyShed \in ShedRecord
           /\ AddCattle(s, c) \in ShedRecord /\ RemoveCattle(s, c) \in ShedRecord
           /\ \A v \in AppVersion \cup {NoVersion} : SetDefaultVersion(s, v) \in ShedRecord
           /\ \A load \in SUBSET Cattle : ReloadResults(s, load) \subseteq ShedRecord
<1>1. VersionOf \in [Cattle -> AppVersion]
   BY ShedAssumption
<1>2. AddCattle(s, c) \in ShedRecord
   <2>1. [s.versionsMap EXCEPT ![c] = @ + 1] \in [Cattle -> Nat]
      BY DEF ShedRecord
   <2>2. PutCattle(s, c) \in ShedRecord
      BY <2>1 DEF PutCattle, ShedRecord
   <2>3. QED
      BY <1>1, <2>2 DEF AddCattle, ShedRecord
<1>3. RemoveCattle(s, c) \in ShedRecord
   <2>1. [s.versionsMap EXCEPT ![c] = IF @ > 0 THEN @ - 1 ELSE 0] \in [Cattle -> Nat]
      BY DEF ShedRecord
   <2>2. QED
      BY <2>1 DEF RemoveCattle, ShedRecord
<1>4. \A v \in AppVersion \cup {NoVersion} : SetDefaultVersion(s, v) \in ShedRecord
   BY DEF SetDefaultVersion, ShedRecord
<1>5. ASSUME NEW load \in SUBSET Cattle, NEW first \in load
      PROVE  [cattles        |-> load,
              versionsMap    |-> [d \in Cattle |-> IF d \in load THEN 1 ELSE 0],
              defaultVersion |-> IF s.defaultVersion = NoVersion
                                 THEN VersionOf[first] ELSE s.defaultVersion] \in ShedRecord
   BY <1>1 DEF ShedRecord
<1>6. \A load \in SUBSET Cattle : ReloadResults(s, load) \subseteq ShedRecord
   BY <1>5 DEF ReloadResults
<1>7. QED
   BY <1>2, <1>3, <1>4, <1>6 DEF EmptyShed, ShedRecord

\* What the members of the group do among themselves.
LEMMA GroupWires ==
    ASSUME GroupInv, WireType, NEW n \in Cattle,
           Join(n) \/ Started(n) \/ InstallView(n) \/ SendLocalLoad(n)
    PROVE  WireType'
<1>1. group \in Seq(Cattle) /\ chan \in ChanSpace /\ suspects \in [Cattle -> SUBSET Cattle]
   BY DEF GroupInv, GroupType, WireType, QueuesType
<1>2. chan' \in ChanSpace
   <2>1. CASE Join(n)
      BY <1>1, <2>1 DEF Join
   <2>2. CASE Started(n)
      <3>1. Msg("REGISTER", n) \in RanchMessage
         BY MessageTypes DEF GroupOp
      <3>2. \A to : Sent(chan, n, to, Msg("REGISTER", n)) \in ChanSpace
         BY <1>1, <3>1, SentQueues
      <3>3. QED
         BY <2>2, <3>2 DEF Started
   <2>3. CASE InstallView(n)
      <3>1. PICK departed :
               \E inHands \in SUBSET {s \in departed \ ranch[n].storing : chan[s][n] # <<>>} :
                  chan' = [s \in Cattle |->
                              IF s \in inHands THEN [chan[s] EXCEPT ![n] = <<Head(chan[s][n])>>]
                              ELSE IF s \in departed THEN [chan[s] EXCEPT ![n] = <<>>]
                              ELSE chan[s]]
         BY <2>3 DEF InstallView
      <3>2. PICK inHands \in SUBSET {s \in departed \ ranch[n].storing : chan[s][n] # <<>>} :
               chan' = [s \in Cattle |->
                           IF s \in inHands THEN [chan[s] EXCEPT ![n] = <<Head(chan[s][n])>>]
                           ELSE IF s \in departed THEN [chan[s] EXCEPT ![n] = <<>>]
                           ELSE chan[s]]
         BY <3>1
      <3>3. ASSUME NEW s \in Cattle
            PROVE  /\ [chan[s] EXCEPT ![n] = <<>>] \in [Cattle -> Seq(RanchMessage)]
                   /\ chan[s] \in [Cattle -> Seq(RanchMessage)]
         BY <1>1, EmptySeq DEF ChanSpace
      <3>4. ASSUME NEW s \in Cattle, chan[s][n] # <<>>
            PROVE  [chan[s] EXCEPT ![n] = <<Head(chan[s][n])>>]
                      \in [Cattle -> Seq(RanchMessage)]
         <4>1. Head(chan[s][n]) \in RanchMessage
            BY <1>1, <3>4, HeadTailProperties DEF ChanSpace
         <4>2. <<Head(chan[s][n])>> \in Seq(RanchMessage)
            BY <4>1, OneMessage
         <4>3. QED
            BY <3>3, <4>2
      <3>5. QED
         BY <3>2, <3>3, <3>4 DEF ChanSpace
   <2>4. CASE SendLocalLoad(n)
      <3>1. Msg("LOAD", n) \in RanchMessage
         BY MessageTypes DEF GroupOp
      <3>2. \A to : Sent(chan, n, to, Msg("LOAD", n)) \in ChanSpace
         BY <1>1, <3>1, SentQueues
      <3>3. QED
         BY <2>4, <3>2 DEF SendLocalLoad
   <2>5. QED
      BY <2>1, <2>2, <2>3, <2>4
<1>3. /\ suspects' = suspects /\ toTd' = toTd /\ syn' = syn /\ tdSuspects' = tdSuspects
      /\ shed' = shed /\ paused' = paused /\ managers' = managers /\ used' = used
   BY DEF Join, Started, InstallView, SendLocalLoad, groupVars, tdVars
<1>4. QED
   BY <1>2, <1>3 DEF WireType, QueuesType, DispatcherType, UsedType

\* What a member hears from another one.
LEMMA DeliverWires ==
    ASSUME GroupInv, WireType, NEW s \in Cattle, NEW m \in Cattle, Deliver(s, m)
    PROVE  WireType'
<1>1. chan[s][m] \in Seq(RanchMessage) /\ chan[s][m] # <<>>
   BY DEF Deliver, WireType, QueuesType, ChanSpace
<1>2. PICK msg \in RanchMessage, rest \in Seq(RanchMessage) :
         msg = Head(chan[s][m]) /\ rest = Tail(chan[s][m])
   BY <1>1, HeadTailProperties
<1>3. chan' = [chan EXCEPT ![s][m] = rest]
   BY <1>2 DEF Deliver
<1>4. chan' \in ChanSpace
   BY <1>3 DEF WireType, QueuesType, ChanSpace
<1>5. toTd' = toTd \/ toTd' = SentToTd(m, <<msg>>)
   BY <1>2 DEF Deliver
<1>6. toTd' \in ToTdSpace
   BY <1>5, OneMessage, AppendedToTd DEF WireType, QueuesType
<1>7. /\ suspects' = suspects /\ syn' = syn /\ tdSuspects' = tdSuspects
      /\ shed' = shed /\ paused' = paused /\ managers' = managers /\ used' = used
   BY DEF Deliver, groupVars, tdVars
<1>8. QED
   BY <1>4, <1>6, <1>7 DEF WireType, QueuesType, DispatcherType, UsedType

\* The loop over the addresses reports who is missing.
LEMMA ScanWires ==
    ASSUME GroupInv, WireType, NEW n \in Cattle,
           \/ ScanEnds(n) \/ ScanFails(n)
           \/ \E c \in Cattle : ScanMember(n, c) \/ StoreLoad(c, n)
    PROVE  WireType'
<1>1. \/ toTd' = toTd
      \/ \E c \in Cattle : toTd' = SentToTd(n, <<Msg("UNREGISTER", c)>>)
   BY DEF ScanEnds, ScanFails, ScanMember, StoreLoad
<1>2. \A c \in Cattle : Msg("UNREGISTER", c) \in RanchMessage
   BY MessageTypes DEF GroupOp
<1>3. toTd' \in ToTdSpace
   BY <1>1, <1>2, OneMessage, AppendedToTd DEF WireType, QueuesType
<1>4. /\ suspects' = suspects /\ chan' = chan /\ syn' = syn /\ tdSuspects' = tdSuspects
      /\ shed' = shed /\ paused' = paused /\ managers' = managers /\ used' = used
   BY DEF ScanEnds, ScanFails, ScanMember, StoreLoad, groupVars, tdVars
<1>5. QED
   BY <1>3, <1>4 DEF WireType, QueuesType, DispatcherType, UsedType

\* A view that is handled changes nothing on the wires.
LEMMA AcceptWires ==
    ASSUME WireType, NEW n \in Cattle, AcceptView(n)
    PROVE  WireType'
<1>1. /\ group' = group /\ views' = views /\ suspects' = suspects /\ chan' = chan
      /\ toTd' = toTd /\ syn' = syn /\ tdSuspects' = tdSuspects /\ shed' = shed
      /\ paused' = paused /\ used' = used
   BY DEF AcceptView, groupVars
<1>2. managers' = managers \/ managers' = ForgetTd(n)
   BY DEF AcceptView
<1>3. managers' \in [Cattle -> Cattle \cup {NoCattle}]
   BY <1>2, ForgetTdType DEF WireType, DispatcherType
<1>4. QED
   BY <1>1, <1>3 DEF WireType, QueuesType, DispatcherType, UsedType

\* What a member tells the dispatchers every ten seconds, and when it is asked.
LEMMA SpeakerWires ==
    ASSUME GroupInv, WireType, NEW n \in Cattle, SendRanchLoad(n) \/ AnswerSyn(n)
    PROVE  WireType'
<1>1. toTd \in ToTdSpace /\ ranch[n] \in RanchState
   BY DEF GroupInv, GroupType, WireType, QueuesType
<1>2. /\ chan' = chan /\ suspects' = suspects
      /\ tdSuspects' = tdSuspects /\ shed' = shed /\ paused' = paused /\ used' = used
      /\ managers' = managers
   BY DEF SendRanchLoad, AnswerSyn, groupVars, tdVars
<1>3. syn' = syn \/ syn' = syn \ {n}
   BY DEF SendRanchLoad, AnswerSyn, tdVars
<1>4. PICK load \in SUBSET Cattle : load = ranch[n].cattleLoad \cup {n}
   BY <1>1 DEF RanchState
<1>5. PICK msg \in RanchMessage : msg = [Msg("RANCH_LOAD", n) EXCEPT !.load = load]
   <2>1. Msg("RANCH_LOAD", n) \in RanchMessage
      BY MessageTypes DEF GroupOp
   <2>2. QED
      BY <2>1 DEF RanchMessage
<1>6. toTd' = toTd \/ toTd' = SentToTd(n, <<msg>>)
   BY <1>4, <1>5 DEF SendRanchLoad, AnswerSyn
<1>7. toTd' \in ToTdSpace
   BY <1>1, <1>6, OneMessage, AppendedToTd
<1>8. QED
   BY <1>2, <1>3, <1>7 DEF WireType, QueuesType, DispatcherType, UsedType

\* Commands, and departures that are announced.
LEMMA CommandWires ==
    ASSUME GroupInv, WireType, NEW n \in Cattle,
           \/ \E k \in Commands : Command(n, k)
           \/ Unregister(n) \/ Stop(n)
    PROVE  WireType'
<1>1. /\ group \in Seq(Cattle) /\ chan \in ChanSpace /\ toTd \in ToTdSpace
      /\ suspects \in [Cattle -> SUBSET Cattle]
      /\ managers \in [Cattle -> Cattle \cup {NoCattle}]
   BY DEF GroupInv, GroupType, WireType, QueuesType, DispatcherType
<1>2. chan' \in ChanSpace /\ toTd' \in ToTdSpace
   <2>1. ASSUME NEW k \in Commands, Command(n, k)
         PROVE  chan' \in ChanSpace /\ toTd' \in ToTdSpace
      <3>1. PICK msg \in RanchMessage : msg = [Msg(k.op, n) EXCEPT !.version = k.version]
         BY MessageTypes
      <3>2. Submit(n, msg, chan)
         BY <2>1, <3>1 DEF Command
      <3>3. QED
         BY <1>1, <3>2, SubmitType
   <2>2. CASE Unregister(n) \/ Stop(n)
      <3>1. PICK msg \in RanchMessage : msg = Msg("UNREGISTER", n)
         BY MessageTypes DEF GroupOp
      <3>2. PICK queues \in ChanSpace : queues = DroppedFor(n, chan)
         BY <1>1, DroppedQueues
      <3>3. Submit(n, msg, queues)
         BY <2>2, <3>1, <3>2 DEF Unregister, Stop
      <3>4. QED
         BY <1>1, <3>3, SubmitType
   <2>3. QED
      BY <2>1, <2>2
<1>3. suspects' \in [Cattle -> SUBSET Cattle]
   <2>1. suspects' = suspects \/ LeavesGroup(n, FALSE)
      BY DEF Command, Unregister, Stop, groupVars
   <2>2. QED
      BY <1>1, <2>1, LeavesGroupType
<1>4. managers' \in [Cattle -> Cattle \cup {NoCattle}]
   <2>1. managers' = managers \/ managers' = ForgetTd(n)
      BY DEF Command, Unregister, Stop, tdVars
   <2>2. QED
      BY <1>1, <2>1, ForgetTdType
<1>5. UsedType'
   <2>1. Happens("commands", MaxCommands) \/ Happens("stops", MaxStops)
      BY DEF Command, Unregister, Stop
   <2>2. QED
      BY <2>1, HappensType DEF WireType
<1>6. syn' = syn /\ tdSuspects' = tdSuspects /\ shed' = shed /\ paused' = paused
   BY DEF Command, Unregister, Stop, tdVars
<1>7. QED
   BY <1>2, <1>3, <1>4, <1>5, <1>6 DEF WireType, QueuesType, DispatcherType

\* A crash only takes messages away from the wires.
LEMMA CrashWires ==
    ASSUME GroupInv, WireType, NEW n \in Cattle, Crash(n)
    PROVE  WireType'
<1>1. chan' \in ChanSpace
   BY DroppedQueues DEF Crash, WireType, QueuesType
<1>2. toTd' \in ToTdSpace
   <2>1. PICK k \in 0 .. Len(toTd[n]) : toTd' = [toTd EXCEPT ![n] = SubSeq(@, 1, k)]
      BY DEF Crash
   <2>2. toTd[n] \in Seq(RanchMessage)
      BY DEF WireType, QueuesType, ToTdSpace
   <2>3. Len(toTd[n]) \in Nat
      BY <2>2, LenProperties
   <2>4. \A i \in 1 .. k : toTd[n][i] \in RanchMessage
      BY <2>2, <2>3, ElementOfSeq
   <2>5. SubSeq(toTd[n], 1, k) \in Seq(RanchMessage)
      BY <2>3, <2>4, SubSeqProperties
   <2>6. QED
      BY <2>1, <2>5 DEF WireType, QueuesType, ToTdSpace
<1>3. suspects' \in [Cattle -> SUBSET Cattle]
   BY LeavesGroupType DEF Crash, WireType, QueuesType
<1>4. UsedType'
   BY HappensType DEF Crash, WireType
<1>5. /\ tdSuspects' \subseteq Cattle
      /\ syn' = syn /\ shed' = shed /\ paused' = paused /\ managers' = managers
   BY DEF Crash, WireType, DispatcherType
<1>6. QED
   BY <1>1, <1>2, <1>3, <1>4, <1>5 DEF WireType, QueuesType, DispatcherType

\* What a member does when it is told that another one failed.
LEMMA SuspectWires ==
    ASSUME GroupInv, WireType, NEW m \in Cattle, NEW s \in Cattle, Suspect(m, s)
    PROVE  WireType'
<1>1. /\ group \in Seq(Cattle) /\ chan \in ChanSpace /\ toTd \in ToTdSpace
      /\ suspects \in [Cattle -> SUBSET Cattle]
      /\ managers \in [Cattle -> Cattle \cup {NoCattle}]
   BY DEF GroupInv, GroupType, WireType, QueuesType, DispatcherType
<1>2. /\ Msg("UNREGISTER", s) \in RanchMessage /\ Msg("REGISTER", m) \in RanchMessage
      /\ Msg("COORDINATOR", m) \in RanchMessage
   BY MessageTypes DEF GroupOp
<1>3. chan' \in ChanSpace
   <2>1. \/ chan' = chan \/ chan' = DroppedFor(m, chan)
         \/ \E to : chan' = [chan EXCEPT ![m] = [c \in Cattle |->
                       IF c \in to THEN Append(chan[m][c], Msg("COORDINATOR", m)) ELSE chan[m][c]]]
      BY DEF Suspect, SuspectAsCoordinator, SuspectTakesOver, SuspectIgnored
   <2>2. ASSUME NEW to
         PROVE  [chan EXCEPT ![m] = [c \in Cattle |->
                    IF c \in to THEN Append(chan[m][c], Msg("COORDINATOR", m)) ELSE chan[m][c]]]
                \in ChanSpace
      <3>1. \A c \in Cattle : Append(chan[m][c], Msg("COORDINATOR", m)) \in Seq(RanchMessage)
         BY <1>1, <1>2, AppendProperties DEF ChanSpace
      <3>2. QED
         BY <1>1, <3>1 DEF ChanSpace
   <2>3. DroppedFor(m, chan) \in ChanSpace
      BY <1>1, DroppedQueues
   <2>4. CASE chan' = chan \/ chan' = DroppedFor(m, chan)
      BY <1>1, <2>3, <2>4
   <2>5. ASSUME NEW to,
                chan' = [chan EXCEPT ![m] = [c \in Cattle |->
                    IF c \in to THEN Append(chan[m][c], Msg("COORDINATOR", m)) ELSE chan[m][c]]]
         PROVE  chan' \in ChanSpace
      BY <2>2, <2>5
   <2>6. QED
      BY <2>1, <2>4, <2>5
<1>4. toTd' \in ToTdSpace
   <2>1. \/ toTd' = toTd
         \/ toTd' = SentToTd(m, <<Msg("UNREGISTER", s)>>)
         \/ toTd' = [toTd EXCEPT ![m] = Append(@, Msg("UNREGISTER", s))]
         \/ toTd' = [toTd EXCEPT ![m] = Append(@, Msg("REGISTER", m))]
      BY DEF Suspect, SuspectAsCoordinator, SuspectTakesOver, SuspectIgnored
   <2>2. \A msg \in RanchMessage : Append(toTd[m], msg) \in Seq(RanchMessage)
      BY <1>1, AppendProperties DEF ToTdSpace
   <2>3. \A msg \in RanchMessage : [toTd EXCEPT ![m] = Append(@, msg)] \in ToTdSpace
      BY <1>1, <2>2 DEF ToTdSpace
   <2>4. SentToTd(m, <<Msg("UNREGISTER", s)>>) \in ToTdSpace
      BY <1>1, <1>2, OneMessage, AppendedToTd
   <2>5. /\ [toTd EXCEPT ![m] = Append(@, Msg("UNREGISTER", s))] \in ToTdSpace
         /\ [toTd EXCEPT ![m] = Append(@, Msg("REGISTER", m))] \in ToTdSpace
      <3>1. PICK lost \in RanchMessage, taken \in RanchMessage :
               lost = Msg("UNREGISTER", s) /\ taken = Msg("REGISTER", m)
         BY <1>2
      <3>2. QED
         BY <2>3, <3>1
   <2>6. QED
      BY <1>1, <2>1, <2>4, <2>5
<1>5. suspects' \in [Cattle -> SUBSET Cattle]
   <2>1. \/ LeavesGroup(m, FALSE)
         \/ suspects' = [suspects EXCEPT ![m] = @ \ {s}]
      BY DEF Suspect, SuspectAsCoordinator, SuspectTakesOver, SuspectIgnored
   <2>2. QED
      BY <1>1, <2>1, LeavesGroupType
<1>6. managers' \in [Cattle -> Cattle \cup {NoCattle}]
   <2>1. managers' = managers \/ managers' = ForgetTd(m)
      BY DEF Suspect, SuspectAsCoordinator, SuspectTakesOver, SuspectIgnored, tdVars
   <2>2. QED
      BY <1>1, <2>1, ForgetTdType
<1>7. /\ syn' = syn /\ tdSuspects' = tdSuspects /\ shed' = shed /\ paused' = paused
      /\ used' = used
   BY DEF Suspect, SuspectAsCoordinator, SuspectTakesOver, SuspectIgnored, tdVars
<1>8. QED
   BY <1>3, <1>4, <1>5, <1>6, <1>7 DEF WireType, QueuesType, DispatcherType, UsedType

\* The dispatcher.
LEMMA DispatcherWires ==
    ASSUME GroupInv, WireType,
           \/ \E n \in Cattle : Dispatch(n) \/ SuspectManager(n)
           \/ RestartDispatcher
    PROVE  WireType'
<1>1. /\ toTd \in ToTdSpace /\ shed \in ShedRecord
      /\ managers \in [Cattle -> Cattle \cup {NoCattle}]
   BY DEF WireType, QueuesType, DispatcherType
<1>2. CASE RestartDispatcher
   <2>1. EmptyShed \in ShedRecord
      BY DEF EmptyShed, ShedRecord
   <2>2. UsedType'
      BY <1>2, HappensType DEF RestartDispatcher, WireType
   <2>3. chan' = chan /\ suspects' = suspects /\ toTd' \in ToTdSpace
      BY <1>2, EmptySeq DEF RestartDispatcher, groupVars, ToTdSpace
   <2>4. DispatcherType'
      BY <1>2, <2>1 DEF RestartDispatcher, DispatcherType
   <2>5. QED
      BY <2>2, <2>3, <2>4 DEF WireType, QueuesType
<1>3. ASSUME NEW n \in Cattle, SuspectManager(n)
      PROVE  WireType'
   <2>1. shed' \in ShedRecord
      <3>1. managers[n] # NoCattle => managers[n] \in Cattle
         BY <1>1
      <3>2. QED
         BY <1>1, <1>3, <3>1, ShedOperations DEF SuspectManager
   <2>2. managers' \in [Cattle -> Cattle \cup {NoCattle}]
      BY <1>1, <1>3, ForgetTdType DEF SuspectManager
   <2>3. /\ chan' = chan /\ suspects' = suspects /\ toTd' = toTd /\ syn' = syn
         /\ paused' = paused /\ used' = used /\ tdSuspects' = tdSuspects \ {n}
      BY <1>3 DEF SuspectManager, groupVars
   <2>4. QED
      BY <2>1, <2>2, <2>3 DEF WireType, QueuesType, DispatcherType, UsedType
<1>4. ASSUME NEW n \in Cattle, Dispatch(n)
      PROVE  WireType'
   <2>1. PICK msg \in RanchMessage, rest \in Seq(RanchMessage) :
            msg = Head(toTd[n]) /\ rest = Tail(toTd[n])
      BY <1>1, <1>4, HeadTailProperties DEF Dispatch, ToTdSpace
   <2>2. toTd' \in ToTdSpace
      BY <1>1, <1>4, <2>1 DEF Dispatch, ToTdSpace
   <2>3. managers' \in [Cattle -> Cattle \cup {NoCattle}]
      <3>1. msg.cattle \in Cattle
         BY DEF RanchMessage
      <3>2. managers' = [managers EXCEPT ![n] = msg.cattle]
         BY <1>4, <2>1 DEF Dispatch
      <3>3. QED
         BY <1>1, <3>1, <3>2
   <2>4. shed' \in ShedRecord
      <3>1. msg.cattle \in Cattle /\ msg.load \in SUBSET Cattle
            /\ msg.version \in AppVersion \cup {NoVersion}
         BY DEF RanchMessage
      <3>2. /\ {AddCattle(shed, msg.cattle)} \subseteq ShedRecord
            /\ {RemoveCattle(shed, msg.cattle)} \subseteq ShedRecord
            /\ ReloadResults(shed, msg.load) \subseteq ShedRecord
            /\ {SetDefaultVersion(shed, msg.version)} \subseteq ShedRecord
            /\ {shed} \subseteq ShedRecord
         BY <1>1, <3>1, ShedOperations
      <3>3. shed' \in CASE msg.op = "REGISTER"   -> {AddCattle(shed, msg.cattle)}
                        [] msg.op = "UNREGISTER" -> {RemoveCattle(shed, msg.cattle)}
                        [] msg.op = "RANCH_LOAD" -> ReloadResults(shed, msg.load)
                        [] msg.op = "APP_SET_DEFAULT_VERSION" ->
                               {SetDefaultVersion(shed, msg.version)}
                        [] OTHER -> {shed}
         BY <1>4, <2>1 DEF Dispatch
      <3>4. QED
         BY <3>2, <3>3
   <2>5. /\ chan' = chan /\ suspects' = suspects /\ syn' = syn /\ used' = used
         /\ tdSuspects' = tdSuspects /\ paused' \in BOOLEAN
      BY <1>4 DEF Dispatch, groupVars
   <2>6. QED
      BY <2>2, <2>3, <2>4, <2>5 DEF WireType, QueuesType, DispatcherType, UsedType
<1>5. QED
   BY <1>2, <1>3, <1>4

\* Every variable of a group and of its dispatcher keeps its type.
THEOREM RanchTypeCorrect == Spec => []TypeOK
<1>1. Init => WireType
   <2> SUFFICES ASSUME Init PROVE WireType
      OBVIOUS
   <2>1. chan \in ChanSpace /\ toTd \in ToTdSpace /\ suspects \in [Cattle -> SUBSET Cattle]
      BY EmptySeq DEF Init, ChanSpace, ToTdSpace
   <2>2. DispatcherType
      BY DEF Init, DispatcherType, EmptyShed, ShedRecord
   <2>3. UsedType
      BY RanchAssumption DEF Init, UsedType
   <2>4. QED
      BY <2>1, <2>2, <2>3 DEF WireType, QueuesType
<1>2. GroupInv /\ WireType /\ [Next]_vars => WireType'
   <2> SUFFICES ASSUME GroupInv, WireType, [Next]_vars PROVE WireType'
      OBVIOUS
   <2>1. CASE UNCHANGED vars
      BY <2>1 DEF vars, WireType, QueuesType, DispatcherType, UsedType
   <2>2. ASSUME NEW n \in Cattle,
                \/ Join(n) \/ Started(n) \/ InstallView(n) \/ AcceptView(n)
                \/ SendRanchLoad(n) \/ SendLocalLoad(n) \/ AnswerSyn(n)
                \/ Unregister(n) \/ Stop(n) \/ Crash(n)
                \/ \E k \in Commands : Command(n, k)
         PROVE  WireType'
      BY <2>2, GroupWires, AcceptWires, SpeakerWires, CommandWires, CrashWires
   <2>3. QED
      BY <2>1, <2>2, DeliverWires, SuspectWires, DispatcherWires, ScanWires
         DEF Next, Views, Messages, Reports
<1>3. GroupInv /\ WireType => TypeOK
   BY DEF GroupInv, GroupType, WireType, QueuesType, DispatcherType, UsedType, ChanSpace,
          ToTdSpace, TypeOK
<1>4. QED
   BY <1>1, <1>2, <1>3, GroupInvariant, PTL DEF Spec

=============================================================================
