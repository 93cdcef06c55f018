---------------------------- MODULE Console_proofs ----------------------------
(***************************************************************************)
(* What the pages of the console promise their readers, for any number of  *)
(* approvals, requests, contexts and messages.                             *)
(***************************************************************************)
EXTENDS CatalogApproval, ApprovalInbox, FiniteSetTheorems, SequenceTheorems, WellFoundedInduction, TLAPS

InboxSpec == IBInit /\ [][InboxNext]_ibVars
CatalogSpec == CAInit /\ [][CANext]_caVars

-----------------------------------------------------------------------------
(* The inbox. *)

(***************************************************************************)
(* What the cursor of a listing stands for: everything steady that is not   *)
(* before it has been shown, and nothing that is before it.                *)
(***************************************************************************)
Joined(cursor, lane) ==
  cursor # NoCursor =>
    /\ cursor.head \in 0..Len(made) /\ cursor.before \in Nat
    /\ steady \subseteq Listable(lane, cursor.head)
    /\ \A p \in seen : p >= cursor.before
    /\ \A p \in steady : p >= cursor.before => p \in seen

(* It is bound to the authority its page was read under.                    *)
BoundTo(shown) ==
  shown.cursor # NoCursor => shown.stamp = <<shown.cursor.binding[1], shown.cursor.binding[2]>>

InboxInv ==
  /\ made \in Seq([lane : Lanes, shown : BOOLEAN]) /\ seen \subseteq Nat
  /\ Joined(inbox.cursor, inbox.lane) /\ Joined(asking.prev.cursor, asking.lane)
  /\ BoundTo(inbox) /\ BoundTo(asking.prev)

-----------------------------------------------------------------------------
(* Some numbers have a least, and those up to a bound a greatest.           *)
LEMMA LeastOne ==
  ASSUME NEW S \in SUBSET Nat, S # {}
  PROVE  \E x \in S : \A y \in S : x <= y
<1>1. PICK x \in S : \A y \in S : ~(<<y, x>> \in OpToRel(<, Nat))
  BY NatLessThanWellFounded, WFMin
<1>2. ASSUME NEW y \in S PROVE x <= y
  <2>1. y \in Nat /\ x \in Nat
    OBVIOUS
  <2>2. CASE y < x
    <3>1. <<y, x>> \in {ss \in Nat \X Nat : ss[1] < ss[2]}
      BY <2>1, <2>2
    <3> QED BY <1>1, <3>1 DEF OpToRel
  <2> QED BY <2>1, <2>2
<1> QED BY <1>2

LEMMA GreatestOne ==
  ASSUME NEW n \in Nat, NEW S \in SUBSET (1..n), S # {}
  PROVE  \E x \in S : \A y \in S : y <= x
<1> DEFINE B == {b \in Nat : \A y \in S : y <= b}
<1>1. n \in B
  OBVIOUS
<1>2. PICK b \in B : \A c \in B : b <= c
  BY <1>1, LeastOne
<1>3. b \in S
  <2> SUFFICES ASSUME b \notin S PROVE FALSE
    OBVIOUS
  <2>1. b \in Nat /\ \A y \in S : y \in Nat /\ 1 <= y /\ y <= b /\ y # b
    BY <1>2
  <2>2. b - 1 \in Nat /\ \A y \in S : y <= b - 1
    <3>1. PICK y \in S : TRUE
      OBVIOUS
    <3> HIDE DEF B
    <3> QED BY <2>1, <3>1
  <2>3. b - 1 \in B
    BY <2>2
  <2> QED BY <1>2, <2>3
<1> QED BY <1>2, <1>3

(* A page is the newest of what is left; it is all of it if that is no more *)
(* than a page, and else all that is not older than the oldest on it.      *)
LEMMA NewestOnes ==
  ASSUME NEW n \in Nat, NEW S \in SUBSET (1..n), NEW k \in Nat \ {0}
  PROVE  /\ TheNewest(k, S) \subseteq S
         /\ Cardinality(S) <= k => TheNewest(k, S) = S
         /\ S # {} =>
              /\ Min(TheNewest(k, S)) \in TheNewest(k, S)
              /\ \A p \in TheNewest(k, S) : Min(TheNewest(k, S)) <= p
              /\ \A p \in S : p >= Min(TheNewest(k, S)) => p \in TheNewest(k, S)
<1> DEFINE Above(p) == {q \in S : q > p}
           T == TheNewest(k, S)
<1>fin. IsFiniteSet(S) /\ S \subseteq Nat
  <2>1. IsFiniteSet(1..n)
    BY FS_Interval
  <2>2. IsFiniteSet(S)
    BY <2>1, FS_Subset
  <2>3. S \subseteq Nat
    OBVIOUS
  <2> QED BY <2>2, <2>3
<1>above. \A p : IsFiniteSet(Above(p)) /\ Cardinality(Above(p)) \in Nat
  BY <1>fin, FS_Subset, FS_CardinalityType
<1>1. T = {p \in S : Cardinality(Above(p)) < k}
  BY DEF TheNewest
<1>2. ASSUME Cardinality(S) <= k PROVE T = S
  <2>1. ASSUME NEW p \in S PROVE Cardinality(Above(p)) < k
    <3>1. Above(p) \in SUBSET S /\ p \notin Above(p)
      OBVIOUS
    <3>2. Cardinality(Above(p)) <= Cardinality(S) /\ Cardinality(Above(p)) # Cardinality(S)
      BY <1>fin, <2>1, <3>1, FS_Subset
    <3>3. Cardinality(S) \in Nat
      BY <1>fin, FS_CardinalityType
    <3> HIDE DEF Above
    <3> QED BY <1>2, <1>above, <3>2, <3>3
  <2> QED BY <1>1, <2>1
<1>3. ASSUME S # {}
      PROVE  /\ Min(T) \in T /\ \A p \in T : Min(T) <= p
             /\ \A p \in S : p >= Min(T) => p \in T
  <2>1. PICK x \in S : \A y \in S : y <= x
    BY <1>3, GreatestOne
  <2>2. Above(x) = {}
    <3>1. ASSUME NEW q \in S, q > x PROVE FALSE
      <4>1. q \in Nat /\ x \in Nat /\ q <= x
        BY <1>fin, <2>1
      <4> QED BY <3>1, <4>1
    <3> QED BY <3>1
  <2>3. x \in T
    <3>1. Cardinality(Above(x)) = 0
      BY <2>2, FS_EmptySet
    <3> HIDE DEF Above
    <3> QED BY <1>1, <3>1
  <2>4. T \in SUBSET Nat
    <3> HIDE DEF T, Above
    <3> QED BY <1>fin, <1>1
  <2>5. Min(T) \in T /\ \A p \in T : Min(T) <= p
    <3>1. \E y \in T : \A p \in T : y <= p
      BY <2>3, <2>4, LeastOne
    <3> HIDE DEF T
    <3> QED BY <3>1 DEF Min
  <2>6. ASSUME NEW p \in S, p >= Min(T) PROVE p \in T
    <3>1. PICK m \in T : m = Min(T)
      BY <2>5
    <3>2. Above(p) \in SUBSET Above(m)
      <4>1. p \in Nat /\ m \in Nat /\ p >= m /\ \A q \in S : q \in Nat
        BY <1>fin, <2>4, <2>6, <3>1
      <4>2. \A q \in S : q > p => q > m
        BY <4>1
      <4> QED BY <4>2
    <3>3. Cardinality(Above(m)) < k
      BY <1>1, <3>1
    <3>4. Cardinality(Above(p)) <= Cardinality(Above(m))
      BY <1>above, <3>2, FS_Subset
    <3> HIDE DEF Above
    <3> QED BY <1>1, <1>above, <3>3, <3>4
  <2> QED BY <2>5, <2>6
<1> QED BY <1>1, <1>2, <1>3

(* What the server answers to the controller's question.                   *)
LEMMA PageListed ==
  ASSUME InboxInv, IBList
  PROVE  LET page == List(wb.n, asking.lane, asking.prev.cursor) IN
         /\ page.items \subseteq Nat
         /\ Joined(inbox.cursor, inbox.lane)' /\ BoundTo(inbox)'
         /\ Follows(asking) => page.items \cap seen = {} /\ inbox'.stamp = asking.prev.stamp
         /\ page.cursor = NoCursor => steady' \subseteq seen'
<1> DEFINE c == asking.prev.cursor
           lane == asking.lane
           head == IF c = NoCursor THEN Len(made) ELSE c.head
           S == {p \in Listable(lane, head) : c = NoCursor \/ p < c.before}
           items == TheNewest(Limit, S)
           next == CursorAfter(S, head, lane)
<1>1. /\ inbox'.items = items /\ inbox'.cursor = next /\ inbox'.lane = lane
      /\ inbox'.stamp = <<session.n, session.member>>
      /\ seen' = (IF c # NoCursor THEN seen \cup items ELSE items)
      /\ steady' = IF c # NoCursor THEN steady ELSE Listable(lane, Len(made))
      /\ UNCHANGED made
      /\ c # NoCursor => c.binding = Binding(lane)
  BY DEF IBList, List, Follows
<1>2. List(wb.n, asking.lane, asking.prev.cursor).items = items /\ List(wb.n, asking.lane, asking.prev.cursor).cursor = next
  BY DEF List
<1>head. head \in 0..Len(made) /\ Len(made) \in Nat
  BY DEF InboxInv, Joined
<1>set. S \in SUBSET (1..head)
  BY DEF Listable
<1>newest. /\ items \subseteq S
           /\ Cardinality(S) <= Limit => items = S
           /\ S # {} => /\ Min(items) \in items
                        /\ \A p \in items : Min(items) <= p
                        /\ \A p \in S : p >= Min(items) => p \in items
  <2>1. head \in Nat /\ Limit \in Nat \ {0}
    BY <1>head, ListingAssumption
  <2> HIDE DEF head, S
  <2> QED BY <1>set, <2>1, NewestOnes
<1>next. next = IF Cardinality(S) > Limit THEN [head |-> head, before |-> Min(items), binding |-> Binding(lane)] ELSE NoCursor
  BY DEF CursorAfter
<1>listable. steady' \subseteq Listable(lane, head)
  BY <1>1 DEF InboxInv, Joined
<1>count. Cardinality(S) \in Nat /\ (Cardinality(S) > Limit => S # {})
  <2> HIDE DEF S, head
  <2>1. IsFiniteSet(S)
    <3>1. IsFiniteSet(1..head)
      BY <1>head, FS_Interval
    <3> QED BY <1>set, <3>1, FS_Subset
  <2> QED BY <2>1, FS_CardinalityType, FS_EmptySet, ListingAssumption
<1>before. /\ \A p \in S : c # NoCursor => p < c.before
           /\ \A p \in Listable(lane, head) : p \in S \/ (c # NoCursor /\ p >= c.before)
           /\ c # NoCursor => c.before \in Nat
  BY <1>set, <1>head DEF InboxInv, Joined, Listable
<1>older. c # NoCursor => (\A p \in seen : p >= c.before) /\ (\A p \in steady : p >= c.before => p \in seen)
  BY DEF InboxInv, Joined
<1>nat. items \subseteq Nat /\ S \subseteq Nat /\ seen \subseteq Nat
  BY <1>set, <1>newest, <1>head DEF InboxInv
<1>same. \A l, h : Listable(l, h)' = Listable(l, h)
  BY <1>1 DEF Listable
<1> HIDE DEF c, lane, head, S, items, next
<1>3. c # NoCursor => items \cap seen = {}
  BY <1>newest, <1>before, <1>older, <1>nat
<1>4. c # NoCursor => inbox'.stamp = asking.prev.stamp
  <2>1. c # NoCursor => asking.prev.stamp = <<c.binding[1], c.binding[2]>>
    BY DEF InboxInv, BoundTo, c
  <2> QED BY <1>1, <2>1 DEF Binding
<1>5. ASSUME next # NoCursor
      PROVE  /\ \A p \in seen' : p >= next.before
             /\ \A p \in steady' : p >= next.before => p \in seen'
             /\ next.head = head /\ next.before \in Nat /\ next.binding = Binding(lane)
  <2>1. Cardinality(S) > Limit
    BY <1>5, <1>next
  <2>2. next.before = Min(items) /\ S # {} /\ next.head = head /\ next.binding = Binding(lane)
    BY <1>next, <1>count, <2>1
  <2>3. PICK b \in Nat : b = next.before
    BY <1>newest, <1>nat, <2>2
  <2>4. b \in S /\ (\A p \in items : p >= b) /\ \A p \in S : p >= b => p \in items
    BY <1>newest, <1>nat, <2>2, <2>3
  <2>5. c # NoCursor => b < c.before
    BY <1>before, <2>4
  <2>6. ASSUME NEW p \in seen' PROVE p >= b
    <3>1. CASE p \in items
      BY <2>4, <3>1
    <3>2. CASE c # NoCursor /\ p \in seen
      <4>1. p \in Nat /\ p >= c.before
        BY <1>nat, <1>older, <3>2
      <4> QED BY <1>before, <2>5, <3>2, <4>1
    <3> QED BY <1>1, <3>1, <3>2
  <2>7. ASSUME NEW p \in steady', p >= b PROVE p \in seen'
    <3>1. CASE p \in S
      BY <1>1, <2>4, <2>7, <3>1
    <3>2. CASE c # NoCursor /\ p >= c.before
      BY <1>1, <1>older, <3>2
    <3> QED BY <1>listable, <1>before, <3>1, <3>2
  <2> QED BY <2>2, <2>3, <2>6, <2>7
<1>6. ASSUME next = NoCursor PROVE steady' \subseteq seen'
  <2>1. Cardinality(S) <= Limit
    <3>1. ASSUME Cardinality(S) > Limit PROVE FALSE
      <4>1. next.head = head /\ next.binding = Binding(lane)
        BY <1>next, <3>1
      <4> QED BY <1>6, <4>1 DEF NoCursor, Binding
    <3> QED BY <1>count, <3>1, ListingAssumption
  <2>2. items = S
    BY <1>newest, <2>1
  <2>3. ASSUME NEW p \in steady' PROVE p \in seen'
    <3>1. CASE p \in S
      BY <1>1, <2>2, <3>1
    <3>2. CASE c # NoCursor /\ p >= c.before
      BY <1>1, <1>older, <3>2
    <3> QED BY <1>listable, <1>before, <3>1, <3>2
  <2> QED BY <2>3
<1>7. Joined(inbox.cursor, inbox.lane)'
  <2>1. PICK n, l : n = next /\ l = lane
    OBVIOUS
  <2> SUFFICES ASSUME n # NoCursor
               PROVE  /\ n.head \in 0..Len(made') /\ n.before \in Nat
                      /\ steady' \subseteq Listable(l, n.head)'
                      /\ \A p \in seen' : p >= n.before
                      /\ \A p \in steady' : p >= n.before => p \in seen'
    BY <1>1, <2>1 DEF Joined
  <2>2. n.head = head /\ n.before = next.before
    BY <1>5, <2>1
  <2>3. Listable(l, n.head)' = Listable(l, n.head)
    BY <1>same
  <2> QED BY <1>1, <1>5, <1>head, <1>listable, <2>1, <2>2, <2>3
<1>8. BoundTo(inbox)'
  <2> SUFFICES ASSUME next # NoCursor PROVE inbox'.stamp = <<next.binding[1], next.binding[2]>>
    BY <1>1 DEF BoundTo
  <2> QED BY <1>1, <1>5 DEF Binding
<1> QED BY <1>1, <1>2, <1>3, <1>4, <1>6, <1>7, <1>8, <1>nat DEF Follows, c

(* A cleared page has no cursor.                                            *)
LEMMA Cleared ==
  ASSUME NEW status
  PROVE  /\ IBBlank(status).cursor = NoCursor /\ IBBlank(status).status = status
         /\ NotAsking.prev.cursor = NoCursor
BY DEF IBBlank, NotAsking

LEMMA InboxStart == IBInit => InboxInv
<1> SUFFICES ASSUME IBInit PROVE InboxInv
  OBVIOUS
<1>1. PICK n \in 0..MaxMade : \E lanes \in [1..n -> Lanes] : made = [p \in 1..n |-> [lane |-> lanes[p], shown |-> TRUE]]
  BY DEF IBInit
<1>2. PICK lanes \in [1..n -> Lanes] : made = [p \in 1..n |-> [lane |-> lanes[p], shown |-> TRUE]]
  BY <1>1
<1>3. made \in Seq([lane : Lanes, shown : BOOLEAN])
  <2>1. n \in Nat
    BY ListingAssumption
  <2> DEFINE Made == [lane : Lanes, shown : BOOLEAN]
  <2>2. made \in [1..n -> Made]
    <3>1. \A p \in 1..n : lanes[p] \in Lanes
      OBVIOUS
    <3> QED BY <1>2, <3>1
  <2> HIDE DEF Made
  <2>3. made \in Seq(Made)
    BY <2>1, <2>2
  <2> QED BY <2>3 DEF Made
<1>4. inbox.cursor = NoCursor /\ asking.prev.cursor = NoCursor /\ seen = {}
  BY DEF IBInit, IBBlank, NotAsking
<1> QED BY <1>3, <1>4 DEF InboxInv, Joined, BoundTo

(* A listing that goes on elsewhere unchanged stays joined.                 *)
LEMMA JoinedStays ==
  ASSUME made \in Seq([lane : Lanes, shown : BOOLEAN]), NEW cursor, NEW lane, Joined(cursor, lane),
         steady' \subseteq steady, seen' = seen, Len(made') \in Nat, Len(made) <= Len(made'),
         \A p \in 1..Len(made) : p \in steady' => made'[p] = made[p]
  PROVE  Joined(cursor, lane)'
<1> SUFFICES ASSUME cursor # NoCursor
             PROVE  /\ cursor.head \in 0..Len(made') /\ cursor.before \in Nat
                    /\ steady' \subseteq Listable(lane, cursor.head)'
                    /\ \A p \in seen' : p >= cursor.before
                    /\ \A p \in steady' : p >= cursor.before => p \in seen'
  BY DEF Joined
<1>1. /\ cursor.head \in 0..Len(made) /\ cursor.before \in Nat /\ Len(made) \in Nat
      /\ steady \subseteq Listable(lane, cursor.head)
      /\ \A p \in seen : p >= cursor.before
      /\ \A p \in steady : p >= cursor.before => p \in seen
  BY DEF Joined
<1>2. ASSUME NEW p \in steady' PROVE p \in Listable(lane, cursor.head)'
  <2>1. p \in 1..cursor.head /\ made[p].lane = lane /\ made[p].shown
    BY <1>1 DEF Listable
  <2>2. p \in 1..Len(made)
    BY <1>1, <2>1
  <2>3. made'[p] = made[p]
    BY <2>2
  <2> QED BY <2>1, <2>3 DEF Listable
<1> QED BY <1>1, <1>2

LEMMA InboxStep == InboxInv /\ [InboxNext]_ibVars => InboxInv'
<1> SUFFICES ASSUME InboxInv, [InboxNext]_ibVars PROVE InboxInv'
  OBVIOUS
<1>type. made \in Seq([lane : Lanes, shown : BOOLEAN]) /\ seen \subseteq Nat /\ Len(made) \in Nat
  BY DEF InboxInv
<1>kept. ASSUME UNCHANGED <<made, seen, steady>>
         PROVE  \A c, l : Joined(c, l) => Joined(c, l)'
  BY <1>kept DEF Joined, Listable
<1>1. ASSUME NEW lane, NEW prev, Load(lane, prev), Joined(prev.cursor, lane), BoundTo(prev)
      PROVE  InboxInv'
  <2>1. /\ inbox'.cursor = NoCursor /\ asking'.prev = prev /\ asking'.lane = lane /\ UNCHANGED made
        /\ IF prev.cursor = NoCursor THEN seen' = {} ELSE UNCHANGED <<seen, steady>>
    BY <1>1 DEF Load, Forget, IBBlank
  <2>2. Joined(inbox.cursor, inbox.lane)' /\ BoundTo(inbox)'
    BY <2>1 DEF Joined, BoundTo
  <2>3. Joined(prev.cursor, lane)'
    <3>1. CASE prev.cursor = NoCursor
      BY <3>1 DEF Joined
    <3>2. CASE prev.cursor # NoCursor
      BY <1>1, <1>kept, <2>1, <3>2
    <3> QED BY <3>1, <3>2
  <2>4. Joined(asking.prev.cursor, asking.lane)' /\ BoundTo(asking.prev)'
    BY <1>1, <2>1, <2>3 DEF Joined, BoundTo
  <2> QED BY <1>type, <2>1, <2>2, <2>4 DEF InboxInv
<1>2. ASSUME NEW lane, IBReload(lane) PROVE InboxInv'
  <2>1. PICK prev : prev = IBBlank("loading")
    OBVIOUS
  <2>2. Joined(prev.cursor, lane) /\ BoundTo(prev)
    BY <2>1, Cleared DEF Joined, BoundTo
  <2> QED BY <1>1, <1>2, <2>1, <2>2 DEF IBReload
<1>3. CASE IBNext
  <2>1. PICK prev, lane : prev = inbox /\ lane = inbox.lane
    OBVIOUS
  <2> QED BY <1>1, <1>3, <2>1 DEF IBNext, InboxInv
<1>4. ASSUME inbox'.cursor = NoCursor, asking'.prev.cursor = NoCursor, Forget, UNCHANGED made
      PROVE  InboxInv'
  BY <1>4, <1>type DEF InboxInv, Joined, BoundTo, Forget
<1>5. CASE IBSuspend \/ IBSwitch \/ IBFails
  <2>1. inbox'.cursor = NoCursor /\ asking'.prev.cursor = NoCursor /\ Forget /\ UNCHANGED made
    BY <1>5 DEF IBSuspend, IBSwitch, IBFails, IBBlank, NotAsking
  <2> QED BY <1>4, <2>1
<1>6. ASSUME UNCHANGED <<made, seen, steady, inbox>>, asking'.prev = asking.prev, asking'.lane = asking.lane
      PROVE  InboxInv'
  BY <1>6, <1>kept DEF InboxInv, Joined, BoundTo, Listable
<1>7. CASE IBContextRead
  <2>1. CASE asking' = [asking EXCEPT !.phase = "list"] /\ UNCHANGED <<inbox, seen, steady>>
    <3>1. asking'.prev = asking.prev /\ asking'.lane = asking.lane /\ UNCHANGED made
      BY <1>7, <2>1 DEF IBContextRead
    <3> QED BY <1>6, <2>1, <3>1
  <2>2. ASSUME NEW status, asking' = NotAsking, Forget, inbox' = IBBlank(status) PROVE InboxInv'
    <3>1. inbox'.cursor = NoCursor /\ asking'.prev.cursor = NoCursor /\ UNCHANGED made
      BY <1>7, <2>2, Cleared DEF IBContextRead
    <3> QED BY <1>4, <2>2, <3>1
  <2> QED BY <1>7, <2>1, <2>2 DEF IBContextRead
<1>8. CASE IBList
  <2>1. asking'.prev.cursor = NoCursor /\ UNCHANGED made
    BY <1>8 DEF IBList, NotAsking, IBBlank
  <2>2. seen' \subseteq Nat
    BY <1>8, <1>type, PageListed DEF IBList
  <2>3. Joined(inbox.cursor, inbox.lane)' /\ BoundTo(inbox)'
    BY <1>8, PageListed
  <2> QED BY <1>type, <2>1, <2>2, <2>3 DEF InboxInv, Joined, BoundTo
<1>9. CASE Create
  <2>1. PICK lane \in Lanes : made' = Append(made, [lane |-> lane, shown |-> TRUE]) /\ UNCHANGED inboxVars
    BY <1>9 DEF Create
  <2>2. made' \in Seq([lane : Lanes, shown : BOOLEAN])
    BY <1>type, <2>1
  <2>3. Len(made') = Len(made) + 1 /\ \A p \in 1..Len(made) : made'[p] = made[p]
    BY <1>type, <2>1
  <2>4. \A c, l : Joined(c, l) => Joined(c, l)'
    <3>1. Len(made') \in Nat /\ Len(made) <= Len(made')
      BY <1>type, <2>3
    <3> QED BY <1>type, <2>1, <2>3, <3>1, JoinedStays DEF inboxVars
  <2> QED BY <1>type, <2>1, <2>2, <2>4 DEF InboxInv, Joined, BoundTo, inboxVars, Listable
<1>10. CASE Changes
  <2>1. PICK p \in 1..Len(made) : made' = [made EXCEPT ![p].shown = ~@] /\ steady' = steady \ {p} /\ UNCHANGED <<inbox, asking, seen>>
    BY <1>10 DEF Changes
  <2>2. made' \in Seq([lane : Lanes, shown : BOOLEAN]) /\ Len(made') = Len(made)
    <3>1. PICK row \in [lane : Lanes, shown : BOOLEAN] : row = [made[p] EXCEPT !.shown = ~@]
      <4>1. made[p] \in [lane : Lanes, shown : BOOLEAN]
        BY <1>type, <2>1, ElementOfSeq
      <4> QED BY <4>1
    <3>2. made' = [made EXCEPT ![p] = row]
      BY <2>1, <3>1
    <3> QED BY <1>type, <2>1, <3>2, ExceptSeq
  <2>3. \A q \in 1..Len(made) : q # p => made'[q] = made[q]
    BY <1>type, <2>1
  <2>4. \A c, l : Joined(c, l) => Joined(c, l)'
    <3>1. Len(made') \in Nat /\ Len(made) <= Len(made')
      BY <1>type, <2>2
    <3> QED BY <1>type, <2>1, <2>3, <3>1, JoinedStays
  <2> QED BY <1>type, <2>1, <2>2, <2>4 DEF InboxInv, Joined, BoundTo, Listable
<1>11. CASE IBContext \/ IBOthers \/ IBOrphan \/ UNCHANGED ibVars
  <2>1. UNCHANGED <<made, seen, steady, inbox, asking>>
    BY <1>11 DEF IBContext, IBOthers, IBOrphan, ibVars, inboxVars
  <2> QED BY <1>6, <2>1
<1> QED
  BY <1>2, <1>3, <1>5, <1>7, <1>8, <1>9, <1>10, <1>11 DEF InboxNext, IBProgress

LEMMA InboxAlways == InboxSpec => []InboxInv
BY InboxStart, InboxStep, PTL DEF InboxSpec

(* A page appears only as the answer to the controller's question.          *)
LEMMA OnlyListed ==
  ASSUME [InboxNext]_ibVars, Shows
  PROVE  IBList
<1>1. inbox' # inbox /\ inbox'.status = "ready"
  BY DEF Shows
<1>2. ASSUME NEW status, status # "ready" PROVE inbox' # IBBlank(status)
  BY <1>1, <1>2, Cleared
<1>3. ASSUME NEW lane, NEW prev PROVE ~Load(lane, prev)
  BY <1>2 DEF Load
<1>4. ~IBSuspend /\ ~IBSwitch /\ ~IBFails /\ (\A lane : ~IBReload(lane)) /\ ~IBNext
  BY <1>2, <1>3 DEF IBSuspend, IBSwitch, IBFails, IBReload, IBNext
<1>5. ~IBContextRead
  <2> SUFFICES ASSUME IBContextRead PROVE FALSE
    OBVIOUS
  <2>1. PICK status : status = (IF wb.status = "ready" THEN "error" ELSE wb.status)
    OBVIOUS
  <2>2. inbox' = IBBlank(status) /\ status # "ready"
    BY <1>1, <2>1 DEF IBContextRead
  <2> QED BY <1>2, <2>2
<1>6. ~Create /\ ~Changes /\ ~IBOthers /\ ~IBOrphan /\ ~IBContext /\ ~UNCHANGED ibVars
  BY <1>1 DEF Create, Changes, IBOthers, IBOrphan, IBContext, ibVars, inboxVars
<1> QED BY <1>4, <1>5, <1>6 DEF InboxNext, IBProgress

(* Whatever is created, decided or hidden between two pages of a listing,   *)
(* nothing is shown twice, and when the last page has been shown nothing is *)
(* missing that could be listed all along (list(), its cursor).             *)
THEOREM PagesAlwaysJoinUp == InboxSpec => PagesJoinUp
<1>1. ASSUME InboxInv, [InboxNext]_ibVars, Shows
      PROVE  /\ Follows(asking) => inbox'.items \cap seen = {}
             /\ inbox'.cursor = NoCursor => steady' \subseteq seen'
  <2>1. IBList
    BY <1>1, OnlyListed
  <2>2. LET page == List(wb.n, asking.lane, asking.prev.cursor) IN inbox'.items = page.items /\ inbox'.cursor = page.cursor
    BY <2>1 DEF IBList
  <2> QED BY <1>1, <2>1, <2>2, PageListed
<1> QED BY <1>1, InboxAlways, PTL DEF InboxSpec, PagesJoinUp

(* The pages of one listing are read under one authority, although it may   *)
(* change after the controller compared it (the binding of the cursor).     *)
THEOREM OneAuthorityAlways == InboxSpec => OneAuthorityPerListing
<1>1. ASSUME InboxInv, [InboxNext]_ibVars, Shows, Follows(asking)
      PROVE  inbox'.stamp = asking.prev.stamp
  <2>1. IBList
    BY <1>1, OnlyListed
  <2> QED BY <1>1, <2>1, PageListed
<1> QED BY <1>1, InboxAlways, PTL DEF InboxSpec, OneAuthorityPerListing

-----------------------------------------------------------------------------
(* The approval page. *)

Commands == {"approve", "reject", "revoke", "permit", "execute"}
Rows == [state : {"none", "rejected", "revoked", "consumed"} \cup Open, version : Nat, bound : Nat, own : BOOLEAN]
Messages == [op : Commands \cup {"request", "switch"}, id : 0..MaxRequests, version : Nat, ctx : Nat, copy : {1, 2}]
Writers == [op : Commands \cup {"request", "switch"}, id : 0..MaxRequests, version : Nat, ctx : Nat, copy : {1, 2},
            phase : {"sent", "digest", "reloading"}, row : Rows, live : BOOLEAN]
Tasks == [phase : {"session", "self", "object", "digest"}, ctx : Nat, row : Rows, live : BOOLEAN,
          of : {"page", "switch"}, again : BOOLEAN]
Views == [status : {"loading", "ready", "suspended", "choose", "anonymous", "error", "disabled"}, ctx : Nat,
          id : 0..MaxRequests, row : Rows, bound : Nat, retry : BOOLEAN, uncertain : BOOLEAN]
Requests == [id : 0..MaxRequests, ctx : Nat, bound : Nat]
SessionRecords == [n : Nat, open : BOOLEAN, here : BOOLEAN, owner : BOOLEAN, member : Nat]

CatalogTyped ==
  /\ session \in SessionRecords
  /\ rows \in [Ids -> Rows] /\ catalog \in Nat /\ net \subseteq Messages
  /\ mode \in {"request", "inspect"} /\ known \in 0..MaxRequests /\ uncertain \in BOOLEAN
  /\ pending \in Requests
  /\ view \in Views
  /\ readers \subseteq Tasks /\ writer \in Writers \cup {NoTask}
  /\ unknown \subseteq Ids /\ floor \in Nat
  /\ \A m \in net : m.op # "switch" => m.id # 0

(* A page that is ready shows what its controller knows.                    *)
ViewTrue ==
  view.status = "ready" =>
    /\ view.id = known /\ view.uncertain = uncertain
    /\ view.retry => pending # NoRequest

(* What is in doubt is one request, of a controller that knows no approval. *)
Doubt ==
  /\ known = 0 /\ unknown # {} => uncertain
  /\ pending # NoRequest => known = 0 /\ pending.id # 0 /\ unknown \subseteq {pending.id}

(* One load at most is live, of a page that waits for it, with no write in  *)
(* its way but one that waits for it as well.                               *)
Loading ==
  /\ \A t, u \in readers : t.live /\ u.live => t = u
  /\ \A t \in readers :
       /\ t.phase # "digest" => t.live
       /\ t.live => view.status = "loading" /\ ~(Busy /\ writer.live /\ writer.phase # "reloading")
       /\ t.live /\ t.phase = "digest" => t.row.version >= floor

Writing ==
  Busy =>
    /\ writer.phase = "sent" => writer.live
    /\ writer.phase = "reloading" => writer.op = "switch"
    /\ writer.phase = "digest" => writer.op # "switch"
    /\ writer.live /\ writer.phase # "reloading" => view.status = "loading"
    /\ writer.live /\ writer.phase = "digest" => writer.row.version >= floor
    /\ writer.op # "switch" => writer.id # 0
    /\ writer.op = "request" => known = 0 /\ unknown \subseteq {writer.id}
    /\ writer.op \in Commands => writer.id = known

(* The approval the page is about is no older than it was.                 *)
Floor == floor <= FloorNow

CatalogInv == CatalogTyped /\ ViewTrue /\ Doubt /\ Loading /\ Writing /\ Floor

(* What a step may make the page show, and the request it may send.         *)
Fresh ==
  view' # view =>
    /\ view.status = "suspended" => view'.status = "loading"
    /\ view'.status = "ready" => view'.row.version >= floor
OneDoubt == \A id \in unknown' : id \notin unknown => unknown = {}
Kept == CatalogInv' /\ Fresh /\ OneDoubt

-----------------------------------------------------------------------------
(* The pieces the steps are made of.                                        *)

LEMMA RecordKinds ==
  /\ Absent \in Rows /\ Absent.version = 0
  /\ NoRequest \in Requests
  /\ NoTask \notin Writers
  /\ \A id \in Ids : id \in 0..MaxRequests /\ id # 0
  /\ 0 \in 0..MaxRequests
BY CatalogAssumption DEF Absent, Rows, NoRequest, Requests, NoTask, Writers, Ids, Commands

LEMMA BlankViews ==
  ASSUME NEW status \in {"loading", "suspended", "choose", "anonymous", "error", "disabled"}
  PROVE  /\ Blank(status) \in Views
         /\ Blank(status).status = status
BY RecordKinds DEF Blank, Views

LEMMA DeadReaders ==
  ASSUME CatalogTyped
  PROVE  /\ Superseded \subseteq Tasks
         /\ \A t \in Superseded : ~t.live /\ t.phase = "digest"
<1>1. ASSUME NEW r \in readers, r.phase = "digest"
      PROVE  LET t == [r EXCEPT !.live = FALSE, !.again = FALSE] IN t \in Tasks /\ ~t.live /\ t.phase = "digest"
  <2>1. r \in Tasks
    BY DEF CatalogTyped
  <2> QED BY <1>1, <2>1 DEF Tasks
<1> QED BY <1>1 DEF Superseded

LEMMA DeadWriter ==
  ASSUME CatalogTyped, Writing
  PROVE  \/ Aborted = NoTask
         \/ /\ Busy /\ Aborted \in Writers /\ ~Aborted.live
            /\ Aborted.phase = writer.phase /\ Aborted.phase # "sent"
            /\ Aborted.op = writer.op /\ Aborted.id = writer.id
<1>1. CASE Busy /\ writer.phase # "sent"
  <2>1. writer \in Writers
    BY <1>1 DEF CatalogTyped, Busy
  <2>2. Aborted = [writer EXCEPT !.live = FALSE]
    BY <1>1 DEF Aborted
  <2> QED BY <1>1, <2>1, <2>2 DEF Writers
<1>2. CASE ~(Busy /\ writer.phase # "sent")
  BY <1>2 DEF Aborted
<1> QED BY <1>1, <1>2

LEMMA NewReader ==
  ASSUME NEW of \in {"page", "switch"}, NEW again \in BOOLEAN
  PROVE  /\ Reading(of, again) \in Tasks /\ Reading(of, again).live /\ Reading(of, again).phase = "session"
BY RecordKinds DEF Reading, Tasks

LEMMA FloorType ==
  ASSUME CatalogTyped
  PROVE  FloorNow \in Nat /\ (known = 0 => FloorNow = 0)
BY DEF CatalogTyped, FloorNow, Rows, Ids

(* The page begins to load, or stops.                                       *)
LEMMA Begins ==
  ASSUME CatalogInv, NEW live \in SUBSET Tasks, readers' = Superseded \cup live,
         \A t \in live : t.live /\ t.phase = "session" /\ view'.status = "loading",
         \A t, u \in live : t = u,
         \E status \in {"loading", "suspended", "choose"} : view' = Blank(status),
         writer' \in Writers \cup {NoTask}, Writing', live # {} /\ Busy' => ~writer'.live \/ writer'.phase = "reloading",
         Doubt', pending' \in Requests, uncertain' \in BOOLEAN,
         unknown' \subseteq Ids, floor' = FloorNow \/ UNCHANGED floor,
         net' \subseteq Messages, \A m \in net' : m.op # "switch" => m.id # 0,
         UNCHANGED <<rows, catalog, mode, known>>,
         session' \in SessionRecords
  PROVE  CatalogInv'
<1>1. PICK status \in {"loading", "suspended", "choose"} : view' = Blank(status)
  OBVIOUS
<1>2. view'.status = status /\ view' \in Views
  BY <1>1, BlankViews
<1>3. floor' \in Nat /\ floor' <= FloorNow
  BY FloorType DEF CatalogInv, CatalogTyped, Floor
<1>4. CatalogTyped'
  BY <1>2, <1>3, DeadReaders DEF CatalogInv, CatalogTyped, Ids
<1>5. ViewTrue'
  BY <1>2 DEF ViewTrue
<1>6. Loading'
  <2>1. \A t \in readers' : t \in live \/ (~t.live /\ t.phase = "digest")
    BY DeadReaders DEF CatalogInv
  <2>2. \A t \in live : ~(Busy' /\ writer'.live /\ writer'.phase # "reloading")
    OBVIOUS
  <2> QED BY <2>1, <2>2 DEF Loading
<1>7. Floor'
  BY <1>3 DEF Floor, FloorNow
<1> QED BY <1>4, <1>5, <1>6, <1>7 DEF CatalogInv

LEMMA ShownViews ==
  ASSUME NEW ctx \in Nat, NEW id \in 0..MaxRequests, NEW row \in Rows, NEW bound \in Nat,
         uncertain' \in BOOLEAN
  PROVE  /\ Ready(ctx, id, row, bound) \in Views /\ Ready(ctx, id, row, bound).status = "ready"
         /\ Ready(ctx, id, row, bound).id = id /\ Ready(ctx, id, row, bound).row = row
         /\ Ready(ctx, id, row, bound).uncertain = uncertain'
         /\ Ready(ctx, id, row, bound).retry => pending' # NoRequest
BY DEF Ready, Views

LEMMA FailedView ==
  ASSUME uncertain' \in BOOLEAN
  PROVE  Failed \in Views /\ Failed.status = "error"
<1>1. Blank("error") \in Views /\ Blank("error").status = "error"
  BY BlankViews
<1> QED BY <1>1 DEF Failed, Views

(* The load that is under way ends, whatever it brings.                     *)
LEMMA LoadEnds ==
  ASSUME CatalogInv, NEW t \in readers, t.live, Return(t), KeepWrites,
         pending' \in Requests, uncertain' \in BOOLEAN, view' \in Views, ViewTrue', Doubt'
  PROVE  CatalogInv'
<1>1. CatalogTyped'
  BY DEF CatalogInv, CatalogTyped, Return, KeepWrites, server, Ids
<1>2. \A u \in readers' : u \in readers /\ ~u.live
  BY DEF Return, CatalogInv, Loading
<1>3. Loading'
  BY <1>2 DEF CatalogInv, Loading
<1>4. Writing'
  BY DEF CatalogInv, Loading, Writing, KeepWrites, Busy
<1>5. Floor'
  BY DEF CatalogInv, Floor, FloorNow, KeepWrites, server
<1> QED BY <1>1, <1>3, <1>4, <1>5 DEF CatalogInv

(* The load goes on with its next call.                                     *)
LEMMA LoadGoesOn ==
  ASSUME CatalogInv, NEW t \in readers, t.live, NEW u \in Tasks, u.live,
         u.phase = "digest" => u.row.version >= floor,
         Forward(t, u), KeepWrites, pending' \in {pending, NoRequest}, UNCHANGED <<uncertain, view>>,
         view.status = "loading"
  PROVE  CatalogInv'
<1>1. CatalogTyped'
  BY RecordKinds DEF CatalogInv, CatalogTyped, Forward, KeepWrites, server, Ids
<1>2. \A r \in readers' : r = u \/ (r \in readers /\ ~r.live)
  BY DEF Forward, CatalogInv, Loading
<1>3. ~(Busy /\ writer.live /\ writer.phase # "reloading")
  BY DEF CatalogInv, Loading
<1>4. Loading'
  BY <1>2, <1>3 DEF CatalogInv, Loading, KeepWrites, Busy
<1>5. Writing' /\ Floor'
  BY DEF CatalogInv, Writing, Floor, FloorNow, KeepWrites, server, Busy
<1>6. ViewTrue' /\ Doubt'
  BY DEF CatalogInv, ViewTrue, Doubt, KeepWrites
<1> QED BY <1>1, <1>4, <1>5, <1>6 DEF CatalogInv

LEMMA LoadStep ==
  ASSUME CatalogInv, CARead
  PROVE  Kept
<1> PICK t \in readers : ReadSession(t) \/ ReadSelf(t) \/ ReadObject(t) \/ FinishRead(t) \/ ReadFails(t)
  BY DEF CARead
<1>1. t \in Tasks /\ (t.phase # "digest" => t.live) /\ (t.live => view.status = "loading")
  BY DEF CatalogInv, CatalogTyped, Loading
<1>2. t.live /\ t.phase = "digest" => t.row.version >= floor
  BY DEF CatalogInv, Loading
<1>3. pending \in Requests /\ NoRequest \in Requests /\ uncertain \in BOOLEAN /\ known \in 0..MaxRequests /\ catalog \in Nat
  BY RecordKinds DEF CatalogInv, CatalogTyped
<1>4. OneDoubt
  BY DEF OneDoubt, ReadSession, ReadSelf, ReadObject, FinishRead, ReadFails, KeepWrites
<1>5. CASE ReadSession(t)
  <2>1. t.live /\ view.status = "loading" /\ KeepWrites
    BY <1>1, <1>5 DEF ReadSession
  <2>2. pending' \in {pending, NoRequest} /\ uncertain' = uncertain /\ UNCHANGED <<known, unknown>>
    BY <1>5 DEF ReadSession, KeepWrites
  <2>3. Doubt'
    BY <2>2 DEF CatalogInv, Doubt
  <2>4. CASE view' = Blank("anonymous") /\ Return(t)
    <3>1. view' \in Views /\ view'.status = "anonymous"
      BY <2>4, BlankViews
    <3> QED BY <1>3, <1>4, <2>1, <2>2, <2>3, <2>4, <3>1, LoadEnds DEF ViewTrue, Kept, Fresh
  <2>5. CASE view' = [Blank("choose") EXCEPT !.ctx = session.n] /\ Return(t)
    <3>1. Blank("choose") \in Views /\ Blank("choose").status = "choose" /\ session.n \in Nat
      BY BlankViews DEF CatalogInv, CatalogTyped, SessionRecords
    <3>2. view' \in Views /\ view'.status = "choose"
      BY <2>5, <3>1 DEF Views
    <3> QED BY <1>3, <1>4, <2>1, <2>2, <2>3, <2>5, <3>2, LoadEnds DEF ViewTrue, Kept, Fresh
  <2>6. CASE Forward(t, [t EXCEPT !.phase = "self", !.ctx = session.n]) /\ UNCHANGED view
    <3>1. [t EXCEPT !.phase = "self", !.ctx = session.n] \in Tasks
      BY <1>1 DEF Tasks, CatalogInv, CatalogTyped, SessionRecords
    <3>2. [t EXCEPT !.phase = "self", !.ctx = session.n].live /\ [t EXCEPT !.phase = "self", !.ctx = session.n].phase = "self"
      BY <1>1, <2>1 DEF Tasks
    <3> QED BY <1>4, <2>1, <2>2, <2>6, <3>1, <3>2, LoadGoesOn DEF Kept, Fresh
  <2> QED BY <1>5, <2>4, <2>5, <2>6 DEF ReadSession
<1>6. CASE ReadSelf(t)
  <2>1. [t EXCEPT !.phase = "object"] \in Tasks /\ [t EXCEPT !.phase = "object"].live /\ [t EXCEPT !.phase = "object"].phase = "object"
    BY <1>1, <1>6 DEF Tasks, ReadSelf
  <2> QED BY <1>1, <1>4, <1>6, <2>1, LoadGoesOn DEF ReadSelf, Kept, Fresh
<1>7. CASE ReadObject(t) /\ known # 0
  <2>1. rows[known] \in Rows /\ rows[known].version >= floor
    BY <1>7 DEF CatalogInv, CatalogTyped, Ids, Floor, FloorNow
  <2> DEFINE u == [t EXCEPT !.phase = "digest", !.row = rows[known]]
  <2>2. u \in Tasks /\ u.live /\ u.row = rows[known] /\ Forward(t, u)
    BY <1>1, <1>7, <2>1 DEF Tasks, ReadObject
  <2> QED BY <1>1, <1>4, <1>7, <2>1, <2>2, LoadGoesOn DEF ReadObject, Kept, Fresh
<1>8. CASE ReadObject(t) /\ known = 0
  <2>1. uncertain' = uncertain /\ UNCHANGED <<pending, known, unknown>> /\ view' = Ready(t.ctx, 0, Absent, catalog)
    BY <1>8 DEF ReadObject, UncertainAfterRead, KeepWrites
  <2>2. t.ctx \in Nat /\ Absent \in Rows /\ Absent.version = 0 /\ 0 \in 0..MaxRequests
    BY <1>1, RecordKinds DEF Tasks
  <2>3. view' \in Views /\ view'.id = 0 /\ view'.uncertain = uncertain' /\ (view'.retry => pending' # NoRequest) /\ view'.row = Absent
    BY <1>3, <2>1, <2>2, ShownViews
  <2>4. ViewTrue' /\ Doubt'
    BY <1>8, <2>1, <2>3 DEF CatalogInv, ViewTrue, Doubt
  <2>5. floor = 0
    BY <1>8, FloorType DEF CatalogInv, CatalogTyped, Floor
  <2>6. CatalogInv'
    BY <1>1, <1>3, <1>8, <2>1, <2>3, <2>4, LoadEnds DEF ReadObject
  <2> QED BY <1>1, <1>4, <1>8, <2>2, <2>3, <2>5, <2>6 DEF Kept, Fresh, ReadObject
<1>9. CASE FinishRead(t) /\ t.live
  <2>1. uncertain' = (IF known = 0 THEN uncertain ELSE FALSE) /\ UNCHANGED <<pending, known, unknown>> /\ view' = Ready(t.ctx, known, t.row, 0)
    BY <1>9 DEF FinishRead, UncertainAfterRead, KeepWrites, Check
  <2>2. t.ctx \in Nat /\ t.row \in Rows /\ uncertain' \in BOOLEAN /\ 0 \in Nat
    BY <1>1, <1>3, <2>1 DEF Tasks
  <2>3. view' \in Views /\ view'.id = known /\ view'.uncertain = uncertain' /\ (view'.retry => pending' # NoRequest) /\ view'.row = t.row
    <3>1. view' = Ready(t.ctx, known, t.row, 0) /\ known \in 0..MaxRequests
      BY <1>3, <2>1
    <3> QED BY <2>2, <3>1, ShownViews
  <2>4. ViewTrue' /\ Doubt'
    BY <2>1, <2>3 DEF CatalogInv, ViewTrue, Doubt
  <2>5. CatalogInv'
    BY <1>3, <1>9, <2>1, <2>2, <2>3, <2>4, LoadEnds DEF FinishRead
  <2> QED BY <1>1, <1>2, <1>4, <1>9, <2>3, <2>5 DEF Kept, Fresh, FinishRead
<1>10. CASE FinishRead(t) /\ ~t.live
  <2>1. UNCHANGED <<session, server, mode, known, pending, uncertain, view, writer, unknown, floor>> /\ readers' = readers \ {t}
    BY <1>10 DEF FinishRead, Check, KeepWrites, Return
  <2>2. CatalogTyped'
    BY <2>1 DEF CatalogInv, CatalogTyped, server, Ids
  <2>3. ViewTrue' /\ Doubt' /\ Floor' /\ Writing'
    BY <2>1 DEF CatalogInv, ViewTrue, Doubt, Floor, FloorNow, Writing, Busy, server
  <2>4. Loading'
    BY <2>1 DEF CatalogInv, Loading, Busy
  <2> QED BY <1>4, <2>1, <2>2, <2>3, <2>4 DEF CatalogInv, Kept, Fresh
<1>11. CASE ReadFails(t)
  <2>1. uncertain' = uncertain /\ UNCHANGED <<pending, known, unknown>>
    BY <1>11 DEF ReadFails, KeepWrites
  <2>2. Failed \in Views /\ Failed.status = "error"
    BY <1>3, <2>1, FailedView
  <2>3. Blank("disabled") \in Views /\ Blank("disabled").status = "disabled"
    BY BlankViews
  <2>4. view' \in Views /\ view'.status \in {"error", "disabled"}
    BY <1>11, <2>2, <2>3 DEF ReadFails
  <2>5. ViewTrue' /\ Doubt'
    BY <2>1, <2>4 DEF CatalogInv, ViewTrue, Doubt
  <2>6. CatalogInv'
    BY <1>1, <1>3, <1>11, <2>1, <2>4, <2>5, LoadEnds DEF ReadFails
  <2> QED BY <1>1, <1>4, <1>11, <2>4, <2>6 DEF ReadFails, Kept, Fresh
<1> QED BY <1>5, <1>6, <1>7, <1>8, <1>9, <1>10, <1>11

-----------------------------------------------------------------------------
(* The buttons of the page.                                                 *)

LEMMA Sent ==
  ASSUME CatalogTyped, NEW op \in Commands \cup {"request", "switch"}, NEW id \in 0..MaxRequests,
         NEW version \in Nat, NEW ctx \in Nat, Send(op, id, version, ctx), op # "switch" => id # 0
  PROVE  /\ writer' \in Writers /\ writer'.op = op /\ writer'.id = id /\ writer'.phase = "sent" /\ writer'.live
         /\ Busy' /\ net' \subseteq Messages /\ \A m \in net' : m.op # "switch" => m.id # 0
<1>1. writer' \in Writers /\ writer'.op = op /\ writer'.id = id /\ writer'.phase = "sent" /\ writer'.live
  BY RecordKinds DEF Send, Writers
<1>2. writer' # NoTask
  BY <1>1, RecordKinds
<1>3. [op |-> op, id |-> id, version |-> version, ctx |-> ctx, copy |-> 1] \in Messages
  BY DEF Messages
<1>4. net' \subseteq Messages /\ \A m \in net' : m.op # "switch" => m.id # 0
  BY <1>3 DEF Send, CatalogTyped
<1> QED BY <1>1, <1>2, <1>4 DEF Busy

(* A write begins on a page that is ready, or that asks for an organization, *)
(* and the page then waits for it.                                          *)
LEMMA WriteBegins ==
  ASSUME CatalogInv, NEW op \in Commands \cup {"request", "switch"}, NEW id \in 0..MaxRequests,
         NEW version \in Nat, NEW ctx \in Nat, Send(op, id, version, ctx), op # "switch" => id # 0,
         view.status \in {"ready", "choose"}, view' = Blank("loading"), readers' = Superseded, floor' = FloorNow,
         KeepWorld, Doubt', pending' \in Requests, uncertain' \in BOOLEAN, unknown' \subseteq Ids, OneDoubt,
         op = "request" => known = 0 /\ unknown' \subseteq {id}, op \in Commands => id = known
  PROVE  Kept
<1>1. /\ writer' \in Writers /\ writer'.op = op /\ writer'.id = id /\ writer'.phase = "sent" /\ writer'.live
      /\ net' \subseteq Messages /\ \A m \in net' : m.op # "switch" => m.id # 0
  BY Sent DEF CatalogInv
<1>2. view'.status = "loading"
  BY BlankViews
<1>3. UNCHANGED <<rows, catalog, mode, known>> /\ session' \in SessionRecords
  BY DEF KeepWorld, CatalogInv, CatalogTyped
<1>4. Writing'
  BY <1>1, <1>2, <1>3 DEF Writing
<1>5. readers' = Superseded \cup {}
  OBVIOUS
<1>6. CatalogInv'
  <2> DEFINE live == {}
  <2>1. live \in SUBSET Tasks /\ live = {}
    OBVIOUS
  <2>2. \E status \in {"loading", "suspended", "choose"} : view' = Blank(status)
    OBVIOUS
  <2> HIDE DEF live
  <2>3. readers' = Superseded \cup live
    BY <2>1
  <2> QED BY <1>1, <1>3, <1>4, <2>1, <2>2, <2>3, Begins
<1> QED BY <1>2, <1>6 DEF Kept, Fresh

LEMMA Asked ==
  ASSUME CatalogInv, NEW id \in Ids, Request(id)
  PROVE  Kept
<1>1. view.status = "ready" /\ view.id = 0 /\ ~view.uncertain /\ id \in 0..MaxRequests /\ id # 0
  BY RecordKinds DEF Request, BeginWrite, FormShown
<1>2. known = 0 /\ ~uncertain /\ unknown = {}
  BY <1>1 DEF CatalogInv, ViewTrue, Doubt
<1>3. view.ctx \in Nat /\ view.bound \in Nat
  BY DEF CatalogInv, CatalogTyped, Views
<1>4. /\ pending' = [id |-> id, ctx |-> view.ctx, bound |-> view.bound] /\ uncertain' = TRUE
      /\ unknown' = {id} /\ known' = 0
  BY <1>2 DEF Request, KeepWorld
<1>5. pending' \in Requests /\ pending'.id = id
  BY <1>1, <1>3, <1>4 DEF Requests
<1>6. Doubt' /\ OneDoubt
  BY <1>1, <1>2, <1>4, <1>5 DEF Doubt, OneDoubt
<1> QED BY <1>1, <1>2, <1>3, <1>4, <1>5, <1>6, WriteBegins DEF Request, BeginWrite, Commands

LEMMA AskedAgain ==
  ASSUME CatalogInv, Retry
  PROVE  Kept
<1>1. view.status = "ready" /\ pending # NoRequest /\ uncertain' = TRUE
  BY DEF Retry, BeginWrite, CatalogInv, ViewTrue
<1>2. known = 0 /\ pending.id # 0 /\ unknown \subseteq {pending.id}
  BY <1>1 DEF CatalogInv, Doubt
<1>3. UNCHANGED <<pending, unknown, known>>
  BY DEF Retry, KeepWorld
<1>4. view.ctx \in Nat /\ pending.id \in 0..MaxRequests /\ pending.bound \in Nat /\ pending' \in Requests /\ unknown' \subseteq Ids
  BY <1>3 DEF CatalogInv, CatalogTyped, Views, Requests
<1>5. Doubt' /\ OneDoubt
  BY <1>1, <1>3 DEF CatalogInv, Doubt, OneDoubt
<1> QED BY <1>1, <1>2, <1>3, <1>4, <1>5, WriteBegins DEF Retry, BeginWrite, Commands

LEMMA Commanded ==
  ASSUME CatalogInv, NEW op \in {"approve", "reject", "revoke", "permit"}, Command(op)
  PROVE  Kept
<1>1. view.status = "ready" /\ view.id # 0 /\ view.id = known /\ uncertain' = TRUE
  BY DEF Command, BeginWrite, DecisionShown, CatalogInv, ViewTrue
<1>2. UNCHANGED <<pending, unknown, known>>
  BY DEF Command, KeepWorld
<1>3. /\ view.ctx \in Nat /\ view.id \in 0..MaxRequests /\ view.row \in Rows
      /\ pending' \in Requests /\ unknown' \subseteq Ids
  BY <1>2 DEF CatalogInv, CatalogTyped, Views
<1>4. view.row.version \in Nat
  BY <1>3 DEF Rows
<1>5. Doubt' /\ OneDoubt
  BY <1>1, <1>2 DEF CatalogInv, Doubt, OneDoubt
<1>6. op \in Commands /\ op # "request" /\ op # "switch"
  BY DEF Commands
<1> QED BY <1>1, <1>2, <1>3, <1>4, <1>5, <1>6, WriteBegins DEF Command, BeginWrite

LEMMA Switched ==
  ASSUME CatalogInv, SwitchOrganization
  PROVE  Kept
<1>1. UNCHANGED <<pending, uncertain, unknown, known>>
  BY DEF SwitchOrganization, KeepWorld
<1>2. /\ view.ctx \in Nat /\ 0 \in 0..MaxRequests /\ 0 \in Nat /\ uncertain' \in BOOLEAN
      /\ pending' \in Requests /\ unknown' \subseteq Ids
  BY <1>1, RecordKinds DEF CatalogInv, CatalogTyped, Views
<1>3. Doubt' /\ OneDoubt
  BY <1>1 DEF CatalogInv, Doubt, OneDoubt
<1> QED BY <1>2, <1>3, WriteBegins DEF SwitchOrganization, Commands

(* Reloading and suspending leave a write behind that is no longer heard.   *)
LEMMA Left ==
  ASSUME CatalogInv, writer' = Aborted, UNCHANGED <<known, unknown>>
  PROVE  /\ writer' \in Writers \cup {NoTask} /\ Writing' /\ (Busy' => ~writer'.live)
<1>1. \/ writer' = NoTask
      \/ /\ Busy /\ writer' \in Writers /\ ~writer'.live
         /\ writer'.phase = writer.phase /\ writer'.phase # "sent"
         /\ writer'.op = writer.op /\ writer'.id = writer.id
  BY DeadWriter DEF CatalogInv
<1>2. Writing' /\ (Busy' => ~writer'.live)
  BY <1>1 DEF CatalogInv, Writing, Busy
<1> QED BY <1>1, <1>2

LEMMA Reloaded ==
  ASSUME CatalogInv, Reload
  PROVE  Kept
<1>1. PICK again \in BOOLEAN : again = (view.status = "loading" /\ "page" = "page")
  OBVIOUS
<1> DEFINE live == {Reading("page", again)}
<1>2. live \subseteq Tasks /\ (\A t \in live : t.live /\ t.phase = "session") /\ (\A t, u \in live : t = u)
  BY NewReader
<1>3. readers' = Superseded \cup live /\ view' = Blank("loading") /\ floor' = FloorNow
  BY <1>1 DEF Reload, StartRead
<1> HIDE DEF live
<1>4. view'.status = "loading"
  BY <1>3, BlankViews
<1>5. UNCHANGED <<session, rows, catalog, net, mode, known, pending, uncertain, unknown>> /\ writer' = Aborted
  BY DEF Reload, server
<1>6. Doubt' /\ OneDoubt
  BY <1>5 DEF CatalogInv, Doubt, OneDoubt
<1>7. /\ session' \in SessionRecords /\ net' \subseteq Messages /\ (\A m \in net' : m.op # "switch" => m.id # 0)
      /\ pending' \in Requests /\ uncertain' \in BOOLEAN /\ unknown' \subseteq Ids
  BY <1>5 DEF CatalogInv, CatalogTyped
<1>8. writer' \in Writers \cup {NoTask} /\ Writing' /\ (Busy' => ~writer'.live)
  BY <1>5, Left
<1>9. CatalogInv'
  BY <1>2, <1>3, <1>4, <1>5, <1>6, <1>7, <1>8, Begins
<1> QED BY <1>4, <1>6, <1>9 DEF Kept, Fresh

LEMMA Suspended ==
  ASSUME CatalogInv, Suspend
  PROVE  Kept
<1>1. PICK live \in SUBSET Tasks : live = {}
  OBVIOUS
<1>2. readers' = Superseded \cup live /\ view' = Blank("suspended") /\ floor' = floor
  BY <1>1 DEF Suspend
<1>3. view'.status = "suspended" /\ view.status # "suspended"
  BY <1>2, BlankViews DEF Suspend
<1>4. UNCHANGED <<session, rows, catalog, net, mode, known, pending, uncertain, unknown>> /\ writer' = Aborted
  BY DEF Suspend, server
<1>5. Doubt' /\ OneDoubt
  BY <1>4 DEF CatalogInv, Doubt, OneDoubt
<1>6. /\ session' \in SessionRecords /\ net' \subseteq Messages /\ (\A m \in net' : m.op # "switch" => m.id # 0)
      /\ pending' \in Requests /\ uncertain' \in BOOLEAN /\ unknown' \subseteq Ids
  BY <1>4 DEF CatalogInv, CatalogTyped
<1>7. writer' \in Writers \cup {NoTask} /\ Writing'
  BY <1>4, Left
<1>8. CatalogInv'
  BY <1>1, <1>2, <1>4, <1>5, <1>6, <1>7, Begins
<1> QED BY <1>3, <1>5, <1>8 DEF Kept, Fresh

-----------------------------------------------------------------------------
(* The server, and the answers it gives.                                    *)

(* The server moves on and the page has not heard of it.                    *)
Grows ==
  /\ rows' \in [Ids -> Rows] /\ catalog' \in Nat /\ session' \in SessionRecords
  /\ \A id \in Ids : rows'[id].version >= rows[id].version

LEMMA MoveGrows ==
  ASSUME CatalogTyped, NEW id \in Ids, NEW op \in Commands, Move(id, op)
  PROVE  /\ rows' \in [Ids -> Rows] /\ catalog' \in Nat
         /\ \A i \in Ids : rows'[i].version >= rows[i].version
<1>1. rows \in [Ids -> Rows] /\ rows[id] \in Rows
  BY DEF CatalogTyped
<1>2. StateAfter(op) \in {"rejected", "revoked", "consumed"} \cup Open
  BY DEF StateAfter, Commands, Open
<1>a. PICK state \in {"rejected", "revoked", "consumed"} \cup Open : state = StateAfter(op)
  BY <1>2
<1>b. PICK version \in Nat : version = rows[id].version + 1
  BY <1>1 DEF Rows
<1>c. PICK row : row = [rows[id] EXCEPT !.state = state, !.version = version]
  OBVIOUS
<1>3. row \in Rows /\ row.version = rows[id].version + 1
  BY <1>1, <1>b, <1>c DEF Rows
<1>4. rows' = [rows EXCEPT ![id] = row]
  <2>1. rows' = [rows EXCEPT ![id] = [rows[id] EXCEPT !.state = StateAfter(op), !.version = rows[id].version + 1]]
    BY <1>1 DEF Move, Rows
  <2> QED BY <2>1, <1>a, <1>b, <1>c
<1>5. rows' \in [Ids -> Rows]
  BY <1>1, <1>3, <1>4
<1>6. \A i \in Ids : rows'[i].version >= rows[i].version
  <2>1. \A i \in Ids : rows[i].version \in Nat
    BY <1>1 DEF Rows
  <2> QED BY <1>1, <1>3, <1>4, <2>1
<1>7. catalog' \in Nat
  BY DEF Move, CatalogTyped
<1> QED BY <1>5, <1>6, <1>7

LEMMA ContextGrows ==
  ASSUME CatalogTyped, NEW here \in BOOLEAN, NEW open \in BOOLEAN, NewContext(here, open)
  PROVE  session' \in SessionRecords
<1>1. session \in SessionRecords
  BY DEF CatalogTyped
<1>2. PICK n \in Nat : n = session.n + 1
  BY <1>1 DEF SessionRecords
<1>3. session' = [session EXCEPT !.n = n, !.here = here, !.open = open]
  BY <1>1, <1>2 DEF NewContext
<1> QED BY <1>1, <1>3 DEF SessionRecords

LEMMA AcceptGrows ==
  ASSUME CatalogTyped, NEW m \in net, Accept(m)
  PROVE  Grows /\ (m.op = "switch" => UNCHANGED <<rows, catalog>>)
<1>1. m \in Messages /\ (m.op # "switch" => m.id \in Ids)
  BY CatalogAssumption DEF CatalogTyped, Messages, Ids
<1>2. rows \in [Ids -> Rows] /\ \A id \in Ids : rows[id].version \in Nat
  BY DEF CatalogTyped, Rows
<1>3. CASE /\ m.op = "request" /\ UNCHANGED <<session, catalog>>
           /\ rows' = [rows EXCEPT ![m.id] = IF @ # Absent THEN @ ELSE [state |-> "pending", version |-> 1, bound |-> m.version, own |-> TRUE]]
  <2>1. PICK row : row = [state |-> "pending", version |-> 1, bound |-> m.version, own |-> TRUE]
    OBVIOUS
  <2>2. row \in Rows /\ row.version = 1
    BY <1>1, <2>1 DEF Rows, Messages, Open
  <2>3. rows' = [rows EXCEPT ![m.id] = IF rows[m.id] # Absent THEN rows[m.id] ELSE row]
    BY <1>1, <1>2, <1>3, <2>1
  <2>4. rows' \in [Ids -> Rows]
    BY <1>2, <2>2, <2>3
  <2>5. \A id \in Ids : rows'[id].version >= rows[id].version
    <3> SUFFICES ASSUME NEW id \in Ids PROVE rows'[id].version >= rows[id].version
      OBVIOUS
    <3>1. rows'[id] = rows[id] \/ (rows[id] = Absent /\ rows'[id] = row)
      BY <1>2, <2>3
    <3> QED BY <1>2, <2>2, <3>1, RecordKinds
  <2> QED BY <1>3, <2>4, <2>5 DEF Grows, CatalogTyped
<1>4. CASE m.op \notin {"request", "switch"} /\ UNCHANGED session /\ Move(m.id, m.op)
  <2>1. m.op \in Commands /\ m.id \in Ids
    BY <1>1, <1>4 DEF Messages
  <2> QED BY <1>4, <2>1, MoveGrows DEF Grows, CatalogTyped
<1>5. CASE m.op = "switch" /\ NewContext(TRUE, TRUE) /\ UNCHANGED <<rows, catalog>>
  <2>1. session' \in SessionRecords
    BY <1>5, ContextGrows
  <2> QED BY <1>2, <1>5, <2>1 DEF Grows, CatalogTyped
<1> QED BY <1>3, <1>4, <1>5 DEF Accept

LEMMA FloorHolds ==
  ASSUME CatalogInv, Grows
  PROVE  \A id \in 0..MaxRequests : id = known => floor <= (IF id = 0 THEN 0 ELSE rows'[id].version)
<1>1. \A id \in 0..MaxRequests : id = 0 \/ id \in Ids
  BY CatalogAssumption DEF Ids
<1>2. \A id \in Ids : rows[id].version \in Nat /\ rows'[id].version \in Nat /\ rows'[id].version >= rows[id].version
  BY DEF Grows, CatalogInv, CatalogTyped, Rows
<1> QED BY <1>1, <1>2 DEF CatalogInv, CatalogTyped, Floor, FloorNow

LEMMA Unheard ==
  ASSUME CatalogInv, Grows, net' \subseteq Messages, \A m \in net' : m.op # "switch" => m.id # 0,
         UNCHANGED controller
  PROVE  Kept
<1>1. UNCHANGED <<mode, known, pending, uncertain, view, readers, writer, unknown, floor>>
  BY DEF controller
<1>2. CatalogTyped'
  BY <1>1 DEF CatalogInv, CatalogTyped, Grows, Ids
<1>3. ViewTrue' /\ Doubt' /\ Loading' /\ Writing'
  BY <1>1 DEF CatalogInv, ViewTrue, Doubt, Loading, Writing, Busy
<1>4. Floor'
  BY <1>1, FloorHolds DEF Floor, FloorNow, CatalogInv, CatalogTyped
<1> QED BY <1>1, <1>2, <1>3, <1>4 DEF CatalogInv, Kept, Fresh, OneDoubt

LEMMA WorldMoves ==
  ASSUME CatalogInv, (\E m \in net : Lose(m)) \/ Colleague \/ (Elsewhere /\ UNCHANGED <<server, controller>>)
  PROVE  Kept
<1>1. net \subseteq Messages /\ rows \in [Ids -> Rows] /\ (\A id \in Ids : rows[id].version \in Nat)
  BY DEF CatalogInv, CatalogTyped, Rows
<1>2. UNCHANGED <<session, rows, catalog>> => Grows
  BY <1>1 DEF Grows, CatalogInv, CatalogTyped
<1>3. CASE \E m \in net : Lose(m)
  BY <1>1, <1>2, <1>3, Unheard DEF Lose, CatalogInv, CatalogTyped
<1>4. CASE Colleague
  <2>4. session' \in SessionRecords
    BY <1>4 DEF Colleague, CatalogInv, CatalogTyped
  <2>1. ASSUME \E id \in Ids : \E op \in Commands : Move(id, op) PROVE Grows
    <3>1. PICK id \in Ids, op \in Commands : Move(id, op)
      BY <2>1
    <3>2. rows' \in [Ids -> Rows] /\ catalog' \in Nat /\ \A i \in Ids : rows'[i].version >= rows[i].version
      BY <3>1, MoveGrows DEF CatalogInv
    <3> QED BY <2>4, <3>2 DEF Grows
  <2>2. ASSUME catalog' = catalog + 1 /\ UNCHANGED rows PROVE Grows
    <3>1. \A id \in Ids : rows'[id].version >= rows[id].version
      BY <1>1, <2>2
    <3>2. rows' \in [Ids -> Rows] /\ catalog' \in Nat
      BY <1>1, <2>2 DEF CatalogInv, CatalogTyped
    <3> QED BY <2>4, <3>1, <3>2 DEF Grows
  <2>3. Grows
    <3>2. \/ \E id \in Ids : \E op \in {"approve", "reject", "revoke"} : Move(id, op)
          \/ \E id \in Ids : \E op \in {"permit", "execute", "revoke"} : Move(id, op)
          \/ catalog' = catalog + 1 /\ UNCHANGED rows
      BY <1>4, Zenon DEF Colleague
    <3>1. {"approve", "reject", "revoke"} \subseteq Commands /\ {"permit", "execute", "revoke"} \subseteq Commands
      BY DEF Commands
    <3> QED BY <2>1, <2>2, <3>1, <3>2
  <2> QED BY <1>1, <1>4, <2>3, Unheard DEF Colleague, CatalogInv, CatalogTyped
<1>5. CASE Elsewhere /\ UNCHANGED <<server, controller>>
  <2>1. session' \in SessionRecords
    BY <1>5, ContextGrows DEF Elsewhere, CatalogInv, CatalogTyped, SessionRecords
  <2>2. Grows
    BY <1>1, <1>5, <2>1 DEF Grows, server, CatalogInv, CatalogTyped
  <2> QED BY <1>1, <1>5, <2>2, Unheard DEF server, CatalogInv, CatalogTyped
<1> QED BY <1>3, <1>4, <1>5

(* While a write is live and its answer is awaited, no load is live.        *)
LEMMA NoneLive ==
  ASSUME CatalogInv, Busy, writer.live, writer.phase # "reloading"
  PROVE  /\ view.status = "loading" /\ writer \in Writers
         /\ \A t \in readers : ~t.live /\ t.phase = "digest"
BY DEF CatalogInv, CatalogTyped, Busy, Loading, Writing

(* The write that holds the page ends; nothing is then under way.           *)
LEMMA WriteEnded ==
  ASSUME CatalogInv, Busy, writer.live, writer.phase # "reloading", WriteEnds, Grows,
         net' \subseteq net, UNCHANGED <<mode, readers, floor>>,
         known' \in 0..MaxRequests, pending' \in Requests, uncertain' \in BOOLEAN, view' \in Views, unknown' \subseteq unknown,
         ViewTrue', Doubt', known' # 0 \/ floor = 0, known' \in Ids => floor <= rows'[known'].version
  PROVE  CatalogInv' /\ OneDoubt /\ view.status = "loading"
<1>1. view.status = "loading" /\ (\A t \in readers : ~t.live /\ t.phase = "digest")
  BY NoneLive
<1>2. writer' = NoTask
  BY DEF WriteEnds
<1>3. CatalogTyped'
  BY <1>2 DEF CatalogInv, CatalogTyped, Grows, Ids
<1>4. Loading' /\ Writing'
  BY <1>1, <1>2 DEF Loading, Writing, Busy
<1>5. Floor'
  BY CatalogAssumption DEF Floor, FloorNow, Ids
<1> QED BY <1>1, <1>3, <1>4, <1>5 DEF CatalogInv, OneDoubt

LEMMA HeardStep ==
  ASSUME CatalogInv, NEW m \in net, net' = net \ {m}, Accept(m), Awaited(m), Heard(m)
  PROVE  Kept
<1>1. /\ Busy /\ writer.phase = "sent" /\ writer.live /\ m.op = writer.op /\ m.id = writer.id /\ writer \in Writers
      /\ m \in Messages
  BY DEF Awaited, CatalogInv, CatalogTyped, Writing, Busy
<1>2. Grows /\ (m.op = "switch" => UNCHANGED <<rows, catalog>>)
  BY AcceptGrows DEF CatalogInv
<1>3. unknown' \subseteq unknown /\ UNCHANGED <<mode, known, uncertain>> /\ net' \subseteq net
  BY DEF Heard, Told
<1>4. OneDoubt
  BY <1>3 DEF OneDoubt
<1>5. view.status = "loading" /\ (\A t \in readers : ~t.live /\ t.phase = "digest")
  BY <1>1, NoneLive
<1>6. CASE m.op = "switch"
  <2>1. PICK again \in BOOLEAN : again = (view.status = "loading" /\ "switch" = "page")
    OBVIOUS
  <2> DEFINE live == {Reading("switch", again)}
  <2>2. live \subseteq Tasks /\ (\A t \in live : t.live /\ t.phase = "session") /\ (\A t, u \in live : t = u)
    BY NewReader
  <2>3. readers' = Superseded \cup live /\ view' = Blank("loading") /\ floor' = FloorNow
    BY <1>6, <2>1 DEF Heard, StartRead
  <2> HIDE DEF live
  <2>4. view'.status = "loading"
    BY <2>3, BlankViews
  <2>5. writer' = [writer EXCEPT !.phase = "reloading"] /\ pending' = NoRequest
    BY <1>6 DEF Heard
  <2>6. writer' \in Writers /\ writer'.phase = "reloading" /\ writer'.op = "switch"
    BY <1>1, <1>6, <2>5 DEF Writers
  <2>7. Writing'
    BY <2>6, <1>6 DEF Writing, Commands
  <2>8. Doubt'
    BY <1>3, <2>5 DEF CatalogInv, Doubt
  <2>9. /\ session' \in SessionRecords /\ net' \subseteq Messages /\ (\A n \in net' : n.op # "switch" => n.id # 0)
        /\ pending' \in Requests /\ uncertain' \in BOOLEAN /\ unknown' \subseteq Ids
    BY <1>2, <1>3, <2>5, RecordKinds DEF CatalogInv, CatalogTyped, Grows
  <2>10. CatalogInv'
    BY <1>2, <1>3, <1>6, <2>2, <2>3, <2>4, <2>6, <2>7, <2>8, <2>9, Begins
  <2> QED BY <1>4, <2>4, <2>10 DEF Kept, Fresh
<1>7. CASE m.op # "switch"
  <2>1. UNCHANGED <<pending, view, readers, floor>> /\ writer' = [writer EXCEPT !.phase = "digest", !.row = rows'[m.id]]
    BY <1>7 DEF Heard
  <2>2. m.id \in Ids
    BY <1>1, <1>7, CatalogAssumption DEF CatalogInv, CatalogTyped, Messages, Ids
  <2>3. rows'[m.id] \in Rows
    BY <1>2, <2>2 DEF Grows
  <2>4. /\ writer' \in Writers /\ writer'.phase = "digest" /\ writer'.row = rows'[m.id] /\ writer'.live
        /\ writer'.op = m.op /\ writer'.id = m.id
    BY <1>1, <2>1, <2>3 DEF Writers
  <2>5. floor <= rows'[m.id].version
    <3>1. CASE m.op = "request"
      <4>1. floor = 0
        BY <1>1, <3>1, FloorType DEF CatalogInv, Writing, Floor, CatalogTyped
      <4> QED BY <2>3, <4>1 DEF Rows
    <3>2. CASE m.op \in Commands
      <4>1. m.id = known
        BY <1>1, <3>2 DEF CatalogInv, Writing
      <4>2. m.id \in 0..MaxRequests /\ m.id # 0
        BY <2>2, RecordKinds
      <4> QED BY <1>2, <4>1, <4>2, FloorHolds
    <3> QED BY <1>1, <1>7, <3>1, <3>2 DEF Messages
  <2>6. CatalogTyped'
    BY <1>2, <1>3, <2>1, <2>4 DEF CatalogInv, CatalogTyped, Grows, Ids
  <2>7. ViewTrue' /\ Doubt'
    BY <1>3, <1>5, <2>1 DEF CatalogInv, ViewTrue, Doubt
  <2>8. Loading'
    BY <1>5, <2>1 DEF Loading
  <2>9. Writing'
    <3>1. writer.op # "switch" => writer.id # 0
      BY <1>1 DEF CatalogInv, Writing
    <3>2. writer.op = "request" => known = 0 /\ unknown \subseteq {writer.id}
      BY <1>1 DEF CatalogInv, Writing
    <3>3. writer.op \in Commands => writer.id = known
      BY <1>1 DEF CatalogInv, Writing
    <3>4. writer'.row.version >= floor'
      BY <2>1, <2>3, <2>4, <2>5 DEF CatalogInv, CatalogTyped, Rows
    <3> QED BY <1>1, <1>3, <1>5, <1>7, <2>1, <2>4, <3>1, <3>2, <3>3, <3>4 DEF Writing
  <2>10. Floor'
    BY <1>2, <1>3, <2>1, FloorHolds DEF Floor, FloorNow, CatalogInv, CatalogTyped
  <2> QED BY <1>4, <2>1, <2>6, <2>7, <2>8, <2>9, <2>10 DEF CatalogInv, Kept, Fresh
<1> QED BY <1>6, <1>7

LEMMA RefusedStep ==
  ASSUME CatalogInv, NEW m \in net, net' = net \ {m}, Refuse(m), Awaited(m), Refused(m)
  PROVE  Kept
<1>1. /\ Busy /\ writer.phase = "sent" /\ writer.live /\ m.op = writer.op /\ m.id = writer.id
      /\ writer \in Writers
  BY DEF Awaited, CatalogInv, CatalogTyped, Writing, Busy
<1>2. Grows /\ UNCHANGED rows
  <2>1. \A id \in Ids : rows[id].version \in Nat
    BY DEF CatalogInv, CatalogTyped, Rows
  <2> QED BY <2>1 DEF Refuse, Grows, CatalogInv, CatalogTyped
<1>3. /\ UNCHANGED <<mode, known, readers, floor>> /\ WriteEnds
      /\ unknown' = (IF m.op = "request" THEN unknown \ {m.id} ELSE unknown)
      /\ pending' \in {pending, NoRequest} /\ (m.op = "request" => pending' = NoRequest)
      /\ uncertain' = (IF m.op \in {"permit", "execute", "switch"} THEN uncertain ELSE FALSE)
  BY DEF Refused, Told
<1>4. uncertain' \in BOOLEAN /\ pending' \in Requests /\ known' \in 0..MaxRequests /\ unknown' \subseteq unknown
  BY <1>3, RecordKinds DEF CatalogInv, CatalogTyped
<1>5. view' \in Views /\ view'.status \in {"error", "anonymous"}
  <2>1. Failed \in Views /\ Failed.status = "error"
    BY <1>4, FailedView
  <2>2. Blank("anonymous") \in Views /\ Blank("anonymous").status = "anonymous"
    BY BlankViews
  <2> QED BY <2>1, <2>2 DEF Refused
<1>6. Doubt'
  <2>1. known' = 0 /\ unknown' # {} => uncertain'
    <3>1. CASE m.op = "request"
      BY <1>1, <1>3, <3>1 DEF CatalogInv, Writing
    <3>2. CASE m.op \in {"permit", "execute", "switch"}
      BY <1>3, <3>2 DEF CatalogInv, Doubt
    <3>3. CASE m.op \in {"approve", "reject", "revoke"}
      <4>1. writer.id = known /\ writer.id # 0
        BY <1>1, <3>3 DEF CatalogInv, Writing, Commands
      <4> QED BY <1>3, <4>1
    <3> QED BY <1>1, <3>1, <3>2, <3>3 DEF Writers, Commands
  <2> QED BY <1>3, <1>4, <2>1 DEF CatalogInv, Doubt
<1>7. known' # 0 \/ floor = 0
  BY <1>3, FloorType DEF CatalogInv, CatalogTyped, Floor
<1>8. known' \in Ids => floor <= rows'[known'].version
  BY <1>2, <1>3, RecordKinds DEF CatalogInv, Floor, FloorNow
<1>9. CatalogInv' /\ OneDoubt /\ view.status = "loading"
  BY <1>1, <1>2, <1>3, <1>4, <1>5, <1>6, <1>7, <1>8, WriteEnded DEF ViewTrue
<1> QED BY <1>5, <1>9 DEF Kept, Fresh

LEMMA ServeStep ==
  ASSUME CatalogInv, NEW m \in net, Serve(m)
  PROVE  Kept
<1>1. net' = net \ {m} /\ net' \subseteq Messages /\ (\A n \in net' : n.op # "switch" => n.id # 0)
  BY DEF Serve, CatalogInv, CatalogTyped
<1>2. CASE Accept(m) /\ UNCHANGED controller
  BY <1>1, <1>2, AcceptGrows, Unheard DEF CatalogInv
<1>3. CASE Refuse(m) /\ UNCHANGED controller
  <2>1. \A id \in Ids : rows[id].version \in Nat
    BY DEF CatalogInv, CatalogTyped, Rows
  <2>2. Grows
    BY <1>3, <2>1 DEF Refuse, Grows, CatalogInv, CatalogTyped
  <2> QED BY <1>1, <1>3, <2>2, Unheard
<1> QED BY <1>1, <1>2, <1>3, HeardStep, RefusedStep DEF Serve

-----------------------------------------------------------------------------
(* The ends of a write, and the page that opens on a recorded request.      *)

LEMMA StillThere ==
  ASSUME CatalogInv, UNCHANGED <<session, rows, catalog>>
  PROVE  Grows
<1>1. \A id \in Ids : rows[id].version \in Nat
  BY DEF CatalogInv, CatalogTyped, Rows
<1> QED BY <1>1 DEF Grows, CatalogInv, CatalogTyped

LEMMA FailedStep ==
  ASSUME CatalogInv, WriteFails
  PROVE  Kept
<1>1. Busy /\ writer.phase = "sent" /\ writer.live
  BY DEF WriteFails, CatalogInv, Writing
<1>2. /\ UNCHANGED <<session, rows, catalog, net, mode, known, pending, uncertain, readers, unknown, floor>>
      /\ WriteEnds /\ view' = Failed
  BY DEF WriteFails, server
<1>3. uncertain' \in BOOLEAN /\ pending' \in Requests /\ known' \in 0..MaxRequests /\ Grows
  BY <1>2, StillThere DEF CatalogInv, CatalogTyped
<1>4. view' \in Views /\ view'.status = "error"
  BY <1>2, <1>3, FailedView
<1>5. Doubt' /\ (known' # 0 \/ floor = 0)
  BY <1>2, FloorType DEF CatalogInv, CatalogTyped, Floor, Doubt
<1>6. known' \in Ids => floor <= rows'[known'].version
  BY <1>2, RecordKinds DEF CatalogInv, Floor, FloorNow
<1>7. CatalogInv' /\ OneDoubt /\ view.status = "loading"
  BY <1>1, <1>2, <1>3, <1>4, <1>5, <1>6, WriteEnded DEF ViewTrue
<1> QED BY <1>4, <1>7 DEF Kept, Fresh

(* A task that finds itself superseded, or a reload that is over, leaves    *)
(* everything as it is.                                                     *)
LEMMA WriteDropped ==
  ASSUME CatalogInv, WriteEnds,
         UNCHANGED <<session, rows, catalog, net, mode, known, pending, uncertain, view, readers, unknown, floor>>
  PROVE  Kept
<1>1. writer' = NoTask /\ ~Busy'
  BY DEF WriteEnds, Busy
<1>2. CatalogTyped'
  BY <1>1 DEF CatalogInv, CatalogTyped, Ids
<1>3. ViewTrue' /\ Doubt' /\ Floor' /\ Loading' /\ Writing'
  BY <1>1 DEF CatalogInv, ViewTrue, Doubt, Floor, FloorNow, Loading, Writing
<1> QED BY <1>2, <1>3 DEF CatalogInv, Kept, Fresh, OneDoubt

LEMMA FinishStep ==
  ASSUME CatalogInv, FinishWrite
  PROVE  Kept
<1>1. Busy /\ writer.phase = "digest" /\ writer \in Writers
  BY DEF FinishWrite, CatalogInv, CatalogTyped, Busy
<1>2. UNCHANGED <<session, rows, catalog, mode, readers, unknown, floor>> /\ Grows
  BY StillThere DEF FinishWrite
<1>3. writer.op # "switch" /\ writer.id # 0 /\ writer.id \in 0..MaxRequests
  BY <1>1 DEF CatalogInv, Writing, Writers
<1>4. OneDoubt
  BY <1>2 DEF OneDoubt
<1>5. CASE ~writer.live
  BY <1>2, <1>5, WriteDropped DEF FinishWrite, Check
<1>6. CASE writer.live /\ writer.op = "permit"
  <2>1. view.status = "loading" /\ (\A t \in readers : ~t.live /\ t.phase = "digest")
    BY <1>1, <1>6, NoneLive
  <2>2. UNCHANGED <<known, pending, uncertain, view>>
    BY <1>6 DEF FinishWrite, Check
  <2>3. PICK version \in Nat : version = writer.row.version
    BY <1>1 DEF Writers, Rows
  <2>4. writer' = [writer EXCEPT !.op = "execute", !.version = version, !.copy = 1, !.phase = "sent"]
    BY <1>6, <2>3 DEF FinishWrite, Check
  <2>5. /\ writer' \in Writers /\ writer'.op = "execute" /\ writer'.phase = "sent" /\ writer'.live
        /\ writer'.id = writer.id
    BY <1>1, <1>6, <2>4 DEF Writers, Commands
  <2>6. PICK m : m = [op |-> "execute", id |-> writer.id, version |-> version, ctx |-> writer.ctx, copy |-> 1]
    OBVIOUS
  <2>7. m \in Messages /\ m.id # 0
    BY <1>1, <1>3, <2>6 DEF Messages, Writers, Commands
  <2>8. net' = net \cup {m}
    BY <1>6, <2>3, <2>6 DEF FinishWrite, Check
  <2>9. CatalogTyped'
    BY <1>2, <2>2, <2>5, <2>7, <2>8 DEF CatalogInv, CatalogTyped, Ids
  <2>10. ViewTrue' /\ Doubt' /\ Floor'
    BY <1>2, <2>2 DEF CatalogInv, ViewTrue, Doubt, Floor, FloorNow
  <2>11. Loading'
    BY <1>2, <2>1 DEF Loading
  <2>12. writer.id = known
    BY <1>1, <1>6 DEF CatalogInv, Writing, Commands
  <2>13. Writing'
    BY <1>3, <2>1, <2>2, <2>5, <2>12 DEF Writing
  <2> QED BY <1>4, <2>2, <2>9, <2>10, <2>11, <2>13 DEF CatalogInv, Kept, Fresh
<1>7. CASE writer.live /\ writer.op # "permit"
  <2>1. view.status = "loading" /\ writer.row.version >= floor
    BY <1>1, <1>7 DEF CatalogInv, Writing
  <2>2. /\ WriteEnds /\ UNCHANGED net /\ known' = writer.id /\ pending' = NoRequest /\ uncertain' = FALSE
        /\ view' = Ready(writer.ctx, writer.id, writer.row, 0)
    BY <1>7 DEF FinishWrite, Check
  <2>3. writer.ctx \in Nat /\ writer.row \in Rows /\ 0 \in Nat /\ uncertain' \in BOOLEAN
    BY <1>1, <2>2 DEF Writers
  <2>4. /\ view' \in Views /\ view'.id = writer.id /\ view'.uncertain = uncertain'
        /\ (view'.retry => pending' # NoRequest) /\ view'.row = writer.row
    BY <1>3, <2>2, <2>3, ShownViews
  <2>5. ViewTrue' /\ Doubt'
    BY <1>3, <2>2, <2>4 DEF ViewTrue, Doubt
  <2>6. writer.id \in Ids => floor <= rows'[writer.id].version
    <3>1. CASE writer.op = "request"
      <4>1. floor = 0
        BY <1>1, <3>1, FloorType DEF CatalogInv, Writing, Floor, CatalogTyped
      <4> QED BY <1>2, <4>1 DEF Grows, Rows
    <3>2. CASE writer.op \in Commands
      <4>1. writer.id = known
        BY <1>1, <3>2 DEF CatalogInv, Writing
      <4> QED BY <1>2, <1>3, <4>1, FloorHolds
    <3> QED BY <1>1, <1>3, <3>1, <3>2 DEF Writers
  <2>7. pending' \in Requests /\ known' \in 0..MaxRequests /\ known' # 0
    BY <1>3, <2>2, RecordKinds
  <2>8. CatalogInv'
    BY <1>1, <1>2, <1>7, <2>2, <2>3, <2>4, <2>5, <2>6, <2>7, WriteEnded
  <2> QED BY <1>4, <2>1, <2>4, <2>8 DEF Kept, Fresh
<1> QED BY <1>5, <1>6, <1>7

LEMMA WriteStep ==
  ASSUME CatalogInv, CAWrite
  PROVE  Kept
<1>1. CASE SwitchEnds
  BY <1>1, WriteDropped DEF SwitchEnds, server
<1> QED BY <1>1, FailedStep, FinishStep DEF CAWrite

LEMMA RepeatStep ==
  ASSUME CatalogInv, Retransmit
  PROVE  Kept
<1>1. Busy /\ writer.phase = "sent" /\ writer \in Writers /\ writer' = [writer EXCEPT !.copy = 2]
  BY DEF Retransmit, CatalogInv, CatalogTyped, Busy
<1>2. UNCHANGED <<session, rows, catalog, mode, known, pending, uncertain, view, readers, unknown, floor>>
  BY DEF Retransmit
<1>3. /\ writer' \in Writers /\ writer'.op = writer.op /\ writer'.id = writer.id /\ writer'.phase = "sent"
      /\ writer'.live = writer.live
  BY <1>1 DEF Writers
<1>4. PICK m : m = [op |-> writer.op, id |-> writer.id, version |-> writer.version, ctx |-> writer.ctx, copy |-> 2]
  OBVIOUS
<1>5. m \in Messages /\ (m.op # "switch" => m.id # 0) /\ net' = net \cup {m}
  BY <1>1, <1>4 DEF Messages, Writers, CatalogInv, Writing, Retransmit
<1>6. CatalogTyped'
  BY <1>2, <1>3, <1>5 DEF CatalogInv, CatalogTyped, Ids
<1>7. ViewTrue' /\ Doubt' /\ Floor'
  BY <1>2 DEF CatalogInv, ViewTrue, Doubt, Floor, FloorNow
<1>8. Loading' /\ Writing'
  BY <1>1, <1>2, <1>3 DEF CatalogInv, Loading, Writing
<1> QED BY <1>2, <1>6, <1>7, <1>8 DEF CatalogInv, Kept, Fresh, OneDoubt

LEMMA NavigateStep ==
  ASSUME CatalogInv, Navigate
  PROVE  Kept
<1>1. /\ mode' = "inspect" /\ pending' = NoRequest /\ uncertain' = FALSE /\ unknown' = {} /\ view' = Blank("loading")
      /\ floor' = FloorNow /\ writer' = NoTask /\ readers' = {Reading("page", FALSE)}
      /\ UNCHANGED <<session, rows, catalog, net, known>> /\ known # 0
  BY DEF Navigate, server, CatalogInv, ViewTrue
<1>2. view' \in Views /\ view'.status = "loading"
  BY <1>1, BlankViews
<1>3. PICK t : t = Reading("page", FALSE)
  OBVIOUS
<1>4. t \in Tasks /\ t.live /\ t.phase = "session" /\ readers' = {t}
  BY <1>1, <1>3, NewReader
<1>5. ~Busy' /\ pending' \in Requests /\ floor' \in Nat
  BY <1>1, RecordKinds, FloorType DEF Busy, CatalogInv
<1>6. CatalogTyped'
  BY <1>1, <1>2, <1>4, <1>5 DEF CatalogInv, CatalogTyped, Ids
<1>7. ViewTrue' /\ Doubt' /\ Loading' /\ Writing'
  BY <1>1, <1>2, <1>4, <1>5 DEF ViewTrue, Doubt, Loading, Writing
<1>8. Floor'
  BY <1>1, FloorType DEF Floor, FloorNow, CatalogInv
<1> QED BY <1>1, <1>2, <1>6, <1>7, <1>8 DEF CatalogInv, Kept, Fresh, OneDoubt

LEMMA CatalogStep == CatalogInv /\ [CANext]_caVars => Kept
<1> SUFFICES ASSUME CatalogInv, [CANext]_caVars PROVE Kept
  OBVIOUS
<1>1. CASE UNCHANGED caVars
  <2>1. UNCHANGED controller /\ UNCHANGED <<session, rows, catalog, net>>
    BY <1>1 DEF caVars, server
  <2> QED BY <2>1, StillThere, Unheard DEF CatalogInv, CatalogTyped
<1>2. CASE CANext
  BY <1>2, LoadStep, WriteStep, Reloaded, Suspended, Asked, AskedAgain, Switched, RepeatStep, NavigateStep,
     Commanded, ServeStep, WorldMoves DEF CANext
<1> QED BY <1>1, <1>2

LEMMA CatalogStart == CAInit => CatalogInv
<1> SUFFICES ASSUME CAInit PROVE CatalogInv
  OBVIOUS
<1>1. /\ catalog = 1 /\ net = {} /\ pending = NoRequest /\ uncertain = FALSE
      /\ view = Blank("loading") /\ readers = {Reading("page", FALSE)}
      /\ writer = NoTask /\ unknown = {} /\ floor = rows[1].version
  BY DEF CAInit
<1>2. view \in Views /\ view.status = "loading" /\ pending \in Requests
  BY <1>1, BlankViews, RecordKinds
<1>3. PICK t : t = Reading("page", FALSE)
  OBVIOUS
<1>4. t \in Tasks /\ t.live /\ t.phase = "session" /\ readers = {t}
  BY <1>1, <1>3, NewReader
<1>5. session \in SessionRecords
  BY DEF CAInit, SessionInit, SessionRecords
<1>6. 1 \in Ids /\ 1 \in 0..MaxRequests /\ 0 \in 0..MaxRequests
  BY CatalogAssumption DEF Ids
<1>7. /\ mode \in {"request", "inspect"} /\ known \in 0..MaxRequests /\ rows \in [Ids -> Rows]
      /\ floor \in Nat /\ Floor
  <2>1. CASE mode = "request" /\ known = 0 /\ rows = [i \in Ids |-> Absent]
    BY <1>1, <1>6, <2>1, RecordKinds DEF Floor, FloorNow
  <2>2. CASE \E own \in BOOLEAN : /\ mode = "inspect" /\ known = 1
               /\ rows = [i \in Ids |-> IF i = 1 THEN [state |-> "pending", version |-> 1, bound |-> 1, own |-> own] ELSE Absent]
    <3>1. PICK own \in BOOLEAN : /\ mode = "inspect" /\ known = 1
               /\ rows = [i \in Ids |-> IF i = 1 THEN [state |-> "pending", version |-> 1, bound |-> 1, own |-> own] ELSE Absent]
      BY <2>2
    <3>2. PICK row : row = [state |-> "pending", version |-> 1, bound |-> 1, own |-> own]
      OBVIOUS
    <3>3. row \in Rows /\ row.version = 1
      BY <3>2 DEF Rows, Open
    <3> QED BY <1>1, <1>6, <3>1, <3>2, <3>3, RecordKinds DEF Floor, FloorNow
  <2> QED BY <2>1, <2>2 DEF CAInit
<1>8. CatalogTyped
  BY <1>1, <1>2, <1>4, <1>5, <1>7 DEF CatalogTyped
<1>9. ViewTrue /\ Doubt /\ Loading /\ Writing
  BY <1>1, <1>2, <1>4 DEF ViewTrue, Doubt, Loading, Writing, Busy
<1> QED BY <1>7, <1>8, <1>9 DEF CatalogInv

LEMMA CatalogAlways == CatalogSpec => []CatalogInv
BY CatalogStart, CatalogStep, PTL DEF CatalogSpec, Kept

(* A window that has not heard what became of a request sends no other one, *)
(* whatever is lost, late or answered out of turn (#pending, #uncertain).   *)
THEOREM NewIdAlwaysAfterAnswer == CatalogSpec => NewIdOnlyAfterAnswer
<1>1. CatalogInv /\ [CANext]_caVars => [\A id \in unknown' : id \notin unknown => unknown = {}]_caVars
  BY CatalogStep DEF Kept, OneDoubt
<1> QED BY <1>1, CatalogAlways, PTL DEF CatalogSpec, NewIdOnlyAfterAnswer

(* A page that shows an approval shows it at least as new as it was when    *)
(* the page last began to load, and after a suspension it loads first       *)
(* (#generation, begin, suspend).                                           *)
THEOREM StaleNeverAppears == CatalogSpec => StaleNeverShown
<1>1. CatalogInv /\ [CANext]_caVars => [view' # view =>
        /\ view.status = "suspended" => view'.status = "loading"
        /\ view'.status = "ready" => view'.row.version >= floor]_caVars
  BY CatalogStep DEF Kept, Fresh
<1> QED BY <1>1, CatalogAlways, PTL DEF CatalogSpec, StaleNeverShown
=============================================================================
