--------------------------- MODULE LiveViewProofs ---------------------------
(***************************************************************************)
(* Theorems about what a page shows live, for any number of publishers,    *)
(* changes and events under way.                                           *)
(***************************************************************************)
EXTENDS LiveView, SequenceTheorems, TLAPS

-----------------------------------------------------------------------------
(* Events under way: one is added at the end, the first one arrives.       *)

LEMMA Added ==
  ASSUME NEW S, NEW s \in Seq(S), NEW x \in S
  PROVE  /\ Append(s, x) \in Seq(S) /\ Append(s, x) # <<>>
         /\ Len(Append(s, x)) = Len(s) + 1 /\ Len(s) \in Nat
         /\ \A i \in 1..Len(s) : Append(s, x)[i] = s[i]
         /\ Append(s, x)[Len(Append(s, x))] = x
BY AppendProperties, LenProperties

LEMMA Taken ==
  ASSUME NEW S, NEW s \in Seq(S), s # <<>>
  PROVE  /\ Tail(s) \in Seq(S) /\ Head(s) \in S /\ Head(s) = s[1]
         /\ Len(s) \in Nat /\ Len(s) > 0 /\ Len(Tail(s)) = Len(s) - 1
         /\ \A i \in 1..Len(Tail(s)) : Tail(s)[i] = s[i + 1]
         /\ Tail(s) = <<>> => Head(s) = s[Len(s)]
         /\ Tail(s) # <<>> => Tail(s)[Len(Tail(s))] = s[Len(s)]
<1>1. /\ Tail(s) \in Seq(S) /\ Head(s) \in S /\ Head(s) = s[1]
      /\ Len(s) \in Nat /\ Len(s) > 0 /\ Len(Tail(s)) = Len(s) - 1
      /\ \A i \in 1..Len(Tail(s)) : Tail(s)[i] = s[i + 1]
  BY HeadTailProperties, EmptySeq
<1>0. Len(<<>>) = 0
  OBVIOUS
<1>4. Tail(s) = <<>> => Len(Tail(s)) = 0
  BY <1>0, Zenon
<1>2. Tail(s) = <<>> => Len(s) = 1
  BY <1>1, <1>4
<1>3. Tail(s) # <<>> => Len(Tail(s)) > 0
  BY <1>1, EmptySeq
<1> QED BY <1>1, <1>2, <1>3

-----------------------------------------------------------------------------
(* What a change of the counter by p comes to.                             *)
LEMMA Changed ==
  ASSUME TypeOK, NEW p \in Publishers, Change(p)
  PROVE  /\ version' = version + 1 /\ version' \in Nat
         /\ outbox' \in [Publishers -> Seq(Nat)]
         /\ outbox'[p] = Append(outbox[p], version') /\ outbox'[p] # <<>>
         /\ Len(outbox'[p]) = Len(outbox[p]) + 1
         /\ \A i \in 1..Len(outbox[p]) : outbox'[p][i] = outbox[p][i]
         /\ outbox'[p][Len(outbox'[p])] = version'
         /\ \A q \in Publishers \ {p} : outbox'[q] = outbox[q]
<1>1. outbox[p] \in Seq(Nat) /\ version + 1 \in Nat
  BY DEF TypeOK
<1>2. outbox' = [outbox EXCEPT ![p] = Append(outbox[p], version + 1)]
  BY DEF Change, NewCount
<1>3. outbox'[p] = Append(outbox[p], version + 1)
  BY <1>2 DEF TypeOK
<1>4. Append(outbox[p], version + 1) \in Seq(Nat)
  BY <1>1
<1>5. outbox' \in [Publishers -> Seq(Nat)]
  BY <1>2, <1>4 DEF TypeOK
<1>6. \A q \in Publishers \ {p} : outbox'[q] = outbox[q]
  BY <1>2 DEF TypeOK
<1>7. version' = version + 1
  BY DEF Change
<1> DEFINE a == Append(outbox[p], version + 1)
<1>8. /\ a # <<>> /\ Len(a) = Len(outbox[p]) + 1 /\ a[Len(a)] = version + 1
      /\ \A i \in 1..Len(outbox[p]) : a[i] = outbox[p][i]
  BY <1>1, Added
<1> HIDE DEF a
<1>9. outbox'[p] = a
  BY <1>3 DEF a
<1> QED BY <1>1, <1>3, <1>5, <1>6, <1>7, <1>8, <1>9

(* The steps that change the counter with an event.                        *)
Changes(p) == Other(p) \/ Reserve(p) \/ GiveBack(p) \/ Take(p)

(* The event p publishes next.                                             *)
LEMMA Unqueued ==
  ASSUME TypeOK, NEW p \in Publishers, outbox[p] # <<>>,
         outbox' = [outbox EXCEPT ![p] = Tail(@)]
  PROVE  /\ outbox' \in [Publishers -> Seq(Nat)]
         /\ outbox'[p] = Tail(outbox[p]) /\ Head(outbox[p]) \in Nat
         /\ Len(outbox[p]) \in Nat /\ Len(outbox[p]) > 0 /\ Head(outbox[p]) = outbox[p][1]
         /\ Len(outbox'[p]) = Len(outbox[p]) - 1
         /\ \A i \in 1..Len(outbox'[p]) : outbox'[p][i] = outbox[p][i + 1]
         /\ outbox'[p] = <<>> => Head(outbox[p]) = outbox[p][Len(outbox[p])]
         /\ outbox'[p] # <<>> => outbox'[p][Len(outbox'[p])] = outbox[p][Len(outbox[p])]
         /\ \A q \in Publishers \ {p} : outbox'[q] = outbox[q]
<1>1. outbox[p] \in Seq(Nat)
  BY DEF TypeOK
<1>2. outbox'[p] = Tail(outbox[p]) /\ \A q \in Publishers \ {p} : outbox'[q] = outbox[q]
  BY DEF TypeOK
<1>3. Tail(outbox[p]) \in Seq(Nat)
  BY <1>1, Taken
<1>4. outbox' \in [Publishers -> Seq(Nat)]
  BY <1>3 DEF TypeOK
<1> QED BY <1>1, <1>2, <1>4, Taken

-----------------------------------------------------------------------------
LEMMA TypeInit == Init => TypeOK
<1>1. "pending" \in Statuses
  BY DEF Statuses
<1>2. <<>> \in Seq(Nat) /\ <<>> \in Seq(Statuses)
  BY EmptySeq
<1> SUFFICES ASSUME Init PROVE TypeOK
  OBVIOUS
<1>3. outbox \in [Publishers -> Seq(Nat)] /\ reserving \in [Publishers -> Nat \cup {None}]
  BY <1>2 DEF Init
<1>4. stockWire \in Seq(Nat) /\ orderWire \in Seq(Statuses)
  BY <1>2 DEF Init
<1>5. status \in Statuses \cup {"none"} /\ buyAt \in {"no", "asked", "taken", "recorded", "refused", "over"}
  BY <1>1 DEF Init
<1> QED BY <1>3, <1>4, <1>5 DEF Init, TypeOK

LEMMA AfterType == \A s \in DOMAIN After : s \in Statuses /\ After[s] \in Statuses
BY DEF After, Statuses

LEMMA TypeStep == TypeOK /\ [Next]_vars => TypeOK'
<1> SUFFICES ASSUME TypeOK, [Next]_vars PROVE TypeOK'
  OBVIOUS
<1> USE DEF counter, order, socket, buying, view, stockPast, orderPast
<1>1. ASSUME NEW p \in Publishers, Changes(p) PROVE TypeOK'
  <2>1. Change(p) /\ version' \in Nat /\ outbox' \in [Publishers -> Seq(Nat)] /\ version' = version + 1
    BY <1>1, Changed DEF Changes, Other, Reserve, GiveBack, Take
  <2>2. overlapped' \in BOOLEAN /\ missed' \in BOOLEAN
    BY <2>1 DEF Change, TypeOK
  <2>3. reserving' \in [Publishers -> Nat \cup {None}]
    BY <1>1, <2>1 DEF Changes, Other, Reserve, GiveBack, Take, TypeOK
  <2>4. told' \in Statuses \cup {"refund", None}
    BY <1>1 DEF Changes, Other, Reserve, GiveBack, Take, TypeOK, Statuses
  <2>5. quote' \in Nat /\ buyAt' \in {"no", "asked", "taken", "recorded", "refused", "over"}
    BY <1>1, <2>1 DEF Changes, Other, Reserve, GiveBack, Take, TypeOK
  <2>6. UNCHANGED <<status, socket, page, mine, view, orderPast>>
    BY <1>1 DEF Changes, Other, Reserve, GiveBack, Take
  <2> QED BY <2>1, <2>2, <2>3, <2>4, <2>5, <2>6 DEF TypeOK
<1>2. ASSUME NEW p \in Publishers, Reserved(p) PROVE TypeOK'
  <2>1. outbox[p] \in Seq(Nat) /\ reserving[p] \in Nat
    BY <1>2 DEF Reserved, TypeOK
  <2>2. Append(outbox[p], reserving[p]) \in Seq(Nat)
    BY <2>1
  <2> QED BY <1>2, <2>2 DEF Reserved, TypeOK
<1>3. ASSUME NEW p \in Publishers, ReserveFails(p) PROVE TypeOK'
  BY <1>3 DEF ReserveFails, TypeOK
<1>4. ASSUME NEW p \in Publishers, Publish(p) PROVE TypeOK'
  <2>1. outbox' \in [Publishers -> Seq(Nat)] /\ Head(outbox[p]) \in Nat
    BY <1>4, Unqueued DEF Publish
  <2>2. stockWire' \in Seq(Nat)
    <3>1. Append(stockWire, Head(outbox[p])) \in Seq(Nat)
      BY <2>1, Added DEF TypeOK
    <3> QED BY <1>4, <3>1 DEF Publish, TypeOK
  <2>3. missed' \in BOOLEAN
    BY <1>4 DEF Publish, TypeOK
  <2> QED BY <1>4, <2>1, <2>2, <2>3 DEF Publish, TypeOK
<1>5. ASSUME NEW p \in Publishers, LosePublish(p) PROVE TypeOK'
  <2>1. outbox' \in [Publishers -> Seq(Nat)]
    BY <1>5, Unqueued DEF LosePublish
  <2> QED BY <1>5, <2>1 DEF LosePublish, TypeOK
<1>6. ASSUME Advance \/ Fail \/ LoseTell PROVE TypeOK'
  <2>1. CASE Advance
    BY <2>1, AfterType DEF Advance, TypeOK, Announced
  <2>2. CASE Fail
    BY <2>2 DEF Fail, TypeOK, Statuses
  <2>3. CASE LoseTell
    BY <2>3 DEF LoseTell, TypeOK
  <2> QED BY <1>6, <2>1, <2>2, <2>3
<1>7. ASSUME Tell PROVE TypeOK'
  <2>1. orderWire' \in Seq(Statuses)
    <3>1. Append(orderWire, told) \in Seq(Statuses)
      BY <1>7, Added DEF Tell, TypeOK
    <3> QED BY <1>7, <3>1 DEF Tell, TypeOK
  <2>2. untold' \in BOOLEAN
    BY <1>7 DEF Tell, TypeOK
  <2> QED BY <1>7, <2>1, <2>2 DEF Tell, TypeOK
<1>8. ASSUME (\E r \in Rooms : Join(r)) \/ NotJoined \/ Disconnect PROVE TypeOK'
  <2>1. CASE (\E r \in Rooms : Join(r)) \/ NotJoined
    BY <2>1 DEF Join, NotJoined, TypeOK
  <2>2. CASE Disconnect
    BY <2>2, EmptySeq DEF Disconnect, TypeOK
  <2> QED BY <1>8, <2>1, <2>2
<1>9. ASSUME OnStock PROVE TypeOK'
  <2>1. Tail(stockWire) \in Seq(Nat) /\ Head(stockWire) \in Nat
    BY <1>9, Taken DEF OnStock, TypeOK
  <2> QED BY <1>9, <2>1 DEF OnStock, TypeOK
<1>10. ASSUME OnOrder PROVE TypeOK'
  <2>1. Tail(orderWire) \in Seq(Statuses) /\ Head(orderWire) \in Statuses
    BY <1>10, Taken DEF OnOrder, TypeOK
  <2> QED BY <1>10, <2>1 DEF OnOrder, RowsUpdated, TypeOK
<1>11. ASSUME PageRead \/ PageShown \/ PageFails PROVE TypeOK'
  <2>1. CASE PageRead
    BY <2>1, LiveAssumption DEF PageRead, TypeOK, Rooms
  <2>2. CASE PageShown
    BY <2>2, LiveAssumption DEF PageShown, TypeOK, Rooms
  <2>3. CASE PageFails
    BY <2>3 DEF PageFails, TypeOK
  <2> QED BY <1>11, <2>1, <2>2, <2>3
<1>12. ASSUME TokenSet \/ MineRead \/ MineShown \/ MineFails PROVE TypeOK'
  <2>1. CASE TokenSet
    BY <2>1 DEF TokenSet, TypeOK, Rooms
  <2>2. CASE MineRead \/ MineShown \/ MineFails
    BY <2>2 DEF MineRead, MineShown, MineFails, TypeOK
  <2> QED BY <1>12, <2>1, <2>2
<1>13. ASSUME Buy \/ Record \/ Refuse \/ Bought \/ SoldOut \/ BuyFails PROVE TypeOK'
  <2>0. "pending" \in Statuses
    BY DEF Statuses
  <2>1. CASE Buy \/ Record
    BY <2>0, <2>1 DEF Buy, Record, TypeOK
  <2>2. CASE Refuse \/ SoldOut
    BY <2>2 DEF Refuse, SoldOut, TypeOK
  <2>3. CASE Bought
    BY <2>3 DEF Bought, TypeOK, Statuses
  <2>4. CASE BuyFails
    BY <2>4 DEF BuyFails, TypeOK
  <2> QED BY <1>13, <2>1, <2>2, <2>3, <2>4
<1>14. CASE UNCHANGED vars
  BY <1>14 DEF vars, TypeOK
<1> QED
  BY <1>1, <1>2, <1>3, <1>4, <1>5, <1>6, <1>7, <1>8, <1>9, <1>10, <1>11, <1>12, <1>13, <1>14
     DEF Next, Changes

-----------------------------------------------------------------------------
(* No report is newer than the counter, which only grows.                  *)
LEMMA ReportsStep == TypeOK /\ Reports /\ [Next]_vars => Reports'
<1> SUFFICES ASSUME TypeOK, Reports, [Next]_vars PROVE Reports'
  OBVIOUS
<1> USE DEF counter, order, socket, buying, view, stockPast, orderPast
<1>1. ASSUME NEW p \in Publishers, Changes(p) PROVE Reports'
  <2>1. Change(p) /\ version' = version + 1
    BY <1>1, Changed DEF Changes, Other, Reserve, GiveBack, Take
  <2>2. ASSUME NEW q \in Publishers, NEW i \in 1..Len(outbox'[q]) PROVE outbox'[q][i] <= version'
    <3>1. CASE q = p
      <4>1. i \in 1..Len(outbox[p]) \/ i = Len(outbox'[p])
        BY <2>1, <2>2, <3>1, Changed DEF TypeOK
      <4>2. ASSUME i \in 1..Len(outbox[p]) PROVE outbox'[p][i] <= version'
        <5>1. outbox[p][i] \in Nat /\ outbox[p][i] <= version
          BY <4>2, ElementOfSeq DEF Reports, TypeOK
        <5>2. outbox'[p][i] = outbox[p][i]
          BY <2>1, <4>2, Changed
        <5> QED BY <2>1, <5>1, <5>2 DEF TypeOK
      <4>3. outbox'[p][Len(outbox'[p])] = version' /\ version' \in Nat
        BY <2>1, Changed
      <4> QED BY <3>1, <4>1, <4>2, <4>3
    <3>2. CASE q # p
      <4>1. outbox'[q] = outbox[q] /\ outbox[q] \in Seq(Nat)
        BY <2>1, <3>2, Changed DEF TypeOK
      <4>2. outbox[q][i] \in Nat /\ outbox[q][i] <= version
        BY <2>2, <4>1, ElementOfSeq DEF Reports
      <4> QED BY <2>1, <4>1, <4>2 DEF TypeOK
    <3> QED BY <3>1, <3>2
  <2>3. ASSUME NEW i \in 1..Len(stockWire) PROVE stockWire[i] <= version'
    <3>1. stockWire[i] \in Nat
      BY <2>3, ElementOfSeq DEF TypeOK
    <3> QED BY <2>1, <2>3, <3>1 DEF Reports, TypeOK
  <2>4. UNCHANGED <<stockWire, page, shown>> /\ quote' \in {quote, version'}
    BY <1>1, <2>1 DEF Changes, Other, Reserve, GiveBack, Take
  <2>5. \A q \in Publishers : reserving'[q] \in {reserving[q], version'}
    BY <1>1, <2>1 DEF Changes, Other, Reserve, GiveBack, Take, TypeOK
  <2>6. ASSUME NEW q \in Publishers, reserving'[q] \in Nat PROVE reserving'[q] <= version'
    <3>1. reserving[q] \in Nat => reserving[q] <= version
      BY DEF Reports
    <3>2. version \in Nat
      BY DEF TypeOK
    <3> QED BY <2>1, <2>5, <2>6, <3>1, <3>2
  <2>7. page' \in Nat => page' <= version'
    BY <2>1, <2>4 DEF Reports, TypeOK
  <2>8. shown' \in Nat => shown' <= version'
    BY <2>1, <2>4 DEF Reports, TypeOK
  <2>9. quote' <= version'
    BY <2>1, <2>4 DEF Reports, TypeOK
  <2> QED BY <2>2, <2>3, <2>4, <2>6, <2>7, <2>8, <2>9 DEF Reports
<1>2. ASSUME NEW p \in Publishers, Reserved(p) PROVE Reports'
  <2>1. outbox[p] \in Seq(Nat) /\ reserving[p] \in Nat
    BY <1>2 DEF Reserved, TypeOK
  <2>2. outbox'[p] = Append(outbox[p], reserving[p])
    BY <1>2 DEF Reserved, TypeOK
  <2>3. \A i \in 1..Len(outbox'[p]) : outbox'[p][i] <= version
    BY <2>1, <2>2, Added DEF Reports
  <2>4. \A q \in Publishers \ {p} : outbox'[q] = outbox[q]
    BY <1>2 DEF Reserved, TypeOK
  <2>5. \A q \in Publishers : reserving'[q] \in {reserving[q], None}
    BY <1>2 DEF Reserved, TypeOK
  <2>6. UNCHANGED <<version, stockWire, page, shown, quote>>
    BY <1>2 DEF Reserved
  <2> QED BY <2>3, <2>4, <2>5, <2>6, LiveAssumption DEF Reports
<1>3. ASSUME NEW p \in Publishers, ReserveFails(p) PROVE Reports'
  <2>1. \A q \in Publishers : \A i \in 1..Len(outbox[q]) : outbox[q][i] \in Nat
    BY ElementOfSeq DEF TypeOK
  <2>2. \A i \in 1..Len(stockWire) : stockWire[i] \in Nat
    BY ElementOfSeq DEF TypeOK
  <2>3. version' = version + 1 /\ UNCHANGED <<outbox, stockWire, page, shown, quote>>
    <3>1. version' = version + 1 /\ UNCHANGED <<outbox, socket, page, buying, view>>
      BY <1>3 DEF ReserveFails
    <3> QED BY <3>1 DEF socket, buying, view
  <2>4. \A q \in Publishers : reserving'[q] \in {reserving[q], None}
    <3>1. reserving' = [reserving EXCEPT ![p] = None]
      BY <1>3, Zenon DEF ReserveFails
    <3>2. reserving \in [Publishers -> Nat \cup {None}]
      BY DEF TypeOK
    <3> QED BY <3>1, <3>2
  <2>5. version \in Nat /\ reserving \in [Publishers -> Nat \cup {None}]
    BY DEF TypeOK
  <2>6. \A q \in Publishers :
          /\ \A i \in 1..Len(outbox'[q]) : outbox'[q][i] <= version'
          /\ reserving'[q] \in Nat => reserving'[q] <= version'
    BY <2>1, <2>3, <2>4, <2>5, LiveAssumption DEF Reports
  <2>7. /\ \A i \in 1..Len(stockWire') : stockWire'[i] <= version'
        /\ page' \in Nat => page' <= version'
        /\ shown' \in Nat => shown' <= version'
        /\ quote' <= version'
    BY <2>2, <2>3 DEF Reports, TypeOK
  <2> QED BY <2>6, <2>7 DEF Reports
<1>4. ASSUME NEW p \in Publishers, Publish(p) \/ LosePublish(p) PROVE Reports'
  <2>1. \A q \in Publishers : \A i \in 1..Len(outbox'[q]) : outbox'[q][i] <= version
    <3>1. outbox[p] # <<>> /\ outbox' = [outbox EXCEPT ![p] = Tail(@)]
      BY <1>4 DEF Publish, LosePublish
    <3>2. \A i \in 1..Len(outbox'[p]) : outbox'[p][i] <= version
      BY <3>1, Unqueued DEF Reports
    <3> QED BY <3>1, <3>2, Unqueued DEF Reports
  <2>2. Head(outbox[p]) \in Nat /\ Head(outbox[p]) <= version
    BY <1>4, Unqueued DEF Publish, LosePublish, Reports
  <2>3. \A i \in 1..Len(stockWire') : stockWire'[i] <= version
    <3>1. stockWire' \in {stockWire, Append(stockWire, Head(outbox[p]))}
      BY <1>4 DEF Publish, LosePublish
    <3> DEFINE a == Append(stockWire, Head(outbox[p]))
    <3>2. /\ Len(a) = Len(stockWire) + 1 /\ Len(stockWire) \in Nat /\ a[Len(a)] = Head(outbox[p])
          /\ \A i \in 1..Len(stockWire) : a[i] = stockWire[i]
      BY <2>2, Added DEF TypeOK
    <3>3. \A i \in 1..Len(stockWire) : stockWire[i] <= version
      BY DEF Reports
    <3> HIDE DEF a
    <3>4. \A i \in 1..Len(a) : a[i] <= version
      BY <2>2, <3>2, <3>3
    <3> QED BY <3>1, <3>3, <3>4 DEF a
  <2>4. UNCHANGED <<version, reserving, page, shown, quote>>
    BY <1>4 DEF Publish, LosePublish
  <2> QED BY <2>1, <2>3, <2>4 DEF Reports
<1>5. ASSUME Disconnect PROVE Reports'
  <2>1. stockWire' = <<>> /\ Len(<<>>) = 0
    BY <1>5 DEF Disconnect
  <2> QED BY <1>5, <2>1 DEF Disconnect, Reports
<1>6. ASSUME OnStock PROVE Reports'
  <2>1. \A i \in 1..Len(stockWire') : stockWire'[i] <= version
    BY <1>6, Taken DEF OnStock, Reports, TypeOK
  <2>2. shown' <= version
    BY <1>6, Taken DEF OnStock, Reports, TypeOK
  <2> QED BY <1>6, <2>1, <2>2 DEF OnStock, Reports
<1>7. ASSUME PageRead \/ PageShown \/ PageFails PROVE Reports'
  BY <1>7, LiveAssumption DEF PageRead, PageShown, PageFails, Reports, TypeOK
<1>8. ASSUME Refuse \/ Bought \/ SoldOut \/ BuyFails PROVE Reports'
  BY <1>8 DEF Refuse, Bought, SoldOut, BuyFails, Reports, TypeOK
<1>9. CASE UNCHANGED <<counter, stockWire, page, quote, shown>>
  BY <1>9 DEF Reports
<1> QED
  BY <1>1, <1>2, <1>3, <1>4, <1>5, <1>6, <1>7, <1>8, <1>9
     DEF Next, Changes, vars, Advance, Fail, Tell, LoseTell, Join, NotJoined, OnOrder,
         TokenSet, MineRead, MineShown, MineFails, Buy, Record

-----------------------------------------------------------------------------
(* Nothing is on the socket for a room that was not joined.                *)
LEMMA JoinedStep == TypeOK /\ Joined /\ [Next]_vars => Joined'
<1> SUFFICES ASSUME TypeOK, Joined, [Next]_vars PROVE Joined'
  OBVIOUS
<1> USE DEF counter, order, socket, buying, view, stockPast, orderPast
<1>1. ASSUME NEW p \in Publishers, Publish(p) PROVE Joined'
  BY <1>1 DEF Publish, Joined
<1>2. ASSUME Tell PROVE Joined'
  BY <1>2 DEF Tell, Joined
<1>3. ASSUME NEW r \in Rooms, Join(r) PROVE Joined'
  BY <1>3 DEF Join, Joined
<1>4. ASSUME NotJoined \/ Disconnect PROVE Joined'
  BY <1>4 DEF NotJoined, Disconnect, Joined
<1>5. ASSUME OnStock \/ OnOrder PROVE Joined'
  BY <1>5 DEF OnStock, OnOrder, Joined
<1>6. ASSUME PageRead \/ PageShown \/ PageFails PROVE Joined'
  BY <1>6, LiveAssumption DEF PageRead, PageShown, PageFails, Joined
<1>7. ASSUME TokenSet PROVE Joined'
  BY <1>7 DEF TokenSet, Joined
<1>8. CASE UNCHANGED <<socket, page>>
  BY <1>8 DEF Joined
<1> QED
  BY <1>1, <1>2, <1>3, <1>4, <1>5, <1>6, <1>7, <1>8
     DEF Next, vars, Other, Reserve, Reserved, ReserveFails, LosePublish, GiveBack, Take,
         Advance, Fail, LoseTell, MineRead, MineShown, MineFails,
         Buy, Record, Refuse, Bought, SoldOut, BuyFails

-----------------------------------------------------------------------------
(* What the page knows of the order.                                       *)
LEMMA StatusFacts ==
  /\ \A s \in DOMAIN After : s \in Statuses /\ After[s] \in Statuses /\ Past[s] \subseteq Past[After[s]]
  /\ \A s \in Statuses : s \in Past[s] /\ s # "none" /\ s # "refund" /\ "pending" \in Past[s]
  /\ Past["none"] = {} /\ Past["pending"] \subseteq Past["failed"]
  /\ "pending" \in Statuses /\ "failed" \in Statuses
BY DEF After, Statuses, Past

LEMMA NoneFacts ==
  /\ None \notin Statuses /\ Asked \notin Statuses /\ None # "none" /\ Asked # "none"
  /\ None # "refund" /\ None \notin Nat /\ Asked \notin Nat /\ Asked # None
BY LiveAssumption DEF Statuses

LEMMA OrderedStep == TypeOK /\ Ordered /\ [Next]_vars => Ordered'
<1> SUFFICES ASSUME TypeOK, Ordered, [Next]_vars PROVE Ordered'
  OBVIOUS
<1> USE StatusFacts, NoneFacts DEF counter, order, socket, buying, view, stockPast, orderPast
<1>1. ASSUME NEW p \in Publishers, Take(p) \/ GiveBack(p) PROVE Ordered'
  BY <1>1 DEF Take, GiveBack, Ordered
<1>2. ASSUME Advance PROVE Ordered'
  BY <1>2 DEF Advance, Announced, Ordered, TypeOK
<1>3. ASSUME Fail PROVE Ordered'
  BY <1>3 DEF Fail, Ordered
<1>4. ASSUME Tell \/ LoseTell PROVE Ordered'
  BY <1>4 DEF Tell, LoseTell, Ordered
<1>5. ASSUME Record PROVE Ordered'
  BY <1>5 DEF Record, Ordered
<1>6. ASSUME Buy \/ Refuse \/ Bought \/ SoldOut \/ BuyFails PROVE Ordered'
  BY <1>6 DEF Buy, Refuse, Bought, SoldOut, BuyFails, Ordered
<1>7. CASE UNCHANGED <<order, buyAt>>
  BY <1>7 DEF Ordered
<1> QED
  BY <1>1, <1>2, <1>3, <1>4, <1>5, <1>6, <1>7
     DEF Next, vars, Other, Reserve, Reserved, ReserveFails, Publish, LosePublish,
         Join, NotJoined, Disconnect, OnStock, OnOrder, PageRead, PageShown, PageFails,
         TokenSet, MineRead, MineShown, MineFails

LEMMA TruthfulStep == TypeOK /\ Ordered /\ Truthful /\ [Next]_vars => Truthful'
<1> SUFFICES ASSUME TypeOK, Ordered, Truthful, [Next]_vars PROVE Truthful'
  OBVIOUS
<1> USE StatusFacts, NoneFacts DEF NeverAhead, counter, order, socket, buying, view, stockPast, orderPast
<1>1. ASSUME Advance \/ Fail PROVE Truthful'
  BY <1>1 DEF Advance, Fail, Truthful
<1>2. ASSUME Record PROVE Truthful'
  <2>1. status = "none" /\ status' = "pending" /\ UNCHANGED <<rows, orderWire, mine>>
    BY <1>2 DEF Record, Ordered
  <2> QED BY <2>1 DEF Truthful
<1>3. ASSUME Tell PROVE Truthful'
  <2>1. told \in Statuses /\ told = status
    BY <1>3 DEF Tell, Ordered
  <2>2. orderWire' \in {orderWire, Append(orderWire, told)} /\ UNCHANGED <<status, rows, mine>>
    BY <1>3 DEF Tell
  <2> DEFINE a == Append(orderWire, told)
  <2>3. /\ Len(a) = Len(orderWire) + 1 /\ Len(orderWire) \in Nat /\ a[Len(a)] = told
        /\ \A i \in 1..Len(orderWire) : a[i] = orderWire[i]
    BY <2>1, Added DEF TypeOK
  <2>4. \A i \in 1..Len(orderWire) : orderWire[i] \in Past[status]
    BY DEF Truthful
  <2> HIDE DEF a
  <2>5. \A i \in 1..Len(a) : i = Len(a) \/ i \in 1..Len(orderWire)
    BY <2>3
  <2>6. \A i \in 1..Len(a) : a[i] \in Past[status]
    BY <2>1, <2>3, <2>4, <2>5
  <2>7. \A i \in 1..Len(orderWire') : orderWire'[i] \in Past[status]
    BY <2>2, <2>4, <2>6 DEF a
  <2> QED BY <2>2, <2>7 DEF Truthful
<1>4. ASSUME OnOrder PROVE Truthful'
  <2>1. /\ Len(Tail(orderWire)) = Len(orderWire) - 1 /\ Len(orderWire) \in Nat /\ Len(orderWire) > 0
        /\ \A i \in 1..Len(Tail(orderWire)) : Tail(orderWire)[i] = orderWire[i + 1]
        /\ Head(orderWire) = orderWire[1]
    BY <1>4, Taken DEF OnOrder, TypeOK
  <2>2. \A i \in 1..Len(orderWire) : orderWire[i] \in Past[status]
    BY DEF Truthful
  <2>3. Head(orderWire) \in Past[status]
    BY <2>1, <2>2
  <2>4. \A i \in 1..Len(Tail(orderWire)) : i + 1 \in 1..Len(orderWire)
    BY <2>1
  <2>5. \A i \in 1..Len(Tail(orderWire)) : Tail(orderWire)[i] \in Past[status]
    BY <2>1, <2>2, <2>4
  <2> QED BY <1>4, <2>3, <2>5 DEF OnOrder, RowsUpdated, Truthful
<1>5. ASSUME Disconnect PROVE Truthful'
  <2>1. orderWire' = <<>> /\ Len(<<>>) = 0
    BY <1>5 DEF Disconnect
  <2> QED BY <1>5, <2>1 DEF Disconnect, Truthful
<1>6. ASSUME TokenSet \/ MineRead \/ MineShown \/ MineFails PROVE Truthful'
  BY <1>6 DEF TokenSet, MineRead, MineShown, MineFails, Truthful, TypeOK
<1>7. ASSUME Bought PROVE Truthful'
  <2>1. "pending" \in Past[status]
    BY <1>7 DEF Bought, Ordered, TypeOK
  <2> QED BY <1>7, <2>1 DEF Bought, Truthful
<1>8. CASE UNCHANGED <<status, rows, orderWire, mine>>
  BY <1>8 DEF Truthful
<1> QED
  BY <1>1, <1>2, <1>3, <1>4, <1>5, <1>6, <1>7, <1>8
     DEF Next, vars, Other, Reserve, Reserved, ReserveFails, Publish, LosePublish, GiveBack, Take,
         LoseTell, Join, NotJoined, OnStock, PageRead, PageShown, PageFails,
         Buy, Refuse, SoldOut, BuyFails

(* Before its row is written nothing is known of an order.                 *)
LEMMA NoneBefore ==
  ASSUME TypeOK, Ordered, Truthful, Record
  PROVE  /\ status = "none" /\ status' = "pending" /\ rows = {} /\ mine \notin Statuses
         /\ orderWire = <<>> /\ orderWire' = <<>>
<1> USE StatusFacts DEF NeverAhead, socket
<1>1. status = "none" /\ status' = "pending" /\ rows = {} /\ mine \notin Statuses
  BY DEF Record, Ordered, Truthful
<1>2. orderWire = <<>>
  <2> SUFFICES ASSUME orderWire # <<>> PROVE FALSE
    OBVIOUS
  <2>1. Len(orderWire) \in Nat /\ Len(orderWire) > 0
    BY Taken DEF TypeOK
  <2>2. orderWire[1] \in Past[status]
    BY <2>1 DEF Truthful
  <2> QED BY <1>1, <2>2
<1> QED BY <1>1, <1>2 DEF Record

(* The events on their way end with the status, whatever replies they      *)
(* overtook.                                                               *)
LEMMA FollowingStep ==
  ASSUME TypeOK, Joined, Ordered, Truthful, ~untold => Following, [Next]_vars
  PROVE  ~untold' => Following'
<1> SUFFICES ASSUME ~untold' PROVE Following'
  OBVIOUS
<1> USE StatusFacts, NoneFacts DEF counter, order, socket, buying, view, stockPast, orderPast
<1>1. ASSUME Advance \/ Fail PROVE Following'
  BY <1>1 DEF Advance, Announced, Fail, Following
<1>2. ASSUME NEW p \in Publishers, GiveBack(p) PROVE Following'
  BY <1>2 DEF GiveBack, Following
<1>3. ASSUME Tell PROVE Following'
  <2>1. told = status /\ told \in Statuses
    BY <1>3 DEF Tell, Ordered
  <2>2. CASE "user" \in rooms
    <3>1. orderWire' # <<>> /\ orderWire'[Len(orderWire')] = status
      BY <1>3, <2>1, <2>2, Added DEF Tell, TypeOK
    <3> QED BY <1>3, <3>1 DEF Tell, Following
  <2>3. CASE "user" \notin rooms
    BY <1>3, <2>3 DEF Tell, Joined, Following
  <2> QED BY <2>2, <2>3
<1>4. ASSUME LoseTell PROVE Following'
  BY <1>4 DEF LoseTell, Viewed, Following
<1>5. ASSUME Disconnect PROVE Following'
  BY <1>5 DEF Disconnect, Following
<1>6. ASSUME OnOrder PROVE Following'
  <2>1. Tail(orderWire) # <<>> => Tail(orderWire)[Len(Tail(orderWire))] = orderWire[Len(orderWire)]
    BY <1>6, Taken DEF OnOrder, TypeOK
  <2>2. Following /\ UNCHANGED <<told, status>> /\ orderWire' = Tail(orderWire) /\ orderWire # <<>>
    BY <1>6 DEF OnOrder
  <2> QED BY <2>1, <2>2 DEF Following
<1>7. ASSUME Record PROVE Following'
  BY <1>7, NoneBefore DEF Following
<1>8. CASE UNCHANGED <<order, orderWire, untold>>
  BY <1>8 DEF Following
<1> QED
  BY <1>1, <1>2, <1>3, <1>4, <1>5, <1>6, <1>7, <1>8
     DEF Next, vars, Other, Reserve, Reserved, ReserveFails, Publish, LosePublish, Take,
         Join, NotJoined, OnStock, PageRead, PageShown, PageFails,
         TokenSet, MineRead, MineShown, MineFails, Buy, Refuse, Bought, SoldOut, BuyFails

(* What the page knows is the status, or is about to be.                   *)
LEMMA FollowedStep ==
  ASSUME TypeOK, Joined, Ordered, Truthful, ~untold => Following,
         ~crossed /\ ~untold => Followed, [Next]_vars
  PROVE  ~crossed' /\ ~untold' => Followed'
<1> SUFFICES ASSUME ~crossed', ~untold' PROVE Followed'
  OBVIOUS
<1> USE StatusFacts, NoneFacts DEF NeverAhead, counter, order, socket, buying, view, stockPast, orderPast
<1>1. ASSUME Advance \/ Fail PROVE Followed'
  BY <1>1 DEF Advance, Announced, Fail, Followed
<1>2. ASSUME NEW p \in Publishers, GiveBack(p) PROVE Followed'
  BY <1>2 DEF GiveBack, Followed
<1>3. ASSUME Tell PROVE Followed'
  <2>1. CASE "user" \in rooms
    <3>1. orderWire' # <<>>
      BY <1>3, <2>1, Added DEF Tell, TypeOK
    <3> QED BY <3>1 DEF Followed
  <2>2. CASE "user" \notin rooms
    BY <1>3, <2>2 DEF Tell, Joined, Viewed, Followed
  <2> QED BY <2>1, <2>2
<1>4. ASSUME LoseTell PROVE Followed'
  BY <1>4 DEF LoseTell, Viewed, Followed
<1>5. ASSUME Disconnect PROVE Followed'
  BY <1>5 DEF Disconnect, Followed
<1>6. ASSUME OnOrder PROVE Followed'
  <2>1. Tail(orderWire) = <<>> => Head(orderWire) = orderWire[Len(orderWire)]
    BY <1>6, Taken DEF OnOrder, TypeOK
  <2>2. mine \notin Statuses /\ buyAt # "recorded" /\ UNCHANGED <<told, status, mine, buyAt>>
    BY <1>6 DEF OnOrder
  <2>3. rows' \subseteq {Head(orderWire)} /\ orderWire' = Tail(orderWire) /\ orderWire # <<>>
    BY <1>6 DEF OnOrder, RowsUpdated
  <2>4. Following
    BY <1>6 DEF OnOrder
  <2> QED BY <2>1, <2>2, <2>3, <2>4 DEF Following, Followed
<1>7. ASSUME TokenSet \/ MineRead \/ MineShown \/ MineFails PROVE Followed'
  <2>1. Followed
    BY <1>7 DEF TokenSet, MineRead, MineShown, MineFails
  <2> QED BY <1>7, <2>1 DEF TokenSet, MineRead, MineShown, MineFails, Followed
<1>8. ASSUME Record PROVE Followed'
  BY <1>8, NoneBefore DEF Record, Followed
<1>9. ASSUME Bought \/ BuyFails PROVE Followed'
  BY <1>9 DEF Bought, BuyFails, Followed
<1>10. ASSUME (\E p \in Publishers : Take(p)) \/ Buy \/ Refuse \/ SoldOut PROVE Followed'
  BY <1>10 DEF Take, Buy, Refuse, SoldOut, Followed
<1>11. CASE UNCHANGED <<order, orderWire, rows, mine, buyAt, crossed, untold>>
  BY <1>11 DEF Followed
<1> QED
  BY <1>1, <1>2, <1>3, <1>4, <1>5, <1>6, <1>7, <1>8, <1>9, <1>10, <1>11
     DEF Next, vars, Other, Reserve, Reserved, ReserveFails, Publish, LosePublish,
         Join, NotJoined, OnStock, PageRead, PageShown, PageFails

-----------------------------------------------------------------------------
(* What the page knows of the counter.                                     *)
LEMMA LoadingStep == TypeOK /\ Loading /\ Joined /\ [Next]_vars => Loading'
<1> SUFFICES ASSUME TypeOK, Loading, Joined, [Next]_vars PROVE Loading'
  OBVIOUS
<1> USE NoneFacts DEF counter, order, socket, buying, view, stockPast, orderPast
<1>1. ASSUME OnStock PROVE Loading'
  BY <1>1 DEF OnStock, Joined, Loading
<1>2. ASSUME PageRead \/ PageShown \/ PageFails PROVE Loading'
  BY <1>2 DEF PageRead, PageShown, PageFails, Loading
<1>3. ASSUME (\E p \in Publishers : Take(p)) \/ Buy \/ Record \/ Refuse \/ Bought \/ SoldOut \/ BuyFails
      PROVE Loading'
  BY <1>3 DEF Take, Buy, Record, Refuse, Bought, SoldOut, BuyFails, Loading
<1>4. CASE UNCHANGED <<page, shown, buyAt>>
  BY <1>4 DEF Loading
<1> QED
  BY <1>1, <1>2, <1>3, <1>4
     DEF Next, vars, Other, Reserve, Reserved, ReserveFails, Publish, LosePublish, GiveBack,
         Advance, Fail, Tell, LoseTell, Join, NotJoined, Disconnect, OnOrder,
         TokenSet, MineRead, MineShown, MineFails

(* Without overlaps there is one source of reports, which ends with the    *)
(* latest.                                                                 *)
LEMMA InTurnStep ==
  ASSUME TypeOK, ~overlapped => InTurn, [Next]_vars
  PROVE  ~overlapped' => InTurn'
<1> SUFFICES ASSUME ~overlapped' PROVE InTurn'
  OBVIOUS
<1> USE NoneFacts DEF counter, order, socket, buying, view, stockPast, orderPast
<1>1. ASSUME NEW p \in Publishers, Changes(p) PROVE InTurn'
  <2>1. Change(p)
    BY <1>1 DEF Changes, Other, Reserve, GiveBack, Take
  <2>2. /\ \A q \in Publishers : reserving[q] = None
        /\ \A q \in Publishers \ {p} : outbox[q] = <<>>
        /\ buyAt \notin {"taken", "recorded", "refused"}
    BY <2>1 DEF Change, Elsewhere, TypeOK
  <2>3. /\ \A q \in Publishers \ {p} : outbox'[q] = <<>>
        /\ outbox'[p][Len(outbox'[p])] = version'
    BY <2>1, <2>2, Changed
  <2>4. /\ \A q \in Publishers \ {p} : reserving'[q] = None
        /\ reserving'[p] \in {None, version'}
    BY <1>1, <2>1, <2>2 DEF Changes, Other, Reserve, GiveBack, Take, Change, TypeOK
  <2>5. buyAt' \in {"taken", "recorded", "refused"} => quote' = version'
    BY <1>1, <2>1, <2>2 DEF Changes, Other, Reserve, GiveBack, Take, Change
  <2> QED BY <2>3, <2>4, <2>5 DEF InTurn
<1>2. ASSUME NEW p \in Publishers, Reserved(p) PROVE InTurn'
  <2>0. InTurn
    BY <1>2 DEF Reserved
  <2>1. reserving[p] = version /\ \A q \in Publishers \ {p} : outbox[q] = <<>> /\ reserving[q] = None
    BY <1>2, <2>0 DEF Reserved, InTurn
  <2>2. outbox[p] \in Seq(Nat) /\ version \in Nat
    BY DEF TypeOK
  <2>3. outbox'[p] = Append(outbox[p], version)
    BY <1>2, <2>1 DEF Reserved, TypeOK
  <2>4. outbox'[p][Len(outbox'[p])] = version
    BY <2>2, <2>3, Added
  <2>5. /\ \A q \in Publishers \ {p} : outbox'[q] = <<>> /\ reserving'[q] = None
        /\ reserving'[p] = None /\ UNCHANGED <<version, buyAt, quote>>
    BY <1>2, <2>1 DEF Reserved, TypeOK
  <2> QED BY <2>0, <2>4, <2>5 DEF InTurn
<1>3. ASSUME NEW p \in Publishers, ReserveFails(p) PROVE InTurn'
  <2>1. /\ \A q \in Publishers : outbox'[q] = <<>> /\ reserving'[q] = None
        /\ buyAt' \notin {"taken", "recorded", "refused"}
    BY <1>3 DEF ReserveFails, Elsewhere, TypeOK
  <2> QED BY <2>1 DEF InTurn
<1>4. ASSUME NEW p \in Publishers, Publish(p) \/ LosePublish(p) PROVE InTurn'
  <2>0. InTurn
    BY <1>4 DEF Publish, LosePublish
  <2>1. outbox[p] # <<>> /\ outbox' = [outbox EXCEPT ![p] = Tail(@)]
        /\ UNCHANGED <<version, reserving, buyAt, quote>>
    BY <1>4 DEF Publish, LosePublish
  <2>2. \A q \in Publishers \ {p} : outbox[q] = <<>> /\ reserving[q] = None
    BY <2>0, <2>1 DEF InTurn
  <2>3. \A q \in Publishers \ {p} : outbox'[q] = <<>>
    BY <2>1, <2>2, Unqueued
  <2>4. outbox'[p] # <<>> => outbox'[p][Len(outbox'[p])] = version
    BY <2>0, <2>1, Unqueued DEF InTurn
  <2> QED BY <2>0, <2>1, <2>2, <2>3, <2>4 DEF InTurn
<1>5. ASSUME Buy \/ Record \/ Refuse \/ Bought \/ SoldOut \/ BuyFails PROVE InTurn'
  BY <1>5 DEF Buy, Record, Refuse, Bought, SoldOut, BuyFails, InTurn
<1>6. CASE UNCHANGED <<counter, buying, overlapped>>
  BY <1>6 DEF InTurn
<1> QED
  BY <1>1, <1>2, <1>3, <1>4, <1>5, <1>6
     DEF Next, Changes, vars, Advance, Fail, Tell, LoseTell, Join, NotJoined, Disconnect, OnStock, OnOrder,
         PageRead, PageShown, PageFails, TokenSet, MineRead, MineShown, MineFails

(* And with all of them heard the page knows the latest or is about to.    *)
LEMMA HeardStep ==
  ASSUME TypeOK, Reports, Loading, Joined, ~overlapped => InTurn,
         ~overlapped /\ ~missed => Heard, [Next]_vars
  PROVE  ~overlapped' /\ ~missed' => Heard'
<1> SUFFICES ASSUME ~overlapped', ~missed' PROVE Heard'
  OBVIOUS
<1> USE NoneFacts DEF counter, order, socket, buying, view, stockPast, orderPast
<1>1. ASSUME NEW p \in Publishers, Changes(p) PROVE Heard'
  <2>1. outbox'[p] # <<>>
    BY <1>1, Changed DEF Changes, Other, Reserve, GiveBack, Take
  <2> QED BY <2>1 DEF Heard
<1>2. ASSUME NEW p \in Publishers, Reserved(p) PROVE Heard'
  <2>1. outbox[p] \in Seq(Nat) /\ reserving[p] \in Nat
    BY <1>2 DEF Reserved, TypeOK
  <2>2. outbox'[p] = Append(outbox[p], reserving[p])
    BY <1>2 DEF Reserved, TypeOK
  <2> QED BY <2>1, <2>2, Added DEF Heard
<1>3. ASSUME NEW p \in Publishers, ReserveFails(p) PROVE Heard'
  <2>1. page = Asked /\ UNCHANGED <<page, stockWire>>
    BY <1>3 DEF ReserveFails
  <2>2. stockWire = <<>>
    BY <2>1 DEF Joined
  <2> QED BY <2>1, <2>2 DEF Heard
<1>4. ASSUME NEW p \in Publishers, Publish(p) PROVE Heard'
  <2>0. InTurn
    BY <1>4 DEF Publish
  <2>1. outbox[p] # <<>> /\ outbox' = [outbox EXCEPT ![p] = Tail(@)]
        /\ UNCHANGED <<version, page, shown>>
    BY <1>4 DEF Publish
  <2>2. Head(outbox[p]) \in Nat /\ (outbox'[p] = <<>> => Head(outbox[p]) = version)
    BY <2>0, <2>1, Unqueued DEF InTurn
  <2>3. CASE "product" \in rooms
    <3>1. stockWire' # <<>> /\ stockWire'[Len(stockWire')] = Head(outbox[p])
      BY <1>4, <2>2, <2>3, Added DEF Publish, TypeOK
    <3> QED BY <2>1, <2>2, <3>1 DEF Heard
  <2>4. CASE "product" \notin rooms
    <3>1. stockWire' = <<>> /\ ~(Known \in Nat /\ Head(outbox[p]) > Known)
      BY <1>4, <2>4 DEF Publish, Joined
    <3>2. outbox'[p] = <<>> => ~(Known \in Nat /\ version > Known)
      BY <2>2, <3>1
    <3>3. page \in Nat => page <= version
      BY DEF Reports
    <3>4. shown \in Nat => shown <= version
      BY DEF Reports
    <3>5. ASSUME outbox'[p] = <<>>
          PROVE  page \in {Asked, None, version} /\ (page = None => shown \in {None, version})
      BY <3>2, <3>3, <3>4, <3>5 DEF Known, TypeOK
    <3> QED BY <2>1, <3>1, <3>5 DEF Heard
  <2> QED BY <2>3, <2>4
<1>5. ASSUME NEW p \in Publishers, LosePublish(p) PROVE Heard'
  <2>1. page = Asked /\ UNCHANGED <<page, stockWire>>
    BY <1>5 DEF LosePublish
  <2>2. stockWire = <<>>
    BY <2>1 DEF Joined
  <2> QED BY <2>1, <2>2 DEF Heard
<1>6. ASSUME Disconnect PROVE Heard'
  BY <1>6 DEF Disconnect, Heard
<1>7. ASSUME OnStock PROVE Heard'
  <2>1. /\ Tail(stockWire) = <<>> => Head(stockWire) = stockWire[Len(stockWire)]
        /\ Tail(stockWire) # <<>> => Tail(stockWire)[Len(Tail(stockWire))] = stockWire[Len(stockWire)]
    BY <1>7, Taken DEF OnStock, TypeOK
  <2>2. page = None
    BY <1>7 DEF OnStock, Joined
  <2> QED BY <1>7, <2>1, <2>2 DEF OnStock, Heard
<1>8. ASSUME PageRead \/ PageShown \/ PageFails PROVE Heard'
  <2>1. stockWire # <<>> => page = None
    BY DEF Joined
  <2> QED BY <1>8, <2>1 DEF PageRead, PageShown, PageFails, Loading, Heard
<1>9. ASSUME Bought \/ SoldOut PROVE Heard'
  <2>1. quote = version
    BY <1>9 DEF Bought, SoldOut, InTurn
  <2> QED BY <1>9, <2>1 DEF Bought, SoldOut, Heard
<1>10. CASE UNCHANGED <<version, outbox, stockWire, page, shown, stockPast>>
  BY <1>10 DEF Heard
<1> QED
  BY <1>1, <1>2, <1>3, <1>4, <1>5, <1>6, <1>7, <1>8, <1>9, <1>10
     DEF Next, Changes, vars, Advance, Fail, Tell, LoseTell, Join, NotJoined, OnOrder,
         TokenSet, MineRead, MineShown, MineFails, Buy, Record, Refuse, BuyFails

-----------------------------------------------------------------------------
(* IInv holds for any number of publishers, changes and events under way.  *)
THEOREM Invariant == Spec => []IInv
<1>1. Init => IInv
  <2> SUFFICES ASSUME Init PROVE IInv
    OBVIOUS
  <2>1. Len(<<>>) = 0
    OBVIOUS
  <2>2. TypeOK
    BY TypeInit
  <2>3. Reports /\ Loading /\ Joined
    BY <2>1, NoneFacts DEF Init, Reports, Loading, Joined
  <2>4. Ordered /\ Truthful /\ Following /\ Followed
    BY <2>1, NoneFacts, StatusFacts DEF Init, Ordered, Truthful, NeverAhead, Following, Followed
  <2>5. InTurn /\ Heard
    BY NoneFacts DEF Init, InTurn, Heard
  <2> QED BY <2>2, <2>3, <2>4, <2>5 DEF IInv
<1>2. IInv /\ [Next]_vars => IInv'
  <2> SUFFICES ASSUME IInv, [Next]_vars PROVE IInv'
    OBVIOUS
  <2>1. TypeOK' /\ Reports' /\ Loading' /\ Joined' /\ Ordered' /\ Truthful'
    BY TypeStep, ReportsStep, LoadingStep, JoinedStep, OrderedStep, TruthfulStep DEF IInv
  <2>2. ~overlapped' => InTurn'
    BY InTurnStep DEF IInv
  <2>3. ~overlapped' /\ ~missed' => Heard'
    BY HeardStep DEF IInv
  <2>4. ~crossed' /\ ~untold' => Followed'
    BY FollowedStep DEF IInv
  <2>5. ~untold' => Following'
    BY FollowingStep DEF IInv
  <2> QED BY <2>1, <2>2, <2>3, <2>4, <2>5 DEF IInv
<1> QED BY <1>1, <1>2, PTL DEF Spec

(* A page that has nothing under way shows the counter, unless its latest  *)
(* change overtook a report or was not told: what went wrong before is     *)
(* repaired by the next change that is heard.                              *)
THEOREM LiveStock == Spec => []ShowsTheCounter
<1>1. IInv => ShowsTheCounter
  BY NoneFacts DEF IInv, ShowsTheCounter, StockQuiet, Heard
<1> QED BY <1>1, Invariant, PTL

(* A page that has nothing under way shows the order's status, unless the  *)
(* last event was lost or overtook a reply.                                *)
THEOREM LiveOrders == Spec => []ShowsTheStatus
<1>1. IInv => ShowsTheStatus
  BY DEF IInv, ShowsTheStatus, OrderQuiet, Followed
<1> QED BY <1>1, Invariant, PTL

(* Whatever is lost or overtakes what, no status is shown too early.       *)
THEOREM NothingAhead == Spec => []NeverAhead
<1>1. IInv => NeverAhead
  BY DEF IInv, Truthful
<1> QED BY <1>1, Invariant, PTL

=============================================================================
