----------------------------- MODULE DeskProofs -----------------------------
(***************************************************************************)
(* Proofs, for any number of payments, requests in flight and remembered   *)
(* payments, of the safety properties of Desk.                             *)
(***************************************************************************)
EXTENDS Desk, SequenceTheorems, TLAPS

-----------------------------------------------------------------------------
(* Sequences without repetition *)

\* What removing an id that occurs at most once leaves: all of the sequence, or
\* all but one place.
LEMMA RemoveFirstIs ==
  ASSUME NEW S, NEW s \in Seq(S), IsInjective(s), NEW x
  PROVE  \/ /\ \A i \in 1..Len(s) : s[i] # x
            /\ RemoveFirst(s, x) = s
         \/ \E k \in 1..Len(s) :
              /\ s[k] = x
              /\ RemoveFirst(s, x) \in Seq(S)
              /\ Len(RemoveFirst(s, x)) = Len(s) - 1
              /\ \A i \in 1..(Len(s) - 1) :
                   RemoveFirst(s, x)[i] = IF i < k THEN s[i] ELSE s[i + 1]
<1>1. CASE \A i \in 1..Len(s) : s[i] # x
  <2>1. RemoveFirst(s, x) = s
    BY <1>1 DEF RemoveFirst
  <2> QED
    BY <1>1, <2>1
<1>2. ASSUME NEW k \in 1..Len(s), s[k] = x
      PROVE  /\ RemoveFirst(s, x) \in Seq(S)
             /\ Len(RemoveFirst(s, x)) = Len(s) - 1
             /\ \A i \in 1..(Len(s) - 1) :
                  RemoveFirst(s, x)[i] = IF i < k THEN s[i] ELSE s[i + 1]
  <2>1. {i \in 1..Len(s) : s[i] = x} = {k}
    BY <1>2 DEF IsInjective
  <2>2. Min({k}) = k
    BY DEF Min
  <2>3. SelectInSeq(s, LAMBDA v : v = x) = k
    BY <2>1, <2>2 DEF SelectInSeq
  <2>4. RemoveFirst(s, x) = RemoveAt(s, k)
    BY <1>2, <2>3 DEF RemoveFirst
  <2> DEFINE front == SubSeq(s, 1, k - 1)
             back  == SubSeq(s, k + 1, Len(s))
  <2>5. RemoveFirst(s, x) = front \o back
    BY <2>4 DEF RemoveAt
  <2>6. Len(s) \in Nat /\ k \in Nat /\ k >= 1 /\ k <= Len(s)
    OBVIOUS
  <2>7. /\ front \in Seq(S)
        /\ Len(front) = k - 1
        /\ \A i \in 1..(k - 1) : front[i] = s[i]
    <3>1. \A i \in 1..(k - 1) : s[i] \in S
      BY <2>6, ElementOfSeq
    <3> QED
      BY <2>6, <3>1, SubSeqProperties
  <2>8. /\ back \in Seq(S)
        /\ Len(back) = Len(s) - k
        /\ \A i \in 1..(Len(s) - k) : back[i] = s[k + i]
    <3>1. \A i \in (k + 1)..Len(s) : s[i] \in S
      BY <2>6, ElementOfSeq
    <3>2. /\ back \in Seq(S)
          /\ Len(back) = IF k + 1 <= Len(s) THEN Len(s) - (k + 1) + 1 ELSE 0
          /\ \A i \in 1..(Len(s) - (k + 1) + 1) : back[i] = s[(k + 1) + i - 1]
      BY <2>6, <3>1, SubSeqProperties
    <3> QED
      BY <2>6, <3>2
  <2> HIDE DEF front, back
  <2>9. /\ front \o back \in Seq(S)
        /\ Len(front \o back) = Len(front) + Len(back)
        /\ \A i \in 1..(Len(front) + Len(back)) : (front \o back)[i] =
             IF i <= Len(front) THEN front[i] ELSE back[i - Len(front)]
    BY <2>7, <2>8, ConcatProperties
  <2> QED
    BY <2>5, <2>6, <2>7, <2>8, <2>9
<1> QED
  BY <1>1, <1>2

\* In r the id x comes first, and the ids of s before the place k where it was,
\* or all if it is new, are moved down by one.
Placed(s, x, r, k) ==
  /\ \A i \in 1..Len(s) : s[i] = x <=> i = k
  /\ Len(r) = IF k <= Len(s) THEN Len(s) ELSE Len(s) + 1
  /\ r[1] = x
  /\ \A i \in 2..Len(r) : r[i] = IF i <= k THEN s[i - 1] ELSE s[i]

\* Remembering x places it so, and repeats nothing.
LEMMA RecentIs ==
  ASSUME NEW S, NEW s \in Seq(S), IsInjective(s), NEW x \in S
  PROVE  /\ Recent(s, x) \in Seq(S)
         /\ IsInjective(Recent(s, x))
         /\ \E k \in 1..(Len(s) + 1) : Placed(s, x, Recent(s, x), k)
<1> DEFINE t == RemoveFirst(s, x)
           r == Recent(s, x)
           n == Len(s)
<1>1. n \in Nat /\ DOMAIN s = 1..n
  BY LenProperties
<1>2. PICK k \in 1..(n + 1) :
        /\ \A i \in 1..n : s[i] = x <=> i = k
        /\ t \in Seq(S)
        /\ Len(t) = IF k <= n THEN n - 1 ELSE n
        /\ \A i \in 1..Len(t) : t[i] = IF i < k THEN s[i] ELSE s[i + 1]
  <2> HIDE DEF n, t
  <2>1. ASSUME \A i \in 1..n : s[i] # x, t = s
        PROVE  /\ n + 1 \in 1..(n + 1)
               /\ \A i \in 1..n : s[i] = x <=> i = n + 1
               /\ t \in Seq(S)
               /\ Len(t) = IF n + 1 <= n THEN n - 1 ELSE n
               /\ \A i \in 1..Len(t) : t[i] = IF i < n + 1 THEN s[i] ELSE s[i + 1]
    <3>1. t \in Seq(S) /\ Len(t) = n
      BY <2>1 DEF n
    <3>2. \A i \in 1..n : s[i] = x <=> i = n + 1
      BY <1>1, <2>1
    <3>3. \A i \in 1..n : t[i] = IF i < n + 1 THEN s[i] ELSE s[i + 1]
      BY <1>1, <2>1
    <3> QED
      BY <1>1, <3>1, <3>2, <3>3
  <2>2. ASSUME NEW j \in 1..n, s[j] = x, t \in Seq(S), Len(t) = n - 1,
               \A i \in 1..(n - 1) : t[i] = IF i < j THEN s[i] ELSE s[i + 1]
        PROVE  /\ j \in 1..(n + 1)
               /\ \A i \in 1..n : s[i] = x <=> i = j
               /\ Len(t) = IF j <= n THEN n - 1 ELSE n
               /\ \A i \in 1..Len(t) : t[i] = IF i < j THEN s[i] ELSE s[i + 1]
    <3>1. \A i \in 1..n : s[i] = x <=> i = j
      BY <1>1, <2>2 DEF IsInjective
    <3> QED
      BY <1>1, <2>2, <3>1
  <2>3. \/ (\A i \in 1..n : s[i] # x) /\ t = s
        \/ \E j \in 1..n :
             /\ s[j] = x /\ t \in Seq(S) /\ Len(t) = n - 1
             /\ \A i \in 1..(n - 1) : t[i] = IF i < j THEN s[i] ELSE s[i + 1]
    BY RemoveFirstIs DEF n, t
  <2> QED
    BY <2>1, <2>2, <2>3
<1>3. <<x>> \in Seq(S) /\ Len(<<x>>) = 1 /\ <<x>>[1] = x
  OBVIOUS
<1>4. r = <<x>> \o t
  BY DEF Recent
<1> HIDE DEF t, r
<1>5. /\ r \in Seq(S)
      /\ Len(r) = 1 + Len(t)
      /\ \A i \in 1..(1 + Len(t)) : r[i] = IF i <= 1 THEN <<x>>[i] ELSE t[i - 1]
  BY <1>2, <1>3, <1>4, ConcatProperties
<1>6. Len(t) \in Nat /\ DOMAIN r = 1..Len(r)
  BY <1>2, <1>5, LenProperties
<1> HIDE DEF n
<1>7. /\ Len(r) = IF k <= n THEN n ELSE n + 1
      /\ r[1] = x
      /\ \A i \in 2..Len(r) : r[i] = IF i <= k THEN s[i - 1] ELSE s[i]
  <2>1. \A i \in 2..Len(r) : i - 1 \in 1..Len(t) /\ r[i] = t[i - 1]
    BY <1>5, <1>6
  <2>2. \A i \in 2..Len(r) :
          t[i - 1] = IF i - 1 < k THEN s[i - 1] ELSE s[(i - 1) + 1]
    BY <1>2, <2>1
  <2>3. \A i \in 2..Len(r) : r[i] = IF i <= k THEN s[i - 1] ELSE s[i]
    BY <1>1, <1>6, <2>1, <2>2
  <2> QED
    BY <1>1, <1>2, <1>3, <1>5, <1>6, <2>3
<1>8. IsInjective(r)
  <2>1. \A i, j \in 1..n : s[i] = s[j] => i = j
    BY <1>1 DEF IsInjective
  <2>2. \A i \in 2..Len(r) : \E a \in 1..n :
          /\ a # k
          /\ r[i] = s[a]
          /\ a = IF i <= k THEN i - 1 ELSE i
    BY <1>1, <1>2, <1>7
  <2>3. ASSUME NEW i \in 1..Len(r), NEW j \in 1..Len(r), r[i] = r[j]
        PROVE  i = j
    BY <1>1, <1>2, <1>6, <1>7, <2>1, <2>2, <2>3
  <2> QED
    BY <1>6, <2>3 DEF IsInjective
<1> QED
  BY <1>2, <1>5, <1>7, <1>8 DEF n, r, Placed

\* Every payment that was lost is one.
LEMMA LostIsPayments == Lost \subseteq Payments
BY DeskAssumption DEF DeskAssumption, Lost, ToSet

\* What is kept of a sequence: its first places, as many as there may be.
LEMMA LatestIs ==
  ASSUME NEW S, NEW s \in Seq(S)
  PROVE  /\ Latest(s) \in Seq(S)
         /\ Len(Latest(s)) = IF Len(s) <= SessionLimit THEN Len(s) ELSE SessionLimit
         /\ \A i \in 1..Len(Latest(s)) : Latest(s)[i] = s[i]
         /\ IsInjective(s) => IsInjective(Latest(s))
<1> DEFINE n == Len(s)
           m == Min({n, SessionLimit})
<1>1. n \in Nat /\ SessionLimit \in Nat /\ SessionLimit >= 1 /\ DOMAIN s = 1..n
  BY DeskAssumption, LenProperties DEF DeskAssumption
<1>2. m = IF n <= SessionLimit THEN n ELSE SessionLimit
  <2> HIDE DEF n
  <2>1. CASE n <= SessionLimit
    BY <1>1, <2>1 DEF Min
  <2>2. CASE ~(n <= SessionLimit)
    BY <1>1, <2>2 DEF Min
  <2> QED
    BY <2>1, <2>2
<1>3. Latest(s) = SubSeq(s, 1, m)
  BY DEF Latest
<1>4. \A i \in 1..m : s[i] \in S
  BY <1>1, <1>2, ElementOfSeq
<1> HIDE DEF n, m
<1>5. /\ SubSeq(s, 1, m) \in Seq(S)
      /\ Len(SubSeq(s, 1, m)) = IF 1 <= m THEN m - 1 + 1 ELSE 0
      /\ \A i \in 1..(m - 1 + 1) : SubSeq(s, 1, m)[i] = s[1 + i - 1]
  BY <1>1, <1>2, <1>4, SubSeqProperties
<1>6. /\ Latest(s) \in Seq(S)
      /\ Len(Latest(s)) = m
      /\ \A i \in 1..m : Latest(s)[i] = s[i]
  BY <1>1, <1>2, <1>3, <1>5
<1>7. ASSUME IsInjective(s)
      PROVE  IsInjective(Latest(s))
  <2>1. DOMAIN Latest(s) = 1..m
    BY <1>6, LenProperties
  <2> QED
    BY <1>1, <1>2, <1>6, <1>7, <2>1 DEF IsInjective
<1> QED
  BY <1>2, <1>6, <1>7 DEF n

\* Equal places make equal sequences.
LEMMA SameSequence ==
  ASSUME NEW S, NEW s \in Seq(S), NEW t \in Seq(S), Len(s) = Len(t),
         \A i \in 1..Len(s) : s[i] = t[i]
  PROVE  s = t
BY LenProperties

\* Remembering one more of what was kept keeps what remembering it of all would
\* have kept: what had been cut off would be cut off again.
LEMMA LatestRecent ==
  ASSUME NEW S, NEW s \in Seq(S), IsInjective(s), NEW x \in S
  PROVE  Latest(Recent(Latest(s), x)) = Latest(Recent(s, x))
<1> DEFINE n == Len(s)
           kept == Latest(s)
           m == Len(kept)
           a == Recent(kept, x)
           b == Recent(s, x)
<1>1. /\ n \in Nat /\ SessionLimit \in Nat /\ SessionLimit >= 1
      /\ m = IF n <= SessionLimit THEN n ELSE SessionLimit
      /\ kept \in Seq(S)
      /\ IsInjective(kept)
      /\ \A i \in 1..m : kept[i] = s[i]
  BY DeskAssumption, LatestIs, LenProperties DEF DeskAssumption
<1>2. a \in Seq(S) /\ b \in Seq(S)
  BY <1>1, RecentIs
<1> HIDE DEF a, b, kept
<1>3. PICK k \in 1..(n + 1) :
        /\ \A i \in 1..n : s[i] = x <=> i = k
        /\ Len(b) = IF k <= n THEN n ELSE n + 1
        /\ b[1] = x
        /\ \A i \in 2..Len(b) : b[i] = IF i <= k THEN s[i - 1] ELSE s[i]
  <2>1. PICK k \in 1..(n + 1) : Placed(s, x, b, k)
    BY RecentIs DEF b
  <2> QED
    BY <2>1 DEF Placed
<1>4. PICK j \in 1..(m + 1) :
        /\ \A i \in 1..m : kept[i] = x <=> i = j
        /\ Len(a) = IF j <= m THEN m ELSE m + 1
        /\ a[1] = x
        /\ \A i \in 2..Len(a) : a[i] = IF i <= j THEN kept[i - 1] ELSE kept[i]
  <2>1. PICK j \in 1..(m + 1) : Placed(kept, x, a, j)
    BY <1>1, RecentIs DEF a
  <2> QED
    BY <2>1 DEF Placed
<1> HIDE DEF n, m
<1>5. \/ k <= m /\ j = k
      \/ k > m /\ j = m + 1
  <2>1. ASSUME k <= m
        PROVE  j = k
    <3>1. k \in 1..m /\ kept[k] = x
      BY <1>1, <1>3, <2>1
    <3> QED
      BY <1>4, <3>1
  <2>2. ASSUME j <= m
        PROVE  j = k
    <3>1. j \in 1..m /\ j \in 1..n /\ s[j] = x
      BY <1>1, <1>4, <2>2
    <3> QED
      BY <1>3, <3>1
  <2> QED
    BY <1>1, <2>1, <2>2
<1> DEFINE len == IF Len(b) <= SessionLimit THEN Len(b) ELSE SessionLimit
<1>6. /\ len = IF Len(a) <= SessionLimit THEN Len(a) ELSE SessionLimit
      /\ len \in Nat /\ len <= Len(a) /\ len <= Len(b)
  BY <1>1, <1>3, <1>4, <1>5
<1>7. ASSUME NEW i \in 1..len
      PROVE  a[i] = b[i]
  <2>1. CASE i = 1
    BY <1>3, <1>4, <2>1
  <2>2. CASE i # 1
    <3>1. i \in 2..Len(a) /\ i \in 2..Len(b) /\ i <= SessionLimit
      BY <1>1, <1>6, <2>2
    <3>2. /\ a[i] = IF i <= j THEN kept[i - 1] ELSE kept[i]
          /\ b[i] = IF i <= k THEN s[i - 1] ELSE s[i]
      BY <1>3, <1>4, <3>1
    <3>3. i <= j => i - 1 \in 1..m
      BY <1>1, <3>1
    <3>4. ~(i <= j) => i \in 1..m
      BY <1>1, <1>4, <1>5, <3>1
    <3>5. i <= j <=> i <= k
      BY <1>1, <1>3, <1>4, <1>5, <3>1
    <3> QED
      BY <1>1, <3>2, <3>3, <3>4, <3>5
  <2> QED
    BY <2>1, <2>2
<1>8. /\ Latest(a) \in Seq(S) /\ Latest(b) \in Seq(S)
      /\ Len(Latest(a)) = len /\ Len(Latest(b)) = len
      /\ \A i \in 1..len : Latest(a)[i] = a[i]
      /\ \A i \in 1..len : Latest(b)[i] = b[i]
  BY <1>2, <1>6, LatestIs
<1> HIDE DEF len
<1>9. Latest(a) = Latest(b)
  BY <1>7, <1>8, SameSequence
<1> QED
  BY <1>9 DEF a, b, kept

-----------------------------------------------------------------------------
(* The inductive invariant *)

\* The tab may know the payment from an earlier database, or the server has it.
Known(id) == id \in Lost \/ status[id] # None

\* The server has nothing of the earlier database.
ServerInv ==
  /\ status \in [Payments -> DeskStatuses \cup {None}]
  /\ \A p \in Lost : status[p] = None

SessionInv ==
  /\ session.current # None => Known(session.current)
  /\ \A i \in 1..Len(session.ids) : Known(session.ids[i])

\* A load that is under way is for the selected payment.
LoadFits(r) ==
  /\ r.id = session.current
  /\ r.answer = "NOT_FOUND" => r.id \in Lost
  /\ r.answer \in DeskStatuses => r.id \notin Lost

\* A poll is for a payment that was on display.
PollFits(r) == status[r.id] # None /\ r.answer # "NOT_FOUND"

\* One request at a time: the session that a request was clicked in is still the
\* session when it is answered.
CallFits(c) ==
  calls[c] # None =>
    /\ calls[c].ids = session.ids
    /\ \A d \in Calls : calls[d] # None => d = c
    /\ calls[c].op # "create" => calls[c].id \in Payments
    /\ Arrived(calls[c]) => /\ calls[c].id \in Payments
                            /\ status[calls[c].id] # None
                            /\ calls[c].answer \in DeskStatuses

ShownInv == shown # None => status[shown.id] # None

LoadsInv == \A r \in loads : LoadFits(r)

PollsInv == \A r \in BagToSet(polls) : PollFits(r)

CallsInv == \A c \in Calls : CallFits(c)

HistoryInv == IsInjective(remembered) /\ IdsKept

\* The session is what was remembered last only because no request outlives it,
\* and a load is for the selected payment only because selecting cancels; what
\* they bring on display is a payment of the server because only such payments
\* are remembered, selected and polled.
DeskInv ==
  /\ DeskTypeOK
  /\ ServerInv
  /\ SessionInv
  /\ ShownInv
  /\ LoadsInv
  /\ PollsInv
  /\ CallsInv
  /\ HistoryInv

\* What an action leaves alone stays right.
LEMMA Frame ==
  ASSUME DeskInv
  PROVE  /\ UNCHANGED status => ServerInv'
         /\ UNCHANGED <<status, session>> => SessionInv'
         /\ UNCHANGED <<status, shown>> => ShownInv'
         /\ UNCHANGED <<session, loads>> => LoadsInv'
         /\ UNCHANGED <<status, polls>> => PollsInv'
         /\ UNCHANGED <<status, session, calls>> => CallsInv'
         /\ UNCHANGED <<session, remembered>> => HistoryInv'
<1>1. UNCHANGED status => ServerInv'
  BY DEF DeskInv, ServerInv
<1>2. UNCHANGED <<status, session>> => SessionInv'
  BY DEF DeskInv, SessionInv, Known
<1>3. UNCHANGED <<status, shown>> => ShownInv'
  BY DEF DeskInv, ShownInv
<1>4. UNCHANGED <<session, loads>> => LoadsInv'
  BY DEF DeskInv, LoadsInv, LoadFits
<1>5. UNCHANGED <<status, polls>> => PollsInv'
  BY DEF DeskInv, PollsInv, PollFits
<1>6. UNCHANGED <<status, session, calls>> => CallsInv'
  BY DEF DeskInv, CallsInv, CallFits, Arrived
<1>7. UNCHANGED <<session, remembered>> => HistoryInv'
  BY DEF DeskInv, HistoryInv, IdsKept
<1> QED
  BY <1>1, <1>2, <1>3, <1>4, <1>5, <1>6, <1>7

-----------------------------------------------------------------------------
(* Statuses and bags *)

\* The statuses of the diagram.
LEMMA DeskStatusesAre ==
  DeskStatuses = {"requires_payment", "processing", "authorized", "failed",
                  "captured", "cancelled", "refunded"}
<1>1. {e[1] : e \in Edges} =
        {"requires_payment", "processing", "authorized", "captured"}
  BY DEF Edges
<1>2. {e[2] : e \in Edges} =
        {"processing", "authorized", "failed", "captured", "cancelled", "refunded"}
  BY DEF Edges
<1> QED
  BY <1>1, <1>2 DEF DeskStatuses

\* A poll more or less is a bag of the polls there were and the new one.
LEMMA BagMoves ==
  ASSUME NEW B, IsABag(B), NEW x
  PROVE  /\ IsABag(BagAdd(B, x))
         /\ BagToSet(BagAdd(B, x)) = BagToSet(B) \cup {x}
         /\ IsABag(BagRemove(B, x))
         /\ BagToSet(BagRemove(B, x)) \subseteq BagToSet(B)
         /\ x \in BagToSet(B) => BagRemove(B, x) # B
<1> USE DEF IsABag, BagToSet
<1>1. IsABag(BagAdd(B, x)) /\ BagToSet(BagAdd(B, x)) = BagToSet(B) \cup {x}
  <2>1. CASE x \in DOMAIN B
    <3> DEFINE C == [e \in DOMAIN B |-> IF e = x THEN B[e] + 1 ELSE B[e]]
    <3>1. BagAdd(B, x) = C /\ DOMAIN C = DOMAIN B
      BY <2>1 DEF BagAdd
    <3>2. \A e \in DOMAIN B : C[e] \in {n \in Nat : n > 0}
      OBVIOUS
    <3> QED
      BY <2>1, <3>1, <3>2
  <2>2. CASE x \notin DOMAIN B
    BY <2>2 DEF BagAdd
  <2> QED
    BY <2>1, <2>2
<1>2. /\ IsABag(BagRemove(B, x))
      /\ BagToSet(BagRemove(B, x)) \subseteq BagToSet(B)
      /\ x \in BagToSet(B) => BagRemove(B, x) # B
  <2>1. CASE x \in DOMAIN B /\ B[x] = 1
    <3>1. BagRemove(B, x) = [e \in DOMAIN B \ {x} |-> B[e]]
      BY <2>1 DEF BagRemove
    <3>2. DOMAIN BagRemove(B, x) = DOMAIN B \ {x}
      BY <3>1
    <3>3. BagRemove(B, x) # B
      BY <2>1, <3>2
    <3> QED
      BY <3>1, <3>2, <3>3
  <2>2. CASE x \in DOMAIN B /\ B[x] # 1
    <3>1. BagRemove(B, x) = [e \in DOMAIN B |-> IF e = x THEN B[e] - 1 ELSE B[e]]
      BY <2>2 DEF BagRemove
    <3>2. B[x] \in Nat /\ B[x] > 1
      BY <2>2
    <3>3. BagRemove(B, x)[x] = B[x] - 1
      BY <2>2, <3>1
    <3> QED
      BY <3>1, <3>2, <3>3
  <2>3. CASE x \notin DOMAIN B
    BY <2>3 DEF BagRemove
  <2> QED
    BY <2>1, <2>2, <2>3
<1> QED
  BY <1>1, <1>2

-----------------------------------------------------------------------------
(* The server *)

\* A payment that is opened or moved is one the server may have; no payment is
\* ever taken away.
LEMMA ServerForward ==
  ASSUME ServerInv, NEW p \in Payments,
         \/ p \notin Lost /\ Open(p)
         \/ \E to : Move(p, to)
  PROVE  /\ ServerInv'
         /\ status'[p] # None
         /\ \A q \in Payments : status[q] # None => status'[q] # None
<1>1. PICK to \in DeskStatuses : p \notin Lost /\ Enter(p, to)
  <2>1. CASE p \notin Lost /\ Open(p)
    BY <2>1, DeskStatusesAre DEF Open
  <2>2. ASSUME NEW to, Move(p, to)
        PROVE  to \in DeskStatuses /\ p \notin Lost /\ Enter(p, to)
    <3>1. <<status[p], to>> \in Edges /\ Enter(p, to)
      BY <2>2 DEF Move
    <3>2. status[p] \in DeskStatuses /\ to \in DeskStatuses
      BY <3>1, DeskStatusesAre DEF Edges
    <3> QED
      BY <3>1, <3>2, NoneAssumption DEF ServerInv
  <2> QED
    BY <2>1, <2>2
<1>2. status' = [status EXCEPT ![p] = to]
  BY <1>1 DEF Enter
<1> QED
  BY <1>1, <1>2, NoneAssumption, LostIsPayments DEF ServerInv

\* What the desk holds stays right while the server moves.
LEMMA ServerMoves ==
  ASSUME DeskInv, ServerInv', UNCHANGED <<session, shown, loads, polls, remembered>>,
         \A q \in Payments : status[q] # None => status'[q] # None
  PROVE  SessionInv' /\ ShownInv' /\ LoadsInv' /\ PollsInv' /\ HistoryInv'
<1>1. SessionInv'
  <2>1. session \in Session
    BY DEF DeskInv, DeskTypeOK
  <2>2. \A i \in 1..Len(session.ids) : session.ids[i] \in Payments
    BY <2>1, ElementOfSeq DEF Session
  <2>3. session.current # None => session.current \in Payments
    BY <2>1 DEF Session
  <2> QED
    BY <2>2, <2>3 DEF DeskInv, SessionInv, Known
<1>2. ShownInv'
  BY DEF DeskInv, DeskTypeOK, Shown, ShownInv
<1>3. PollsInv'
  BY DEF DeskInv, DeskTypeOK, Read, PollsInv, PollFits
<1>4. LoadsInv' /\ HistoryInv'
  BY Frame
<1> QED
  BY <1>1, <1>2, <1>3, <1>4

\* Somebody opens a payment or moves one.
LEMMA ServeKeeps ==
  ASSUME DeskInv, NEW p \in Payments, Serve(p)
  PROVE  DeskInv'
<1>1. /\ UNCHANGED deskVars
      /\ p \notin Lost
      /\ Open(p) \/ \E to : Move(p, to)
  BY DEF Serve
<1>2. /\ ServerInv'
      /\ \A q \in Payments : status[q] # None => status'[q] # None
  BY <1>1, ServerForward DEF DeskInv
<1>3. DeskTypeOK'
  BY <1>1 DEF deskVars, DeskInv, DeskTypeOK
<1>4. CallsInv'
  BY <1>1, <1>2 DEF deskVars, DeskInv, CallsInv, CallFits, Arrived
<1> QED
  BY <1>1, <1>2, <1>3, <1>4, ServerMoves DEF deskVars, DeskInv

-----------------------------------------------------------------------------
(* Loads and polls *)

\* The server answers a read with the status of its payment, if it has it.
LEMMA AnswerIs ==
  ASSUME ServerInv, NEW r \in Read
  PROVE  /\ Answer(r) \in Read
         /\ Answer(r).id = r.id
         /\ r.id \in Payments
         /\ status[r.id] = None => Answer(r).answer = "NOT_FOUND"
         /\ status[r.id] # None => Answer(r).answer \in DeskStatuses
         /\ Answer(r).answer \notin DeskStatuses => status[r.id] = None
<1> DEFINE a == IF status[r.id] = None THEN "NOT_FOUND" ELSE status[r.id]
<1>1. a \in Answers /\ r.id \in Payments
  BY DEF ServerInv, Read, Answers
<1>2. Answer(r) = [r EXCEPT !.answer = a]
  BY DEF Answer
<1>3. /\ Answer(r) \in Read
      /\ Answer(r).id = r.id
      /\ Answer(r).answer = a
  BY <1>1, <1>2 DEF Read
<1>4. "NOT_FOUND" \notin DeskStatuses
  BY DeskStatusesAre
<1> QED
  BY <1>1, <1>3, <1>4 DEF ServerInv

\* What is asked for is not answered yet.
LEMMA AskIs ==
  ASSUME NEW p \in Payments
  PROVE  /\ Ask(p) \in Read
         /\ Ask(p).id = p
         /\ Ask(p).answer = "waiting"
         /\ Ask(p).answer \notin DeskStatuses
BY DeskStatusesAre DEF Ask, Read, Answers

\* An answer of a payment that the server has can be shown.
LEMMA ShowKeeps ==
  ASSUME ServerInv, NEW r, r.id \in Payments, r.answer \in DeskStatuses,
         status[r.id] # None, Show(r), UNCHANGED status
  PROVE  shown' \in Shown /\ shown' # None /\ shown'.id = r.id /\ ShownInv'
<1>1. r.id \notin Lost
  BY DEF ServerInv
<1>2. shown' = [id |-> r.id, status |-> r.answer]
  BY DEF Show
<1>3. shown' \in Shown
  BY <1>1, <1>2 DEF Shown
<1>4. shown' # None
  BY <1>3, NoneAssumption
<1> QED
  BY <1>2, <1>3, <1>4 DEF ShownInv

\* What a load of the selected payment answers is right of that payment, and
\* clears the display only if the payment is of an earlier database.
LEMMA LoadKeeps ==
  ASSUME DeskInv, NEW r \in loads, LoadServed(r) \/ LoadArrives(r) \/ LoadFails(r)
  PROVE  DeskInv'
<1>1. r \in Read /\ LoadFits(r) /\ ServerInv
  BY DEF DeskInv, DeskTypeOK, LoadsInv
<1>2. UNCHANGED <<status, session, calls, polls, remembered>>
  BY DEF LoadServed, LoadArrives, LoadFails, lifecycleVars
<1>3. loads' \subseteq Read /\ LoadsInv'
  <2>1. CASE LoadServed(r)
    <3>1. loads' = (loads \ {r}) \cup {Answer(r)}
      BY <2>1 DEF LoadServed
    <3>2. /\ Answer(r) \in Read /\ Answer(r).id = r.id /\ r.id \in Payments
          /\ status[r.id] = None => Answer(r).answer = "NOT_FOUND"
          /\ status[r.id] # None => Answer(r).answer \in DeskStatuses
      BY <1>1, AnswerIs
    <3>3. "NOT_FOUND" \notin DeskStatuses
      BY DeskStatusesAre
    <3>4. r.id = session.current /\ Known(r.id)
      BY <1>1, <3>2, NoneAssumption DEF LoadFits, DeskInv, SessionInv
    <3>5. LoadFits(Answer(r))
      BY <1>1, <3>2, <3>3, <3>4 DEF LoadFits, Known, ServerInv
    <3> QED
      BY <1>2, <3>1, <3>2, <3>5 DEF DeskInv, DeskTypeOK, LoadsInv, LoadFits
  <2>2. CASE LoadArrives(r) \/ LoadFails(r)
    <3>1. loads' \subseteq loads
      BY <2>2 DEF LoadArrives, LoadFails
    <3> QED
      BY <1>2, <3>1 DEF DeskInv, DeskTypeOK, LoadsInv, LoadFits
  <2> QED
    BY <2>1, <2>2
<1>4. shown' \in Shown \cup {None} /\ ShownInv'
  <2>1. CASE shown' = shown
    BY <1>2, <2>1 DEF DeskInv, DeskTypeOK, ShownInv
  <2>2. CASE shown' = None
    BY <2>2 DEF ShownInv
  <2>3. CASE LoadArrives(r) /\ r.answer # "NOT_FOUND"
    <3>1. r.answer \in DeskStatuses /\ Show(r)
      BY <1>1, <2>3 DEF LoadArrives, Arrived, Read, Answers
    <3>2. status[r.id] # None /\ r.id \in Payments
      BY <1>1, <3>1, NoneAssumption
      DEF LoadFits, DeskInv, SessionInv, Known, Read
    <3> QED
      BY <1>1, <1>2, <3>1, <3>2, ShowKeeps
  <2> QED
    BY <2>1, <2>2, <2>3 DEF LoadServed, LoadArrives, LoadFails
<1>5. DeskTypeOK'
  BY <1>2, <1>3, <1>4 DEF DeskInv, DeskTypeOK
<1> QED
  BY <1>2, <1>3, <1>4, <1>5, Frame DEF DeskInv

\* What a step of the polls must keep.
LEMMA PollFrame ==
  ASSUME DeskInv, UNCHANGED <<status, session, calls, loads, remembered>>,
         IsABag(polls'), BagToSet(polls') \subseteq Read,
         \A r \in BagToSet(polls') : PollFits(r),
         shown' \in Shown \cup {None}, ShownInv'
  PROVE  DeskInv'
<1>1. DeskTypeOK'
  BY DEF DeskInv, DeskTypeOK
<1>2. PollsInv'
  BY DEF PollsInv, PollFits
<1> QED
  BY <1>1, <1>2, Frame DEF DeskInv

\* The timer polls a payment that is on display, which the server has.
LEMMA PollTickKeeps ==
  ASSUME DeskInv, PollTick
  PROVE  DeskInv'
<1>1. /\ shown.id \in Payments /\ status[shown.id] # None
      /\ polls' = BagAdd(polls, Ask(shown.id))
      /\ UNCHANGED <<status, session, shown, calls, loads, remembered>>
  BY DEF PollTick, StartPoll, ShowsProcessing, lifecycleVars, DeskInv, DeskTypeOK,
         Shown, ShownInv
<1>2. PollFits(Ask(shown.id)) /\ Ask(shown.id) \in Read
  BY <1>1, AskIs DEF PollFits
<1>3. IsABag(polls') /\ BagToSet(polls') = BagToSet(polls) \cup {Ask(shown.id)}
  BY <1>1, BagMoves DEF DeskInv, DeskTypeOK
<1>4. shown' \in Shown \cup {None} /\ ShownInv'
  BY <1>1, Frame DEF DeskInv, DeskTypeOK
<1>5. BagToSet(polls') \subseteq Read /\ \A r \in BagToSet(polls') : PollFits(r)
  BY <1>2, <1>3 DEF DeskInv, DeskTypeOK, PollsInv
<1> QED
  BY <1>1, <1>3, <1>4, <1>5, PollFrame

\* A poll answers for a payment of the server, whatever is selected by then.
LEMMA PollKeeps ==
  ASSUME DeskInv, NEW r \in BagToSet(polls),
         PollServed(r) \/ PollArrives(r) \/ PollFails(r)
  PROVE  DeskInv'
<1>1. /\ UNCHANGED <<status, session, calls, loads, remembered>>
      /\ r \in Read /\ PollFits(r) /\ ServerInv
  BY DEF PollServed, PollArrives, PollFails, lifecycleVars, DeskInv, DeskTypeOK,
         PollsInv
<1>2. /\ IsABag(BagRemove(polls, r))
      /\ BagToSet(BagRemove(polls, r)) \subseteq BagToSet(polls)
  BY BagMoves DEF DeskInv, DeskTypeOK
<1>3. BagToSet(polls) \subseteq Read /\ \A q \in BagToSet(polls) : PollFits(q)
  BY DEF DeskInv, DeskTypeOK, PollsInv
<1>4. CASE PollServed(r)
  <2>1. /\ Answer(r) \in Read /\ Answer(r).id = r.id
        /\ Answer(r).answer \in DeskStatuses
    BY <1>1, AnswerIs DEF PollFits
  <2>2. PollFits(Answer(r))
    BY <1>1, <2>1, DeskStatusesAre DEF PollFits
  <2>3. /\ polls' = BagAdd(BagRemove(polls, r), Answer(r))
        /\ shown' = shown
    BY <1>4 DEF PollServed
  <2>4. /\ IsABag(polls')
        /\ BagToSet(polls') = BagToSet(BagRemove(polls, r)) \cup {Answer(r)}
    BY <1>2, <2>3, BagMoves
  <2>5. shown' \in Shown \cup {None} /\ ShownInv'
    BY <1>1, <2>3, Frame DEF DeskInv, DeskTypeOK
  <2>6. BagToSet(polls') \subseteq Read /\ \A q \in BagToSet(polls') : PollFits(q)
    BY <1>2, <1>3, <2>1, <2>2, <2>4
  <2> QED
    BY <1>1, <2>4, <2>5, <2>6, PollFrame
<1>5. CASE PollArrives(r) \/ PollFails(r)
  <2>1. polls' = BagRemove(polls, r)
    BY <1>5 DEF PollArrives, PollFails
  <2>2. IsABag(polls') /\ BagToSet(polls') \subseteq BagToSet(polls)
    BY <1>2, <2>1
  <2>3. BagToSet(polls') \subseteq Read /\ \A q \in BagToSet(polls') : PollFits(q)
    BY <1>3, <2>2
  <2>4. shown' \in Shown \cup {None} /\ ShownInv'
    <3>1. CASE PollArrives(r)
      <4>1. r.answer \in DeskStatuses /\ r.id \in Payments /\ Show(r)
        BY <1>1, <3>1 DEF PollArrives, PollFits, Arrived, Read, Answers
      <4> QED
        BY <1>1, <4>1, ShowKeeps DEF PollFits
    <3>2. CASE PollFails(r)
      BY <1>1, <3>2, Frame DEF PollFails, DeskInv, DeskTypeOK
    <3> QED
      BY <1>5, <3>1, <3>2
  <2> QED
    BY <1>1, <2>2, <2>3, <2>4, PollFrame
<1> QED
  BY <1>4, <1>5

-----------------------------------------------------------------------------
(* The session *)

\* What is remembered and kept is of the type of a session, is what was
\* remembered last, and is known if the new id and the old ones were.
LEMMA RememberedIs ==
  ASSUME DeskInv, NEW id \in Payments, Known(id)
  PROVE  LET ids == Latest(Recent(session.ids, id))
             all == Recent(remembered, id)
         IN  /\ ids \in Seq(Payments)
             /\ Len(ids) <= SessionLimit
             /\ IsInjective(ids)
             /\ \A i \in 1..Len(ids) : Known(ids[i])
             /\ all \in Seq(Payments)
             /\ IsInjective(all)
             /\ ids = Latest(all)
<1> DEFINE old == session.ids
           new == Recent(old, id)
           ids == Latest(new)
           all == Recent(remembered, id)
<1>1. /\ old \in Seq(Payments) /\ IsInjective(old)
      /\ remembered \in Seq(Payments) /\ IsInjective(remembered)
      /\ old = Latest(remembered)
      /\ \A i \in 1..Len(old) : Known(old[i])
      /\ SessionLimit \in Nat /\ SessionLimit >= 1
  BY DeskAssumption DEF DeskInv, DeskTypeOK, Session, HistoryInv, IdsKept, SessionInv,
     DeskAssumption
<1> HIDE DEF old
<1>2. new \in Seq(Payments) /\ IsInjective(new) /\ all \in Seq(Payments) /\ IsInjective(all)
  BY <1>1, RecentIs
<1>3. ids = Latest(all)
  BY <1>1, LatestRecent
<1>4. \A i \in 1..Len(new) : Known(new[i])
  <2>1. PICK k \in 1..(Len(old) + 1) : Placed(old, id, new, k)
    BY <1>1, RecentIs
  <2>2. Len(old) \in Nat
    BY <1>1, LenProperties
  <2>3. ASSUME NEW i \in 2..Len(new)
        PROVE  \E j \in 1..Len(old) : new[i] = old[j]
    <3>1. new[i] = IF i <= k THEN old[i - 1] ELSE old[i]
      BY <2>1 DEF Placed
    <3>2. IF i <= k THEN i - 1 \in 1..Len(old) ELSE i \in 1..Len(old)
      BY <2>1, <2>2 DEF Placed
    <3> QED
      BY <3>1, <3>2
  <2>4. new[1] = id
    BY <2>1 DEF Placed
  <2>5. Len(new) \in Nat
    BY <1>2, LenProperties
  <2> HIDE DEF new
  <2>6. \A i \in 1..Len(new) : i = 1 \/ i \in 2..Len(new)
    BY <2>5
  <2> QED
    BY <1>1, <2>3, <2>4, <2>6
<1> HIDE DEF new
<1>5. /\ ids \in Seq(Payments)
      /\ Len(ids) = IF Len(new) <= SessionLimit THEN Len(new) ELSE SessionLimit
      /\ \A i \in 1..Len(ids) : ids[i] = new[i]
      /\ IsInjective(ids)
  BY <1>2, LatestIs
<1>6. Len(new) \in Nat
  BY <1>2, LenProperties
<1> HIDE DEF ids
<1>7. Len(ids) <= SessionLimit /\ \A i \in 1..Len(ids) : Known(ids[i])
  BY <1>1, <1>4, <1>5, <1>6
<1> QED
  BY <1>2, <1>3, <1>5, <1>7 DEF ids, new, old

\* A new selection cancels the load there was and starts one of its own.
LEMMA WriteSessionKeeps ==
  ASSUME DeskInv, NEW s \in Session, s.current \in Payments, WriteSession(s)
  PROVE  session' = s /\ loads' \subseteq Read /\ LoadsInv'
<1>1. session' = s
  BY DEF WriteSession
<1>2. CASE s.current = session.current
  <2>1. loads' = loads
    BY <1>2 DEF WriteSession
  <2> QED
    BY <1>1, <1>2, <2>1 DEF DeskInv, DeskTypeOK, LoadsInv, LoadFits
<1>3. CASE s.current # session.current
  <2>1. loads' = {Ask(s.current)}
    BY <1>3 DEF WriteSession, StartLoad
  <2>2. /\ Ask(s.current) \in Read /\ Ask(s.current).id = s.current
        /\ Ask(s.current).answer = "waiting"
        /\ Ask(s.current).answer \notin DeskStatuses
    BY AskIs
  <2> QED
    BY <1>1, <2>1, <2>2 DEF LoadsInv, LoadFits
<1> QED
  BY <1>2, <1>3

\* The load that a page starts with is for the payment that is selected.
LEMMA FirstLoadIs ==
  ASSUME NEW s, s = session.current, s \in Payments \cup {None}
  PROVE  FirstLoad \subseteq Read /\ \A r \in FirstLoad : LoadFits(r)
<1>1. CASE s = None
  BY <1>1 DEF FirstLoad
<1>2. CASE s # None
  <2>1. FirstLoad = {Ask(s)} /\ s \in Payments
    BY <1>2 DEF FirstLoad
  <2>2. /\ Ask(s) \in Read /\ Ask(s).id = s
        /\ Ask(s).answer = "waiting"
        /\ Ask(s).answer \notin DeskStatuses
    BY <2>1, AskIs
  <2> QED
    BY <2>1, <2>2 DEF LoadFits
<1> QED
  BY <1>1, <1>2

\* The empty bag holds no polls.
LEMMA NoPolls == IsABag(EmptyBag) /\ BagToSet(EmptyBag) = {}
BY DEF EmptyBag, SetToBag, IsABag, BagToSet

\* A new page has the session and nothing else.
LEMMA ReloadKeeps ==
  ASSUME DeskInv, ReloadPage
  PROVE  DeskInv'
<1>1. /\ UNCHANGED <<status, session, remembered>>
      /\ shown' = None
      /\ calls' = [c \in Calls |-> None]
      /\ loads' = FirstLoad
      /\ polls' = EmptyBag
  BY DEF ReloadPage, lifecycleVars
<1>2. FirstLoad \subseteq Read /\ \A r \in FirstLoad : LoadFits(r)
  BY FirstLoadIs DEF DeskInv, DeskTypeOK, Session
<1>3. LoadsInv'
  BY <1>1, <1>2 DEF LoadsInv, LoadFits
<1>4. DeskTypeOK'
  BY <1>1, <1>2, NoPolls DEF DeskInv, DeskTypeOK
<1>5. ShownInv' /\ PollsInv' /\ CallsInv'
  BY <1>1, NoPolls DEF ShownInv, PollsInv, CallsInv, CallFits
<1> QED
  BY <1>1, <1>3, <1>4, <1>5, Frame DEF DeskInv

\* A selection changes the current payment only.
LEMMA SelectKeeps ==
  ASSUME DeskInv, NEW id \in Payments, Select(id)
  PROVE  DeskInv'
<1> DEFINE s == [session EXCEPT !.current = id]
<1>1. session \in Session
  BY DEF DeskInv, DeskTypeOK
<1>2. s \in Session /\ s.current = id /\ s.ids = session.ids
  BY <1>1 DEF Session
<1>3. UNCHANGED <<status, shown, calls, polls, remembered>> /\ WriteSession(s)
  BY DEF Select, lifecycleVars
<1>4. Known(id)
  <2>1. CASE id \in ToSet(session.ids)
    <3>1. PICK i \in 1..Len(session.ids) : id = session.ids[i]
      BY <1>1, <2>1, LenProperties DEF ToSet, Session
    <3> QED
      BY <3>1 DEF DeskInv, SessionInv
  <2>2. CASE status[id] # None
    BY <2>2 DEF Known
  <2> QED
    BY <2>1, <2>2 DEF Select
<1> HIDE DEF s
<1>5. session' = s /\ loads' \subseteq Read /\ LoadsInv'
  BY <1>2, <1>3, WriteSessionKeeps
<1>6. DeskTypeOK'
  BY <1>2, <1>3, <1>5 DEF DeskInv, DeskTypeOK
<1>7. SessionInv'
  BY <1>2, <1>3, <1>4, <1>5 DEF DeskInv, SessionInv, Known
<1>8. CallsInv'
  BY <1>2, <1>3, <1>5 DEF DeskInv, CallsInv, CallFits, Arrived
<1>9. HistoryInv'
  BY <1>2, <1>3, <1>5 DEF DeskInv, HistoryInv, IdsKept
<1> QED
  BY <1>3, <1>5, <1>6, <1>7, <1>8, <1>9, Frame DEF DeskInv

-----------------------------------------------------------------------------
(* Requests *)

\* A request that is sent is the only one, and holds the session of the click.
LEMMA SendKeeps ==
  ASSUME DeskInv, NEW c \in Calls, NEW op \in {"create", "lookup", "act"},
         NEW id \in Payments \cup {None}, op # "create" => id \in Payments,
         Send(c, op, id)
  PROVE  DeskInv'
<1> DEFINE call == [op |-> op, id |-> id, answer |-> "waiting", ids |-> session.ids]
<1>1. /\ UNCHANGED <<status, session, shown, loads, polls, remembered>>
      /\ \A d \in Calls : calls[d] = None
      /\ calls' = [calls EXCEPT ![c] = call]
  BY DEF Send, Ready, Free, lifecycleVars
<1>2. calls \in [Calls -> Call \cup {None}] /\ session \in Session
  BY DEF DeskInv, DeskTypeOK
<1>3. /\ call \in Call
      /\ call.ids = session.ids
      /\ call.id = id /\ call.op = op
      /\ call.answer = "waiting"
  BY <1>2 DEF Call, Answers, Session
<1> HIDE DEF call
<1>4. calls' \in [Calls -> Call \cup {None}]
  BY <1>1, <1>2, <1>3
<1>5. CallsInv'
  BY <1>1, <1>2, <1>3 DEF CallsInv, CallFits, Arrived
<1>6. DeskTypeOK'
  BY <1>1, <1>4 DEF DeskInv, DeskTypeOK
<1> QED
  BY <1>1, <1>5, <1>6, Frame DEF DeskInv

\* A creation is answered with a payment that the server then has.
LEMMA CreateServedKeeps ==
  ASSUME DeskInv, NEW c \in Calls, CreateServed(c)
  PROVE  DeskInv'
<1>1. PICK p \in Payments \ Lost :
        /\ Open(p)
        /\ calls' = [calls EXCEPT ![c].id = p, ![c].answer = "requires_payment"]
  BY DEF CreateServed
<1>2. /\ UNCHANGED <<session, shown, loads, polls, remembered>>
      /\ calls[c] # None /\ calls[c].op = "create"
  BY DEF CreateServed, Free
<1>3. /\ ServerInv'
      /\ status'[p] # None
      /\ \A q \in Payments : status[q] # None => status'[q] # None
  BY <1>1, ServerForward DEF DeskInv
<1>4. calls \in [Calls -> Call \cup {None}] /\ calls[c] \in Call
  BY <1>2 DEF DeskInv, DeskTypeOK
<1>5. /\ calls'[c] \in Call
      /\ calls'[c].ids = calls[c].ids
      /\ calls'[c].op = "create"
      /\ calls'[c].id = p
      /\ calls'[c].answer = "requires_payment"
      /\ \A d \in Calls \ {c} : calls'[d] = calls[d]
  BY <1>1, <1>2, <1>4, DeskStatusesAre DEF Call, Answers
<1>6. calls' \in [Calls -> Call \cup {None}]
  BY <1>1, <1>4, <1>5
<1>7. DeskTypeOK'
  BY <1>2, <1>6 DEF DeskInv, DeskTypeOK
<1>8. CallsInv'
  <2>1. \A d \in Calls \ {c} : calls[d] = None
    BY <1>2 DEF DeskInv, CallsInv, CallFits
  <2>2. calls[c].ids = session.ids
    BY <1>2 DEF DeskInv, CallsInv, CallFits
  <2> QED
    BY <1>2, <1>3, <1>5, <2>1, <2>2, DeskStatusesAre DEF CallsInv, CallFits, Arrived
<1> QED
  BY <1>2, <1>3, <1>7, <1>8, ServerMoves DEF DeskInv

\* Every other request is answered with the status of a payment of the server.
LEMMA CallServedKeeps ==
  ASSUME DeskInv, NEW c \in Calls, CallServed(c)
  PROVE  DeskInv'
<1>1. /\ UNCHANGED <<status, session, shown, loads, polls, remembered>>
      /\ calls[c] # None /\ calls[c].op # "create"
      /\ status[calls[c].id] # None
      /\ calls' = [calls EXCEPT ![c] = Answer(calls[c])]
  BY DEF CallServed, Free, lifecycleVars, DeskInv, DeskTypeOK
<1>2. /\ calls \in [Calls -> Call \cup {None}] /\ calls[c] \in Call
      /\ calls[c].ids = session.ids
      /\ calls[c].id \in Payments
      /\ \A d \in Calls \ {c} : calls[d] = None
  BY <1>1 DEF DeskInv, DeskTypeOK, CallsInv, CallFits
<1>3. status[calls[c].id] \in DeskStatuses
  BY <1>1, <1>2 DEF DeskInv, ServerInv
<1>4. Answer(calls[c]) = [calls[c] EXCEPT !.answer = status[calls[c].id]]
  BY <1>1 DEF Answer
<1>5. /\ calls'[c] \in Call
      /\ calls'[c].ids = session.ids
      /\ calls'[c].op = calls[c].op
      /\ calls'[c].id = calls[c].id
      /\ calls'[c].answer \in DeskStatuses
      /\ \A d \in Calls \ {c} : calls'[d] = None
  BY <1>1, <1>2, <1>3, <1>4 DEF Call, Answers
<1>6. calls' \in [Calls -> Call \cup {None}]
  BY <1>1, <1>2, <1>5
<1>7. DeskTypeOK'
  BY <1>1, <1>6 DEF DeskInv, DeskTypeOK
<1>8. CallsInv'
  BY <1>1, <1>2, <1>5 DEF CallsInv, CallFits, Arrived
<1> QED
  BY <1>1, <1>7, <1>8, Frame DEF DeskInv

\* No request is left when one ends.
LEMMA CallEnds ==
  ASSUME DeskInv, NEW c \in Calls, calls[c] # None,
         calls' = [calls EXCEPT ![c] = None]
  PROVE  calls' \in [Calls -> Call \cup {None}] /\ CallsInv'
<1>1. calls \in [Calls -> Call \cup {None}] /\ \A d \in Calls \ {c} : calls[d] = None
  BY DEF DeskInv, DeskTypeOK, CallsInv, CallFits
<1>2. \A d \in Calls : calls'[d] = None
  BY <1>1
<1> QED
  BY <1>1, <1>2 DEF CallsInv, CallFits

\* What a request answers is shown and remembered on top of the session.
LEMMA CallArrivesKeeps ==
  ASSUME DeskInv, NEW c \in Calls, CallArrives(c)
  PROVE  DeskInv'
<1> DEFINE id == calls[c].id
<1>1. /\ UNCHANGED <<status, polls>>
      /\ calls[c] # None /\ Arrived(calls[c]) /\ Show(calls[c])
      /\ calls' = [calls EXCEPT ![c] = None]
      /\ \/ UNCHANGED <<session, loads, remembered>>
         \/ Remember(calls[c].ids, id)
  BY DEF CallArrives, Free, lifecycleVars
<1>2. /\ id \in Payments /\ status[id] # None /\ calls[c].answer \in DeskStatuses
      /\ calls[c].ids = session.ids
  BY <1>1 DEF DeskInv, CallsInv, CallFits
<1>3. shown' \in Shown /\ ShownInv'
  BY <1>1, <1>2, ShowKeeps DEF DeskInv
<1>4. calls' \in [Calls -> Call \cup {None}] /\ CallsInv'
  BY <1>1, CallEnds
<1>5. CASE UNCHANGED <<session, loads, remembered>>
  <2>1. DeskTypeOK'
    BY <1>1, <1>3, <1>4, <1>5 DEF DeskInv, DeskTypeOK
  <2> QED
    BY <1>1, <1>3, <1>4, <1>5, <2>1, Frame DEF DeskInv
<1>6. CASE Remember(calls[c].ids, id)
  <2> DEFINE ids == Latest(Recent(session.ids, id))
             all == Recent(remembered, id)
             s == [current |-> id, ids |-> ids]
  <2>1. WriteSession(s) /\ remembered' = all
    BY <1>2, <1>6 DEF Remember
  <2>2. Known(id)
    BY <1>2 DEF Known
  <2>3. /\ ids \in Seq(Payments) /\ Len(ids) <= SessionLimit /\ IsInjective(ids)
        /\ \A i \in 1..Len(ids) : Known(ids[i])
        /\ all \in Seq(Payments) /\ IsInjective(all)
        /\ ids = Latest(all)
    BY <1>2, <2>2, RememberedIs
  <2> HIDE DEF ids, all
  <2>4. s \in Session /\ s.current = id /\ s.ids = ids
    BY <1>2, <2>3 DEF Session
  <2> HIDE DEF s
  <2>5. session' = s /\ loads' \subseteq Read /\ LoadsInv'
    BY <1>2, <2>1, <2>4, WriteSessionKeeps
  <2>6. DeskTypeOK'
    BY <1>1, <1>3, <1>4, <2>1, <2>3, <2>4, <2>5 DEF DeskInv, DeskTypeOK
  <2>7. SessionInv'
    BY <1>1, <2>2, <2>3, <2>4, <2>5 DEF SessionInv, Known
  <2>8. HistoryInv'
    BY <2>1, <2>3, <2>4, <2>5 DEF HistoryInv, IdsKept
  <2> QED
    BY <1>1, <1>3, <1>4, <2>5, <2>6, <2>7, <2>8, Frame DEF DeskInv
<1> QED
  BY <1>1, <1>5, <1>6

\* A refused request leaves the display and the session.
LEMMA CallFailsKeeps ==
  ASSUME DeskInv, NEW c \in Calls, CallFails(c)
  PROVE  DeskInv'
<1>1. /\ UNCHANGED <<status, session, shown, loads, polls, remembered>>
      /\ calls[c] # None
      /\ calls' = [calls EXCEPT ![c] = None]
  BY DEF CallFails, Free, lifecycleVars
<1>2. calls' \in [Calls -> Call \cup {None}] /\ CallsInv'
  BY <1>1, CallEnds
<1>3. DeskTypeOK'
  BY <1>1, <1>2 DEF DeskInv, DeskTypeOK
<1> QED
  BY <1>1, <1>2, <1>3, Frame DEF DeskInv

-----------------------------------------------------------------------------
\* A tab opens with the latest payments of an earlier database.
LEMMA DeskInitInv == DeskInit => DeskInv
<1> SUFFICES ASSUME DeskInit
             PROVE  DeskInv
  OBVIOUS
<1>1. /\ remembered = LostIds
      /\ session.ids = Latest(remembered)
      /\ session = [ids |-> session.ids, current |-> session.current]
      /\ session.current = IF LostIds = <<>> THEN None ELSE Head(LostIds)
  BY DEF DeskInit
<1>2. LostIds \in Seq(Payments) /\ IsInjective(LostIds) /\ SessionLimit \in Nat \ {0}
  BY DeskAssumption DEF DeskAssumption
<1>3. LostIds \in Seq(Lost) /\ Lost \subseteq Payments
  BY <1>2, LostIsPayments DEF Lost, ToSet
<1>4. session.current \in Lost \cup {None}
  <2>1. LostIds # <<>> => Head(LostIds) \in Lost
    BY <1>3, EmptySeq, HeadTailProperties
  <2> QED
    BY <1>1, <2>1
<1>5. /\ session.ids \in Seq(Lost) /\ session.ids \in Seq(Payments)
      /\ Len(session.ids) <= SessionLimit
      /\ IsInjective(session.ids)
  <2>1. /\ Latest(LostIds) \in Seq(Lost)
        /\ Len(Latest(LostIds)) = IF Len(LostIds) <= SessionLimit
                                   THEN Len(LostIds) ELSE SessionLimit
        /\ IsInjective(Latest(LostIds))
    BY <1>2, <1>3, LatestIs
  <2>2. Latest(LostIds) \in Seq(Payments)
    BY <1>2, LatestIs
  <2> QED
    BY <1>1, <1>2, <1>3, <2>1, <2>2, LenProperties
<1>6. session \in Session
  BY <1>1, <1>3, <1>4, <1>5 DEF Session
<1>7. /\ status = [p \in Payments |-> None]
      /\ shown = None
      /\ calls = [c \in Calls |-> None]
      /\ loads = FirstLoad
      /\ polls = EmptyBag
  BY DEF DeskInit, LifecycleInit
<1>8. FirstLoad \subseteq Read /\ \A r \in FirstLoad : LoadFits(r)
  BY <1>3, <1>4, FirstLoadIs
<1>9. DeskTypeOK
  BY <1>1, <1>2, <1>5, <1>6, <1>7, <1>8, NoPolls DEF DeskTypeOK
<1>10. ServerInv
  BY <1>3, <1>7 DEF ServerInv
<1>11. SessionInv
  BY <1>4, <1>5, ElementOfSeq DEF SessionInv, Known
<1>12. ShownInv /\ LoadsInv /\ PollsInv /\ CallsInv
  BY <1>7, <1>8, NoPolls DEF ShownInv, LoadsInv, PollsInv, CallsInv, CallFits
<1>13. HistoryInv
  BY <1>1, <1>2 DEF HistoryInv, IdsKept
<1> QED
  BY <1>9, <1>10, <1>11, <1>12, <1>13 DEF DeskInv

\* Every step of the tab, the network and the server.
LEMMA DeskStep ==
  ASSUME DeskInv, [DeskNext]_vars
  PROVE  DeskInv'
<1>1. ASSUME NEW c \in Calls, ClickCreate(c)
      PROVE  DeskInv'
  BY <1>1, SendKeeps DEF ClickCreate
<1>2. ASSUME NEW c \in Calls, NEW id \in Payments, ClickLookup(c, id)
      PROVE  DeskInv'
  BY <1>2, SendKeeps DEF ClickLookup
<1>3. ASSUME NEW c \in Calls, ClickAct(c)
      PROVE  DeskInv'
  <2>1. shown.id \in Payments /\ Send(c, "act", shown.id)
    BY <1>3 DEF ClickAct, DeskInv, DeskTypeOK, Shown
  <2> QED
    BY <2>1, SendKeeps
<1>4. CASE UNCHANGED vars
  <2>1. UNCHANGED <<status, session, shown, calls, loads, polls, remembered>>
    BY <1>4 DEF vars, lifecycleVars, deskVars
  <2>2. DeskTypeOK'
    BY <2>1 DEF DeskInv, DeskTypeOK
  <2> QED
    BY <2>1, <2>2, Frame DEF DeskInv
<1> QED
  BY <1>1, <1>2, <1>3, <1>4, ReloadKeeps, PollTickKeeps, SelectKeeps, ServeKeeps,
     LoadKeeps, PollKeeps, CreateServedKeeps, CallServedKeeps, CallArrivesKeeps,
     CallFailsKeeps
  DEF DeskNext

\* The invariant of the desk holds in every state it reaches.
THEOREM DeskInvariant == DeskSpec => []DeskInv
<1>1. DeskInv /\ [DeskNext]_vars => DeskInv'
  BY DeskStep
<1> QED
  BY DeskInitInv, <1>1, PTL DEF DeskSpec

\* Every variable of the desk keeps its type: a session never holds more than
\* its limit, nor a payment twice.
THEOREM DeskTypeCorrect == DeskSpec => []DeskTypeOK
BY DeskInvariant, PTL DEF DeskInv

\* A session holds the payments remembered last, although each request writes
\* the session that it saw when it was clicked.
THEOREM IdsAreKept == DeskSpec => []IdsKept
<1>1. DeskInv => IdsKept
  BY DEF DeskInv, HistoryInv
<1> QED
  BY <1>1, DeskInvariant, PTL

\* No load that a later selection cancelled changes what is on display.
THEOREM StraysAreLate == DeskSpec => StraysOnlyLate
<1> DEFINE Stray == /\ shown' # shown
                    /\ ~(shown' = None /\ session.current \in Lost)
                    /\ ~(shown' # None /\ shown'.id = session'.current)
                    /\ ~(polls' # polls)
                    /\ ~(calls' # calls)
                    /\ ~ReloadPage
<1>1. ASSUME DeskInv, DeskNext
      PROVE  ~Stray
  <2>1. ASSUME NEW r \in loads, LoadArrives(r)
        PROVE  ~Stray
    <3>1. r \in Read /\ LoadFits(r) /\ session' = session
      BY <1>1, <2>1 DEF LoadArrives, DeskInv, DeskTypeOK, LoadsInv
    <3>2. CASE r.answer = "NOT_FOUND"
      BY <2>1, <3>1, <3>2 DEF LoadArrives, LoadFits
    <3>3. CASE r.answer # "NOT_FOUND"
      <4>1. /\ r.id \in Payments \ Lost /\ r.answer \in DeskStatuses
            /\ shown' = [id |-> r.id, status |-> r.answer]
        BY <2>1, <3>1, <3>3 DEF LoadArrives, Arrived, Show, LoadFits, Read, Answers
      <4>2. shown' # None
        BY <4>1, NoneAssumption DEF Shown
      <4> QED
        BY <3>1, <4>1, <4>2 DEF LoadFits
    <3> QED
      BY <3>2, <3>3
  <2>2. ASSUME NEW r \in BagToSet(polls), PollArrives(r)
        PROVE  polls' # polls
    BY <1>1, <2>2, BagMoves DEF PollArrives, DeskInv, DeskTypeOK
  <2>3. ASSUME NEW c \in Calls, CallArrives(c)
        PROVE  calls' # calls
    BY <1>1, <2>3 DEF CallArrives, Free, DeskInv, DeskTypeOK
  <2>4. \/ shown' = shown \/ ReloadPage
        \/ \E r \in loads : LoadArrives(r)
        \/ \E r \in BagToSet(polls) : PollArrives(r)
        \/ \E c \in Calls : CallArrives(c)
    BY <1>1
    DEF DeskNext, PollTick, StartPoll, Select, Serve, deskVars, LoadServed, LoadFails,
        PollServed, PollFails, ClickCreate, ClickAct, ClickLookup, Send,
        CreateServed, CallServed, CallFails
  <2> QED
    BY <2>1, <2>2, <2>3, <2>4
<1>2. DeskInv /\ [DeskNext]_vars =>
        [shown' # shown =>
           \/ shown' = None /\ session.current \in Lost
           \/ shown' # None /\ shown'.id = session'.current
           \/ polls' # polls
           \/ calls' # calls
           \/ ReloadPage]_vars
  BY <1>1
<1> QED
  BY <1>2, DeskInvariant, PTL DEF DeskSpec, StraysOnlyLate

\* What the desk sees its payments do, whoever moves them, is what the service
\* was shown to do: its server is the abstract payment.
THEOREM DeskServes == DeskSpec => LifecycleSpec
<1>1. DeskInit => LifecycleInit
  BY DEF DeskInit
<1>2. [DeskNext]_vars => [LifecycleNext]_lifecycleVars
  <2>1. ASSUME NEW p \in Payments, NEW e \in Moves, Move(p, e[2])
        PROVE  LifecycleNext
    <3>1. e \in Edges
      BY DeskAssumption DEF DeskAssumption
    <3> QED
      BY <2>1, <3>1 DEF LifecycleNext
  <2>2. ASSUME NEW p \in Payments, Serve(p) \/ Decide(p)
        PROVE  LifecycleNext
    BY <2>1, <2>2 DEF Serve, Decide, LifecycleNext
  <2>3. ASSUME NEW c \in Calls, CreateServed(c)
        PROVE  LifecycleNext
    BY <2>3 DEF CreateServed, LifecycleNext
  <2>4. ASSUME NEW c \in Calls,
               \/ ClickCreate(c) \/ ClickAct(c)
               \/ \E id \in Payments : ClickLookup(c, id)
               \/ CallServed(c) \/ CallArrives(c) \/ CallFails(c)
        PROVE  UNCHANGED lifecycleVars
    BY <2>4 DEF ClickCreate, ClickAct, ClickLookup, Send, CallServed, CallArrives,
                CallFails
  <2>5. ASSUME NEW r, \/ LoadServed(r) \/ LoadArrives(r) \/ LoadFails(r)
                      \/ PollServed(r) \/ PollArrives(r) \/ PollFails(r)
        PROVE  UNCHANGED lifecycleVars
    BY <2>5 DEF LoadServed, LoadArrives, LoadFails, PollServed, PollArrives, PollFails
  <2>6. ASSUME ReloadPage \/ PollTick \/ \E p \in Payments : Select(p)
        PROVE  UNCHANGED lifecycleVars
    BY <2>6 DEF ReloadPage, PollTick, StartPoll, Select
  <2>7. UNCHANGED vars => UNCHANGED lifecycleVars
    BY DEF vars
  <2> QED
    BY <2>2, <2>3, <2>4, <2>5, <2>6, <2>7 DEF DeskNext
<1> QED
  BY <1>1, <1>2, PTL DEF DeskSpec, LifecycleSpec
=============================================================================
