-------------------------- MODULE ReportBuffer_proofs --------------------------
(***************************************************************************)
(* Proofs about the circular buffer of reports.  The arithmetic of the     *)
(* ring comes first: the positions from tail on are all of the ring, each  *)
(* once, and moving tail by n shifts them by n.  With it RingInv is        *)
(* inductive, and every step of the ring is a step of the queue.           *)
(***************************************************************************)
EXTENDS ReportBuffer, SequenceTheorems, TLAPS

-----------------------------------------------------------------------------
(* The ring                                                                *)

\* A position less than two rounds from the start wraps at most once.
LEMMA Wraps ==
    ASSUME NEW k \in 0 .. 2 * Limit - 1
    PROVE  k % Limit = IF k < Limit THEN k ELSE k - Limit
  <1>1. Limit \in Nat \ {0}
    BY BufferAssumption
  <1>2. CASE k < Limit
    BY <1>1, <1>2, SMT
  <1>3. CASE k >= Limit
    BY <1>1, <1>3, SMT
  <1> QED
    BY <1>1, <1>2, <1>3

\* The position i places after position u.
Place(u, i) == (u + i) % Limit

LEMMA Placed ==
    ASSUME NEW u \in Ring, NEW i \in 0 .. Limit
    PROVE  /\ Place(u, i) = IF u + i < Limit THEN u + i ELSE u + i - Limit
           /\ Place(u, i) \in Ring
  <1>1. Limit \in Nat \ {0}
    BY BufferAssumption
  <1>2. u + i \in 0 .. 2 * Limit - 1
    BY <1>1, SMT DEF Ring
  <1>3. Place(u, i) = IF u + i < Limit THEN u + i ELSE u + i - Limit
    BY <1>1, <1>2, Wraps, SMT DEF Place, Ring
  <1>4. CASE u + i < Limit
    BY <1>1, <1>3, <1>4, SMT DEF Ring
  <1>5. CASE ~(u + i < Limit)
    BY <1>1, <1>3, <1>5, SMT DEF Ring
  <1> QED
    BY <1>4, <1>5

\* Different distances lead to different positions.
LEMMA PlacedOnce ==
    ASSUME NEW u \in Ring, NEW i \in Ring, NEW j \in Ring, Place(u, i) = Place(u, j)
    PROVE  i = j
  <1>1. /\ Limit \in Nat \ {0}
        /\ u \in 0 .. Limit - 1 /\ i \in 0 .. Limit - 1 /\ j \in 0 .. Limit - 1
        /\ i \in 0 .. Limit /\ j \in 0 .. Limit
    BY BufferAssumption, SMT DEF Ring
  <1>2. Place(u, i) = (IF u + i < Limit THEN u + i ELSE u + i - Limit)
    BY <1>1, Placed
  <1>3. Place(u, j) = (IF u + j < Limit THEN u + j ELSE u + j - Limit)
    BY <1>1, Placed
  <1>4. (IF u + i < Limit THEN u + i ELSE u + i - Limit)
           = (IF u + j < Limit THEN u + j ELSE u + j - Limit)
    BY <1>2, <1>3
  <1> QED
    BY <1>1, <1>4, SMT

\* Distances add up.
LEMMA PlacedAgain ==
    ASSUME NEW u \in Ring, NEW n \in 0 .. Limit, NEW i \in 0 .. Limit
    PROVE  Place(Place(u, n), i) =
              IF n + i <= Limit THEN Place(u, n + i) ELSE Place(u, n + i - Limit)
  <1>1. Limit \in Nat \ {0}
    BY BufferAssumption
  <1> DEFINE v == Place(u, n)
  <1>2. v \in Ring /\ v = (IF u + n < Limit THEN u + n ELSE u + n - Limit)
    BY Placed
  <1>3. Place(v, i) = (IF v + i < Limit THEN v + i ELSE v + i - Limit)
    BY <1>2, Placed
  <1>4. CASE n + i <= Limit
    <2>1. n + i \in 0 .. Limit
      BY <1>1, <1>4, SMT
    <2>2. Place(u, n + i) = (IF u + (n + i) < Limit THEN u + (n + i) ELSE u + (n + i) - Limit)
      BY <2>1, Placed
    <2> HIDE DEF v
    <2>3. Place(v, i) = Place(u, n + i)
      BY <1>1, <1>2, <1>3, <1>4, <2>1, <2>2, SMT DEF Ring
    <2> QED
      BY <1>4, <2>3 DEF v
  <1>5. CASE n + i > Limit
    <2>1. n + i - Limit \in 0 .. Limit
      BY <1>1, <1>5, SMT
    <2>2. Place(u, n + i - Limit) =
             (IF u + (n + i - Limit) < Limit
              THEN u + (n + i - Limit) ELSE u + (n + i - Limit) - Limit)
      BY <2>1, Placed
    <2> HIDE DEF v
    <2>3. Place(v, i) = Place(u, n + i - Limit)
      BY <1>1, <1>2, <1>3, <1>5, <2>1, <2>2, SMT DEF Ring
    <2>4. ~(n + i <= Limit)
      BY <1>1, <1>5, SMT
    <2> QED
      BY <2>3, <2>4 DEF v
  <1> QED
    BY <1>1, <1>4, <1>5, SMT

\* A whole round leads back to the start.
LEMMA PlacedRound ==
    ASSUME NEW u \in Ring
    PROVE  Place(u, Limit) = u /\ Place(u, 0) = u
  <1>1. Limit \in Nat \ {0} /\ Limit \in 0 .. Limit /\ 0 \in 0 .. Limit
    BY BufferAssumption, SMT
  <1>2. /\ Place(u, Limit) = (IF u + Limit < Limit THEN u + Limit ELSE u + Limit - Limit)
        /\ Place(u, 0) = (IF u + 0 < Limit THEN u + 0 ELSE u + 0 - Limit)
    BY <1>1, Placed
  <1> QED
    BY <1>1, <1>2, SMT DEF Ring

-----------------------------------------------------------------------------
(* RingInv by what the ring holds i places after its oldest report         *)

Entry(i) == reports[Place(tail, i)]

Shape ==
    /\ reports \in [Ring -> Reports \cup {Null}]
    /\ count \in 0 .. Limit
    /\ head \in Ring
    /\ tail \in Ring
    /\ fate \in [Reports -> {"new", "queued", "taken", "freed"}]
    /\ alive \in BOOLEAN
    /\ head = Place(tail, count)

Contents ==
    alive =>
        /\ \A r \in Reports :
              fate[r] = "queued" <=> \E i \in 0 .. count - 1 : Entry(i) = r
        /\ \A i, j \in 0 .. count - 1 : Entry(i) = Entry(j) => i = j
        /\ \A i \in Ring : Entry(i) = Null <=> i >= count

LEMMA RingInvIs == RingInv <=> Shape /\ Contents
  BY Zenon DEF RingInv, Shape, Contents, Entry, At, Place

LEMMA RingInvIsNext == (RingInv <=> Shape /\ Contents)'
  BY RingInvIs, PTL

LEMMA OldestIs ==
    ASSUME NEW n
    PROVE  Oldest(n) = [i \in 1 .. n |-> Entry(i - 1)]
  BY DEF Oldest, Entry, At, Place

\* The buffered reports are queued, so settling the oldest breaks none of them.
LEMMA Settled ==
    ASSUME Shape, Contents, alive, NEW n \in 0 .. count, NEW f
    PROVE  Settle(Oldest(n), f) =
              [r \in Reports |->
                  IF \E i \in 0 .. n - 1 : Entry(i) = r THEN f ELSE fate[r]]
  <1>1. ASSUME NEW r \in Reports
        PROVE  (\E i \in DOMAIN Oldest(n) : Oldest(n)[i] = r)
                  <=> (\E i \in 0 .. n - 1 : Entry(i) = r)
    <2>1. Oldest(n) = [i \in 1 .. n |-> Entry(i - 1)]
      BY OldestIs
    <2>2. ASSUME NEW i \in 1 .. n, Entry(i - 1) = r
          PROVE  \E j \in 0 .. n - 1 : Entry(j) = r
      <3>1. i - 1 \in 0 .. n - 1
        BY SMT DEF Shape
      <3> QED
        BY <2>2, <3>1
    <2>3. ASSUME NEW i \in 0 .. n - 1, Entry(i) = r
          PROVE  \E j \in 1 .. n : Entry(j - 1) = r
      <3>1. i + 1 \in 1 .. n /\ (i + 1) - 1 = i
        BY SMT DEF Shape
      <3> QED
        BY <2>3, <3>1
    <2> QED
      BY <2>1, <2>2, <2>3
  <1>2. ASSUME NEW r \in Reports, \E i \in 0 .. n - 1 : Entry(i) = r
        PROVE  fate[r] = "queued"
    <2>1. PICK i \in 0 .. n - 1 : Entry(i) = r
      BY <1>2
    <2>2. i \in 0 .. count - 1
      BY SMT DEF Shape
    <2> QED
      BY <2>1, <2>2 DEF Contents
  <1> QED
    BY <1>1, <1>2 DEF Settle

-----------------------------------------------------------------------------
(* Type correctness of the ring, and what it holds                         *)

LEMMA RingInit == Init => RingInv
  <1> SUFFICES ASSUME Init PROVE RingInv
    OBVIOUS
  <1>1. Limit \in Nat \ {0} /\ Null \notin Reports
    BY BufferAssumption
  <1>2. 0 \in Ring /\ 0 \in 0 .. Limit
    BY <1>1, SMT DEF Ring
  <1>3. Place(0, 0) = 0
    BY <1>1, <1>2, Placed, SMT
  <1>4. Shape
    BY <1>1, <1>2, <1>3 DEF Shape, Init
  <1>5. ASSUME NEW i \in Ring
        PROVE  Entry(i) = Null /\ i >= 0
    <2>1. i \in 0 .. Limit
      BY <1>1, SMT DEF Ring
    <2>2. Place(0, i) \in Ring
      BY <1>2, <2>1, Placed
    <2> QED
      BY <2>1, <2>2, SMT DEF Entry, Init
  <1>6. 0 .. 0 - 1 = {}
    BY SMT
  <1>7. Contents
    BY <1>5, <1>6 DEF Contents, Init
  <1> QED
    BY <1>4, <1>7, RingInvIs

\* What a push leaves in the ring: d reports fewer, and the new one last.
LEMMA Pushed ==
    ASSUME Shape, NEW r \in Reports, Push(r),
           NEW d, d = IF count = Limit THEN 1 ELSE 0
    PROVE  /\ count' = count - d + 1 /\ count' \in 1 .. Limit
           /\ tail' \in Ring /\ head' = Place(tail', count')
           /\ head' \in Ring
           /\ \A i \in Ring : Entry(i)' = IF i = count' - 1 THEN r ELSE Entry(i + d)
  <1>1. Limit \in Nat \ {0} /\ count \in 0 .. Limit /\ d \in 0 .. 1
    BY BufferAssumption, SMT DEF Shape
  <1>2. count' = count - d + 1 /\ count' \in 1 .. Limit
    BY <1>1, SMT DEF Push
  <1>3. tail' = Place(tail, d) /\ head' = Place(head, 1)
    BY DEF Push, Place
  <1>4. d \in 0 .. Limit /\ 1 \in 0 .. Limit
    BY <1>1, SMT
  <1>5. tail' \in Ring /\ head' \in Ring
    BY <1>3, <1>4, Placed DEF Shape
  <1>6. ASSUME NEW i \in Ring
        PROVE  Place(tail', i) = Place(tail, i + d)
    <2>1. i \in 0 .. Limit /\ d + i <= Limit /\ d + i = i + d
      BY <1>1, SMT DEF Ring
    <2> QED
      BY <1>3, <1>4, <2>1, PlacedAgain DEF Shape
  <1>7. count' - 1 \in Ring
    BY <1>1, <1>2, SMT DEF Ring
  <1>8. Place(tail', count' - 1) = head
    <2>1. (count' - 1) + d = count
      BY <1>1, <1>2, SMT
    <2> QED
      BY <1>6, <1>7, <2>1 DEF Shape
  <1>9. head' = Place(tail', count')
    <2>1. /\ count' - 1 \in 0 .. Limit
          /\ (count' - 1) + 1 <= Limit /\ (count' - 1) + 1 = count'
      BY <1>1, <1>2, SMT
    <2> QED
      BY <1>3, <1>4, <1>5, <1>8, <2>1, PlacedAgain
  <1>10. ASSUME NEW i \in Ring
         PROVE  reports'[Place(tail', i)] = IF i = count' - 1 THEN r ELSE Entry(i + d)
    <2>1. i \in 0 .. Limit
      BY <1>1, SMT DEF Ring
    <2>2. Place(tail', i) \in Ring
      BY <1>5, <2>1, Placed
    <2>3. CASE i = count' - 1
      BY <1>8, <2>2, <2>3 DEF Push, Shape
    <2>4. CASE i # count' - 1
      <3>1. Place(tail', i) # head
        BY <1>5, <1>7, <1>8, <2>4, PlacedOnce
      <3>2. reports'[Place(tail', i)] = reports[Place(tail', i)]
        BY <2>2, <3>1 DEF Push, Shape
      <3> QED
        BY <1>6, <2>4, <3>2 DEF Entry
    <2> QED
      BY <2>3, <2>4
  <1> QED
    BY <1>2, <1>5, <1>9, <1>10 DEF Entry

LEMMA PushedFate ==
    ASSUME Shape, Contents, NEW r \in Reports, Push(r),
           NEW d, d = IF count = Limit THEN 1 ELSE 0
    PROVE  /\ d \in 0 .. count
           /\ fate' = [x \in Reports |->
                          IF x = r THEN "queued"
                          ELSE IF \E i \in 0 .. d - 1 : Entry(i) = x THEN "freed" ELSE fate[x]]
  <1>1. d \in 0 .. count
    BY BufferAssumption, SMT DEF Shape
  <1>2. fate' = [Settle(Oldest(d), "freed") EXCEPT ![r] = "queued"]
    BY DEF Push
  <1>3. Settle(Oldest(d), "freed") =
           [x \in Reports |->
               IF \E i \in 0 .. d - 1 : Entry(i) = x THEN "freed" ELSE fate[x]]
    BY <1>1, Settled DEF Push
  <1> QED
    BY <1>1, <1>2, <1>3

LEMMA PushInv ==
    ASSUME RingInv, NEW r \in Reports, Push(r)
    PROVE  RingInv'
  <1>1. Shape /\ Contents /\ alive /\ fate[r] = "new"
    BY RingInvIs DEF Push
  <1>2. Limit \in Nat \ {0} /\ Null \notin Reports /\ count \in 0 .. Limit
    BY <1>1, BufferAssumption DEF Shape
  <1>3. PICK d : d = IF count = Limit THEN 1 ELSE 0
    OBVIOUS
  <1>4. /\ count' = count - d + 1 /\ count' \in 1 .. Limit
        /\ tail' \in Ring /\ head' = Place(tail', count') /\ head' \in Ring
        /\ \A i \in Ring : Entry(i)' = IF i = count' - 1 THEN r ELSE Entry(i + d)
    BY <1>1, <1>3, Pushed
  <1>5. /\ d \in 0 .. count
        /\ fate' = [x \in Reports |->
                       IF x = r THEN "queued"
                       ELSE IF \E i \in 0 .. d - 1 : Entry(i) = x THEN "freed" ELSE fate[x]]
    BY <1>1, <1>3, PushedFate
  <1>6. Shape'
    <2>1. reports' \in [Ring -> Reports \cup {Null}]
      BY <1>1 DEF Push, Shape
    <2>2. fate' \in [Reports -> {"new", "queued", "taken", "freed"}]
      BY <1>1, <1>5 DEF Shape
    <2>3. count' \in 0 .. Limit
      BY <1>2, <1>4, SMT
    <2> QED
      BY <1>1, <1>4, <2>1, <2>2, <2>3 DEF Shape, Push
  \* What was at i + d is at i, and r is last.
  <1>7. ASSUME NEW i \in 0 .. count' - 1
        PROVE  /\ i \in Ring
               /\ i # count' - 1 => i + d \in 0 .. count - 1 /\ i + d \in d .. count - 1
    BY <1>2, <1>4, <1>5, SMT DEF Ring
  <1>8. \A i \in 0 .. count - 1 : Entry(i) # r
    BY <1>1 DEF Contents
  <1>9. ASSUME NEW x \in Reports
        PROVE  fate'[x] = "queued" <=> \E i \in 0 .. count' - 1 : Entry(i)' = x
    <2>1. CASE x = r
      <3>1. PICK last \in 0 .. count' - 1 : last \in Ring /\ last = count' - 1
        BY <1>2, <1>4, SMT DEF Ring
      <3>2. Entry(last)' = r
        BY <1>4, <3>1
      <3> QED
        BY <1>5, <2>1, <3>1, <3>2
    <2>2. CASE x # r
      <3>1. fate'[x] = IF \E i \in 0 .. d - 1 : Entry(i) = x THEN "freed" ELSE fate[x]
        BY <1>5, <2>2
      <3>2. ASSUME fate'[x] = "queued"
            PROVE  \E i \in 0 .. count' - 1 : Entry(i)' = x
        <4>1. fate[x] = "queued" /\ ~\E i \in 0 .. d - 1 : Entry(i) = x
          BY <3>1, <3>2
        <4>2. PICK j \in 0 .. count - 1 : Entry(j) = x
          BY <1>1, <4>1 DEF Contents
        <4>3. j \in d .. count - 1
          BY <1>2, <1>5, <4>1, <4>2, SMT
        <4>4. /\ j - d \in 0 .. count' - 1 /\ j - d \in Ring
              /\ j - d # count' - 1 /\ (j - d) + d = j
          BY <1>2, <1>4, <1>5, <4>3, SMT DEF Ring
        <4>5. Entry(j - d)' = x
          BY <1>4, <4>2, <4>4
        <4> QED
          BY <4>4, <4>5
      <3>3. ASSUME NEW i \in 0 .. count' - 1, Entry(i)' = x
            PROVE  fate'[x] = "queued"
        <4>1. i # count' - 1 /\ Entry(i + d) = x /\ i + d \in 0 .. count - 1
          BY <1>4, <1>7, <2>2, <3>3
        <4>2. fate[x] = "queued"
          BY <1>1, <4>1 DEF Contents
        <4>3. ASSUME NEW j \in 0 .. d - 1, Entry(j) = x
              PROVE  FALSE
          <5>1. j \in 0 .. count - 1 /\ j # i + d
            BY <1>2, <1>5, SMT
          <5> QED
            BY <1>1, <4>1, <4>3, <5>1 DEF Contents
        <4> QED
          BY <3>1, <4>2, <4>3
      <3> QED
        BY <3>2, <3>3
    <2> QED
      BY <2>1, <2>2
  <1>10. ASSUME NEW i \in 0 .. count' - 1, NEW j \in 0 .. count' - 1, Entry(i)' = Entry(j)'
         PROVE  i = j
    <2>1. /\ Entry(i)' = IF i = count' - 1 THEN r ELSE Entry(i + d)
          /\ Entry(j)' = IF j = count' - 1 THEN r ELSE Entry(j + d)
      BY <1>4, <1>7
    <2>2. CASE i # count' - 1 /\ j # count' - 1
      <3>1. i + d = j + d
        BY <1>1, <1>7, <1>10, <2>1, <2>2 DEF Contents
      <3> QED
        BY <1>2, <1>5, <3>1, SMT
    <2> QED
      BY <1>7, <1>8, <1>10, <2>1, <2>2
  <1>11. ASSUME NEW i \in Ring
         PROVE  Entry(i)' = Null <=> i >= count'
    <2>1. Entry(i)' = IF i = count' - 1 THEN r ELSE Entry(i + d)
      BY <1>4
    <2>2. CASE i = count' - 1
      BY <1>2, <1>4, <2>1, <2>2, SMT
    <2>3. CASE i # count' - 1
      <3>1. i + d \in Ring
        BY <1>2, <1>3, <1>4, <2>3, SMT DEF Ring
      <3>2. i >= count' <=> i + d >= count
        BY <1>2, <1>4, <1>5, <2>3, SMT DEF Ring
      <3> QED
        BY <1>1, <2>1, <2>3, <3>1, <3>2 DEF Contents
    <2> QED
      BY <2>2, <2>3
  <1>12. Contents'
    BY <1>9, <1>10, <1>11 DEF Contents
  <1> QED
    BY <1>6, <1>12, RingInvIsNext

\* What a drain of n reports leaves in the ring: the other reports, n places on.
LEMMA Drained ==
    ASSUME Shape, Contents, NEW max \in 1 .. MaxDrain, Drain(max),
           NEW n, n = IF count < max THEN count ELSE max
    PROVE  /\ n \in 0 .. count /\ count' = count - n
           /\ tail' \in Ring /\ head' = Place(tail', count')
           /\ \A i \in Ring : Entry(i)' = IF i < count' THEN Entry(i + n) ELSE Null
           /\ fate' = [x \in Reports |->
                          IF \E i \in 0 .. n - 1 : Entry(i) = x THEN "taken" ELSE fate[x]]
  <1>1. /\ Limit \in Nat \ {0} /\ count \in 0 .. Limit
        /\ n \in 0 .. count /\ n \in 0 .. Limit /\ max \in Nat
    BY BufferAssumption, SMT DEF Shape
  <1>2. count' = count - n /\ count' \in 0 .. Limit
    BY <1>1, SMT DEF Drain
  <1>3. tail' = Place(tail, n) /\ head' = head
    BY DEF Drain, At, Place
  <1>4. tail' \in Ring
    BY <1>1, <1>3, Placed DEF Shape
  <1>5. head' = Place(tail', count')
    <2>1. n + count' <= Limit /\ n + count' = count
      BY <1>1, <1>2, SMT
    <2> QED
      BY <1>1, <1>2, <1>3, <2>1, PlacedAgain DEF Shape
  <1>6. \A j \in Ring : reports'[j] = IF \E i \in 0 .. n - 1 : Place(tail, i) = j
                                      THEN Null ELSE reports[j]
    BY DEF Drain, At, Place
  <1>7. ASSUME NEW i \in Ring
        PROVE  reports'[Place(tail', i)] = IF i < count' THEN Entry(i + n) ELSE Null
    <2>1. i \in 0 .. Limit
      BY <1>1, SMT DEF Ring
    <2>2. Place(tail', i) \in Ring
      BY <1>4, <2>1, Placed
    <2>3. Place(tail', i) = IF n + i <= Limit THEN Place(tail, n + i)
                            ELSE Place(tail, n + i - Limit)
      BY <1>1, <1>3, <2>1, PlacedAgain DEF Shape
    <2>4. CASE n + i < Limit
      <3>1. n + i \in Ring /\ n + i <= Limit /\ n + i = i + n
        BY <1>1, <2>1, <2>4, SMT DEF Ring
      <3>2. Place(tail', i) = Place(tail, i + n)
        BY <2>3, <3>1
      <3>3. ~\E k \in 0 .. n - 1 : Place(tail, k) = Place(tail, i + n)
        <4>1. ASSUME NEW k \in 0 .. n - 1, Place(tail, k) = Place(tail, i + n)
              PROVE  FALSE
          <5>1. k \in Ring /\ k # i + n
            BY <1>1, <2>1, SMT DEF Ring
          <5> QED
            BY <3>1, <4>1, <5>1, PlacedOnce DEF Shape
        <4> QED
          BY <4>1
      <3>4. reports'[Place(tail', i)] = Entry(i + n)
        BY <1>6, <2>2, <3>2, <3>3 DEF Entry
      <3>5. i < count' <=> ~(i + n >= count)
        BY <1>1, <1>2, <2>1, SMT
      <3>6. Entry(i + n) = Null <=> i + n >= count
        BY <3>1 DEF Contents, Drain
      <3> QED
        BY <3>4, <3>5, <3>6
    <2>5. CASE ~(n + i < Limit)
      <3>1. PICK k \in 0 .. n - 1 : k = n + i - Limit
        BY <1>1, <2>1, <2>5, SMT DEF Ring
      <3>2. Place(tail', i) = Place(tail, k)
        <4>1. CASE n + i = Limit
          <5>1. k = 0 /\ n + i <= Limit
            BY <1>1, <2>1, <3>1, <4>1, SMT
          <5> QED
            BY <2>3, <4>1, <5>1, PlacedRound DEF Shape
        <4>2. CASE n + i # Limit
          <5>1. ~(n + i <= Limit)
            BY <1>1, <2>1, <2>5, <4>2, SMT
          <5> QED
            BY <2>3, <3>1, <5>1
        <4> QED
          BY <4>1, <4>2
      <3>3. reports'[Place(tail', i)] = Null
        BY <1>6, <2>2, <3>2
      <3>4. ~(i < count')
        BY <1>1, <1>2, <2>1, <2>5, SMT
      <3> QED
        BY <3>3, <3>4
    <2> QED
      BY <2>4, <2>5
  <1>8. fate' = Settle(Oldest(n), "taken")
    BY DEF Drain
  <1> QED
    BY <1>1, <1>2, <1>4, <1>5, <1>7, <1>8, Settled DEF Entry, Drain

LEMMA DrainInv ==
    ASSUME RingInv, NEW max \in 1 .. MaxDrain, Drain(max)
    PROVE  RingInv'
  <1>1. Shape /\ Contents /\ alive
    BY RingInvIs DEF Drain
  <1>2. Limit \in Nat \ {0} /\ Null \notin Reports /\ count \in 0 .. Limit
    BY <1>1, BufferAssumption DEF Shape
  <1>3. PICK n : n = IF count < max THEN count ELSE max
    OBVIOUS
  <1>4. /\ n \in 0 .. count /\ count' = count - n
        /\ tail' \in Ring /\ head' = Place(tail', count')
        /\ \A i \in Ring : Entry(i)' = IF i < count' THEN Entry(i + n) ELSE Null
        /\ fate' = [x \in Reports |->
                       IF \E i \in 0 .. n - 1 : Entry(i) = x THEN "taken" ELSE fate[x]]
    BY <1>1, <1>3, Drained
  <1>5. Shape'
    <2>1. reports' \in [Ring -> Reports \cup {Null}]
      BY <1>1 DEF Drain, Shape
    <2>2. fate' \in [Reports -> {"new", "queued", "taken", "freed"}]
      BY <1>1, <1>4 DEF Shape
    <2>3. count' \in 0 .. Limit
      BY <1>2, <1>4, SMT
    <2>4. head' \in Ring /\ alive' \in BOOLEAN
      BY <1>1 DEF Drain, Shape
    <2> QED
      BY <1>4, <2>1, <2>2, <2>3, <2>4 DEF Shape
  \* What was at i + n is at i.
  <1>6. ASSUME NEW i \in 0 .. count' - 1
        PROVE  i \in Ring /\ Entry(i)' = Entry(i + n) /\ i + n \in n .. count - 1
               /\ i + n \in 0 .. count - 1
    <2>1. i \in Ring /\ i < count' /\ i + n \in n .. count - 1 /\ i + n \in 0 .. count - 1
      BY <1>2, <1>4, SMT DEF Ring
    <2> QED
      BY <1>4, <2>1
  <1>7. ASSUME NEW x \in Reports
        PROVE  fate'[x] = "queued" <=> \E i \in 0 .. count' - 1 : Entry(i)' = x
    <2>1. fate'[x] = IF \E i \in 0 .. n - 1 : Entry(i) = x THEN "taken" ELSE fate[x]
      BY <1>4
    <2>2. ASSUME fate'[x] = "queued"
          PROVE  \E i \in 0 .. count' - 1 : Entry(i)' = x
      <3>1. fate[x] = "queued" /\ ~\E i \in 0 .. n - 1 : Entry(i) = x
        BY <2>1, <2>2
      <3>2. PICK j \in 0 .. count - 1 : Entry(j) = x
        BY <1>1, <3>1 DEF Contents
      <3>3. j \in n .. count - 1
        BY <1>2, <1>4, <3>1, <3>2, SMT
      <3>4. j - n \in 0 .. count' - 1 /\ (j - n) + n = j
        BY <1>2, <1>4, <3>3, SMT
      <3> QED
        BY <1>6, <3>2, <3>4
    <2>3. ASSUME NEW i \in 0 .. count' - 1, Entry(i)' = x
          PROVE  fate'[x] = "queued"
      <3>1. fate[x] = "queued"
        BY <1>1, <1>6, <2>3 DEF Contents
      <3>2. ASSUME NEW j \in 0 .. n - 1, Entry(j) = x
            PROVE  FALSE
        <4>1. j \in 0 .. count - 1 /\ j # i + n
          BY <1>2, <1>4, <1>6, SMT
        <4> QED
          BY <1>1, <1>6, <2>3, <3>2, <4>1 DEF Contents
      <3> QED
        BY <2>1, <3>1, <3>2
    <2> QED
      BY <2>2, <2>3
  <1>8. ASSUME NEW i \in 0 .. count' - 1, NEW j \in 0 .. count' - 1, Entry(i)' = Entry(j)'
        PROVE  i = j
    <2>1. i + n = j + n
      BY <1>1, <1>6, <1>8 DEF Contents
    <2> QED
      BY <1>2, <1>4, <2>1, SMT
  <1>9. ASSUME NEW i \in Ring
        PROVE  Entry(i)' = Null <=> i >= count'
    <2>1. CASE i < count'
      <3>1. i + n \in Ring /\ ~(i + n >= count) /\ ~(i >= count')
        BY <1>2, <1>4, <2>1, SMT DEF Ring
      <3> QED
        BY <1>1, <1>4, <2>1, <3>1 DEF Contents
    <2>2. CASE ~(i < count')
      <3>1. i >= count'
        BY <1>2, <1>4, <2>2, SMT DEF Ring
      <3> QED
        BY <1>4, <2>2, <3>1
    <2> QED
      BY <2>1, <2>2
  <1>10. Contents'
    BY <1>7, <1>8, <1>9 DEF Contents
  <1> QED
    BY <1>5, <1>10, RingInvIsNext

LEMMA DestroyInv ==
    ASSUME RingInv, Destroy
    PROVE  RingInv'
  <1>1. Shape /\ Contents
    BY RingInvIs
  <1>2. count \in 0 .. count
    BY <1>1, BufferAssumption, SMT DEF Shape
  <1>3. fate' = [r \in Reports |->
                    IF \E i \in 0 .. count - 1 : Entry(i) = r THEN "freed" ELSE fate[r]]
    BY <1>1, <1>2, Settled DEF Destroy
  <1>4. fate' \in [Reports -> {"new", "queued", "taken", "freed"}]
    BY <1>1, <1>3 DEF Shape
  <1>5. Shape' /\ Contents'
    BY <1>1, <1>4 DEF Shape, Contents, Place, Destroy, ringVars
  <1> QED
    BY <1>5, RingInvIsNext

LEMMA RingStep == RingInv /\ [Next]_vars => RingInv'
  <1>1. ASSUME RingInv, Next PROVE RingInv'
    BY <1>1, PushInv, DrainInv, DestroyInv DEF Next
  <1>2. ASSUME RingInv, UNCHANGED vars PROVE RingInv'
    <2>1. Shape /\ Contents
      BY <1>2, RingInvIs
    <2>2. Shape' /\ Contents'
      BY <1>2, <2>1, Zenon DEF Shape, Contents, Entry, Place, vars, ringVars
    <2> QED
      BY <2>2, RingInvIsNext
  <1> QED
    BY <1>1, <1>2

\* However pushes, overflows and drains follow each other, head, tail and count
\* stay in step (drainprof_report_buffer), the positions between tail and head
\* hold the queued reports, each once, and all the others a null pointer: in a
\* ring of any length, with any number of reports.
THEOREM RingCorrect == Spec => []RingInv
  <1> QED
    BY RingInit, RingStep, PTL DEF Spec

-----------------------------------------------------------------------------
(* The ring is a queue: the sequence it buffers                            *)

LEMMA BufferedIs ==
    ASSUME Shape, Contents, alive
    PROVE  /\ Buffered = [i \in 1 .. count |-> Entry(i - 1)]
           /\ Buffered \in Seq(Reports) /\ Len(Buffered) = count
  <1>1. Limit \in Nat \ {0} /\ count \in 0 .. Limit /\ count \in Nat
    BY BufferAssumption, SMT DEF Shape
  <1>2. Buffered = [i \in 1 .. count |-> Entry(i - 1)]
    BY OldestIs DEF Buffered
  <1>3. ASSUME NEW i \in 1 .. count
        PROVE  Entry(i - 1) \in Reports
    <2>1. i - 1 \in Ring /\ i - 1 \in 0 .. Limit /\ ~(i - 1 >= count)
      BY <1>1, SMT DEF Ring
    <2>2. Place(tail, i - 1) \in Ring
      BY <2>1, Placed DEF Shape
    <2>3. Entry(i - 1) # Null
      BY <2>1 DEF Contents
    <2> QED
      BY <2>2, <2>3 DEF Entry, Shape
  <1>4. Buffered \in Seq(Reports)
    BY <1>1, <1>2, <1>3, SMT
  <1> QED
    BY <1>1, <1>2, <1>4, SMT

\* The oldest n reports, and what is left without them.
LEMMA Halves ==
    ASSUME Shape, Contents, alive, NEW n \in 0 .. count
    PROVE  /\ SubSeq(Buffered, 1, n) = Oldest(n)
           /\ SubSeq(Buffered, n + 1, Len(Buffered))
                 = [i \in 1 .. count - n |-> Entry((i - 1) + n)]
  <1>1. Limit \in Nat \ {0} /\ count \in 0 .. Limit /\ count \in Nat /\ n \in Nat
    BY BufferAssumption, SMT DEF Shape
  <1>2. /\ Buffered = [i \in 1 .. count |-> Entry(i - 1)]
        /\ Buffered \in Seq(Reports) /\ Len(Buffered) = count
    BY BufferedIs
  <1>3. Oldest(n) = [i \in 1 .. n |-> Entry(i - 1)]
    BY OldestIs
  <1>4. SubSeq(Buffered, 1, n) = [i \in 1 .. n |-> Buffered[i]]
    BY <1>1, <1>2, SMT
  <1>5. \A i \in 1 .. n : Buffered[i] = Entry(i - 1)
    BY <1>1, <1>2, SMT
  <1>6. SubSeq(Buffered, 1, n) = Oldest(n)
    BY <1>3, <1>4, <1>5
  <1>7. SubSeq(Buffered, n + 1, count) = [i \in 1 .. count - n |-> Buffered[i + n]]
    BY <1>1, <1>2, SMT
  <1>8. ASSUME NEW i \in 1 .. count - n
        PROVE  Buffered[i + n] = Entry((i - 1) + n)
    <2>1. i + n \in 1 .. count /\ (i + n) - 1 = (i - 1) + n
      BY <1>1, SMT
    <2> QED
      BY <1>2, <2>1
  <1> QED
    BY <1>2, <1>6, <1>7, <1>8

LEMMA Became ==
    ASSUME Shape, Contents, alive, NEW n \in 0 .. count, NEW f
    PROVE  Settle(Oldest(n), f) = Queue!Become(Oldest(n), f)
  <1>1. ASSUME NEW r \in Reports, NEW i \in DOMAIN Oldest(n), Oldest(n)[i] = r
        PROVE  fate[r] = "queued"
    <2>1. i \in 1 .. n /\ Entry(i - 1) = r
      BY <1>1, OldestIs
    <2>2. i - 1 \in 0 .. count - 1
      BY <2>1, BufferAssumption, SMT DEF Shape
    <2> QED
      BY <2>1, <2>2 DEF Contents
  <1> QED
    BY <1>1 DEF Settle, Queue!Become

LEMMA PushQueues ==
    ASSUME RingInv, NEW r \in Reports, Push(r)
    PROVE  Queue!Push(r)
  <1>1. Shape /\ Contents /\ alive /\ fate[r] = "new"
    BY RingInvIs DEF Push
  <1>2. RingInv'
    BY PushInv
  <1>3. PICK d : d = IF count = Limit THEN 1 ELSE 0
    OBVIOUS
  <1>4. /\ count' = count - d + 1 /\ count' \in 1 .. Limit
        /\ \A i \in Ring : Entry(i)' = IF i = count' - 1 THEN r ELSE Entry(i + d)
    BY <1>1, <1>3, Pushed
  <1>5. d \in 0 .. count
    BY <1>1, <1>3, PushedFate
  <1>6. Limit \in Nat \ {0} /\ count \in 0 .. Limit /\ count \in Nat /\ d \in Nat
    BY <1>1, <1>5, BufferAssumption, SMT DEF Shape
  <1>7. Len(Buffered) = count
    BY <1>1, BufferedIs
  <1>8. Queue!Surplus = d
    BY <1>3, <1>7 DEF Queue!Surplus
  <1>9. /\ SubSeq(Buffered, 1, d) = Oldest(d)
        /\ SubSeq(Buffered, d + 1, Len(Buffered))
              = [i \in 1 .. count - d |-> Entry((i - 1) + d)]
    BY <1>1, <1>5, Halves
  <1>10. fate' = [Queue!Become(SubSeq(Buffered, 1, d), "freed") EXCEPT ![r] = "queued"]
    BY <1>1, <1>3, <1>5, <1>9, Became DEF Push
  <1>11. PICK rest : rest = [i \in 1 .. count - d |-> Entry((i - 1) + d)]
    OBVIOUS
  <1>12. Append(rest, r) = [i \in 1 .. count - d + 1 |->
                               IF i = count - d + 1 THEN r ELSE Entry((i - 1) + d)]
    <2>1. count - d \in Nat
      BY <1>5, <1>6, SMT
    <2>2. Len(rest) = count - d
      BY <1>11, <2>1, SMT
    <2>3. Append(rest, r) = [i \in 1 .. Len(rest) + 1 |->
                                IF i = Len(rest) + 1 THEN r ELSE rest[i]]
      <3>1. ASSUME NEW i \in 1 .. count - d
            PROVE  Entry((i - 1) + d) \in Reports
        <4>1. i + d \in 1 .. count /\ (i + d) - 1 = (i - 1) + d
          BY <1>5, <1>6, SMT
        <4> QED
          BY <1>1, <4>1, BufferedIs, ElementOfSeq
      <3>2. rest \in Seq(Reports)
        BY <1>11, <2>1, <3>1, SMT
      <3> DEFINE longer == Append(rest, r)
      <3>3. /\ longer \in Seq(Reports) /\ Len(longer) = Len(rest) + 1
            /\ \A i \in 1 .. Len(rest) : longer[i] = rest[i]
            /\ longer[Len(rest) + 1] = r
        BY <3>2, AppendProperties
      <3> HIDE DEF longer
      <3>4. longer = [i \in 1 .. Len(rest) + 1 |-> longer[i]]
        BY <3>3, SMT
      <3>5. \A i \in 1 .. Len(rest) + 1 : i # Len(rest) + 1 => i \in 1 .. Len(rest)
        BY <2>1, <2>2, SMT
      <3> QED
        BY <3>3, <3>4, <3>5, Zenon DEF longer
    <2>4. \A i \in 1 .. count - d + 1 :
             i # count - d + 1 => rest[i] = Entry((i - 1) + d)
      <3>1. \A i \in 1 .. count - d + 1 : i # count - d + 1 => i \in 1 .. count - d
        BY <2>1, SMT
      <3> QED
        BY <1>11, <3>1
    <2> QED
      BY <2>2, <2>3, <2>4
  <1>13. Buffered' = [i \in 1 .. count' |-> Entry(i - 1)']
    <2>1. (Shape /\ Contents /\ alive)'
      BY <1>1, <1>2, RingInvIsNext DEF Push
    <2> QED
      BY <2>1 DEF Buffered, Oldest, Entry, At, Place
  <1>14. ASSUME NEW i \in 1 .. count'
         PROVE  Entry(i - 1)' = IF i = count - d + 1 THEN r ELSE Entry((i - 1) + d)
    <2>1. i - 1 \in Ring /\ (i - 1 = count' - 1 <=> i = count - d + 1)
      BY <1>4, <1>6, SMT DEF Ring
    <2> QED
      BY <1>4, <2>1
  <1>15. Buffered' = Append(rest, r)
    BY <1>4, <1>12, <1>13, <1>14
  <1> QED
    BY <1>1, <1>8, <1>9, <1>10, <1>11, <1>15 DEF Queue!Push, Push

\* To ask for more than Limit reports is to ask for Limit.
LEMMA DrainQueues ==
    ASSUME RingInv, NEW max \in 1 .. MaxDrain, Drain(max)
    PROVE  \E m \in 1 .. Limit : Queue!Drain(m)
  <1>1. Shape /\ Contents /\ alive
    BY RingInvIs DEF Drain
  <1>2. RingInv'
    BY DrainInv
  <1>3. PICK n : n = IF count < max THEN count ELSE max
    OBVIOUS
  <1>4. /\ n \in 0 .. count /\ count' = count - n
        /\ \A i \in Ring : Entry(i)' = IF i < count' THEN Entry(i + n) ELSE Null
    BY <1>1, <1>3, Drained
  <1>5. Limit \in Nat \ {0} /\ count \in 0 .. Limit /\ count \in Nat /\ n \in Nat /\ max \in Nat
    BY <1>1, <1>4, BufferAssumption, SMT DEF Shape
  <1>6. PICK m \in 1 .. Limit : m = IF max <= Limit THEN max ELSE Limit
    BY <1>5, SMT
  <1>7. Len(Buffered) = count
    BY <1>1, BufferedIs
  <1>8. n = IF Len(Buffered) < m THEN Len(Buffered) ELSE m
    BY <1>3, <1>5, <1>6, <1>7, SMT
  <1>9. /\ SubSeq(Buffered, 1, n) = Oldest(n)
        /\ SubSeq(Buffered, n + 1, Len(Buffered))
              = [i \in 1 .. count - n |-> Entry((i - 1) + n)]
    BY <1>1, <1>4, Halves
  <1>10. answer' = Oldest(n) /\ fate' = Settle(Oldest(n), "taken")
    BY <1>3 DEF Drain
  <1>11. fate' = Queue!Become(answer', "taken")
    BY <1>1, <1>4, <1>10, Became
  <1>12. Buffered' = [i \in 1 .. count' |-> Entry(i - 1)']
    <2>1. alive'
      BY <1>1 DEF Drain
    <2> QED
      BY <2>1 DEF Buffered, Oldest, Entry, At, Place
  <1>13. ASSUME NEW i \in 1 .. count'
         PROVE  Entry(i - 1)' = Entry((i - 1) + n)
    <2>1. i - 1 \in Ring /\ i - 1 < count'
      BY <1>4, <1>5, SMT DEF Ring
    <2> QED
      BY <1>4, <2>1
  <1>14. Buffered' = SubSeq(Buffered, n + 1, Len(Buffered))
    BY <1>4, <1>9, <1>12, <1>13
  <1>15. Queue!Drain(m)
    BY <1>1, <1>8, <1>9, <1>10, <1>11, <1>14 DEF Queue!Drain, Drain
  <1> QED
    BY <1>15

LEMMA DestroyQueues ==
    ASSUME RingInv, Destroy
    PROVE  Queue!Destroy
  <1>1. Shape /\ Contents /\ alive
    BY RingInvIs DEF Destroy
  <1>2. count \in 0 .. count
    BY <1>1, BufferAssumption, SMT DEF Shape
  <1>3. Buffered = Oldest(count) /\ Buffered' = <<>>
    BY <1>1 DEF Buffered, Destroy
  <1>4. fate' = Queue!Become(Buffered, "freed")
    BY <1>1, <1>2, <1>3, Became DEF Destroy
  <1> QED
    BY <1>1, <1>3, <1>4 DEF Queue!Destroy, Destroy

LEMMA QueueInit == Init => Queue!Init
  <1> SUFFICES ASSUME Init PROVE Queue!Init
    OBVIOUS
  <1>1. RingInv
    BY RingInit
  <1>2. Buffered \in Seq(Reports) /\ Len(Buffered) = 0
    BY <1>1, RingInvIs, BufferedIs DEF Init
  <1>3. Buffered = <<>>
    BY <1>2, EmptySeq
  <1> QED
    BY <1>3 DEF Init, Queue!Init

LEMMA QueueStep == RingInv /\ [Next]_vars => [Queue!Next]_(Queue!vars)
  <1>1. ASSUME RingInv, Next PROVE Queue!Next
    BY <1>1, PushQueues, DrainQueues, DestroyQueues DEF Next, Queue!Next
  <1>2. ASSUME UNCHANGED vars PROVE UNCHANGED Queue!vars
    BY <1>2 DEF vars, ringVars, Queue!vars, Buffered, Oldest, At
  <1> QED
    BY <1>1, <1>2

\* The ring of drainprof_report_buffer is a queue that drops its oldest report
\* when it is full: no report is lost, handed out twice, freed twice or leaked,
\* and a drain hands them out in the order they came.
THEOREM RingIsQueue == Spec => ImplementsQueue
  <1> QED
    BY RingCorrect, QueueInit, QueueStep, PTL DEF Spec, ImplementsQueue, Queue!Spec
=============================================================================
