--------------------------- MODULE DirectoryProofs ---------------------------
(***************************************************************************)
(* Proofs about Directory, for any users, clocks, page sizes and pages:    *)
(* the types of its state, and that a walk through the pages misses no     *)
(* user whose place in the order was its own from the start.               *)
(***************************************************************************)
EXTENDS Directory, FiniteSetTheorems, SequenceTheorems, TLAPS

\* The users before u in the order of the pages.
Newer(u) == {v \in Users : created[v] > created[u]}

\* What the walk still owes.
Owed(u) == ~Tied(u) /\ u \notin seen

(* Whoever is owed has at least as many users before it as the walk has     *)
(* passed: a deletion that could move it forward takes it out of the base,  *)
(* and an insertion moves it backward.  A page that is empty, or the last   *)
(* one of the total, leaves nobody owed.                                    *)
WalkInv ==
  /\ base \subseteq Users
  /\ trusting => size \in Allowed
  /\ pc \in {"count", "find"} =>
       \A u \in base : Owed(u) =>
         Cardinality(Newer(u)) >= (PageNumber - 1) * PageSize
  /\ pc = "find" /\ ~stale => Cardinality(Users) <= total
  /\ pc = "page" =>
       \A u \in base : Owed(u) =>
         /\ Cardinality(Newer(u)) >= PageNumber * PageSize
         /\ answer # <<>>
         /\ trusting /\ page * size >= total => stale
  /\ WalkIsComplete

-----------------------------------------------------------------------------
(* Arithmetic of the pages.                                                *)
USE DirectoryAssumption DEF DirectoryAssumption

LEMMA WrapSmall ==
  /\ \A n \in Int : Wrap(n) \in Int
  /\ \A n \in 0 .. MaxInt : Wrap(n) = n
<1> DEFINE m == 2 * (MaxInt + 1)
<1>1. m \in Nat \ {0} /\ \A n \in 0 .. MaxInt : n + MaxInt + 1 \in 0 .. m - 1
  OBVIOUS
<1> HIDE DEF m
<1>2. \A k \in Int : k % m \in Int
  BY <1>1
<1>3. \A k \in 0 .. m - 1 : k % m = k
  BY <1>1
<1>4. \A n \in Int : Wrap(n) = ((n + MaxInt + 1) % m) - (MaxInt + 1)
  BY DEF Wrap, m
<1>5. \A n \in Int : n + MaxInt + 1 \in Int
  OBVIOUS
<1>6. \A n \in 0 .. MaxInt : (n + MaxInt + 1) % m = n + MaxInt + 1
  BY <1>1, <1>3
<1>7. ASSUME NEW n \in Int
      PROVE  Wrap(n) \in Int
  <2>1. (n + MaxInt + 1) % m \in Int
    BY <1>2, <1>5
  <2> QED BY <1>4, <2>1
<1>8. ASSUME NEW n \in 0 .. MaxInt
      PROVE  Wrap(n) = n
  <2>1. Wrap(n) = (n + MaxInt + 1) - (MaxInt + 1)
    BY <1>4, <1>6
  <2> QED BY <2>1
<1> QED BY <1>7, <1>8

LEMMA PageType ==
  ASSUME page \in Int, size \in Int
  PROVE  /\ PageNumber \in Nat \ {0} /\ PageSize \in 1 .. MaxPageSize
         /\ (PageNumber - 1) * PageSize \in Nat
         /\ PageNumber * PageSize = (PageNumber - 1) * PageSize + PageSize
         /\ Skip \in Int
<1>1. PageNumber \in Nat \ {0} /\ PageSize \in 1 .. MaxPageSize
  BY DEF PageNumber, PageSize
<1>2. \A a \in Nat \ {0}, b \in Nat : (a - 1) * b \in Nat /\ a * b = (a - 1) * b + b
  OBVIOUS
<1>3. (PageNumber - 1) * PageSize \in Nat
  BY <1>1, <1>2
<1> QED BY <1>1, <1>2, <1>3, WrapSmall DEF Skip

-----------------------------------------------------------------------------
(* Users in their order.                                                   *)
LEMMA UsersFinite ==
  ASSUME TypeOK
  PROVE  /\ IsFiniteSet(Users) /\ Cardinality(Users) \in Nat
         /\ Cardinality(Users) <= MaxInt
         /\ \A u \in Users : created[u] \in Nat
         /\ \A u : IsFiniteSet(Newer(u)) /\ Cardinality(Newer(u)) \in Nat
         /\ \A u \in Users : Cardinality(Newer(u)) < Cardinality(Users)
<1>1. Users \in SUBSET User /\ \A u \in Users : created[u] \in Nat
  BY DEF TypeOK
<1>2. Cardinality(User) \in Nat
  BY FS_CardinalityType
<1>3. /\ IsFiniteSet(Users) /\ Cardinality(Users) \in Nat
      /\ Cardinality(Users) <= Cardinality(User)
  BY <1>1, FS_Subset, FS_CardinalityType
<1>4. \A u : IsFiniteSet(Newer(u)) /\ Cardinality(Newer(u)) \in Nat
  <2> SUFFICES ASSUME NEW u
               PROVE  IsFiniteSet(Newer(u)) /\ Cardinality(Newer(u)) \in Nat
    OBVIOUS
  <2>1. Newer(u) \in SUBSET Users
    BY DEF Newer
  <2> QED BY <1>3, <2>1, FS_Subset, FS_CardinalityType
<1>5. ASSUME NEW u \in Users
      PROVE  Cardinality(Newer(u)) < Cardinality(Users)
  <2>1. Newer(u) \in SUBSET (Users \ {u})
    BY <1>1 DEF Newer
  <2>2. /\ IsFiniteSet(Users \ {u})
        /\ Cardinality(Users \ {u}) = Cardinality(Users) - 1
    BY <1>3, FS_RemoveElement
  <2>3. Cardinality(Newer(u)) <= Cardinality(Users \ {u})
    BY <2>1, <2>2, FS_Subset
  <2> QED BY <1>3, <1>4, <2>2, <2>3
<1> QED BY <1>1, <1>2, <1>3, <1>4, <1>5

LEMMA NewerFinite == TypeOK => \A u : IsFiniteSet(Newer(u))
BY UsersFinite

LEMMA FiniteAfter == (TypeOK => \A u : IsFiniteSet(Newer(u)))'
BY NewerFinite, PTL

LEMMA OrderType ==
  ASSUME TypeOK, NEW s \in SetToSeqs(Users)
  PROVE  /\ s \in Seq(User) /\ Len(s) = Cardinality(Users)
         /\ DOMAIN s = 1 .. Cardinality(Users)
         /\ s \in Bijection(1 .. Cardinality(Users), Users)
<1> DEFINE n == Cardinality(Users)
<1>1. n \in Nat /\ IsFiniteSet(Users)
  BY UsersFinite
<1>2. s \in [1 .. n -> Users] /\ \A i, j \in 1 .. n : i # j => s[i] # s[j]
  BY DEF SetToSeqs
<1>3. s \in Injection(1 .. n, Users)
  BY <1>2 DEF Injection, IsInjective
<1>4. Cardinality(1 .. n) = n
  BY <1>1, FS_Interval
<1>5. s \in Surjection(1 .. n, Users)
  BY <1>1, <1>3, <1>4, FS_Injection
<1>6. Users \subseteq User
  BY DEF TypeOK
<1>7. s \in Seq(User) /\ Len(s) = n
  BY <1>1, <1>2, <1>6
<1> QED BY <1>2, <1>3, <1>5, <1>7 DEF Bijection

(* Who shares its time with nobody has its place: after all that are newer. *)
LEMMA Place ==
  ASSUME TypeOK, NEW s \in SetToSeqs(Users), Newest(s),
         NEW u \in Users, ~Tied(u)
  PROVE  \E i \in 1 .. Cardinality(Users) :
           s[i] = u /\ Cardinality(Newer(u)) = i - 1
<1> DEFINE n == Cardinality(Users)
<1>1. /\ n \in Nat /\ IsFiniteSet(Users) /\ \A v \in Users : created[v] \in Nat
      /\ DOMAIN s = 1 .. n /\ s \in [1 .. n -> Users]
      /\ \A i, j \in 1 .. n : s[i] = s[j] => i = j
      /\ \A v \in Users : \E i \in 1 .. n : s[i] = v
  BY UsersFinite, OrderType
     DEF Bijection, Injection, Surjection, IsInjective
<1>2. PICK i \in 1 .. n : s[i] = u
  BY <1>1
<1>3. \A j \in 1 .. n : s[j] \in Newer(u) <=> j < i
  <2> SUFFICES ASSUME NEW j \in 1 .. n
               PROVE  created[s[j]] > created[u] <=> j < i
    BY <1>1 DEF Newer
  <2>1. CASE j < i
    <3>1. created[s[j]] >= created[u] /\ s[j] # u
      BY <1>1, <1>2, <2>1 DEF Newest
    <3>2. created[s[j]] # created[u]
      BY <1>1, <3>1 DEF Tied
    <3> QED BY <1>1, <2>1, <3>1, <3>2
  <2>2. CASE j = i
    BY <1>1, <1>2, <2>2
  <2>3. CASE i < j
    <3>1. created[u] >= created[s[j]]
      BY <1>1, <1>2, <2>3 DEF Newest
    <3> QED BY <1>1, <2>3, <3>1
  <2> QED BY <1>1, <2>1, <2>2, <2>3
<1>4. Cardinality(Newer(u)) = i - 1
  <2> DEFINE f == [j \in 1 .. i - 1 |-> s[j]]
  <2>1. \A j \in 1 .. i - 1 : j \in 1 .. n /\ j < i
    BY <1>1
  <2>2. f \in [1 .. i - 1 -> Newer(u)]
    BY <1>3, <2>1
  <2>3. \A j, k \in 1 .. i - 1 : f[j] = f[k] => j = k
    BY <1>1, <2>1
  <2>4. \A v \in Newer(u) : \E j \in 1 .. i - 1 : f[j] = v
    <3> SUFFICES ASSUME NEW v \in Newer(u)
                 PROVE  \E j \in 1 .. i - 1 : s[j] = v
      OBVIOUS
    <3>1. PICK j \in 1 .. n : s[j] = v
      BY <1>1 DEF Newer
    <3>2. j < i
      BY <1>3, <3>1
    <3> QED BY <1>1, <3>1, <3>2
  <2>5. f \in Bijection(1 .. i - 1, Newer(u))
    <3> HIDE DEF f
    <3>1. DOMAIN f = 1 .. i - 1
      BY <2>2
    <3> QED BY <2>2, <2>3, <2>4, <3>1 DEF Bijection, Injection, Surjection, IsInjective
  <2>6. ExistsBijection(1 .. i - 1, Newer(u)) /\ i - 1 \in Nat
    BY <1>1, <2>5 DEF ExistsBijection
  <2> QED BY <2>6, FS_CountingElements
<1> QED BY <1>2, <1>4

\* A page holds whoever has a place on it, and is empty beyond the last.
LEMMA PageHolds ==
  ASSUME TypeOK, NEW s \in SetToSeqs(Users), Skip >= 0, NEW a,
         a = SubSeq(s, Skip + 1, Min({Skip + PageSize, Len(s)}))
  PROVE  /\ a \in Seq(User) /\ Len(a) <= MaxPageSize
         /\ ToSet(a) \subseteq User
         /\ \A i \in 1 .. Len(s) :
              i > Skip /\ i <= Skip + PageSize => s[i] \in ToSet(a)
         /\ a = <<>> => Len(s) <= Skip
<1> DEFINE m == Min({Skip + PageSize, Len(s)})
<1>1. /\ Skip \in Int /\ PageSize \in 1 .. MaxPageSize
      /\ s \in Seq(User) /\ Len(s) \in Nat
  BY PageType, OrderType, LenProperties DEF TypeOK
<1>2. /\ m \in {Skip + PageSize, Len(s)}
      /\ m <= Skip + PageSize /\ m <= Len(s)
  <2>1. \E x \in {Skip + PageSize, Len(s)} :
          \A y \in {Skip + PageSize, Len(s)} : x <= y
    BY <1>1
  <2> QED BY <2>1 DEF Min
<1> HIDE DEF m
<1>3. PICK k \in Nat, q \in 1 .. MaxPageSize, l \in Nat :
        k = Skip /\ q = PageSize /\ l = Len(s)
  <2>1. Skip \in Nat
    BY <1>1
  <2> QED BY <1>1, <2>1
<1>4. m \in Int /\ m <= k + q /\ m <= l /\ m \in {k + q, l}
  BY <1>2, <1>3
<1>5. \A i \in k + 1 .. m : s[i] \in User
  <2>1. \A i \in k + 1 .. m : i \in 1 .. Len(s)
    BY <1>3, <1>4
  <2> QED BY <1>1, <2>1, ElementOfSeq
<1>6. PICK c \in Seq(User) :
        /\ a = c
        /\ Len(c) = IF k + 1 <= m THEN m - k ELSE 0
        /\ \A i \in 1 .. m - k : c[i] = s[k + i]
  <2>1. a = SubSeq(s, k + 1, m)
    BY <1>3 DEF m
  <2>2. PICK b \in Int : b = k + 1
    OBVIOUS
  <2>3. \A i \in b .. m : s[i] \in User
    BY <1>5, <2>2
  <2>4. /\ SubSeq(s, b, m) \in Seq(User)
        /\ Len(SubSeq(s, b, m)) = IF b <= m THEN m - b + 1 ELSE 0
        /\ \A i \in 1 .. m - b + 1 : SubSeq(s, b, m)[i] = s[b + i - 1]
    BY <1>4, <2>3, SubSeqProperties
  <2>5. m - b + 1 = m - k
    BY <1>4, <2>2
  <2>6. \A i \in 1 .. m - k : b + i - 1 = k + i
    BY <1>4, <2>2
  <2>7. a = SubSeq(s, b, m)
    BY <2>1, <2>2
  <2>8. \A i \in 1 .. m - k : a[i] = s[k + i]
    BY <2>4, <2>5, <2>6, <2>7
  <2>9. Len(a) = IF k + 1 <= m THEN m - k ELSE 0
    BY <2>2, <2>4, <2>5, <2>7
  <2> QED BY <2>4, <2>7, <2>8, <2>9
<1>7. Len(c) <= MaxPageSize
  <2>1. m - k <= q /\ q <= MaxPageSize /\ MaxPageSize \in Nat /\ m - k \in Int
    BY <1>4
  <2>2. CASE k + 1 <= m
    BY <1>6, <2>1, <2>2
  <2>3. CASE ~(k + 1 <= m)
    BY <1>6, <2>1, <2>3
  <2> QED BY <2>2, <2>3
<1>8. DOMAIN c = 1 .. Len(c) /\ \A i \in 1 .. Len(c) : c[i] \in User
  BY <1>6, LenProperties, ElementOfSeq
<1>9. ASSUME NEW i \in 1 .. l, i > k, i <= k + q
      PROVE  s[i] \in ToSet(c)
  <2>1. i <= m
    BY <1>4, <1>9
  <2>2. i - k \in 1 .. m - k /\ k + (i - k) = i /\ k + 1 <= m
    BY <1>4, <1>9, <2>1
  <2>3. i - k \in 1 .. Len(c)
    BY <1>6, <2>2
  <2>4. c[i - k] = s[i]
    BY <1>6, <2>2
  <2> QED BY <1>8, <2>3, <2>4 DEF ToSet
<1>10. c = <<>> => l <= k
  <2> SUFFICES ASSUME ~(l <= k) PROVE c # <<>>
    OBVIOUS
  <2>1. k + 1 <= m /\ m - k >= 1
    BY <1>4
  <2>2. Len(c) >= 1
    BY <1>6, <2>1
  <2> QED BY <2>2
<1> QED BY <1>3, <1>6, <1>7, <1>8, <1>9, <1>10 DEF ToSet

-----------------------------------------------------------------------------
(* Types.                                                                  *)
LEMMA StampType ==
  ASSUME TypeOK, NEW users \in Seq(User), Stamp(users)
  PROVE  TypeOK'
<1> USE DEF call
<1>1. PICK now \in Time :
        batch' = [i \in DOMAIN users |-> [user |-> users[i], created |-> now]]
  BY DEF Stamp
<1>2. DOMAIN users = 1 .. Len(users) /\ Len(users) \in Nat
      /\ \A i \in 1 .. Len(users) : users[i] \in User
  BY LenProperties, ElementOfSeq
<1>3. batch' \in Seq([user : User, created : Time])
  BY <1>1, <1>2
<1> QED BY <1>3 DEF Stamp, TypeOK, Users

LEMMA WriterType ==
  ASSUME TypeOK, Writer
  PROVE  TypeOK'
<1> USE DEF call
<1>1. ASSUME NEW u \in New, Stamp(<<u>>)
      PROVE  TypeOK'
  <2>1. <<u>> \in Seq(User)
    BY DEF New
  <2> QED BY <1>1, <2>1, StampType
<1>2. ASSUME NEW u \in New, NEW v \in New, Stamp(<<u, v>>)
      PROVE  TypeOK'
  <2>1. <<u, v>> \in Seq(User)
    BY DEF New
  <2> QED BY <1>2, <2>1, StampType
<1>3. CASE Insert
  <2>1. /\ batch # <<>> /\ batch \in Seq([user : User, created : Time])
        /\ batch' = Tail(batch) /\ stale' \in BOOLEAN
        /\ UNCHANGED <<pc, page, size, trusting, total, answer, base, seen>>
    BY <1>3 DEF Insert, TypeOK
  <2>2. /\ Head(batch) \in [user : User, created : Time]
        /\ batch' \in Seq([user : User, created : Time])
    BY <2>1, HeadTailProperties
  <2>3. PICK b \in [user : User, created : Time] : b = Head(batch)
    BY <2>2
  <2>4. created' = [u \in Users \cup {b.user} |->
                      IF u \in Users THEN created[u] ELSE b.created]
    BY <1>3, <2>3 DEF Insert
  <2>5. b.user \in User /\ b.created \in Time
    BY <2>3
  <2>6. Users' = Users \cup {b.user}
    BY <2>4 DEF Users
  <2>7. /\ Users' \subseteq User /\ created' \in [Users' -> Time]
    BY <2>4, <2>5, <2>6 DEF TypeOK
  <2> QED BY <2>1, <2>2, <2>7 DEF TypeOK
<1>4. CASE InsertFails
  BY <1>4 DEF InsertFails, TypeOK, Users
<1>5. ASSUME NEW u \in Users, Update(u)
      PROVE  TypeOK'
  <2>1. created' = created
    BY <1>5 DEF Update, CreatedAt, TypeOK
  <2> QED BY <1>5, <2>1 DEF Update, TypeOK, Users
<1>6. ASSUME NEW u \in Users, Delete(u)
      PROVE  TypeOK'
  <2>1. Users' = Users \ {u} /\ created' \in [Users' -> Time]
    BY <1>6 DEF Delete, TypeOK, Users
  <2>2. base' \subseteq base
    BY <1>6 DEF Delete
  <2> QED BY <1>6, <2>1, <2>2 DEF Delete, TypeOK
<1> QED BY <1>1, <1>2, <1>3, <1>4, <1>5, <1>6 DEF Writer

LEMMA ForgetType ==
  ASSUME TypeOK, Forget, UNCHANGED writes
  PROVE  TypeOK'
<1>1. trusting' \in BOOLEAN /\ stale' \in BOOLEAN
  BY DEF Forget
<1>2. answer' \in Seq(User) /\ Len(answer') <= MaxPageSize
  BY DEF Forget
<1> QED BY <1>1, <1>2 DEF Forget, TypeOK, writes, Users

LEMMA CallerType ==
  ASSUME TypeOK,
         \/ List \/ Walk
         \/ \E p \in Page, n \in Size, trusts \in BOOLEAN : Begin(p, n, trusts)
  PROVE  TypeOK'
<1> USE DEF call, writes
<1>1. CASE CountDocuments
  <2>1. Cardinality(Users) \in Nat /\ stale' \in BOOLEAN
    BY <1>1, UsersFinite DEF CountDocuments
  <2> QED BY <1>1, <2>1 DEF CountDocuments, TypeOK, Users
<1>2. CASE Find
  <2>1. PICK s \in SetToSeqs(Users) :
          answer' = SubSeq(s, Skip + 1, Min({Skip + PageSize, Len(s)}))
    BY <1>2 DEF Find
  <2>2. /\ answer' \in Seq(User) /\ Len(answer') <= MaxPageSize
        /\ ToSet(answer') \subseteq User
    <3>1. Skip >= 0
      BY <1>2 DEF Find
    <3> QED BY <2>1, <3>1, PageHolds
  <2>3. seen' \subseteq User
    BY <1>2, <2>2 DEF Find, TypeOK
  <2> QED BY <1>2, <2>2, <2>3 DEF Find, TypeOK, Users
<1>3. CASE ListFails
  <2>1. CASE Forget
    BY <1>3, <2>1, ForgetType DEF ListFails
  <2>2. CASE ~Forget
    BY <1>3, <2>2 DEF ListFails, TypeOK, Users
  <2> QED BY <2>1, <2>2
<1>4. CASE NextPage
  BY <1>4 DEF NextPage, TypeOK, Users
<1>5. CASE Stop
  BY <1>5 DEF Stop, TypeOK, Users
<1>6. CASE Leave
  BY <1>6, ForgetType DEF Leave
<1>7. ASSUME NEW p \in Page, NEW n \in Size, NEW trusts \in BOOLEAN, Begin(p, n, trusts)
      PROVE  TypeOK'
  <2>1. /\ p \in Int /\ n \in Int /\ trusting' \in BOOLEAN
        /\ answer' \in Seq(User) /\ Len(answer') <= MaxPageSize
    BY <1>7 DEF Begin
  <2>2. base' \subseteq User /\ seen' \subseteq User
    BY <1>7 DEF Begin, TypeOK
  <2> QED BY <1>7, <2>1, <2>2 DEF Begin, TypeOK, Users
<1> QED BY <1>1, <1>2, <1>3, <1>4, <1>5, <1>6, <1>7 DEF List, Walk

LEMMA TypeInit == Init => TypeOK
<1> SUFFICES ASSUME Init PROVE TypeOK
  OBVIOUS
<1>1. trusting \in BOOLEAN /\ stale \in BOOLEAN
  BY DEF Init
<1>2. Users = {} /\ created \in [Users -> Time]
  BY DEF Init, Users
<1>3. /\ batch \in Seq([user : User, created : Time])
      /\ answer \in Seq(User) /\ Len(answer) <= MaxPageSize
  BY DEF Init
<1> QED BY <1>1, <1>2, <1>3 DEF Init, TypeOK

LEMMA TypeNext == TypeOK /\ [Next]_vars => TypeOK'
<1> SUFFICES ASSUME TypeOK, [Next]_vars PROVE TypeOK'
  OBVIOUS
<1>1. CASE UNCHANGED vars
  BY <1>1 DEF vars, writes, call, TypeOK, Users
<1> QED BY <1>1, WriterType, CallerType DEF Next

(* A page is never longer than the maximum, the total never negative,       *)
(* whatever page and size are asked for.                                    *)
THEOREM DirectoryTypeCorrect == Spec => []TypeOK
BY TypeInit, TypeNext, PTL DEF Spec

-----------------------------------------------------------------------------
(* The walk.                                                               *)
\* What a writer does moves nobody of the base forward.
LEMMA WriterStays ==
  ASSUME TypeOK, Writer, base \subseteq Users
  PROVE  /\ UNCHANGED <<pc, page, size, trusting, total, answer, seen>>
         /\ base' \subseteq base /\ base' \subseteq Users'
         /\ \A u \in base' : (Tied(u) => Tied(u)') /\ Newer(u) \subseteq Newer(u)'
         /\ ~stale' => ~stale
         /\ ~stale' /\ pc = "find" => Users' \subseteq Users
<1> USE DEF call
<1>1. CASE created' = created /\ UNCHANGED <<pc, call, total, answer, base, seen, stale>>
  BY <1>1 DEF Users, Tied, Newer
<1>2. CASE Insert
  <2>1. PICK b : b = Head(batch)
    OBVIOUS
  <2>2. created' = [u \in Users \cup {b.user} |->
                      IF u \in Users THEN created[u] ELSE b.created]
    BY <1>2, <2>1 DEF Insert
  <2>3. Users \subseteq Users' /\ \A u \in Users : created'[u] = created[u]
    BY <2>2 DEF Users
  <2>4. ASSUME NEW u \in base
        PROVE  (Tied(u) => Tied(u)') /\ Newer(u) \subseteq Newer(u)'
    BY <2>3 DEF Tied, Newer
  <2> QED BY <1>2, <2>3, <2>4 DEF Insert
<1>3. ASSUME NEW d \in Users, Delete(d)
      PROVE  /\ base' \subseteq base /\ base' \subseteq Users' /\ Users' \subseteq Users
             /\ \A u \in base' : (Tied(u) => Tied(u)') /\ Newer(u) \subseteq Newer(u)'
  <2>1. /\ Users' = Users \ {d} /\ \A u \in Users' : created'[u] = created[u]
        /\ base' = {v \in base \cap Users : created[v] > created[d]}
    BY <1>3 DEF Delete, Users
  <2>2. \A u \in Users : created[u] \in Nat
    BY UsersFinite
  <2>3. base' \subseteq base /\ base' \subseteq Users'
    BY <2>1, <2>2
  <2>4. ASSUME NEW u \in base'
        PROVE  (Tied(u) => Tied(u)') /\ Newer(u) \subseteq Newer(u)'
    <3>1. u \in Users /\ u \in Users' /\ created[u] > created[d]
      BY <2>1, <2>2
    <3>2. Tied(u) => Tied(u)'
      BY <2>1, <2>2, <3>1 DEF Tied
    <3>3. Newer(u) \subseteq Newer(u)'
      BY <2>1, <2>2, <3>1 DEF Newer
    <3> QED BY <3>2, <3>3
  <2> QED BY <2>1, <2>3, <2>4
<1>4. ASSUME NEW u \in Users, Update(u)
      PROVE  created' = created /\ UNCHANGED <<pc, call, total, answer, base, seen, stale>>
  BY <1>4 DEF Update, CreatedAt, TypeOK
<1>5. ASSUME NEW d \in Users, Delete(d)
      PROVE  UNCHANGED <<pc, page, size, trusting, total, answer, seen, stale>>
  BY <1>5 DEF Delete
<1>6. CASE InsertFails \/ (\E u \in New : Stamp(<<u>>))
             \/ (\E u, v \in New : Stamp(<<u, v>>))
  BY <1>1, <1>6 DEF InsertFails, Stamp
<1> QED BY <1>1, <1>2, <1>3, <1>4, <1>5, <1>6 DEF Writer

LEMMA WriterKeeps ==
  ASSUME TypeOK, TypeOK', WalkInv, Writer
  PROVE  WalkInv'
<1>1. /\ UNCHANGED <<pc, page, size, trusting, total, answer, seen>>
      /\ base' \subseteq base /\ base' \subseteq Users'
      /\ \A u \in base' : (Tied(u) => Tied(u)') /\ Newer(u) \subseteq Newer(u)'
      /\ ~stale' => ~stale
      /\ ~stale' /\ pc = "find" => Users' \subseteq Users
  BY WriterStays DEF WalkInv
<1>2. PageNumber' = PageNumber /\ PageSize' = PageSize
  BY <1>1 DEF PageNumber, PageSize
<1>3. ASSUME NEW u \in base', Owed(u)'
      PROVE  /\ u \in base /\ Owed(u)
             /\ Cardinality(Newer(u)) \in Nat /\ Cardinality(Newer(u)') \in Nat
             /\ Cardinality(Newer(u)) <= Cardinality(Newer(u)')
  <2>1. u \in base /\ Owed(u)
    BY <1>1, <1>3 DEF Owed
  <2>2. IsFiniteSet(Newer(u)')
    BY FiniteAfter
  <2>3. Newer(u) \in SUBSET (Newer(u)')
    BY <1>1
  <2>4. /\ Cardinality(Newer(u)') \in Nat /\ Cardinality(Newer(u)) \in Nat
        /\ Cardinality(Newer(u)) <= Cardinality(Newer(u)')
    BY <2>2, <2>3, FS_Subset, FS_CardinalityType
  <2> QED BY <2>1, <2>4
<1>4. (PageNumber - 1) * PageSize \in Nat /\ PageNumber * PageSize \in Nat
  BY PageType DEF TypeOK
<1>5. pc' \in {"count", "find"} =>
        \A u \in base' : Owed(u)' =>
          Cardinality(Newer(u)') >= (PageNumber' - 1) * PageSize'
  <2> SUFFICES ASSUME pc' \in {"count", "find"}, NEW u \in base', Owed(u)'
               PROVE  Cardinality(Newer(u)') >= (PageNumber' - 1) * PageSize'
    OBVIOUS
  <2>1. Cardinality(Newer(u)) >= (PageNumber - 1) * PageSize
    BY <1>1, <1>3 DEF WalkInv
  <2> QED BY <1>2, <1>3, <1>4, <2>1
<1>6. pc' = "find" /\ ~stale' => Cardinality(Users') <= total'
  <2> SUFFICES ASSUME pc' = "find", ~stale' PROVE Cardinality(Users') <= total
    BY <1>1
  <2>1. Users' \in SUBSET Users /\ Cardinality(Users) <= total
    BY <1>1 DEF WalkInv
  <2>2. IsFiniteSet(Users)
    BY UsersFinite
  <2>3. Cardinality(Users') <= Cardinality(Users) /\ Cardinality(Users') \in Nat
        /\ Cardinality(Users) \in Nat
    BY <2>1, <2>2, FS_Subset, FS_CardinalityType
  <2> QED BY <2>1, <2>3 DEF TypeOK
<1>7. pc' = "page" =>
        \A u \in base' : Owed(u)' =>
          /\ Cardinality(Newer(u)') >= PageNumber' * PageSize'
          /\ answer' # <<>>
          /\ trusting' /\ page' * size' >= total' => stale'
  <2> SUFFICES ASSUME pc' = "page", NEW u \in base', Owed(u)'
               PROVE  /\ Cardinality(Newer(u)') >= PageNumber' * PageSize'
                      /\ answer' # <<>>
                      /\ trusting' /\ page' * size' >= total' => stale'
    OBVIOUS
  <2>1. /\ Cardinality(Newer(u)) >= PageNumber * PageSize
        /\ answer # <<>>
        /\ trusting /\ page * size >= total => stale
    BY <1>1, <1>3 DEF WalkInv
  <2>2. Cardinality(Newer(u)') >= PageNumber' * PageSize'
    BY <1>2, <1>3, <1>4, <2>1
  <2> QED BY <1>1, <2>1, <2>2
<1>8. (trusting => size \in Allowed)'
  BY <1>1 DEF WalkInv, Allowed
<1>9. WalkIsComplete'
  BY <1>1 DEF WalkInv, WalkIsComplete
<1> QED BY <1>1, <1>5, <1>6, <1>7, <1>8, <1>9 DEF WalkInv

\* Without anybody in the base nothing is owed.
LEMMA NobodyOwed ==
  ASSUME Forget
  PROVE  WalkInv'
<1>1. base' = {} /\ pc' = "idle" /\ ~trusting'
  BY DEF Forget
<1> QED BY <1>1 DEF WalkInv, WalkIsComplete

LEMMA BeginKeeps ==
  ASSUME TypeOK, TypeOK', NEW p \in Page, NEW n \in Size, NEW trusts \in BOOLEAN,
         Begin(p, n, trusts)
  PROVE  WalkInv'
<1>1. /\ pc' = "count" /\ page' = p /\ size' = n /\ created' = created
      /\ trusting' = trusts /\ base' = IF p <= 1 THEN Users ELSE {}
      /\ trusts => n \in Allowed
  BY DEF Begin, writes
<1>2. Users' = Users
  BY <1>1 DEF Users
<1>3. ASSUME NEW u \in base'
      PROVE  Cardinality(Newer(u)') >= (PageNumber' - 1) * PageSize'
  <2>1. p \in Int /\ n \in Int
    OBVIOUS
  <2>2. PageNumber' = 1
    BY <1>1, <1>3, <2>1 DEF PageNumber
  <2>3. PageSize' \in Int
    BY <1>1, <2>1 DEF PageSize
  <2>4. (PageNumber' - 1) * PageSize' = 0
    <3>1. \A b \in Int : (1 - 1) * b = 0
      OBVIOUS
    <3> QED BY <2>2, <2>3, <3>1
  <2>5. Cardinality(Newer(u)') \in Nat
    BY FiniteAfter, FS_CardinalityType
  <2> QED BY <2>4, <2>5
<1>4. base' \subseteq Users'
  BY <1>1, <1>2
<1>5. (trusting => size \in Allowed)'
  BY <1>1 DEF Allowed
<1>6. WalkIsComplete'
  BY <1>1 DEF WalkIsComplete
<1> QED BY <1>1, <1>3, <1>4, <1>5, <1>6 DEF WalkInv

(* Whoever is owed when a page is fetched is on it or beyond it; and then   *)
(* the page is not empty, nor the last one by a total that is not stale.    *)
LEMMA FindKeeps ==
  ASSUME TypeOK, TypeOK', WalkInv, Find
  PROVE  WalkInv'
<1>1. PICK s \in SetToSeqs(Users) :
        /\ Newest(s)
        /\ answer' = SubSeq(s, Skip + 1, Min({Skip + PageSize, Len(s)}))
  BY DEF Find
<1>2. /\ pc = "find" /\ Skip >= 0 /\ pc' = "page"
      /\ seen' = seen \cup ToSet(answer')
      /\ UNCHANGED <<created, page, size, trusting, total, base, stale>>
  BY DEF Find, writes, call
<1>3. /\ PageNumber' = PageNumber /\ PageSize' = PageSize /\ Users' = Users
      /\ \A u : Newer(u)' = Newer(u) /\ Tied(u)' = Tied(u)
  BY <1>2 DEF PageNumber, PageSize, Users, Newer, Tied
<1>4. /\ \A i \in 1 .. Len(s) :
           i > Skip /\ i <= Skip + PageSize => s[i] \in ToSet(answer')
      /\ answer' = <<>> => Len(s) <= Skip
  BY <1>1, <1>2, PageHolds
<1>5. Len(s) = Cardinality(Users)
  BY OrderType
<1>6. ASSUME NEW u \in base, Owed(u)'
      PROVE  /\ Cardinality(Newer(u)) >= PageNumber * PageSize
             /\ answer' # <<>>
             /\ trusting /\ page * size >= total => stale
  <2>1. u \in Users /\ ~Tied(u) /\ u \notin seen /\ u \notin ToSet(answer')
    BY <1>2, <1>3, <1>6 DEF WalkInv, Owed
  <2>2. PICK i \in 1 .. Cardinality(Users) :
          s[i] = u /\ Cardinality(Newer(u)) = i - 1
    BY <1>1, <2>1, Place
  <2>3. /\ Cardinality(Users) \in Nat /\ Cardinality(Users) <= MaxInt
        /\ i \in Nat /\ i <= Cardinality(Users)
    BY UsersFinite
  <2>4. (PageNumber - 1) * PageSize <= i - 1
    BY <1>2, <2>1, <2>2 DEF WalkInv, Owed
  <2>5. /\ PageNumber \in Nat \ {0} /\ PageSize \in 1 .. MaxPageSize
        /\ (PageNumber - 1) * PageSize \in Nat
        /\ PageNumber * PageSize = (PageNumber - 1) * PageSize + PageSize
    BY PageType DEF TypeOK
  <2>6. PICK k \in Nat : k = (PageNumber - 1) * PageSize
    BY <2>5
  <2>7. Skip = k
    <3>1. k \in 0 .. MaxInt
      BY <2>3, <2>4, <2>6
    <3> QED BY <2>6, <3>1, WrapSmall DEF Skip
  <2>8. i > k /\ k < Cardinality(Users)
    BY <2>3, <2>4, <2>6
  <2>9. i > k + PageSize
    <3>1. i \in 1 .. Len(s)
      BY <1>5
    <3>2. ~(i <= k + PageSize)
      BY <1>4, <2>1, <2>2, <2>7, <2>8, <3>1
    <3> QED BY <2>3, <2>5, <3>2
  <2>10. Cardinality(Newer(u)) >= PageNumber * PageSize
    BY <2>2, <2>3, <2>5, <2>6, <2>9
  <2>11. answer' # <<>>
    BY <1>4, <1>5, <2>3, <2>7, <2>8
  <2>12. ASSUME trusting, page * size >= total, ~stale
         PROVE  FALSE
    <3>1. Cardinality(Users) <= total /\ total \in Nat
      BY <1>2, <2>12 DEF WalkInv, TypeOK
    <3>2. size \in 1 .. MaxPageSize /\ PageSize = size
      BY <2>12 DEF WalkInv, Allowed, PageSize
    <3>3. page \in Int
      BY DEF TypeOK
    <3>4. CASE page < 1
      <4>1. \A a \in Int, b \in Nat : a < 1 => a * b <= 0
        OBVIOUS
      <4>2. page * size <= 0
        BY <3>2, <3>3, <3>4, <4>1
      <4>3. page * size \in Int
        BY <3>2, <3>3
      <4> QED BY <2>3, <2>8, <2>12, <3>1, <4>2, <4>3
    <3>5. CASE ~(page < 1)
      <4>1. PageNumber = page
        BY <3>5 DEF PageNumber
      <4>2. page * size >= Cardinality(Users)
        <5>1. page * size \in Int
          BY <3>2, <3>3
        <5> QED BY <2>3, <2>12, <3>1, <5>1
      <4>3. i - 1 >= page * size
        BY <2>2, <2>10, <3>2, <4>1
      <4>4. page * size \in Int
        BY <3>2, <3>3
      <4> QED BY <2>3, <4>2, <4>3, <4>4
    <3> QED BY <3>4, <3>5
  <2> QED BY <2>10, <2>11, <2>12
<1>7. pc' = "page" =>
        \A u \in base' : Owed(u)' =>
          /\ Cardinality(Newer(u)') >= PageNumber' * PageSize'
          /\ answer' # <<>>
          /\ trusting' /\ page' * size' >= total' => stale'
  BY <1>2, <1>3, <1>6
<1>8. base' \subseteq Users' /\ (trusting => size \in Allowed)'
  BY <1>2, <1>3 DEF WalkInv, Allowed
<1>9. WalkIsComplete'
  BY <1>2 DEF WalkIsComplete
<1> QED BY <1>2, <1>7, <1>8, <1>9 DEF WalkInv

LEMMA CallerKeeps ==
  ASSUME TypeOK, TypeOK', WalkInv, List \/ Walk, ~Find
  PROVE  WalkInv'
<1>1. CASE Forget
  BY <1>1, NobodyOwed
<1>2. CASE CountDocuments
  <2>1. /\ pc = "count" /\ pc' = "find" /\ total' = Cardinality(Users)
        /\ UNCHANGED <<created, page, size, trusting, base, seen>>
    BY <1>2 DEF CountDocuments, writes, call
  <2>2. /\ PageNumber' = PageNumber /\ PageSize' = PageSize /\ Users' = Users
        /\ \A u : Newer(u)' = Newer(u) /\ Owed(u)' = Owed(u)
    BY <2>1 DEF PageNumber, PageSize, Users, Newer, Owed, Tied
  <2>3. Cardinality(Users) \in Nat
    BY UsersFinite
  <2>4. \A u \in base' : Owed(u)' =>
          Cardinality(Newer(u)') >= (PageNumber' - 1) * PageSize'
    BY <2>1, <2>2 DEF WalkInv
  <2>5. Cardinality(Users') <= total'
    BY <2>1, <2>2, <2>3
  <2>6. base' \subseteq Users' /\ (trusting => size \in Allowed)'
    BY <2>1, <2>2 DEF WalkInv, Allowed
  <2>7. WalkIsComplete'
    BY <2>1 DEF WalkIsComplete
  <2> QED BY <2>1, <2>4, <2>5, <2>6, <2>7 DEF WalkInv
<1>3. CASE ListFails /\ ~Forget
  <2>1. /\ pc \in {"count", "find"} /\ pc' = "count"
        /\ UNCHANGED <<created, page, size, trusting, total, base, seen>>
    BY <1>3 DEF ListFails, writes, call
  <2>2. /\ PageNumber' = PageNumber /\ PageSize' = PageSize /\ Users' = Users
        /\ \A u : Newer(u)' = Newer(u) /\ Owed(u)' = Owed(u)
    BY <2>1 DEF PageNumber, PageSize, Users, Newer, Owed, Tied
  <2>3. \A u \in base' : Owed(u)' =>
          Cardinality(Newer(u)') >= (PageNumber' - 1) * PageSize'
    BY <2>1, <2>2 DEF WalkInv
  <2>4. base' \subseteq Users' /\ (trusting => size \in Allowed)'
    BY <2>1, <2>2 DEF WalkInv, Allowed
  <2>5. WalkIsComplete'
    BY <2>1 DEF WalkIsComplete
  <2> QED BY <2>1, <2>3, <2>4, <2>5 DEF WalkInv
<1>4. CASE NextPage
  <2>1. /\ pc = "page" /\ pc' = "count" /\ page' = page + 1
        /\ UNCHANGED <<created, size, trusting, total, base, seen>>
    BY <1>4 DEF NextPage, writes
  <2>2. /\ PageSize' = PageSize /\ Users' = Users
        /\ \A u : Newer(u)' = Newer(u) /\ Owed(u)' = Owed(u)
    BY <2>1 DEF PageSize, Users, Newer, Owed, Tied
  <2>3. /\ PageNumber \in Nat \ {0} /\ PageSize \in 1 .. MaxPageSize
        /\ (PageNumber - 1) * PageSize \in Nat
        /\ PageNumber * PageSize = (PageNumber - 1) * PageSize + PageSize
        /\ page \in Int
    BY PageType DEF TypeOK
  <2>4. ASSUME NEW u \in base, Owed(u)
        PROVE  Cardinality(Newer(u)) >= (PageNumber' - 1) * PageSize
    <3>1. Cardinality(Newer(u)) >= PageNumber * PageSize
      BY <2>1, <2>4 DEF WalkInv
    <3>2. Cardinality(Newer(u)) \in Nat
      BY UsersFinite
    <3>3. CASE page < 1
      <4>1. PageNumber' = 1
        BY <2>1, <2>3, <3>3 DEF PageNumber
      <4>2. (PageNumber' - 1) * PageSize = 0
        BY <2>3, <4>1
      <4> QED BY <3>2, <4>2
    <3>4. CASE ~(page < 1)
      <4>1. PageNumber' - 1 = PageNumber
        BY <2>1, <2>3, <3>4 DEF PageNumber
      <4> QED BY <3>1, <4>1
    <3> QED BY <3>3, <3>4
  <2>5. \A u \in base' : Owed(u)' =>
          Cardinality(Newer(u)') >= (PageNumber' - 1) * PageSize'
    BY <2>1, <2>2, <2>4
  <2>6. base' \subseteq Users' /\ (trusting => size \in Allowed)'
    BY <2>1, <2>2 DEF WalkInv, Allowed
  <2>7. WalkIsComplete'
    BY <2>1 DEF WalkIsComplete
  <2> QED BY <2>1, <2>5, <2>6, <2>7 DEF WalkInv
<1>5. CASE Stop
  <2>1. /\ pc = "page" /\ pc' = "done" /\ LastPage
        /\ UNCHANGED <<created, page, size, trusting, total, answer, base, seen, stale>>
    BY <1>5 DEF Stop, writes, call
  <2>2. Users' = Users /\ \A u : Owed(u)' = Owed(u)
    BY <2>1 DEF Users, Owed, Tied
  <2>3. \A u \in base : Owed(u) =>
          answer # <<>> /\ (trusting /\ page * size >= total => stale)
    BY <2>1 DEF WalkInv
  <2>4. ~(trusting /\ stale) => \A u \in base : ~Owed(u)
    BY <2>1, <2>3 DEF LastPage
  <2>5. WalkIsComplete'
    <3>1. \A u : ~Owed(u)' => Tied(u)' \/ u \in seen'
      BY DEF Owed
    <3> QED BY <2>1, <2>2, <2>4, <3>1 DEF WalkIsComplete
  <2>6. base' \subseteq Users' /\ (trusting => size \in Allowed)'
    BY <2>1, <2>2 DEF WalkInv, Allowed
  <2> QED BY <2>1, <2>5, <2>6 DEF WalkInv
<1> QED BY <1>1, <1>2, <1>3, <1>4, <1>5 DEF List, Walk, Leave

LEMMA WalkInit == Init => WalkInv
<1> SUFFICES ASSUME Init PROVE WalkInv
  OBVIOUS
<1>1. base = {} /\ pc = "idle" /\ ~trusting
  BY DEF Init
<1> QED BY <1>1 DEF WalkInv, WalkIsComplete

LEMMA WalkNext == TypeOK /\ TypeOK' /\ WalkInv /\ [Next]_vars => WalkInv'
<1> SUFFICES ASSUME TypeOK, TypeOK', WalkInv, [Next]_vars PROVE WalkInv'
  OBVIOUS
<1>1. CASE UNCHANGED vars
  BY <1>1 DEF vars, writes, call, WalkInv, WalkIsComplete, Owed, Tied, Newer, Users,
              PageNumber, PageSize
<1>2. CASE Find
  BY <1>2, FindKeeps
<1>3. CASE (List \/ Walk) /\ ~Find
  BY <1>3, CallerKeeps
<1>4. CASE Writer
  BY <1>4, WriterKeeps
<1>5. CASE \E p \in Page, n \in Size, trusts \in BOOLEAN : Begin(p, n, trusts)
  BY <1>5, BeginKeeps
<1> QED BY <1>1, <1>2, <1>3, <1>4, <1>5 DEF Next

(* user_repo.go, lines 166 to 184: however many users are created, updated  *)
(* and deleted between the calls, and within them between the two queries,  *)
(* a walk through the pages misses nobody but the tied and those that a     *)
(* deletion moved, whatever the size of a page and the width of an integer. *)
THEOREM WalkMissesNobody == Spec => []WalkIsComplete
<1>1. WalkInv => WalkIsComplete
  BY DEF WalkInv
<1> QED BY TypeInit, TypeNext, WalkInit, WalkNext, <1>1, PTL DEF Spec
=============================================================================
