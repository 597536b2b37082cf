----------------------------- MODULE AccessProofs -----------------------------
(***************************************************************************)
(* Safety of Access for any number of requests, addresses and policies.    *)
(*                                                                         *)
(* AccessInv adds to the types and to FailuresCounted that failures are    *)
(* recorded in the order of time (ClockInv): only then does dropping from  *)
(* the left keep all that count, and the deque's length is their number.   *)
(***************************************************************************)
EXTENDS Access, TLAPS, FiniteSetTheorems, SequenceTheorems, WellFoundedInduction

ClockInv ==
  \A ip \in Ips : \A k \in 1..Len(failures[ip]) :
    failures[ip][k] <= clock /\ \A j \in 1..k : failures[ip][j] <= failures[ip][k]

-----------------------------------------------------------------------------
(* The deque *)

\* A set of numbers that is not empty has a smallest one.
LEMMA Smallest ==
  ASSUME NEW S \in SUBSET Nat, S # {} PROVE \E n \in S : \A m \in S : n <= m
<1>1. PICK n \in S : \A m \in S : <<m, n>> \notin OpToRel(<, Nat)
  BY NatLessThanWellFounded, WFMin
<1>2. \A m \in S : ~(m < n)
  BY <1>1 DEF OpToRel
<1> QED
  BY <1>2

\* Pruning drops the first entries up to one in the window, and no others.
LEMMA PruneDrops ==
  ASSUME NEW b \in Seq(Nat), clock \in Nat
  PROVE  \E n \in 0..Len(b) :
           /\ Prune(b) = SubSeq(b, n + 1, Len(b))
           /\ \A k \in 1..n : b[k] < clock - Window
           /\ n < Len(b) => b[n + 1] >= clock - Window
<1> DEFINE Fits(n) == n < Len(b) => b[n + 1] >= clock - Window
           S == {n \in 0..Len(b) : Fits(n)}
<1>1. Len(b) \in S
  OBVIOUS
<1>2. PICK n \in S : \A m \in S : n <= m
  <2>1. S \in SUBSET Nat /\ S # {}
    BY <1>1
  <2> QED
    BY <2>1, Smallest
<1>3. ASSUME NEW k \in 1..n PROVE b[k] < clock - Window
  <2>1. k - 1 \in 0..Len(b) /\ k - 1 \notin S
    <3>1. n \in 0..Len(b) /\ Len(b) \in Nat
      OBVIOUS
    <3>2. k - 1 \in 0..Len(b) /\ ~(n <= k - 1)
      BY <3>1
    <3> HIDE DEF S
    <3> QED
      BY <3>2, <1>2
  <2>2. ~Fits(k - 1) /\ b[k] \in Nat
    BY <2>1, <1>2
  <2> QED
    BY <2>2, BoundAssumption
<1>4. \E m \in 0..Len(b) : /\ \A k \in 1..m : b[k] < clock - Window
                           /\ m < Len(b) => b[m + 1] >= clock - Window
  BY <1>2, <1>3
<1> QED
  BY <1>4 DEF Prune

LEMMA PruneType ==
  ASSUME NEW b \in Seq(Nat), clock \in Nat
  PROVE  Prune(b) \in Seq(Nat) /\ Len(Prune(b)) \in Nat /\ Len(Prune(b)) <= Len(b)
<1>1. PICK n \in 0..Len(b) : Prune(b) = SubSeq(b, n + 1, Len(b))
  BY PruneDrops
<1>2. \A i \in n + 1..Len(b) : b[i] \in Nat
  OBVIOUS
<1>3. SubSeq(b, n + 1, Len(b)) \in Seq(Nat)
  BY <1>2, SubSeqProperties
<1>4. Len(SubSeq(b, n + 1, Len(b))) = Len(b) - n
  BY <1>2, SubSeqProperties
<1> QED
  BY <1>1, <1>3, <1>4

\* The end of the end of a sequence, and the end of a longer one.
LEMMA EndOfEnd ==
  ASSUME NEW f \in Seq(Nat), NEW n \in 0..Len(f), NEW m \in 0..Len(f) - n
  PROVE  SubSeq(SubSeq(f, n + 1, Len(f)), m + 1, Len(f) - n) = SubSeq(f, n + m + 1, Len(f))
<1>1. CASE m = Len(f) - n
  <2>1. /\ SubSeq(SubSeq(f, n + 1, Len(f)), m + 1, Len(f) - n) = <<>>
        /\ SubSeq(f, n + m + 1, Len(f)) = <<>>
    BY <1>1, SubSeqEmpty
  <2> QED
    BY <2>1
<1>2. CASE m # Len(f) - n
  <2>1. /\ n + 1 \in 1..Len(f) /\ Len(f) \in 1..Len(f)
        /\ m + 1 \in 1..(Len(f) - (n + 1)) + 1 /\ Len(f) - n \in 1..(Len(f) - (n + 1)) + 1
    BY <1>2
  <2>2. SubSeq(SubSeq(f, n + 1, Len(f)), m + 1, Len(f) - n)
          = SubSeq(f, n + 1 + (m + 1) - 1, n + 1 + (Len(f) - n) - 1)
    BY <2>1, SubSeqOfSubSeq
  <2>3. n + 1 + (m + 1) - 1 = n + m + 1 /\ n + 1 + (Len(f) - n) - 1 = Len(f)
    OBVIOUS
  <2> QED
    BY <2>2, <2>3
<1> QED
  BY <1>1, <1>2

LEMMA EndOfAppend ==
  ASSUME NEW f \in Seq(Nat), NEW n \in 0..Len(f), NEW t \in Nat
  PROVE  Append(SubSeq(f, n + 1, Len(f)), t) = SubSeq(Append(f, t), n + 1, Len(f) + 1)
<1> DEFINE g == Append(f, t)
           a == SubSeq(f, n + 1, Len(f))
           b == SubSeq(g, n + 1, Len(f) + 1)
<1>1. /\ g \in Seq(Nat) /\ Len(g) = Len(f) + 1
      /\ \A i \in 1..Len(f) : g[i] = f[i]
      /\ g[Len(f) + 1] = t
  OBVIOUS
<1>2. /\ a \in Seq(Nat) /\ Len(a) = Len(f) - n
      /\ \A i \in 1..Len(f) - n : a[i] = f[n + i]
  <2>1. \A i \in n + 1..Len(f) : f[i] \in Nat
    OBVIOUS
  <2>2. /\ a \in Seq(Nat)
        /\ Len(a) = IF n + 1 <= Len(f) THEN Len(f) - (n + 1) + 1 ELSE 0
        /\ \A i \in 1..Len(f) - (n + 1) + 1 : a[i] = f[n + 1 + i - 1]
    BY <2>1, SubSeqProperties
  <2> QED
    BY <2>2
<1>3. /\ b \in Seq(Nat) /\ Len(b) = Len(f) + 1 - n
      /\ \A i \in 1..Len(f) + 1 - n : b[i] = g[n + i]
  <2>1. \A i \in n + 1..Len(f) + 1 : g[i] \in Nat
    BY <1>1
  <2>2. /\ b \in Seq(Nat)
        /\ Len(b) = IF n + 1 <= Len(f) + 1 THEN Len(f) + 1 - (n + 1) + 1 ELSE 0
        /\ \A i \in 1..Len(f) + 1 - (n + 1) + 1 : b[i] = g[n + 1 + i - 1]
    BY <2>1, SubSeqProperties
  <2> QED
    BY <2>2
<1> HIDE DEF a, b, g
<1>4. /\ Append(a, t) \in Seq(Nat) /\ Len(Append(a, t)) = Len(f) - n + 1
      /\ \A i \in 1..Len(f) - n : Append(a, t)[i] = a[i]
      /\ Append(a, t)[Len(f) - n + 1] = t
  BY <1>2, AppendProperties
<1>5. ASSUME NEW i \in 1..Len(Append(a, t)) PROVE Append(a, t)[i] = b[i]
  <2>1. CASE i \in 1..Len(f) - n
    <3>1. n + i \in 1..Len(f)
      BY <2>1
    <3>2. b[i] = g[n + i] /\ g[n + i] = f[n + i]
      BY <2>1, <3>1, <1>1, <1>3
    <3> QED
      BY <2>1, <3>2, <1>2, <1>4
  <2>2. CASE i = Len(f) - n + 1
    <3>1. n + i = Len(f) + 1 /\ i \in 1..Len(f) + 1 - n
      BY <2>2
    <3> QED
      BY <2>2, <3>1, <1>1, <1>3, <1>4
  <2> QED
    <3>1. i \in 1..Len(f) - n \/ i = Len(f) - n + 1
      BY <1>4
    <3> QED
      BY <3>1, <2>1, <2>2
<1>6. Append(a, t) = b
  <2>1. Len(Append(a, t)) = Len(b)
    BY <1>3, <1>4
  <2> QED
    BY <2>1, <1>3, <1>4, <1>5, SeqEqual
<1> QED
  BY <1>6 DEF a, b, g

-----------------------------------------------------------------------------
(* What the deque holds *)

\* The deque b is the end of the failures f, without any that counts.
Holds(b, f) ==
  \E n \in 0..Len(f) : /\ b = SubSeq(f, n + 1, Len(f))
                       /\ \A k \in 1..n : f[k] < clock - Window

LEMMA PruneHolds ==
  ASSUME NEW f \in Seq(Nat), NEW b \in Seq(Nat), clock \in Nat, Holds(b, f)
  PROVE  \E n \in 0..Len(f) :
           /\ Prune(b) = SubSeq(f, n + 1, Len(f))
           /\ Len(Prune(b)) = Len(f) - n
           /\ \A k \in 1..n : f[k] < clock - Window
           /\ n < Len(f) => f[n + 1] >= clock - Window
<1>1. PICK n \in 0..Len(f) : /\ b = SubSeq(f, n + 1, Len(f))
                             /\ \A k \in 1..n : f[k] < clock - Window
  BY DEF Holds
<1>2. Len(b) = Len(f) - n /\ \A k \in 1..Len(b) : b[k] = f[n + k]
  <2>1. \A i \in n + 1..Len(f) : f[i] \in Nat
    OBVIOUS
  <2>2. /\ Len(b) = IF n + 1 <= Len(f) THEN Len(f) - (n + 1) + 1 ELSE 0
        /\ \A i \in 1..Len(f) - (n + 1) + 1 : b[i] = f[n + 1 + i - 1]
    BY <1>1, <2>1, SubSeqProperties
  <2> QED
    BY <2>2
<1>3. PICK m \in 0..Len(b) : /\ Prune(b) = SubSeq(b, m + 1, Len(b))
                             /\ \A k \in 1..m : b[k] < clock - Window
                             /\ m < Len(b) => b[m + 1] >= clock - Window
  BY PruneDrops
<1>4. n + m \in 0..Len(f) /\ Prune(b) = SubSeq(f, (n + m) + 1, Len(f))
  <2>1. m \in 0..Len(f) - n /\ Len(b) = Len(f) - n
    BY <1>2
  <2>2. SubSeq(b, m + 1, Len(f) - n) = SubSeq(f, n + m + 1, Len(f))
    BY <2>1, <1>1, EndOfEnd
  <2> QED
    BY <2>1, <2>2, <1>3
<1>5. Len(Prune(b)) = Len(f) - (n + m)
  <2>1. \A i \in n + m + 1..Len(f) : f[i] \in Nat
    BY <1>4
  <2>2. Len(SubSeq(f, n + m + 1, Len(f)))
          = IF n + m + 1 <= Len(f) THEN Len(f) - (n + m + 1) + 1 ELSE 0
    BY <2>1, <1>4, SubSeqProperties
  <2> QED
    BY <2>2, <1>4
<1>6. \A k \in 1..n + m : f[k] < clock - Window
  <2> SUFFICES ASSUME NEW k \in 1..n + m PROVE f[k] < clock - Window
    OBVIOUS
  <2>1. CASE k <= n
    BY <2>1, <1>1
  <2>2. CASE k > n
    <3>1. k - n \in 1..m /\ k - n \in 1..Len(b) /\ n + (k - n) = k
      BY <2>2
    <3> QED
      BY <3>1, <1>2, <1>3
  <2> QED
    BY <2>1, <2>2
<1>7. n + m < Len(f) => f[n + m + 1] >= clock - Window
  <2> SUFFICES ASSUME n + m < Len(f) PROVE f[n + m + 1] >= clock - Window
    OBVIOUS
  <2>1. m < Len(b) /\ m + 1 \in 1..Len(b) /\ n + (m + 1) = n + m + 1
    BY <1>2
  <2>2. b[m + 1] >= clock - Window
    BY <2>1, <1>3
  <2>3. b[m + 1] = f[n + (m + 1)]
    BY <2>1, <1>2
  <2> QED
    BY <2>1, <2>2, <2>3
<1> QED
  BY <1>4, <1>5, <1>6, <1>7

LEMMA AskHolds ==
  ASSUME NEW f \in Seq(Nat), NEW b \in Seq(Nat), clock \in Nat, Holds(b, f)
  PROVE  Holds(Prune(b), f)
  BY PruneHolds DEF Holds

LEMMA RecordHolds ==
  ASSUME NEW f \in Seq(Nat), NEW b \in Seq(Nat), clock \in Nat, Holds(b, f)
  PROVE  Holds(Append(Prune(b), clock), Append(f, clock))
<1>1. PICK n \in 0..Len(f) : /\ Prune(b) = SubSeq(f, n + 1, Len(f))
                             /\ \A k \in 1..n : f[k] < clock - Window
  BY PruneHolds
<1>2. Append(Prune(b), clock) = SubSeq(Append(f, clock), n + 1, Len(f) + 1)
  BY <1>1, EndOfAppend
<1>3. Len(Append(f, clock)) = Len(f) + 1
  OBVIOUS
<1>4. \A k \in 1..n : Append(f, clock)[k] < clock - Window
  BY <1>1
<1>5. n \in 0..Len(Append(f, clock))
  BY <1>3
<1> QED
  BY <1>2, <1>3, <1>4, <1>5 DEF Holds

\* In the order of time, the length of the pruned deque is what counts.
LEMMA LengthCounts ==
  ASSUME NEW f \in Seq(Nat), NEW b \in Seq(Nat), clock \in Nat, Holds(b, f),
         \A k \in 1..Len(f) : \A j \in 1..k : f[j] <= f[k]
  PROVE  Len(Prune(b)) = Cardinality({k \in DOMAIN f : f[k] >= clock - Window})
<1>1. PICK n \in 0..Len(f) : /\ Len(Prune(b)) = Len(f) - n
                             /\ \A k \in 1..n : f[k] < clock - Window
                             /\ n < Len(f) => f[n + 1] >= clock - Window
  BY PruneHolds
<1>2. ASSUME NEW k \in n + 1..Len(f) PROVE f[k] >= clock - Window
  <2>1. n < Len(f) /\ k \in 1..Len(f) /\ n + 1 \in 1..k /\ n + 1 \in 1..Len(f)
    OBVIOUS
  <2>2. f[n + 1] <= f[k] /\ f[n + 1] \in Nat /\ f[k] \in Nat
    BY <2>1
  <2> QED
    BY <2>1, <2>2, <1>1, BoundAssumption
<1>3. ASSUME NEW k \in 1..n PROVE ~(f[k] >= clock - Window)
  <2>1. f[k] \in Nat /\ f[k] < clock - Window
    BY <1>1
  <2> QED
    BY <2>1, BoundAssumption
<1>4. {k \in DOMAIN f : f[k] >= clock - Window} = n + 1..Len(f)
  BY <1>2, <1>3
<1>5. Cardinality(n + 1..Len(f)) = Len(f) - n
  <2>1. Cardinality(n + 1..Len(f)) = IF n + 1 > Len(f) THEN 0 ELSE Len(f) - (n + 1) + 1
    <3>1. n + 1 \in Int /\ Len(f) \in Int
      OBVIOUS
    <3> QED
      BY <3>1, FS_Interval
  <2> QED
    BY <2>1
<1> QED
  BY <1>1, <1>4, <1>5

-----------------------------------------------------------------------------
(* The invariant *)

JudgeInv ==
  \A w \in Workers :
    /\ pc[w] # "answered" => answer[w] = "none"
    /\ pc[w] = "checking" =>
         /\ snap[w] \in during[w]
         /\ ~Forbidden(snap[w], request[w]) /\ NeedsAccount(snap[w], request[w])
         /\ ~tooMany[w]

AccessInv ==
  TypeOK /\ FailuresCounted /\ ClockInv /\ OverrunBounded /\ JudgeInv /\ AnswersFollowPolicy

\* What a step does to the deques and to the failures.
Unlimited == bucket' = bucket /\ failures' = failures
Asked(ip) == /\ bucket' = [x \in Ips |-> IF x = ip THEN Prune(bucket[x]) ELSE bucket[x]]
             /\ failures' = failures
Recorded(ip) ==
  /\ bucket' = [x \in Ips |-> IF x = ip THEN Append(Prune(bucket[x]), clock) ELSE bucket[x]]
  /\ failures' = [x \in Ips |-> IF x = ip THEN Append(failures[x], clock) ELSE failures[x]]
Cleared(ip) == /\ bucket' = [x \in Ips |-> IF x = ip THEN <<>> ELSE bucket[x]]
               /\ failures' = [x \in Ips |-> IF x = ip THEN <<>> ELSE failures[x]]

LEMMA LimiterEffects ==
  ASSUME TypeOK, NEW ip
  PROVE  /\ AskLimiter(ip) /\ UNCHANGED failures => Asked(ip)
         /\ RecordFailure(ip) => Recorded(ip)
         /\ ClearFailures(ip) => Cleared(ip)
<1>1. /\ bucket = [x \in Ips |-> bucket[x]]
      /\ failures = [x \in Ips |-> failures[x]]
  BY DEF TypeOK
<1>2. CASE ip \in Ips
  BY <1>1, <1>2 DEF AskLimiter, RecordFailure, ClearFailures, Asked, Recorded, Cleared
<1>3. CASE ip \notin Ips
  <2>1. \A x \in Ips : x # ip
    BY <1>3
  <2>2. AskLimiter(ip) /\ UNCHANGED failures => Asked(ip)
    BY <1>1, <1>3, <2>1 DEF AskLimiter, Asked
  <2>3. RecordFailure(ip) => Recorded(ip)
    BY <1>1, <1>3, <2>1 DEF RecordFailure, Recorded
  <2>4. ClearFailures(ip) => Cleared(ip)
    BY <1>1, <1>3, <2>1 DEF ClearFailures, Cleared
  <2> QED
    BY <2>2, <2>3, <2>4
<1> QED
  BY <1>2, <1>3

\* Every step is one of these; what it does to the requests besides is left open.
LEMMA StepEffects ==
  ASSUME TypeOK, [Next]_vars
  PROVE  \/ Unlimited /\ clock' \in {clock, clock + 1}
         \/ clock' = clock /\ \E ip \in Ips \cup {NoIp} : Asked(ip) \/ Recorded(ip) \/ Cleared(ip)
         \/ clock' = clock /\ bucket' = [x \in Ips |-> <<>>] /\ failures' = [x \in Ips |-> <<>>]
<1>1. ASSUME NEW w \in Workers, Finish(w)
      PROVE  clock' = clock /\ \E ip \in Ips \cup {NoIp} : Recorded(ip) \/ Cleared(ip)
  <2>1. request[w].ip \in Ips \cup {NoIp}
    BY <1>1, DataAssumption DEF TypeOK, Finish, Request
  <2> QED
    BY <1>1, <2>1, LimiterEffects DEF Finish
<1>2. ASSUME NEW w \in Workers, NEW q \in Requests, Arrive(w, q)
      PROVE  \/ Unlimited /\ clock' = clock
             \/ clock' = clock /\ \E ip \in Ips \cup {NoIp} : Asked(ip) \/ Recorded(ip)
  <2>1. q.ip \in Ips \cup {NoIp}
    BY DataAssumption DEF Request
  <2>2. CASE Identify(w, q)
    BY <1>2, <2>1, <2>2, LimiterEffects DEF Arrive, Identify
  <2>3. CASE ~Identify(w, q)
    BY <1>2, <2>3 DEF Arrive, Unlimited
  <2> QED
    BY <2>2, <2>3
<1>3. ASSUME \/ \E w \in Workers : Leave(w)
             \/ \E p \in Policies : SavePolicy(p)
             \/ Tick
             \/ UNCHANGED vars
      PROVE  Unlimited /\ clock' \in {clock, clock + 1}
  BY <1>3 DEF Leave, SavePolicy, Tick, vars, Unlimited
<1>4. ASSUME NEW e \in Environments, Restart(e)
      PROVE  /\ clock' = clock
             /\ bucket' = [x \in Ips |-> <<>>] /\ failures' = [x \in Ips |-> <<>>]
  BY <1>4 DEF Restart
<1> QED
  BY <1>1, <1>2, <1>3, <1>4 DEF Next

-----------------------------------------------------------------------------
(* Types *)

LEMMA LimiterTypes ==
  ASSUME TypeOK, [Next]_vars
  PROVE  bucket' \in [Ips -> Seq(Nat)] /\ failures' \in [Ips -> Seq(Nat)]
<1>1. clock \in Nat /\ bucket \in [Ips -> Seq(Nat)] /\ failures \in [Ips -> Seq(Nat)]
  BY DEF TypeOK
<1>2. \A x \in Ips : Prune(bucket[x]) \in Seq(Nat)
  BY <1>1, PruneType
<1>3. \A x \in Ips : /\ Append(Prune(bucket[x]), clock) \in Seq(Nat)
                     /\ Append(failures[x], clock) \in Seq(Nat)
  BY <1>1, <1>2, AppendProperties
<1>4. <<>> \in Seq(Nat)
  OBVIOUS
<1>5. ASSUME NEW ip, Asked(ip) \/ Recorded(ip) \/ Cleared(ip)
      PROVE  bucket' \in [Ips -> Seq(Nat)] /\ failures' \in [Ips -> Seq(Nat)]
  BY <1>1, <1>2, <1>3, <1>4, <1>5 DEF Asked, Recorded, Cleared
<1> QED
  BY <1>1, <1>4, <1>5, StepEffects DEF Unlimited

LEMMA TypeNext == TypeOK /\ [Next]_vars => TypeOK'
<1> SUFFICES ASSUME TypeOK, [Next]_vars PROVE TypeOK'
  OBVIOUS
<1>1. bucket' \in [Ips -> Seq(Nat)] /\ failures' \in [Ips -> Seq(Nat)]
  BY LimiterTypes
<1>2. ASSUME NEW w \in Workers, NEW q \in Requests, Arrive(w, q) PROVE TypeOK'
  <2>1. policy \in Policies /\ q.account \in Accounts \cup {NoAccount} /\ q # Nothing /\ policy # Nothing
    BY DataAssumption, NothingAssumption DEF TypeOK, Request
  <2>2. /\ pc' \in [Workers -> Points] /\ answer' \in [Workers -> Answers]
        /\ \A v \in Workers : v # w => pc'[v] = pc[v]
        /\ pc'[w] = "checking" => q.account \in Accounts
    BY <1>2, <2>1 DEF TypeOK, Arrive, Identify, Answer, Points, Answers
  <2>3. /\ request' \in [Workers -> Requests \cup {Nothing}]
        /\ snap' \in [Workers -> Policies \cup {Nothing}]
        /\ during' \in [Workers -> SUBSET Policies] /\ tooMany' \in [Workers -> BOOLEAN]
        /\ policy' \in Policies /\ env' \in Environments /\ clock' \in Nat
    BY <1>2, <2>1 DEF TypeOK, Arrive
  <2>4. ASSUME NEW v \in Workers
        PROVE  /\ pc'[v] # "idle" => request'[v] # Nothing /\ snap'[v] # Nothing
               /\ pc'[v] = "checking" => request'[v].account \in Accounts
    <3>1. CASE v = w
      <4>1. request'[v] = q /\ snap'[v] = policy
        BY <1>2, <3>1 DEF Arrive, TypeOK
      <4> QED
        BY <3>1, <4>1, <2>1, <2>2
    <3>2. CASE v # w
      <4>1. request'[v] = request[v] /\ snap'[v] = snap[v] /\ pc'[v] = pc[v]
        BY <1>2, <3>2, <2>2 DEF Arrive, TypeOK
      <4> QED
        BY <4>1 DEF TypeOK
    <3> QED
      BY <3>1, <3>2
  <2> QED
    BY <1>1, <2>2, <2>3, <2>4 DEF TypeOK
<1>3. ASSUME NEW w \in Workers, Finish(w) PROVE TypeOK'
  <2>1. /\ pc' = [pc EXCEPT ![w] = "answered"] /\ answer' \in [Workers -> Answers]
        /\ UNCHANGED <<policy, env, clock, request, snap, during, tooMany>>
    BY <1>3 DEF TypeOK, Finish, Answer, Answers
  <2> QED
    BY <1>1, <1>3, <2>1 DEF TypeOK, Finish, Points
<1>4. ASSUME NEW w \in Workers, Leave(w) PROVE TypeOK'
  BY <1>1, <1>4 DEF TypeOK, Leave, Points, Answers
<1>5. ASSUME NEW p \in Policies, SavePolicy(p) PROVE TypeOK'
  <2>1. during' \in [Workers -> SUBSET Policies]
    BY <1>5 DEF TypeOK, SavePolicy
  <2> QED
    BY <1>1, <1>5, <2>1 DEF TypeOK, SavePolicy, requests
<1>6. CASE Tick
  BY <1>1, <1>6 DEF TypeOK, Tick, requests
<1>7. ASSUME NEW e \in Environments, Restart(e) PROVE TypeOK'
  BY <1>1, <1>7 DEF TypeOK, Restart, Points, Answers
<1>8. CASE UNCHANGED vars
  BY <1>8 DEF TypeOK, vars, requests
<1> QED
  BY <1>2, <1>3, <1>4, <1>5, <1>6, <1>7, <1>8 DEF Next

-----------------------------------------------------------------------------
(* The failures *)

LEMMA CountNext ==
  ASSUME TypeOK, FailuresCounted, ClockInv, [Next]_vars
  PROVE  FailuresCounted' /\ ClockInv'
<1>1. /\ clock \in Nat /\ bucket \in [Ips -> Seq(Nat)] /\ failures \in [Ips -> Seq(Nat)]
      /\ \A x \in Ips : Holds(bucket[x], failures[x])
  BY DEF TypeOK, FailuresCounted, Holds
<1> DEFINE Good(b, f) ==
      /\ \E n \in 0..Len(f) : /\ b = SubSeq(f, n + 1, Len(f))
                              /\ \A k \in 1..n : f[k] < clock' - Window
      /\ \A k \in 1..Len(f) : f[k] <= clock' /\ \A j \in 1..k : f[j] <= f[k]
<1>2. SUFFICES ASSUME NEW x \in Ips PROVE Good(bucket'[x], failures'[x])
  BY DEF FailuresCounted, ClockInv
<1> DEFINE b == bucket[x]
           f == failures[x]
<1>3. b \in Seq(Nat) /\ f \in Seq(Nat) /\ Len(f) \in Nat /\ Holds(b, f)
  BY <1>1
<1>4. \A k \in 1..Len(f) : f[k] <= clock /\ f[k] \in Nat /\ \A j \in 1..k : f[j] <= f[k]
  BY <1>3 DEF ClockInv
<1>5. Good(<<>>, <<>>)
  <2>1. <<>> = SubSeq(<<>>, 1, Len(<<>>)) /\ Len(<<>>) = 0
    BY SubSeqEmpty
  <2> QED
    BY <2>1
<1>6. CASE Unlimited /\ clock' \in {clock, clock + 1}
  <2>1. PICK n \in 0..Len(f) : /\ b = SubSeq(f, n + 1, Len(f))
                               /\ \A k \in 1..n : f[k] < clock - Window
    BY <1>3 DEF Holds
  <2>2. \A k \in 1..n : f[k] < clock' - Window
    <3>1. ASSUME NEW k \in 1..n PROVE f[k] < clock' - Window
      <4>1. f[k] \in Nat /\ f[k] < clock - Window
        BY <2>1, <1>4
      <4> QED
        BY <4>1, <1>1, <1>6, BoundAssumption
    <3> QED
      BY <3>1
  <2>3. \A k \in 1..Len(f) : f[k] <= clock'
    BY <1>1, <1>4, <1>6
  <2> QED
    BY <1>4, <1>6, <2>1, <2>2, <2>3 DEF Unlimited
<1>7. ASSUME NEW ip, clock' = clock, Asked(ip) \/ Recorded(ip) \/ Cleared(ip)
      PROVE  Good(bucket'[x], failures'[x])
  <2>1. Good(b, f)
    BY <1>3, <1>4, <1>7 DEF Holds
  <2>2. Good(Prune(b), f)
    <3>1. Holds(Prune(b), f)
      BY <1>1, <1>3, AskHolds
    <3> QED
      BY <3>1, <1>4, <1>7 DEF Holds
  <2>3. Good(Append(Prune(b), clock), Append(f, clock))
    <3>1. Holds(Append(Prune(b), clock), Append(f, clock))
      BY <1>1, <1>3, RecordHolds
    <3>2. /\ Len(Append(f, clock)) = Len(f) + 1
          /\ \A k \in 1..Len(f) : Append(f, clock)[k] = f[k]
          /\ Append(f, clock)[Len(f) + 1] = clock
      BY <1>1, <1>3, AppendProperties
    <3>3. ASSUME NEW k \in 1..Len(f) + 1
          PROVE  /\ Append(f, clock)[k] <= clock
                 /\ \A j \in 1..k : Append(f, clock)[j] <= Append(f, clock)[k]
      <4>1. CASE k \in 1..Len(f)
        BY <4>1, <3>2, <1>3, <1>4
      <4>2. CASE k = Len(f) + 1
        BY <4>2, <3>2, <1>1, <1>3, <1>4
      <4> QED
        BY <4>1, <4>2, <1>3
    <3> QED
      BY <3>1, <3>2, <3>3, <1>7 DEF Holds
  <2>4. CASE ip = x
    BY <2>2, <2>3, <2>4, <1>5, <1>7 DEF Asked, Recorded, Cleared
  <2>5. CASE ip # x
    <3>1. bucket'[x] = b /\ failures'[x] = f
      BY <2>5, <1>7 DEF Asked, Recorded, Cleared
    <3> QED
      BY <2>1, <3>1
  <2> QED
    BY <2>4, <2>5
<1>8. CASE clock' = clock /\ bucket' = [y \in Ips |-> <<>>] /\ failures' = [y \in Ips |-> <<>>]
  BY <1>5, <1>8
<1> QED
  BY <1>6, <1>7, <1>8, StepEffects

\* The limiter refuses exactly the addresses with too many failures that count.
LEMMA LimiterIsExact ==
  ASSUME TypeOK, FailuresCounted, ClockInv, NEW ip
  PROVE  Exceeded(ip) <=> ip \in Ips /\ Cardinality(Recent(ip)) >= Limit
<1> SUFFICES ASSUME ip \in Ips
             PROVE  Len(Prune(bucket[ip])) = Cardinality(Recent(ip))
  BY DEF Exceeded
<1>1. /\ clock \in Nat /\ failures[ip] \in Seq(Nat) /\ bucket[ip] \in Seq(Nat)
      /\ Holds(bucket[ip], failures[ip])
      /\ \A k \in 1..Len(failures[ip]) : \A j \in 1..k : failures[ip][j] <= failures[ip][k]
  BY DEF TypeOK, FailuresCounted, Holds, ClockInv
<1> QED
  BY <1>1, LengthCounts DEF Recent

-----------------------------------------------------------------------------
(* The limit *)

LEMMA Fewer ==
  ASSUME NEW S, NEW T, IsFiniteSet(T), S \subseteq T
  PROVE  /\ Cardinality(S) \in Nat /\ Cardinality(T) \in Nat
         /\ Cardinality(S) <= Cardinality(T)
         /\ \A x \in T : x \notin S => Cardinality(S) < Cardinality(T)
<1>1. /\ IsFiniteSet(S) /\ Cardinality(S) \in Nat /\ Cardinality(T) \in Nat
      /\ Cardinality(S) <= Cardinality(T)
  BY FS_Subset, FS_CardinalityType
<1>2. ASSUME NEW x \in T, x \notin S PROVE Cardinality(S) < Cardinality(T)
  <2>1. S \subseteq T \ {x}
    BY <1>2
  <2>2. IsFiniteSet(T \ {x}) /\ Cardinality(T \ {x}) = Cardinality(T) - 1
    BY FS_RemoveElement
  <2>3. Cardinality(S) <= Cardinality(T \ {x})
    BY <2>1, <2>2, FS_Subset
  <2> QED
    BY <1>1, <2>2, <2>3
<1> QED
  BY <1>1, <1>2

LEMMA OverrunCounts ==
  ASSUME NEW l \in Nat, NEW m \in Nat, NEW S \in SUBSET Workers, NEW T \in SUBSET Workers,
         l + Cardinality(S) < Limit + Cardinality(Workers),
         \/ m <= l /\ T \subseteq S
         \/ m < Limit
         \/ m <= Limit /\ \E w \in Workers : w \notin T
         \/ m <= l + 1 /\ T \subseteq S /\ \E w \in S : w \notin T
  PROVE  m + Cardinality(T) < Limit + Cardinality(Workers)
<1>1. IsFiniteSet(Workers) /\ IsFiniteSet(S) /\ Limit \in Nat
  BY BoundAssumption, FS_Subset
<1>2. /\ Cardinality(T) \in Nat /\ Cardinality(Workers) \in Nat
      /\ Cardinality(T) <= Cardinality(Workers)
      /\ (\E w \in Workers : w \notin T) => Cardinality(T) < Cardinality(Workers)
  BY <1>1, Fewer
<1>3. T \subseteq S => /\ Cardinality(S) \in Nat /\ Cardinality(T) <= Cardinality(S)
                       /\ (\E w \in S : w \notin T) => Cardinality(T) < Cardinality(S)
  BY <1>1, Fewer
<1> QED
  BY <1>1, <1>2, <1>3

\* A request that goes to the check finds fewer failures than the limit, and
\* one that ends its check leaves a place for the failure it adds.
LEMMA OverrunNext ==
  ASSUME TypeOK, OverrunBounded, [Next]_vars
  PROVE  OverrunBounded'
<1>1. clock \in Nat /\ bucket \in [Ips -> Seq(Nat)] /\ bucket' \in [Ips -> Seq(Nat)]
  BY LimiterTypes DEF TypeOK
<1>2. /\ Limit \in Nat /\ Limit > 0
      /\ Len(<<>>) = 0
  BY BoundAssumption
<1> SUFFICES ASSUME NEW x \in Ips
             PROVE  Len(bucket'[x]) + Cardinality(InCheck(x)') < Limit + Cardinality(Workers)
  BY DEF OverrunBounded
<1> DEFINE l == Len(bucket[x])
           m == Len(bucket'[x])
           S == InCheck(x)
           T == InCheck(x)'
<1>3. l \in Nat /\ m \in Nat /\ S \in SUBSET Workers /\ T \in SUBSET Workers
  BY <1>1 DEF InCheck
<1>4. l + Cardinality(S) < Limit + Cardinality(Workers)
  BY DEF OverrunBounded
<1>5. SUFFICES \/ m <= l /\ T \subseteq S
               \/ m < Limit
               \/ m <= Limit /\ \E w \in Workers : w \notin T
               \/ m <= l + 1 /\ T \subseteq S /\ \E w \in S : w \notin T
  <2> HIDE DEF l, m, S, T
  <2>1. m + Cardinality(T) < Limit + Cardinality(Workers)
    BY <1>3, <1>4, <1>5, OverrunCounts
  <2> QED
    BY <2>1 DEF m, T
<1>6. /\ Prune(bucket[x]) \in Seq(Nat) /\ Len(Prune(bucket[x])) \in Nat
      /\ Len(Prune(bucket[x])) <= l
      /\ Len(Append(Prune(bucket[x]), clock)) = Len(Prune(bucket[x])) + 1
  BY <1>1, PruneType, AppendProperties
<1>7. ASSUME NEW w \in Workers, NEW q \in Requests, Arrive(w, q)
      PROVE  \/ m <= l /\ T \subseteq S
             \/ m < Limit
             \/ m <= Limit /\ \E v \in Workers : v \notin T
  <2>1. /\ \A v \in Workers : v # w => pc'[v] = pc[v] /\ request'[v] = request[v]
        /\ request'[w] = q
    BY <1>7 DEF Arrive, Identify, Answer, TypeOK
  <2>2. CASE pc'[w] # "checking"
    <3>1. T \subseteq S /\ w \notin T
      BY <2>1, <2>2 DEF InCheck
    <3>2. CASE bucket' = bucket
      BY <3>1, <3>2, <1>3
    <3>3. CASE Identify(w, q)
      <4>1. CASE Exceeded(q.ip) /\ Asked(q.ip)
        <5>1. m = Len(Prune(bucket[x])) \/ m = l
          BY <4>1 DEF Asked
        <5> QED
          BY <5>1, <1>6, <1>3, <3>1
      <4>2. CASE ~Exceeded(q.ip) /\ Recorded(q.ip)
        <5>1. CASE x = q.ip
          <6>1. Len(Prune(bucket[x])) < Limit
            BY <4>2, <5>1, <1>2, <1>6 DEF Exceeded
          <6>2. m = Len(Prune(bucket[x])) + 1
            BY <4>2, <5>1, <1>6 DEF Recorded
          <6> QED
            BY <6>1, <6>2, <1>2, <1>6, <3>1
        <5>2. CASE x # q.ip
          <6>1. m = l
            BY <4>2, <5>2 DEF Recorded
          <6> QED
            BY <6>1, <1>3, <3>1
        <5> QED
          BY <5>1, <5>2
      <4> QED
        BY <3>3, <2>2, <1>7, <4>1, <4>2, LimiterEffects DEF Identify, TypeOK, Arrive
    <3> QED
      BY <1>7, <3>2, <3>3 DEF Arrive
  <2>3. CASE pc'[w] = "checking"
    <3>1. ~Exceeded(q.ip) /\ Asked(q.ip)
      BY <1>7, <2>3, LimiterEffects DEF Arrive, Identify, Answer, TypeOK
    <3>2. CASE x = q.ip
      <4>1. Len(Prune(bucket[x])) < Limit
        BY <3>1, <3>2, <1>2, <1>6 DEF Exceeded
      <4>2. m = Len(Prune(bucket[x]))
        BY <3>1, <3>2 DEF Asked
      <4> QED
        BY <4>1, <4>2
    <3>3. CASE x # q.ip
      <4>1. m = l
        BY <3>1, <3>3 DEF Asked
      <4>2. T \subseteq S
        BY <2>1, <3>3 DEF InCheck
      <4> QED
        BY <4>1, <4>2, <1>3
    <3> QED
      BY <3>2, <3>3
  <2> QED
    BY <2>2, <2>3
<1>8. ASSUME NEW w \in Workers, Finish(w)
      PROVE  \/ m <= l /\ T \subseteq S
             \/ m < Limit
             \/ m <= l + 1 /\ T \subseteq S /\ \E v \in S : v \notin T
  <2>1. /\ pc'[w] = "answered" /\ request' = request
        /\ \A v \in Workers : v # w => pc'[v] = pc[v]
    BY <1>8 DEF Finish, Answer, TypeOK
  <2>2. T \subseteq S /\ w \notin T
    BY <2>1 DEF InCheck
  <2>3. Recorded(request[w].ip) \/ Cleared(request[w].ip)
    BY <1>8, LimiterEffects DEF Finish
  <2>4. CASE x # request[w].ip
    <3>1. m = l
      BY <2>3, <2>4 DEF Recorded, Cleared
    <3> QED
      BY <3>1, <2>2, <1>3
  <2>5. CASE x = request[w].ip /\ Cleared(request[w].ip)
    BY <2>5, <1>2 DEF Cleared
  <2>6. CASE x = request[w].ip /\ Recorded(request[w].ip)
    <3>1. m = Len(Prune(bucket[x])) + 1
      BY <2>6, <1>6 DEF Recorded
    <3>2. w \in S
      BY <1>8, <2>6 DEF Finish, InCheck
    <3> QED
      BY <3>1, <3>2, <2>2, <1>3, <1>6
  <2> QED
    BY <2>3, <2>4, <2>5, <2>6
<1>9. ASSUME NEW w \in Workers, Leave(w) PROVE m <= l /\ T \subseteq S
  <2>1. /\ pc'[w] = "idle" /\ bucket' = bucket
        /\ \A v \in Workers : v # w => pc'[v] = pc[v] /\ request'[v] = request[v]
    BY <1>9 DEF Leave, TypeOK
  <2> QED
    BY <2>1, <1>3 DEF InCheck
<1>10. CASE (\E p \in Policies : SavePolicy(p)) \/ Tick \/ UNCHANGED vars
  <2>1. bucket' = bucket /\ pc' = pc /\ request' = request
    BY <1>10 DEF SavePolicy, Tick, vars, requests
  <2> QED
    BY <2>1, <1>3 DEF InCheck
<1>11. ASSUME NEW e \in Environments, Restart(e) PROVE m < Limit
  BY <1>11, <1>2 DEF Restart
<1> QED
  BY <1>7, <1>8, <1>9, <1>10, <1>11 DEF Next

-----------------------------------------------------------------------------
(* The answers *)

\* What the middleware decides, and who may be let in.
LEMMA Decisions ==
  ASSUME NEW p, NEW q
  PROVE  /\ Forbidden(p, q) => ~Admits(p, q)
         /\ NeedsAccount(p, q) /\ q.account # p.account => ~Admits(p, q)
         /\ ~Forbidden(p, q) /\ (NeedsAccount(p, q) => q.account = p.account) => Admits(p, q)
BY DEF Forbidden, NeedsAccount, Admits, HostAllowed

\* The decisions depend on the environment, which is that of the process.
LEMMA SameDecisions ==
  ASSUME env' = env, NEW p, NEW q
  PROVE  /\ Forbidden(p, q)' <=> Forbidden(p, q)
         /\ Admits(p, q)' <=> Admits(p, q)
BY DEF Forbidden, Admits, HostAllowed, OriginMatches

\* One request's part of JudgeInv and of AnswersFollowPolicy.
Judged(v) ==
  /\ pc[v] # "answered" => answer[v] = "none"
  /\ pc[v] = "checking" => /\ snap[v] \in during[v]
                           /\ ~Forbidden(snap[v], request[v]) /\ NeedsAccount(snap[v], request[v])
                           /\ ~tooMany[v]
Answered(v) ==
  /\ answer[v] = "passed" =>
       \E p \in during[v] : /\ Admits(p, request[v])
                            /\ NeedsAccount(p, request[v]) => ~tooMany[v]
  /\ answer[v] \in {"forbidden", "unauthorized"} => \E p \in during[v] : ~Admits(p, request[v])
  /\ answer[v] = "locked" => tooMany[v] /\ \E p \in during[v] : NeedsAccount(p, request[v])

LEMMA JudgeNext ==
  ASSUME TypeOK, FailuresCounted, ClockInv, JudgeInv, AnswersFollowPolicy, [Next]_vars
  PROVE  JudgeInv' /\ AnswersFollowPolicy'
<1>1. \A v \in Workers : Judged(v) /\ Answered(v)
  BY DEF JudgeInv, AnswersFollowPolicy, Judged, Answered
<1> SUFFICES ASSUME NEW v \in Workers PROVE Judged(v)' /\ Answered(v)'
  BY DEF JudgeInv, AnswersFollowPolicy, Judged, Answered
<1> DEFINE Same == /\ env' = env
                   /\ pc'[v] = pc[v] /\ request'[v] = request[v] /\ snap'[v] = snap[v]
                   /\ answer'[v] = answer[v] /\ during'[v] = during[v] /\ tooMany'[v] = tooMany[v]
<1>2. ASSUME Same PROVE Judged(v)' /\ Answered(v)'
  BY <1>1, <1>2, SameDecisions DEF Judged, Answered, NeedsAccount
<1>3. ASSUME NEW w \in Workers, NEW q \in Requests, Arrive(w, q)
      PROVE  Judged(v)' /\ Answered(v)'
  <2>1. CASE v # w
    <3>1. Same
      BY <1>3, <2>1 DEF Arrive, Identify, Answer, TypeOK
    <3> QED
      BY <3>1, <1>2
  <2>2. CASE v = w
    <3>1. /\ env' = env /\ request'[v] = q /\ snap'[v] = policy /\ during'[v] = {policy}
          /\ tooMany'[v] <=> Exceeded(q.ip)
      BY <1>3, <2>2, LimiterIsExact DEF Arrive, TypeOK
    <3>2. policy.account # NoAccount
      BY DataAssumption, NothingAssumption DEF TypeOK, Policy
    <3>6. CASE Answer(w, "failed")
      <4>1. pc'[v] = "answered" /\ answer'[v] = "failed"
        BY <2>2, <3>6 DEF Answer, TypeOK
      <4> QED
        BY <4>1 DEF Judged, Answered
    <3>3. CASE ~Answer(w, "failed") /\ Forbidden(policy, q)
      <4>1. pc'[v] = "answered" /\ answer'[v] = "forbidden"
        BY <1>3, <2>2, <3>3 DEF Arrive, Answer, TypeOK
      <4> QED
        BY <4>1, <3>1, <3>3, Decisions, SameDecisions DEF Judged, Answered
    <3>4. CASE ~Answer(w, "failed") /\ ~Forbidden(policy, q) /\ ~NeedsAccount(policy, q)
      <4>1. pc'[v] = "answered" /\ answer'[v] = "passed"
        BY <1>3, <2>2, <3>4 DEF Arrive, Answer, TypeOK
      <4> QED
        BY <4>1, <3>1, <3>4, Decisions, SameDecisions DEF Judged, Answered, NeedsAccount
    <3>5. CASE ~Answer(w, "failed") /\ ~Forbidden(policy, q) /\ NeedsAccount(policy, q)
      <4>1. Identify(v, q)
        BY <1>3, <2>2, <3>5 DEF Arrive
      <4>2. CASE Exceeded(q.ip) /\ Answer(v, "locked")
        <5>1. pc'[v] = "answered" /\ answer'[v] = "locked"
          BY <4>2 DEF Answer, TypeOK
        <5> QED
          BY <5>1, <3>1, <3>5, <4>2 DEF Judged, Answered, NeedsAccount
      <4>3. CASE q.account = NoAccount /\ Answer(v, "unauthorized")
        <5>1. pc'[v] = "answered" /\ answer'[v] = "unauthorized"
          BY <4>3 DEF Answer, TypeOK
        <5> QED
          BY <5>1, <3>1, <3>2, <3>5, <4>3, Decisions, SameDecisions DEF Judged, Answered
      <4>4. CASE ~Exceeded(q.ip) /\ pc'[v] = "checking" /\ answer' = answer
        <5>1. answer[v] = "none"
          BY <1>1, <1>3, <2>2 DEF Judged, Arrive
        <5> QED
          BY <5>1, <3>1, <3>5, <4>4, SameDecisions DEF Judged, Answered, NeedsAccount
      <4> QED
        BY <4>1, <4>2, <4>3, <4>4 DEF Identify, TypeOK
    <3> QED
      BY <3>3, <3>4, <3>5, <3>6
  <2> QED
    BY <2>1, <2>2
<1>4. ASSUME NEW w \in Workers, Finish(w) PROVE Judged(v)' /\ Answered(v)'
  <2>1. CASE v # w
    <3>1. Same
      BY <1>4, <2>1 DEF Finish, Answer, TypeOK
    <3> QED
      BY <3>1, <1>2
  <2>2. CASE v = w
    <3>1. /\ env' = env /\ request' = request /\ during' = during /\ tooMany' = tooMany
          /\ pc'[v] = "answered"
          /\ answer'[v] = IF request[v].account = snap[v].account THEN "passed" ELSE "unauthorized"
      BY <1>4, <2>2 DEF Finish, Answer, TypeOK
    <3>2. /\ snap[v] \in during[v] /\ ~tooMany[v]
          /\ ~Forbidden(snap[v], request[v]) /\ NeedsAccount(snap[v], request[v])
      BY <1>1, <1>4, <2>2 DEF Judged, Finish
    <3>3. Admits(snap[v], request[v]) <=> request[v].account = snap[v].account
      BY <3>2, Decisions
    <3> QED
      BY <3>1, <3>2, <3>3, SameDecisions DEF Judged, Answered
  <2> QED
    BY <2>1, <2>2
<1>5. ASSUME NEW w \in Workers, Leave(w) PROVE Judged(v)' /\ Answered(v)'
  <2>1. CASE v # w
    <3>1. Same
      BY <1>5, <2>1 DEF Leave, TypeOK
    <3> QED
      BY <3>1, <1>2
  <2>2. CASE v = w
    <3>1. pc'[v] = "idle" /\ answer'[v] = "none"
      BY <1>5, <2>2 DEF Leave, TypeOK
    <3> QED
      BY <3>1 DEF Judged, Answered
  <2> QED
    BY <2>1, <2>2
<1>6. ASSUME NEW p \in Policies, SavePolicy(p) PROVE Judged(v)' /\ Answered(v)'
  <2>1. CASE pc[v] # "checking"
    <3>1. Same
      BY <1>6, <2>1 DEF SavePolicy, requests
    <3> QED
      BY <3>1, <1>2
  <2>2. CASE pc[v] = "checking"
    <3>1. /\ env' = env /\ request' = request /\ snap' = snap /\ answer' = answer
          /\ pc' = pc /\ tooMany' = tooMany
          /\ during'[v] = during[v] \cup {p}
      BY <1>6, <2>2 DEF SavePolicy, requests
    <3>2. Judged(v)
      BY <1>1
    <3>3. answer'[v] = "none"
      BY <3>1, <3>2, <2>2 DEF Judged
    <3> QED
      BY <3>1, <3>2, <3>3, <2>2, SameDecisions DEF Judged, Answered, NeedsAccount
  <2> QED
    BY <2>1, <2>2
<1>7. ASSUME Tick \/ UNCHANGED vars PROVE Judged(v)' /\ Answered(v)'
  <2>1. Same
    BY <1>7 DEF Tick, vars, requests
  <2> QED
    BY <2>1, <1>2
<1>8. ASSUME NEW e \in Environments, Restart(e) PROVE Judged(v)' /\ Answered(v)'
  <2>1. pc'[v] = "idle" /\ answer'[v] = "none"
    BY <1>8 DEF Restart
  <2> QED
    BY <2>1 DEF Judged, Answered
<1> QED
  BY <1>3, <1>4, <1>5, <1>6, <1>7, <1>8 DEF Next

-----------------------------------------------------------------------------
(* The theorems *)

LEMMA AccessInit == Init => AccessInv
<1> SUFFICES ASSUME Init PROVE AccessInv
  OBVIOUS
<1>1. <<>> \in Seq(Nat) /\ Len(<<>>) = 0 /\ <<>> = SubSeq(<<>>, 1, 0)
  BY SubSeqEmpty
<1>2. TypeOK
  BY <1>1 DEF Init, TypeOK, Points, Answers
<1>3. FailuresCounted /\ ClockInv
  BY <1>1 DEF Init, FailuresCounted, ClockInv
<1>4. OverrunBounded
  <2> SUFFICES ASSUME NEW x \in Ips
               PROVE  Len(bucket[x]) + Cardinality(InCheck(x)) < Limit + Cardinality(Workers)
    BY DEF OverrunBounded
  <2>1. InCheck(x) = {} /\ Len(bucket[x]) = 0
    BY <1>1 DEF Init, InCheck
  <2>2. /\ Cardinality({}) = 0 /\ Cardinality(Workers) \in Nat /\ Limit \in Nat /\ Limit > 0
    BY BoundAssumption, FS_CardinalityType, FS_EmptySet
  <2> QED
    BY <2>1, <2>2
<1>5. JudgeInv /\ AnswersFollowPolicy
  BY DEF Init, JudgeInv, AnswersFollowPolicy
<1> QED
  BY <1>2, <1>3, <1>4, <1>5 DEF AccessInv

LEMMA AccessStep == AccessInv /\ [Next]_vars => AccessInv'
<1> SUFFICES ASSUME AccessInv, [Next]_vars PROVE AccessInv'
  OBVIOUS
<1>1. TypeOK /\ FailuresCounted /\ ClockInv /\ OverrunBounded /\ JudgeInv /\ AnswersFollowPolicy
  BY DEF AccessInv
<1>2. TypeOK'
  BY <1>1, TypeNext
<1>3. FailuresCounted' /\ ClockInv'
  BY <1>1, CountNext
<1>4. OverrunBounded'
  BY <1>1, OverrunNext
<1>5. JudgeInv' /\ AnswersFollowPolicy'
  BY <1>1, JudgeNext
<1> QED
  BY <1>2, <1>3, <1>4, <1>5 DEF AccessInv

\* Requests carry only the fields their places promise, however their checks,
\* the saves and the restarts are interleaved.
THEOREM AccessTypes == Spec => []TypeOK
<1>1. AccessInv => TypeOK
  BY DEF AccessInv
<1> QED
  BY <1>1, AccessInit, AccessStep, PTL DEF Spec

\* AccessControlMiddleware: every answer follows from a policy there was while
\* the request was handled, and the limiter locks out exactly those addresses
\* that have the limit of failures in the window.
THEOREM AnswersAreRight == Spec => []AnswersFollowPolicy
<1>1. AccessInv => AnswersFollowPolicy
  BY DEF AccessInv
<1> QED
  BY <1>1, AccessInit, AccessStep, PTL DEF Spec

\* _prune_failures and _record_auth_failure: pruning on demand, by checks that
\* end in any order, loses no failure that counts.
THEOREM NoFailureLost == Spec => []FailuresCounted
<1>1. AccessInv => FailuresCounted
  BY DEF AccessInv
<1> QED
  BY <1>1, AccessInit, AccessStep, PTL DEF Spec

\* The limit is asked before the check and booked after it; the requests in
\* between are all that may go over it.
THEOREM OverrunIsBounded == Spec => []OverrunBounded
<1>1. AccessInv => OverrunBounded
  BY DEF AccessInv
<1> QED
  BY <1>1, AccessInit, AccessStep, PTL DEF Spec

=============================================================================
