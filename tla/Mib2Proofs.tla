----------------------------- MODULE Mib2Proofs -----------------------------
(***************************************************************************)
(* Proofs about Mib2, for any strings, sizes, requests and interfaces.     *)
(***************************************************************************)
EXTENDS Mib2, SequenceTheorems, WellFoundedInduction, TLAPS

StateInv ==
  /\ pc \in {"init", "configured", "refused", "idle", "cell", "test", "set"}
  /\ callbacks \in BOOLEAN
  /\ pc \notin {"init", "refused"} => callbacks
  /\ valueSize \in ValueSizes
  /\ netifs \in Seq(Index)
  /\ text = [n \in Text |-> text[n]]
  /\ \A n \in Text :
       Nul \notin Range(text[n]) /\ Len(text[n]) \in Nat /\ Len(text[n]) < StringSize
  /\ admin \in [Range(netifs) -> Admin]
  /\ kept = [n \in Settable \cup {ifAdminStatus(i) : i \in Range(netifs)} |-> kept[n]]
  /\ done \in 0 .. Len(request)
  /\ cell \in Range(netifs) \cup {0}
  /\ answer.status \in {"none", "value", "noSuchInstance", "noError", "wrongValue", "undoFailed"}

\* A variable of a request that the server has accepted.
Received(v) ==
  IF v.name \in Settable THEN Len(v.value) <= valueSize ELSE v.name[2] \in Range(netifs)

\* What has been tested is acceptable, and all of it once anything is set.
SetInv ==
  pc \in {"test", "set"} =>
    /\ request \in Requests
    /\ answer = NoAnswer
    /\ \A i \in 1 .. Len(request) : Received(request[i])
    /\ \A i \in 1 .. Len(request) : pc = "set" \/ i <= done => Acceptable(request[i])
    /\ written = IF pc = "test" THEN <<>> ELSE SubSeq(request, 1, done)

\* What a manager has set and nobody has changed is stored, and fits.
KeptInv ==
  /\ \A n \in Settable : kept[n] # None /\ Nul \notin Range(kept[n]) =>
       text[n] = kept[n] /\ Len(kept[n]) <= valueSize
  /\ \A i \in Range(netifs) : kept[ifAdminStatus(i)] # None =>
       admin[i] = kept[ifAdminStatus(i)]

\* An answer is what the variable was, and still is; or it did not fit.
GetInv ==
  /\ pc = "cell" =>
       answer = NoAnswer /\ request[1].op # "set" /\ request[1].column \in Column
  /\ answer.status = "value" /\ answer.name \in Text =>
       answer.value = mib2_system_get_value(answer.name)
  /\ \A i \in Range(netifs) :
       answer.status = "value" /\ answer.name = ifAdminStatus(i) => answer.value = admin[i]

IInv == StateInv /\ SetInv /\ KeptInv /\ GetInv /\ SetReported /\ NearestInterface

-----------------------------------------------------------------------------
(* Numbers and the list of interfaces.                                     *)

\* Every set of numbers has a least one: what there is to induction here.
LEMMA Least ==
  ASSUME NEW S \in SUBSET Nat, S # {}
  PROVE  \E m \in S : \A n \in S : m <= n
<1> DEFINE R == OpToRel(<, Nat)
<1>1. IsWellFoundedOn(R, Nat)
  BY NatLessThanWellFounded
<1>2. \E m \in S : \A n \in S : ~ (<<n, m>> \in R)
  <2> HIDE DEF R
  <2> QED BY <1>1, WFMin
<1>3. PICK m \in S : \A n \in S : ~ (<<n, m>> \in R)
  BY <1>2
<1>4. ASSUME NEW n \in S PROVE ~ (n < m)
  BY <1>3 DEF OpToRel
<1>5. \A n \in S : m <= n
  <2> HIDE DEF R
  <2> QED BY <1>4
<1> HIDE DEF R
<1> QED BY <1>5

\* b[n] is the best of the first n interfaces of a list s.
Scan(b, s, i) ==
  [n \in 0 .. Len(s) |->
     IF n = 0 THEN 0 ELSE IF Better(s[n], b[n - 1], i) THEN s[n] ELSE b[n - 1]]

\* So far as the first m of the list
ScanTo(b, s, i, m) ==
  /\ b \in [0 .. m -> Nat]
  /\ \A n \in 0 .. m :
       b[n] = IF n = 0 THEN 0 ELSE IF Better(s[n], b[n - 1], i) THEN s[n] ELSE b[n - 1]

LEMMA ScanExists ==
  ASSUME NEW s \in Seq(Nat), NEW i \in Nat
  PROVE  \E b \in [0 .. Len(s) -> Nat] : b = Scan(b, s, i)
<1>1. ASSUME NEW m \in 0 .. Len(s) PROVE \E b : ScanTo(b, s, i, m)
  <2> DEFINE Failing == {n \in 0 .. Len(s) : ~ \E b : ScanTo(b, s, i, n)}
  <2> SUFFICES ASSUME Failing # {} PROVE FALSE
    OBVIOUS
  <2>1. PICK n \in Failing : \A k \in Failing : n <= k
    <3>1. Failing \in SUBSET Nat
      OBVIOUS
    <3> HIDE DEF Failing
    <3> QED BY <3>1, Least
  <2>2. n # 0
    <3>1. ScanTo([k \in 0 .. 0 |-> 0], s, i, 0)
      BY DEF ScanTo
    <3> QED BY <3>1
  <2>3. PICK b : ScanTo(b, s, i, n - 1)
    BY <2>1, <2>2
  <2> DEFINE v == IF Better(s[n], b[n - 1], i) THEN s[n] ELSE b[n - 1]
             c == [k \in 0 .. n |-> IF k = n THEN v ELSE b[k]]
  <2>4. v \in Nat
    BY <2>2, <2>3 DEF ScanTo
  <2>5. ScanTo(c, s, i, n)
    <3>1. c \in [0 .. n -> Nat]
      BY <2>3, <2>4 DEF ScanTo
    <3>2. ASSUME NEW k \in 0 .. n
          PROVE  c[k] = IF k = 0 THEN 0 ELSE IF Better(s[k], c[k - 1], i) THEN s[k] ELSE c[k - 1]
      <4>1. CASE k = n
        BY <4>1, <2>2
      <4>2. CASE k # n
        <5>1. k \in 0 .. n - 1 /\ c[k] = b[k]
          BY <4>2
        <5>2. k # 0 => k - 1 \in 0 .. n /\ k - 1 # n
          BY <5>1
        <5>3. k # 0 => c[k - 1] = b[k - 1]
          BY <5>2
        <5>4. b[k] = IF k = 0 THEN 0 ELSE IF Better(s[k], b[k - 1], i) THEN s[k] ELSE b[k - 1]
          BY <5>1, <2>3 DEF ScanTo
        <5> HIDE DEF c
        <5> QED
          BY <5>1, <5>3, <5>4
      <4> QED BY <4>1, <4>2
    <3> QED BY <3>1, <3>2 DEF ScanTo
  <2> QED BY <2>5
<1>2. PICK b : ScanTo(b, s, i, Len(s))
  BY <1>1
<1>3. b = Scan(b, s, i)
  BY <1>2 DEF ScanTo, Scan
<1> QED BY <1>2, <1>3 DEF ScanTo

\* x is the least of S above i, or 0 when there is none.
Nearest(x, S, i) ==
  /\ x = 0 \/ (x \in S /\ x > i)
  /\ \A y \in S : y > i => x # 0 /\ x <= y

LEMMA BetterIsNearest ==
  ASSUME NEW i \in Nat, NEW S \in SUBSET Nat, NEW x \in Nat, NEW n \in Nat, Nearest(x, S, i)
  PROVE  Nearest(IF Better(n, x, i) THEN n ELSE x, S \cup {n}, i)
<1>1. CASE Better(n, x, i)
  <2>1. n > i /\ n # 0 /\ (x = 0 \/ n < x)
    BY <1>1 DEF Better
  <2>2. ASSUME NEW y \in S, y > i PROVE n <= y
    BY <2>1, <2>2 DEF Nearest
  <2>3. Nearest(n, S \cup {n}, i)
    BY <2>1, <2>2 DEF Nearest
  <2> QED
    BY <1>1, <2>3
<1>2. CASE ~ Better(n, x, i)
  <2>1. n > i => x # 0 /\ x <= n
    BY <1>2 DEF Better
  <2>2. Nearest(x, S \cup {n}, i)
    BY <2>1 DEF Nearest
  <2> QED
    BY <1>2, <2>2
<1> QED
  BY <1>1, <1>2

LEMMA ScanIsNearest ==
  ASSUME NEW s \in Seq(Nat), NEW i \in Nat, NEW b, b = Scan(b, s, i), NEW m \in 0 .. Len(s)
  PROVE  Nearest(b[m], {s[k] : k \in 1 .. m}, i)
<1> DEFINE Good(n) == b[n] \in Nat /\ Nearest(b[n], {s[k] : k \in 1 .. n}, i)
           Failing == {n \in 0 .. Len(s) : ~ Good(n)}
<1> SUFFICES ASSUME Failing # {} PROVE FALSE
  OBVIOUS
<1>1. PICK n \in Failing : \A k \in Failing : n <= k
  <2>1. Failing \in SUBSET Nat
    OBVIOUS
  <2> HIDE DEF Failing
  <2> QED BY <2>1, Least
<1>2. n \in 0 .. Len(s) /\ Len(s) \in Nat /\ ~ Good(n)
  OBVIOUS
<1>3. b[0] = 0
  BY <1>2 DEF Scan
<1>4. Good(0)
  BY <1>3 DEF Nearest
<1>5. n \in 1 .. Len(s) /\ n - 1 \in 0 .. Len(s) /\ n \in Nat
  <2> HIDE DEF Good
  <2> QED BY <1>2, <1>4
<1>6. Good(n - 1)
  <2>1. n - 1 \notin Failing
    <3> HIDE DEF Failing
    <3> QED BY <1>1, <1>5
  <2> HIDE DEF Good
  <2> QED BY <1>5, <2>1
<1>7. b[n] = IF Better(s[n], b[n - 1], i) THEN s[n] ELSE b[n - 1]
  <2>1. n \in 0 .. Len(s) /\ n # 0
    BY <1>5
  <2>2. Scan(b, s, i)[n] = IF Better(s[n], b[n - 1], i) THEN s[n] ELSE b[n - 1]
    BY <2>1 DEF Scan
  <2> QED
    BY <2>2
<1>8. \A k \in 1 .. n : s[k] \in Nat
  BY <1>5
<1>9. {s[k] : k \in 1 .. n} = {s[k] : k \in 1 .. n - 1} \cup {s[n]}
  BY <1>5
<1>10. {s[k] : k \in 1 .. n - 1} \in SUBSET Nat /\ s[n] \in Nat
  BY <1>5, <1>8
<1>11. Nearest(b[n], {s[k] : k \in 1 .. n}, i)
  <2> DEFINE S == {s[k] : k \in 1 .. n - 1}
  <2>1. S \in SUBSET Nat /\ b[n - 1] \in Nat /\ s[n] \in Nat /\ Nearest(b[n - 1], S, i)
    BY <1>6, <1>10
  <2>2. {s[k] : k \in 1 .. n} = S \cup {s[n]}
    BY <1>9
  <2> HIDE DEF S
  <2>3. Nearest(b[n], S \cup {s[n]}, i)
    BY <2>1, <1>7, BetterIsNearest
  <2> QED
    BY <2>2, <2>3
<1>12. Good(n)
  BY <1>6, <1>7, <1>10, <1>11
<1> QED
  BY <1>2, <1>12

LEMMA NextIndexScans ==
  ASSUME netifs \in Seq(Nat), NEW i \in Nat
  PROVE  \E b : b = Scan(b, netifs, i) /\ NextIndex(i) = b[Len(netifs)]
<1> DEFINE best == CHOOSE b : b = Scan(b, netifs, i)
<1>1. best = Scan(best, netifs, i)
  BY ScanExists
<1>2. NextIndex(i) = best[Len(netifs)]
  BY DEF NextIndex, Scan
<1> QED BY <1>1, <1>2

\* The next index is one of the list, above the given one, and the least.
LEMMA NextIndexIsNearest ==
  ASSUME netifs \in Seq(Index), NEW i \in Nat
  PROVE  /\ NextIndex(i) \in Range(netifs) \cup {0}
         /\ LET later == {k \in Range(netifs) : k > i} IN
              IF later = {} THEN NextIndex(i) = 0
              ELSE NextIndex(i) \in later /\ \A k \in later : NextIndex(i) <= k
<1>1. netifs \in Seq(Nat) /\ 0 \notin Index
  <2>1. Index \subseteq Nat /\ 0 \notin Index
    BY Mib2Assumption
  <2> QED
    BY <2>1, SeqMonotonic
<1>2. PICK b : b = Scan(b, netifs, i) /\ NextIndex(i) = b[Len(netifs)]
  BY <1>1, NextIndexScans
<1>3. Len(netifs) \in 0 .. Len(netifs)
  BY <1>1
<1>4. Nearest(NextIndex(i), {netifs[k] : k \in 1 .. Len(netifs)}, i)
  BY <1>1, <1>2, <1>3, ScanIsNearest
<1>5. Range(netifs) = {netifs[k] : k \in 1 .. Len(netifs)}
  BY <1>1 DEF Range
<1>6. Range(netifs) \subseteq Nat /\ 0 \notin Range(netifs)
  BY <1>1 DEF Range
<1>7. Nearest(NextIndex(i), Range(netifs), i)
  BY <1>4, <1>5
<1> QED
  BY <1>6, <1>7 DEF Nearest

-----------------------------------------------------------------------------
(* Strings and names.                                                      *)

\* A string ends before the first terminator.
LEMMA CStringFacts ==
  ASSUME NEW o \in Octets
  PROVE  Nul \notin Range(CString(o)) /\ Len(CString(o)) \in Nat /\ Len(CString(o)) <= Len(o)
<1>1. o \in Seq(Range(o)) /\ Len(o) \in Nat /\ DOMAIN o = 1 .. Len(o)
  BY Mib2Assumption
<1>2. CASE Nul \notin Range(o)
  BY <1>1, <1>2 DEF CString
<1>3. CASE Nul \in Range(o)
  <2> DEFINE Ends(i) == o[i] = Nul /\ Nul \notin Range(SubSeq(o, 1, i - 1))
             e == CHOOSE i \in DOMAIN o : Ends(i)
  <2>1. ASSUME NEW i \in DOMAIN o
        PROVE  /\ SubSeq(o, 1, i - 1) \in Seq(Range(o))
               /\ Len(SubSeq(o, 1, i - 1)) = i - 1
               /\ \A k \in 1 .. i - 1 : SubSeq(o, 1, i - 1)[k] = o[k]
    BY <1>1
  <2>2. \E i \in DOMAIN o : Ends(i)
    <3> DEFINE N == {i \in DOMAIN o : o[i] = Nul}
    <3>1. N \in SUBSET Nat /\ N # {}
      BY <1>1, <1>3 DEF Range
    <3>2. PICK m \in N : \A n \in N : m <= n
      <4> HIDE DEF N
      <4> QED BY <3>1, Least
    <3>3. \A k \in 1 .. m - 1 : o[k] # Nul
      BY <1>1, <3>2
    <3>4. Nul \notin Range(SubSeq(o, 1, m - 1))
      <4>1. m - 1 \in Nat /\ m \in DOMAIN o
        BY <1>1, <3>2
      <4>2. /\ DOMAIN SubSeq(o, 1, m - 1) = 1 .. m - 1
            /\ \A k \in 1 .. m - 1 : SubSeq(o, 1, m - 1)[k] = o[k]
        BY <2>1, <4>1
      <4> QED
        BY <3>3, <4>2 DEF Range
    <3> QED
      BY <3>2, <3>4
  <2>3. e \in DOMAIN o /\ Ends(e)
    BY <2>2
  <2>4. CString(o) = SubSeq(o, 1, e - 1)
    BY <1>3 DEF CString
  <2> HIDE DEF e
  <2> QED
    BY <1>1, <2>1, <2>3, <2>4
<1> QED
  BY <1>2, <1>3

LEMMA Names ==
  /\ Settable \subseteq Text /\ Text \cap Fixed = {}
  /\ \A i : ifAdminStatus(i) \notin Name /\ ifAdminStatus(i) \notin Text
            /\ ifAdminStatus(i) \notin Settable
  /\ \A i, j : ifAdminStatus(i) = ifAdminStatus(j) => i = j
  /\ \A c \in Column : \A i : <<c, i>> \notin Text
  /\ \A c \in Column : \A i, j :
       <<c, i>> = ifAdminStatus(j) => c = "ifAdminStatus" /\ i = j
  /\ <<"ifNumber", 0>> \notin Text /\ \A i : <<"ifNumber", 0>> # ifAdminStatus(i)
BY DEF Settable, Text, Fixed, Name, Column, ifAdminStatus, sysContact, sysName, sysLocation, sysDescr

\* What a set request may contain
LEMMA Variables ==
  ASSUME NEW r \in Requests, NEW i \in 1 .. Len(r)
  PROVE  /\ r[i].name \in Settable => r[i].value \in Octets
         /\ r[i].name \notin Settable =>
              r[i].name = ifAdminStatus(r[i].name[2]) /\ r[i].value \in Admin \cup {Testing}
<1>1. r[i] \in Varbind
  BY RequestsAssumption
<1> QED
  BY <1>1, Names DEF Varbind, ifAdminStatus

-----------------------------------------------------------------------------
(* The inductive invariant.                                                *)

LEMMA InitInv == Init => IInv
<1> SUFFICES ASSUME Init PROVE IInv
  OBVIOUS
<1>1. netifs \in Seq(Index)
  BY DEF Init, Orders, BoundedSeq, SeqOf
<1>2. StateInv
  <2>1. \A n \in Text : text[n] \in Texts
    BY DEF Init
  <2>2. \A n \in Text :
          Nul \notin Range(text[n]) /\ Len(text[n]) \in Nat /\ Len(text[n]) < StringSize
    BY <2>1, Mib2Assumption
  <2>3. text = [n \in Text |-> text[n]] /\ admin \in [Range(netifs) -> Admin]
    BY DEF Init, Admin
  <2>4. kept = [n \in Settable \cup {ifAdminStatus(i) : i \in Range(netifs)} |-> kept[n]]
    BY DEF Init
  <2>5. /\ pc = "init" /\ callbacks = FALSE /\ valueSize \in ValueSizes
        /\ done \in 0 .. Len(request) /\ cell = 0 /\ answer.status = "none"
    BY DEF Init, NoAnswer
  <2> QED
    BY <1>1, <2>2, <2>3, <2>4, <2>5 DEF StateInv
<1>3. SetInv /\ GetInv /\ SetReported /\ NearestInterface
  BY DEF Init, SetInv, GetInv, SetReported, NearestInterface, NoAnswer
<1>4. KeptInv
  BY DEF Init, KeptInv
<1> QED
  BY <1>2, <1>3, <1>4 DEF IInv

LEMMA StartStep ==
  ASSUME IInv, Configure \/ Refuse \/ Start
  PROVE  IInv'
<1>1. /\ pc \in {"init", "configured"} /\ pc' \in {"configured", "refused", "idle"}
      /\ callbacks' \in BOOLEAN /\ (pc' \notin {"init", "refused"} => callbacks')
      /\ UNCHANGED <<valueSize, netifs, stackVars, request, done, cell, answer, written>>
  BY DEF Configure, Refuse, Start, IInv, StateInv
<1> USE <1>1 DEF stackVars
<1>2. StateInv'
  BY DEF IInv, StateInv
<1>3. SetInv' /\ SetReported' /\ NearestInterface'
  BY DEF IInv, SetInv, SetReported, NearestInterface
<1>4. KeptInv'
  BY DEF IInv, KeptInv
<1>5. GetInv'
  BY DEF IInv, GetInv, mib2_system_get_value, ReadText, ReadFixed, Fits
<1> QED
  BY <1>2, <1>3, <1>4, <1>5 DEF IInv

LEMMA GetSystemStep ==
  ASSUME IInv, NEW n \in Name, GetSystem(n)
  PROVE  IInv'
<1>1. /\ pc = "idle" /\ pc' = "idle" /\ request' = <<>> /\ done' = 0 /\ cell' = 0 /\ written' = <<>>
      /\ UNCHANGED <<stackVars, callbacks, valueSize, netifs>>
  BY DEF GetSystem
<1>2. /\ answer'.op = "get" /\ answer'.name = n /\ answer'.status = "value"
      /\ answer'.value = mib2_system_get_value(n)
  BY <1>1 DEF GetSystem, Reply, IInv, StateInv
<1> USE <1>1, <1>2 DEF stackVars
<1>3. StateInv'
  BY DEF IInv, StateInv
<1>4. SetInv' /\ SetReported' /\ NearestInterface'
  BY DEF SetInv, SetReported, NearestInterface
<1>5. KeptInv'
  BY DEF IInv, KeptInv
<1>6. GetInv'
  BY Names DEF GetInv, mib2_system_get_value, ReadText, ReadFixed, Fits
<1> QED
  BY <1>3, <1>4, <1>5, <1>6 DEF IInv

LEMMA GetNumberStep ==
  ASSUME IInv, GetNumber
  PROVE  IInv'
<1>1. /\ pc = "idle" /\ pc' = "idle" /\ request' = <<>> /\ done' = 0 /\ cell' = 0 /\ written' = <<>>
      /\ UNCHANGED <<stackVars, callbacks, valueSize, netifs>>
  BY DEF GetNumber
<1>2. /\ answer'.op = "get" /\ answer'.name = <<"ifNumber", 0>> /\ answer'.status = "value"
  BY DEF GetNumber, Reply
<1> USE <1>1, <1>2 DEF stackVars
<1>3. StateInv'
  BY DEF IInv, StateInv
<1>4. SetInv' /\ SetReported' /\ NearestInterface'
  BY DEF SetInv, SetReported, NearestInterface
<1>5. KeptInv'
  BY DEF IInv, KeptInv
<1>6. GetInv'
  BY Names DEF GetInv
<1> QED
  BY <1>3, <1>4, <1>5, <1>6 DEF IInv

LEMMA FindCellStep ==
  ASSUME IInv, NEW op \in {"get", "next"}, NEW c \in Column, NEW i \in Index \cup {0},
         FindCell(op, c, i)
  PROVE  IInv'
<1>1. /\ pc = "idle" /\ pc' = "cell" /\ done' = 0 /\ written' = <<>> /\ answer' = NoAnswer
      /\ request' = <<[op |-> op, column |-> c, index |-> i]>>
      /\ cell' = IF op = "next" THEN NextIndex(i) ELSE IF i \in Range(netifs) THEN i ELSE 0
      /\ UNCHANGED <<stackVars, callbacks, valueSize, netifs>>
  BY DEF FindCell
<1>2. i \in Nat /\ netifs \in Seq(Index)
  <2>1. Index \subseteq Nat
    BY Mib2Assumption
  <2> QED
    BY <2>1 DEF IInv, StateInv
<1>3. /\ request'[1].op = op /\ request'[1].column = c /\ request'[1].index = i
      /\ done' \in 0 .. Len(request')
  BY <1>1
<1>4. cell' \in Range(netifs) \cup {0}
  BY <1>1, <1>2, NextIndexIsNearest
<1> USE DEF stackVars
<1>5. StateInv'
  BY <1>1, <1>3, <1>4 DEF IInv, StateInv, NoAnswer
<1>6. NearestInterface'
  BY <1>1, <1>2, <1>3, NextIndexIsNearest DEF NearestInterface
<1>7. SetInv' /\ SetReported'
  BY <1>1 DEF SetInv, SetReported, NoAnswer
<1>8. KeptInv'
  BY <1>1 DEF IInv, KeptInv
<1>9. GetInv'
  BY <1>1, <1>3 DEF GetInv, NoAnswer
<1> QED
  BY <1>5, <1>6, <1>7, <1>8, <1>9 DEF IInv

LEMMA ReadCellStep ==
  ASSUME IInv, ReadCell
  PROVE  IInv'
<1>1. /\ pc = "cell" /\ pc' = "idle"
      /\ UNCHANGED <<stackVars, request, done, cell, written, callbacks, valueSize, netifs>>
  BY DEF ReadCell
<1> DEFINE asked == request[1]
<1>2. /\ cell = 0 => answer'.status = "noSuchInstance"
      /\ cell # 0 => /\ answer'.status = "value" /\ answer'.name = <<asked.column, cell>>
                     /\ answer'.value = InterfaceValue(asked.column, cell)
      /\ answer'.op = asked.op
  BY DEF ReadCell, Reply
<1>3. asked.column \in Column
  BY <1>1 DEF IInv, GetInv
<1> HIDE DEF asked
<1> USE DEF stackVars
<1>4. StateInv'
  BY <1>1, <1>2 DEF IInv, StateInv
<1>5. SetInv' /\ NearestInterface'
  BY <1>1 DEF SetInv, NearestInterface
<1>6. KeptInv'
  BY <1>1 DEF IInv, KeptInv
<1>7. GetInv'
  BY <1>1, <1>2, <1>3, Names DEF GetInv, InterfaceValue
<1>8. SetReported'
  BY <1>1, <1>2 DEF IInv, GetInv, SetReported, asked
<1> QED
  BY <1>4, <1>5, <1>6, <1>7, <1>8 DEF IInv

LEMMA SetRequestStep ==
  ASSUME IInv, NEW r \in Requests, SetRequest(r)
  PROVE  IInv'
<1>1. /\ pc = "idle" /\ pc' = "test" /\ done' = 0 /\ cell' = 0 /\ written' = <<>>
      /\ answer' = NoAnswer /\ request' = r
      /\ UNCHANGED <<stackVars, callbacks, valueSize, netifs>>
      /\ \A v \in Range(r) : Received(v)
  BY DEF SetRequest, Received
<1>2. r \in Seq(Varbind) /\ Len(r) \in Nat
  BY RequestsAssumption
<1> USE DEF stackVars
<1>3. StateInv'
  BY <1>1, <1>2 DEF IInv, StateInv, NoAnswer
<1>4. SetInv'
  <2>1. \A i \in 1 .. Len(r) : Received(r[i])
    BY <1>1, <1>2 DEF Range
  <2>2. \A i \in 1 .. Len(r) : Received(r[i])'
    BY <1>1, <2>1 DEF Received
  <2> QED
    BY <1>1, <1>2, <2>2 DEF SetInv
<1>5. KeptInv'
  BY <1>1 DEF IInv, KeptInv
<1>6. GetInv' /\ SetReported' /\ NearestInterface'
  BY <1>1 DEF GetInv, SetReported, NearestInterface, NoAnswer
<1> QED
  BY <1>3, <1>4, <1>5, <1>6 DEF IInv

\* What is known of the variable at hand
LEMMA AtHand ==
  ASSUME IInv, pc \in {"test", "set"}
  PROVE  /\ request \in Requests /\ request \in Seq(Varbind) /\ Len(request) \in Nat
         /\ done \in 0 .. Len(request) /\ answer = NoAnswer
         /\ \A i \in 1 .. Len(request) : Received(request[i])
         /\ \A i \in 1 .. Len(request) : pc = "set" \/ i <= done => Acceptable(request[i])
         /\ written = IF pc = "test" THEN <<>> ELSE SubSeq(request, 1, done)
         /\ IsPrefix(written, request)
         /\ done < Len(request) => done + 1 \in 1 .. Len(request) /\ written # request
         /\ done = Len(request) /\ pc = "set" => written = request
<1>1. /\ request \in Requests /\ answer = NoAnswer /\ done \in 0 .. Len(request)
      /\ \A i \in 1 .. Len(request) : Received(request[i])
      /\ \A i \in 1 .. Len(request) : pc = "set" \/ i <= done => Acceptable(request[i])
      /\ written = IF pc = "test" THEN <<>> ELSE SubSeq(request, 1, done)
  BY DEF IInv, StateInv, SetInv
<1>2. request \in Seq(Varbind) /\ Len(request) \in Nat
  BY <1>1, RequestsAssumption
<1>3. /\ SubSeq(request, 1, done) \in Seq(Varbind) /\ Len(SubSeq(request, 1, done)) = done
      /\ \A i \in 1 .. done : SubSeq(request, 1, done)[i] = request[i]
  BY <1>1, <1>2
<1>4. written \in Seq(Varbind) /\ Len(written) <= done /\ Len(written) \in Nat
  BY <1>1, <1>3
<1>5. IsPrefix(written, request)
  <2>1. CASE pc = "test"
    BY <1>1, <1>2, <2>1 DEF IsPrefix
  <2>2. CASE pc # "test"
    BY <1>1, <1>2, <1>3, <2>2 DEF IsPrefix
  <2> QED
    BY <2>1, <2>2
<1>6. done < Len(request) => done + 1 \in 1 .. Len(request) /\ written # request
  BY <1>1, <1>2, <1>4
<1>7. done = Len(request) /\ pc = "set" => written = request
  BY <1>1, <1>2, <1>3, SeqEqual
<1> QED
  BY <1>1, <1>2, <1>5, <1>6, <1>7

LEMMA TestStep ==
  ASSUME IInv, Test
  PROVE  IInv'
<1>1. /\ pc = "test" /\ done < Len(request)
      /\ UNCHANGED <<stackVars, request, cell, written, callbacks, valueSize, netifs>>
  BY DEF Test
<1>2. \/ /\ Acceptable(Varbinding) /\ done' = done + 1 /\ UNCHANGED <<pc, answer>>
      \/ Fail("wrongValue") /\ UNCHANGED done
  BY DEF Test
<1>3. /\ request \in Seq(Varbind) /\ Len(request) \in Nat
      /\ done \in 0 .. Len(request) /\ answer = NoAnswer /\ request \in Requests
      /\ written = <<>> /\ IsPrefix(written, request) /\ written # request
      /\ \A i \in 1 .. Len(request) : Received(request[i])
      /\ \A i \in 1 .. Len(request) : i <= done => Acceptable(request[i])
  BY <1>1, AtHand
<1> USE DEF stackVars
<1>4. KeptInv'
  BY <1>1 DEF IInv, KeptInv
<1>5. CASE Acceptable(Varbinding) /\ done' = done + 1 /\ UNCHANGED <<pc, answer>>
  <2>1. StateInv'
    BY <1>1, <1>3, <1>5 DEF IInv, StateInv
  <2>2. SetInv'
    <3>1. \A i \in 1 .. Len(request) : i <= done + 1 => Acceptable(request[i])
      BY <1>3, <1>5 DEF Varbinding
    <3>2. \A i \in 1 .. Len(request) : Received(request[i])' /\ (i <= done' => Acceptable(request[i])')
      BY <1>1, <1>3, <1>5, <3>1 DEF Received, Acceptable, HasRoom
    <3> QED
      BY <1>1, <1>3, <1>5, <3>2 DEF SetInv
  <2>3. GetInv' /\ SetReported' /\ NearestInterface'
    BY <1>1, <1>3, <1>5 DEF GetInv, SetReported, NearestInterface, NoAnswer
  <2> QED
    BY <1>4, <2>1, <2>2, <2>3 DEF IInv
<1>6. CASE Fail("wrongValue") /\ UNCHANGED done
  <2>1. pc' = "idle" /\ answer'.op = "set" /\ answer'.status = "wrongValue" /\ done' = done
    BY <1>6 DEF Fail, Reply
  <2>2. StateInv'
    BY <1>1, <1>3, <2>1 DEF IInv, StateInv
  <2>3. SetReported'
    BY <1>1, <1>3, <2>1 DEF SetReported
  <2>4. SetInv' /\ GetInv' /\ NearestInterface'
    BY <2>1 DEF SetInv, GetInv, NearestInterface
  <2> QED
    BY <1>4, <2>2, <2>3, <2>4 DEF IInv
<1> QED
  BY <1>2, <1>5, <1>6

LEMMA TestedStep ==
  ASSUME IInv, Tested
  PROVE  IInv'
<1>1. /\ pc = "test" /\ done = Len(request) /\ done' = 0 /\ pc' = "set"
      /\ UNCHANGED <<stackVars, request, cell, answer, written, callbacks, valueSize, netifs>>
  BY DEF Tested
<1>2. /\ request \in Seq(Varbind) /\ Len(request) \in Nat /\ request \in Requests
      /\ answer = NoAnswer /\ written = <<>>
      /\ \A i \in 1 .. Len(request) : Received(request[i]) /\ Acceptable(request[i])
  BY <1>1, AtHand
<1> USE DEF stackVars
<1>3. StateInv'
  BY <1>1, <1>2 DEF IInv, StateInv
<1>4. SetInv'
  <2>1. \A i \in 1 .. Len(request) : Received(request[i])' /\ Acceptable(request[i])'
    BY <1>1, <1>2 DEF Received, Acceptable, HasRoom
  <2>2. SubSeq(request, 1, 0) = <<>>
    BY <1>2
  <2> QED
    BY <1>1, <1>2, <2>1, <2>2 DEF SetInv
<1>5. KeptInv'
  BY <1>1 DEF IInv, KeptInv
<1>6. GetInv' /\ SetReported' /\ NearestInterface'
  BY <1>1, <1>2 DEF GetInv, SetReported, NearestInterface, NoAnswer
<1> QED
  BY <1>3, <1>4, <1>5, <1>6 DEF IInv

\* A variable that has been stored, or refused by the stack
LEMMA StoredStep ==
  ASSUME IInv, pc = "set", done < Len(request), Stored(Varbinding),
         UNCHANGED <<request, cell, callbacks, valueSize, netifs>>
  PROVE  SetInv' /\ SetReported' /\ NearestInterface' /\ GetInv' /\ done' \in 0 .. Len(request')
<1>1. /\ written' = Append(written, Varbinding) /\ done' = done + 1
      /\ UNCHANGED <<pc, answer>>
  BY DEF Stored
<1>2. /\ request \in Seq(Varbind) /\ Len(request) \in Nat
      /\ done \in 0 .. Len(request) /\ answer = NoAnswer /\ request \in Requests
      /\ written = SubSeq(request, 1, done)
      /\ \A i \in 1 .. Len(request) : Received(request[i]) /\ Acceptable(request[i])
  BY AtHand
<1>3. written' = SubSeq(request, 1, done + 1)
  BY <1>1, <1>2 DEF Varbinding
<1>4. SetInv'
  <2>1. \A i \in 1 .. Len(request) : Received(request[i])' /\ Acceptable(request[i])'
    BY <1>2 DEF Received, Acceptable, HasRoom
  <2> QED
    BY <1>1, <1>2, <1>3, <2>1 DEF SetInv
<1>5. SetReported' /\ NearestInterface' /\ GetInv'
  BY <1>1, <1>2 DEF SetReported, NearestInterface, GetInv, NoAnswer
<1> QED
  BY <1>1, <1>2, <1>4, <1>5

LEMMA SetTextStep ==
  ASSUME IInv, SetText
  PROVE  IInv'
<1> DEFINE v == Varbinding
<1>1. /\ pc = "set" /\ done < Len(request) /\ v.name \in Settable
      /\ UNCHANGED <<request, cell, admin, callbacks, valueSize, netifs>>
  BY DEF SetText
<1>2. \/ text' = [text EXCEPT ![v.name] = CString(v.value)] /\ Stored(v)
      \/ Fail("undoFailed") /\ UNCHANGED <<text, kept, done, written>>
  BY DEF SetText
<1>3. /\ done + 1 \in 1 .. Len(request) /\ answer = NoAnswer /\ request \in Requests
      /\ IsPrefix(written, request) /\ written # request
      /\ Received(v) /\ Acceptable(v)
  BY <1>1, AtHand DEF Varbinding
<1>4. v.value \in Octets
  BY <1>1, <1>3, Variables DEF Varbinding
<1>5. CASE text' = [text EXCEPT ![v.name] = CString(v.value)] /\ Stored(v)
  <2>1. SetInv' /\ SetReported' /\ NearestInterface' /\ GetInv' /\ done' \in 0 .. Len(request')
    BY <1>1, <1>5, StoredStep
  <2>2. kept' = [kept EXCEPT ![v.name] = v.value] /\ UNCHANGED <<pc, answer>>
    BY <1>5 DEF Stored
  <2>3. /\ Nul \notin Range(CString(v.value))
        /\ Len(CString(v.value)) \in Nat /\ Len(CString(v.value)) < StringSize
        /\ Nul \notin Range(v.value) => CString(v.value) = v.value
        /\ Len(v.value) <= valueSize
    <3>1. Len(v.value) < StringSize /\ Len(v.value) <= valueSize
      BY <1>1, <1>3 DEF Received, Acceptable, HasRoom
    <3>2. Len(v.value) \in Nat /\ StringSize \in Nat
      BY <1>4, Mib2Assumption
    <3>3. /\ Nul \notin Range(CString(v.value))
          /\ Len(CString(v.value)) \in Nat /\ Len(CString(v.value)) <= Len(v.value)
      BY <1>4, CStringFacts
    <3>4. Nul \notin Range(v.value) => CString(v.value) = v.value
      BY DEF CString
    <3> QED
      BY <3>1, <3>2, <3>3, <3>4
  <2> HIDE DEF v
  <2>4. /\ v.name \in Text /\ DOMAIN text = Text
        /\ DOMAIN kept = Settable \cup {ifAdminStatus(i) : i \in Range(netifs)}
        /\ \A i : ifAdminStatus(i) # v.name
    BY <1>1, Names DEF IInv, StateInv
  <2>5. /\ text' = [n \in Text |-> text'[n]]
        /\ \A n \in Text : text'[n] = IF n = v.name THEN CString(v.value) ELSE text[n]
        /\ kept' = [n \in DOMAIN kept |-> kept'[n]]
        /\ \A n \in DOMAIN kept : kept'[n] = IF n = v.name THEN v.value ELSE kept[n]
    BY <1>5, <2>2, <2>4
  <2>6. StateInv'
    <3>1. \A n \in Text :
            Nul \notin Range(text'[n]) /\ Len(text'[n]) \in Nat /\ Len(text'[n]) < StringSize
      BY <2>3, <2>5 DEF IInv, StateInv
    <3> QED
      BY <1>1, <2>1, <2>2, <2>4, <2>5, <3>1 DEF IInv, StateInv
  <2>7. KeptInv'
    <3>1. ASSUME NEW n \in Settable, kept'[n] # None, Nul \notin Range(kept'[n])
          PROVE  text'[n] = kept'[n] /\ Len(kept'[n]) <= valueSize
      BY <2>3, <2>4, <2>5, <3>1, Names DEF IInv, KeptInv
    <3>2. ASSUME NEW i \in Range(netifs), kept'[ifAdminStatus(i)] # None
          PROVE  admin[i] = kept'[ifAdminStatus(i)]
      BY <2>4, <2>5, <3>2 DEF IInv, KeptInv
    <3> QED
      BY <1>1, <3>1, <3>2 DEF KeptInv
  <2> QED
    BY <2>1, <2>6, <2>7 DEF IInv
<1>6. CASE Fail("undoFailed") /\ UNCHANGED <<text, kept, done, written>>
  <2>1. pc' = "idle" /\ answer'.op = "set" /\ answer'.status = "undoFailed"
    BY <1>6 DEF Fail, Reply
  <2>2. StateInv'
    BY <1>1, <1>6, <2>1 DEF IInv, StateInv
  <2>3. SetReported'
    BY <1>1, <1>3, <1>6, <2>1 DEF SetReported
  <2>4. SetInv' /\ GetInv' /\ NearestInterface'
    BY <2>1 DEF SetInv, GetInv, NearestInterface
  <2>5. KeptInv'
    BY <1>1, <1>6 DEF IInv, KeptInv
  <2> QED
    BY <2>2, <2>3, <2>4, <2>5 DEF IInv
<1> QED
  BY <1>2, <1>5, <1>6

LEMMA SetAdminStep ==
  ASSUME IInv, SetAdmin
  PROVE  IInv'
<1> DEFINE v == Varbinding
           i == v.name[2]
<1>1. /\ pc = "set" /\ done < Len(request) /\ v.name \notin Settable
      /\ admin' = [admin EXCEPT ![i] = v.value] /\ Stored(v)
      /\ UNCHANGED <<text, request, cell, callbacks, valueSize, netifs>>
  BY DEF SetAdmin
<1>2. SetInv' /\ SetReported' /\ NearestInterface' /\ GetInv' /\ done' \in 0 .. Len(request')
  BY <1>1, StoredStep
<1>3. /\ done + 1 \in 1 .. Len(request) /\ request \in Requests /\ Received(v) /\ Acceptable(v)
  BY <1>1, AtHand DEF Varbinding
<1>4. i \in Range(netifs) /\ v.value \in Admin /\ v.name = ifAdminStatus(i)
  BY <1>1, <1>3, Variables DEF Received, Acceptable, HasRoom, Varbinding
<1>5. kept' = [kept EXCEPT ![v.name] = v.value] /\ UNCHANGED <<pc, answer>>
  BY <1>1 DEF Stored
<1> HIDE DEF v, i
<1>6. /\ admin' \in [Range(netifs) -> Admin]
      /\ \A k \in Range(netifs) : admin'[k] = IF k = i THEN v.value ELSE admin[k]
      /\ DOMAIN kept = Settable \cup {ifAdminStatus(k) : k \in Range(netifs)}
      /\ kept' = [n \in DOMAIN kept |-> kept'[n]]
      /\ \A n \in DOMAIN kept : kept'[n] = IF n = v.name THEN v.value ELSE kept[n]
  BY <1>1, <1>4, <1>5 DEF IInv, StateInv
<1>7. StateInv'
  BY <1>1, <1>2, <1>5, <1>6 DEF IInv, StateInv
<1>8. KeptInv'
  <2>1. ASSUME NEW n \in Settable, kept'[n] # None, Nul \notin Range(kept'[n])
        PROVE  text[n] = kept'[n] /\ Len(kept'[n]) <= valueSize
    BY <1>1, <1>6, <2>1 DEF IInv, KeptInv
  <2>2. ASSUME NEW k \in Range(netifs), kept'[ifAdminStatus(k)] # None
        PROVE  admin'[k] = kept'[ifAdminStatus(k)]
    BY <1>4, <1>6, <2>2, Names DEF IInv, KeptInv
  <2> QED
    BY <1>1, <2>1, <2>2 DEF KeptInv
<1> QED
  BY <1>2, <1>7, <1>8 DEF IInv

LEMMA SetDoneStep ==
  ASSUME IInv, SetDone
  PROVE  IInv'
<1>1. /\ pc = "set" /\ done = Len(request) /\ pc' = "idle"
      /\ UNCHANGED <<stackVars, request, done, cell, written, callbacks, valueSize, netifs>>
  BY DEF SetDone
<1>2. answer'.op = "set" /\ answer'.status = "noError"
  BY DEF SetDone, Reply
<1>3. written = request /\ IsPrefix(written, request)
  BY <1>1, AtHand
<1> USE DEF stackVars
<1>4. StateInv'
  BY <1>1, <1>2 DEF IInv, StateInv
<1>5. KeptInv'
  BY <1>1 DEF IInv, KeptInv
<1>6. SetInv' /\ GetInv' /\ SetReported' /\ NearestInterface'
  BY <1>1, <1>2, <1>3 DEF SetInv, GetInv, SetReported, NearestInterface
<1> QED
  BY <1>4, <1>5, <1>6 DEF IInv

\* What the server is doing does not depend on what the stack changes.
LEMMA ServerKeeps ==
  ASSUME IInv, answer' = NoAnswer,
         UNCHANGED <<pc, request, done, cell, written, callbacks, valueSize, netifs>>
  PROVE  SetInv' /\ GetInv' /\ SetReported' /\ NearestInterface'
<1>1. SetInv'
  BY DEF IInv, SetInv, Received, Acceptable, HasRoom
<1>2. GetInv' /\ SetReported' /\ NearestInterface'
  BY DEF IInv, GetInv, SetReported, NearestInterface, NoAnswer
<1> QED
  BY <1>1, <1>2

LEMMA StackWritesStep ==
  ASSUME IInv, NEW n \in Settable, NEW t \in Texts, StackWrites(n, t)
  PROVE  IInv'
<1>1. /\ text' = [text EXCEPT ![n] = t] /\ kept' = [kept EXCEPT ![n] = None]
      /\ answer' = NoAnswer
      /\ UNCHANGED <<pc, request, done, cell, written, admin, callbacks, valueSize, netifs>>
  BY DEF StackWrites
<1>2. Nul \notin Range(t) /\ Len(t) \in Nat /\ Len(t) < StringSize
  BY Mib2Assumption
<1>3. /\ n \in Text /\ DOMAIN text = Text
      /\ DOMAIN kept = Settable \cup {ifAdminStatus(i) : i \in Range(netifs)}
  BY Names DEF IInv, StateInv
<1>4. /\ text' = [m \in Text |-> text'[m]]
      /\ \A m \in Text : text'[m] = IF m = n THEN t ELSE text[m]
      /\ kept' = [m \in DOMAIN kept |-> kept'[m]]
      /\ \A m \in DOMAIN kept : kept'[m] = IF m = n THEN None ELSE kept[m]
  BY <1>1, <1>3
<1>5. StateInv'
  <2>1. \A m \in Text :
          Nul \notin Range(text'[m]) /\ Len(text'[m]) \in Nat /\ Len(text'[m]) < StringSize
    BY <1>2, <1>4 DEF IInv, StateInv
  <2> QED
    BY <1>1, <1>3, <1>4, <2>1 DEF IInv, StateInv, NoAnswer
<1>6. KeptInv'
  BY <1>1, <1>3, <1>4, Names DEF IInv, KeptInv
<1> QED
  BY <1>1, <1>5, <1>6, ServerKeeps DEF IInv

LEMMA InterfaceChangesStep ==
  ASSUME IInv, NEW i \in Range(netifs), NEW status \in Admin, InterfaceChanges(i, status)
  PROVE  IInv'
<1>1. /\ admin' = [admin EXCEPT ![i] = status] /\ kept' = [kept EXCEPT ![ifAdminStatus(i)] = None]
      /\ answer' = NoAnswer
      /\ UNCHANGED <<pc, request, done, cell, written, text, callbacks, valueSize, netifs>>
  BY DEF InterfaceChanges
<1>2. DOMAIN kept = Settable \cup {ifAdminStatus(k) : k \in Range(netifs)}
  BY DEF IInv, StateInv
<1>3. /\ admin' \in [Range(netifs) -> Admin]
      /\ \A k \in Range(netifs) : admin'[k] = IF k = i THEN status ELSE admin[k]
      /\ kept' = [m \in DOMAIN kept |-> kept'[m]]
      /\ \A m \in DOMAIN kept : kept'[m] = IF m = ifAdminStatus(i) THEN None ELSE kept[m]
  BY <1>1, <1>2 DEF IInv, StateInv
<1>4. StateInv'
  BY <1>1, <1>2, <1>3 DEF IInv, StateInv, NoAnswer
<1>5. KeptInv'
  BY <1>1, <1>2, <1>3, Names DEF IInv, KeptInv
<1> QED
  BY <1>1, <1>4, <1>5, ServerKeeps DEF IInv

LEMMA StepKeepsInv == IInv /\ [Next]_vars => IInv'
<1> SUFFICES ASSUME IInv, [Next]_vars PROVE IInv'
  OBVIOUS
<1>1. CASE Server
  BY <1>1, StartStep, ReadCellStep, TestStep, TestedStep, SetTextStep, SetAdminStep, SetDoneStep
  DEF Server
<1>2. CASE Manager
  BY <1>2, GetSystemStep, GetNumberStep, FindCellStep, SetRequestStep DEF Manager
<1>3. CASE Environment
  BY <1>3, StackWritesStep, InterfaceChangesStep DEF Environment
<1>4. CASE UNCHANGED vars
  BY <1>4 DEF vars, stackVars, serverVars, IInv, StateInv, SetInv, Received, Acceptable, HasRoom, KeptInv,
    GetInv, mib2_system_get_value, ReadText, ReadFixed, Fits, SetReported, NearestInterface
<1> QED
  BY <1>1, <1>2, <1>3, <1>4 DEF Next

THEOREM IInvInvariant == Spec => []IInv
  BY InitInv, StepKeepsInv, PTL DEF Spec

-----------------------------------------------------------------------------

(* No string of the stack is longer than its place, terminator included,   *)
(* whatever octets a manager sends.                                        *)
THEOREM TypeCorrect == Spec => []TypeOK
<1>1. IInv => TypeOK
  BY DEF IInv, StateInv, TypeOK
<1> QED
  BY <1>1, IInvInvariant, PTL

(* Where lwIP's buffer holds the longest string of the stack, a get of the *)
(* system group is answered with the variable's value, and no error code   *)
(* is taken for a length.                                                  *)
THEOREM GetSafety ==
  ASSUME \A size \in ValueSizes : StringSize <= size + 1
  PROVE  Spec => []GetsVariable
<1>1. ASSUME IInv, answer.status = "value", answer.name \in Text
      PROVE  answer.value = text[answer.name]
  <2>1. Len(text[answer.name]) \in Nat /\ Len(text[answer.name]) < StringSize
    BY <1>1 DEF IInv, StateInv
  <2>2. valueSize \in Nat /\ StringSize \in Nat /\ StringSize <= valueSize + 1
    BY <1>1, Mib2Assumption DEF IInv, StateInv
  <2>3. Fits(Len(text[answer.name]))
    BY <2>1, <2>2 DEF Fits
  <2> QED
    BY <1>1, <2>3 DEF IInv, GetInv, mib2_system_get_value, ReadText
<1>2. IInv => GetsVariable
  BY <1>1 DEF GetsVariable
<1> QED
  BY <1>2, IInvInvariant, PTL

(* A set request is answered with what it has done: all of it, nothing, or *)
(* the variables before the one that failed.                               *)
THEOREM SetSafety == Spec => []SetReported
<1>1. IInv => SetReported
  BY DEF IInv
<1> QED
  BY <1>1, IInvInvariant, PTL

(* What a manager has set is what it reads back until somebody changes it, *)
(* also when lwIP's buffer is too small for other strings.                 *)
THEOREM ReadBackSafety == Spec => []ReadBack
<1>1. ASSUME IInv, answer.status = "value", answer.name \in DOMAIN kept,
             kept[answer.name] # None,
             answer.name \in Settable => Nul \notin Range(kept[answer.name])
      PROVE  answer.value = kept[answer.name]
  <2>1. answer.name \in Settable \/ \E i \in Range(netifs) : answer.name = ifAdminStatus(i)
    BY <1>1 DEF IInv, StateInv
  <2>2. CASE answer.name \in Settable
    BY <1>1, <2>2, Names DEF IInv, KeptInv, GetInv, mib2_system_get_value, ReadText, Fits
  <2>3. CASE \E i \in Range(netifs) : answer.name = ifAdminStatus(i)
    BY <1>1, <2>3 DEF IInv, KeptInv, GetInv
  <2> QED
    BY <2>1, <2>2, <2>3
<1>2. IInv => ReadBack
  BY <1>1 DEF ReadBack
<1> QED
  BY <1>2, IInvInvariant, PTL

(* A get-next of the interfaces table finds the interface with the least   *)
(* index above the one asked for, in whatever order lwIP lists them.       *)
THEOREM NearestSafety == Spec => []NearestInterface
<1>1. IInv => NearestInterface
  BY DEF IInv
<1> QED
  BY <1>1, IInvInvariant, PTL

=============================================================================
