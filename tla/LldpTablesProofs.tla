-------------------------- MODULE LldpTablesProofs --------------------------
(***************************************************************************)
(* Proofs about LldpTables and LldpWalk, for any number of ports, any      *)
(* peers with any attributes and addresses, and any clock.                 *)
(***************************************************************************)
EXTENDS LldpWalk, TLAPS, WellFoundedInduction

-----------------------------------------------------------------------------
(* Object identifiers and tables.                                          *)

LEMMA LessTransitive == \A x, y, z \in Nat : x < y /\ y < z => x < z
OBVIOUS

\* The order of object identifiers is transitive.
LEMMA OidLessTransitive ==
  ASSUME NEW a \in Seq(Nat), NEW b \in Seq(Nat), NEW c \in Seq(Nat),
         OidLess(a, b), OidLess(b, c)
  PROVE  OidLess(a, c)
<1>1. /\ Len(a) \in Nat /\ Len(b) \in Nat /\ Len(c) \in Nat
      /\ \A i \in 1 .. Len(a) : a[i] \in Nat
      /\ \A i \in 1 .. Len(b) : b[i] \in Nat
      /\ \A i \in 1 .. Len(c) : c[i] \in Nat
  OBVIOUS
<1>2. ASSUME NEW i \in 1 .. Len(a), i <= Len(b), a[i] < b[i], \A k \in 1 .. i - 1 : a[k] = b[k],
             NEW j \in 1 .. Len(b), j <= Len(c), b[j] < c[j], \A k \in 1 .. j - 1 : b[k] = c[k]
      PROVE  OidLess(a, c)
  <2>a. a[i] < b[i]
    BY <1>2
  <2>b. j <= Len(c) /\ b[j] < c[j]
    BY <1>2
  <2>1. CASE i < j
    <3>1. i <= Len(c)
      BY <1>1, <1>2, <2>1
    <3>2. b[i] = c[i]
      BY <1>2, <2>1
    <3>3. a[i] < c[i]
      BY ONLY <2>a, <3>2
    <3>4. \A k \in 1 .. i - 1 : k \in 1 .. j - 1
      BY <2>1
    <3>5. \A k \in 1 .. i - 1 : a[k] = c[k]
      BY <1>2, <3>4
    <3> QED
      BY <3>1, <3>3, <3>5 DEF OidLess
  <2>2. CASE i = j
    <3>1. i <= Len(c)
      BY <1>2, <2>2
    <3>2. a[i] \in Nat /\ b[i] \in Nat /\ c[i] \in Nat
      BY <1>1, <1>2, <3>1
    <3>3. b[i] < c[i]
      BY <2>b, <2>2
    <3>4. a[i] < c[i]
      BY <2>a, <3>2, <3>3, LessTransitive, Zenon
    <3>5. \A k \in 1 .. i - 1 : a[k] = c[k]
      BY <1>2, <2>2
    <3> QED
      BY <3>1, <3>4, <3>5 DEF OidLess
  <2>3. CASE j < i
    <3>1. j \in 1 .. Len(a) /\ a[j] = b[j]
      BY <1>1, <1>2, <2>3
    <3>2. j <= Len(c) /\ a[j] < c[j]
      BY <2>b, <3>1
    <3>3. \A k \in 1 .. j - 1 : a[k] = c[k]
      BY <1>1, <1>2, <2>3
    <3> QED
      BY <3>1, <3>2, <3>3 DEF OidLess
  <2> QED
    BY <1>1, <2>1, <2>2, <2>3
<1>3. ASSUME NEW i \in 1 .. Len(a), i <= Len(b), a[i] < b[i], \A k \in 1 .. i - 1 : a[k] = b[k],
             Len(b) < Len(c), \A k \in 1 .. Len(b) : b[k] = c[k]
      PROVE  OidLess(a, c)
  <2>1. i <= Len(c) /\ a[i] < c[i] /\ \A k \in 1 .. i - 1 : a[k] = c[k]
    BY <1>1, <1>3
  <2> QED
    BY <2>1 DEF OidLess
<1>4. ASSUME Len(a) < Len(b), \A k \in 1 .. Len(a) : a[k] = b[k],
             NEW j \in 1 .. Len(b), j <= Len(c), b[j] < c[j], \A k \in 1 .. j - 1 : b[k] = c[k]
      PROVE  OidLess(a, c)
  <2>1. CASE j <= Len(a)
    <3>1. j \in 1 .. Len(a) /\ a[j] < c[j] /\ \A k \in 1 .. j - 1 : a[k] = c[k]
      BY <1>1, <1>4, <2>1
    <3> QED
      BY <1>4, <3>1 DEF OidLess
  <2>2. CASE j > Len(a)
    <3>1. Len(a) < Len(c) /\ \A k \in 1 .. Len(a) : a[k] = c[k]
      BY <1>1, <1>4, <2>2
    <3> QED
      BY <3>1 DEF OidLess
  <2> QED
    BY <1>1, <2>1, <2>2
<1>5. ASSUME Len(a) < Len(b), \A k \in 1 .. Len(a) : a[k] = b[k],
             Len(b) < Len(c), \A k \in 1 .. Len(b) : b[k] = c[k]
      PROVE  OidLess(a, c)
  <2>1. Len(a) < Len(c) /\ \A k \in 1 .. Len(a) : a[k] = c[k]
    BY <1>1, <1>5
  <2> QED
    BY <2>1 DEF OidLess
<1> QED
  BY <1>2, <1>3, <1>4, <1>5 DEF OidLess

\* A set of numbers that is not empty has a least one.
LEMMA Least ==
  ASSUME NEW S \in SUBSET Nat, S # {}
  PROVE  \E m \in S : \A n \in S : m <= n
<1> DEFINE R == OpToRel(<, Nat)
<1>1. IsWellFoundedOn(R, Nat)
  BY NatLessThanWellFounded
<1>2. \E m \in S : \A n \in S : ~ (<<n, m>> \in R)
  <2> HIDE DEF R
  <2> QED
    BY <1>1, WFMin
<1>3. PICK m \in S : \A n \in S : ~ (<<n, m>> \in R)
  BY <1>2
<1>4. ASSUME NEW n \in S PROVE ~ (n < m)
  BY <1>3 DEF OpToRel
<1>5. \A n \in S : m <= n
  <2> HIDE DEF R
  <2> QED
    BY <1>4
<1> HIDE DEF R
<1> QED
  BY <1>5

\* Two different object identifiers first differ somewhere.
LEMMA OidLessTotal ==
  ASSUME NEW a \in Seq(Nat), NEW b \in Seq(Nat)
  PROVE  a = b \/ OidLess(a, b) \/ OidLess(b, a)
<1>1. /\ Len(a) \in Nat /\ Len(b) \in Nat
      /\ \A i \in 1 .. Len(a) : a[i] \in Nat
      /\ \A i \in 1 .. Len(b) : b[i] \in Nat
  OBVIOUS
<1> DEFINE D == {i \in 1 .. Len(a) : i <= Len(b) /\ a[i] # b[i]}
<1>2. CASE D # {}
  <2>1. D \subseteq Nat
    BY <1>1
  <2>2. PICK m \in D : \A n \in D : m <= n
    BY <1>2, <2>1, Least
  <2>3. m \in 1 .. Len(a) /\ m \in 1 .. Len(b) /\ a[m] # b[m]
    BY <1>1, <2>2
  <2>4. ASSUME NEW j \in 1 .. m - 1 PROVE a[j] = b[j]
    <3>1. j \in 1 .. Len(a) /\ j <= Len(b) /\ ~ (m <= j)
      BY <1>1, <2>3
    <3>2. j \notin D
      <4> HIDE DEF D
      <4> QED
        BY <2>2, <3>1
    <3> QED
      BY <3>1, <3>2
  <2>5. a[m] < b[m] \/ b[m] < a[m]
    BY <1>1, <2>3
  <2> HIDE DEF D
  <2> QED
    BY <1>1, <2>3, <2>4, <2>5 DEF OidLess
<1>3. CASE D = {}
  <2>1. \A i \in 1 .. Len(a) : i <= Len(b) => a[i] = b[i]
    BY <1>3
  <2> HIDE DEF D
  <2>2. CASE Len(a) < Len(b)
    BY <1>1, <2>1, <2>2 DEF OidLess
  <2>3. CASE Len(b) < Len(a)
    <3>1. \A i \in 1 .. Len(b) : b[i] = a[i]
      BY <1>1, <2>1, <2>3
    <3> QED
      BY <2>3, <3>1 DEF OidLess
  <2>4. CASE Len(a) = Len(b)
    <3>1. \A i \in 1 .. Len(a) : a[i] = b[i]
      BY <1>1, <2>1, <2>4
    <3>2. a = [i \in 1 .. Len(a) |-> a[i]] /\ b = [i \in 1 .. Len(b) |-> b[i]]
      OBVIOUS
    <3> QED
      BY <2>4, <3>1, <3>2
  <2> QED
    BY <1>1, <2>2, <2>3, <2>4
<1> QED
  BY <1>2, <1>3

LEMMA OidLessAsymmetric ==
  ASSUME NEW a \in Seq(Nat), NEW b \in Seq(Nat), OidLess(a, b)
  PROVE  ~ OidLess(b, a) /\ a # b
<1>1. ~ OidLess(a, a)
  BY DEF OidLess
<1> QED
  BY <1>1, OidLessTransitive

\* The empty one comes first.
LEMMA EmptyFirst ==
  ASSUME NEW a \in Seq(Nat), a # <<>>
  PROVE  OidLess(<<>>, a)
<1>1. Len(a) \in Nat /\ Len(a) # 0 /\ Len(<<>>) = 0
  OBVIOUS
<1> QED
  BY <1>1 DEF OidLess

\* z is x followed by y.
Joins(z, x, y) ==
  /\ z \in Seq(Nat) /\ Len(z) = Len(x) + Len(y)
  /\ \A i \in 1 .. Len(x) : z[i] = x[i]
  /\ \A i \in 1 .. Len(y) : z[Len(x) + i] = y[i]

LEMMA Concatenation ==
  ASSUME NEW x \in Seq(Nat), NEW y \in Seq(Nat)
  PROVE  Joins(x \o y, x, y)
BY DEF Joins

\* The place of every table in a walk
LEMMA OidType ==
  /\ Oid \in [{"lldpConfigManAddrTable", "lldpLocChassisId", "lldpLocPortTable",
               "lldpLocManAddrTable", "lldpRemTable", "lldpRemManAddrTable", "lldpXPnoLocTable",
               "lldpXPnoRemTable", "lldpXdot3LocPortTable", "lldpXdot3RemPortTable"} -> Seq(Nat)]
  /\ Oid["lldpConfigManAddrTable"] = <<1, 0, 8802, 1, 1, 2, 1>> \o (<<1>> \o <<7>>)
  /\ Oid["lldpLocChassisId"] = <<1, 0, 8802, 1, 1, 2, 1>> \o (<<3>> \o <<>>)
  /\ Oid["lldpLocPortTable"] = <<1, 0, 8802, 1, 1, 2, 1>> \o (<<3>> \o <<7>>)
  /\ Oid["lldpLocManAddrTable"] = <<1, 0, 8802, 1, 1, 2, 1>> \o (<<3>> \o <<8>>)
  /\ Oid["lldpRemTable"] = <<1, 0, 8802, 1, 1, 2, 1>> \o (<<4>> \o <<1>>)
  /\ Oid["lldpRemManAddrTable"] = <<1, 0, 8802, 1, 1, 2, 1>> \o (<<4>> \o <<2>>)
  /\ Oid["lldpXPnoLocTable"] = <<1, 0, 8802, 1, 1, 2, 1, 5, 3791, 1>> \o <<2, 1>>
  /\ Oid["lldpXPnoRemTable"] = <<1, 0, 8802, 1, 1, 2, 1, 5, 3791, 1>> \o <<3, 1>>
  /\ Oid["lldpXdot3LocPortTable"] = <<1, 0, 8802, 1, 1, 2, 1, 5, 4623, 1>> \o <<2, 1>>
  /\ Oid["lldpXdot3RemPortTable"] = <<1, 0, 8802, 1, 1, 2, 1, 5, 4623, 1>> \o <<3, 1>>
<1> DEFINE base == <<1, 0, 8802, 1, 1, 2, 1>>
           pno == <<1, 0, 8802, 1, 1, 2, 1, 5, 3791, 1>>
           dot3 == <<1, 0, 8802, 1, 1, 2, 1, 5, 4623, 1>>
           A == {"lldpConfigManAddrTable"}
           B == {"lldpLocChassisId", "lldpLocPortTable", "lldpLocManAddrTable"}
           C == {"lldpRemTable", "lldpRemManAddrTable"}
           X == {"lldpXPnoLocTable", "lldpXPnoRemTable"}
           Y == {"lldpXdot3LocPortTable", "lldpXdot3RemPortTable"}
           x == [lldpXPnoLocTable |-> <<2, 1>>, lldpXPnoRemTable |-> <<3, 1>>]
           y == [lldpXdot3LocPortTable |-> <<2, 1>>, lldpXdot3RemPortTable |-> <<3, 1>>]
<1>1. /\ base \in Seq(Nat) /\ pno \in Seq(Nat) /\ dot3 \in Seq(Nat)
      /\ <<1>> \in Seq(Nat) /\ <<3>> \in Seq(Nat) /\ <<4>> \in Seq(Nat)
  OBVIOUS
<1>2. /\ lldpConfiguration \in [A -> Seq(Nat)]
      /\ lldpConfiguration["lldpConfigManAddrTable"] = <<7>>
  <2>1. lldpConfiguration \in [lldpConfigManAddrTable : Seq(Nat)]
    BY SMT DEF lldpConfiguration
  <2>2. lldpConfiguration \in [A -> Seq(Nat)]
    BY <2>1, Zenon
  <2>3. lldpConfiguration["lldpConfigManAddrTable"] = <<7>>
    BY DEF lldpConfiguration
  <2> QED
    BY <2>2, <2>3
<1>3. /\ lldpLocalSystemData \in [B -> Seq(Nat)]
      /\ lldpLocalSystemData["lldpLocChassisId"] = <<>>
      /\ lldpLocalSystemData["lldpLocPortTable"] = <<7>>
      /\ lldpLocalSystemData["lldpLocManAddrTable"] = <<8>>
  <2>1. lldpLocalSystemData
          \in [lldpLocChassisId : Seq(Nat), lldpLocPortTable : Seq(Nat),
              lldpLocManAddrTable : Seq(Nat)]
    BY SMT DEF lldpLocalSystemData
  <2>2. lldpLocalSystemData \in [B -> Seq(Nat)]
    BY <2>1, Zenon
  <2>3. /\ lldpLocalSystemData["lldpLocChassisId"] = <<>>
        /\ lldpLocalSystemData["lldpLocPortTable"] = <<7>>
        /\ lldpLocalSystemData["lldpLocManAddrTable"] = <<8>>
    BY DEF lldpLocalSystemData
  <2> QED
    BY <2>2, <2>3
<1>4. /\ lldpRemoteSystemsData \in [C -> Seq(Nat)]
      /\ lldpRemoteSystemsData["lldpRemTable"] = <<1>>
      /\ lldpRemoteSystemsData["lldpRemManAddrTable"] = <<2>>
  <2>1. lldpRemoteSystemsData \in [lldpRemTable : Seq(Nat), lldpRemManAddrTable : Seq(Nat)]
    BY SMT DEF lldpRemoteSystemsData
  <2>2. lldpRemoteSystemsData \in [C -> Seq(Nat)]
    BY <2>1, Zenon
  <2>3. /\ lldpRemoteSystemsData["lldpRemTable"] = <<1>>
        /\ lldpRemoteSystemsData["lldpRemManAddrTable"] = <<2>>
    BY DEF lldpRemoteSystemsData
  <2> QED
    BY <2>2, <2>3
<1>5. /\ x \in [X -> Seq(Nat)]
      /\ x["lldpXPnoLocTable"] = <<2, 1>> /\ x["lldpXPnoRemTable"] = <<3, 1>>
  <2>1. x \in [lldpXPnoLocTable : Seq(Nat), lldpXPnoRemTable : Seq(Nat)]
    BY SMT
  <2>2. x \in [X -> Seq(Nat)]
    BY <2>1, Zenon
  <2> QED
    BY <2>2
<1>6. /\ y \in [Y -> Seq(Nat)]
      /\ y["lldpXdot3LocPortTable"] = <<2, 1>> /\ y["lldpXdot3RemPortTable"] = <<3, 1>>
  <2>1. y \in [lldpXdot3LocPortTable : Seq(Nat), lldpXdot3RemPortTable : Seq(Nat)]
    BY SMT
  <2>2. y \in [Y -> Seq(Nat)]
    BY <2>1, Zenon
  <2> QED
    BY <2>2
<1>7. /\ B \cap C = {} /\ A \cap (B \cup C) = {}
      /\ X \cap Y = {} /\ (A \cup (B \cup C)) \cap (X \cup Y) = {}
  OBVIOUS
<1>8. (A \cup (B \cup C)) \cup (X \cup Y)
         = {"lldpConfigManAddrTable", "lldpLocChassisId", "lldpLocPortTable",
            "lldpLocManAddrTable", "lldpRemTable", "lldpRemManAddrTable", "lldpXPnoLocTable",
            "lldpXPnoRemTable", "lldpXdot3LocPortTable", "lldpXdot3RemPortTable"}
  OBVIOUS
<1> DEFINE one == <<1>>
           three == <<3>>
           four == <<4>>
<1>9. /\ Oid \in [(A \cup (B \cup C)) \cup (X \cup Y) -> Seq(Nat)]
      /\ \A t \in A : Oid[t] = base \o (one \o lldpConfiguration[t])
      /\ \A t \in B : Oid[t] = base \o (three \o lldpLocalSystemData[t])
      /\ \A t \in C : Oid[t] = base \o (four \o lldpRemoteSystemsData[t])
      /\ \A t \in X : Oid[t] = pno \o x[t]
      /\ \A t \in Y : Oid[t] = dot3 \o y[t]
  <2> HIDE DEF A, B, C, X, Y, x, y, base, pno, dot3, one, three, four
  <2> DEFINE a == Under(one, lldpConfiguration)
             b == Under(three, lldpLocalSystemData)
             c == Under(four, lldpRemoteSystemsData)
             bc == Both(b, c)
             abc == Both(a, bc)
             xy == Both(lldpXPnoMib, lldpXdot3Mib)
  <2>1. one \in Seq(Nat) /\ three \in Seq(Nat) /\ four \in Seq(Nat)
    BY <1>1 DEF one, three, four
  <2>2. base \in Seq(Nat) /\ pno \in Seq(Nat) /\ dot3 \in Seq(Nat)
    BY <1>1
  <2>3. /\ lldpConfiguration \in [A -> Seq(Nat)]
        /\ lldpLocalSystemData \in [B -> Seq(Nat)]
        /\ lldpRemoteSystemsData \in [C -> Seq(Nat)]
        /\ x \in [X -> Seq(Nat)] /\ y \in [Y -> Seq(Nat)]
    BY <1>2, <1>3, <1>4, <1>5, <1>6
  <2>4. lldpMib = Under(base, abc)
    BY DEF lldpMib, base, one, three, four
  <2>5. lldpXPnoMib = Under(pno, x) /\ lldpXdot3Mib = Under(dot3, y)
    BY DEF lldpXPnoMib, lldpXdot3Mib, pno, dot3, x, y
  <2>6. Oid = Both(lldpMib, xy)
    BY DEF Oid
  <2>7. a \in [A -> Seq(Nat)] /\ \A t \in A : a[t] = one \o lldpConfiguration[t]
    <3>1. \A t \in A : one \o lldpConfiguration[t] \in Seq(Nat)
      BY <2>1, <2>3
    <3> QED
      BY <2>3, <3>1 DEF Under
  <2>8. b \in [B -> Seq(Nat)] /\ \A t \in B : b[t] = three \o lldpLocalSystemData[t]
    <3>1. \A t \in B : three \o lldpLocalSystemData[t] \in Seq(Nat)
      BY <2>1, <2>3
    <3> QED
      BY <2>3, <3>1 DEF Under
  <2>9. c \in [C -> Seq(Nat)] /\ \A t \in C : c[t] = four \o lldpRemoteSystemsData[t]
    <3>1. \A t \in C : four \o lldpRemoteSystemsData[t] \in Seq(Nat)
      BY <2>1, <2>3
    <3> QED
      BY <2>3, <3>1 DEF Under
  <2> HIDE DEF a, b, c
  <2>10. a \in [A -> Seq(Nat)] /\ b \in [B -> Seq(Nat)] /\ c \in [C -> Seq(Nat)]
    BY <2>7, <2>8, <2>9
  <2>11. /\ bc \in [B \cup C -> Seq(Nat)]
         /\ \A t \in B : bc[t] = b[t]
         /\ \A t \in C : bc[t] = c[t]
    BY <1>7, <2>10 DEF Both
  <2> HIDE DEF bc
  <2>12. /\ abc \in [A \cup (B \cup C) -> Seq(Nat)]
         /\ \A t \in A : abc[t] = a[t]
         /\ \A t \in B \cup C : abc[t] = bc[t]
    BY <1>7, <2>10, <2>11 DEF Both
  <2> HIDE DEF abc
  <2>13. /\ lldpMib \in [A \cup (B \cup C) -> Seq(Nat)]
         /\ \A t \in A \cup (B \cup C) : lldpMib[t] = base \o abc[t]
    <3>1. \A t \in A \cup (B \cup C) : base \o abc[t] \in Seq(Nat)
      BY <2>2, <2>12
    <3> QED
      BY <2>4, <2>12, <3>1 DEF Under
  <2>14. /\ lldpXPnoMib \in [X -> Seq(Nat)]
         /\ \A t \in X : lldpXPnoMib[t] = pno \o x[t]
    <3>1. \A t \in X : pno \o x[t] \in Seq(Nat)
      BY <2>2, <2>3
    <3> QED
      BY <2>3, <2>5, <3>1 DEF Under
  <2>15. /\ lldpXdot3Mib \in [Y -> Seq(Nat)]
         /\ \A t \in Y : lldpXdot3Mib[t] = dot3 \o y[t]
    <3>1. \A t \in Y : dot3 \o y[t] \in Seq(Nat)
      BY <2>2, <2>3
    <3> QED
      BY <2>3, <2>5, <3>1 DEF Under
  <2>16. /\ lldpXPnoMib \in [X -> Seq(Nat)] /\ lldpXdot3Mib \in [Y -> Seq(Nat)]
         /\ lldpMib \in [A \cup (B \cup C) -> Seq(Nat)]
    BY <2>13, <2>14, <2>15
  <2>17. /\ xy \in [X \cup Y -> Seq(Nat)]
         /\ \A t \in X : xy[t] = lldpXPnoMib[t]
         /\ \A t \in Y : xy[t] = lldpXdot3Mib[t]
    BY <1>7, <2>16 DEF Both
  <2> HIDE DEF xy
  <2>18. /\ Oid \in [(A \cup (B \cup C)) \cup (X \cup Y) -> Seq(Nat)]
         /\ \A t \in A \cup (B \cup C) : Oid[t] = lldpMib[t]
         /\ \A t \in X \cup Y : Oid[t] = xy[t]
    BY <1>7, <2>6, <2>16, <2>17 DEF Both
  <2>19. ASSUME NEW t \in A PROVE Oid[t] = base \o (one \o lldpConfiguration[t])
    <3>1. Oid[t] = lldpMib[t] /\ lldpMib[t] = base \o abc[t] /\ abc[t] = a[t]
      BY <2>12, <2>13, <2>18
    <3> QED
      BY <2>7, <3>1
  <2>20. ASSUME NEW t \in B PROVE Oid[t] = base \o (three \o lldpLocalSystemData[t])
    <3>1. Oid[t] = lldpMib[t] /\ lldpMib[t] = base \o abc[t] /\ abc[t] = b[t]
      BY <2>11, <2>12, <2>13, <2>18
    <3> QED
      BY <2>8, <3>1
  <2>21. ASSUME NEW t \in C PROVE Oid[t] = base \o (four \o lldpRemoteSystemsData[t])
    <3>1. Oid[t] = lldpMib[t] /\ lldpMib[t] = base \o abc[t] /\ abc[t] = c[t]
      BY <2>11, <2>12, <2>13, <2>18
    <3> QED
      BY <2>9, <3>1
  <2>22. \A t \in X : Oid[t] = pno \o x[t]
    BY <2>14, <2>17, <2>18
  <2>23. \A t \in Y : Oid[t] = dot3 \o y[t]
    BY <2>15, <2>17, <2>18
  <2> QED
    BY <2>18, <2>19, <2>20, <2>21, <2>22, <2>23
<1> HIDE DEF x, y, base, pno, dot3, one, three, four
<1>10. /\ Oid["lldpConfigManAddrTable"] = base \o (one \o <<7>>)
       /\ Oid["lldpLocChassisId"] = base \o (three \o <<>>)
       /\ Oid["lldpLocPortTable"] = base \o (three \o <<7>>)
       /\ Oid["lldpLocManAddrTable"] = base \o (three \o <<8>>)
       /\ Oid["lldpRemTable"] = base \o (four \o <<1>>)
       /\ Oid["lldpRemManAddrTable"] = base \o (four \o <<2>>)
  BY <1>2, <1>3, <1>4, <1>9
<1>11. /\ Oid["lldpXPnoLocTable"] = pno \o <<2, 1>>
       /\ Oid["lldpXPnoRemTable"] = pno \o <<3, 1>>
       /\ Oid["lldpXdot3LocPortTable"] = dot3 \o <<2, 1>>
       /\ Oid["lldpXdot3RemPortTable"] = dot3 \o <<3, 1>>
  BY <1>5, <1>6, <1>9
<1> QED
  BY <1>8, <1>9, <1>10, <1>11 DEF base, pno, dot3, one, three, four

LEMMA TableOids ==
  /\ Table = {"lldpConfigManAddrTable", "lldpLocChassisId", "lldpLocPortTable",
              "lldpLocManAddrTable", "lldpRemTable", "lldpRemManAddrTable", "lldpXPnoLocTable",
              "lldpXPnoRemTable", "lldpXdot3LocPortTable", "lldpXdot3RemPortTable"}
  /\ \A t \in Table : Oid[t] \in Seq(Nat)
<1> DEFINE T == {"lldpConfigManAddrTable", "lldpLocChassisId", "lldpLocPortTable",
                 "lldpLocManAddrTable", "lldpRemTable", "lldpRemManAddrTable",
                 "lldpXPnoLocTable", "lldpXPnoRemTable", "lldpXdot3LocPortTable",
                 "lldpXdot3RemPortTable"}
<1>1. Oid \in [T -> Seq(Nat)]
  BY OidType
<1> HIDE DEF T
<1>2. Table = T /\ \A t \in T : Oid[t] \in Seq(Nat)
  BY <1>1 DEF Table
<1> QED
  BY <1>2 DEF T

\* The shapes of their places, and the numbers that tell them apart.
base == <<1, 0, 8802, 1, 1, 2, 1>>
OneMore(m) == base \o (<<m>> \o <<>>)
TwoMore(m, n) == base \o (<<m>> \o <<n>>)
FiveMore(l, m) == <<1, 0, 8802, 1, 1, 2, 1, 5, l, 1>> \o <<m, 1>>

LEMMA TwoMoreAt ==
  ASSUME NEW m \in Nat, NEW n \in Nat
  PROVE  Len(TwoMore(m, n)) = 9 /\ TwoMore(m, n)[8] = m /\ TwoMore(m, n)[9] = n
<1> DEFINE x == <<m>>
           y == <<n>>
           z == x \o y
           o == base \o z
<1>1. x \in Seq(Nat) /\ y \in Seq(Nat) /\ base \in Seq(Nat)
  BY DEF base
<1>2. Len(x) = 1 /\ Len(y) = 1 /\ x[1] = m /\ y[1] = n /\ Len(base) = 7
  BY DEF base
<1> HIDE DEF x, y
<1>3. Joins(z, x, y)
  BY <1>1, Concatenation
<1> HIDE DEF z
<1>4. z \in Seq(Nat)
  BY <1>3 DEF Joins
<1>5. Joins(o, base, z)
  BY <1>1, <1>4, Concatenation
<1> HIDE DEF o
<1>6. Len(z) = 2 /\ z[1] = m /\ z[2] = n
  <2>1. 1 \in 1 .. Len(x) /\ 1 \in 1 .. Len(y)
    BY <1>2
  <2>2. z[1] = x[1] /\ z[Len(x) + 1] = y[1]
    BY <1>3, <2>1 DEF Joins
  <2> QED
    BY <1>2, <1>3, <2>2 DEF Joins
<1>7. Len(o) = 9 /\ o[8] = m /\ o[9] = n
  <2>1. 1 \in 1 .. Len(z) /\ 2 \in 1 .. Len(z)
    BY <1>6
  <2>2. o[Len(base) + 1] = z[1] /\ o[Len(base) + 2] = z[2]
    BY <1>5, <2>1 DEF Joins
  <2> QED
    BY <1>2, <1>5, <1>6, <2>2 DEF Joins
<1> QED
  BY <1>7 DEF TwoMore, o, x, y, z

LEMMA OneMoreAt ==
  ASSUME NEW m \in Nat
  PROVE  Len(OneMore(m)) = 8
<1> DEFINE x == <<m>>
           y == <<>>
           z == x \o y
           o == base \o z
<1>1. x \in Seq(Nat) /\ y \in Seq(Nat) /\ base \in Seq(Nat)
  BY DEF base
<1>2. Len(x) = 1 /\ Len(y) = 0 /\ Len(base) = 7
  BY DEF base
<1> HIDE DEF x, y
<1>3. Joins(z, x, y)
  BY <1>1, Concatenation
<1> HIDE DEF z
<1>4. z \in Seq(Nat)
  BY <1>3 DEF Joins
<1>5. Joins(o, base, z)
  BY <1>1, <1>4, Concatenation
<1> HIDE DEF o
<1>6. Len(o) = 8
  BY <1>2, <1>3, <1>5 DEF Joins
<1> QED
  BY <1>6 DEF OneMore, o, x, y, z

LEMMA FiveMoreAt ==
  ASSUME NEW l \in Nat, NEW m \in Nat
  PROVE  Len(FiveMore(l, m)) = 12 /\ FiveMore(l, m)[9] = l /\ FiveMore(l, m)[11] = m
<1> DEFINE x == <<1, 0, 8802, 1, 1, 2, 1, 5, l, 1>>
           y == <<m, 1>>
           o == x \o y
<1>1. x \in Seq(Nat) /\ y \in Seq(Nat)
  OBVIOUS
<1>2. Len(x) = 10 /\ Len(y) = 2 /\ x[9] = l /\ y[1] = m
  OBVIOUS
<1> HIDE DEF x, y
<1>3. Joins(o, x, y)
  BY <1>1, Concatenation
<1> HIDE DEF o
<1>4. 9 \in 1 .. Len(x) /\ 1 \in 1 .. Len(y)
  BY <1>2
<1>5. o[9] = x[9] /\ o[Len(x) + 1] = y[1]
  BY <1>3, <1>4 DEF Joins
<1>6. Len(o) = 12 /\ o[9] = l /\ o[11] = m
  BY <1>2, <1>3, <1>5 DEF Joins
<1> QED
  BY <1>6 DEF FiveMore, o, x, y

\* No two tables have the same place.
LEMMA OidInjective ==
  ASSUME NEW t \in Table, NEW u \in Table, Oid[t] = Oid[u]
  PROVE  t = u
<1> DEFINE Two(o, m, n) == Len(o) = 9 /\ o[8] = m /\ o[9] = n
           Five(o, l, m) == Len(o) = 12 /\ o[9] = l /\ o[11] = m
<1>1. \A m, n \in Nat : Two(TwoMore(m, n), m, n)
  BY TwoMoreAt
<1>2. \A l, m \in Nat : Five(FiveMore(l, m), l, m)
  BY FiveMoreAt
<1>3. Len(OneMore(3)) = 8
  BY OneMoreAt
<1>4. /\ Oid["lldpConfigManAddrTable"] = TwoMore(1, 7)
      /\ Oid["lldpLocChassisId"] = OneMore(3)
      /\ Oid["lldpLocPortTable"] = TwoMore(3, 7)
      /\ Oid["lldpLocManAddrTable"] = TwoMore(3, 8)
      /\ Oid["lldpRemTable"] = TwoMore(4, 1)
      /\ Oid["lldpRemManAddrTable"] = TwoMore(4, 2)
      /\ Oid["lldpXPnoLocTable"] = FiveMore(3791, 2)
      /\ Oid["lldpXPnoRemTable"] = FiveMore(3791, 3)
      /\ Oid["lldpXdot3LocPortTable"] = FiveMore(4623, 2)
      /\ Oid["lldpXdot3RemPortTable"] = FiveMore(4623, 3)
  BY OidType DEF OneMore, TwoMore, FiveMore, base
<1> HIDE DEF Two, Five
<1>5. /\ Two(Oid["lldpConfigManAddrTable"], 1, 7)
      /\ Len(Oid["lldpLocChassisId"]) = 8
      /\ Two(Oid["lldpLocPortTable"], 3, 7)
      /\ Two(Oid["lldpLocManAddrTable"], 3, 8)
      /\ Two(Oid["lldpRemTable"], 4, 1)
      /\ Two(Oid["lldpRemManAddrTable"], 4, 2)
  BY <1>1, <1>3, <1>4
<1>6. /\ Five(Oid["lldpXPnoLocTable"], 3791, 2)
      /\ Five(Oid["lldpXPnoRemTable"], 3791, 3)
      /\ Five(Oid["lldpXdot3LocPortTable"], 4623, 2)
      /\ Five(Oid["lldpXdot3RemPortTable"], 4623, 3)
  BY <1>2, <1>4
<1> DEFINE T == {"lldpConfigManAddrTable", "lldpLocChassisId", "lldpLocPortTable",
                 "lldpLocManAddrTable", "lldpRemTable", "lldpRemManAddrTable",
                 "lldpXPnoLocTable", "lldpXPnoRemTable", "lldpXdot3LocPortTable",
                 "lldpXdot3RemPortTable"}
<1>7. t \in T /\ u \in T
  BY TableOids
<1>8. Oid[t] = Oid[u]
  OBVIOUS
<1> QED
  BY ONLY <1>5, <1>6, <1>7, <1>8 DEF Two, Five

\* The walk visits the tables one after the other.
LEMMA TableOrder ==
  ASSUME NEW t \in Table, NEW u \in Table
  PROVE  /\ t = u \/ OidLess(Oid[t], Oid[u]) \/ OidLess(Oid[u], Oid[t])
         /\ OidLess(Oid[t], Oid[u]) => t # u /\ ~ OidLess(Oid[u], Oid[t])
<1>1. Oid[t] \in Seq(Nat) /\ Oid[u] \in Seq(Nat)
  BY TableOids
<1>2. Oid[t] = Oid[u] \/ OidLess(Oid[t], Oid[u]) \/ OidLess(Oid[u], Oid[t])
  BY <1>1, OidLessTotal
<1>3. Oid[t] = Oid[u] => t = u
  BY OidInjective
<1>4. OidLess(Oid[t], Oid[u]) => Oid[t] # Oid[u] /\ ~ OidLess(Oid[u], Oid[t])
  BY <1>1, OidLessAsymmetric
<1> QED
  BY <1>2, <1>3, <1>4

\* The columns of every table are numbered, and one of them is the first.
LEMMA TableColumns ==
  ASSUME NEW t \in Table
  PROVE  DOMAIN Columns[t] \subseteq Nat /\ FirstColumn(t) \in DOMAIN Columns[t]
<1>1. ASSUME NEW m, m \in DOMAIN Columns[t], \A d \in DOMAIN Columns[t] : m <= d
      PROVE  FirstColumn(t) \in DOMAIN Columns[t]
  BY <1>1 DEF FirstColumn
<1>2. CASE t = "lldpConfigManAddrTable"
  <2>1. DOMAIN Columns[t] = {1}
    BY <1>2 DEF Columns, lldpConfigManAddrTable
  <2> QED
    BY <1>1, <2>1
<1>3. CASE t = "lldpLocChassisId"
  <2>1. DOMAIN Columns[t] = {1, 2}
    BY <1>3 DEF Columns, lldpLocChassisId
  <2> QED
    BY <1>1, <2>1
<1>4. CASE t = "lldpLocPortTable"
  <2>1. DOMAIN Columns[t] = 2 .. 4
    BY <1>4 DEF Columns, lldpLocPortTable
  <2> QED
    BY <1>1, <2>1
<1>5. CASE t = "lldpLocManAddrTable"
  <2>1. DOMAIN Columns[t] = 3 .. 5
    BY <1>5 DEF Columns, lldpLocManAddrTable
  <2> QED
    BY <1>1, <2>1
<1>6. CASE t = "lldpRemTable"
  <2>1. DOMAIN Columns[t] = 4 .. 8
    BY <1>6 DEF Columns, lldpRemTable
  <2> QED
    BY <1>1, <2>1
<1>7. CASE t = "lldpRemManAddrTable"
  <2>1. DOMAIN Columns[t] = {3, 4}
    BY <1>7 DEF Columns, lldpRemManAddrTable
  <2> QED
    BY <1>1, <2>1
<1>8. CASE t = "lldpXPnoLocTable"
  <2>1. DOMAIN Columns[t] = {1, 2, 3, 6}
    BY <1>8 DEF Columns, lldpXPnoLocTable
  <2> QED
    BY <1>1, <2>1
<1>9. CASE t = "lldpXPnoRemTable"
  <2>1. DOMAIN Columns[t] = {1, 2, 3, 6}
    BY <1>9 DEF Columns, lldpXPnoRemTable
  <2> QED
    BY <1>1, <2>1
<1>10. CASE t = "lldpXdot3LocPortTable"
  <2>1. DOMAIN Columns[t] = 1 .. 4
    BY <1>10 DEF Columns, lldpXdot3LocPortTable
  <2> QED
    BY <1>1, <2>1
<1>11. CASE t = "lldpXdot3RemPortTable"
  <2>1. DOMAIN Columns[t] = 1 .. 4
    BY <1>11 DEF Columns, lldpXdot3RemPortTable
  <2> QED
    BY <1>1, <2>1
<1> QED
  BY <1>2, <1>3, <1>4, <1>5, <1>6, <1>7, <1>8, <1>9, <1>10, <1>11, TableOids

\* Every column is read from an attribute.
LEMMA ColumnAttribute ==
  ASSUME NEW t \in Table, NEW c \in DOMAIN Columns[t]
  PROVE  Columns[t][c] \in Attribute
<1>1. CASE t \in {"lldpConfigManAddrTable", "lldpLocChassisId", "lldpLocPortTable",
                  "lldpLocManAddrTable"}
  BY <1>1 DEF Columns, lldpConfigManAddrTable, lldpLocChassisId, lldpLocPortTable,
              lldpLocManAddrTable, Attribute
<1>2. CASE t = "lldpRemTable"
  <2>1. Columns[t] = lldpRemTable
    BY <1>2 DEF Columns
  <2>2. c \in 4 .. 8
    BY <2>1 DEF lldpRemTable
  <2>3. c \in {4, 5} \/ c \in {6, 7} \/ c = 8
    BY <2>2
  <2> QED
    BY <2>1, <2>2, <2>3 DEF lldpRemTable, Attribute
<1>3. CASE t \in {"lldpRemManAddrTable", "lldpXPnoLocTable", "lldpXPnoRemTable",
                  "lldpXdot3LocPortTable", "lldpXdot3RemPortTable"}
  BY <1>3 DEF Columns, lldpRemManAddrTable, lldpXPnoLocTable, lldpXPnoRemTable,
              lldpXdot3LocPortTable, lldpXdot3RemPortTable, Attribute
<1> QED
  BY <1>1, <1>2, <1>3, TableOids

\* Row indices are object identifiers.
LEMMA RowTypes ==
  /\ ScalarRow \in Seq(Nat) /\ LocalInterfaceRow \in Seq(Nat)
  /\ \A p \in Port : LocalPortRow(p) \in Seq(Nat)
  /\ \A p \in Port, time \in 0 .. MaxTime : RemoteDeviceRow(time, p) \in Seq(Nat)
  /\ \A p \in Port, time \in 0 .. MaxTime, who \in Peer :
       RemoteInterfaceRow(time, p, who) \in Seq(Nat)
<1>1. \A who \in Peer \cup {Local} : Address[who] \in Seq(Nat)
  BY LldpTablesAssumption
<1>2. Port \subseteq Nat /\ 0 .. MaxTime \subseteq Nat
  BY LldpTablesAssumption DEF Port
<1>3. ScalarRow \in Seq(Nat) /\ LocalInterfaceRow \in Seq(Nat)
  BY <1>1 DEF ScalarRow, LocalInterfaceRow
<1>4. ASSUME NEW p \in Port PROVE LocalPortRow(p) \in Seq(Nat)
  BY <1>2 DEF LocalPortRow
<1>5. ASSUME NEW p \in Port, NEW time \in 0 .. MaxTime
      PROVE  RemoteDeviceRow(time, p) \in Seq(Nat)
  BY <1>2 DEF RemoteDeviceRow
<1>6. ASSUME NEW p \in Port, NEW time \in 0 .. MaxTime, NEW who \in Peer
      PROVE  RemoteInterfaceRow(time, p, who) \in Seq(Nat)
  <2> DEFINE device == <<time, p, p>>
             address == Address[who]
  <2>1. device \in Seq(Nat) /\ address \in Seq(Nat)
    BY <1>1, <1>2
  <2> HIDE DEF device, address
  <2>2. device \o address \in Seq(Nat)
    BY <2>1
  <2> QED
    BY <2>2 DEF RemoteInterfaceRow, device, address
<1> QED
  BY <1>3, <1>4, <1>5, <1>6

-----------------------------------------------------------------------------
(* The inductive invariant.                                                *)

TypeInv ==
  /\ peer \in [Port -> [who : Peer, since : 0 .. MaxTime] \cup {None}]
  /\ now \in 0 .. MaxTime
  /\ pc \in {"idle", "scan", "address", "value", "none"}
  /\ req.op \in {"none", "get", "next"} /\ req.table \in Table
  /\ req.column \in Nat /\ req.row \in Seq(Nat)
  /\ table \in Table /\ column \in Nat /\ row \in Seq(Nat)
  /\ pc # "idle" => column \in DOMAIN Columns[table] /\ port \in Port
  /\ pc = "address" => table \in RemoteInterface
  /\ port \in Port \cup {0}
  /\ mark \in 0 .. MaxTime
  /\ best = None \/ (best.row \in Seq(Nat) /\ best.port \in Port)
  /\ answer.status \in Status /\ answer.table \in Table
  /\ answer.column \in Nat /\ answer.row \in Seq(Nat)
  /\ answer.status = "value" => answer.column \in DOMAIN Columns[answer.table]
  /\ quiet \in BOOLEAN
  /\ existed \subseteq Seq(Nat)

\* The rows the table has are among those it has had; so are the best row so
\* far, and the one that was found.
ExistInv ==
  /\ pc # "idle" => Rows(table) \subseteq existed
  /\ pc # "idle" /\ table \notin RemoteInterface =>
       /\ best # None => best.row \in existed
       /\ pc = "value" => row \in existed
  /\ DeviceRowExisted

\* The server is at the column that was asked for, or has moved on; there it
\* looks for a row after the one that was asked for.
MovesOn ==
  \/ table = req.table /\ req.column <= column
  \/ OidLess(Oid[req.table], Oid[table])

SameColumn == table = req.table /\ column = req.column

AdvanceInv ==
  /\ pc # "idle" /\ req.op = "next" =>
       /\ MovesOn
       /\ pc \in {"scan", "address"} =>
            /\ SameColumn => row = req.row
            /\ best # None => OidLess(row, best.row)
       /\ pc = "value" /\ SameColumn => OidLess(req.row, row)
  /\ RowAdvances

IInv == TypeInv /\ ExistInv /\ AdvanceInv

\* The rows of a table, of which those of a port are what the server reads.
LEMMA RowsType ==
  ASSUME TypeInv, NEW t
  PROVE  Rows(t) \subseteq Seq(Nat)
<1>1. \A p \in Port : peer[p] # None => peer[p].who \in Peer /\ peer[p].since \in 0 .. MaxTime
  BY DEF TypeInv
<1> QED
  BY <1>1, RowTypes DEF Rows

LEMMA InitInv == Init => IInv
<1> SUFFICES ASSUME Init PROVE IInv
  OBVIOUS
<1>1. /\ pc = "idle" /\ req = NoRequest /\ table = "lldpRemTable" /\ column = 0 /\ row = <<>>
      /\ port = 0 /\ mark = 0 /\ best = None /\ answer = NoAnswer /\ quiet = TRUE /\ existed = {}
      /\ peer = [p \in Port |-> None] /\ now = 0
  BY DEF Init, NoRequest
<1>2. "lldpRemTable" \in Table /\ <<>> \in Seq(Nat) /\ MaxTime \in Nat
  BY TableOids, LldpTablesAssumption
<1>3. /\ req.op = "none" /\ req.table = "lldpRemTable" /\ req.column = 0 /\ req.row = <<>>
      /\ answer.status = "none" /\ answer.table = "lldpRemTable" /\ answer.column = 0
      /\ answer.row = <<>>
  BY <1>1 DEF NoRequest, NoAnswer
<1>4. TypeInv
  BY <1>1, <1>2, <1>3 DEF TypeInv, Status
<1>5. ExistInv /\ AdvanceInv
  BY <1>1, <1>3 DEF ExistInv, AdvanceInv, DeviceRowExisted, RowAdvances, Found
<1> QED
  BY <1>4, <1>5 DEF IInv

-----------------------------------------------------------------------------
(* The stack.                                                              *)

LEMMA ArriveStep ==
  ASSUME IInv, NEW p \in Port, NEW who \in Peer, NEW time \in 0 .. MaxTime, Arrive(p, who, time)
  PROVE  IInv'
<1>1. /\ now' = time /\ peer' = [peer EXCEPT ![p] = [who |-> who, since |-> time]]
      /\ quiet' = FALSE
      /\ UNCHANGED <<pc, req, table, column, row, port, mark, best, answer>>
      /\ existed' = IF pc = "idle" THEN existed ELSE existed \cup Rows(table)'
  BY DEF Arrive, serverVars
<1>2. peer' \in [Port -> [who : Peer, since : 0 .. MaxTime] \cup {None}]
  BY <1>1 DEF IInv, TypeInv
<1>3. Rows(table)' \subseteq Seq(Nat)
  <2>1. \A q \in Port : peer'[q] # None =>
          peer'[q].who \in Peer /\ peer'[q].since \in 0 .. MaxTime
    BY <1>2
  <2> QED
    BY <2>1, RowTypes DEF Rows
<1>4. TypeInv'
  BY <1>1, <1>2, <1>3 DEF IInv, TypeInv
<1>5. ExistInv'
  BY <1>1 DEF IInv, ExistInv, DeviceRowExisted, Found
<1>6. AdvanceInv'
  BY <1>1 DEF IInv, AdvanceInv, RowAdvances, Found, CellLess, MovesOn, SameColumn
<1> QED
  BY <1>4, <1>5, <1>6 DEF IInv

LEMMA LeaveStep ==
  ASSUME IInv, NEW p \in Port, Leave(p)
  PROVE  IInv'
<1>1. /\ peer' = [peer EXCEPT ![p] = None] /\ quiet' = FALSE
      /\ UNCHANGED <<now, pc, req, table, column, row, port, mark, best, answer, existed>>
  BY DEF Leave, serverVars
<1>2. /\ peer' \in [Port -> [who : Peer, since : 0 .. MaxTime] \cup {None}]
      /\ \A q \in Port : peer'[q] # None => peer'[q] = peer[q] /\ peer[q] # None
  BY <1>1 DEF IInv, TypeInv
<1>3. Rows(table)' \subseteq Rows(table)
  BY <1>1, <1>2 DEF Rows, HasAddress
<1>4. TypeInv'
  BY <1>1, <1>2 DEF IInv, TypeInv
<1>5. ExistInv'
  BY <1>1, <1>3 DEF IInv, ExistInv, DeviceRowExisted, Found
<1>6. AdvanceInv'
  BY <1>1 DEF IInv, AdvanceInv, RowAdvances, Found, CellLess, MovesOn, SameColumn
<1> QED
  BY <1>4, <1>5, <1>6 DEF IInv

-----------------------------------------------------------------------------
(* The manager.                                                            *)

LEMMA RequestStep ==
  ASSUME IInv, NEW o \in {"get", "next"}, NEW t \in Table, NEW c \in DOMAIN Columns[t],
         NEW r \in Seq(Nat), Request(o, t, c, r)
  PROVE  IInv'
<1>1. /\ req' = [op |-> o, table |-> t, column |-> c, row |-> r]
      /\ table' = t /\ column' = c /\ row' = r /\ port' = 1 /\ best' = None /\ pc' = "scan"
      /\ answer' = NoAnswer /\ quiet' = TRUE /\ existed' = Rows(t)
      /\ UNCHANGED <<peer, now, mark>>
  BY DEF Request
<1>2. /\ c \in Nat /\ 1 \in Port /\ "lldpRemTable" \in Table /\ Rows(t) \subseteq Seq(Nat)
  <2>1. c \in Nat
    BY TableColumns
  <2>2. 1 \in Port
    BY LldpTablesAssumption DEF Port
  <2>3. "lldpRemTable" \in Table
    BY TableOids
  <2>4. Rows(t) \subseteq Seq(Nat)
    BY RowsType DEF IInv
  <2> QED
    BY <2>1, <2>2, <2>3, <2>4
<1>3. /\ req'.op = o /\ req'.table = t /\ req'.column = c /\ req'.row = r
      /\ answer'.status = "none" /\ answer'.table = "lldpRemTable" /\ answer'.column = 0
      /\ answer'.row = <<>>
  BY <1>1 DEF NoAnswer
<1>4. TypeInv'
  BY <1>1, <1>2, <1>3 DEF IInv, TypeInv, Status
<1>5. ExistInv'
  <2>1. Rows(table)' = Rows(t)
    BY <1>1 DEF Rows, HasAddress
  <2> QED
    BY <1>1, <2>1 DEF ExistInv, DeviceRowExisted, Found
<1>6. AdvanceInv'
  BY <1>1, <1>2, <1>3 DEF AdvanceInv, RowAdvances, Found, MovesOn, SameColumn
<1> QED
  BY <1>4, <1>5, <1>6 DEF IInv

LEMMA ManagerStep ==
  ASSUME IInv, Manager
  PROVE  IInv'
<1>1. ASSUME NEW t \in Table, StartWalk(t) PROVE IInv'
  <2>1. FirstColumn(t) \in DOMAIN Columns[t] /\ <<>> \in Seq(Nat)
    BY TableColumns
  <2>2. Request("next", t, FirstColumn(t), <<>>)
    BY <1>1 DEF StartWalk
  <2> QED
    BY <2>1, <2>2, RequestStep
<1>2. CASE ContinueWalk
  <2>1. /\ answer.table \in Table /\ answer.column \in DOMAIN Columns[answer.table]
        /\ answer.row \in Seq(Nat)
    BY <1>2 DEF ContinueWalk, IInv, TypeInv
  <2> QED
    BY <1>2, <2>1, RequestStep DEF ContinueWalk
<1>3. ASSUME NEW t \in Table, NEW c \in DOMAIN Columns[t], GetCell(t, c) PROVE IInv'
  <2>1. PICK r \in Rows(t) \cup (IF answer.table = t THEN {answer.row} ELSE {}) :
          Request("get", t, c, r)
    BY <1>3 DEF GetCell
  <2>2. r \in Seq(Nat)
    BY RowsType DEF IInv, TypeInv
  <2> QED
    BY <2>1, <2>2, RequestStep
<1> QED
  BY <1>1, <1>2, <1>3 DEF Manager

-----------------------------------------------------------------------------
(* The server.                                                             *)

scanUnchanged == <<peer, now, req, table, column, answer, quiet, existed>>

\* The iterator moves on with a best row that is after the one it looks for.
LEMMA AdvanceStep ==
  ASSUME IInv, pc \in {"scan", "address"}, NEW b, Advance(b),
         b # None => /\ b.row \in Seq(Nat) /\ b.port \in Port
                     /\ table \notin RemoteInterface => b.row \in existed
                     /\ req.op = "next" => OidLess(row, b.row),
         mark' \in 0 .. MaxTime, UNCHANGED scanUnchanged
  PROVE  IInv'
<1>1. /\ UNCHANGED <<peer, now, req, table, column, answer, quiet, existed>>
      /\ best' = b
      /\ \/ /\ port < Last(table) /\ port' = port + 1 /\ pc' = "scan" /\ row' = row
         \/ b = None /\ pc' = "none" /\ port' = port /\ row' = row
         \/ b # None /\ port' = b.port /\ row' = b.row /\ pc' = "value"
  BY DEF Advance, scanUnchanged
<1>2. port \in Port /\ row \in Seq(Nat) /\ column \in DOMAIN Columns[table]
  BY DEF IInv, TypeInv
<1>3. port < Last(table) => port + 1 \in Port
  BY <1>2, LldpTablesAssumption DEF Last, Port
<1>4. port' \in Port /\ row' \in Seq(Nat) /\ pc' \in {"scan", "none", "value"}
  BY <1>1, <1>2, <1>3
<1>5. TypeInv'
  BY <1>1, <1>2, <1>4 DEF IInv, TypeInv
<1>6. Rows(table)' = Rows(table)
  BY <1>1 DEF Rows, HasAddress
<1>7. ExistInv'
  BY <1>1, <1>6 DEF IInv, ExistInv, DeviceRowExisted, Found
<1>8. AdvanceInv'
  <2>1. RowAdvances'
    BY <1>1 DEF RowAdvances, Found
  <2>2. req.op = "next" => MovesOn /\ (SameColumn => row = req.row)
    BY DEF IInv, AdvanceInv
  <2>3. (MovesOn <=> MovesOn') /\ (SameColumn <=> SameColumn')
    BY <1>1 DEF MovesOn, SameColumn
  <2> QED
    BY <1>1, <2>1, <2>2, <2>3 DEF AdvanceInv
<1> QED
  BY <1>5, <1>7, <1>8 DEF IInv

\* A row that the table has is compared with the one that is looked for.
LEMMA CompareStep ==
  ASSUME IInv, pc \in {"scan", "address"}, NEW r \in Seq(Nat), Compare(r),
         table \notin RemoteInterface => r \in existed,
         mark' \in 0 .. MaxTime, UNCHANGED scanUnchanged
  PROVE  IInv'
<1>1. /\ best # None => /\ best.row \in Seq(Nat) /\ best.port \in Port
                        /\ table \notin RemoteInterface => best.row \in existed
                        /\ req.op = "next" => OidLess(row, best.row)
      /\ port \in Port
  BY DEF IInv, TypeInv, ExistInv, AdvanceInv
<1>2. CASE req.op = "next"
  <2> DEFINE b == Candidate(port, r)
  <2>1. Advance(b)
    BY <1>2 DEF Compare
  <2>2. b = best \/ (b.row = r /\ b.port = port /\ OidLess(row, r))
    BY DEF Candidate, Better
  <2>3. b # None => /\ b.row \in Seq(Nat) /\ b.port \in Port
                    /\ table \notin RemoteInterface => b.row \in existed
                    /\ req.op = "next" => OidLess(row, b.row)
    BY <1>1, <2>2
  <2> HIDE DEF b
  <2> QED
    BY <2>1, <2>3, AdvanceStep
<1>3. CASE req.op # "next" /\ r # row
  BY <1>1, <1>3, AdvanceStep DEF Compare
<1>4. CASE req.op # "next" /\ r = row
  <2>1. /\ UNCHANGED <<peer, now, req, table, column, answer, quiet, existed, row, port, best>>
        /\ pc' = "value"
    BY <1>4 DEF Compare, scanUnchanged
  <2>2. TypeInv'
    BY <2>1 DEF IInv, TypeInv
  <2>3. Rows(table)' = Rows(table)
    BY <2>1 DEF Rows, HasAddress
  <2>4. ExistInv'
    BY <1>4, <2>1, <2>3 DEF IInv, ExistInv, DeviceRowExisted, Found
  <2>5. AdvanceInv'
    BY <1>4, <2>1 DEF AdvanceInv, RowAdvances, Found
  <2> QED
    BY <2>2, <2>4, <2>5 DEF IInv
<1> QED
  BY <1>2, <1>3, <1>4

LEMMA ScanStep ==
  ASSUME IInv, ScanLocal \/ ScanRemoteDevice \/ ScanRemoteInterface \/ ScanAddress
  PROVE  IInv'
<1>1. /\ UNCHANGED scanUnchanged /\ pc \in {"scan", "address"}
      /\ port \in Port /\ mark \in 0 .. MaxTime /\ Rows(table) \subseteq existed
      /\ peer[port] # None => peer[port].who \in Peer /\ peer[port].since \in 0 .. MaxTime
  BY DEF ScanLocal, ScanRemoteDevice, ScanRemoteInterface, ScanAddress, scanUnchanged,
         IInv, TypeInv, ExistInv
<1>2. /\ best # None => /\ best.row \in Seq(Nat) /\ best.port \in Port
                        /\ table \notin RemoteInterface => best.row \in existed
                        /\ req.op = "next" => OidLess(row, best.row)
  BY <1>1 DEF IInv, TypeInv, ExistInv, AdvanceInv
<1>3. CASE ScanLocal
  <2> DEFINE r == IF table \in LocalPort THEN LocalPortRow(port)
                  ELSE IF table \in Scalar THEN ScalarRow ELSE LocalInterfaceRow
  <2>1. Compare(r) /\ mark' = mark /\ table \notin Remote
    BY <1>3 DEF ScanLocal
  <2>2. table \in LocalPort \cup Scalar \cup LocalInterface
    BY <2>1, TableOids
       DEF Remote, RemoteDevice, RemoteInterface, XPnoRemoteDevice, Xdot3RemoteDevice, LocalPort,
           XPnoLocalPort, Xdot3LocalPort, Scalar, LocalInterface, ConfigManAddr, LocManAddr,
           IInv, TypeInv
  <2>3. table \in LocalPort => table \notin Scalar /\ table \notin LocalInterface
    BY DEF LocalPort, XPnoLocalPort, Xdot3LocalPort, Scalar, LocalInterface, ConfigManAddr,
           LocManAddr
  <2>4. r \in Rows(table)
    BY <1>1, <2>2, <2>3 DEF Rows
  <2>5. r \in Seq(Nat)
    BY <1>1, RowTypes
  <2> HIDE DEF r
  <2> QED
    BY <1>1, <2>1, <2>4, <2>5, CompareStep
<1>4. CASE ScanRemoteDevice
  <2>1. mark' = mark /\ table \in RemoteDevice
    BY <1>4 DEF ScanRemoteDevice
  <2>2. CASE peer[port] # None
    <3> DEFINE r == RemoteDeviceRow(peer[port].since, port)
    <3>1. Compare(r)
      BY <1>4, <2>2 DEF ScanRemoteDevice
    <3>2. r \in Rows(table)
      BY <1>1, <2>1, <2>2
         DEF Rows, RemoteDevice, XPnoRemoteDevice, Xdot3RemoteDevice, LocalPort, XPnoLocalPort,
             Xdot3LocalPort, Scalar, LocalInterface, ConfigManAddr, LocManAddr
    <3>3. r \in Seq(Nat)
      BY <1>1, <2>2, RowTypes
    <3> HIDE DEF r
    <3> QED
      BY <1>1, <2>1, <3>1, <3>2, <3>3, CompareStep
  <2>3. CASE peer[port] = None
    BY <1>1, <1>2, <1>4, <2>1, <2>3, AdvanceStep DEF ScanRemoteDevice
  <2> QED
    BY <2>2, <2>3
<1>5. CASE ScanRemoteInterface
  <2>1. CASE peer[port] # None
    <3>1. /\ pc = "scan" /\ pc' = "address" /\ mark' = peer[port].since
          /\ table \in RemoteInterface
          /\ UNCHANGED <<peer, now, req, table, column, answer, quiet, existed, row, port, best>>
      BY <1>5, <2>1 DEF ScanRemoteInterface
    <3>2. TypeInv'
      BY <1>1, <2>1, <3>1 DEF IInv, TypeInv
    <3>3. Rows(table)' = Rows(table)
      BY <3>1 DEF Rows, HasAddress
    <3>4. ExistInv'
      BY <3>1, <3>3 DEF IInv, ExistInv, DeviceRowExisted, Found
    <3>5. AdvanceInv'
      BY <3>1 DEF IInv, AdvanceInv, RowAdvances, Found, MovesOn, SameColumn
    <3> QED
      BY <3>2, <3>4, <3>5 DEF IInv
  <2>2. CASE peer[port] = None
    <3>1. Advance(best) /\ mark' = mark
      BY <1>5, <2>2 DEF ScanRemoteInterface
    <3> QED
      BY <1>1, <1>2, <3>1, AdvanceStep
  <2> QED
    BY <2>1, <2>2
<1>6. CASE ScanAddress
  <2>1. mark' = mark /\ pc = "address"
    BY <1>6 DEF ScanAddress
  <2>2. CASE peer[port] # None /\ HasAddress(port)
    <3> DEFINE r == RemoteInterfaceRow(mark, port, peer[port].who)
    <3>1. Compare(r)
      BY <1>6, <2>2 DEF ScanAddress
    <3>2. r \in Seq(Nat)
      BY <1>1, <2>2, RowTypes
    <3>3. table \in RemoteInterface
      BY <2>1 DEF IInv, TypeInv
    <3> HIDE DEF r
    <3> QED
      BY <1>1, <2>1, <3>1, <3>2, <3>3, CompareStep
  <2>3. CASE ~ (peer[port] # None /\ HasAddress(port))
    <3>1. Advance(best)
      BY <1>6, <2>3 DEF ScanAddress
    <3> QED
      BY <1>1, <1>2, <2>1, <3>1, AdvanceStep
  <2> QED
    BY <2>2, <2>3
<1> QED
  BY <1>3, <1>4, <1>5, <1>6

LEMMA AnswerStep ==
  ASSUME IInv, pc # "idle", NEW status \in Status, NEW value, Answer(status, value),
         status = "value" => pc = "value"
  PROVE  IInv'
<1>1. /\ answer' = [status |-> status, table |-> table, column |-> column, row |-> row,
                    value |-> value]
      /\ pc' = "idle"
      /\ UNCHANGED <<peer, now, req, table, column, row, port, mark, best, quiet, existed>>
  BY DEF Answer
<1>2. /\ answer'.status = status /\ answer'.table = table /\ answer'.column = column
      /\ answer'.row = row
  BY <1>1
<1>3. TypeInv'
  BY <1>1, <1>2 DEF IInv, TypeInv
<1>4. ExistInv'
  BY <1>1, <1>2 DEF IInv, ExistInv, DeviceRowExisted, Found
<1>5. AdvanceInv'
  <2>1. ASSUME status = "value", req.op = "next" PROVE CellLess(req, answer)'
    <3>1. MovesOn /\ (SameColumn => OidLess(req.row, row))
      BY <2>1 DEF IInv, AdvanceInv
    <3>2. req.column \in Nat /\ column \in Nat
      BY DEF IInv, TypeInv
    <3>3. \/ OidLess(Oid[req.table], Oid[table])
          \/ /\ req.table = table
             /\ req.column < column \/ (req.column = column /\ OidLess(req.row, row))
      BY <3>1, <3>2 DEF MovesOn, SameColumn
    <3> QED
      BY <1>1, <1>2, <3>3 DEF CellLess
  <2> QED
    BY <1>1, <1>2, <2>1 DEF AdvanceInv, RowAdvances, Found
<1> QED
  BY <1>3, <1>4, <1>5 DEF IInv

LEMMA NoValueStep ==
  ASSUME IInv, NoValue
  PROVE  IInv'
<1>1. /\ pc = "value" /\ pc' = "none"
      /\ UNCHANGED <<peer, now, req, table, column, row, port, mark, best, answer, quiet, existed>>
  BY DEF NoValue
<1>2. TypeInv'
  BY <1>1 DEF IInv, TypeInv
<1>3. Rows(table)' = Rows(table)
  BY <1>1 DEF Rows, HasAddress
<1>4. ExistInv'
  BY <1>1, <1>3 DEF IInv, ExistInv, DeviceRowExisted, Found
<1>5. AdvanceInv'
  BY <1>1 DEF IInv, AdvanceInv, RowAdvances, Found, MovesOn, SameColumn
<1> QED
  BY <1>2, <1>4, <1>5 DEF IInv

\* The server takes a later column, or a column of a later table.
LEMMA TurnStep ==
  ASSUME IInv, pc = "none", NEW t \in Table, NEW c \in DOMAIN Columns[t], TurnTo(t, c),
         (t = table /\ column < c) \/ OidLess(Oid[table], Oid[t])
  PROVE  IInv'
<1>1. /\ table' = t /\ column' = c /\ row' = <<>> /\ port' = 1 /\ best' = None /\ pc' = "scan"
      /\ existed' = Rows(t)
      /\ UNCHANGED <<peer, now, req, mark, answer, quiet>>
  BY DEF TurnTo
<1>2. c \in Nat /\ column \in Nat /\ req.column \in Nat
  BY TableColumns DEF IInv, TypeInv
<1>3. 1 \in Port /\ <<>> \in Seq(Nat)
  BY LldpTablesAssumption DEF Port
<1>4. Rows(t) \subseteq Seq(Nat)
  BY RowsType DEF IInv
<1>5. TypeInv'
  BY <1>1, <1>2, <1>3, <1>4 DEF IInv, TypeInv
<1>6. ExistInv'
  <2>1. Rows(table)' = Rows(t)
    BY <1>1 DEF Rows, HasAddress
  <2> QED
    BY <1>1, <2>1 DEF ExistInv, DeviceRowExisted, Found
<1>7. AdvanceInv'
  <2>1. ASSUME req.op = "next"
        PROVE  (t = req.table /\ req.column < c) \/ OidLess(Oid[req.table], Oid[t])
    <3>1. (table = req.table /\ req.column <= column) \/ OidLess(Oid[req.table], Oid[table])
      BY <2>1 DEF IInv, AdvanceInv, MovesOn
    <3>2. Oid[req.table] \in Seq(Nat) /\ Oid[table] \in Seq(Nat) /\ Oid[t] \in Seq(Nat)
      BY TableOids DEF IInv, TypeInv
    <3>3. CASE OidLess(Oid[req.table], Oid[table]) /\ OidLess(Oid[table], Oid[t])
      BY <3>2, <3>3, OidLessTransitive
    <3> QED
      BY <1>2, <3>1, <3>3
  <2>2. \A o, d \in Seq(Nat) : OidLess(o, d) => o # d
    BY DEF OidLess
  <2>3. ASSUME req.op = "next" PROVE MovesOn' /\ ~ SameColumn'
    <3>1. Oid[req.table] \in Seq(Nat) /\ Oid[t] \in Seq(Nat)
      BY TableOids DEF IInv, TypeInv
    <3>2. CASE t = req.table /\ req.column < c
      BY <1>1, <1>2, <3>2 DEF MovesOn, SameColumn
    <3>3. CASE OidLess(Oid[req.table], Oid[t])
      <4>1. t # req.table
        BY <2>2, <3>1, <3>3
      <4> QED
        BY <1>1, <3>3, <4>1 DEF MovesOn, SameColumn
    <3> QED
      BY <2>1, <2>3, <3>2, <3>3
  <2> QED
    BY <1>1, <2>3 DEF AdvanceInv, RowAdvances, Found
<1> QED
  BY <1>5, <1>6, <1>7 DEF IInv

LEMMA ServerStep ==
  ASSUME IInv, Server
  PROVE  IInv'
<1>1. CASE ScanLocal \/ ScanRemoteDevice \/ ScanRemoteInterface \/ ScanAddress
  BY <1>1, ScanStep
<1>2. CASE ReadValue
  <2>1. PICK status \in Status, value \in {None, [owner |-> Owner, attribute |-> Wanted]} :
          Answer(status, value) /\ pc = "value"
    BY <1>2 DEF ReadValue, Status
  <2> QED
    BY <2>1, AnswerStep
<1>3. CASE NoValue
  BY <1>3, NoValueStep
<1>4. CASE NextColumn
  <2>1. PICK c \in LaterColumns : TurnTo(table, c)
    BY <1>4 DEF NextColumn
  <2>2. /\ pc = "none" /\ table \in Table /\ c \in DOMAIN Columns[table] /\ column < c
    BY <1>4, <2>1 DEF NextColumn, LaterColumns, IInv, TypeInv
  <2> QED
    BY <2>1, <2>2, TurnStep
<1>5. CASE NextTable
  <2>1. PICK t \in LaterTables : TurnTo(t, FirstColumn(t))
    BY <1>5 DEF NextTable
  <2>2. pc = "none" /\ t \in Table /\ OidLess(Oid[table], Oid[t])
    BY <1>5, <2>1 DEF NextTable, LaterTables
  <2>3. FirstColumn(t) \in DOMAIN Columns[t]
    BY <2>2, TableColumns
  <2> QED
    BY <2>1, <2>2, <2>3, TurnStep
<1>6. CASE NoSuchInstance
  BY <1>6, AnswerStep DEF NoSuchInstance, Status
<1> QED
  BY <1>1, <1>2, <1>3, <1>4, <1>5, <1>6 DEF Server

LEMMA StepKeepsInv == IInv /\ [Next]_vars => IInv'
<1> SUFFICES ASSUME IInv, [Next]_vars PROVE IInv'
  OBVIOUS
<1>1. CASE Stack
  BY <1>1, ArriveStep, LeaveStep DEF Stack
<1>2. CASE UNCHANGED vars
  <2>1. UNCHANGED <<peer, now, pc, req, table, column, row, port, mark, best, answer, quiet,
                    existed>>
    BY <1>2 DEF vars, serverVars
  <2>2. Rows(table)' = Rows(table)
    BY <2>1 DEF Rows, HasAddress
  <2>3. TypeInv' /\ ExistInv'
    BY <2>1, <2>2 DEF IInv, TypeInv, ExistInv, DeviceRowExisted, Found
  <2>4. AdvanceInv'
    BY <2>1 DEF IInv, AdvanceInv, RowAdvances, Found, CellLess, MovesOn, SameColumn
  <2> QED
    BY <2>3, <2>4 DEF IInv
<1> QED
  BY <1>1, <1>2, ManagerStep, ServerStep DEF Next

THEOREM IInvInvariant == Spec => []IInv
  BY InitInv, StepKeepsInv, PTL DEF Spec

-----------------------------------------------------------------------------
(* While peers stay: what a request finds is nearest, and nothing is       *)
(* missed.                                                                 *)

\* The rows that the server can read of one port
RowsAt(t, p) ==
  IF t \in Scalar THEN {ScalarRow}
  ELSE IF t \in LocalInterface THEN {LocalInterfaceRow}
  ELSE IF t \in LocalPort THEN {LocalPortRow(p)}
  ELSE IF peer[p] = None THEN {}
  ELSE IF t \in RemoteDevice THEN {RemoteDeviceRow(peer[p].since, p)}
  ELSE IF HasAddress(p) THEN {RemoteInterfaceRow(peer[p].since, p, peer[p].who)}
  ELSE {}

\* A table has the rows of the ports that are visited.
LEMMA RowsByPort ==
  ASSUME NEW t \in Table
  PROVE  \A r : r \in Rows(t) <=> \E p \in 1 .. Last(t) : r \in RowsAt(t, p)
<1>1. CASE t \in Scalar \cup LocalInterface
  <2>1. Last(t) = 1 /\ 1 \in 1 .. 1
    BY <1>1 DEF Last
  <2> QED
    BY <1>1, <2>1 DEF Rows, RowsAt
<1>2. CASE t \notin Scalar \cup LocalInterface
  <2>1. 1 .. Last(t) = Port
    BY <1>2 DEF Last, Port
  <2> QED
    BY <1>2, <2>1 DEF Rows, RowsAt
<1> QED
  BY <1>1, <1>2

LEMMA LastIsPort == \A t : Last(t) \in Port /\ 1 .. Last(t) \subseteq Port /\ 1 <= Last(t)
BY LldpTablesAssumption DEF Last, Port

\* Rows are object identifiers of at least one number.
LEMMA RowsNotEmpty ==
  ASSUME TypeInv, NEW t \in Table, NEW r \in Rows(t)
  PROVE  r \in Seq(Nat) /\ r # <<>>
<1>1. \A p \in Port : peer[p] # None => peer[p].who \in Peer /\ peer[p].since \in 0 .. MaxTime
  BY DEF TypeInv
<1>2. \A who \in Peer \cup {Local} : Address[who] \in Seq(Nat) /\ Address[who] # <<>>
  BY LldpTablesAssumption
<1>3. ScalarRow # <<>> /\ LocalInterfaceRow # <<>>
  BY <1>2 DEF ScalarRow, LocalInterfaceRow
<1>4. ASSUME NEW p PROVE LocalPortRow(p) # <<>>
  BY DEF LocalPortRow
<1>5. ASSUME NEW p, NEW time PROVE RemoteDeviceRow(time, p) # <<>>
  BY DEF RemoteDeviceRow
<1>6. ASSUME NEW p \in Port, NEW time \in 0 .. MaxTime, NEW who \in Peer
      PROVE  RemoteInterfaceRow(time, p, who) # <<>>
  <2> DEFINE device == <<time, p, p>>
             address == Address[who]
  <2>1. device \in Seq(Nat) /\ Len(device) = 3 /\ address \in Seq(Nat)
    BY <1>2, LldpTablesAssumption DEF Port
  <2> HIDE DEF device, address
  <2>2. Joins(device \o address, device, address)
    BY <2>1, Concatenation
  <2>3. Len(device \o address) # 0
    BY <2>1, <2>2 DEF Joins
  <2>4. device \o address # <<>>
    BY <2>3
  <2> QED
    BY <2>4 DEF RemoteInterfaceRow, device, address
<1>7. r # <<>>
  BY <1>1, <1>3, <1>4, <1>5, <1>6 DEF Rows
<1> QED
  BY <1>7, RowsType

\* The second number of a remote row is the port.
LEMMA RowPort ==
  ASSUME TypeInv, NEW t \in Table, t \in Remote, NEW p \in Port, NEW r \in RowsAt(t, p)
  PROVE  r[2] = p
<1>1. peer[p] # None => peer[p].who \in Peer /\ peer[p].since \in 0 .. MaxTime
  BY DEF TypeInv
<1>2. t \notin Scalar /\ t \notin LocalInterface /\ t \notin LocalPort
  BY DEF Remote, RemoteDevice, RemoteInterface, XPnoRemoteDevice, Xdot3RemoteDevice, LocalPort,
         XPnoLocalPort, Xdot3LocalPort, Scalar, LocalInterface, ConfigManAddr, LocManAddr
<1>3. ASSUME NEW time \in 0 .. MaxTime, NEW who \in Peer
      PROVE  RemoteDeviceRow(time, p)[2] = p /\ RemoteInterfaceRow(time, p, who)[2] = p
  <2> DEFINE device == <<time, p, p>>
             address == Address[who]
  <2>1. /\ device \in Seq(Nat) /\ Len(device) = 3 /\ device[2] = p /\ 2 \in 1 .. 3
        /\ address \in Seq(Nat)
    BY LldpTablesAssumption DEF Port
  <2> HIDE DEF device, address
  <2>2. Joins(device \o address, device, address)
    BY <2>1, Concatenation
  <2>3. (device \o address)[2] = p
    BY <2>1, <2>2 DEF Joins
  <2> QED
    BY <2>1, <2>3 DEF RemoteDeviceRow, RemoteInterfaceRow, device, address
<1> QED
  BY <1>1, <1>2, <1>3 DEF RowsAt

\* Where the search in a column starts, and the rows it is about.
Start == IF SameColumn THEN req.row ELSE <<>>
Sought(r) == IF req.op = "next" THEN OidLess(Start, r) ELSE r = Start

\* While peers stay: the best row so far is the nearest of the ports that have
\* been visited; a get finds its row or has not met it.
ScanInv ==
  pc \in {"scan", "address"} =>
    /\ row = Start /\ port <= Last(table)
    /\ best # None =>
         /\ req.op = "next" /\ OidLess(row, best.row)
         /\ best.port \in 1 .. Last(table) /\ best.row \in RowsAt(table, best.port)
    /\ \A q \in 1 .. port - 1 : \A r \in RowsAt(table, q) :
         Sought(r) => best # None /\ ~ OidLess(r, best.row)
    /\ pc = "address" => peer[port] # None /\ mark = peer[port].since

ValueInv ==
  pc = "value" =>
    /\ port <= Last(table) /\ row \in RowsAt(table, port) /\ Sought(row)
    /\ req.op = "next" => \A r \in Rows(table) : Sought(r) => ~ OidLess(r, row)

\* A cell that a request which fails or goes on leaves behind
Missing(cell) ==
  IF req.op = "get"
  THEN cell.table = req.table /\ cell.column = req.column /\ cell.row = req.row => ~ Valued(cell)
  ELSE CellLess(req, cell) => Hidden(req, cell)

NoneInv ==
  pc = "none" =>
    \A cell \in Cell : cell.table = table /\ cell.column = column => Missing(cell)

\* A column or table is left when its other cells are hidden.
CellBefore(cell) ==
  \/ OidLess(Oid[cell.table], Oid[table])
  \/ cell.table = table /\ cell.column < column

PassedInv ==
  pc # "idle" /\ req.op = "next" =>
    \A cell \in Cell : CellBefore(cell) /\ CellLess(req, cell) => Hidden(req, cell)

RequestInv == pc # "idle" => req.op \in {"get", "next"} /\ (req.op = "get" => SameColumn)

NearInv == RequestInv /\ (quiet => ScanInv /\ ValueInv /\ NoneInv /\ PassedInv)

\* What depends on the peers and the request alone
LEMMA SamePeers ==
  ASSUME UNCHANGED <<peer, req>>
  PROVE  /\ Cell' = Cell
         /\ \A t : Rows(t)' = Rows(t)
         /\ \A cell : CellLess(req, cell)' <=> CellLess(req, cell)
         /\ \A cell : Valued(cell)' <=> Valued(cell)
         /\ \A cell : Hidden(req, cell)' <=> Hidden(req, cell)
         /\ \A cell : Missing(cell)' <=> Missing(cell)
<1>1. \A t : Rows(t)' = Rows(t)
  BY DEF Rows, HasAddress
<1>2. Cell' = Cell
  BY <1>1 DEF Cell, CellsOf
<1>3. \A cell : CellLess(req, cell)' <=> CellLess(req, cell)
  BY DEF CellLess
<1>4. \A cell : Valued(cell)' <=> Valued(cell)
  BY DEF Valued
<1>5. \A cell, gap : CellLess(cell, gap)' <=> CellLess(cell, gap)
  BY DEF CellLess
<1>6. \A cell : Hidden(req, cell)' <=> Hidden(req, cell)
  BY <1>2, <1>3, <1>4, <1>5 DEF Hidden
<1>7. \A cell : Missing(cell)' <=> Missing(cell)
  BY <1>3, <1>4, <1>6 DEF Missing
<1> QED
  BY <1>1, <1>2, <1>3, <1>4, <1>6, <1>7

\* What depends on the column that is searched, too
LEMMA SameSearch ==
  ASSUME UNCHANGED <<peer, req, table, column>>
  PROVE  /\ Start' = Start
         /\ \A r : Sought(r)' <=> Sought(r)
         /\ \A t, p : RowsAt(t, p)' = RowsAt(t, p)
         /\ \A cell : CellBefore(cell)' <=> CellBefore(cell)
<1>1. Start' = Start
  BY DEF Start, SameColumn
<1>2. \A t, p : RowsAt(t, p)' = RowsAt(t, p)
  BY DEF RowsAt, HasAddress
<1>3. \A r : Sought(r)' <=> Sought(r)
  BY <1>1 DEF Sought
<1>4. \A cell : CellBefore(cell)' <=> CellBefore(cell)
  BY DEF CellBefore
<1> QED
  BY <1>1, <1>2, <1>3, <1>4

\* The cells are those of the columns and rows of the tables.
LEMMA CellParts ==
  ASSUME NEW cell
  PROVE  cell \in Cell <=>
           \E t \in Table : \E c \in DOMAIN Columns[t] : \E r \in Rows(t) :
             cell = [table |-> t, column |-> c, row |-> r]
BY DEF Cell, CellsOf

\* In the column that the server is at, what comes after the request comes
\* after the start of the search.
LEMMA AfterStart ==
  ASSUME TypeInv, NEW cell \in Cell, cell.table = table, cell.column = column,
         CellLess(req, cell), req.op = "next"
  PROVE  cell.row \in Rows(table) /\ Sought(cell.row)
<1>0. PICK t \in Table : \E c \in DOMAIN Columns[t] : \E r \in Rows(t) :
        cell = [table |-> t, column |-> c, row |-> r]
  BY CellParts
<1>1. PICK c \in DOMAIN Columns[t], r \in Rows(t) :
        cell = [table |-> t, column |-> c, row |-> r]
  BY <1>0
<1>2. t = table /\ c = column /\ cell.row = r /\ r \in Seq(Nat) /\ r # <<>>
  BY <1>1, RowsNotEmpty
<1>3. CASE SameColumn
  <2>1. ~ OidLess(Oid[req.table], Oid[table])
    BY <1>3, TableOrder DEF SameColumn, TypeInv
  <2>2. ~ (column < column)
    BY DEF TypeInv
  <2>3. OidLess(req.row, r)
    BY <1>2, <1>3, <2>1, <2>2 DEF CellLess, SameColumn
  <2> QED
    BY <1>2, <1>3, <2>3 DEF Sought, Start
<1>4. CASE ~ SameColumn
  <2>1. OidLess(<<>>, r)
    BY <1>2, EmptyFirst
  <2> QED
    BY <1>2, <1>4, <2>1 DEF Sought, Start
<1> QED
  BY <1>3, <1>4

\* And the other way round, once the server has moved on.
LEMMA SoughtIsAfter ==
  ASSUME IInv, pc # "idle", req.op = "next", NEW cell, cell.table = table, cell.column = column,
         Sought(cell.row)
  PROVE  CellLess(req, cell)
<1>1. MovesOn /\ req.column \in Nat /\ column \in Nat
  BY DEF IInv, TypeInv, AdvanceInv
<1>2. SameColumn => OidLess(req.row, cell.row)
  BY DEF Sought, Start
<1> QED
  BY <1>1, <1>2 DEF MovesOn, SameColumn, CellLess

\* A port of a remote table that has a row has a peer.
LEMMA RemotePeer ==
  ASSUME NEW t \in Table, t \in Remote, NEW p \in Port, RowsAt(t, p) # {}
  PROVE  peer[p] # None
BY DEF RowsAt, Remote, RemoteDevice, RemoteInterface, XPnoRemoteDevice, Xdot3RemoteDevice,
       LocalPort, XPnoLocalPort, Xdot3LocalPort, Scalar, LocalInterface, ConfigManAddr,
       LocManAddr

\* A column without a row that is sought has nothing to miss.
LEMMA NothingSought ==
  ASSUME TypeInv, RequestInv, pc # "idle", \A r \in Rows(table) : ~ Sought(r),
         NEW cell \in Cell, cell.table = table, cell.column = column
  PROVE  Missing(cell)
<1>1. CASE req.op = "next"
  BY <1>1, AfterStart DEF Missing
<1>2. CASE req.op = "get"
  <2>1. cell.row \in Rows(table)
    <3>1. PICK t \in Table : \E c \in DOMAIN Columns[t] : \E r \in Rows(t) :
            cell = [table |-> t, column |-> c, row |-> r]
      BY CellParts
    <3> QED
      BY <3>1
  <2> QED
    BY <1>2, <2>1 DEF RequestInv, Sought, Start, Missing
<1> QED
  BY <1>1, <1>2 DEF RequestInv

\* The server is done with a port: b is the best row so far.
LEMMA ScanDone ==
  ASSUME IInv, NearInv, quiet, pc \in {"scan", "address"}, NEW b, Advance(b),
         UNCHANGED scanUnchanged,
         b # None => /\ req.op = "next" /\ OidLess(row, b.row)
                     /\ b.port \in 1 .. Last(table) /\ b.row \in RowsAt(table, b.port),
         \A q \in 1 .. port : \A r \in RowsAt(table, q) :
           Sought(r) => b # None /\ ~ OidLess(r, b.row)
  PROVE  NearInv'
<1>1. /\ UNCHANGED <<peer, req, table, column, quiet>>
      /\ best' = b
      /\ \/ /\ port < Last(table) /\ port' = port + 1 /\ pc' = "scan" /\ row' = row
         \/ ~ (port < Last(table)) /\ b = None /\ pc' = "none"
         \/ ~ (port < Last(table)) /\ b # None /\ port' = b.port /\ row' = b.row /\ pc' = "value"
  BY DEF Advance, scanUnchanged
<1>2. port \in Nat /\ Last(table) \in Nat /\ row = Start /\ port <= Last(table) /\ table \in Table
  BY LastIsPort, LldpTablesAssumption DEF IInv, TypeInv, NearInv, ScanInv, Port
<1>3. RequestInv'
  BY <1>1 DEF NearInv, RequestInv, SameColumn
<1>4. PassedInv'
  BY <1>1, SamePeers, SameSearch DEF NearInv, PassedInv
<1>5. CASE port < Last(table)
  <2>1. /\ port' = port + 1 /\ pc' = "scan" /\ row' = row /\ Last(table)' = Last(table)
    BY <1>1, <1>5 DEF Last
  <2>2. port' - 1 = port /\ port' <= Last(table)
    BY <1>2, <1>5, <2>1
  <2>3. ScanInv'
    BY <1>1, <1>2, <2>1, <2>2, SameSearch DEF ScanInv
  <2> QED
    BY <1>3, <1>4, <2>1, <2>3 DEF NearInv, ValueInv, NoneInv
<1>6. CASE ~ (port < Last(table))
  <2>1. port = Last(table)
    BY <1>2, <1>6
  <2>2. \A r \in Rows(table) : Sought(r) => b # None /\ ~ OidLess(r, b.row)
    BY <1>2, <2>1, RowsByPort
  <2>3. CASE b = None
    <3>1. pc' = "none"
      BY <1>1, <1>6, <2>3
    <3>2. \A cell \in Cell : cell.table = table /\ cell.column = column => Missing(cell)
      BY <2>2, <2>3, NothingSought DEF IInv, NearInv
    <3>3. NoneInv'
      BY <1>1, <3>2, SamePeers DEF NoneInv
    <3> QED
      BY <1>3, <1>4, <3>1, <3>3 DEF NearInv, ScanInv, ValueInv
  <2>4. CASE b # None
    <3>1. port' = b.port /\ row' = b.row /\ pc' = "value" /\ Last(table)' = Last(table)
      BY <1>1, <1>6, <2>4 DEF Last
    <3>2. Sought(b.row) /\ b.row \in RowsAt(table, b.port) /\ b.port <= Last(table)
      BY <1>2, <2>4 DEF Sought
    <3>3. ValueInv'
      BY <1>1, <2>2, <2>4, <3>1, <3>2, SamePeers, SameSearch DEF ValueInv
    <3> QED
      BY <1>3, <1>4, <3>1, <3>3 DEF NearInv, ScanInv, NoneInv
  <2> QED
    BY <2>3, <2>4
<1> QED
  BY <1>5, <1>6

\* The row of the port is compared, and it is the port's only one.
LEMMA CompareNear ==
  ASSUME IInv, NearInv, quiet, pc \in {"scan", "address"}, NEW r \in Seq(Nat), Compare(r),
         RowsAt(table, port) = {r}, UNCHANGED scanUnchanged
  PROVE  NearInv'
<1>a. /\ row = Start /\ row \in Seq(Nat) /\ port \in Port /\ port <= Last(table)
      /\ req.op \in {"get", "next"}
  BY DEF IInv, TypeInv, NearInv, ScanInv, RequestInv
<1>1. /\ row = Start /\ row \in Seq(Nat) /\ port \in Port /\ port \in Nat /\ port <= Last(table)
      /\ port \in 1 .. Last(table) /\ \A q \in 1 .. port : q = port \/ q \in 1 .. port - 1
      /\ req.op \in {"get", "next"}
  <2>1. port \in 1 .. NumPorts /\ Last(table) \in 1 .. NumPorts /\ NumPorts \in Nat
    BY <1>a, LldpTablesAssumption, LastIsPort DEF Port
  <2>2. port \in 1 .. Last(table) /\ \A q \in 1 .. port : q = port \/ q \in 1 .. port - 1
    BY <1>a, <2>1
  <2> QED
    BY <1>a, <2>1, <2>2
<1>2. /\ best # None =>
           /\ req.op = "next" /\ OidLess(row, best.row) /\ best.row \in Seq(Nat)
           /\ best.port \in 1 .. Last(table) /\ best.row \in RowsAt(table, best.port)
      /\ \A q \in 1 .. port - 1 : \A s \in RowsAt(table, q) :
           Sought(s) => best # None /\ ~ OidLess(s, best.row)
  BY DEF IInv, TypeInv, NearInv, ScanInv
<1>3. \A q \in 1 .. port : \A s \in RowsAt(table, q) : s \in Seq(Nat)
  <2>1. \A q \in 1 .. port : q \in 1 .. Last(table)
    BY <1>1, LastIsPort, LldpTablesAssumption DEF Port
  <2> QED
    BY <2>1, RowsByPort, RowsType DEF IInv, TypeInv
<1>4. CASE req.op = "next" /\ Better(r)
  <2> DEFINE b == [row |-> r, port |-> port]
  <2>1. Advance(b)
    BY <1>4 DEF Compare, Candidate
  <2>2. b # None /\ b.row = r /\ b.port = port
    BY <1>1, LldpTablesAssumption
  <2>3. OidLess(row, r) /\ (best # None => OidLess(r, best.row))
    BY <1>4 DEF Better
  <2>4. ASSUME NEW q \in 1 .. port, NEW s \in RowsAt(table, q), Sought(s) PROVE ~ OidLess(s, r)
    <3>1. CASE q = port
      BY <2>4, <3>1, OidLessAsymmetric
    <3>2. CASE q \in 1 .. port - 1
      <4>1. best # None /\ ~ OidLess(s, best.row)
        BY <1>2, <2>4, <3>2
      <4>2. s \in Seq(Nat) /\ best.row \in Seq(Nat) /\ OidLess(r, best.row)
        BY <1>2, <1>3, <2>3, <4>1
      <4> QED
        BY <4>1, <4>2, OidLessTransitive
    <3> QED
      BY <1>1, <3>1, <3>2
  <2> HIDE DEF b
  <2> QED
    BY <1>1, <1>4, <2>1, <2>2, <2>3, <2>4, ScanDone
<1>5. CASE req.op = "next" /\ ~ Better(r)
  <2>1. Advance(best)
    BY <1>5 DEF Compare, Candidate
  <2>2. Sought(r) => best # None /\ ~ OidLess(r, best.row)
    BY <1>1, <1>5 DEF Better, Sought
  <2>3. \A q \in 1 .. port : \A s \in RowsAt(table, q) :
          Sought(s) => best # None /\ ~ OidLess(s, best.row)
    BY <1>1, <1>2, <2>2
  <2> QED
    BY <1>2, <2>1, <2>3, ScanDone
<1>6. CASE req.op = "get" /\ r # row
  <2>1. Advance(best) /\ ~ Sought(r)
    BY <1>1, <1>6 DEF Compare, Sought
  <2>2. \A q \in 1 .. port : \A s \in RowsAt(table, q) :
          Sought(s) => best # None /\ ~ OidLess(s, best.row)
    BY <1>1, <1>2, <2>1
  <2> QED
    BY <1>2, <2>1, <2>2, ScanDone
<1>7. CASE req.op = "get" /\ r = row
  <2>1. pc' = "value" /\ UNCHANGED <<row, port, peer, req, table, column, quiet>>
    BY <1>7 DEF Compare, scanUnchanged
  <2>2. Last(table)' = Last(table) /\ Sought(row)
    BY <1>1, <1>7, <2>1 DEF Last, Sought
  <2>3. ValueInv'
    BY <1>1, <1>7, <2>1, <2>2, SamePeers, SameSearch DEF ValueInv
  <2>4. RequestInv'
    BY <2>1 DEF NearInv, RequestInv, SameColumn
  <2> QED
    BY <1>7, <2>1, <2>3, <2>4 DEF NearInv, ScanInv, NoneInv, PassedInv
<1> QED
  BY <1>1, <1>4, <1>5, <1>6, <1>7

\* A port that has no row is left out.
LEMMA SkipNear ==
  ASSUME IInv, NearInv, quiet, pc \in {"scan", "address"}, Advance(best),
         RowsAt(table, port) = {}, UNCHANGED scanUnchanged
  PROVE  NearInv'
<1>1. port \in Nat /\ \A q \in 1 .. port : q = port \/ q \in 1 .. port - 1
  BY LldpTablesAssumption DEF IInv, TypeInv, Port
<1>2. \A q \in 1 .. port : \A r \in RowsAt(table, q) :
        Sought(r) => best # None /\ ~ OidLess(r, best.row)
  BY <1>1 DEF NearInv, ScanInv
<1>3. best # None =>
         /\ req.op = "next" /\ OidLess(row, best.row)
         /\ best.port \in 1 .. Last(table) /\ best.row \in RowsAt(table, best.port)
  BY DEF NearInv, ScanInv
<1> QED
  BY <1>2, <1>3, ScanDone

LEMMA ScanNear ==
  ASSUME IInv, NearInv, ScanLocal \/ ScanRemoteDevice \/ ScanRemoteInterface \/ ScanAddress
  PROVE  NearInv'
<1>1. /\ UNCHANGED scanUnchanged /\ UNCHANGED <<peer, req, table, column, quiet>>
      /\ pc \in {"scan", "address"} /\ pc # "idle"
      /\ port \in Port /\ mark \in 0 .. MaxTime /\ table \in Table
      /\ peer[port] # None => peer[port].who \in Peer /\ peer[port].since \in 0 .. MaxTime
  BY DEF ScanLocal, ScanRemoteDevice, ScanRemoteInterface, ScanAddress, scanUnchanged,
         IInv, TypeInv
<1>2. CASE ~ quiet
  <2>1. RequestInv'
    BY <1>1 DEF NearInv, RequestInv, SameColumn
  <2> QED
    BY <1>1, <1>2, <2>1 DEF NearInv
<1>3. table \in Remote =>
        table \notin Scalar /\ table \notin LocalInterface /\ table \notin LocalPort
  BY DEF Remote, RemoteDevice, RemoteInterface, XPnoRemoteDevice, Xdot3RemoteDevice, LocalPort,
         XPnoLocalPort, Xdot3LocalPort, Scalar, LocalInterface, ConfigManAddr, LocManAddr
<1>4. CASE quiet /\ ScanLocal
  <2> DEFINE r == IF table \in LocalPort THEN LocalPortRow(port)
                  ELSE IF table \in Scalar THEN ScalarRow ELSE LocalInterfaceRow
  <2>1. Compare(r) /\ table \notin Remote
    BY <1>4 DEF ScanLocal
  <2>2. table \in LocalPort \cup Scalar \cup LocalInterface
    BY <1>1, <2>1, TableOids
       DEF Remote, RemoteDevice, RemoteInterface, XPnoRemoteDevice, Xdot3RemoteDevice, LocalPort,
           XPnoLocalPort, Xdot3LocalPort, Scalar, LocalInterface, ConfigManAddr, LocManAddr
  <2>3. table \in LocalPort => table \notin Scalar /\ table \notin LocalInterface
    BY DEF LocalPort, XPnoLocalPort, Xdot3LocalPort, Scalar, LocalInterface, ConfigManAddr,
           LocManAddr
  <2>4. RowsAt(table, port) = {r}
    BY <2>2, <2>3 DEF RowsAt
  <2>5. r \in Seq(Nat)
    BY <1>1, RowTypes
  <2> HIDE DEF r
  <2> QED
    BY <1>1, <1>4, <2>1, <2>4, <2>5, CompareNear
<1>5. CASE quiet /\ ScanRemoteDevice
  <2>1. table \in RemoteDevice /\ table \in Remote
    BY <1>5 DEF ScanRemoteDevice, Remote
  <2>2. CASE peer[port] # None
    <3> DEFINE r == RemoteDeviceRow(peer[port].since, port)
    <3>1. Compare(r)
      BY <1>5, <2>2 DEF ScanRemoteDevice
    <3>2. RowsAt(table, port) = {r}
      BY <1>3, <2>1, <2>2 DEF RowsAt
    <3>3. r \in Seq(Nat)
      BY <1>1, <2>2, RowTypes
    <3> HIDE DEF r
    <3> QED
      BY <1>1, <1>5, <3>1, <3>2, <3>3, CompareNear
  <2>3. CASE peer[port] = None
    <3>1. Advance(best)
      BY <1>5, <2>3 DEF ScanRemoteDevice
    <3>2. RowsAt(table, port) = {}
      BY <1>3, <2>1, <2>3 DEF RowsAt
    <3> QED
      BY <1>1, <1>5, <3>1, <3>2, SkipNear
  <2> QED
    BY <2>2, <2>3
<1>6. CASE quiet /\ ScanRemoteInterface
  <2>1. table \in RemoteInterface /\ table \in Remote /\ pc = "scan"
    BY <1>6 DEF ScanRemoteInterface, Remote
  <2>2. CASE peer[port] # None
    <3>1. pc' = "address" /\ mark' = peer[port].since /\ UNCHANGED <<row, port, best>>
      BY <1>6, <2>2 DEF ScanRemoteInterface
    <3>2. Last(table)' = Last(table)
      BY <1>1 DEF Last
    <3>3. ScanInv'
      BY <1>1, <1>6, <2>1, <2>2, <3>1, <3>2, SameSearch DEF NearInv, ScanInv
    <3>4. RequestInv' /\ PassedInv'
      BY <1>1, <1>6, SamePeers, SameSearch DEF NearInv, RequestInv, PassedInv, SameColumn
    <3> QED
      BY <3>1, <3>3, <3>4 DEF NearInv, ValueInv, NoneInv
  <2>3. CASE peer[port] = None
    <3>1. Advance(best)
      BY <1>6, <2>3 DEF ScanRemoteInterface
    <3>2. RowsAt(table, port) = {}
      BY <1>3, <2>1, <2>3 DEF RowsAt
    <3> QED
      BY <1>1, <1>6, <3>1, <3>2, SkipNear
  <2> QED
    BY <2>2, <2>3
<1>7. CASE quiet /\ ScanAddress
  <2>1. pc = "address" /\ table \in RemoteInterface /\ table \in Remote
    BY <1>7 DEF ScanAddress, IInv, TypeInv, Remote
  <2>2. table \notin RemoteDevice
    BY <2>1 DEF RemoteInterface, RemoteDevice, XPnoRemoteDevice, Xdot3RemoteDevice
  <2>3. peer[port] # None /\ mark = peer[port].since
    BY <1>7, <2>1 DEF NearInv, ScanInv
  <2>4. CASE HasAddress(port)
    <3> DEFINE r == RemoteInterfaceRow(mark, port, peer[port].who)
    <3>1. Compare(r)
      BY <1>7, <2>3, <2>4 DEF ScanAddress
    <3>2. RowsAt(table, port) = {r}
      BY <1>3, <2>1, <2>2, <2>3, <2>4 DEF RowsAt
    <3>3. r \in Seq(Nat)
      BY <1>1, <2>3, RowTypes
    <3> HIDE DEF r
    <3> QED
      BY <1>1, <1>7, <3>1, <3>2, <3>3, CompareNear
  <2>5. CASE ~ HasAddress(port)
    <3>1. Advance(best)
      BY <1>7, <2>5 DEF ScanAddress
    <3>2. RowsAt(table, port) = {}
      BY <1>3, <2>1, <2>2, <2>3, <2>5 DEF RowsAt
    <3> QED
      BY <1>1, <1>7, <3>1, <3>2, SkipNear
  <2> QED
    BY <2>4, <2>5
<1> QED
  BY <1>2, <1>4, <1>5, <1>6, <1>7

\* A cell is before the place that the server is at, there, or after it.
LEMMA CellPlace ==
  ASSUME TypeInv, NEW cell \in Cell
  PROVE  /\ cell.table \in Table /\ cell.column \in DOMAIN Columns[cell.table]
         /\ cell.column \in Nat
         /\ \/ CellBefore(cell)
            \/ cell.table = table /\ cell.column = column
            \/ cell.table = table /\ column < cell.column
            \/ cell.table # table /\ OidLess(Oid[table], Oid[cell.table])
<1>1. PICK t \in Table : \E c \in DOMAIN Columns[t] : \E r \in Rows(t) :
        cell = [table |-> t, column |-> c, row |-> r]
  BY CellParts
<1>2. cell.table \in Table /\ cell.column \in DOMAIN Columns[cell.table]
  BY <1>1
<1>3. cell.column \in Nat /\ column \in Nat
  BY <1>2, TableColumns DEF TypeInv
<1>4. \/ cell.table = table \/ OidLess(Oid[cell.table], Oid[table])
      \/ cell.table # table /\ OidLess(Oid[table], Oid[cell.table])
  BY <1>2, TableOrder DEF TypeInv
<1>5. cell.column < column \/ cell.column = column \/ column < cell.column
  BY <1>3
<1> QED
  BY <1>2, <1>3, <1>4, <1>5 DEF CellBefore

\* The server turns to the column that follows, so that it leaves out none.
LEMMA TurnNear ==
  ASSUME IInv, NearInv, pc = "none", req.op = "next",
         NEW t \in Table, NEW c \in DOMAIN Columns[t], TurnTo(t, c),
         (t = table /\ column < c) \/ OidLess(Oid[table], Oid[t]),
         \A cell \in Cell :
           CellBefore(cell)' => CellBefore(cell) \/ (cell.table = table /\ cell.column = column)
  PROVE  NearInv'
<1>1. /\ table' = t /\ column' = c /\ row' = <<>> /\ port' = 1 /\ best' = None /\ pc' = "scan"
      /\ UNCHANGED <<peer, req, quiet>>
  BY DEF TurnTo
<1>2. c \in Nat /\ column \in Nat /\ req.column \in Nat /\ table \in Table /\ req.table \in Table
  BY TableColumns DEF IInv, TypeInv
<1>3. ~ SameColumn'
  <2>1. (table = req.table /\ req.column <= column) \/ OidLess(Oid[req.table], Oid[table])
    BY DEF IInv, AdvanceInv, MovesOn
  <2>2. CASE t = table /\ column < c
    <3>1. ~ (c <= column)
      BY <1>2, <2>2
    <3>2. OidLess(Oid[req.table], Oid[table]) => t # req.table
      BY <1>2, <2>2, TableOrder
    <3>3. req.column <= column => c # req.column
      BY <3>1
    <3> QED
      BY <1>1, <2>1, <3>2, <3>3 DEF SameColumn
  <2>3. CASE OidLess(Oid[table], Oid[t])
    <3>1. table # t /\ ~ OidLess(Oid[t], Oid[table])
      BY <1>2, <2>3, TableOrder
    <3> QED
      BY <1>1, <2>1, <3>1 DEF SameColumn
  <2> QED
    BY <2>2, <2>3
<1>4. RequestInv'
  BY <1>1 DEF RequestInv
<1>5. ASSUME quiet PROVE ScanInv'
  <2>1. Start' = <<>>
    BY <1>3 DEF Start
  <2>2. 1 <= Last(t)
    BY LastIsPort
  <2>3. Last(table)' = Last(t) /\ \A q \in 1 .. port' - 1 : FALSE
    BY <1>1 DEF Last
  <2> QED
    BY <1>1, <2>1, <2>2, <2>3 DEF ScanInv
<1>6. ASSUME quiet PROVE PassedInv'
  <2>1. SUFFICES ASSUME NEW cell \in Cell', CellBefore(cell)', CellLess(req, cell)'
                 PROVE  Hidden(req, cell)'
    BY DEF PassedInv
  <2>2. cell \in Cell /\ CellLess(req, cell) /\ (Hidden(req, cell)' <=> Hidden(req, cell))
    BY <1>1, <2>1, SamePeers
  <2>3. PassedInv /\ NoneInv
    BY <1>6 DEF NearInv
  <2>4. CASE CellBefore(cell)
    BY <2>2, <2>3, <2>4 DEF PassedInv
  <2>5. CASE cell.table = table /\ cell.column = column
    BY <2>2, <2>3, <2>5 DEF NoneInv, Missing
  <2> QED
    BY <2>1, <2>2, <2>4, <2>5
<1> QED
  BY <1>1, <1>4, <1>5, <1>6 DEF NearInv, ValueInv, NoneInv

\* No column lies between a column and the least of the later ones.
LEMMA NextColumnNear ==
  ASSUME IInv, NearInv, NextColumn
  PROVE  NearInv'
<1>1. PICK c \in LaterColumns : (\A d \in LaterColumns : c <= d) /\ TurnTo(table, c)
  BY DEF NextColumn
<1>2. /\ pc = "none" /\ req.op = "next" /\ table \in Table /\ c \in DOMAIN Columns[table]
      /\ column < c
  BY <1>1 DEF NextColumn, LaterColumns, IInv, TypeInv
<1>3. table' = table /\ column' = c /\ c \in Nat
  BY <1>1, <1>2, TableColumns DEF TurnTo
<1>4. ASSUME NEW cell \in Cell, CellBefore(cell)'
      PROVE  CellBefore(cell) \/ (cell.table = table /\ cell.column = column)
  <2>1. OidLess(Oid[cell.table], Oid[table]) \/ (cell.table = table /\ cell.column < c)
    BY <1>3, <1>4 DEF CellBefore
  <2>2. ASSUME cell.table = table, cell.column < c, column < cell.column PROVE FALSE
    <3>1. cell.column \in LaterColumns /\ cell.column \in Nat
      BY <2>2, CellPlace DEF LaterColumns, IInv
    <3> QED
      BY <1>1, <1>3, <2>2, <3>1
  <2>3. OidLess(Oid[cell.table], Oid[table]) => CellBefore(cell)
    BY DEF CellBefore
  <2>4. OidLess(Oid[table], Oid[cell.table]) =>
          cell.table # table /\ ~ OidLess(Oid[cell.table], Oid[table])
    BY <1>2, CellPlace, TableOrder DEF IInv
  <2> QED
    BY <2>1, <2>2, <2>3, <2>4, CellPlace DEF IInv
<1> QED
  BY <1>1, <1>2, <1>4, TurnNear

LEMMA FirstColumnLeast ==
  ASSUME NEW t \in Table, NEW c \in DOMAIN Columns[t]
  PROVE  FirstColumn(t) <= c
<1>1. DOMAIN Columns[t] \subseteq Nat /\ DOMAIN Columns[t] # {}
  BY TableColumns
<1>2. \E m \in DOMAIN Columns[t] : \A d \in DOMAIN Columns[t] : m <= d
  BY <1>1, Least
<1> QED
  BY <1>2 DEF FirstColumn

\* Nor is there a table between.
LEMMA NextTableNear ==
  ASSUME IInv, NearInv, NextTable
  PROVE  NearInv'
<1>1. PICK t \in LaterTables : /\ \A u \in LaterTables : u = t \/ OidLess(Oid[t], Oid[u])
                               /\ TurnTo(t, FirstColumn(t))
  BY DEF NextTable
<1>2. /\ pc = "none" /\ req.op = "next" /\ LaterColumns = {} /\ table \in Table
      /\ t \in Table /\ OidLess(Oid[table], Oid[t])
  BY <1>1 DEF NextTable, LaterTables, IInv, TypeInv
<1>3. table' = t /\ column' = FirstColumn(t) /\ FirstColumn(t) \in DOMAIN Columns[t]
      /\ FirstColumn(t) \in Nat
  BY <1>1, <1>2, TableColumns DEF TurnTo
<1>4. ASSUME NEW cell \in Cell, CellBefore(cell)'
      PROVE  CellBefore(cell) \/ (cell.table = table /\ cell.column = column)
  <2>1. OidLess(Oid[cell.table], Oid[t]) \/ (cell.table = t /\ cell.column < FirstColumn(t))
    BY <1>3, <1>4 DEF CellBefore
  <2>2. /\ cell.table \in Table /\ cell.column \in DOMAIN Columns[cell.table]
        /\ cell.column \in Nat
    BY CellPlace DEF IInv
  <2>3. ~ (cell.table = t /\ cell.column < FirstColumn(t))
    BY <1>2, <1>3, <2>2, FirstColumnLeast
  <2>4. ASSUME cell.table = table, column < cell.column PROVE FALSE
    BY <1>2, <2>2, <2>4 DEF LaterColumns
  <2>5. ASSUME OidLess(Oid[table], Oid[cell.table]) PROVE FALSE
    <3>1. cell.table = t \/ OidLess(Oid[t], Oid[cell.table])
      BY <1>1, <2>2, <2>5 DEF LaterTables
    <3> QED
      BY <1>2, <2>1, <2>2, <2>3, <3>1, TableOrder
  <2> QED
    BY <2>4, <2>5, CellPlace DEF IInv
<1> QED
  BY <1>1, <1>2, <1>3, <1>4, TurnNear

\* The cell that was found has no value: it hides those behind it.
LEMMA NoValueNear ==
  ASSUME IInv, NearInv, NoValue
  PROVE  NearInv'
<1>1. /\ pc = "value" /\ pc' = "none" /\ UNCHANGED <<peer, req, table, column, quiet>>
      /\ Owner = None \/ (Owner # None /\ Wanted \notin Offers[Owner])
  BY DEF NoValue
<1>2. /\ table \in Table /\ column \in DOMAIN Columns[table] /\ port \in Port
      /\ peer[port] # None => peer[port].who \in Peer
  BY <1>1 DEF IInv, TypeInv
<1>3. RequestInv' /\ (quiet => PassedInv')
  BY <1>1, SamePeers, SameSearch DEF NearInv, RequestInv, PassedInv, SameColumn
<1>4. ASSUME quiet PROVE NoneInv'
  <2> DEFINE gap == [table |-> table, column |-> column, row |-> row]
  <2>1. /\ port \in 1 .. Last(table) /\ row \in RowsAt(table, port) /\ Sought(row)
        /\ req.op = "next" => \A r \in Rows(table) : Sought(r) => ~ OidLess(r, row)
    BY <1>1, <1>2, <1>4, LastIsPort, LldpTablesAssumption DEF NearInv, ValueInv, Port
  <2>2. row \in Rows(table)
    BY <1>2, <2>1, RowsByPort
  <2>3. gap \in Cell
    BY <1>2, <2>2, CellParts
  <2>4. gap.table = table /\ gap.column = column /\ gap.row = row
    OBVIOUS
  <2> HIDE DEF gap
  <2>5. table \in Remote /\ Wanted \notin Offers[peer[port].who]
    <3>1. table \in Remote
      <4>1. Wanted \in Attribute
        BY <1>2, ColumnAttribute DEF Wanted
      <4> QED
        BY <1>1, <4>1, LldpTablesAssumption DEF Owner
    <3>2. peer[port] # None
      BY <1>2, <2>1, <3>1, RemotePeer
    <3> QED
      BY <1>1, <1>2, <3>1, <3>2, LldpTablesAssumption DEF Owner
  <2>6. ~ Valued(gap)
    <3>1. row[2] = port
      BY <1>2, <2>1, <2>5, RowPort DEF IInv
    <3> QED
      BY <2>4, <2>5, <3>1 DEF Valued, Wanted
  <2>7. ASSUME NEW cell \in Cell, cell.table = table, cell.column = column
        PROVE  Missing(cell)
    <3>1. CASE req.op = "get"
      <4>1. req.row = row
        BY <1>1, <2>1, <3>1 DEF NearInv, RequestInv, Sought, Start
      <4> QED
        BY <2>4, <2>6, <2>7, <3>1, <4>1 DEF Missing, Valued
    <3>2. CASE req.op = "next"
      <4>1. SUFFICES ASSUME CellLess(req, cell) PROVE Hidden(req, cell)
        BY <3>2 DEF Missing
      <4>2. CellLess(req, gap)
        BY <1>1, <2>1, <2>4, <3>2, SoughtIsAfter DEF IInv
      <4>3. cell.row \in Rows(table) /\ Sought(cell.row)
        BY <2>7, <3>2, <4>1, AfterStart DEF IInv
      <4>4. ~ OidLess(cell.row, row)
        BY <2>1, <3>2, <4>3
      <4>5. ~ OidLess(Oid[table], Oid[table]) /\ ~ (column < column)
        BY <1>2, TableOrder DEF IInv, TypeInv
      <4>6. ~ CellLess(cell, gap)
        BY <2>4, <2>7, <4>4, <4>5 DEF CellLess
      <4> QED
        BY <2>3, <2>4, <2>6, <2>7, <4>2, <4>6 DEF Hidden
    <3> QED
      BY <1>1, <3>1, <3>2 DEF NearInv, RequestInv
  <2> QED
    BY <1>1, <2>7, SamePeers DEF NoneInv
<1> QED
  BY <1>1, <1>3, <1>4 DEF NearInv, ScanInv, ValueInv

\* A request starts at its own column, so that no cell is passed yet.
LEMMA RequestNear ==
  ASSUME IInv, IInv', NEW op \in {"get", "next"}, NEW t \in Table, NEW c, NEW r,
         Request(op, t, c, r)
  PROVE  NearInv'
<1>1. /\ req' = [op |-> op, table |-> t, column |-> c, row |-> r]
      /\ table' = t /\ column' = c /\ row' = r /\ port' = 1 /\ best' = None /\ pc' = "scan"
  BY DEF Request
<1>2. /\ req'.op = op /\ req'.table = t /\ req'.column = c /\ req'.row = r
  BY <1>1
<1>3. RequestInv' /\ Start' = r
  BY <1>1, <1>2 DEF RequestInv, SameColumn, Start
<1>4. ScanInv'
  <2>1. 1 <= Last(t) /\ Last(table)' = Last(t) /\ \A q \in 1 .. port' - 1 : FALSE
    BY <1>1, LastIsPort DEF Last
  <2> QED
    BY <1>1, <1>3, <2>1 DEF ScanInv
<1>5. PassedInv'
  <2>1. SUFFICES ASSUME NEW cell \in Cell', CellBefore(cell)'
                 PROVE  ~ CellLess(req, cell)'
    BY DEF PassedInv
  <2>2. OidLess(Oid[cell.table], Oid[t]) \/ (cell.table = t /\ cell.column < c)
    BY <1>1, <2>1 DEF CellBefore
  <2>3. cell.table \in Table /\ cell.column \in Nat /\ c \in Nat
    <3>1. PICK u \in Table : \E d \in DOMAIN Columns[u] : \E s \in Rows(u)' :
            cell = [table |-> u, column |-> d, row |-> s]
      BY <2>1 DEF Cell, CellsOf
    <3>2. PICK d \in DOMAIN Columns[u] : \E s \in Rows(u)' :
            cell = [table |-> u, column |-> d, row |-> s]
      BY <3>1
    <3>3. cell.table = u /\ cell.column = d
      BY <3>2
    <3> QED
      BY <1>1, <3>1, <3>2, <3>3, TableColumns DEF IInv, TypeInv
  <2>4. CASE OidLess(Oid[cell.table], Oid[t])
    <3>1. cell.table # t /\ ~ OidLess(Oid[t], Oid[cell.table])
      BY <2>3, <2>4, TableOrder
    <3> QED
      BY <1>2, <3>1 DEF CellLess
  <2>5. CASE cell.table = t /\ cell.column < c
    <3>1. ~ OidLess(Oid[t], Oid[cell.table]) /\ ~ (c < cell.column) /\ c # cell.column
      BY <2>3, <2>5, TableOrder
    <3> QED
      BY <1>2, <3>1 DEF CellLess
  <2> QED
    BY <2>2, <2>4, <2>5
<1> QED
  BY <1>1, <1>3, <1>4, <1>5 DEF NearInv, ValueInv, NoneInv

\* What a get-next has found comes before all cells that are not hidden.
LEMMA ValueIsNearest ==
  ASSUME IInv, NearInv, pc = "value", quiet, req.op = "next",
         NEW cell \in Cell, CellLess(req, cell), ~ Hidden(req, cell)
  PROVE  /\ ~ OidLess(Oid[cell.table], Oid[table])
         /\ cell.table = table => ~ (cell.column < column)
         /\ cell.table = table /\ cell.column = column => ~ OidLess(cell.row, row)
<1>1. ~ CellBefore(cell)
  BY DEF NearInv, PassedInv
<1>2. ASSUME cell.table = table, cell.column = column PROVE ~ OidLess(cell.row, row)
  <2>1. cell.row \in Rows(table) /\ Sought(cell.row)
    BY <1>2, AfterStart DEF IInv
  <2> QED
    BY <2>1 DEF NearInv, ValueInv
<1> QED
  BY <1>1, <1>2 DEF CellBefore

LEMMA ReadValueNearest ==
  ASSUME IInv, NearInv, ReadValue
  PROVE  NearestCell' /\ NoCellMissed'
<1>1. /\ pc = "value" /\ pc' = "idle" /\ UNCHANGED <<peer, req, table, column, quiet>>
      /\ answer'.table = table /\ answer'.column = column /\ answer'.row = row
      /\ answer'.status \in {"value", "genError"}
      /\ answer'.status = "value" => answer'.value.owner = Owner
      /\ Owner # None /\ Wanted \in Offers[Owner]
  BY DEF ReadValue, Answer
<1>2. NoCellMissed'
  BY <1>1 DEF NoCellMissed
<1>3. ASSUME Found', quiet'
      PROVE  /\ \E cell \in Cell' : Answered(cell)' /\ Valued(cell)'
             /\ IF req'.op = "get" THEN Answered(req)'
                ELSE /\ ~ Hidden(req, answer)'
                     /\ \A cell \in Cell' :
                          CellLess(req, cell)' /\ CellLess(cell, answer)' => Hidden(req, cell)'
             /\ answer'.table \in Remote => answer'.value.owner = peer'[answer'.row[2]].who
  <2>1. quiet /\ answer'.status = "value" /\ Cell' = Cell
    BY <1>1, <1>3, SamePeers DEF Found
  <2>2. /\ table \in Table /\ column \in DOMAIN Columns[table] /\ req.op \in {"get", "next"}
        /\ port \in Port /\ port \in 1 .. Last(table) /\ row \in RowsAt(table, port)
        /\ Sought(row) /\ (req.op = "get" => SameColumn)
    BY <1>1, <2>1, LastIsPort, LldpTablesAssumption
       DEF IInv, TypeInv, NearInv, RequestInv, ValueInv, Port
  <2>3. ASSUME table \in Remote PROVE row[2] = port /\ Owner = peer[port].who
    <3>1. row[2] = port
      BY <2>2, <2>3, RowPort DEF IInv
    <3>2. peer[port] # None
      BY <2>2, <2>3, RemotePeer
    <3> QED
      BY <2>3, <3>1, <3>2 DEF Owner
  <2>4. \E cell \in Cell' : Answered(cell)' /\ Valued(cell)'
    <3> DEFINE cell == [table |-> table, column |-> column, row |-> row]
    <3>1. row \in Rows(table)
      BY <2>2, RowsByPort
    <3>2. cell \in Cell
      BY <2>2, <3>1, CellParts
    <3>3. cell.table = table /\ cell.column = column /\ cell.row = row
      OBVIOUS
    <3> HIDE DEF cell
    <3>4. Valued(cell)
      BY <1>1, <2>3, <3>3 DEF Valued, Wanted
    <3>5. PICK d \in Cell : /\ d.table = table /\ d.column = column /\ d.row = row
                           /\ Valued(d)
      BY <3>2, <3>3, <3>4
    <3>6. Answered(d)'
      BY <1>1, <3>5 DEF Answered
    <3>7. Valued(d)'
      BY <1>1, <3>5 DEF Valued
    <3> QED
      BY <2>1, <3>5, <3>6, <3>7
  <2>5. req.op = "get" => Answered(req)'
    BY <1>1, <2>2 DEF Answered, SameColumn, Sought, Start
  <2>6. ASSUME req.op = "next", NEW cell \in Cell, CellLess(req, cell), CellLess(cell, answer)'
        PROVE  Hidden(req, cell)
    <3>1. \/ OidLess(Oid[cell.table], Oid[table])
          \/ /\ cell.table = table
             /\ cell.column < column \/ (cell.column = column /\ OidLess(cell.row, row))
      BY <1>1, <2>6 DEF CellLess
    <3> QED
      BY <1>1, <2>1, <2>6, <3>1, ValueIsNearest
  <2>7. answer'.table \in Remote => answer'.value.owner = peer'[answer'.row[2]].who
    BY <1>1, <2>1, <2>3
  <2>8. ASSUME req.op = "next" PROVE ~ Hidden(req, answer)'
    <3>1. ASSUME NEW gap \in Cell, gap.table = table, gap.column = column,
                 CellLess(req, gap), ~ CellLess(answer, gap)'
          PROVE  Valued(gap)
      <4>1. gap.row \in Rows(table) /\ Sought(gap.row)
        BY <2>8, <3>1, AfterStart DEF IInv
      <4>2. ~ OidLess(gap.row, row)
        BY <1>1, <2>1, <2>8, <4>1 DEF NearInv, ValueInv
      <4>3. ~ OidLess(row, gap.row)
        BY <1>1, <3>1 DEF CellLess
      <4>4. gap.row \in Seq(Nat) /\ row \in Seq(Nat)
        BY <2>2, <4>1, RowsType DEF IInv, TypeInv
      <4>5. gap.row = row
        BY <4>2, <4>3, <4>4, OidLessTotal
      <4> QED
        BY <1>1, <2>3, <3>1, <4>5 DEF Valued, Wanted
    <3> QED
      BY <1>1, <2>1, <3>1, SamePeers DEF Hidden
  <2> QED
    BY <1>1, <2>1, <2>2, <2>4, <2>5, <2>6, <2>7, <2>8, SamePeers
<1>4. NearestCell'
  BY <1>3 DEF NearestCell
<1> QED
  BY <1>2, <1>4

LEMMA NoSuchInstanceNearest ==
  ASSUME IInv, NearInv, NoSuchInstance
  PROVE  NearestCell' /\ NoCellMissed'
<1>1. /\ pc = "none" /\ pc' = "idle" /\ UNCHANGED <<peer, req, table, column, quiet>>
      /\ answer'.status = "noSuchInstance"
      /\ req.op = "get" \/ (LaterColumns = {} /\ LaterTables = {})
  BY DEF NoSuchInstance, Answer
<1>2. NearestCell'
  BY <1>1 DEF NearestCell, Found
<1>3. ASSUME quiet, NEW cell \in Cell PROVE Missing(cell)
  <2>1. CASE cell.table = table /\ cell.column = column
    BY <1>1, <1>3, <2>1 DEF NearInv, NoneInv
  <2>2. CASE ~ (cell.table = table /\ cell.column = column) /\ req.op = "get"
    BY <1>1, <2>2 DEF NearInv, RequestInv, SameColumn, Missing
  <2>3. CASE ~ (cell.table = table /\ cell.column = column) /\ req.op = "next"
    <3>1. ~ (cell.table = table /\ column < cell.column)
      BY <1>1, <2>3, CellPlace DEF LaterColumns, IInv
    <3>2. ~ OidLess(Oid[table], Oid[cell.table])
      BY <1>1, <2>3, CellPlace DEF LaterTables, IInv
    <3>3. CellBefore(cell)
      BY <2>3, <3>1, <3>2, CellPlace DEF IInv
    <3> QED
      BY <1>1, <1>3, <2>3, <3>3 DEF NearInv, PassedInv, Missing
  <2> QED
    BY <1>1, <2>1, <2>2, <2>3 DEF NearInv, RequestInv
<1>4. quiet' => \A cell \in Cell' : Missing(cell)'
  BY <1>1, <1>3, SamePeers
<1>5. NoCellMissed'
  BY <1>4 DEF NoCellMissed, Missing
<1> QED
  BY <1>2, <1>5

\* The whole invariant: what is found, and what has been answered.
AnswerInv == IInv /\ NearInv /\ NearestCell /\ NoCellMissed

LEMMA InitAnswer == Init => AnswerInv
<1> SUFFICES ASSUME Init PROVE AnswerInv
  OBVIOUS
<1>1. IInv
  BY InitInv
<1>2. pc = "idle" /\ answer.status = "none"
  BY DEF Init, NoAnswer
<1>3. NearInv
  BY <1>2 DEF NearInv, RequestInv, ScanInv, ValueInv, NoneInv, PassedInv
<1> QED
  BY <1>1, <1>2, <1>3 DEF AnswerInv, NearestCell, NoCellMissed, Found

LEMMA StepKeepsAnswer == AnswerInv /\ [Next]_vars => AnswerInv'
<1> SUFFICES ASSUME AnswerInv, [Next]_vars PROVE AnswerInv'
  OBVIOUS
<1>1. IInv /\ NearInv /\ NearestCell /\ NoCellMissed
  BY DEF AnswerInv
<1>2. IInv'
  BY <1>1, StepKeepsInv
<1>3. SUFFICES NearInv' /\ NearestCell' /\ NoCellMissed'
  BY <1>2 DEF AnswerInv
<1>4. pc' # "idle" => NearestCell' /\ NoCellMissed'
  BY DEF NearestCell, NoCellMissed, Found
<1>5. pc' = "idle" => (RequestInv' /\ ScanInv' /\ ValueInv' /\ NoneInv' /\ PassedInv')
  BY DEF RequestInv, ScanInv, ValueInv, NoneInv, PassedInv
<1>6. ASSUME NEW op \in {"get", "next"}, NEW t \in Table, NEW c, NEW r, Request(op, t, c, r)
      PROVE  NearInv' /\ NearestCell' /\ NoCellMissed'
  <2>1. NearInv'
    BY <1>1, <1>2, <1>6, RequestNear
  <2>2. pc' = "scan"
    BY <1>6 DEF Request
  <2> QED
    BY <1>4, <2>1, <2>2
<1>7. CASE Manager
  <2>1. ASSUME NEW t \in Table, StartWalk(t) PROVE NearInv' /\ NearestCell' /\ NoCellMissed'
    BY <1>6, <2>1 DEF StartWalk
  <2>2. ASSUME ContinueWalk PROVE NearInv' /\ NearestCell' /\ NoCellMissed'
    <3>1. answer.table \in Table
      BY <1>1 DEF IInv, TypeInv
    <3> QED
      BY <1>6, <2>2, <3>1 DEF ContinueWalk
  <2>3. ASSUME NEW t \in Table, NEW c \in DOMAIN Columns[t], GetCell(t, c)
        PROVE  NearInv' /\ NearestCell' /\ NoCellMissed'
    BY <1>6, <2>3 DEF GetCell
  <2> QED
    BY <1>7, <2>1, <2>2, <2>3 DEF Manager
<1>8. CASE Server
  <2>1. ASSUME ScanLocal \/ ScanRemoteDevice \/ ScanRemoteInterface \/ ScanAddress
        PROVE  NearInv' /\ pc' # "idle"
    <3>1. NearInv'
      BY <1>1, <2>1, ScanNear
    <3>2. pc' # "idle"
      BY <2>1 DEF ScanLocal, ScanRemoteDevice, ScanRemoteInterface, ScanAddress, Compare, Advance
    <3> QED
      BY <3>1, <3>2
  <2>2. ASSUME NoValue \/ NextColumn \/ NextTable PROVE NearInv' /\ pc' # "idle"
    <3>1. NearInv'
      BY <1>1, <2>2, NoValueNear, NextColumnNear, NextTableNear
    <3>2. pc' # "idle"
      BY <2>2 DEF NoValue, NextColumn, NextTable, TurnTo
    <3> QED
      BY <3>1, <3>2
  <2>3. ASSUME ReadValue \/ NoSuchInstance PROVE NearInv' /\ NearestCell' /\ NoCellMissed'
    <3>1. NearestCell' /\ NoCellMissed'
      BY <1>1, <2>3, ReadValueNearest, NoSuchInstanceNearest
    <3>2. pc' = "idle"
      BY <2>3 DEF ReadValue, NoSuchInstance, Answer
    <3> QED
      BY <1>5, <3>1, <3>2 DEF NearInv
  <2> QED
    BY <1>4, <1>8, <2>1, <2>2, <2>3 DEF Server
<1>9. CASE Stack
  <2>1. quiet' = FALSE /\ UNCHANGED <<pc, req, table, column>>
    BY <1>9 DEF Stack, Arrive, Leave, serverVars
  <2>2. RequestInv'
    BY <1>1, <2>1 DEF NearInv, RequestInv, SameColumn
  <2> QED
    BY <2>1, <2>2 DEF NearInv, NearestCell, NoCellMissed
<1>10. CASE UNCHANGED vars
  <2>1. UNCHANGED <<peer, now, pc, req, table, column, row, port, mark, best, answer, quiet,
                    existed>>
    BY <1>10 DEF vars, serverVars
  <2>2. RequestInv' /\ (quiet => PassedInv' /\ NoneInv')
    BY <1>1, <2>1, SamePeers, SameSearch DEF NearInv, RequestInv, PassedInv, NoneInv, SameColumn
  <2>3. Last(table)' = Last(table)
    BY <2>1 DEF Last
  <2>4. quiet => ScanInv' /\ ValueInv'
    BY <1>1, <2>1, <2>3, SamePeers, SameSearch DEF NearInv, ScanInv, ValueInv
  <2>5. /\ Found' <=> Found
        /\ \A cell : Answered(cell)' <=> Answered(cell)
        /\ \A cell : CellLess(cell, answer)' <=> CellLess(cell, answer)
    BY <2>1 DEF Found, Answered, CellLess
  <2>6. Answered(req)' <=> Answered(req)
    BY <2>1 DEF Answered
  <2>7. NearestCell'
    BY <1>1, <2>1, <2>5, <2>6, SamePeers DEF NearestCell
  <2>8. NoCellMissed'
    BY <1>1, <2>1, SamePeers DEF NoCellMissed, Missing
  <2> QED
    BY <2>1, <2>2, <2>4, <2>7, <2>8 DEF NearInv
<1> QED
  BY <1>7, <1>8, <1>9, <1>10 DEF Next

-----------------------------------------------------------------------------

(* The iterators stay among the ports, and rows are object identifiers.    *)
THEOREM TypeCorrect == Spec => []TypeOK
<1>1. IInv => TypeOK
  BY DEF IInv, TypeInv, TypeOK
<1> QED
  BY <1>1, IInvInvariant, PTL

(* A get-next that is answered has moved on, whatever the peers do.        *)
THEOREM WalkSafety == Spec => []RowAdvances
<1>1. IInv => RowAdvances
  BY DEF IInv, AdvanceInv
<1> QED
  BY <1>1, IInvInvariant, PTL

(* A row of a table with one read per row is a row that the table has had  *)
(* since the server turned to it.                                          *)
THEOREM RowSafety == Spec => []DeviceRowExisted
<1>1. IInv => DeviceRowExisted
  BY DEF IInv, ExistInv
<1> QED
  BY <1>1, IInvInvariant, PTL

\* What the server has found is nearest at every step, and so is its answer.
THEOREM AnswerInvariant == Spec => []AnswerInv
  BY InitAnswer, StepKeepsAnswer, PTL DEF Spec

(* With peers that stay, a get is answered with its cell and a get-next    *)
(* with the nearest cell of all tables after the request that no cell      *)
(* without a value hides, and with that cell's value.                      *)
THEOREM NearestSafety == Spec => []NearestCell
<1>1. AnswerInv => NearestCell
  BY DEF AnswerInv
<1> QED
  BY <1>1, AnswerInvariant, PTL

(* With peers that stay, no request fails while there is a cell that it    *)
(* asks for, that has a value and is not hidden.                           *)
THEOREM NoCellMissedSafety == Spec => []NoCellMissed
<1>1. AnswerInv => NoCellMissed
  BY DEF AnswerInv
<1> QED
  BY <1>1, AnswerInvariant, PTL

-----------------------------------------------------------------------------
(* A walk as a whole: LldpWalk.                                            *)

\* Where a request can be, or a cell
IsPlace(c) == c.table \in Table /\ c.column \in Nat /\ c.row \in Seq(Nat)
SameCell(c, d) == c.table = d.table /\ c.column = d.column /\ c.row = d.row

\* The cells are in one line.
LEMMA CellIsPlace ==
  ASSUME TypeInv, NEW cell \in Cell
  PROVE  IsPlace(cell)
<1>1. PICK t \in Table : \E c \in DOMAIN Columns[t] : \E r \in Rows(t) :
        cell = [table |-> t, column |-> c, row |-> r]
  BY CellParts
<1> QED
  BY <1>1, TableColumns, RowsType DEF IsPlace

LEMMA CellLessTransitive ==
  ASSUME NEW a, NEW b, NEW c, IsPlace(a), IsPlace(b), IsPlace(c),
         CellLess(a, b), CellLess(b, c)
  PROVE  CellLess(a, c)
<1>1. /\ Oid[a.table] \in Seq(Nat) /\ Oid[b.table] \in Seq(Nat) /\ Oid[c.table] \in Seq(Nat)
      /\ a.column \in Nat /\ b.column \in Nat /\ c.column \in Nat
      /\ a.row \in Seq(Nat) /\ b.row \in Seq(Nat) /\ c.row \in Seq(Nat)
  BY TableOids DEF IsPlace
<1>2. CASE OidLess(Oid[a.table], Oid[b.table]) /\ OidLess(Oid[b.table], Oid[c.table])
  BY <1>1, <1>2, OidLessTransitive DEF CellLess
<1>3. CASE OidLess(Oid[a.table], Oid[b.table]) /\ b.table = c.table
  BY <1>3 DEF CellLess
<1>4. CASE a.table = b.table /\ OidLess(Oid[b.table], Oid[c.table])
  BY <1>4 DEF CellLess
<1>5. CASE a.table = b.table /\ b.table = c.table
  <2>1. ~ OidLess(Oid[a.table], Oid[a.table])
    BY <1>1, OidLessAsymmetric
  <2>2. a.column < b.column \/ (a.column = b.column /\ OidLess(a.row, b.row))
    BY <1>5, <2>1 DEF CellLess
  <2>3. b.column < c.column \/ (b.column = c.column /\ OidLess(b.row, c.row))
    BY <1>5, <2>1 DEF CellLess
  <2>4. a.column < c.column \/ (a.column = c.column /\ OidLess(a.row, c.row))
    BY <1>1, <2>2, <2>3, OidLessTransitive, LessTransitive
  <2> QED
    BY <1>5, <2>4 DEF CellLess
<1> QED
  BY <1>2, <1>3, <1>4, <1>5 DEF CellLess

LEMMA CellLessAsymmetric ==
  ASSUME NEW a, NEW b, IsPlace(a), IsPlace(b), CellLess(a, b)
  PROVE  ~ CellLess(b, a) /\ ~ SameCell(a, b)
<1>1. ~ CellLess(a, a)
  BY TableOrder, OidLessAsymmetric DEF IsPlace, CellLess
<1>2. ~ CellLess(b, a)
  BY <1>1, CellLessTransitive
<1>3. SameCell(a, b) => CellLess(a, a)
  BY DEF SameCell, CellLess
<1> QED
  BY <1>1, <1>2, <1>3

LEMMA CellLessTotal ==
  ASSUME NEW a, NEW b, IsPlace(a), IsPlace(b)
  PROVE  CellLess(a, b) \/ CellLess(b, a) \/ SameCell(a, b)
<1>1. \/ a.table = b.table \/ OidLess(Oid[a.table], Oid[b.table])
      \/ OidLess(Oid[b.table], Oid[a.table])
  BY TableOrder DEF IsPlace
<1>2. a.column < b.column \/ b.column < a.column \/ a.column = b.column
  BY DEF IsPlace
<1>3. OidLess(a.row, b.row) \/ OidLess(b.row, a.row) \/ a.row = b.row
  BY OidLessTotal DEF IsPlace
<1> QED
  BY <1>1, <1>2, <1>3 DEF CellLess, SameCell

\* The visible cells up to a place
UpTo(place) == {cell \in Visible(start) : ~ CellLess(place, cell)}

\* While a walk goes on it asks from its start or from a cell that it has
\* visited, and it has visited all that is visible up to there.
WalkInv ==
  steady =>
    /\ quiet /\ req.op = "next" /\ IsPlace(start)
    /\ SameCell(req, start) \/ \E cell \in visited : SameCell(req, cell)
    /\ Found => \E cell \in visited : Answered(cell)
    /\ visited = IF Found THEN UpTo(answer)
                 ELSE IF pc = "idle" /\ answer.status = "noSuchInstance"
                 THEN Visible(start) ELSE UpTo(req)

LEMMA WalkStepIsStep == [WalkNext]_<<vars, walkVars>> => [Next]_vars
BY DEF WalkNext, Begin, Forget, Visit, GoOn, Next, Manager, Server

\* Every theorem about the requests holds for those of a walk.
THEOREM WalkImplements == WalkSpec => Spec
<1>1. WalkInit => Init
  BY DEF WalkInit
<1> QED
  BY <1>1, WalkStepIsStep, PTL DEF WalkSpec, Spec

LEMMA VisitedAreVisible ==
  ASSUME WalkInv, steady
  PROVE  visited \subseteq Visible(start)
BY DEF WalkInv, UpTo

\* What comes after the request comes after the start, and what a request
\* cannot see the walk cannot see.
LEMMA AfterRequest ==
  ASSUME TypeInv, WalkInv, steady, NEW cell, IsPlace(cell), CellLess(req, cell)
  PROVE  CellLess(start, cell)
<1>1. IsPlace(req) /\ IsPlace(start)
  BY DEF TypeInv, WalkInv, IsPlace
<1>2. CASE SameCell(req, start)
  BY <1>2 DEF SameCell, CellLess
<1>3. ASSUME NEW c \in visited, SameCell(req, c) PROVE CellLess(start, cell)
  <2>1. CellLess(start, c)
    BY VisitedAreVisible DEF Visible
  <2>2. CellLess(start, req)
    BY <1>3, <2>1 DEF SameCell, CellLess
  <2> QED
    BY <1>1, <2>2, CellLessTransitive
<1> QED
  BY <1>2, <1>3 DEF WalkInv

LEMMA HiddenFromStart ==
  ASSUME TypeInv, WalkInv, steady, NEW cell, Hidden(req, cell)
  PROVE  Hidden(start, cell)
<1>1. PICK gap \in Cell : /\ gap.table = cell.table /\ gap.column = cell.column
                          /\ CellLess(req, gap) /\ ~ CellLess(cell, gap) /\ ~ Valued(gap)
  BY DEF Hidden
<1>2. CellLess(start, gap)
  BY <1>1, AfterRequest, CellIsPlace
<1> QED
  BY <1>1, <1>2 DEF Hidden

\* And the other way round for a cell after the request: had there been a gap
\* before the request in the same column, the walk would not have come there.
LEMMA HiddenFromRequest ==
  ASSUME TypeInv, WalkInv, steady, NEW cell, IsPlace(cell), CellLess(req, cell),
         Hidden(start, cell)
  PROVE  Hidden(req, cell)
<1>1. PICK gap \in Cell : /\ gap.table = cell.table /\ gap.column = cell.column
                          /\ CellLess(start, gap) /\ ~ CellLess(cell, gap) /\ ~ Valued(gap)
  BY DEF Hidden
<1>2. IsPlace(req) /\ IsPlace(start) /\ IsPlace(gap)
  BY CellIsPlace DEF TypeInv, WalkInv, IsPlace
<1>3. ASSUME ~ CellLess(req, gap) PROVE FALSE
  <2>1. req.table = gap.table /\ req.column = gap.column
    <3>1. CellLess(gap, req) \/ SameCell(gap, req)
      BY <1>2, <1>3, CellLessTotal DEF SameCell
    <3>2. /\ gap.table = req.table \/ OidLess(Oid[gap.table], Oid[req.table])
          /\ req.table = cell.table \/ OidLess(Oid[req.table], Oid[cell.table])
      BY <3>1 DEF CellLess, SameCell
    <3>3. req.table = gap.table
      BY <1>1, <1>2, <3>2, TableOrder DEF IsPlace
    <3>4. ~ OidLess(Oid[req.table], Oid[req.table])
      BY <1>2, TableOrder DEF IsPlace
    <3>5. /\ gap.column < req.column \/ gap.column = req.column
          /\ req.column < cell.column \/ req.column = cell.column
      BY <1>1, <3>1, <3>3, <3>4 DEF CellLess, SameCell
    <3>6. req.column \in Nat /\ gap.column \in Nat
      BY <1>2 DEF IsPlace
    <3> QED
      BY <1>1, <3>3, <3>5, <3>6
  <2>2. ~ SameCell(req, start)
    <3>1. SameCell(req, start) => CellLess(req, gap)
      BY <1>1 DEF SameCell, CellLess
    <3> QED
      BY <1>3, <3>1
  <2>3. PICK c \in visited : SameCell(req, c)
    BY <2>2 DEF WalkInv
  <2>4. ~ CellLess(c, gap)
    BY <1>3, <2>3 DEF SameCell, CellLess
  <2>5. Hidden(start, c)
    BY <1>1, <2>1, <2>3, <2>4 DEF SameCell, Hidden
  <2> QED
    BY <2>5, VisitedAreVisible DEF Visible
<1> QED
  BY <1>1, <1>3 DEF Hidden

LEMMA PeersStay ==
  ASSUME UNCHANGED <<peer, start>>
  PROVE  Cell' = Cell /\ Visible(start)' = Visible(start)
<1>1. \A t : Rows(t)' = Rows(t)
  BY DEF Rows, HasAddress
<1>2. Cell' = Cell
  BY <1>1 DEF Cell, CellsOf
<1>3. \A cell : Valued(cell)' <=> Valued(cell)
  BY DEF Valued
<1>4. \A cell : Hidden(start, cell)' <=> Hidden(start, cell)
  BY <1>2, <1>3 DEF Hidden, CellLess
<1>5. \A cell : CellLess(start, cell)' <=> CellLess(start, cell)
  BY DEF CellLess
<1> QED
  BY <1>2, <1>4, <1>5 DEF Visible

\* Two cells at one place are one cell.
LEMMA OneCell ==
  ASSUME NEW c \in Cell, NEW d \in Cell, SameCell(c, d)
  PROVE  c = d
<1>1. PICK t \in Table : \E k \in DOMAIN Columns[t] : \E r \in Rows(t) :
        c = [table |-> t, column |-> k, row |-> r]
  BY CellParts
<1>2. PICK u \in Table : \E l \in DOMAIN Columns[u] : \E s \in Rows(u) :
        d = [table |-> u, column |-> l, row |-> s]
  BY CellParts
<1> QED
  BY <1>1, <1>2 DEF SameCell

\* The cell that has been found is the only visible one between the request
\* and itself.
LEMMA FoundExtends ==
  ASSUME TypeInv, WalkInv, steady, visited = UpTo(req),
         NEW d \in Cell, CellLess(req, d), ~ Hidden(req, d),
         \A cell \in Cell : CellLess(req, cell) /\ CellLess(cell, d) => Hidden(req, cell)
  PROVE  visited \cup {d} = UpTo(d)
<1>1. \A cell \in Cell : IsPlace(cell)
  BY CellIsPlace
<1>2. IsPlace(req)
  BY DEF TypeInv, IsPlace
<1>3. d \in UpTo(d)
  BY <1>1, AfterRequest, HiddenFromRequest, CellLessAsymmetric DEF Visible, UpTo
<1>4. ASSUME NEW c \in visited PROVE c \in UpTo(d)
  <2>1. c \in Visible(start) /\ c \in Cell /\ ~ CellLess(req, c)
    BY DEF UpTo, Visible
  <2>2. ~ CellLess(d, c)
    BY <1>1, <1>2, <2>1, CellLessTransitive
  <2> QED
    BY <2>1, <2>2 DEF UpTo
<1>5. ASSUME NEW c \in UpTo(d), c # d PROVE c \in visited
  <2>1. c \in Visible(start) /\ c \in Cell /\ ~ CellLess(d, c)
    BY DEF UpTo, Visible
  <2>2. CellLess(c, d)
    BY <1>1, <1>5, <2>1, CellLessTotal, OneCell
  <2>3. ~ CellLess(req, c)
    BY <2>1, <2>2, HiddenFromStart DEF Visible
  <2> QED
    BY <2>1, <2>3 DEF UpTo
<1> QED
  BY <1>3, <1>4, <1>5

LEMMA VisitKeeps ==
  ASSUME AnswerInv, AnswerInv', WalkInv, Visit
  PROVE  WalkInv'
<1> SUFFICES ASSUME steady' PROVE WalkInv'
  BY DEF WalkInv
<1>1. /\ pc = "value" /\ pc' = "idle"
      /\ UNCHANGED <<peer, req, table, column, row, quiet, steady, start>>
      /\ answer'.table = table /\ answer'.column = column /\ answer'.row = row
      /\ answer'.status \in {"value", "genError"}
  BY DEF Visit, ReadValue, Answer
<1>2. steady /\ quiet /\ req.op = "next" /\ IsPlace(start) /\ visited = UpTo(req)
  BY <1>1 DEF WalkInv, Found
<1>3. TypeInv /\ TypeInv'
  BY DEF AnswerInv, IInv
<1>4. IsPlace(start)' /\ UpTo(req)' = UpTo(req)
  <2>1. \A cell : CellLess(req, cell)' <=> CellLess(req, cell)
    BY <1>1 DEF CellLess
  <2> QED
    BY <1>1, <1>2, <2>1, PeersStay DEF UpTo, IsPlace
<1>5. CASE answer'.status = "genError"
  <2>1. ~ Found' /\ visited' = visited
    BY <1>5 DEF Found, Visit
  <2>2. SameCell(req, start)' \/ \E cell \in visited' : SameCell(req, cell)'
    BY <1>1, <1>2, <2>1 DEF WalkInv, SameCell
  <2> QED
    BY <1>1, <1>2, <1>4, <1>5, <2>1, <2>2 DEF WalkInv
<1>6. CASE answer'.status = "value"
  <2>1. Found'
    BY <1>1, <1>6 DEF Found
  <2>2. PICK d \in Cell : d.table = table /\ d.column = column /\ d.row = row
    <3>1. \E cell \in Cell' : Answered(cell)'
      BY <1>1, <1>2, <2>1 DEF AnswerInv, NearestCell
    <3> QED
      BY <1>1, <3>1, PeersStay DEF Answered
  <2>3. visited' = visited \cup {d}
    <3>1. d = [table |-> table, column |-> column, row |-> row]
      <4>1. PICK t \in Table : \E k \in DOMAIN Columns[t] : \E r \in Rows(t) :
              d = [table |-> t, column |-> k, row |-> r]
        BY CellParts
      <4> QED
        BY <2>2, <4>1
    <3> QED
      BY <1>2, <1>6, <3>1 DEF Visit
  <2>4. \A cell : /\ CellLess(req, cell)' <=> CellLess(req, cell)
                  /\ CellLess(cell, answer)' <=> CellLess(cell, d)
                  /\ CellLess(answer, cell)' <=> CellLess(d, cell)
    BY <1>1, <2>2 DEF CellLess
  <2>5. Hidden(req, answer)' <=> Hidden(req, d)
    BY <1>1, <2>2, <2>4, SamePeers DEF Hidden
  <2>6. /\ CellLess(req, d) /\ ~ Hidden(req, d)
        /\ \A cell \in Cell : CellLess(req, cell) /\ CellLess(cell, d) => Hidden(req, cell)
    <3>1. CellLess(req, answer)'
      BY <1>1, <1>2, <2>1 DEF AnswerInv, IInv, AdvanceInv, RowAdvances
    <3>2. CellLess(req, d)
      BY <1>1, <2>2, <3>1 DEF CellLess
    <3>3. ~ Hidden(req, answer)' /\ \A cell \in Cell' :
            CellLess(req, cell)' /\ CellLess(cell, answer)' => Hidden(req, cell)'
      BY <1>1, <1>2, <2>1 DEF AnswerInv, NearestCell
    <3> QED
      BY <1>1, <2>4, <2>5, <3>2, <3>3, SamePeers
  <2>7. visited' = UpTo(d)
    BY <1>2, <1>3, <2>3, <2>6, FoundExtends
  <2>8. UpTo(answer)' = UpTo(d)
    BY <1>1, <2>4, PeersStay DEF UpTo
  <2>9. Answered(d)' /\ d \in visited'
    BY <1>1, <2>2, <2>3 DEF Answered
  <2>10. SameCell(req, start)' \/ \E cell \in visited' : SameCell(req, cell)'
    BY <1>1, <1>2, <2>3 DEF WalkInv, SameCell
  <2> QED
    BY <1>1, <1>2, <1>4, <2>1, <2>7, <2>8, <2>9, <2>10 DEF WalkInv
<1> QED
  BY <1>1, <1>5, <1>6

LEMMA BeginKeeps ==
  ASSUME AnswerInv', NEW t \in Table, Begin(t)
  PROVE  WalkInv'
<1>1. pc' = "scan" /\ quiet' /\ req'.op = "next" /\ start' = req' /\ visited' = {}
  BY DEF Begin, StartWalk, Request
<1>2. IsPlace(start)' /\ SameCell(req, start)'
  BY <1>1 DEF AnswerInv, IInv, TypeInv, IsPlace, SameCell
<1>3. UpTo(req)' = {}
  BY <1>1 DEF UpTo, Visible
<1> QED
  BY <1>1, <1>2, <1>3 DEF WalkInv, Found

LEMMA GoOnKeeps ==
  ASSUME AnswerInv, AnswerInv', WalkInv, GoOn
  PROVE  WalkInv'
<1> SUFFICES ASSUME steady' PROVE WalkInv'
  BY DEF WalkInv
<1>1. UNCHANGED <<peer, start, visited>> /\ steady
  BY DEF GoOn, walkVars, ContinueWalk, Request, ScanLocal, ScanRemoteDevice,
         ScanRemoteInterface, ScanAddress, NoValue, NextColumn, NextTable, TurnTo,
         NoSuchInstance, Answer
<1>2. quiet /\ req.op = "next" /\ IsPlace(start) /\ IsPlace(start)'
  BY <1>1 DEF WalkInv, IsPlace
<1>3. Visible(start)' = Visible(start)
  BY <1>1, PeersStay
<1>4. CASE ContinueWalk
  <2>1. /\ Found /\ pc' = "scan" /\ quiet' /\ req'.op = "next"
        /\ req'.table = answer.table /\ req'.column = answer.column /\ req'.row = answer.row
    BY <1>4 DEF ContinueWalk, Request, Found
  <2>2. visited = UpTo(answer) /\ \E cell \in visited : Answered(cell)
    BY <1>1, <2>1 DEF WalkInv
  <2>3. \E cell \in visited' : SameCell(req, cell)'
    BY <1>1, <2>1, <2>2 DEF SameCell, Answered
  <2>4. UpTo(req)' = UpTo(answer)
    BY <1>3, <2>1 DEF UpTo, CellLess
  <2> QED
    BY <1>1, <1>2, <2>1, <2>2, <2>3, <2>4 DEF WalkInv, Found
<1>5. CASE NoSuchInstance
  <2>1. /\ pc = "none" /\ pc' = "idle" /\ UNCHANGED <<req, quiet>>
        /\ answer'.status = "noSuchInstance"
    BY <1>5 DEF NoSuchInstance, Answer
  <2>2. visited = UpTo(req)
    BY <1>1, <2>1 DEF WalkInv, Found
  <2>3. ASSUME NEW c \in Visible(start) PROVE ~ CellLess(req, c)
    <3>1. CellLess(req, c) => Hidden(req, c)
      <4>1. \A cell \in Cell' : CellLess(req, cell)' => Hidden(req, cell)'
        BY <1>2, <2>1 DEF AnswerInv, NoCellMissed
      <4> QED
        BY <1>1, <2>1, <4>1, SamePeers DEF Visible
    <3>2. ~ Hidden(req, c)
      BY <1>1, HiddenFromStart DEF Visible, AnswerInv, IInv
    <3> QED
      BY <3>1, <3>2
  <2>4. visited' = Visible(start)'
    BY <1>1, <1>3, <2>2, <2>3 DEF UpTo
  <2>5. SameCell(req, start)' \/ \E cell \in visited' : SameCell(req, cell)'
    BY <1>1, <2>1 DEF WalkInv, SameCell
  <2> QED
    BY <1>1, <1>2, <2>1, <2>4, <2>5 DEF WalkInv, Found
<1>6. CASE \/ ScanLocal \/ ScanRemoteDevice \/ ScanRemoteInterface \/ ScanAddress
           \/ NoValue \/ NextColumn \/ NextTable
  <2>1. pc # "idle" /\ pc' # "idle" /\ UNCHANGED <<req, quiet>>
    BY <1>6 DEF ScanLocal, ScanRemoteDevice, ScanRemoteInterface, ScanAddress, Compare,
                Advance, NoValue, NextColumn, NextTable, TurnTo
  <2>2. visited = UpTo(req)
    BY <1>1, <2>1 DEF WalkInv, Found
  <2>3. UpTo(req)' = UpTo(req)
    BY <1>3, <2>1 DEF UpTo, CellLess
  <2>4. SameCell(req, start)' \/ \E cell \in visited' : SameCell(req, cell)'
    BY <1>1, <2>1 DEF WalkInv, SameCell
  <2> QED
    BY <1>1, <1>2, <2>1, <2>2, <2>3, <2>4 DEF WalkInv, Found
<1> QED
  BY <1>4, <1>5, <1>6 DEF GoOn

LEMMA StutterKeeps ==
  ASSUME WalkInv, UNCHANGED <<vars, walkVars>>
  PROVE  WalkInv'
<1>1. UNCHANGED <<peer, pc, req, answer, quiet, steady, start, visited>>
  BY DEF vars, serverVars, walkVars
<1>2. Visible(start)' = Visible(start)
  BY <1>1, PeersStay
<1>3. /\ UpTo(answer)' = UpTo(answer)
      /\ UpTo(req)' = UpTo(req)
  BY <1>1, <1>2 DEF UpTo, CellLess
<1>4. /\ Found' <=> Found
      /\ IsPlace(start)' <=> IsPlace(start)
      /\ SameCell(req, start)' <=> SameCell(req, start)
      /\ \A cell : SameCell(req, cell)' <=> SameCell(req, cell)
      /\ \A cell : Answered(cell)' <=> Answered(cell)
  BY <1>1 DEF Found, IsPlace, SameCell, Answered
<1> QED
  BY <1>1, <1>2, <1>3, <1>4 DEF WalkInv

\* What a walk has visited, step by step
LEMMA WalkInvariant == WalkSpec => [](AnswerInv /\ WalkInv)
<1>1. WalkInit => AnswerInv /\ WalkInv
  BY InitAnswer DEF WalkInit, WalkInv
<1>2. AnswerInv /\ WalkInv /\ [WalkNext]_<<vars, walkVars>> => (AnswerInv /\ WalkInv)'
  <2> SUFFICES ASSUME AnswerInv, WalkInv, [WalkNext]_<<vars, walkVars>>
               PROVE  AnswerInv' /\ WalkInv'
    OBVIOUS
  <2>1. AnswerInv'
    BY WalkStepIsStep, StepKeepsAnswer
  <2>2. ASSUME Forget PROVE WalkInv'
    BY <2>2 DEF Forget, WalkInv
  <2> QED
    BY <2>1, <2>2, BeginKeeps, VisitKeeps, GoOnKeeps, StutterKeeps DEF WalkNext
<1> QED
  BY <1>1, <1>2, PTL DEF WalkSpec

(* While the peers stay, a walk answers every visible cell up to where it   *)
(* is and no other, and has answered all of them when it ends.              *)
THEOREM WalkCompleteSafety == WalkSpec => []WalkComplete
<1>1. WalkInv => WalkComplete
  BY DEF WalkInv, WalkComplete, Found, UpTo
<1> QED
  BY <1>1, WalkInvariant, PTL

=============================================================================
