-------------------------- MODULE RegisterValueProofs --------------------------
(***************************************************************************)
(* Theorems about RegisterValue, for registers of any even number of values,*)
(* any limits a configuration may give and any scale.                       *)
(***************************************************************************)
EXTENDS RegisterValue, TLAPS

-------------------------------------------------------------------------------
(* Division.                                                                *)

LEMMA DivMod ==
  ASSUME NEW a \in Int, NEW b \in Nat \ {0}
  PROVE  /\ a \div b \in Int /\ a % b \in 0..(b - 1)
         /\ a = (a \div b) * b + (a % b)
         /\ a \in Nat => a \div b \in Nat
  BY SMT

LEMMA DivModNat ==
  ASSUME NEW a \in Nat, NEW b \in Nat \ {0}
  PROVE  /\ a \div b \in Nat /\ a % b \in Nat /\ a % b < b
         /\ a = (a \div b) * b + (a % b)
  BY SMT

LEMMA DivUnique ==
  ASSUME NEW a \in Int, NEW b \in Nat \ {0}, NEW q \in Int, NEW r \in Nat,
         a = q * b + r, r < b
  PROVE  a \div b = q /\ a % b = r
  BY SMT

LEMMA TimesPositive ==
  ASSUME NEW a \in Nat \ {0}, NEW b \in Nat \ {0}
  PROVE  a * b \in Nat \ {0}
  BY SMT

LEMMA DivDiv ==
  ASSUME NEW a \in Nat, NEW b \in Nat \ {0}, NEW c \in Nat \ {0}
  PROVE  (a \div b) \div c = a \div (b * c)
<1> DEFINE p == b * c
           q == a \div p
           r == a % p
           s == r \div b
           t == r % b
<1>1. p \in Nat \ {0}
  BY TimesPositive
<1> HIDE DEF p
<1>2. q \in Nat /\ r \in Nat /\ r < p /\ a = q * p + r
  BY <1>1, DivMod
<1> HIDE DEF q, r
<1>3. s \in Nat /\ t \in Nat /\ t < b /\ r = s * b + t
  <2>1. r \in Int /\ r \in Nat
    BY <1>2
  <2>2. r \div b \in Nat /\ r % b \in 0..(b - 1) /\ r = (r \div b) * b + (r % b)
    BY <2>1, DivMod
  <2> QED BY <2>2
<1> HIDE DEF s, t
<1>4. s < c
  <2> SUFFICES ASSUME c <= s PROVE FALSE
    BY <1>3
  <2>1. c * b <= s * b
    BY <1>3, SMT
  <2>2. s * b \in Nat /\ c * b = p
    BY <1>3, SMT DEF p
  <2> QED BY <1>1, <1>2, <1>3, <2>1, <2>2
<1>5. a = (q * c + s) * b + t /\ q * c + s \in Nat
  <2>1. q * p = (q * c) * b /\ q * c \in Nat
    BY <1>2, SMT DEF p
  <2>2. (q * c + s) * b = (q * c) * b + s * b
    BY <1>3, <2>1, SMT
  <2>3. s * b \in Nat /\ q * p \in Nat
    BY <1>1, <1>2, <1>3, SMT
  <2> QED BY <1>2, <1>3, <2>1, <2>2, <2>3
<1>6. a \div b = q * c + s
  BY <1>3, <1>5, DivUnique
<1>7. (q * c + s) \div c = q
  BY <1>2, <1>3, <1>4, <1>5, DivUnique
<1> QED BY <1>6, <1>7 DEF q, p

(* The digit of weight b of a number, where c is the next weight. *)
LEMMA Digit ==
  ASSUME NEW u \in Nat, NEW b \in Nat \ {0}
  PROVE  LET c == b * Word
         IN  ((u \div b) % Word) * b = (u \div b) * b - (u \div c) * c
<1> DEFINE z == u \div b
<1>1. Word \in Nat \ {0}
  BY RegisterAssumption DEF RegisterAssumption
<1>2. z \in Nat
  BY DivMod
<1>3. z \div Word = u \div (b * Word)
  BY <1>1, DivDiv
<1> HIDE DEF z
<1> DEFINE y == z \div Word
           d == z % Word
<1>4. y \in Nat /\ d \in Nat /\ z = y * Word + d
  BY <1>1, <1>2, DivMod
<1> HIDE DEF y, d
<1>5. d * b = z * b - y * (b * Word)
  <2>1. z * b = y * (b * Word) + d * b
    BY <1>1, <1>4, SMT
  <2>2. d * b \in Nat /\ y * (b * Word) \in Nat
    BY <1>1, <1>4, SMT
  <2> QED BY <2>1, <2>2
<1> QED BY <1>3, <1>5 DEF y, d, z

-------------------------------------------------------------------------------
(* The values of a type.                                                    *)

LEMMA Spans ==
  /\ Span(0) = 1 /\ Span(1) = Word /\ Span(2) = Word * Word
  /\ Span(3) = Word * Word * Word /\ Span(4) = Word * Word * Word * Word
  /\ \A n \in 0..3 : Span(n + 1) = Span(n) * Word
  /\ \A n \in 0..4 : Span(n) \in Nat \ {0}
<1>1. Word \in Nat \ {0}
  BY RegisterAssumption DEF RegisterAssumption
<1>2. /\ Span(0) = 1 /\ Span(1) = Word /\ Span(2) = Word * Word
      /\ Span(3) = Word * Word * Word /\ Span(4) = Word * Word * Word * Word
  BY DEF Span
<1>3. /\ Span(0 + 1) = Span(0) * Word /\ Span(1 + 1) = Span(1) * Word
      /\ Span(2 + 1) = Span(2) * Word /\ Span(3 + 1) = Span(3) * Word
  BY <1>1, <1>2
<1>4. Span(0) \in Nat \ {0}
  BY <1>2
<1>5. Span(1) \in Nat \ {0}
  BY <1>1, <1>2
<1>6. Span(2) \in Nat \ {0}
  BY <1>1, <1>2, TimesPositive
<1>7. Span(3) \in Nat \ {0}
  BY <1>1, <1>2, <1>6, TimesPositive
<1>8. Span(4) \in Nat \ {0}
  BY <1>1, <1>2, <1>7, TimesPositive
<1>9. \A n \in 0..3 : n \in {0, 1, 2, 3}
  OBVIOUS
<1>10. \A n \in 0..4 : n \in {0, 1, 2, 3, 4}
  OBVIOUS
<1>11. \A n \in 0..3 : Span(n + 1) = Span(n) * Word
  <2> HIDE DEF Span
  <2> QED BY <1>3, <1>9
<1>12. \A n \in 0..4 : Span(n) \in Nat \ {0}
  <2> HIDE DEF Span
  <2> QED BY <1>4, <1>5, <1>6, <1>7, <1>8, <1>10
<1> QED BY <1>2, <1>11, <1>12

(* The first half of the values of a type, and the widest type.             *)
LEMMA Halves ==
  ASSUME NEW n \in Sizes
  PROVE  /\ Span(n) \in Nat \ {0} /\ Span(n) \div 2 \in Nat \ {0}
         /\ Span(n) = 2 * (Span(n) \div 2)
         /\ Span(n) <= Span(4)
<1>1. Word \in Nat \ {0} /\ Word % 2 = 0
  BY RegisterAssumption DEF RegisterAssumption
<1>2. \A k \in Nat \ {0} : Word * k = 2 * ((Word \div 2) * k)
  <2>1. Word = 2 * (Word \div 2) /\ Word \div 2 \in Nat
    BY <1>1
  <2> DEFINE h == Word \div 2
  <2> HIDE DEF h
  <2> TAKE k \in Nat \ {0}
  <2>2. (2 * h) * k = 2 * (h * k)
    BY <2>1, SMT DEF h
  <2> QED BY <2>1, <2>2 DEF h
<1>3. \E k \in Nat \ {0} : Span(n) = Word * k
  <2>1. CASE n = 1
    BY <1>1, <2>1, Spans
  <2>2. CASE n = 2
    BY <1>1, <2>2, Spans
  <2>3. CASE n = 4
    <3>1. Span(3) \in Nat \ {0} /\ Span(4) = Span(3) * Word
      BY Spans
    <3>2. Span(4) = Word * Span(3)
      BY <1>1, <3>1, SMT
    <3> QED BY <2>3, <3>1, <3>2
  <2> QED BY <2>1, <2>2, <2>3 DEF Sizes
<1>4. PICK k \in Nat \ {0} : Span(n) = Word * k
  BY <1>3
<1>5. Span(n) \in Nat \ {0}
  BY Spans DEF Sizes
<1>6. (Word \div 2) * k \in Nat
  <2>1. Word \div 2 \in Nat
    BY <1>1
  <2> QED BY <2>1, SMT
<1>7. Span(n) = 2 * ((Word \div 2) * k)
  BY <1>2, <1>4
<1>8. Span(n) \div 2 = (Word \div 2) * k
  <2> DEFINE h == (Word \div 2) * k
             p == Span(n)
  <2>1. h \in Nat /\ p \in Nat /\ p = 2 * h
    BY <1>5, <1>6, <1>7
  <2> HIDE DEF h, p
  <2>2. p \div 2 = h
    BY <2>1
  <2> QED BY <2>2 DEF h, p
<1>9. Span(n) <= Span(4)
  <2>1. \A a \in Nat \ {0} : a <= a * Word
    BY <1>1, SMT
  <2>2. Span(1) <= Span(2) /\ Span(2) <= Span(3) /\ Span(3) <= Span(4)
    BY <2>1, Spans
  <2>3. Span(1) \in Nat /\ Span(2) \in Nat /\ Span(3) \in Nat /\ Span(4) \in Nat
    BY Spans
  <2> QED BY <2>2, <2>3 DEF Sizes
<1> QED BY <1>5, <1>6, <1>7, <1>8, <1>9

LEMMA SpanDivides ==
  ASSUME NEW n \in Sizes
  PROVE  \E k \in Nat : Span(4) = Span(n) * k
<1>1. Word \in Nat \ {0} /\ Word * Word \in Nat /\ Word * Word * Word \in Nat
  BY RegisterAssumption, TimesPositive DEF RegisterAssumption
<1>2. CASE n = 1
  <2>1. Span(4) = Span(1) * (Word * Word * Word)
    BY <1>1, Spans, SMT
  <2> QED BY <1>1, <1>2, <2>1
<1>3. CASE n = 2
  <2>1. Span(4) = Span(2) * (Word * Word)
    BY <1>1, Spans, SMT
  <2> QED BY <1>1, <1>3, <2>1
<1>4. CASE n = 4
  <2>1. Span(4) = Span(4) * 1
    BY Spans
  <2> QED BY <1>4, <2>1
<1> QED BY <1>2, <1>3, <1>4 DEF Sizes


-------------------------------------------------------------------------------
(* The conversions.                                                         *)

(* The digit of weight Span(k) of a number. *)
DigitAt(u, k) == (u \div Span(k)) % Word

LEMMA DigitOf ==
  ASSUME NEW u \in Nat, NEW k \in 0..3
  PROVE  DigitAt(u, k) * Span(k)
           = (u \div Span(k)) * Span(k) - (u \div Span(k + 1)) * Span(k + 1)
<1>1. Span(k) \in Nat \ {0} /\ Span(k + 1) = Span(k) * Word
  BY Spans
<1> QED BY <1>1, Digit DEF DigitAt

(* A number is the sum of its digits. *)
LEMMA SumOfDigits ==
  ASSUME NEW u \in Nat
  PROVE  /\ u < Span(1) => DigitAt(u, 0) = u
         /\ u < Span(2) => DigitAt(u, 1) * Span(1) + DigitAt(u, 0) = u
         /\ u < Span(4) => DigitAt(u, 3) * Span(3) + DigitAt(u, 2) * Span(2)
                             + DigitAt(u, 1) * Span(1) + DigitAt(u, 0) = u
<1> DEFINE p(k) == (u \div Span(k)) * Span(k)
           d(k) == DigitAt(u, k) * Span(k)
<1>1. ASSUME NEW k \in 0..4
      PROVE  p(k) \in Nat /\ (u < Span(k) => p(k) = 0)
  <2>1. Span(k) \in Nat \ {0}
    BY Spans
  <2> DEFINE b == Span(k)
             q == u \div b
  <2>2. q \in Nat /\ u = q * b + (u % b) /\ u % b \in Nat /\ u % b < b
    <3> HIDE DEF b
    <3> QED BY <2>1, DivModNat DEF b
  <2>3. u < b => q = 0
    <3>1. u < b => u = 0 * b + u
      BY <2>1
    <3> QED BY <2>1, <3>1, DivUnique
  <2> HIDE DEF b, q
  <2>4. q * b \in Nat /\ (q = 0 => q * b = 0)
    BY <2>1, <2>2, SMT DEF b
  <2> QED BY <2>3, <2>4 DEF b, q
<1>2. \A k \in 0..3 : d(k) = p(k) - p(k + 1)
  BY DigitOf
<1>3. p(0) = u
  BY Spans
<1>4. DigitAt(u, 0) = d(0)
  <2>1. DigitAt(u, 0) \in Int
    <3>1. u \div Span(0) \in Nat
      BY Spans, DivModNat
    <3> QED BY <3>1, RegisterAssumption, DivModNat DEF DigitAt, RegisterAssumption
  <2> QED BY <2>1, Spans
<1> HIDE DEF p, d
<1>5. /\ d(0) = p(0) - p(1) /\ d(1) = p(1) - p(2)
      /\ d(2) = p(2) - p(3) /\ d(3) = p(3) - p(4)
  <2>1. d(0) = p(0) - p(0 + 1) /\ d(1) = p(1) - p(1 + 1)
        /\ d(2) = p(2) - p(2 + 1) /\ d(3) = p(3) - p(3 + 1)
    BY <1>2
  <2> QED BY <2>1
<1>6. p(0) \in Nat /\ p(1) \in Nat /\ p(2) \in Nat /\ p(3) \in Nat /\ p(4) \in Nat
  BY <1>1
<1>7. /\ u < Span(1) => p(1) = 0
      /\ u < Span(2) => p(2) = 0
      /\ u < Span(4) => p(4) = 0
  BY <1>1
<1>8. u < Span(1) => d(0) = u
  BY <1>3, <1>5, <1>6, <1>7
<1>9. u < Span(2) => d(1) + d(0) = u
  BY <1>3, <1>5, <1>6, <1>7
<1>10. u < Span(4) => d(3) + d(2) + d(1) + d(0) = u
  BY <1>3, <1>5, <1>6, <1>7
<1>11. u < Span(2) => DigitAt(u, 1) * Span(1) + DigitAt(u, 0) = u
  BY <1>4, <1>9 DEF d
<1>12. u < Span(4) => DigitAt(u, 3) * Span(3) + DigitAt(u, 2) * Span(2)
                        + DigitAt(u, 1) * Span(1) + DigitAt(u, 0) = u
  BY <1>4, <1>10 DEF d
<1> QED BY <1>4, <1>8, <1>11, <1>12

(* to_val undoes what the device did, in either order of the words. *)
LEMMA ToVal ==
  ASSUME NEW x \in Int, NEW n \in Sizes, NEW e \in {"little", "big"}
  PROVE  to_val(Words(x, n, e), n, e) = AsSigned(x % Span(n), n)
<1> DEFINE u == x % Span(n)
           regs == Words(x, n, e)
           w(k) == regs[IF e = "little" THEN k + 1 ELSE n - k]
<1>1. u \in Nat /\ u < Span(n) /\ Span(n) \in Nat \ {0}
  <2>1. Span(n) \in Nat \ {0}
    BY Halves
  <2>2. x % Span(n) \in 0..(Span(n) - 1)
    BY <2>1, DivMod
  <2> QED BY <2>1, <2>2
<1>2. ASSUME NEW k \in 0..(n - 1) PROVE w(k) = DigitAt(u, k)
  <2> DEFINE i == IF e = "little" THEN k + 1 ELSE n - k
  <2>1. n \in Nat /\ i \in 1..n /\ (IF e = "little" THEN i - 1 ELSE n - i) = k
    BY DEF Sizes
  <2> HIDE DEF i
  <2>2. regs[i] = LET j == IF e = "little" THEN i - 1 ELSE n - i
                  IN  ((x % Span(n)) \div Span(j)) % Span(1)
    BY <2>1 DEF Words
  <2> QED BY <2>1, <2>2, Spans DEF i, DigitAt
<1>3. CASE n = 1
  <2>1. w(0) = u
    BY <1>1, <1>2, <1>3, SumOfDigits
  <2>2. to_val(regs, n, e) = AsSigned(w(0), 1)
    BY <1>3 DEF to_val
  <2> QED BY <1>3, <2>1, <2>2
<1>4. CASE n = 2
  <2>1. w(1) = DigitAt(u, 1) /\ w(0) = DigitAt(u, 0)
    BY <1>2, <1>4
  <2>2. to_val(regs, n, e) = AsSigned(w(1) * Span(1) + w(0), 2)
    BY <1>4 DEF to_val
  <2> HIDE DEF w, regs, u
  <2>3. w(1) * Span(1) + w(0) = u
    BY <1>1, <1>4, <2>1, SumOfDigits
  <2>4. to_val(regs, n, e) = AsSigned(u, n)
    BY <1>4, <2>2, <2>3
  <2> QED BY <2>4 DEF regs, u
<1>5. CASE n = 4
  <2>1. w(3) = DigitAt(u, 3) /\ w(2) = DigitAt(u, 2) /\ w(1) = DigitAt(u, 1) /\ w(0) = DigitAt(u, 0)
    BY <1>2, <1>5
  <2>2. to_val(regs, n, e)
          = AsSigned(w(3) * Span(3) + w(2) * Span(2) + w(1) * Span(1) + w(0), 4)
    BY <1>5 DEF to_val
  <2> HIDE DEF w, regs, u
  <2>3. w(3) * Span(3) + w(2) * Span(2) + w(1) * Span(1) + w(0) = u
    BY <1>1, <1>5, <2>1, SumOfDigits
  <2>4. to_val(regs, n, e) = AsSigned(u, n)
    BY <1>5, <2>2, <2>3
  <2> QED BY <2>4 DEF regs, u
<1> QED BY <1>3, <1>4, <1>5 DEF Sizes

(* What to_val makes of a value of the source's type: the value itself, or  *)
(* what it is less a whole span, if it has no sign and is one of the upper  *)
(* half.                                                                    *)
LEMMA ValueRead ==
  ASSUME NEW vt \in ValueTypes, NEW x \in Lowest(vt)..Highest(vt), NEW e \in {"little", "big"}
  PROVE  LET n == vt.reg_size
             v == to_val(Words(x, n, e), n, e)
         IN  v = IF ~vt.signed /\ x >= Span(n) \div 2 THEN x - Span(n) ELSE x
<1> DEFINE n == vt.reg_size
           p == Span(n)
           h == p \div 2
           u == x % p
<1>1. n \in Sizes /\ vt.signed \in BOOLEAN
  BY DEF ValueTypes
<1> HIDE DEF n
<1>2. p \in Nat \ {0} /\ h \in Nat \ {0} /\ p = 2 * h
  BY <1>1, Halves
<1>3. x \in Int /\ x >= (IF vt.signed THEN -h ELSE 0)
      /\ x <= (IF vt.signed THEN h ELSE p) - 1
  <2>1. Lowest(vt) = (IF vt.signed THEN -h ELSE 0)
        /\ Highest(vt) = (IF vt.signed THEN h ELSE p) - 1
    BY DEF Lowest, Highest, n
  <2> HIDE DEF p, h
  <2> QED BY <1>1, <1>2, <2>1
<1>4. to_val(Words(x, n, e), n, e) = AsSigned(u, n)
  BY <1>1, <1>3, ToVal
<1>5. AsSigned(u, n) = IF u % p >= h THEN (u % p) - p ELSE u % p
  BY DEF AsSigned
<1> HIDE DEF p, h
<1>6. u = IF x < 0 THEN x + p ELSE x
  <2>1. CASE x < 0
    <3>1. x = (-1) * p + (x + p) /\ x + p \in Nat /\ x + p < p
      BY <1>1, <1>2, <1>3, <2>1
    <3>2. x % p = x + p
      BY <1>2, <1>3, <3>1, DivUnique
    <3> QED BY <2>1, <3>2
  <2>2. CASE ~ (x < 0)
    <3>1. x = 0 * p + x /\ x \in Nat /\ x < p
      BY <1>1, <1>2, <1>3, <2>2
    <3>2. x % p = x
      BY <1>2, <1>3, <3>1, DivUnique
    <3> QED BY <2>2, <3>2
  <2> QED BY <2>1, <2>2
<1> HIDE DEF u
<1>7. u % p = u
  <2>1. u \in Nat /\ u < p /\ u = 0 * p + u
    BY <1>1, <1>2, <1>3, <1>6
  <2> QED BY <1>2, <2>1, DivUnique
<1>8. (IF u >= h THEN u - p ELSE u)
        = IF ~vt.signed /\ x >= h THEN x - p ELSE x
  BY <1>1, <1>2, <1>3, <1>6
<1>9. AsSigned(u, n) = IF ~vt.signed /\ x >= h THEN x - p ELSE x
  BY <1>5, <1>7, <1>8
<1> QED BY <1>4, <1>9 DEF n, p, h, u

(* What meas_task compares with the limits: the device's value, or one      *)
(* above every value of its type.                                           *)
LEMMA ValueCompared ==
  ASSUME NEW vt \in ValueTypes, NEW x \in Lowest(vt)..Highest(vt), NEW e \in {"little", "big"}
  PROVE  LET n == vt.reg_size
             v == to_val(Words(x, n, e), n, e)
             c == IF vt.signed THEN v ELSE AsUnsigned(v, IntMaxSize)
         IN  /\ c \in Int /\ Highest(vt) \in Int
             /\ c = x \/ c > Highest(vt)
             /\ vt.signed \/ n = IntMaxSize => c = x
<1> DEFINE n == vt.reg_size
           v == to_val(Words(x, n, e), n, e)
           p == Span(n)
           h == p \div 2
           P == Span(4)
<1>1. n \in Sizes /\ vt.signed \in BOOLEAN
  BY DEF ValueTypes
<1>2. v = IF ~vt.signed /\ x >= h THEN x - p ELSE x
  BY ValueRead
<1> HIDE DEF n, v
<1>3. p \in Nat \ {0} /\ h \in Nat \ {0} /\ p = 2 * h /\ p <= P
  BY <1>1, Halves
<1>4. P \in Nat \ {0}
  BY Spans
<1>5. AsUnsigned(v, IntMaxSize) = v % P
  BY DEF AsUnsigned, IntMaxSize
<1>6. /\ Lowest(vt) = IF vt.signed THEN -h ELSE 0
      /\ Highest(vt) = (IF vt.signed THEN h ELSE p) - 1
  BY DEF Lowest, Highest, n
<1>7. n = IntMaxSize => p = P
  BY DEF IntMaxSize
<1> HIDE DEF p, h, P
<1>8. x \in Int /\ Highest(vt) \in Int
      /\ (~vt.signed => x >= 0 /\ x < p)
  BY <1>1, <1>3, <1>6
<1>9. CASE vt.signed
  BY <1>2, <1>8, <1>9 DEF n, v
<1>10. CASE ~vt.signed /\ x < h
  <2>1. v = x /\ x = 0 * P + x /\ x \in Nat /\ x < P
    BY <1>2, <1>3, <1>4, <1>8, <1>10
  <2>2. v % P = x
    BY <1>4, <2>1, DivUnique
  <2> QED BY <1>5, <1>8, <1>10, <2>2 DEF n, v
<1>11. CASE ~vt.signed /\ x >= h
  <2>1. /\ v = x - p /\ v = (-1) * P + (v + P) /\ v \in Int
        /\ v + P \in Nat /\ v + P < P
    BY <1>2, <1>3, <1>4, <1>8, <1>11
  <2>2. v % P = v + P
    <3>1. v \in Int /\ v + P \in Nat /\ v + P < P /\ v = (-1) * P + (v + P) /\ -1 \in Int
      BY <2>1
    <3> QED BY <1>4, <3>1, DivUnique
  <2>3. p = P => v + P = x
    BY <1>3, <1>4, <1>8, <2>1
  <2>4. p # P => v + P > p - 1
    <3>1. \E k \in Nat : P = p * k
      BY <1>1, SpanDivides DEF p, P
    <3>2. PICK k \in Nat : P = p * k
      BY <3>1
    <3>3. p # P => k # 0 /\ k # 1
      BY <1>3, <1>4, <3>2, SMT
    <3>4. p # P => P >= 2 * p
      BY <1>3, <3>2, <3>3, SMT
    <3> QED BY <1>3, <1>4, <1>8, <1>11, <2>1, <3>4
  <2> QED BY <1>5, <1>6, <1>7, <1>8, <1>11, <2>1, <2>2, <2>3, <2>4 DEF n, v
<1>12. ~vt.signed => x < h \/ x >= h
  BY <1>3, <1>8
<1> QED BY <1>1, <1>9, <1>10, <1>11, <1>12

-------------------------------------------------------------------------------
(* The invariant.                                                           *)

Types ==
  /\ source \in [value_type : ValueTypes, endianess : {"little", "big"}, min : Int, max : Int]
  /\ at # "running" => sample = NoSample

Inv == Types /\ LimitsAsGiven /\ NoWrongSample /\ SignedClassified

LEMMA BoundsInRange ==
  ASSUME NEW vt \in ValueTypes
  PROVE  /\ Lowest(vt) \in Int /\ Highest(vt) \in Int
         /\ value_in_range(Lowest(vt), vt) /\ value_in_range(Highest(vt), vt)
<1> DEFINE n == vt.reg_size
           p == Span(n)
           h == p \div 2
<1>1. n \in Sizes /\ vt.signed \in BOOLEAN
  BY DEF ValueTypes
<1> HIDE DEF n
<1>2. p \in Nat \ {0} /\ h \in Nat \ {0} /\ p = 2 * h
  BY <1>1, Halves
<1>3. /\ Lowest(vt) = IF vt.signed THEN -h ELSE 0
      /\ Highest(vt) = (IF vt.signed THEN h ELSE p) - 1
  BY DEF Lowest, Highest, n
<1> HIDE DEF p, h
<1> QED BY <1>1, <1>2, <1>3 DEF value_in_range

Texts == [tab : BOOLEAN, minus : BOOLEAN, digits : Nat]

(* A limit that is accepted is of the type, and is the number that was      *)
(* given, or that number wrapped around once.                               *)
LEMMA AcceptedAsGiven ==
  ASSUME NEW text \in Texts, NEW vt \in ValueTypes, NEW before, accepted(text, vt, before)
  PROVE  LET x == strtomax(text, vt)
         IN  /\ x \in Int /\ value_in_range(x, vt)
             /\ \/ x = Number(text)
                \/ Wraps(text, vt) /\ x = Number(text) + Span(IntMaxSize)
<1> DEFINE p == Span(IntMaxSize)
           d == text.digits
           x == strtomax(text, vt)
<1>1. p \in Nat \ {0} /\ d \in Nat /\ text.minus \in BOOLEAN /\ text.tab \in BOOLEAN
      /\ vt.signed \in BOOLEAN
  BY Spans DEF Texts, IntMaxSize, ValueTypes
<1>2. ~MinusFound(text, vt) /\ ~OutOfRange(text, vt) /\ value_in_range(x, vt)
  BY DEF accepted, ErrnoAfter
<1>3. Number(text) = IF text.minus THEN -d ELSE d
  BY DEF Number
<1>4. CASE vt.signed
  <2>1. x = Number(text)
    BY <1>4 DEF strtomax
  <2> HIDE DEF x, d
  <2>2. x \in Int
    BY <1>1, <1>3, <2>1
  <2> QED BY <1>2, <2>1, <2>2 DEF x
<1>5. CASE ~vt.signed
  <2>1. Highest(Widest(vt)) = p - 1
    BY <1>5 DEF Highest, Widest, ValueTypes
  <2>2. d <= p - 1
    <3> DEFINE top == Highest(Widest(vt))
    <3>1. ~ (d > top) /\ top = p - 1
      BY <1>2, <1>5, <2>1 DEF OutOfRange
    <3> HIDE DEF d, p, top
    <3> QED BY <1>1, <3>1
  <2>3. x = Number(text) % p /\ (text.minus => text.tab)
    BY <1>1, <1>2, <1>5 DEF strtomax, AsUnsigned, MinusFound
  <2>4. CASE ~text.minus \/ d = 0
    <3> HIDE DEF x, d, p
    <3>1. Number(text) = d
      BY <1>1, <1>3, <2>4
    <3>2. d = 0 * p + d /\ d < p
      BY <1>1, <2>2
    <3>3. d % p = d
      BY <1>1, <3>2, DivUnique
    <3>4. x = Number(text) /\ x \in Int
      BY <1>1, <2>3, <3>1, <3>3
    <3> QED BY <1>2, <3>4 DEF x
  <2>5. CASE text.minus /\ d # 0
    <3> DEFINE r == -d + p
    <3>1. r \in Nat /\ r < p /\ -d = (-1) * p + r /\ -d \in Int /\ -1 \in Int
      <4> HIDE DEF d, p
      <4> QED BY <1>1, <2>2, <2>5
    <3>2. (-d) % p = r
      <4> HIDE DEF d, p, r
      <4> QED BY <1>1, <3>1, DivUnique
    <3>3. x = r /\ Number(text) = -d
      BY <1>3, <2>3, <2>5, <3>2
    <3>4. Wraps(text, vt)
      BY <1>5, <2>3, <2>5 DEF Wraps
    <3> QED BY <1>2, <3>1, <3>3, <3>4
  <2> QED BY <1>1, <2>4, <2>5
<1> QED BY <1>1, <1>4, <1>5

LEMMA StrtomaxInt ==
  ASSUME NEW text \in Texts, NEW vt \in ValueTypes
  PROVE  strtomax(text, vt) \in Int
<1>1. Span(IntMaxSize) \in Nat \ {0}
  BY Spans DEF IntMaxSize
<1>2. Number(text) \in Int
  <2>1. text.digits \in Nat
    BY DEF Texts
  <2> QED BY <2>1 DEF Number
<1>3. AsUnsigned(Number(text), IntMaxSize) \in Int
  <2>1. Number(text) % Span(IntMaxSize) \in 0..(Span(IntMaxSize) - 1)
    BY <1>1, <1>2, DivMod
  <2> QED BY <1>1, <2>1 DEF AsUnsigned
<1> QED BY <1>2, <1>3 DEF strtomax

LEMMA ConfigureInv ==
  ASSUME Inv, NEW min \in {<<>>} \cup {<<text>> : text \in Limits},
         NEW max \in {<<>>} \cup {<<text>> : text \in Limits}, Configure(min, max)
  PROVE  Inv'
<1> DEFINE vt == source.value_type
           low  == IF Given(min) THEN strtomax(min[1], vt) ELSE Lowest(vt)
           high == IF Given(max) THEN strtomax(max[1], vt) ELSE Highest(vt)
<1>1. vt \in ValueTypes
  BY DEF Inv, Types
<1>2. /\ Given(min) => min[1] \in Texts
      /\ Given(max) => max[1] \in Texts
  BY RegisterAssumption DEF RegisterAssumption, Given, Texts
<1>3. low \in Int /\ high \in Int
  BY <1>1, <1>2, BoundsInRange, StrtomaxInt
<1>4. /\ source' = [source EXCEPT !.min = low, !.max = high]
      /\ at = "config" /\ sample' = sample
      /\ given' = [min |-> min, max |-> max]
  BY DEF Configure
<1> HIDE DEF low, high
<1>6. /\ source' \in [value_type : ValueTypes, endianess : {"little", "big"},
                      min : Int, max : Int]
      /\ source'.value_type = vt /\ source'.min = low /\ source'.max = high
      /\ given'.min = min /\ given'.max = max
  BY <1>3, <1>4 DEF Inv, Types
<1>7. sample' = NoSample
  BY <1>4 DEF Inv, Types
<1>8. sample'.type = "none"
  BY <1>7 DEF NoSample
<1>9. LimitsAsGiven'
  <2> SUFFICES ASSUME at' = "running"
               PROVE  /\ value_in_range(low, vt) /\ AsGiven(source.min, given.min, Lowest(vt))'
                      /\ value_in_range(high, vt) /\ AsGiven(source.max, given.max, Highest(vt))'
    BY <1>6 DEF LimitsAsGiven
  <2>1. Given(min) => accepted(min[1], vt, errno)
    BY DEF Configure
  <2>2. \E e : Given(max) => accepted(max[1], vt, e)
    BY DEF Configure
  <2>3. value_in_range(low, vt) /\ AsGiven(source.min, given.min, Lowest(vt))'
    <3>1. CASE Given(min)
      <4>1. low = strtomax(min[1], vt)
        BY <3>1 DEF low
      <4>2. /\ value_in_range(low, vt)
            /\ \/ low = Number(min[1])
               \/ Wraps(min[1], vt) /\ low = Number(min[1]) + Span(IntMaxSize)
        BY <1>1, <1>2, <2>1, <3>1, <4>1, AcceptedAsGiven
      <4> QED BY <1>6, <3>1, <4>2 DEF AsGiven
    <3>2. CASE ~Given(min)
      <4>1. low = Lowest(vt)
        BY <3>2 DEF low
      <4> QED BY <1>1, <1>6, <3>2, <4>1, BoundsInRange DEF AsGiven
    <3> QED BY <3>1, <3>2
  <2>4. value_in_range(high, vt) /\ AsGiven(source.max, given.max, Highest(vt))'
    <3>1. CASE Given(max)
      <4>1. high = strtomax(max[1], vt)
        BY <3>1 DEF high
      <4>2. /\ value_in_range(high, vt)
            /\ \/ high = Number(max[1])
               \/ Wraps(max[1], vt) /\ high = Number(max[1]) + Span(IntMaxSize)
        BY <1>1, <1>2, <2>2, <3>1, <4>1, AcceptedAsGiven
      <4> QED BY <1>6, <3>1, <4>2 DEF AsGiven
    <3>2. CASE ~Given(max)
      <4>1. high = Highest(vt)
        BY <3>2 DEF high
      <4> QED BY <1>1, <1>6, <3>2, <4>1, BoundsInRange DEF AsGiven
    <3> QED BY <3>1, <3>2
  <2> QED BY <2>3, <2>4
<1> QED BY <1>6, <1>7, <1>8, <1>9 DEF Inv, Types, NoWrongSample, SignedClassified, Classified

(* A reading: what is above every value of the type is above the maximum.   *)
LEMMA ReadInv ==
  ASSUME Inv, Read
  PROVE  Inv'
<1> DEFINE vt  == source.value_type
           x   == value'
           v   == to_val(Words(x, vt.reg_size, source.endianess),
                         vt.reg_size, source.endianess)
           c   == IF vt.signed THEN v ELSE AsUnsigned(v, IntMaxSize)
           min == source.min
           max == source.max
<1>1. /\ vt \in ValueTypes /\ source.endianess \in {"little", "big"}
      /\ min \in Int /\ max \in Int
  BY DEF Inv, Types
<1>2. /\ at = "running" /\ x \in Lowest(vt)..Highest(vt)
      /\ UNCHANGED <<source, given, at>>
  BY DEF Read
<1>3. sample' = Compare(c, min, max)
  BY <1>1 DEF Read, ValueTypes
<1>4. /\ c \in Int
      /\ c = x \/ c > Highest(vt)
      /\ vt.signed \/ vt.reg_size = IntMaxSize => c = x
  BY <1>1, <1>2, ValueCompared
<1>5. Lowest(vt) \in Int /\ Highest(vt) \in Int
  BY <1>1, BoundsInRange
<1>6. max <= Highest(vt)
  BY <1>2 DEF Inv, LimitsAsGiven, value_in_range
<1>7. Types' /\ LimitsAsGiven'
  BY <1>2 DEF Inv, Types, LimitsAsGiven, AsGiven
<1>8. x \in Int /\ Expected' = IF x < min THEN "underflow"
                               ELSE IF x > max THEN "overflow" ELSE "regular"
  BY <1>2, <1>5 DEF Expected
<1>9. c = x => Classified'
  <2> HIDE DEF c, x, min, max
  <2> QED BY <1>1, <1>3, <1>8 DEF Compare, Classified
<1>10. sample'.type = "regular" => ~ (c < min) /\ ~ (c > max) /\ sample'.measurement = c * Scale
  <2> HIDE DEF c, x, min, max
  <2>1. CASE c < min
    BY <1>3, <2>1 DEF Compare
  <2>2. CASE ~ (c < min) /\ c > max
    <3>1. c >= min
      BY <1>1, <1>4, <2>2
    <3>2. sample' = [type |-> "overflow", measurement |-> 0]
      BY <1>3, <2>2, <3>1 DEF Compare
    <3> QED BY <3>2
  <2>3. CASE ~ (c < min) /\ ~ (c > max)
    <3>1. sample' = [type |-> "regular", measurement |-> c * Scale]
      BY <1>3, <2>3 DEF Compare
    <3> QED BY <2>3, <3>1
  <2> QED BY <2>1, <2>2, <2>3
<1>11. sample'.type = "regular" => c = x
  <2> DEFINE top == Highest(vt)
  <2>1. top \in Int /\ max <= top /\ (c = x \/ c > top)
    BY <1>4, <1>5, <1>6
  <2> HIDE DEF c, x, max, top
  <2>2. ~ (c > max) => ~ (c > top)
    BY <1>1, <1>4, <2>1
  <2> QED BY <1>10, <2>1, <2>2
<1>12. NoWrongSample'
  <2> HIDE DEF c, min, max
  <2> QED BY <1>8, <1>10, <1>11 DEF NoWrongSample
<1>13. SignedClassified'
  <2> HIDE DEF c
  <2> QED BY <1>2, <1>4, <1>9 DEF SignedClassified
<1> QED BY <1>7, <1>12, <1>13 DEF Inv

LEMMA InvInit ==
  ASSUME Init
  PROVE  Inv
  BY DEF Init, Inv, Types, NoSample, LimitsAsGiven, NoWrongSample, SignedClassified, Classified

LEMMA InvStep ==
  ASSUME Inv, [Next]_vars
  PROVE  Inv'
<1>1. CASE UNCHANGED vars
  BY <1>1 DEF vars, Inv, Types, LimitsAsGiven, AsGiven, NoWrongSample, SignedClassified, Classified,
              Expected
<1> QED BY <1>1, ConfigureInv, ReadInv DEF Next

LEMMA InvAlways == Spec => []Inv
<1>1. Init => Inv
  BY InvInit
<1>2. Inv /\ [Next]_vars => Inv'
  BY InvStep
<1> QED BY <1>1, <1>2, PTL DEF Spec

(* The limits that a program runs with are values of the register's type,   *)
(* and are the numbers the configuration gives, or the extremes of the type *)
(* where it gives none, whatever errno was before.  Only a negative number  *)
(* after a tab may have become another, for an unsigned type: it wrapped    *)
(* around once.                                                             *)
THEOREM LimitsAreAsGiven == Spec => []LimitsAsGiven
<1>1. Inv => LimitsAsGiven
  BY DEF Inv
<1> QED BY <1>1, InvAlways, PTL

(* What is a sample is the value the device had, and within the limits: the *)
(* conversion of to_val may misread a narrow unsigned value, but only as    *)
(* one that is above the maximum.                                           *)
THEOREM SamplesAreRight == Spec => []NoWrongSample
<1>1. Inv => NoWrongSample
  BY DEF Inv
<1> QED BY <1>1, InvAlways, PTL

(* A signed value, and an unsigned one of the widest type, counts as what   *)
(* it is: an underflow, an overflow or a sample.                            *)
THEOREM SignedAreClassified == Spec => []SignedClassified
<1>1. Inv => SignedClassified
  BY DEF Inv
<1> QED BY <1>1, InvAlways, PTL
===============================================================================
