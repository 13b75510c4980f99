------------------------- MODULE LargeNumbersProofs -------------------------
(***************************************************************************)
(* Proofs that the carry chains of u256 and u512 are exact for every width *)
(* of a limb.                                                              *)
(***************************************************************************)
EXTENDS LargeNumbers, TLAPS

(* Reducing a number that is too large, or too small, by at most one Base. *)
LEMMA ModFits ==
  ASSUME NEW m \in Nat, m > 0, NEW n \in 0 .. (m - 1)
  PROVE  n % m = n
OBVIOUS

(* A sum that overflows once, reduced. *)
LEMMA ModOver ==
  ASSUME NEW m \in Nat, m > 0, NEW n \in Int, m <= n, n < m + m
  PROVE  n % m = n - m
OBVIOUS

(* A difference that underflows once, reduced. *)
LEMMA ModUnder ==
  ASSUME NEW m \in Nat, m > 0, NEW n \in Int, -m <= n, n < 0
  PROVE  n % m = n + m
OBVIOUS

-----------------------------------------------------------------------------
(* One turn of the loop of Add: the value and the carry of a limb are the  *)
(* two digits of the sum.                                                  *)
LEMMA AddLimbExact ==
  ASSUME NEW p \in Limb, NEW q \in Limb, NEW c \in {0, 1}
  PROVE  LET r == AddLimb(p, q, c) IN
           /\ r.val \in Limb /\ r.carry \in {0, 1}
           /\ r.val + Base * r.carry = p + q + c
<1> DEFINE sum == (p + q) % Base
<1>1. /\ Base \in Nat /\ Base > 1 /\ p \in Nat /\ p < Base /\ q \in Nat /\ q < Base
      /\ c \in Nat /\ c <= 1
  BY LimbConstants DEF Limb
<1>2. CASE p + q >= Base
  <2>1. sum = p + q - Base
    BY <1>1, <1>2, ModOver
  <2>2. (sum + c) % Base = sum + c
    BY <1>1, <2>1, ModFits
  <2>3. AddLimb(p, q, c).val = p + q - Base + c /\ AddLimb(p, q, c).carry = 1
    BY <1>2, <2>1, <2>2 DEF AddLimb
  <2> QED BY <1>1, <1>2, <2>3 DEF Limb
<1>3. CASE p + q < Base /\ p + q + c >= Base
  <2>1. sum = p + q
    BY <1>1, <1>3, ModFits
  <2>2. (sum + c) % Base = 0
    BY <1>1, <1>3, <2>1, ModOver
  <2>3. AddLimb(p, q, c).val = 0 /\ AddLimb(p, q, c).carry = 1
    BY <1>1, <1>3, <2>1, <2>2 DEF AddLimb
  <2> QED BY <1>1, <1>3, <2>3 DEF Limb
<1>4. CASE p + q + c < Base
  <2>1. sum = p + q
    BY <1>1, <1>4, ModFits
  <2>2. (sum + c) % Base = sum + c
    BY <1>1, <1>4, <2>1, ModFits
  <2>3. AddLimb(p, q, c).val = p + q + c /\ AddLimb(p, q, c).carry = 0
    BY <1>1, <1>4, <2>1, <2>2 DEF AddLimb
  <2> QED BY <1>1, <1>4, <2>3 DEF Limb
<1> QED BY <1>1, <1>2, <1>3, <1>4

(* One turn of the loop of Sub. *)
LEMMA SubLimbExact ==
  ASSUME NEW p \in Limb, NEW q \in Limb, NEW c \in {0, 1}
  PROVE  LET r == SubLimb(p, q, c) IN
           /\ r.val \in Limb /\ r.carry \in {0, 1}
           /\ r.val - Base * r.carry = p - q - c
<1> DEFINE sum == (p - q) % Base
<1>1. /\ Base \in Nat /\ Base > 1 /\ p \in Nat /\ p < Base /\ q \in Nat /\ q < Base
      /\ c \in Nat /\ c <= 1
  BY LimbConstants DEF Limb
<1>2. CASE p - q < 0
  <2>1. sum = p - q + Base
    BY <1>1, <1>2, ModUnder
  <2>2. (sum - c) % Base = sum - c
    BY <1>1, <1>2, <2>1, ModFits
  <2>3. SubLimb(p, q, c).val = p - q + Base - c /\ SubLimb(p, q, c).carry = 1
    BY <1>1, <1>2, <2>1, <2>2 DEF SubLimb
  <2> QED BY <1>1, <1>2, <2>3 DEF Limb
<1>3. CASE p - q >= 0 /\ p - q - c < 0
  <2>1. sum = p - q
    BY <1>1, <1>3, ModFits
  <2>2. (sum - c) % Base = Base - 1
    BY <1>1, <1>3, <2>1, ModUnder
  <2>3. SubLimb(p, q, c).val = Base - 1 /\ SubLimb(p, q, c).carry = 1
    BY <1>1, <1>3, <2>1, <2>2 DEF SubLimb
  <2> QED BY <1>1, <1>3, <2>3 DEF Limb
<1>4. CASE p - q - c >= 0
  <2>1. sum = p - q
    BY <1>1, <1>4, ModFits
  <2>2. (sum - c) % Base = sum - c
    BY <1>1, <1>4, <2>1, ModFits
  <2>3. SubLimb(p, q, c).val = p - q - c /\ SubLimb(p, q, c).carry = 0
    BY <1>1, <1>4, <2>1, <2>2 DEF SubLimb
  <2> QED BY <1>1, <1>4, <2>3 DEF Limb
<1> QED BY <1>1, <1>2, <1>3, <1>4

(* A number of two limbs is at least 0 and below the square of the base. *)
LEMMA TwoDigitBound ==
  ASSUME NEW m \in Nat, NEW a1 \in 0 .. (m - 1), NEW a2 \in 0 .. (m - 1)
  PROVE  a1 + m * a2 \in 0 .. ((m * m) - 1)
<1>1. m * a2 >= 0
  OBVIOUS
<1>2. m * ((m - 1) - a2) >= 0
  OBVIOUS
<1>3. m * a2 <= m * m - m
  BY <1>2
<1> QED BY <1>1, <1>3

(* The low digit is the remainder. *)
LEMMA TwoDigitLow ==
  ASSUME NEW m \in Nat, m > 0, NEW a1 \in 0 .. (m - 1), NEW a2 \in Int
  PROVE  (a1 + m * a2) % m = a1
OBVIOUS

(* Bounds of Base and its powers. *)
LEMMA BaseFacts ==
  /\ Base \in Nat /\ Base > 1
  /\ Mod256 \in Nat /\ Mod256 > Base
  /\ Mod512 \in Nat /\ Mod512 > Mod256
<1>1. Base \in Nat /\ Base > 1
  BY LimbConstants
<1>2. ASSUME NEW m \in Nat, m > 1 PROVE m * m \in Nat /\ m * m > m
  <2>1. m * (m - 1) >= m
    BY <1>2
  <2> QED BY <1>2, <2>1
<1>3. Mod256 \in Nat /\ Mod256 > Base
  BY <1>1, <1>2 DEF Mod256
<1>4. Mod512 \in Nat /\ Mod512 > Mod256
  BY <1>1, <1>2, <1>3 DEF Mod512
<1> QED BY <1>1, <1>3, <1>4

(* A u256 stands for a number below 2^256. *)
LEMMA Value256Type ==
  ASSUME NEW a \in u256
  PROVE  /\ a[1] \in Limb /\ a[2] \in Limb /\ a = <<a[1], a[2]>>
         /\ Value256(a) \in 0 .. (Mod256 - 1)
<1>1. a[1] \in Limb /\ a[2] \in Limb /\ a = <<a[1], a[2]>>
  BY DEF u256
<1>2. a[1] + Base * a[2] \in 0 .. ((Base * Base) - 1)
  BY <1>1, BaseFacts, TwoDigitBound DEF Limb
<1> QED BY <1>1, <1>2 DEF Value256, Mod256

(* A u512 stands for a number below 2^512. *)
LEMMA Value512Type ==
  ASSUME NEW v \in u512
  PROVE  /\ v[1] \in u256 /\ v[2] \in u256 /\ v = <<v[1], v[2]>>
         /\ Value512(v) \in 0 .. (Mod512 - 1)
         /\ Value512(v) = Value256(v[1]) + Mod256 * Value256(v[2])
<1>1. v[1] \in u256 /\ v[2] \in u256 /\ v = <<v[1], v[2]>>
  BY DEF u512
<1>2. Value256(v[1]) \in 0 .. (Mod256 - 1) /\ Value256(v[2]) \in 0 .. (Mod256 - 1)
  BY <1>1, Value256Type
<1>3. Value512(v) = Value256(v[1]) + Mod256 * Value256(v[2])
  BY DEF Value512, Mod256
<1>4. Value256(v[1]) + Mod256 * Value256(v[2]) \in 0 .. ((Mod256 * Mod256) - 1)
  BY <1>2, BaseFacts, TwoDigitBound
<1> QED BY <1>1, <1>3, <1>4 DEF Mod512

-----------------------------------------------------------------------------
(* overflowing_add of u256 is exact: the value and the flag are the sum.   *)
LEMMA OverflowingAddExact ==
  ASSUME NEW a \in u256, NEW b \in u256
  PROVE  LET r == OverflowingAdd(a, b) IN
           /\ r.val \in u256 /\ r.carry \in {0, 1}
           /\ Value256(r.val) + Mod256 * r.carry = Value256(a) + Value256(b)
<1> DEFINE lo == AddLimb(a[1], b[1], 0)
           hi == AddLimb(a[2], b[2], lo.carry)
           r == OverflowingAdd(a, b)
<1>1. a[1] \in Limb /\ a[2] \in Limb /\ b[1] \in Limb /\ b[2] \in Limb
  BY Value256Type
<1>2. lo.val \in Limb /\ lo.carry \in {0, 1} /\ lo.val + Base * lo.carry = a[1] + b[1] + 0
  BY <1>1, AddLimbExact
<1>3. hi.val \in Limb /\ hi.carry \in {0, 1} /\ hi.val + Base * hi.carry = a[2] + b[2] + lo.carry
  BY <1>1, <1>2, AddLimbExact
<1>4. r.val = <<lo.val, hi.val>> /\ r.carry = hi.carry
  BY DEF OverflowingAdd
<1> HIDE DEF lo, hi, r
<1>5. /\ Base \in Int /\ a[1] \in Int /\ a[2] \in Int /\ b[1] \in Int /\ b[2] \in Int
      /\ lo.val \in Int /\ hi.val \in Int /\ lo.carry \in Int /\ hi.carry \in Int
  <2>1. lo.val \in Limb /\ hi.val \in Limb /\ lo.carry \in {0, 1} /\ hi.carry \in {0, 1}
    BY <1>2, <1>3, Zenon
  <2> QED BY <1>1, <2>1, BaseFacts DEF Limb
<1>6. (lo.val + Base * hi.val) + (Base * Base) * hi.carry
        = (a[1] + Base * a[2]) + (b[1] + Base * b[2])
  <2> DEFINE H == Base * hi.val
             C == (Base * Base) * hi.carry
             A == Base * a[2]
             B == Base * b[2]
             L == Base * lo.carry
  <2>1. H \in Int /\ C \in Int /\ A \in Int /\ B \in Int /\ L \in Int
    BY <1>5
  <2>2. Base * (hi.val + Base * hi.carry) = H + C
    BY <1>5
  <2>3. Base * (a[2] + b[2] + lo.carry) = A + B + L
    BY <1>5
  <2>4. H + C = A + B + L
    BY <1>3, <2>2, <2>3
  <2>5. lo.val + L = a[1] + b[1]
    BY <1>2, <1>5
  <2> HIDE DEF H, C, A, B, L
  <2>6. (lo.val + H) + C = (a[1] + A) + (b[1] + B)
    <3>1. C = A + B + L - H /\ lo.val = a[1] + b[1] - L
      BY <1>5, <2>1, <2>4, <2>5
    <3> QED BY <1>5, <2>1, <3>1
  <2> QED BY <2>6 DEF H, C, A, B
<1>7. r.val \in u256 /\ r.carry \in {0, 1}
  BY <1>2, <1>3, <1>4 DEF u256
<1>8. Value256(r.val) + Mod256 * r.carry = Value256(a) + Value256(b)
  BY <1>4, <1>6 DEF Value256, Mod256
<1> QED BY <1>7, <1>8 DEF r

(* overflowing_sub of u256 is exact. *)
LEMMA OverflowingSubExact ==
  ASSUME NEW a \in u256, NEW b \in u256
  PROVE  LET r == OverflowingSub(a, b) IN
           /\ r.val \in u256 /\ r.carry \in {0, 1}
           /\ Value256(r.val) - Mod256 * r.carry = Value256(a) - Value256(b)
<1> DEFINE lo == SubLimb(a[1], b[1], 0)
           hi == SubLimb(a[2], b[2], lo.carry)
           r == OverflowingSub(a, b)
<1>1. a[1] \in Limb /\ a[2] \in Limb /\ b[1] \in Limb /\ b[2] \in Limb
  BY Value256Type
<1>2. lo.val \in Limb /\ lo.carry \in {0, 1} /\ lo.val - Base * lo.carry = a[1] - b[1] - 0
  BY <1>1, SubLimbExact
<1>3. hi.val \in Limb /\ hi.carry \in {0, 1} /\ hi.val - Base * hi.carry = a[2] - b[2] - lo.carry
  BY <1>1, <1>2, SubLimbExact
<1>4. r.val = <<lo.val, hi.val>> /\ r.carry = hi.carry
  BY DEF OverflowingSub
<1> HIDE DEF lo, hi, r
<1>5. /\ Base \in Int /\ a[1] \in Int /\ a[2] \in Int /\ b[1] \in Int /\ b[2] \in Int
      /\ lo.val \in Int /\ hi.val \in Int /\ lo.carry \in Int /\ hi.carry \in Int
  <2>1. lo.val \in Limb /\ hi.val \in Limb /\ lo.carry \in {0, 1} /\ hi.carry \in {0, 1}
    BY <1>2, <1>3, Zenon
  <2> QED BY <1>1, <2>1, BaseFacts DEF Limb
<1>6. (lo.val + Base * hi.val) - (Base * Base) * hi.carry
        = (a[1] + Base * a[2]) - (b[1] + Base * b[2])
  <2> DEFINE H == Base * hi.val
             C == (Base * Base) * hi.carry
             A == Base * a[2]
             B == Base * b[2]
             L == Base * lo.carry
  <2>1. H \in Int /\ C \in Int /\ A \in Int /\ B \in Int /\ L \in Int
    BY <1>5
  <2>2. Base * (hi.val - Base * hi.carry) = H - C
    BY <1>5
  <2>3. Base * (a[2] - b[2] - lo.carry) = A - B - L
    BY <1>5
  <2>4. H - C = A - B - L
    BY <1>3, <2>2, <2>3
  <2>5. lo.val - L = a[1] - b[1]
    BY <1>2, <1>5
  <2> HIDE DEF H, C, A, B, L
  <2>6. (lo.val + H) - C = (a[1] + A) - (b[1] + B)
    BY <1>5, <2>1, <2>4, <2>5
  <2> QED BY <2>6 DEF H, C, A, B
<1>7. r.val \in u256 /\ r.carry \in {0, 1}
  BY <1>2, <1>3, <1>4 DEF u256
<1>8. Value256(r.val) - Mod256 * r.carry = Value256(a) - Value256(b)
  BY <1>4, <1>6 DEF Value256, Mod256
<1> QED BY <1>7, <1>8 DEF r

(* Add and Sub of u256 compute modulo 2^256. *)
LEMMA Add256Exact ==
  ASSUME NEW a \in u256, NEW b \in u256
  PROVE  /\ Add256(a, b) \in u256
         /\ Value256(Add256(a, b)) = (Value256(a) + Value256(b)) % Mod256
<1> DEFINE r == OverflowingAdd(a, b)
           V == Value256(r.val)
           s == Value256(a) + Value256(b)
<1>1. r.val \in u256 /\ r.carry \in {0, 1} /\ V + Mod256 * r.carry = s
  BY OverflowingAddExact
<1>2. V \in 0 .. (Mod256 - 1) /\ Value256(a) \in 0 .. (Mod256 - 1) /\ Value256(b) \in 0 .. (Mod256 - 1)
  BY <1>1, Value256Type
<1>3. Add256(a, b) = r.val
  BY DEF Add256
<1> HIDE DEF r
<1>4. CASE r.carry = 0
  <2>1. V = s
    BY <1>1, <1>2, <1>4, BaseFacts
  <2> QED BY <1>1, <1>2, <1>3, <2>1, BaseFacts, ModFits
<1>5. CASE r.carry = 1
  <2>1. V = s - Mod256 /\ s \in Int /\ Mod256 <= s /\ s < Mod256 + Mod256
    BY <1>1, <1>2, <1>5, BaseFacts
  <2>2. s % Mod256 = s - Mod256
    BY <2>1, BaseFacts, ModOver
  <2> QED BY <1>1, <1>3, <2>1, <2>2
<1> QED BY <1>1, <1>4, <1>5

(* u256 subtraction is exact modulo 2^256. *)
LEMMA Sub256Exact ==
  ASSUME NEW a \in u256, NEW b \in u256
  PROVE  /\ Sub256(a, b) \in u256
         /\ Value256(Sub256(a, b)) = (Value256(a) - Value256(b)) % Mod256
<1> DEFINE r == OverflowingSub(a, b)
           V == Value256(r.val)
           s == Value256(a) - Value256(b)
<1>1. r.val \in u256 /\ r.carry \in {0, 1} /\ V - Mod256 * r.carry = s
  BY OverflowingSubExact
<1>2. V \in 0 .. (Mod256 - 1) /\ Value256(a) \in 0 .. (Mod256 - 1) /\ Value256(b) \in 0 .. (Mod256 - 1)
  BY <1>1, Value256Type
<1>3. Sub256(a, b) = r.val
  BY DEF Sub256
<1> HIDE DEF r
<1>4. CASE r.carry = 0
  <2>1. V = s
    BY <1>1, <1>2, <1>4, BaseFacts
  <2> QED BY <1>1, <1>2, <1>3, <2>1, BaseFacts, ModFits
<1>5. CASE r.carry = 1
  <2>1. V = s + Mod256 /\ s \in Int /\ -Mod256 <= s /\ s < 0
    BY <1>1, <1>2, <1>5, BaseFacts
  <2>2. s % Mod256 = s + Mod256
    BY <2>1, BaseFacts, ModUnder
  <2> QED BY <1>1, <1>3, <2>1, <2>2
<1> QED BY <1>1, <1>4, <1>5

(* From of an integer that fits a limb. *)
LEMMA FromSmall ==
  ASSUME NEW c \in {0, 1}
  PROVE  From(c) \in u256 /\ Value256(From(c)) = c
<1>1. c % Base = c /\ c \in Limb /\ 0 \in Limb
  BY BaseFacts, ModFits DEF Limb
<1>2. From(c) = <<c, 0>>
  BY <1>1 DEF From
<1> QED BY <1>1, <1>2, BaseFacts DEF u256, Value256

-----------------------------------------------------------------------------
(* One turn of the loops of Add and Sub of u512.  The two additions never  *)
(* both overflow.                                                          *)
LEMMA AddWideLimbExact ==
  ASSUME NEW a \in u256, NEW b \in u256, NEW c \in {0, 1}
  PROVE  LET r == AddWideLimb(a, b, c) IN
           /\ r.val \in u256 /\ r.carry \in {0, 1}
           /\ Value256(r.val) + Mod256 * r.carry = Value256(a) + Value256(b) + c
<1> DEFINE s == OverflowingAdd(a, b)
           t == OverflowingAdd(s.val, From(c))
           r == AddWideLimb(a, b, c)
           A == Value256(a)
           B == Value256(b)
           S == Value256(s.val)
           T == Value256(t.val)
<1>1. s.val \in u256 /\ s.carry \in {0, 1} /\ S + Mod256 * s.carry = A + B
  BY OverflowingAddExact
<1>2. t.val \in u256 /\ t.carry \in {0, 1} /\ T + Mod256 * t.carry = S + c
  <2>1. From(c) \in u256 /\ Value256(From(c)) = c
    BY FromSmall
  <2>2. t.val \in u256 /\ t.carry \in {0, 1} /\ T + Mod256 * t.carry = S + Value256(From(c))
    BY <1>1, <2>1, OverflowingAddExact
  <2> QED BY <2>1, <2>2
<1>3. A \in 0 .. (Mod256 - 1) /\ B \in 0 .. (Mod256 - 1) /\ S \in 0 .. (Mod256 - 1) /\ T \in 0 .. (Mod256 - 1)
  BY <1>1, <1>2, Value256Type
<1>4. r.val = t.val /\ r.carry = IF s.carry = 1 \/ t.carry = 1 THEN 1 ELSE 0
  BY DEF AddWideLimb
<1> HIDE DEF s, t, r, A, B, S, T
<1>5. T + Mod256 * r.carry = A + B + c
  <2>1. CASE s.carry = 0 /\ t.carry = 0
    BY <1>1, <1>2, <1>3, <1>4, <2>1, BaseFacts
  <2>2. CASE s.carry = 1 /\ t.carry = 0
    BY <1>1, <1>2, <1>3, <1>4, <2>2, BaseFacts
  <2>3. CASE s.carry = 0 /\ t.carry = 1
    BY <1>1, <1>2, <1>3, <1>4, <2>3, BaseFacts
  <2>4. CASE s.carry = 1 /\ t.carry = 1
    BY <1>1, <1>2, <1>3, <1>4, <2>4, BaseFacts
  <2> QED BY <1>1, <1>2, <2>1, <2>2, <2>3, <2>4
<1> QED BY <1>2, <1>4, <1>5 DEF r, A, B, T

(* One turn of the loop of u512's Sub is exact. *)
LEMMA SubWideLimbExact ==
  ASSUME NEW a \in u256, NEW b \in u256, NEW c \in {0, 1}
  PROVE  LET r == SubWideLimb(a, b, c) IN
           /\ r.val \in u256 /\ r.carry \in {0, 1}
           /\ Value256(r.val) - Mod256 * r.carry = Value256(a) - Value256(b) - c
<1> DEFINE s == OverflowingSub(a, b)
           t == OverflowingSub(s.val, From(c))
           r == SubWideLimb(a, b, c)
           A == Value256(a)
           B == Value256(b)
           S == Value256(s.val)
           T == Value256(t.val)
<1>1. s.val \in u256 /\ s.carry \in {0, 1} /\ S - Mod256 * s.carry = A - B
  BY OverflowingSubExact
<1>2. t.val \in u256 /\ t.carry \in {0, 1} /\ T - Mod256 * t.carry = S - c
  <2>1. From(c) \in u256 /\ Value256(From(c)) = c
    BY FromSmall
  <2>2. t.val \in u256 /\ t.carry \in {0, 1} /\ T - Mod256 * t.carry = S - Value256(From(c))
    BY <1>1, <2>1, OverflowingSubExact
  <2> QED BY <2>1, <2>2
<1>3. A \in 0 .. (Mod256 - 1) /\ B \in 0 .. (Mod256 - 1) /\ S \in 0 .. (Mod256 - 1) /\ T \in 0 .. (Mod256 - 1)
  BY <1>1, <1>2, Value256Type
<1>4. r.val = t.val /\ r.carry = IF s.carry = 1 \/ t.carry = 1 THEN 1 ELSE 0
  BY DEF SubWideLimb
<1> HIDE DEF s, t, r, A, B, S, T
<1>5. T - Mod256 * r.carry = A - B - c
  <2>1. CASE s.carry = 0 /\ t.carry = 0
    BY <1>1, <1>2, <1>3, <1>4, <2>1, BaseFacts
  <2>2. CASE s.carry = 1 /\ t.carry = 0
    BY <1>1, <1>2, <1>3, <1>4, <2>2, BaseFacts
  <2>3. CASE s.carry = 0 /\ t.carry = 1
    BY <1>1, <1>2, <1>3, <1>4, <2>3, BaseFacts
  <2>4. CASE s.carry = 1 /\ t.carry = 1
    BY <1>1, <1>2, <1>3, <1>4, <2>4, BaseFacts
  <2> QED BY <1>1, <1>2, <2>1, <2>2, <2>3, <2>4
<1> QED BY <1>2, <1>4, <1>5 DEF r, A, B, T

(* Add and Sub of u512 compute modulo 2^512. *)
LEMMA Add512Exact ==
  ASSUME NEW u \in u512, NEW v \in u512
  PROVE  /\ Add512(u, v) \in u512
         /\ Value512(Add512(u, v)) = (Value512(u) + Value512(v)) % Mod512
<1> DEFINE lo == AddWideLimb(u[1], v[1], 0)
           hi == AddWideLimb(u[2], v[2], lo.carry)
           r == Add512(u, v)
           U1 == Value256(u[1])
           U2 == Value256(u[2])
           V1 == Value256(v[1])
           V2 == Value256(v[2])
           R1 == Value256(lo.val)
           R2 == Value256(hi.val)
<1>1. u[1] \in u256 /\ u[2] \in u256 /\ v[1] \in u256 /\ v[2] \in u256
  BY Value512Type
<1>2. lo.val \in u256 /\ lo.carry \in {0, 1} /\ R1 + Mod256 * lo.carry = U1 + V1 + 0
  BY <1>1, AddWideLimbExact
<1>3. hi.val \in u256 /\ hi.carry \in {0, 1} /\ R2 + Mod256 * hi.carry = U2 + V2 + lo.carry
  BY <1>1, <1>2, AddWideLimbExact
<1>4. r = <<lo.val, hi.val>>
  BY DEF Add512
<1>5. /\ U1 \in Int /\ U2 \in Int /\ V1 \in Int /\ V2 \in Int /\ R1 \in Int /\ R2 \in Int
      /\ lo.carry \in Int /\ hi.carry \in Int /\ Mod256 \in Int
  <2>1. lo.val \in u256 /\ hi.val \in u256 /\ lo.carry \in {0, 1} /\ hi.carry \in {0, 1}
    BY <1>2, <1>3, Zenon
  <2> HIDE DEF lo, hi
  <2> QED BY <1>1, <2>1, Value256Type, BaseFacts
<1>6. r \in u512 /\ r[1] = lo.val /\ r[2] = hi.val
  <2>1. lo.val \in u256 /\ hi.val \in u256
    BY <1>2, <1>3, Zenon
  <2> HIDE DEF lo, hi, r
  <2> QED BY <1>4, <2>1 DEF u512
<1>7. /\ Value512(u) = U1 + Mod256 * U2 /\ Value512(v) = V1 + Mod256 * V2
      /\ Value512(r) = R1 + Mod256 * R2
  BY <1>6, Value512Type
<1>8. /\ Value512(u) \in 0 .. (Mod512 - 1) /\ Value512(v) \in 0 .. (Mod512 - 1)
      /\ Value512(r) \in 0 .. (Mod512 - 1)
  BY <1>6, Value512Type
<1> HIDE DEF lo, hi, r, U1, U2, V1, V2, R1, R2
<1>9. Value512(r) + Mod512 * hi.carry = Value512(u) + Value512(v)
  <2> DEFINE H == Mod256 * R2
             C == (Mod256 * Mod256) * hi.carry
             A == Mod256 * U2
             B == Mod256 * V2
             L == Mod256 * lo.carry
  <2>1. H \in Int /\ C \in Int /\ A \in Int /\ B \in Int /\ L \in Int
    BY <1>5
  <2>2. Mod256 * (R2 + Mod256 * hi.carry) = H + C
    BY <1>5
  <2>3. Mod256 * (U2 + V2 + lo.carry) = A + B + L
    BY <1>5
  <2>4. H + C = A + B + L
    BY <1>3, <2>2, <2>3
  <2>5. R1 + L = U1 + V1
    BY <1>2, <1>5
  <2>6. C = Mod512 * hi.carry
    BY DEF Mod512
  <2>7. Value512(u) = U1 + A /\ Value512(v) = V1 + B /\ Value512(r) = R1 + H
    BY <1>7
  <2> HIDE DEF H, C, A, B, L
  <2>8. (R1 + H) + C = (U1 + A) + (V1 + B)
    <3>1. R1 = U1 + V1 - L
      BY <1>5, <2>1, <2>5
    <3> QED BY <1>5, <2>1, <2>4, <3>1
  <2> QED BY <2>6, <2>7, <2>8
<1> DEFINE sum == Value512(u) + Value512(v)
<1>10. CASE hi.carry = 0
  <2>1. Value512(r) = sum
    BY <1>8, <1>9, <1>10, BaseFacts
  <2> QED BY <1>6, <1>8, <2>1, BaseFacts, ModFits DEF r
<1>11. CASE hi.carry = 1
  <2>1. Value512(r) = sum - Mod512 /\ sum \in Int /\ Mod512 <= sum /\ sum < Mod512 + Mod512
    BY <1>8, <1>9, <1>11, BaseFacts
  <2>2. sum % Mod512 = sum - Mod512
    BY <2>1, BaseFacts, ModOver
  <2> QED BY <1>6, <2>1, <2>2 DEF r
<1>12. hi.carry = 0 \/ hi.carry = 1
  BY <1>3
<1> QED BY <1>10, <1>11, <1>12

(* u512 subtraction is exact modulo 2^512. *)
LEMMA Sub512Exact ==
  ASSUME NEW u \in u512, NEW v \in u512
  PROVE  /\ Sub512(u, v) \in u512
         /\ Value512(Sub512(u, v)) = (Value512(u) - Value512(v)) % Mod512
<1> DEFINE lo == SubWideLimb(u[1], v[1], 0)
           hi == SubWideLimb(u[2], v[2], lo.carry)
           r == Sub512(u, v)
           U1 == Value256(u[1])
           U2 == Value256(u[2])
           V1 == Value256(v[1])
           V2 == Value256(v[2])
           R1 == Value256(lo.val)
           R2 == Value256(hi.val)
<1>1. u[1] \in u256 /\ u[2] \in u256 /\ v[1] \in u256 /\ v[2] \in u256
  BY Value512Type
<1>2. lo.val \in u256 /\ lo.carry \in {0, 1} /\ R1 - Mod256 * lo.carry = U1 - V1 - 0
  BY <1>1, SubWideLimbExact
<1>3. hi.val \in u256 /\ hi.carry \in {0, 1} /\ R2 - Mod256 * hi.carry = U2 - V2 - lo.carry
  <2>1. lo.carry \in {0, 1}
    BY <1>2
  <2> HIDE DEF lo
  <2> QED BY <1>1, <2>1, SubWideLimbExact
<1>4. r = <<lo.val, hi.val>>
  BY DEF Sub512
<1>5. /\ U1 \in Int /\ U2 \in Int /\ V1 \in Int /\ V2 \in Int /\ R1 \in Int /\ R2 \in Int
      /\ lo.carry \in Int /\ hi.carry \in Int /\ Mod256 \in Int
  <2>1. lo.val \in u256 /\ hi.val \in u256 /\ lo.carry \in {0, 1} /\ hi.carry \in {0, 1}
    BY <1>2, <1>3, Zenon
  <2> HIDE DEF lo, hi
  <2> QED BY <1>1, <2>1, Value256Type, BaseFacts
<1>6. r \in u512 /\ r[1] = lo.val /\ r[2] = hi.val
  <2>1. lo.val \in u256 /\ hi.val \in u256
    BY <1>2, <1>3, Zenon
  <2> HIDE DEF lo, hi, r
  <2> QED BY <1>4, <2>1 DEF u512
<1>7. /\ Value512(u) = U1 + Mod256 * U2 /\ Value512(v) = V1 + Mod256 * V2
      /\ Value512(r) = R1 + Mod256 * R2
  BY <1>6, Value512Type
<1>8. /\ Value512(u) \in 0 .. (Mod512 - 1) /\ Value512(v) \in 0 .. (Mod512 - 1)
      /\ Value512(r) \in 0 .. (Mod512 - 1)
  BY <1>6, Value512Type
<1> HIDE DEF lo, hi, r, U1, U2, V1, V2, R1, R2
<1>9. Value512(r) - Mod512 * hi.carry = Value512(u) - Value512(v)
  <2> DEFINE H == Mod256 * R2
             C == (Mod256 * Mod256) * hi.carry
             A == Mod256 * U2
             B == Mod256 * V2
             L == Mod256 * lo.carry
  <2>1. H \in Int /\ C \in Int /\ A \in Int /\ B \in Int /\ L \in Int
    BY <1>5
  <2>2. Mod256 * (R2 - Mod256 * hi.carry) = H - C
    BY <1>5
  <2>3. Mod256 * (U2 - V2 - lo.carry) = A - B - L
    BY <1>5
  <2>4. H - C = A - B - L
    BY <1>3, <2>2, <2>3
  <2>5. R1 - L = U1 - V1
    BY <1>2, <1>5
  <2>6. C = Mod512 * hi.carry
    BY DEF Mod512
  <2>7. Value512(u) = U1 + A /\ Value512(v) = V1 + B /\ Value512(r) = R1 + H
    BY <1>7
  <2> HIDE DEF H, C, A, B, L
  <2>8. (R1 + H) - C = (U1 + A) - (V1 + B)
    <3>1. R1 = U1 - V1 + L
      BY <1>5, <2>1, <2>5
    <3> QED BY <1>5, <2>1, <2>4, <3>1
  <2> QED BY <2>6, <2>7, <2>8
<1> DEFINE sum == Value512(u) - Value512(v)
<1>10. CASE hi.carry = 0
  <2>1. Value512(r) = sum
    BY <1>8, <1>9, <1>10, BaseFacts
  <2> QED BY <1>6, <1>8, <2>1, BaseFacts, ModFits DEF r
<1>11. CASE hi.carry = 1
  <2>1. Value512(r) = sum + Mod512 /\ sum \in Int /\ -Mod512 <= sum /\ sum < 0
    BY <1>8, <1>9, <1>11, BaseFacts
  <2>2. sum % Mod512 = sum + Mod512
    BY <2>1, BaseFacts, ModUnder
  <2> QED BY <1>6, <2>1, <2>2 DEF r
<1>12. hi.carry = 0 \/ hi.carry = 1
  BY <1>3
<1> QED BY <1>10, <1>11, <1>12

-----------------------------------------------------------------------------
(* Not and Neg. *)
LEMMA Not256Exact ==
  ASSUME NEW a \in u256
  PROVE  Not256(a) \in u256 /\ Value256(Not256(a)) = Mod256 - 1 - Value256(a)
<1>1. a[1] \in Limb /\ a[2] \in Limb
  BY Value256Type
<1>2. NotLimb(a[1]) \in Limb /\ NotLimb(a[2]) \in Limb
  BY <1>1, BaseFacts DEF Limb, NotLimb
<1>3. Not256(a) \in u256
  BY <1>2 DEF Not256, u256
<1>4. a[1] \in Int /\ a[2] \in Int /\ Base \in Int
  BY <1>1, BaseFacts DEF Limb
<1>5. Base * (Base - 1 - a[2]) = Base * Base - Base - Base * a[2]
  BY <1>4
<1>6. Value256(Not256(a)) = (Base - 1 - a[1]) + Base * (Base - 1 - a[2])
  BY DEF Value256, Not256, NotLimb
<1>7. Value256(Not256(a)) = Base * Base - 1 - (a[1] + Base * a[2])
  BY <1>4, <1>5, <1>6
<1> QED BY <1>3, <1>7 DEF Value256, Mod256

(* -x is exact modulo 2^256. *)
LEMMA Neg256Exact ==
  ASSUME NEW a \in u256
  PROVE  Neg256(a) \in u256 /\ Value256(Neg256(a)) = (Mod256 - Value256(a)) % Mod256
<1>1. Not256(a) \in u256 /\ Value256(Not256(a)) = Mod256 - 1 - Value256(a)
  BY Not256Exact
<1>2. From(1) \in u256 /\ Value256(From(1)) = 1
  BY FromSmall
<1>3. /\ Neg256(a) \in u256
      /\ Value256(Neg256(a)) = ((Mod256 - 1 - Value256(a)) + 1) % Mod256
  BY <1>1, <1>2, Add256Exact DEF Neg256
<1>4. (Mod256 - 1 - Value256(a)) + 1 = Mod256 - Value256(a)
  BY Value256Type, BaseFacts
<1> QED BY <1>3, <1>4

(* From<u256> for u512 keeps the value. *)
LEMMA WidenExact ==
  ASSUME NEW a \in u256
  PROVE  Widen(a) \in u512 /\ Value512(Widen(a)) = Value256(a)
<1>1. From(0) \in u256 /\ Value256(From(0)) = 0
  BY FromSmall
<1>2. Widen(a) \in u512 /\ Widen(a)[1] = a /\ Widen(a)[2] = From(0)
  BY <1>1 DEF Widen, u512
<1>3. Value512(Widen(a)) = Value256(a) + Mod256 * 0
  BY <1>1, <1>2, Value512Type
<1>4. Value256(a) \in Int /\ Mod256 \in Int
  BY Value256Type, BaseFacts
<1> QED BY <1>2, <1>3, <1>4

(* From<u512> for u256 keeps the value modulo 2^256. *)
LEMMA NarrowExact ==
  ASSUME NEW v \in u512
  PROVE  Narrow(v) \in u256 /\ Value256(Narrow(v)) = Value512(v) % Mod256
<1>1. /\ v[1] \in u256 /\ v[2] \in u256
      /\ Value512(v) = Value256(v[1]) + Mod256 * Value256(v[2])
  BY Value512Type
<1>2. /\ Value256(v[1]) \in 0 .. (Mod256 - 1) /\ Value256(v[2]) \in Int
      /\ Mod256 \in Nat /\ Mod256 > 0
  BY <1>1, Value256Type, BaseFacts
<1> QED BY <1>1, <1>2, TwoDigitLow, Zenon DEF Narrow

(* !w is 2^512 - 1 - w. *)
LEMMA Not512Exact ==
  ASSUME NEW v \in u512
  PROVE  Not512(v) \in u512 /\ Value512(Not512(v)) = Mod512 - 1 - Value512(v)
<1> DEFINE V1 == Value256(v[1])
           V2 == Value256(v[2])
<1>1. v[1] \in u256 /\ v[2] \in u256 /\ Value512(v) = V1 + Mod256 * V2
  BY Value512Type
<1>2. /\ Not256(v[1]) \in u256 /\ Value256(Not256(v[1])) = Mod256 - 1 - V1
      /\ Not256(v[2]) \in u256 /\ Value256(Not256(v[2])) = Mod256 - 1 - V2
  BY <1>1, Not256Exact
<1>3. Not512(v) \in u512 /\ Not512(v)[1] = Not256(v[1]) /\ Not512(v)[2] = Not256(v[2])
  BY <1>2 DEF Not512, u512
<1>4. Value512(Not512(v)) = (Mod256 - 1 - V1) + Mod256 * (Mod256 - 1 - V2)
  BY <1>2, <1>3, Value512Type
<1>5. V1 \in Int /\ V2 \in Int /\ Mod256 \in Int
  BY <1>1, Value256Type, BaseFacts
<1> HIDE DEF V1, V2
<1>6. Mod256 * (Mod256 - 1 - V2) = Mod256 * Mod256 - Mod256 - Mod256 * V2
  BY <1>5
<1>7. Value512(Not512(v)) = Mod256 * Mod256 - 1 - (V1 + Mod256 * V2)
  BY <1>4, <1>5, <1>6
<1> QED BY <1>1, <1>3, <1>7 DEF Mod512

(* -w is exact modulo 2^512. *)
LEMMA Neg512Exact ==
  ASSUME NEW v \in u512
  PROVE  Neg512(v) \in u512 /\ Value512(Neg512(v)) = (Mod512 - Value512(v)) % Mod512
<1>1. Not512(v) \in u512 /\ Value512(Not512(v)) = Mod512 - 1 - Value512(v)
  BY Not512Exact
<1>2. Widen(From(1)) \in u512 /\ Value512(Widen(From(1))) = 1
  BY FromSmall, WidenExact
<1>3. /\ Neg512(v) \in u512
      /\ Value512(Neg512(v)) = ((Mod512 - 1 - Value512(v)) + 1) % Mod512
  BY <1>1, <1>2, Add512Exact DEF Neg512
<1>4. (Mod512 - 1 - Value512(v)) + 1 = Mod512 - Value512(v)
  BY Value512Type, BaseFacts
<1> QED BY <1>3, <1>4

(* From of any integer type. *)
LEMMA FromExact ==
  ASSUME NEW n \in Int
  PROVE  From(n) \in u256 /\ Value256(From(n)) = n % Base
<1>1. n % Base \in Limb /\ 0 \in Limb
  BY BaseFacts DEF Limb
<1>2. From(n) \in u256
  BY <1>1 DEF From, u256
<1>3. Value256(From(n)) = (n % Base) + Base * 0
  BY DEF From, Value256
<1> QED BY <1>1, <1>2, <1>3, BaseFacts DEF Limb

-----------------------------------------------------------------------------
(* A limb-by-limb operator yields limbs. *)
LEMMA LimbwiseTyped ==
  ASSUME NEW k, NEW op \in [Limb \X k -> Limb]
  PROVE  /\ \A a \in u256, b \in k \X k : Limbwise256(op, a, b) \in u256
         /\ \A u \in u512, v \in (k \X k) \X (k \X k) : Limbwise512(op, u, v) \in u512
<1>1. ASSUME NEW a \in u256, NEW b \in k \X k
      PROVE  Limbwise256(op, a, b) \in u256
  <2>1. <<a[1], b[1]>> \in Limb \X k /\ <<a[2], b[2]>> \in Limb \X k
    BY DEF u256
  <2>2. op[<<a[1], b[1]>>] \in Limb /\ op[<<a[2], b[2]>>] \in Limb
    BY <2>1
  <2> QED BY <2>2 DEF Limbwise256, u256
<1>2. ASSUME NEW u \in u512, NEW v \in (k \X k) \X (k \X k)
      PROVE  Limbwise512(op, u, v) \in u512
  <2>1. u[1] \in u256 /\ u[2] \in u256 /\ v[1] \in k \X k /\ v[2] \in k \X k
    BY DEF u512
  <2>2. Limbwise256(op, u[1], v[1]) \in u256 /\ Limbwise256(op, u[2], v[2]) \in u256
    BY <1>1, <2>1
  <2> QED BY <2>2 DEF Limbwise512, u512
<1> QED BY <1>1, <1>2

(* TypeOK and ValueExact together are inductive. *)
Exact == TypeOK /\ ValueExact

(* Assigning an exact u256 keeps the invariant. *)
LEMMA Set256Exact ==
  ASSUME Exact, NEW a \in u256, NEW n, n = Value256(a), Set256(a, n)
  PROVE  Exact'
<1>1. Value256(a) \in 0 .. (Mod256 - 1)
  BY Value256Type
<1>2. x' = a /\ xref' = Value256(a) /\ w' = w /\ wref' = wref /\ panicked' = panicked
  BY DEF Set256
<1> QED BY <1>1, <1>2 DEF Exact, TypeOK, ValueExact

(* Assigning an exact u512 keeps the invariant. *)
LEMMA Set512Exact ==
  ASSUME Exact, NEW v \in u512, NEW n, n = Value512(v), Set512(v, n)
  PROVE  Exact'
<1>1. Value512(v) \in 0 .. (Mod512 - 1)
  BY Value512Type
<1>2. x' = x /\ xref' = xref /\ w' = v /\ wref' = Value512(v) /\ panicked' = panicked
  BY DEF Set512
<1> QED BY <1>1, <1>2 DEF Exact, TypeOK, ValueExact

(* A panic keeps the invariant. *)
LEMMA PanicExact ==
  ASSUME Exact, Panic PROVE Exact'
BY DEF Exact, TypeOK, ValueExact, Panic

(* The bit operators of u256 keep the invariant. *)
LEMMA BitOps256Exact ==
  ASSUME Exact, NEW k, NEW op \in [Limb \X k -> Limb], NEW b \in k \X k, Bits256(op, b)
  PROVE  Exact'
<1>1. Limbwise256(op, x, b) \in u256
  BY LimbwiseTyped DEF Exact, TypeOK
<1>2. Set256(Limbwise256(op, x, b), Value256(Limbwise256(op, x, b)))
  BY DEF Bits256
<1> QED BY <1>1, <1>2, Set256Exact

(* The bit operators of u512 keep the invariant. *)
LEMMA BitOps512Exact ==
  ASSUME Exact, NEW k, NEW op \in [Limb \X k -> Limb],
         NEW v \in (k \X k) \X (k \X k), Bits512(op, v)
  PROVE  Exact'
<1>1. Limbwise512(op, w, v) \in u512
  BY LimbwiseTyped DEF Exact, TypeOK
<1>2. Set512(Limbwise512(op, w, v), Value512(Limbwise512(op, w, v)))
  BY DEF Bits512
<1> QED BY <1>1, <1>2, Set512Exact

(* The operators of u256 keep the invariant. *)
LEMMA Arith256Exact ==
  ASSUME Exact, NEW b \in u256, Arith256(b) PROVE Exact'
<1> USE DEF Exact
<1>1. x \in u256 /\ xref = Value256(x)
  BY DEF TypeOK, ValueExact
<1>2. CASE AddAssign256(b)
  BY <1>1, <1>2, Add256Exact, Set256Exact DEF AddAssign256
<1>3. CASE SubAssign256(b)
  BY <1>1, <1>3, Sub256Exact, Set256Exact DEF SubAssign256
<1>4. CASE BitOps256(b)
  <2>1. b \in Limb \X Limb /\ LimbAnd \in [Limb \X Limb -> Limb]
        /\ LimbOr \in [Limb \X Limb -> Limb] /\ LimbXor \in [Limb \X Limb -> Limb]
    BY LimbConstants DEF u256
  <2> QED BY <1>4, <2>1, BitOps256Exact, Zenon DEF BitOps256
<1>5. CASE Shift256(b)
  <2>1. CASE Panic
    BY <2>1, PanicExact
  <2>2. CASE ~ShiftPanics256(b) /\ (Bits256(LimbShl, b) \/ Bits256(LimbShr, b))
    <3> DEFINE k == 0 .. (LimbBits - 1)
    <3>1. b[1] \in k /\ b[2] \in k /\ b = <<b[1], b[2]>>
      BY <2>2, LimbConstants DEF ShiftPanics256, u256, Limb
    <3>2. b \in k \X k
      BY <3>1
    <3>3. LimbShl \in [Limb \X k -> Limb] /\ LimbShr \in [Limb \X k -> Limb]
      BY LimbConstants
    <3> HIDE DEF k
    <3> QED BY <2>2, <3>2, <3>3, BitOps256Exact, Zenon
  <2> QED BY <1>5, <2>1, <2>2 DEF Shift256
<1>6. CASE MulAssign256 \/ DivAssign256
  BY <1>6, PanicExact DEF MulAssign256, DivAssign256
<1> QED BY <1>2, <1>3, <1>4, <1>5, <1>6 DEF Arith256

(* The operators of u512 keep the invariant. *)
LEMMA Arith512Exact ==
  ASSUME Exact, NEW v \in u512, Arith512(v) PROVE Exact'
<1> USE DEF Exact
<1>1. w \in u512 /\ wref = Value512(w)
  BY DEF TypeOK, ValueExact
<1>2. CASE AddAssign512(v)
  BY <1>1, <1>2, Add512Exact, Set512Exact DEF AddAssign512
<1>3. CASE SubAssign512(v)
  BY <1>1, <1>3, Sub512Exact, Set512Exact DEF SubAssign512
<1>4. CASE BitOps512(v)
  <2>1. v \in (Limb \X Limb) \X (Limb \X Limb) /\ LimbAnd \in [Limb \X Limb -> Limb]
        /\ LimbOr \in [Limb \X Limb -> Limb] /\ LimbXor \in [Limb \X Limb -> Limb]
    BY LimbConstants DEF u512, u256
  <2> QED BY <1>4, <2>1, BitOps512Exact, Zenon DEF BitOps512
<1>5. CASE Shift512(v)
  <2>1. CASE Panic
    BY <2>1, PanicExact
  <2>2. CASE ~ShiftPanics512(v) /\ (Bits512(LimbShl, v) \/ Bits512(LimbShr, v))
    <3> DEFINE k == 0 .. (LimbBits - 1)
    <3>1. /\ v[1] \in u256 /\ v[2] \in u256 /\ v = <<v[1], v[2]>>
          /\ ~ShiftPanics256(v[1]) /\ ~ShiftPanics256(v[2])
      BY <2>2, Value512Type DEF ShiftPanics512
    <3>2. ASSUME NEW b \in u256, ~ShiftPanics256(b) PROVE b \in k \X k
      <4>1. b[1] \in k /\ b[2] \in k /\ b = <<b[1], b[2]>>
        BY <3>2, LimbConstants DEF ShiftPanics256, u256, Limb
      <4> QED BY <4>1
    <3>3. LimbShl \in [Limb \X k -> Limb] /\ LimbShr \in [Limb \X k -> Limb]
      BY LimbConstants
    <3> HIDE DEF k
    <3>4. v \in (k \X k) \X (k \X k)
      BY <3>1, <3>2
    <3> QED BY <2>2, <3>3, <3>4, BitOps512Exact, Zenon
  <2> QED BY <1>5, <2>1, <2>2 DEF Shift512
<1>6. CASE MulAssign512 \/ DivAssign512
  BY <1>6, PanicExact DEF MulAssign512, DivAssign512
<1> QED BY <1>2, <1>3, <1>4, <1>5, <1>6 DEF Arith512

(* The invariant holds initially. *)
LEMMA ExactInit == Init => Exact
<1>1. From(0) \in u256 /\ Value256(From(0)) = 0
  BY FromSmall
<1>2. Widen(From(0)) \in u512 /\ Value512(Widen(From(0))) = 0
  BY <1>1, WidenExact
<1>3. 0 \in 0 .. (Mod256 - 1) /\ 0 \in 0 .. (Mod512 - 1)
  BY BaseFacts
<1> SUFFICES ASSUME Init PROVE Exact
  OBVIOUS
<1>4. x = From(0) /\ xref = 0 /\ w = Widen(From(0)) /\ wref = 0 /\ panicked \in BOOLEAN
  BY Zenon DEF Init
<1> QED BY <1>1, <1>2, <1>3, <1>4 DEF Exact, TypeOK, ValueExact

(* Every step keeps the invariant. *)
LEMMA ExactStep == Exact /\ [Next]_vars => Exact'
<1> SUFFICES ASSUME Exact, [Next]_vars PROVE Exact'
  OBVIOUS
<1>1. x \in u256 /\ xref = Value256(x) /\ w \in u512 /\ wref = Value512(w)
  BY DEF Exact, TypeOK, ValueExact
<1>2. ASSUME NEW n \in (-(Base \div 2)) .. (Base - 1), FromInt(n) PROVE Exact'
  <2>1. n \in Int
    OBVIOUS
  <2> QED BY <1>2, <2>1, FromExact, Set256Exact DEF FromInt
<1>3. CASE FromU256
  BY <1>1, <1>3, WidenExact, Set512Exact DEF FromU256
<1>4. CASE FromU512
  BY <1>1, <1>4, NarrowExact, Set256Exact DEF FromU512
<1>5. CASE Negate256
  BY <1>1, <1>5, Neg256Exact, Set256Exact DEF Negate256
<1>6. CASE Complement256
  BY <1>1, <1>6, Not256Exact, Set256Exact DEF Complement256
<1>7. CASE Negate512
  BY <1>1, <1>7, Neg512Exact, Set512Exact DEF Negate512
<1>8. CASE Complement512
  BY <1>1, <1>8, Not512Exact, Set512Exact DEF Complement512
<1>9. ASSUME NEW v \in Operands, Arith256(v[1]) \/ Arith512(v) \/ Arith512With256(v[1])
      PROVE  Exact'
  <2>1. v \in u512 /\ v[1] \in u256 /\ Widen(v[1]) \in u512
    BY LimbConstants, Value512Type, WidenExact
  <2> QED BY <1>9, <2>1, Arith256Exact, Arith512Exact DEF Arith512With256
<1>10. ASSUME NEW n \in Limb, Arith256With128(n) \/ Arith512With128(n)
       PROVE  Exact'
  <2>1. From(n) \in u256 /\ Widen(From(n)) \in u512
    BY FromExact, WidenExact DEF Limb
  <2> QED BY <1>10, <2>1, Arith256Exact, Arith512Exact DEF Arith256With128, Arith512With128
<1>11. CASE Panicked \/ UNCHANGED vars
  BY <1>11 DEF Panicked, vars, Exact, TypeOK, ValueExact
<1> QED BY <1>2, <1>3, <1>4, <1>5, <1>6, <1>7, <1>8, <1>9, <1>10, <1>11 DEF Next

(* The invariant always holds. *)
LEMMA AlwaysExact == Spec => []Exact
BY ExactInit, ExactStep, PTL DEF Spec

(* The limbs of x and w always are limbs: every operator of u256 and u512  *)
(* closes over its type.                                                   *)
THEOREM TypeCorrect == Spec => []TypeOK
<1>1. Exact => TypeOK
  BY DEF Exact
<1> QED BY AlwaysExact, <1>1, PTL

(* For every width of a limb, any sequence of additions, subtractions,     *)
(* negations, complements and conversions computes modulo 2^256 and 2^512. *)
THEOREM Exactness == Spec => []ValueExact
<1>1. Exact => ValueExact
  BY DEF Exact
<1> QED BY AlwaysExact, <1>1, PTL

(* For every width of a limb, the flags of overflowing_add and             *)
(* overflowing_sub are exact.                                              *)
THEOREM Overflow == Spec => []OverflowExact
<1>1. Exact => OverflowExact
  <2> SUFFICES ASSUME Exact, NEW v \in Operands
               PROVE  /\ (OverflowingAdd(x, v[1]).carry = 1) <=> (xref + Value256(v[1]) >= Mod256)
                      /\ (OverflowingSub(x, v[1]).carry = 1) <=> (xref < Value256(v[1]))
    BY DEF OverflowExact
  <2> DEFINE r == OverflowingAdd(x, v[1])
             t == OverflowingSub(x, v[1])
             V == Value256(v[1])
             R == Value256(r.val)
             T == Value256(t.val)
  <2>1. x \in u256 /\ xref = Value256(x) /\ v[1] \in u256
    BY LimbConstants, Value512Type DEF Exact, TypeOK, ValueExact
  <2>2. r.val \in u256 /\ r.carry \in {0, 1} /\ R + Mod256 * r.carry = xref + V
    BY <2>1, OverflowingAddExact
  <2>3. t.val \in u256 /\ t.carry \in {0, 1} /\ T - Mod256 * t.carry = xref - V
    BY <2>1, OverflowingSubExact
  <2>4. /\ xref \in 0 .. (Mod256 - 1) /\ V \in 0 .. (Mod256 - 1)
        /\ R \in 0 .. (Mod256 - 1) /\ T \in 0 .. (Mod256 - 1)
    BY <2>1, <2>2, <2>3, Value256Type
  <2> HIDE DEF r, t, V, R, T
  <2>5. (r.carry = 1) <=> (xref + V >= Mod256)
    BY <2>2, <2>4, BaseFacts
  <2>6. (t.carry = 1) <=> (xref < V)
    BY <2>3, <2>4, BaseFacts
  <2> QED BY <2>5, <2>6 DEF r, t, V
<1> QED BY AlwaysExact, <1>1, PTL

-----------------------------------------------------------------------------
(* The number with digits lo and hi to the base m. *)
Digits(m, lo, hi) == lo + m * hi

(* Comparing two numbers digit by digit, the high digit first. *)
LEMMA TwoDigitOrder ==
  ASSUME NEW m \in Nat, NEW a1 \in 0 .. (m - 1), NEW a2 \in Int,
         NEW b1 \in 0 .. (m - 1), NEW b2 \in Int
  PROVE  CmpLimb(Digits(m, a1, a2), Digits(m, b1, b2))
           = IF CmpLimb(a2, b2) # "equal" THEN CmpLimb(a2, b2) ELSE CmpLimb(a1, b1)
<1>1. ASSUME NEW c \in Int, NEW d \in Int, c < d PROVE m * d >= m * c + m
  <2>1. m * (d - c - 1) >= 0
    BY <1>1
  <2> QED BY <1>1, <2>1
<1>2. m * a2 \in Int /\ m * b2 \in Int
  OBVIOUS
<1>3. CASE a2 < b2
  BY <1>1, <1>2, <1>3 DEF CmpLimb, Digits
<1>4. CASE a2 > b2
  BY <1>1, <1>2, <1>4 DEF CmpLimb, Digits
<1>5. CASE a2 = b2
  BY <1>2, <1>5 DEF CmpLimb, Digits
<1> QED BY <1>3, <1>4, <1>5

(* u256's partial_cmp is the order of the integers. *)
LEMMA Cmp256Exact ==
  ASSUME NEW a \in u256, NEW b \in u256
  PROVE  Cmp256(a, b) = CmpLimb(Value256(a), Value256(b))
<1>1. /\ a[1] \in 0 .. (Base - 1) /\ b[1] \in 0 .. (Base - 1)
      /\ a[2] \in Int /\ b[2] \in Int /\ Base \in Nat
  BY Value256Type, BaseFacts DEF Limb
<1>2. Value256(a) = Digits(Base, a[1], a[2]) /\ Value256(b) = Digits(Base, b[1], b[2])
  BY DEF Value256, Digits
<1>3. CmpLimb(Digits(Base, a[1], a[2]), Digits(Base, b[1], b[2]))
        = IF CmpLimb(a[2], b[2]) # "equal" THEN CmpLimb(a[2], b[2]) ELSE CmpLimb(a[1], b[1])
  BY <1>1, TwoDigitOrder
<1> QED BY <1>2, <1>3 DEF Cmp256

(* u512's partial_cmp is the order of the integers. *)
LEMMA Cmp512Exact ==
  ASSUME NEW u \in u512, NEW v \in u512
  PROVE  Cmp512(u, v) = CmpLimb(Value512(u), Value512(v))
<1>1. u[1] \in u256 /\ u[2] \in u256 /\ v[1] \in u256 /\ v[2] \in u256
  BY Value512Type
<1>2. /\ Value256(u[1]) \in 0 .. (Mod256 - 1) /\ Value256(v[1]) \in 0 .. (Mod256 - 1)
      /\ Value256(u[2]) \in Int /\ Value256(v[2]) \in Int /\ Mod256 \in Nat
  BY <1>1, Value256Type, BaseFacts
<1>3. /\ Value512(u) = Digits(Mod256, Value256(u[1]), Value256(u[2]))
      /\ Value512(v) = Digits(Mod256, Value256(v[1]), Value256(v[2]))
  BY Value512Type DEF Digits
<1>4. /\ Cmp256(u[1], v[1]) = CmpLimb(Value256(u[1]), Value256(v[1]))
      /\ Cmp256(u[2], v[2]) = CmpLimb(Value256(u[2]), Value256(v[2]))
  BY <1>1, Cmp256Exact
<1>5. CmpLimb(Digits(Mod256, Value256(u[1]), Value256(u[2])),
              Digits(Mod256, Value256(v[1]), Value256(v[2])))
        = IF CmpLimb(Value256(u[2]), Value256(v[2])) # "equal"
          THEN CmpLimb(Value256(u[2]), Value256(v[2]))
          ELSE CmpLimb(Value256(u[1]), Value256(v[1]))
  <2> DEFINE u1 == Value256(u[1])
             u2 == Value256(u[2])
             v1 == Value256(v[1])
             v2 == Value256(v[2])
             m == Mod256
  <2>1. u1 \in 0 .. (m - 1) /\ v1 \in 0 .. (m - 1) /\ u2 \in Int /\ v2 \in Int /\ m \in Nat
    BY <1>2
  <2> HIDE DEF u1, u2, v1, v2, m
  <2>2. CmpLimb(Digits(m, u1, u2), Digits(m, v1, v2))
          = IF CmpLimb(u2, v2) # "equal" THEN CmpLimb(u2, v2) ELSE CmpLimb(u1, v1)
    BY <2>1, TwoDigitOrder
  <2> QED BY <2>2 DEF u1, u2, v1, v2, m
<1> QED BY <1>3, <1>4, <1>5 DEF Cmp512

(* A u512 compared with a narrower number compares with its widening. *)
LEMMA Cmp512NarrowExact ==
  ASSUME NEW u \in u512, NEW b \in u256
  PROVE  Cmp512With256(u, b) = CmpLimb(Value512(u), Value256(b))
<1>1. Widen(b) \in u512 /\ Value512(Widen(b)) = Value256(b)
  BY WidenExact
<1>2. Cmp512With256(u, b) = Cmp512(u, Widen(b))
  BY DEF Cmp512With256, Cmp512, Widen
<1> QED BY <1>1, <1>2, Cmp512Exact

(* Numbers compare equal when they are equal. *)
LEMMA CmpEqual ==
  ASSUME NEW p \in Int, NEW q \in Int
  PROVE  (CmpLimb(p, q) = "equal") <=> (p = q)
BY DEF CmpLimb

(* == of u256 is equality of the values. *)
LEMMA Eq256Exact ==
  ASSUME NEW a \in u256, NEW b \in u256
  PROVE  Eq256(a, b) <=> (Value256(a) = Value256(b))
<1>1. /\ a[1] \in Int /\ b[1] \in Int /\ a[2] \in Int /\ b[2] \in Int
      /\ Value256(a) \in Int /\ Value256(b) \in Int
  BY Value256Type, BaseFacts DEF Limb
<1>2. Eq256(a, b) <=> (CmpLimb(a[1], b[1]) = "equal" /\ CmpLimb(a[2], b[2]) = "equal")
  BY <1>1, CmpEqual DEF Eq256
<1>3. (Cmp256(a, b) = "equal") <=> Eq256(a, b)
  BY <1>2 DEF Cmp256
<1>4. (Cmp256(a, b) = "equal") <=> (Value256(a) = Value256(b))
  BY <1>1, Cmp256Exact, CmpEqual
<1> QED BY <1>3, <1>4

(* == of u512 is equality of the values. *)
LEMMA Eq512Exact ==
  ASSUME NEW u \in u512, NEW v \in u512
  PROVE  Eq512(u, v) <=> (Value512(u) = Value512(v))
<1>1. u[1] \in u256 /\ u[2] \in u256 /\ v[1] \in u256 /\ v[2] \in u256
  BY Value512Type
<1>2. /\ Value256(u[1]) \in Int /\ Value256(v[1]) \in Int /\ Value256(u[2]) \in Int
      /\ Value256(v[2]) \in Int /\ Value512(u) \in Int /\ Value512(v) \in Int
  BY <1>1, Value256Type, Value512Type
<1>3. /\ Eq256(u[1], v[1]) <=> (Cmp256(u[1], v[1]) = "equal")
      /\ Eq256(u[2], v[2]) <=> (Cmp256(u[2], v[2]) = "equal")
  BY <1>1, <1>2, Eq256Exact, Cmp256Exact, CmpEqual
<1>4. Eq512(u, v) <=> (Cmp512(u, v) = "equal")
  BY <1>3 DEF Eq512, Cmp512
<1> QED BY <1>2, <1>4, Cmp512Exact, CmpEqual

(* For every width of a limb, the comparisons of u256 and u512 are those   *)
(* of the integers and agree with ==.                                      *)
THEOREM Order == Spec => []OrderExact
<1>1. Exact => OrderExact
  <2> SUFFICES ASSUME Exact, NEW v \in Operands
      PROVE /\ Cmp256(x, v[1]) = CmpLimb(xref, Value256(v[1]))
            /\ Cmp512(w, v) = CmpLimb(wref, Value512(v))
            /\ Cmp512With256(w, v[1]) = CmpLimb(wref, Value256(v[1]))
            /\ Cmp512With128(w, v[1][1]) = CmpLimb(wref, v[1][1])
            /\ Eq256(x, v[1]) <=> Cmp256(x, v[1]) = "equal"
            /\ Eq512With256(w, v[1]) <=> Cmp512With256(w, v[1]) = "equal"
            /\ Eq256With128(x, v[1][1]) <=> xref = v[1][1]
            /\ Eq512(w, v) <=> wref = Value512(v)
    BY DEF OrderExact
  <2>1. x \in u256 /\ xref = Value256(x) /\ w \in u512 /\ wref = Value512(w)
    BY DEF Exact, TypeOK, ValueExact
  <2>2. v \in u512 /\ v[1] \in u256 /\ v[1][1] \in Limb
    BY LimbConstants, Value512Type, Value256Type
  <2>3. xref \in Int /\ wref \in Int /\ Value256(v[1]) \in Int /\ Value512(v) \in Int
    BY <2>1, <2>2, Value256Type, Value512Type
  <2>4. Cmp256(x, v[1]) = CmpLimb(xref, Value256(v[1]))
    BY <2>1, <2>2, Cmp256Exact
  <2>5. Cmp512(w, v) = CmpLimb(wref, Value512(v))
    BY <2>1, <2>2, Cmp512Exact
  <2>6. Cmp512With256(w, v[1]) = CmpLimb(wref, Value256(v[1]))
    BY <2>1, <2>2, Cmp512NarrowExact
  <2>7. v[1][1] % Base = v[1][1] /\ v[1][1] \in Int
    BY <2>2, BaseFacts, ModFits DEF Limb
  <2>8. From(v[1][1]) \in u256 /\ Value256(From(v[1][1])) = v[1][1]
    BY <2>7, FromExact
  <2>9. Cmp512With128(w, v[1][1]) = CmpLimb(wref, v[1][1])
    BY <2>1, <2>8, Cmp512NarrowExact DEF Cmp512With128
  <2>10. Eq256(x, v[1]) <=> Cmp256(x, v[1]) = "equal"
    BY <2>1, <2>2, <2>3, <2>4, Eq256Exact, CmpEqual
  <2>11. Eq512With256(w, v[1]) <=> Cmp512With256(w, v[1]) = "equal"
    <3>1. Widen(v[1]) \in u512 /\ Value512(Widen(v[1])) = Value256(v[1])
      BY <2>2, WidenExact
    <3>2. Eq512With256(w, v[1]) <=> Eq512(w, Widen(v[1]))
      BY DEF Eq512With256, Eq512, Widen
    <3> QED BY <2>1, <2>3, <2>6, <3>1, <3>2, Eq512Exact, CmpEqual
  <2>12. Eq256With128(x, v[1][1]) <=> xref = v[1][1]
    <3>1. Eq256With128(x, v[1][1]) <=> Eq256(x, From(v[1][1]))
      BY DEF Eq256With128, Eq256, From
    <3> QED BY <2>1, <2>8, <3>1, Eq256Exact
  <2>13. Eq512(w, v) <=> wref = Value512(v)
    BY <2>1, <2>2, Eq512Exact
  <2> QED BY <2>4, <2>5, <2>6, <2>9, <2>10, <2>11, <2>12, <2>13
<1> QED BY AlwaysExact, <1>1, PTL

=============================================================================
