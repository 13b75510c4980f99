---------------------------- MODULE LargeNumbers ----------------------------
(***************************************************************************)
(* common/large_numbers.rs: u256, two limbs of 128 bits, and u512, two     *)
(* u256.  The least significant limb comes first.  The state machine keeps *)
(* one variable of each type and applies the operators to them in any      *)
(* order; xref and wref are the integers those operators should compute.   *)
(***************************************************************************)
EXTENDS Integers

CONSTANTS
  LimbBits,                   \* 128
  Base,                       \* 2^LimbBits
  LimbAnd, LimbOr, LimbXor,   \* &, | and ^ on two limbs
  LimbShl, LimbShr,           \* << and >> on a limb, by less than LimbBits
  Operands                    \* right-hand sides of type u512

Limb == 0 .. (Base - 1)
u256 == Limb \X Limb
u512 == u256 \X u256

ASSUME LimbConstants ==
  /\ LimbBits \in Nat \ {0}
  /\ Base \in Nat /\ Base > 1
  /\ LimbAnd \in [Limb \X Limb -> Limb]
  /\ LimbOr \in [Limb \X Limb -> Limb]
  /\ LimbXor \in [Limb \X Limb -> Limb]
  /\ LimbShl \in [Limb \X (0 .. (LimbBits - 1)) -> Limb]
  /\ LimbShr \in [Limb \X (0 .. (LimbBits - 1)) -> Limb]
  /\ Operands \subseteq u512

VARIABLES x, w, xref, wref, panicked

vars == <<x, w, xref, wref, panicked>>

(* The integers that two and four limbs stand for. *)
Value256(a) == a[1] + Base * a[2]
Value512(v) == Value256(v[1]) + (Base * Base) * Value256(v[2])

Mod256 == Base * Base
Mod512 == Mod256 * Mod256

-----------------------------------------------------------------------------
(* One turn of the loops of Add and Sub for u256: two overflowing          *)
(* operations on a limb, whose overflows are combined into the next carry. *)
AddLimbDropsSecond(p, q, c) ==
  [val |-> (((p + q) % Base) + c) % Base, carry |-> IF p + q >= Base THEN 1 ELSE 0]

AddLimb(p, q, c) ==
  LET sum == (p + q) % Base
  IN [val |-> (sum + c) % Base,
      carry |-> IF p + q >= Base \/ sum + c >= Base THEN 1 ELSE 0]

SubLimb(p, q, c) ==
  LET sum == (p - q) % Base
  IN [val |-> (sum - c) % Base,
      carry |-> IF p - q < 0 \/ sum - c < 0 THEN 1 ELSE 0]

From(n) == <<n % Base, 0>>

OverflowingAdd(a, b) ==
  LET lo == AddLimb(a[1], b[1], 0)
      hi == AddLimb(a[2], b[2], lo.carry)
  IN [val |-> <<lo.val, hi.val>>, carry |-> hi.carry]

OverflowingSub(a, b) ==
  LET lo == SubLimb(a[1], b[1], 0)
      hi == SubLimb(a[2], b[2], lo.carry)
  IN [val |-> <<lo.val, hi.val>>, carry |-> hi.carry]

Add256(a, b) == OverflowingAdd(a, b).val
Sub256(a, b) == OverflowingSub(a, b).val

NotLimbNegates(p) == Base - p

NotLimb(p) == Base - 1 - p
Not256(a) == <<NotLimb(a[1]), NotLimb(a[2])>>
Neg256(a) == Add256(Not256(a), From(1))

(* The same loops for u512, whose limbs are u256. *)
AddWideLimb(a, b, c) ==
  LET s == OverflowingAdd(a, b)
      t == OverflowingAdd(s.val, From(c))
  IN [val |-> t.val, carry |-> IF s.carry = 1 \/ t.carry = 1 THEN 1 ELSE 0]

SubWideLimb(a, b, c) ==
  LET s == OverflowingSub(a, b)
      t == OverflowingSub(s.val, From(c))
  IN [val |-> t.val, carry |-> IF s.carry = 1 \/ t.carry = 1 THEN 1 ELSE 0]

Widen(a) == <<a, From(0)>>
Narrow(v) == v[1]

Add512(u, v) ==
  LET lo == AddWideLimb(u[1], v[1], 0)
  IN <<lo.val, AddWideLimb(u[2], v[2], lo.carry).val>>

Sub512(u, v) ==
  LET lo == SubWideLimb(u[1], v[1], 0)
  IN <<lo.val, SubWideLimb(u[2], v[2], lo.carry).val>>

Not512(v) == <<Not256(v[1]), Not256(v[2])>>
Neg512(v) == Add512(Not512(v), Widen(From(1)))

-----------------------------------------------------------------------------
(* partial_cmp and cmp, with a right-hand side of the same type: the most  *)
(* significant limb decides.                                               *)
CmpLimb(p, q) == IF p > q THEN "greater" ELSE IF p < q THEN "less" ELSE "equal"

Cmp256LowFirst(a, b) ==
  IF CmpLimb(a[1], b[1]) # "equal" THEN CmpLimb(a[1], b[1]) ELSE CmpLimb(a[2], b[2])

Cmp256(a, b) ==
  IF CmpLimb(a[2], b[2]) # "equal" THEN CmpLimb(a[2], b[2]) ELSE CmpLimb(a[1], b[1])

Cmp512(u, v) ==
  IF Cmp256(u[2], v[2]) # "equal" THEN Cmp256(u[2], v[2]) ELSE Cmp256(u[1], v[1])

(* u512 compared with a narrower type, and the u256 version of it, which   *)
(* answers Less whenever the high limb is 0.                               *)
Cmp512With256(u, b) ==
  IF Cmp256(u[2], From(0)) # "equal" THEN Cmp256(u[2], From(0)) ELSE Cmp256(u[1], b)

Cmp512With128(u, n) == Cmp512With256(u, From(n))

Cmp256With128(a, n) == IF a[2] > 0 THEN "greater" ELSE "less"

Eq256(a, b) == a[1] = b[1] /\ a[2] = b[2]
Eq256With128(a, n) == a[1] = n % Base /\ a[2] = 0
Eq512(u, v) == Eq256(u[1], v[1]) /\ Eq256(u[2], v[2])
Eq512With256(u, b) == Eq256(u[1], b) /\ Eq256(u[2], From(0))

-----------------------------------------------------------------------------
(* The bitwise operators and the shifts work limb by limb; a shift of a    *)
(* limb by its width or more panics.                                       *)
Limbwise256(op, a, b) == <<op[<<a[1], b[1]>>], op[<<a[2], b[2]>>]>>
Limbwise512(op, u, v) == <<Limbwise256(op, u[1], v[1]), Limbwise256(op, u[2], v[2])>>

ShiftPanics256(b) == b[1] >= LimbBits \/ b[2] >= LimbBits
ShiftPanics512(v) == ShiftPanics256(v[1]) \/ ShiftPanics256(v[2])

(* The loops of Mul, Div and Rem index out[i + j], and those of Div and    *)
(* Rem start with a shift by the width of a limb.                          *)
MulPanics == \E i, j \in 0 .. 1 : i + j \notin 0 .. 1
DivPanics == ShiftPanics256(<<LimbBits, 0>>) \/ MulPanics

-----------------------------------------------------------------------------
Init ==
  /\ x = From(0) /\ xref = 0
  /\ w = Widen(From(0)) /\ wref = 0
  /\ panicked = FALSE

Set256(a, n) == ~panicked /\ x' = a /\ xref' = n /\ UNCHANGED <<w, wref, panicked>>
Set512(v, n) == ~panicked /\ w' = v /\ wref' = n /\ UNCHANGED <<x, xref, panicked>>
Panic == ~panicked /\ panicked' = TRUE /\ UNCHANGED <<x, w, xref, wref>>

(* From for u8 .. u128 and i8 .. i128: a negative value is extended to one *)
(* limb only.                                                              *)
FromInt(n) == Set256(From(n), n % Base)
FromU256 == Set512(Widen(x), xref)
FromU512 == Set256(Narrow(w), wref % Mod256)

AddAssign256(b) == Set256(Add256(x, b), (xref + Value256(b)) % Mod256)
SubAssign256(b) == Set256(Sub256(x, b), (xref - Value256(b)) % Mod256)
Negate256 == Set256(Neg256(x), (Mod256 - xref) % Mod256)
Complement256 == Set256(Not256(x), Mod256 - 1 - xref)

AddAssign512(v) == Set512(Add512(w, v), (wref + Value512(v)) % Mod512)
SubAssign512(v) == Set512(Sub512(w, v), (wref - Value512(v)) % Mod512)
Negate512 == Set512(Neg512(w), (Mod512 - wref) % Mod512)
Complement512 == Set512(Not512(w), Mod512 - 1 - wref)

(* The reference is read back after an operator that works on bits. *)
Bits256(op, b) == LET r == Limbwise256(op, x, b) IN Set256(r, Value256(r))
Bits512(op, v) == LET r == Limbwise512(op, w, v) IN Set512(r, Value512(r))

BitOps256(b) == Bits256(LimbAnd, b) \/ Bits256(LimbOr, b) \/ Bits256(LimbXor, b)
BitOps512(v) == Bits512(LimbAnd, v) \/ Bits512(LimbOr, v) \/ Bits512(LimbXor, v)

Shift256(b) ==
  \/ ShiftPanics256(b) /\ Panic
  \/ ~ShiftPanics256(b) /\ (Bits256(LimbShl, b) \/ Bits256(LimbShr, b))

Shift512(v) ==
  \/ ShiftPanics512(v) /\ Panic
  \/ ~ShiftPanics512(v) /\ (Bits512(LimbShl, v) \/ Bits512(LimbShr, v))

MulAssign256 == MulPanics /\ Panic
DivAssign256 == DivPanics /\ Panic

(* The first product of two limbs of a u512 already panics. *)
MulAssign512 == MulPanics /\ Panic
DivAssign512 == ShiftPanics512(Widen(<<2 * LimbBits, 0>>)) /\ Panic

Arith256(b) ==
  \/ AddAssign256(b) \/ SubAssign256(b) \/ MulAssign256 \/ DivAssign256
  \/ BitOps256(b) \/ Shift256(b)

Arith512(v) ==
  \/ AddAssign512(v) \/ SubAssign512(v) \/ MulAssign512 \/ DivAssign512
  \/ BitOps512(v) \/ Shift512(v)

(* A narrower right-hand side is converted first. *)
Arith256With128(n) == Arith256(From(n))
Arith512With256(b) == Arith512(Widen(b))
Arith512With128(n) == Arith512(Widen(From(n)))

(* The panic handler's loop. *)
Panicked == panicked /\ UNCHANGED vars

Next ==
  \/ \E n \in (-(Base \div 2)) .. (Base - 1) : FromInt(n)
  \/ FromU256 \/ FromU512
  \/ Negate256 \/ Complement256 \/ Negate512 \/ Complement512
  \/ \E v \in Operands : Arith256(v[1]) \/ Arith512(v) \/ Arith512With256(v[1])
  \/ \E n \in Limb : Arith256With128(n) \/ Arith512With128(n)
  \/ Panicked

Spec == Init /\ [][Next]_vars

-----------------------------------------------------------------------------
(* Types of the two numbers and their references. *)
TypeOK ==
  /\ x \in u256 /\ w \in u512 /\ panicked \in BOOLEAN
  /\ xref \in 0 .. (Mod256 - 1) /\ wref \in 0 .. (Mod512 - 1)

(* However additions, subtractions, negations, complements and conversions *)
(* follow each other, the limbs of a u256 and of a u512 hold the number    *)
(* that arithmetic modulo 2^256 and 2^512 gives: no carry or borrow is     *)
(* lost, doubled or given to the wrong limb.                               *)
ValueExact == Value256(x) = xref /\ Value512(w) = wref

(* The flag overflowing_add and overflowing_sub return tells exactly that  *)
(* the sum does not fit 256 bits, or the difference is negative, also when *)
(* only the carry makes it so.                                             *)
OverflowExact ==
  \A v \in Operands :
    /\ (OverflowingAdd(x, v[1]).carry = 1) <=> (xref + Value256(v[1]) >= Mod256)
    /\ (OverflowingSub(x, v[1]).carry = 1) <=> (xref < Value256(v[1]))

(* The orders of u256 and u512, and that of u512 with the narrower types,  *)
(* are those of the integers, and agree with ==.                           *)
OrderExact ==
  \A v \in Operands :
    /\ Cmp256(x, v[1]) = CmpLimb(xref, Value256(v[1]))
    /\ Cmp512(w, v) = CmpLimb(wref, Value512(v))
    /\ Cmp512With256(w, v[1]) = CmpLimb(wref, Value256(v[1]))
    /\ Cmp512With128(w, v[1][1]) = CmpLimb(wref, v[1][1])
    /\ Eq256(x, v[1]) <=> Cmp256(x, v[1]) = "equal"
    /\ Eq512With256(w, v[1]) <=> Cmp512With256(w, v[1]) = "equal"
    /\ Eq256With128(x, v[1][1]) <=> xref = v[1][1]
    /\ Eq512(w, v) <=> wref = Value512(v)

=============================================================================
