----------------------------- MODULE ReedSolomon -----------------------------
(***************************************************************************)
(* The error correction of QR codes (common/reedsolomon): the field of 256 *)
(* elements with the primitive 0x11D, its polynomials, the encoder, and    *)
(* the decoder with the algorithms of Euclid, Chien and Forney.  A         *)
(* polynomial is the sequence of its coefficients, that of the highest     *)
(* power first.  A decoder returns its result in a set, the empty set for  *)
(* an exception.                                                           *)
(***************************************************************************)
EXTENDS Integers, Sequences, SequencesExt

-----------------------------------------------------------------------------
(* GenericGF.                                                              *)

Primitive == 285
Size == 256

RECURSIVE Xor(_, _)
Xor(a, b) ==
    IF a = 0 THEN b
    ELSE IF b = 0 THEN a
    ELSE (2 * Xor(a \div 2, b \div 2)) + ((a + b) % 2)

Doubled(a) == IF 2 * a < Size THEN 2 * a ELSE Xor(2 * a, Primitive)

\* The table that initialize() fills, first entry expPower[1]; the assumption is its loop.
expPower ==
    <<1, 2, 4, 8, 16, 32, 64, 128, 29, 58, 116, 232, 205, 135, 19, 38, 76, 152, 45, 90,
      180, 117, 234, 201, 143, 3, 6, 12, 24, 48, 96, 192, 157, 39, 78, 156, 37, 74,
      148, 53, 106, 212, 181, 119, 238, 193, 159, 35, 70, 140, 5, 10, 20, 40, 80, 160,
      93, 186, 105, 210, 185, 111, 222, 161, 95, 190, 97, 194, 153, 47, 94, 188, 101,
      202, 137, 15, 30, 60, 120, 240, 253, 231, 211, 187, 107, 214, 177, 127, 254, 225,
      223, 163, 91, 182, 113, 226, 217, 175, 67, 134, 17, 34, 68, 136, 13, 26, 52, 104,
      208, 189, 103, 206, 129, 31, 62, 124, 248, 237, 199, 147, 59, 118, 236, 197, 151,
      51, 102, 204, 133, 23, 46, 92, 184, 109, 218, 169, 79, 158, 33, 66, 132, 21, 42,
      84, 168, 77, 154, 41, 82, 164, 85, 170, 73, 146, 57, 114, 228, 213, 183, 115,
      230, 209, 191, 99, 198, 145, 63, 126, 252, 229, 215, 179, 123, 246, 241, 255,
      227, 219, 171, 75, 150, 49, 98, 196, 149, 55, 110, 220, 165, 87, 174, 65, 130,
      25, 50, 100, 200, 141, 7, 14, 28, 56, 112, 224, 221, 167, 83, 166, 81, 162, 89,
      178, 121, 242, 249, 239, 195, 155, 43, 86, 172, 69, 138, 9, 18, 36, 72, 144, 61,
      122, 244, 245, 247, 243, 251, 235, 203, 139, 11, 22, 44, 88, 176, 125, 250, 233,
      207, 131, 27, 54, 108, 216, 173, 71, 142, 1>>
ASSUME Initialized ==
    /\ expPower[1] = 1
    /\ \A i \in 2 .. Size : expPower[i] = Doubled(expPower[i - 1])

expTable == [i \in 0 .. Size - 1 |-> expPower[i + 1]]

logTable == [a \in 1 .. Size - 1 |-> CHOOSE i \in 0 .. Size - 2 : expTable[i] = a]

Inverted(a) == expTable[Size - 1 - logTable[a]]

Multiply(a, b) ==
    IF a = 0 \/ b = 0 THEN 0 ELSE expTable[(logTable[a] + logTable[b]) % (Size - 1)]

-----------------------------------------------------------------------------
(* GenericGFPoly.                                                          *)

ZeroPoly == <<0>>
OnePoly == <<1>>

Poly(coefficients) ==
    LET nonZero == {i \in DOMAIN coefficients : coefficients[i] # 0}
    IN IF nonZero = {} THEN ZeroPoly
       ELSE SubSeq(coefficients, CHOOSE i \in nonZero : \A j \in nonZero : i <= j,
                   Len(coefficients))

Degree(p) == Len(p) - 1
Coefficient(p, degree) == p[Len(p) - degree]

EvaluateAt(p, a) == FoldLeft(LAMBDA r, c : Xor(Multiply(a, r), c), 0, p)

\* The coefficient of each power, also of one above the degree.
Term(p, degree) == IF degree \in 0 .. Degree(p) THEN Coefficient(p, degree) ELSE 0

AddOrSubtract(p, q) ==
    LET n == IF Len(p) > Len(q) THEN Len(p) ELSE Len(q)
    IN Poly([i \in 1 .. n |-> Xor(Term(p, n - i), Term(q, n - i))])

Scale(p, scalar) == Poly([i \in DOMAIN p |-> Multiply(p[i], scalar)])

MultiplyByMonomial(p, degree, c) ==
    Poly(Scale(p, c) \o [i \in 1 .. degree |-> 0])

RECURSIVE Product(_, _)
Product(p, q) ==
    IF p = <<>> THEN ZeroPoly
    ELSE AddOrSubtract(MultiplyByMonomial(q, Len(p) - 1, Head(p)), Product(Tail(p), q))

\* Long division.
RECURSIVE DivideInto(_, _, _)
DivideInto(quotient, p, q) ==
    IF Degree(p) < Degree(q) \/ p = ZeroPoly THEN [quotient |-> quotient, remainder |-> p]
    ELSE LET d == Degree(p) - Degree(q)
             c == Multiply(Head(p), Inverted(Head(q)))
         IN DivideInto(AddOrSubtract(quotient, MultiplyByMonomial(OnePoly, d, c)),
                       AddOrSubtract(p, MultiplyByMonomial(q, d, c)), q)
Divide(p, q) == DivideInto(ZeroPoly, p, q)

-----------------------------------------------------------------------------
(* ReedSolomonEncoder.                                                     *)

RECURSIVE BuildGenerator(_)
BuildGenerator(degree) ==
    IF degree = 0 THEN OnePoly
    ELSE Product(BuildGenerator(degree - 1), <<1, expTable[degree - 1]>>)

\* The codewords that follow the data, with the zeros in front of the remainder.
ECBytes(data, generator) ==
    LET n == Degree(generator)
        r == Divide(MultiplyByMonomial(Poly(data), n, 1), generator).remainder
    IN [i \in 1 .. n - Len(r) |-> 0] \o r

-----------------------------------------------------------------------------
(* ReedSolomonDecoder.                                                     *)

Syndrome(received, twoS) ==
    Poly([i \in 1 .. twoS |-> EvaluateAt(Poly(received), expTable[twoS - i])])

RECURSIVE Euclid(_, _, _, _, _)
Euclid(rLast, r, tLast, t, twoS) ==
    IF Degree(r) < twoS \div 2 THEN [omega |-> r, sigma |-> t]
    ELSE IF r = ZeroPoly THEN [omega |-> ZeroPoly, sigma |-> ZeroPoly]
    ELSE LET step == Divide(rLast, r)
         IN Euclid(r, step.remainder, t,
                   AddOrSubtract(Product(step.quotient, t), tLast), twoS)

\* The locations are the inverses of the roots; one error is read off the locator.
ErrorLocations(sigma) ==
    IF Degree(sigma) = 1 THEN {Coefficient(sigma, 1)}
    ELSE {Inverted(a) : a \in {b \in 1 .. Size - 1 : EvaluateAt(sigma, b) = 0}}

\* Mutant: the derivative of the locator is left out.
ErrorMagnitudePlain(omega, locations, x) == EvaluateAt(omega, Inverted(x))
ErrorMagnitude(omega, locations, x) ==
    LET denominator == FoldSet(LAMBDA y, d : Multiply(d, Xor(Multiply(y, Inverted(x)), 1)),
                               1, locations \ {x})
    IN Multiply(EvaluateAt(omega, Inverted(x)), Inverted(denominator))

Corrected(received, omega, locations) ==
    IF \E x \in locations : logTable[x] >= Len(received) THEN {}
    ELSE {[i \in DOMAIN received |->
             LET x == expTable[Len(received) - i]
             IN IF x \in locations THEN Xor(received[i], ErrorMagnitude(omega, locations, x))
                ELSE received[i]]}

\* decode(): the codewords with the errors corrected.
RSDecode(received, twoS) ==
    LET syndrome == Syndrome(received, twoS)
        found == Euclid(MultiplyByMonomial(OnePoly, twoS, 1), syndrome, ZeroPoly, OnePoly, twoS)
        atZero == Term(found.sigma, 0)
        sigma == Scale(found.sigma, Inverted(atZero))
        locations == ErrorLocations(sigma)
    IN IF syndrome = ZeroPoly THEN {received}
       ELSE IF atZero = 0 \/ Cardinality(locations) # Degree(sigma) THEN {}
       ELSE Corrected(received, Scale(found.omega, Inverted(atZero)), locations)
=============================================================================
