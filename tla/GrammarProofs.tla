----------------------------- MODULE GrammarProofs ----------------------------
(***************************************************************************)
(* Proofs about Grammar: which numbers reach the server as they were       *)
(* typed, for every width of an int; and that the request tree, built by   *)
(* one semantic action per phrase, is at every moment what was typed, so   *)
(* that what is sent of it, also of a command that is broken off, is that. *)
(***************************************************************************)
EXTENDS Grammar, DataLemmas

(* What has been typed so far are phrases with values that the rules match. *)
PhrasesOK ==
  /\ typed \in Seq(Range(typed))
  /\ \A j \in DOMAIN typed : Numbers(typed[j]) \subseteq Scalar

-----------------------------------------------------------------------------
(* Numbers.                                                                *)

NumberScalar == [kind : {"number"}, negative : BOOLEAN, whole : Nat, tenths : 0 .. 9,
                 exponent : BOOLEAN]

(* What atoi and the conversion to int make of a whole number.             *)
LEMMA WrappedValue ==
  ASSUME NEW w \in Nat
  PROVE  /\ Wrapped(w) \in Int /\ Wrapped(w) < IntRange /\ - IntRange <= Wrapped(w)
         /\ w < IntRange => Wrapped(w) = w
         /\ w = IntRange => Wrapped(w) = - IntRange
<1>1. IntRange \in Nat /\ IntRange > 0
  BY GrammarAssumption
<1> DEFINE R == 2 * IntRange
           x == w % R
<1>2. R \in Nat /\ R > 0
  BY <1>1
<1>3. x \in 0 .. R - 1
  BY <1>2
<1>4. w < R => x = w
  BY <1>2
<1> QED BY <1>1, <1>3, <1>4 DEF Wrapped

(* The value of a number is what its digits say.                           *)
LEMMA TenthsValue ==
  ASSUME NEW s \in NumberScalar
  PROVE  /\ Tenths(s) \in Nat
         /\ Integral(s) <=> s.exponent \/ s.tenths = 0
         /\ ~Integral(s) => Tenths(s) # 0
         /\ s.exponent => Tenths(s) = 100 * s.whole + 10 * s.tenths
         /\ ~s.exponent => Tenths(s) = 10 * s.whole + s.tenths
<1> DEFINE w == s.whole
           t == s.tenths
           n == 10 * w + t
<1>1. w \in Nat /\ t \in 0 .. 9 /\ s.exponent \in BOOLEAN /\ s.kind = "number"
  BY DEF NumberScalar
<1>2. Tenths(s) = IF s.exponent THEN n * 10 ELSE n
  BY <1>1 DEF Tenths
<1>3. Integral(s) <=> Tenths(s) % 10 = 0
  BY <1>1 DEF Integral
<1> HIDE DEF w, t
<1>4. n \in Nat /\ (n * 10) % 10 = 0 /\ n % 10 = t
  BY <1>1
<1>5. CASE s.exponent
  <2>1. Tenths(s) = n * 10 /\ Integral(s)
    BY <1>2, <1>3, <1>4, <1>5
  <2>2. n * 10 = 100 * w + 10 * t
    BY <1>1
  <2> QED BY <1>4, <1>5, <2>1, <2>2 DEF w, t
<1>6. CASE ~s.exponent
  <2>1. Tenths(s) = n /\ (Integral(s) <=> t = 0)
    BY <1>2, <1>3, <1>4, <1>6
  <2>2. t # 0 => n # 0
    BY <1>1
  <2> QED BY <1>4, <1>6, <2>1, <2>2 DEF w, t
<1> QED BY <1>5, <1>6

(* The greatest power of two up to n: five does not divide it, and two does *)
(* unless it is one.                                                       *)
LEMMA GreatestPower ==
  ASSUME NEW n \in Nat, n > 0
  PROVE  /\ Max(PowersOfTwo(n)) \in Nat /\ Max(PowersOfTwo(n)) > 0
         /\ Max(PowersOfTwo(n)) % 5 # 0
         /\ Max(PowersOfTwo(n)) % 2 = 0 <=> n >= 2
<1> DEFINE S == PowersOfTwo(n)
           p == Max(S)
<1>1. S \subseteq 1 .. n
  BY DEF PowersOfTwo
<1>2. 1 \in S
  BY DEF PowersOfTwo
<1>3. n >= 2 => 2 \in S
  <2>1. \A d \in 2 .. 2 : 2 % d = 0 => d % 2 = 0
    BY 2 % 2 = 0
  <2> QED BY <2>1 DEF PowersOfTwo
<1>4. \A x \in S : \A d \in 2 .. x : x % d = 0 => d % 2 = 0
  BY DEF PowersOfTwo
<1> HIDE DEF S
<1>5. p \in S /\ \A x \in S : x <= p
  <2>1. S \in SUBSET (1 .. n) /\ S # {}
    BY <1>1, <1>2
  <2> QED BY <2>1, MaxProperty
<1>6. p \in Nat /\ p > 0 /\ p <= n
  <2>1. p \in 1 .. n
    BY <1>1, <1>5
  <2> HIDE DEF p
  <2> QED BY <2>1
<1> HIDE DEF p
<1>7. p % 5 # 0
  <2>1. p % 5 = 0 => 5 \in 2 .. p
    BY <1>6
  <2>2. 5 % 2 # 0
    OBVIOUS
  <2> QED BY <1>4, <1>5, <2>1, <2>2
<1>8. CASE n >= 2
  <2>1. p >= 2
    BY <1>3, <1>5, <1>8
  <2>2. p \in 2 .. p /\ p % p = 0
    BY <1>6, <2>1
  <2> QED BY <1>4, <1>5, <1>6, <1>7, <1>8, <2>2 DEF p, S
<1>9. CASE ~(n >= 2)
  <2>1. p = 1
    BY <1>6, <1>9
  <2> QED BY <1>6, <1>7, <1>9, <2>1 DEF p, S
<1> QED BY <1>8, <1>9

(* Rounding yields a natural, and of tenths the number itself only if it is *)
(* whole.                                                                  *)
LEMMA NearestValue ==
  ASSUME NEW n \in Nat, NEW d \in Nat, d > 0
  PROVE  /\ Nearest(n, d) \in Nat
         /\ d = 10 => (10 * Nearest(n, d) = n <=> n % 10 = 0)
<1>1. n \div d \in Nat /\ n % d \in Nat
  BY SMTT(30)
<1>2. Nearest(n, d) \in {n \div d, (n \div d) + 1}
  BY DEF Nearest
<1>3. Nearest(n, d) \in Nat
  BY <1>1, <1>2
<1>4. ASSUME d = 10
      PROVE  10 * Nearest(n, d) = n <=> n % 10 = 0
  BY <1>4 DEF Nearest
<1> QED BY <1>3, <1>4

(* The last digit of a product.                                            *)
LEMMA LastDigit ==
  ASSUME NEW x \in Nat, NEW y \in Nat, x % 10 # 0, y % 5 # 0
  PROVE  (x * y) % 10 = 0 <=> x % 10 = 5 /\ y % 2 = 0
<1> DEFINE a == x \div 10
           t == x % 10
           b == y \div 10
           u == y % 10
<1>1. a \in Nat /\ t \in 1 .. 9 /\ x = 10 * a + t
  OBVIOUS
<1>2. b \in Nat /\ u \in 0 .. 9 /\ y = 10 * b + u /\ u % 5 # 0 /\ (y % 2 = 0 <=> u % 2 = 0)
  OBVIOUS
<1> HIDE DEF a, t, b, u
<1>3. (x * y) % 10 = (t * u) % 10
  <2> DEFINE k == 10 * (a * b) + a * u + b * t
             w == t * u
  <2>1. a * b \in Nat /\ a * u \in Nat /\ b * t \in Nat /\ w \in Nat
    BY <1>1, <1>2
  <2>2. x * y = 10 * k + w
    BY <1>1, <1>2, Z3
  <2>3. k \in Nat
    BY <2>1
  <2> HIDE DEF k, w
  <2>4. (10 * k + w) % 10 = w % 10
    BY <2>1, <2>3
  <2> QED BY <2>2, <2>4 DEF w
<1>4. (t * u) % 10 = 0 <=> t = 5 /\ u % 2 = 0
  <2>1. u \in {1, 2, 3, 4, 6, 7, 8, 9}
    BY <1>2
  <2> QED BY <1>1, <2>1
<1> QED BY <1>2, <1>3, <1>4 DEF t

(* The float nearest to a number with a fraction is that number if and only *)
(* if it is a half and its double fits the significand.                    *)
LEMMA FloatValue ==
  ASSUME NEW n \in Nat, n % 10 # 0
  PROVE  /\ Float(n) \in Fraction /\ Float(n).num \in Nat
         /\ 10 * Float(n).num = n * Float(n).den <=> n % 10 = 5 /\ n < 5 * FloatRange
<1>1. FloatRange \in Nat /\ FloatRange > 0 /\ n > 0
  BY GrammarAssumption
<1>2. CASE n < 10 * FloatRange
  <2> DEFINE k == (10 * FloatRange - 1) \div n
             q == Max(PowersOfTwo(k))
             m == Nearest(n * q, 10)
  <2>1. k \in Nat /\ k > 0 /\ (k >= 2 <=> n < 5 * FloatRange)
    <3> DEFINE z == 10 * FloatRange - 1
    <3>1. z \in Nat /\ n <= z
      BY <1>1, <1>2
    <3>2. n < 5 * FloatRange <=> 2 * n <= z
      BY <1>1
    <3> HIDE DEF z
    <3>3. z \div n \in Nat /\ z \div n >= 1 /\ (z \div n >= 2 <=> 2 * n <= z)
      BY <1>1, <3>1, SMTT(60)
    <3> QED BY <3>2, <3>3 DEF z
  <2> HIDE DEF k
  <2>2. q \in Nat /\ q > 0 /\ q % 5 # 0 /\ (q % 2 = 0 <=> k >= 2)
    BY <2>1, GreatestPower
  <2> HIDE DEF q
  <2>3. n * q \in Nat
    BY <2>2
  <2>4. m \in Nat /\ (10 * m = n * q <=> (n * q) % 10 = 0)
    BY <2>3, NearestValue
  <2>5. Float(n) = [num |-> m, den |-> q]
    BY <1>2 DEF Float, m, q, k
  <2>6. (n * q) % 10 = 0 <=> n % 10 = 5 /\ q % 2 = 0
    BY <2>2, LastDigit
  <2> HIDE DEF m
  <2>7. Float(n) \in Fraction /\ Float(n).num = m /\ Float(n).den = q
    BY <2>2, <2>4, <2>5 DEF Fraction
  <2>8. 10 * m = n * q <=> n % 10 = 5 /\ n < 5 * FloatRange
    BY <2>1, <2>2, <2>4, <2>6
  <2> QED BY <2>4, <2>7, <2>8
<1>3. CASE ~(n < 10 * FloatRange)
  <2> DEFINE k == n \div (5 * FloatRange)
             p == Max(PowersOfTwo(k))
             m == Nearest(n, 10 * p)
  <2>1. k \in Nat /\ k > 0
    <3> DEFINE z == 5 * FloatRange
    <3>1. z \in Nat /\ z > 0 /\ z <= n
      BY <1>1, <1>3
    <3> HIDE DEF z
    <3>2. n \div z \in Nat /\ n \div z > 0
      BY <3>1, SMTT(60)
    <3> QED BY <3>2 DEF z
  <2> HIDE DEF k
  <2>2. p \in Nat /\ p > 0
    BY <2>1, GreatestPower
  <2> HIDE DEF p
  <2>3. m \in Nat
    BY <2>2, NearestValue
  <2>4. Float(n) = [num |-> p * m, den |-> 1]
    BY <1>3 DEF Float, Exactly, m, p, k
  <2> HIDE DEF m
  <2> DEFINE w == p * m
  <2>5. w \in Nat
    BY <2>2, <2>3
  <2> HIDE DEF w
  <2>6. Float(n) \in Fraction /\ Float(n).num = w /\ Float(n).den = 1
    BY <2>4, <2>5 DEF Fraction, w
  <2>7. 10 * w # n * 1
    BY <2>5
  <2> QED BY <1>1, <1>3, <2>5, <2>6, <2>7
<1> QED BY <1>2, <1>3

(* Exactly these numbers are kept.                                         *)
LEMMA KeptNumber ==
  ASSUME NEW s \in NumberScalar
  PROVE  Kept(s) <=>
           \/ Tenths(s) = 0
           \/ ~s.negative /\ Integral(s) /\ ~s.exponent /\ s.whole < IntRange
           \/ ~s.negative /\ ~Integral(s) /\ s.tenths = 5 /\ 2 * s.whole + 1 < FloatRange
           \/ s.negative /\ Integral(s) /\ ~s.exponent /\ s.whole = IntRange
<1> DEFINE w == s.whole
           t == s.tenths
           x == Wrapped(w)
           T == Tenths(s)
<1>1. /\ w \in Nat /\ t \in 0 .. 9 /\ s.kind = "number"
      /\ s.exponent \in BOOLEAN /\ s.negative \in BOOLEAN
      /\ IntRange \in Nat /\ IntRange > 0
      /\ FloatRange \in Nat
  BY GrammarAssumption DEF NumberScalar
<1>2. /\ x \in Int /\ x < IntRange /\ - IntRange <= x
      /\ w < IntRange => x = w
      /\ w = IntRange => x = - IntRange
  BY <1>1, WrappedValue
<1>3. Lex(s).v = IF Integral(s) THEN [num |-> x, den |-> 1] ELSE Float(T)
  BY <1>1 DEF Lex, Exactly
<1>4. Meant(s) = IF s.negative THEN - T ELSE T
  BY DEF Meant
<1>5. /\ T \in Nat
      /\ Integral(s) <=> s.exponent \/ t = 0
      /\ ~Integral(s) => T # 0
      /\ s.exponent => T = 100 * w + 10 * t
      /\ ~s.exponent => T = 10 * w + t
  BY TenthsValue
<1> HIDE DEF w, t, x, T
<1>6. CASE ~Integral(s)
  <2>1. T % 10 # 0 /\ T = 10 * w + t /\ T > 0
    BY <1>1, <1>5, <1>6
  <2> DEFINE num == Float(T).num
             den == Float(T).den
  <2>2. /\ num \in Nat /\ den \in Nat /\ den > 0
        /\ 10 * num = T * den <=> T % 10 = 5 /\ T < 5 * FloatRange
    BY <1>5, <2>1, FloatValue DEF Fraction
  <2>3. Kept(s) <=> 10 * num = Meant(s) * den
    BY <1>3, <1>6 DEF Kept
  <2> HIDE DEF num, den
  <2>4. CASE s.negative
    <3>1. Meant(s) * den < 0
      <4> DEFINE z == T * den
      <4>1. z \in Nat /\ z > 0
        BY <1>5, <2>1, <2>2
      <4>2. (- T) * den = - z
        BY <1>5, <2>2
      <4> HIDE DEF z
      <4> QED BY <1>4, <2>4, <4>1, <4>2
    <3>2. ~(10 * num < 0)
      BY <2>2
    <3>3. ~Kept(s)
      BY <2>3, <3>1, <3>2, Zenon
    <3> QED BY <1>6, <2>1, <2>4, <3>3 DEF T
  <2>5. CASE ~s.negative
    <3>1. Kept(s) <=> T % 10 = 5 /\ T < 5 * FloatRange
      BY <1>4, <2>2, <2>3, <2>5
    <3>2. T % 10 = 5 /\ T < 5 * FloatRange <=> t = 5 /\ 2 * w + 1 < FloatRange
      BY <1>1, <2>1
    <3> QED BY <1>6, <2>1, <2>5, <3>1, <3>2 DEF T, t, w
  <2> QED BY <2>4, <2>5
<1>7. Integral(s) => (Kept(s) <=> 10 * x = Meant(s))
  <2>1. Integral(s) => Lex(s).v.num = x /\ Lex(s).v.den = 1
    BY <1>3
  <2>2. Meant(s) \in Int
    BY <1>4, <1>5
  <2> QED BY <2>1, <2>2 DEF Kept
<1>8. CASE Integral(s) /\ ~s.exponent
  <2>1. T = 10 * w
    BY <1>1, <1>5, <1>8
  <2>2. CASE s.negative
    <3>1. Kept(s) <=> x = - w
      BY <1>1, <1>2, <1>4, <1>7, <1>8, <2>1, <2>2
    <3>2. x = - w <=> w = 0 \/ w = IntRange
      BY <1>1, <1>2
    <3> QED BY <1>1, <1>8, <2>1, <2>2, <3>1, <3>2 DEF T, w
  <2>3. CASE ~s.negative
    <3>1. Kept(s) <=> x = w
      BY <1>1, <1>2, <1>4, <1>7, <1>8, <2>1, <2>3
    <3>2. x = w <=> w < IntRange
      BY <1>1, <1>2
    <3> QED BY <1>1, <1>8, <2>1, <2>3, <3>1, <3>2 DEF T, w
  <2> QED BY <1>1, <2>2, <2>3
<1>9. CASE s.exponent
  <2>1. T = 100 * w + 10 * t /\ Integral(s)
    BY <1>1, <1>5, <1>9
  <2>2. Kept(s) <=> T = 0
    <3>1. Kept(s) <=> x = IF s.negative THEN - (10 * w + t) ELSE 10 * w + t
      BY <1>1, <1>2, <1>4, <1>7, <2>1
    <3>2. x = 10 * w + t <=> w = 0 /\ t = 0
      BY <1>1, <1>2
    <3>3. x = - (10 * w + t) <=> w = 0 /\ t = 0
      BY <1>1, <1>2
    <3> QED BY <1>1, <2>1, <3>1, <3>2, <3>3
  <2> QED BY <1>1, <1>9, <2>1, <2>2 DEF T
<1> QED BY <1>1, <1>6, <1>8, <1>9

-----------------------------------------------------------------------------
(* Phrases.                                                                *)

(* What a step types is nothing or one phrase more.                        *)
LEMMA OnePhraseMore ==
  ASSUME GNext
  PROVE  \/ typed' = typed
         \/ \E p : typed' = Append(typed, p) /\ Numbers(p) \subseteq Compared \cup Stored
<1>1. ASSUME NEW from, NEW p, NEW to, Takes(from, p, to)
      PROVE  typed' = Append(typed, p)
  BY <1>1 DEF Takes
<1>2. ASSUME NEW p, p.what \notin {"condition", "pair", "ADD_EDGE", "DELETE_EDGE"}
      PROVE  Numbers(p) = {}
  BY <1>2 DEF Numbers
<1>3. ASSUME NEW from, NEW p, NEW to, Takes(from, p, to),
             p.what \notin {"condition", "pair", "ADD_EDGE", "DELETE_EDGE"}
      PROVE  \E q : typed' = Append(typed, q) /\ Numbers(q) = {}
  BY <1>1, <1>2, <1>3
<1>4. CASE \E name : select_nodes(name) \/ join(name) \/ begin_vertex(name)
  <2>1. PICK name : select_nodes(name) \/ join(name) \/ begin_vertex(name)
    BY <1>4
  <2>2. \E what, from, to : /\ what \in {"V", "out", "addVertex"}
                              /\ Takes(from, [what |-> what, name |-> name], to)
    BY <2>1 DEF select_nodes, join, begin_vertex
  <2>3. PICK what, from, to : /\ what \in {"V", "out", "addVertex"}
                             /\ Takes(from, [what |-> what, name |-> name], to)
    BY <2>2
  <2> DEFINE p == [what |-> what, name |-> name]
  <2>4. p.what \notin {"condition", "pair", "ADD_EDGE", "DELETE_EDGE"}
    BY <2>3
  <2> QED BY <1>3, <2>3, <2>4
<1>5. CASE \/ begin_condition \/ select_condition \/ delete_command \/ add_vertex
           \/ \E type \in {"OPEN", "CREATE", "CLOSE"} : file_command(type)
  <2> DEFINE Whats == {"has(", ")", "delete", "OPEN", "CREATE", "CLOSE"}
  <2>1. \E what, from, to : what \in Whats /\ Takes(from, [what |-> what], to)
    <3>1. ASSUME NEW type \in {"OPEN", "CREATE", "CLOSE"}, file_command(type)
          PROVE  \E what, from, to : what \in Whats /\ Takes(from, [what |-> what], to)
      <4>1. type \in Whats /\ Takes("nothing", [what |-> type], "command")
        BY <3>1 DEF file_command
      <4> HIDE DEF Whats
      <4> QED BY <4>1
    <3>2. ASSUME begin_condition \/ select_condition \/ delete_command \/ add_vertex
          PROVE  \E what, from, to : what \in Whats /\ Takes(from, [what |-> what], to)
      BY <3>2, SMTT(30) DEF begin_condition, select_condition, delete_command, add_vertex
    <3> HIDE DEF Whats
    <3> QED BY <1>5, <3>1, <3>2, ZenonT(30)
  <2>2. PICK what, from, to : what \in Whats /\ Takes(from, [what |-> what], to)
    BY <2>1
  <2> DEFINE p == [what |-> what]
  <2>3. p.what \notin {"condition", "pair", "ADD_EDGE", "DELETE_EDGE"}
    BY <2>2
  <2> QED BY <1>3, <2>2, <2>3
<1>6. ASSUME NEW name, NEW option, NEW s \in Compared, select_statement(name, option, s)
      PROVE  \E p : typed' = Append(typed, p) /\ Numbers(p) \subseteq Compared
  <2> DEFINE p == [what |-> "condition", name |-> name, option |-> option, val |-> s]
  <2>1. Numbers(p) \subseteq {s}
    BY DEF Numbers
  <2>2. typed' = Append(typed, p)
    BY <1>1, <1>6 DEF select_statement
  <2> QED BY <2>1, <2>2
<1>7. ASSUME NEW name, NEW s \in Stored, attribute_value_pair(name, s)
      PROVE  \E p : typed' = Append(typed, p) /\ Numbers(p) \subseteq Stored
  <2> DEFINE p == [what |-> "pair", name |-> name, val |-> s]
  <2>1. Numbers(p) \subseteq {s}
    BY DEF Numbers
  <2>2. typed' = Append(typed, p)
    BY <1>1, <1>7 DEF attribute_value_pair
  <2> QED BY <2>1, <2>2
<1>8. ASSUME NEW type \in {"ADD_EDGE", "DELETE_EDGE"}, NEW name,
             NEW s1 \in Stored, NEW s2 \in Stored, edge_command(type, name, s1, s2)
      PROVE  \E p : typed' = Append(typed, p) /\ Numbers(p) \subseteq Stored
  <2> DEFINE p == [what |-> type, name |-> name, ids |-> <<s1, s2>>]
  <2>1. Range(<<s1, s2>>) \subseteq {s1, s2}
    BY DEF Range
  <2>2. Numbers(p) \subseteq Range(<<s1, s2>>)
    BY DEF Numbers
  <2>3. typed' = Append(typed, p)
    BY <1>1, <1>8 DEF edge_command
  <2> QED BY <2>1, <2>2, <2>3
<1>9. CASE yyparse_returns \/ client_returns \/ client_sends \/ client_crashes
  BY <1>9 DEF yyparse_returns, client_returns, client_sends, client_crashes
<1> QED BY <1>4, <1>5, <1>6, <1>7, <1>8, <1>9 DEF GNext, add_edge, delete_edge

(* The numbers that are sent are those that were typed, with the           *)
(* exceptions that NumbersKept names, for every width of an int.           *)
THEOREM NumbersAlwaysKept == GSpec => []NumbersKept
<1>1. GInit => PhrasesOK
  BY EmptySeq DEF GInit, PhrasesOK
<1>2. PhrasesOK /\ [GNext]_gvars => PhrasesOK'
  <2> SUFFICES ASSUME PhrasesOK, [GNext]_gvars
               PROVE  PhrasesOK'
    OBVIOUS
  <2>1. CASE typed' = typed
    BY <2>1 DEF PhrasesOK
  <2>2. ASSUME NEW p, typed' = Append(typed, p), Numbers(p) \subseteq Compared \cup Stored
        PROVE  PhrasesOK'
    <3>1. /\ typed' \in Seq(Range(typed) \cup {p})
          /\ DOMAIN typed' = DOMAIN typed \cup {Len(typed) + 1}
          /\ \A j \in DOMAIN typed : typed'[j] = typed[j]
          /\ typed'[Len(typed) + 1] = p
      <4>1. typed \in Seq(Range(typed) \cup {p})
        BY DEF PhrasesOK
      <4>2. Len(typed) \in Nat /\ DOMAIN typed = 1 .. Len(typed)
        BY <4>1, LenProperties
      <4> HIDE DEF PhrasesOK
      <4> QED BY <2>2, <4>1, <4>2, AppendProperties
    <3>2. Numbers(p) \subseteq Scalar
      BY <2>2, ScalarsAssumption
    <3>3. Range(typed) \cup {p} \subseteq Range(typed')
      BY <3>1 DEF Range
    <3>4. typed' \in Seq(Range(typed'))
      BY <3>1, <3>3
    <3> QED BY <3>1, <3>2, <3>4 DEF PhrasesOK
  <2> QED BY <2>1, <2>2, OnePhraseMore DEF gvars
<1>3. PhrasesOK => NumbersKept
  <2>1. \A p, s : s \in Numbers(p) /\ s \in Scalar => s \in NumberScalar
    BY DEF Numbers, Scalar, NumberScalar
  <2> QED BY <2>1, KeptNumber DEF PhrasesOK, NumbersKept
<1> QED BY <1>1, <1>2, <1>3, PTL DEF GSpec

-----------------------------------------------------------------------------
(* Array lists.                                                            *)

(* A list with room for its items, which are in S.                         *)
GoodList(l, S) ==
  /\ l \in List(S)
  /\ l.size <= capacity(l) /\ capacity(l) > 0
  /\ \A j \in 1 .. l.size : l.body[j] \in S

(* The items of a good list are a sequence over S.                         *)
LEMMA ListItems ==
  ASSUME NEW S, NEW l, GoodList(l, S)
  PROVE  /\ Items(l) \in Seq(S) /\ Len(Items(l)) = l.size /\ l.size \in Nat
         /\ \A j \in 1 .. l.size : Items(l)[j] = l.body[j]
<1>1. l.size \in Nat /\ l.body \in Seq(S \cup {Garbage}) /\ l.size <= Len(l.body)
  BY DEF GoodList, List, capacity
<1> DEFINE n == l.size
           body == l.body
<1>2. \A j \in 1 .. n : body[j] \in S
  BY DEF GoodList
<1>3. Items(l) = [j \in 1 .. n |-> IF j - 1 < Len(body) THEN body[(j - 1) + 1] ELSE Garbage]
  BY DEF Items, arraylist_size, arraylist_get, capacity
<1>4. Len(body) \in Nat
  BY <1>1, LenProperties
<1> HIDE DEF n, body
<1>5. \A j \in 1 .. n : j - 1 < Len(body) /\ (j - 1) + 1 = j
  BY <1>1, <1>4 DEF n, body
<1>6. Items(l) = [j \in 1 .. n |-> body[j]]
  BY <1>3, <1>5
<1> QED BY <1>1, <1>2, <1>6 DEF n, body

(* A new list is good, and empty.                                          *)
LEMMA ListCreate ==
  ASSUME NEW S
  PROVE  GoodList(arraylist_create, S) /\ arraylist_create.size = 0
<1> DEFINE body == [j \in 1 .. InitialCapacity |-> Garbage]
<1>1. InitialCapacity \in Nat /\ InitialCapacity > 0
  BY GrammarAssumption
<1>2. body \in Seq(S \cup {Garbage}) /\ Len(body) = InitialCapacity
  BY <1>1
<1> HIDE DEF body
<1>3. arraylist_create = [size |-> 0, body |-> body]
  BY DEF arraylist_create, body
<1> QED BY <1>1, <1>2, <1>3 DEF GoodList, List, capacity

(* Adding to a list appends to its items, however often it has grown.      *)
LEMMA ListAdd ==
  ASSUME NEW S, NEW l, GoodList(l, S), NEW x \in S
  PROVE  /\ GoodList(arraylist_add(l, x), S)
         /\ Items(arraylist_add(l, x)) = Append(Items(l), x)
         /\ arraylist_add(l, x).size = l.size + 1
<1> DEFINE n    == l.size
           body == l.body
           cap  == Len(body)
           room == arraylist_allocate(l, n + 1).body
           new  == [room EXCEPT ![n + 1] = x]
           l2   == arraylist_add(l, x)
<1>1. /\ n \in Nat /\ body \in Seq(S \cup {Garbage}) /\ n <= cap /\ cap > 0 /\ cap \in Nat
      /\ \A j \in 1 .. n : body[j] \in S
  BY LenProperties DEF GoodList, List, capacity
<1>2. l2 = [size |-> n + 1, body |-> new]
  BY DEF arraylist_add
<1>3. /\ room \in Seq(S \cup {Garbage}) /\ n + 1 <= Len(room)
      /\ \A j \in 1 .. n : room[j] = body[j]
  <2>1. CASE n + 1 <= cap
    BY <1>1, <2>1 DEF arraylist_allocate, capacity
  <2>2. CASE ~(n + 1 <= cap)
    <3> DEFINE grown == [j \in 1 .. 2 * cap |-> IF j <= cap THEN body[j] ELSE Garbage]
    <3>1. l = [l EXCEPT !.body = body]
      BY DEF GoodList, List
    <3>2. room = grown
      BY <1>1, <2>2 DEF arraylist_allocate, capacity, GoodList, List
    <3>3. 2 * cap \in Nat /\ \A j \in 1 .. n : j \in 1 .. 2 * cap /\ j <= cap
      BY <1>1
    <3>4. \A j \in 1 .. 2 * cap : j <= cap => body[j] \in S \cup {Garbage}
      BY <1>1
    <3>5. grown \in Seq(S \cup {Garbage}) /\ Len(grown) = 2 * cap
      BY <3>3, <3>4
    <3>6. n + 1 <= 2 * cap
      BY <1>1
    <3>7. \A j \in 1 .. n : grown[j] = body[j]
      BY <3>3
    <3> HIDE DEF grown
    <3> QED BY <3>2, <3>5, <3>6, <3>7
  <2> QED BY <2>1, <2>2
<1> HIDE DEF room
<1>4. /\ new \in Seq(S \cup {Garbage}) /\ Len(new) = Len(room)
      /\ \A j \in 1 .. n : new[j] = body[j]
      /\ new[n + 1] = x
  BY <1>1, <1>3
<1> HIDE DEF new, l2
<1>5. GoodList(l2, S)
  <2>1. l2 \in List(S) /\ l2.size = n + 1 /\ l2.body = new
    BY <1>1, <1>2, <1>4 DEF List
  <2>2. \A j \in 1 .. n + 1 : new[j] \in S
    BY <1>1, <1>4, SMTT(30)
  <2>3. n + 1 <= Len(new) /\ Len(new) > 0
    BY <1>1, <1>3, <1>4
  <2> QED BY <2>1, <2>2, <2>3 DEF GoodList, capacity
<1>6. /\ Items(l2) \in Seq(S) /\ Len(Items(l2)) = n + 1
      /\ \A j \in 1 .. n + 1 : Items(l2)[j] = new[j]
  BY <1>2, <1>5, ListItems
<1>7. /\ Items(l) \in Seq(S) /\ Len(Items(l)) = n
      /\ \A j \in 1 .. n : Items(l)[j] = body[j]
  BY ListItems
<1>8. Items(l2) = Append(Items(l), x)
  <2> DEFINE a == Items(l)
             b == Items(l2)
             c == Append(a, x)
  <2>1. c \in Seq(S) /\ Len(c) = n + 1 /\ (\A j \in 1 .. n : c[j] = a[j]) /\ c[n + 1] = x
    BY <1>1, <1>7, AppendProperties
  <2> HIDE DEF c
  <2>2. \A j \in 1 .. n + 1 : b[j] = c[j]
    BY <1>1, <1>4, <1>6, <1>7, <2>1, SMTT(30)
  <2> HIDE DEF a, b
  <2>3. b \in Seq(S) /\ Len(b) = n + 1
    BY <1>6 DEF b
  <2>4. b = c
    BY <1>1, <2>1, <2>2, <2>3, SeqEqual
  <2> QED BY <2>4 DEF a, b, c
<1> QED BY <1>2, <1>5, <1>8 DEF l2

-----------------------------------------------------------------------------
(* What was typed, and its size.                                           *)

Phrase ==
  [what : {"V"}, name : Names \cup {Null}]
    \cup [what : {"out", "addVertex"}, name : Names]
    \cup [what : {"has(", ")", "delete", "OPEN", "CREATE", "CLOSE"}]
    \cup [what : {"condition"}, name : Names, option : Options, val : Compared]
    \cup [what : {"pair"}, name : Names, val : Stored]
    \cup [what : {"ADD_EDGE", "DELETE_EDGE"}, name : Names, ids : Stored \X Stored]

(* A statement of a request. *)
Whole ==
  [type : {SELECT_CONDITION}, conditions : Seq(Condition)]
    \cup [type : {OUT}, value : Names]
    \cup [type : {DELETE}]

ParseAcc == [open : Seq(Condition), done : Seq(Whole)]
Nothing  == [open |-> << >>, done |-> << >>]

(* What the lexer returns. *)
LEMMA LexType ==
  ASSUME NEW s \in Scalar
  PROVE  Lex(s).type \in Typing /\ Lex(s).v \in Value
<1>1. ATTR_TYPE_INTEGER .. ATTR_TYPE_BOOLEAN = 1 .. 4
  BY DEF ATTR_TYPE_INTEGER, ATTR_TYPE_BOOLEAN
<1>2. CASE s.kind = "word" /\ s.word \in Names
  BY <1>1, <1>2 DEF Lex, Typing, ATTR_TYPE_STRING, Value
<1>3. CASE s.kind = "truth" /\ s.truth \in {0, 1}
  BY <1>1, <1>3 DEF Lex, Typing, ATTR_TYPE_BOOLEAN, Value, Fraction, Exactly
<1>4. CASE s \in NumberScalar
  <2>1. /\ Tenths(s) \in Nat /\ Wrapped(s.whole) \in Int /\ s.kind = "number"
        /\ Integral(s) <=> Tenths(s) % 10 = 0
    BY <1>4, TenthsValue, WrappedValue DEF NumberScalar, Integral
  <2>2. CASE Integral(s)
    <3>1. Lex(s).type = ATTR_TYPE_INTEGER /\ Lex(s).v = [num |-> Wrapped(s.whole), den |-> 1]
      BY <2>1, <2>2 DEF Lex, Exactly
    <3> QED BY <1>1, <2>1, <3>1 DEF Typing, ATTR_TYPE_INTEGER, Value, Fraction
  <2>3. CASE ~Integral(s)
    <3>1. Lex(s).type = ATTR_TYPE_FLOAT /\ Lex(s).v = Float(Tenths(s))
      BY <2>1, <2>3 DEF Lex
    <3>2. Float(Tenths(s)) \in Fraction
      BY <2>1, <2>3, FloatValue
    <3> QED BY <1>1, <3>1, <3>2 DEF Typing, ATTR_TYPE_FLOAT, Value
  <2> QED BY <2>2, <2>3
<1> QED BY <1>2, <1>3, <1>4 DEF Scalar, NumberScalar

(* One phrase more. *)
LEMMA ParseType ==
  ASSUME NEW acc \in ParseAcc, NEW p \in Phrase
  PROVE  Parse(acc, p) \in ParseAcc
<1>0. acc.open \in Seq(Condition) /\ acc.done \in Seq(Whole)
  BY DEF ParseAcc
<1>1. CASE p.what = "condition"
  <2> DEFINE x == [name |-> p.name, option |-> p.option,
                   type |-> Lex(p.val).type, val |-> Lex(p.val).v]
             open == Append(acc.open, x)
  <2>1. p.name \in Names /\ p.option \in Options /\ p.val \in Scalar
    BY <1>1, ScalarsAssumption DEF Phrase
  <2>2. x \in Condition
    BY <2>1, LexType DEF Condition
  <2> HIDE DEF x
  <2>3. open \in Seq(Condition)
    BY <1>0, <2>2, AppendProperties
  <2>4. Parse(acc, p) = [open |-> open, done |-> acc.done]
    BY <1>1 DEF Parse, x
  <2> HIDE DEF open
  <2> QED BY <1>0, <2>3, <2>4 DEF ParseAcc
<1>2. ASSUME NEW x \in Whole, NEW open \in Seq(Condition),
             Parse(acc, p) = [open |-> open, done |-> Append(acc.done, x)]
      PROVE  Parse(acc, p) \in ParseAcc
  <2> DEFINE done == Append(acc.done, x)
  <2>1. done \in Seq(Whole)
    BY <1>0, AppendProperties
  <2> HIDE DEF done
  <2>2. Parse(acc, p) = [open |-> open, done |-> done]
    BY <1>2 DEF done
  <2> QED BY <2>1, <2>2 DEF ParseAcc
<1>3. CASE p.what = ")"
  <2> DEFINE x == [type |-> SELECT_CONDITION, conditions |-> acc.open]
  <2>1. x \in Whole
    BY <1>0 DEF Whole
  <2>2. << >> \in Seq(Condition)
    BY EmptySeq
  <2>3. Parse(acc, p) = [open |-> << >>, done |-> Append(acc.done, x)]
    BY <1>3 DEF Parse
  <2> HIDE DEF x
  <2> QED BY <1>2, <2>1, <2>2, <2>3
<1>4. CASE p.what = "out"
  <2> DEFINE x == [type |-> OUT, value |-> p.name]
  <2>1. x \in Whole
    BY <1>4 DEF Whole, Phrase
  <2>2. Parse(acc, p) = [open |-> acc.open, done |-> Append(acc.done, x)]
    BY <1>4 DEF Parse
  <2> HIDE DEF x
  <2> QED BY <1>0, <1>2, <2>1, <2>2
<1>5. CASE p.what = "delete"
  <2> DEFINE x == [type |-> DELETE]
  <2>1. x \in Whole
    BY DEF Whole
  <2>2. Parse(acc, p) = [open |-> acc.open, done |-> Append(acc.done, x)]
    BY <1>5 DEF Parse
  <2> HIDE DEF x
  <2> QED BY <1>0, <1>2, <2>1, <2>2
<1>6. CASE p.what \notin {"condition", ")", "out", "delete"}
  BY <1>6 DEF Parse
<1> QED BY <1>1, <1>3, <1>4, <1>5, <1>6

ParseSteps(t) == [n \in 1 .. Len(t) |-> [acc \in ParseAcc |-> Parse(acc, t[n])]]

(* Parsed is a fold. *)
LEMMA ParsedFolds ==
  ASSUME NEW t \in Seq(Phrase)
  PROVE  /\ ParseSteps(t) \in [1 .. Len(t) -> [ParseAcc -> ParseAcc]]
         /\ \E it : /\ FoldsIn(it, Len(t), ParseAcc, Nothing, ParseSteps(t))
                    /\ Parsed(t) = it[1 .. Len(t)]
<1> DEFINE N == Len(t)
           S == ParseAcc
           base == Nothing
           F == ParseSteps(t)
           Step(h, u) == IF u = {} THEN base ELSE Parse(h[u \ {Max(u)}], t[Max(u)])
           it == CHOOSE it : it = [u \in SUBSET (1 .. N) |-> Step(it, u)]
<1>1. N \in Nat /\ DOMAIN t = 1 .. N /\ \A n \in 1 .. N : t[n] \in Phrase
  BY LenProperties, ElementOfSeq
<1>2. base \in S
  BY EmptySeq DEF ParseAcc, Nothing
<1>3. F \in [1 .. N -> [S -> S]]
  BY <1>1, ParseType DEF ParseSteps
<1>4. Parsed(t) = it[1 .. N]
  BY <1>1 DEF Parsed, FoldLeft, MapThenFoldSet, Nothing
<1>5. \A n \in 1 .. N : \A acc \in S : F[n][acc] = Parse(acc, t[n])
  BY DEF ParseSteps
<1> HIDE DEF base, S, N, F
<1>6. \E h : IsFold(h, N, S, base, F)
  BY <1>1, <1>2, <1>3, FoldExists
<1>7. \A u \in SUBSET (1 .. N) : u # {} => Max(u) \in 1 .. N /\ u \ {Max(u)} \in SUBSET (1 .. N)
  BY <1>1, MaxProperty
<1>8. PICK h : h = [u \in SUBSET (1 .. N) |-> Step(h, u)]
  <2>1. PICK h : IsFold(h, N, S, base, F)
    BY <1>6
  <2>2. \A u \in SUBSET (1 .. N) : u # {} => h[u] = Parse(h[u \ {Max(u)}], t[Max(u)])
    BY <1>5, <1>7, <2>1 DEF IsFold
  <2>3. h = [u \in SUBSET (1 .. N) |-> Step(h, u)]
    BY <2>1, <2>2 DEF IsFold
  <2> QED BY <2>3
<1> HIDE DEF Step
<1>9. it = [u \in SUBSET (1 .. N) |-> Step(it, u)]
  BY <1>8
<1> HIDE DEF it
<1>10. FoldsIn(it, N, S, base, F)
  BY <1>5, <1>7, <1>9 DEF Step, FoldsIn
<1> QED BY <1>3, <1>4, <1>10 DEF N, S, base, F

(* What was typed can be read phrase by phrase. *)
LEMMA ParsedAppend ==
  ASSUME NEW t \in Seq(Phrase), NEW p \in Phrase
  PROVE  /\ Parsed(t) \in ParseAcc
         /\ Parsed(Append(t, p)) = Parse(Parsed(t), p)
<1> DEFINE N == Len(t)
           u == Append(t, p)
           F == ParseSteps(t)
           H == ParseSteps(u)
<1>1. /\ N \in Nat /\ u \in Seq(Phrase) /\ Len(u) = N + 1
      /\ u[N + 1] = p /\ \A n \in 1 .. N : u[n] = t[n]
  BY LenProperties, AppendProperties
<1>2. PICK it : FoldsIn(it, N, ParseAcc, Nothing, F) /\ Parsed(t) = it[1 .. N]
  BY ParsedFolds
<1>3. PICK next : FoldsIn(next, N + 1, ParseAcc, Nothing, H) /\ Parsed(u) = next[1 .. N + 1]
  <2> HIDE DEF u
  <2> QED BY <1>1, ParsedFolds
<1>4. F \in [1 .. N -> [ParseAcc -> ParseAcc]] /\ H \in [1 .. N + 1 -> [ParseAcc -> ParseAcc]]
  <2> HIDE DEF u
  <2> QED BY <1>1, ParsedFolds
<1>5. \A n \in 1 .. N : H[n] = F[n]
  BY <1>1 DEF ParseSteps
<1>6. \A acc \in ParseAcc : H[N + 1][acc] = Parse(acc, p)
  <2> DEFINE m == N + 1
  <2>1. m \in 1 .. Len(u) /\ u[m] = p
    BY <1>1
  <2> HIDE DEF m, u
  <2> QED BY <2>1 DEF ParseSteps, m
<1>7. Nothing \in ParseAcc
  BY EmptySeq DEF ParseAcc, Nothing
<1> HIDE DEF N, u, F, H
<1>8. Continues(next, it, N, ParseAcc, H)
  <2>1. OneStepMore(N, ParseAcc, F, H)
    BY <1>4, <1>5 DEF OneStepMore
  <2> QED BY <1>1, <1>2, <1>3, <1>7, <2>1, FoldAppend
<1> QED BY <1>2, <1>3, <1>6, <1>8 DEF u, Continues

(* What a statement adds to the size of a request. *)
LEMMA AddSizeType ==
  ASSUME NEW n \in Nat, NEW x \in Whole
  PROVE  AddSize(n, x) \in Nat
<1>1. x.type = SELECT_CONDITION => Len(x.conditions) \in Nat
  BY LenProperties DEF Whole, SELECT_CONDITION, OUT, DELETE
<1> QED BY <1>1 DEF AddSize

SizeSteps(t) == [n \in 1 .. Len(t) |-> [acc \in Nat |-> AddSize(acc, t[n])]]

(* Size is a fold. *)
LEMMA SizeFolds ==
  ASSUME NEW t \in Seq(Whole)
  PROVE  /\ SizeSteps(t) \in [1 .. Len(t) -> [Nat -> Nat]]
         /\ \E it : /\ FoldsIn(it, Len(t), Nat, 1, SizeSteps(t))
                    /\ StatementsSize(t) = it[1 .. Len(t)]
<1> DEFINE N == Len(t)
           S == Nat
           base == 1
           F == SizeSteps(t)
           Step(h, u) == IF u = {} THEN base ELSE AddSize(h[u \ {Max(u)}], t[Max(u)])
           it == CHOOSE it : it = [u \in SUBSET (1 .. N) |-> Step(it, u)]
<1>1. N \in Nat /\ DOMAIN t = 1 .. N /\ \A n \in 1 .. N : t[n] \in Whole
  BY LenProperties, ElementOfSeq
<1>2. base \in S
  OBVIOUS
<1>3. F \in [1 .. N -> [S -> S]]
  BY <1>1, AddSizeType DEF SizeSteps
<1>4. StatementsSize(t) = it[1 .. N]
  BY <1>1 DEF StatementsSize, FoldLeft, MapThenFoldSet
<1>5. \A n \in 1 .. N : \A acc \in S : F[n][acc] = AddSize(acc, t[n])
  BY DEF SizeSteps
<1> HIDE DEF base, S, N, F
<1>6. \E h : IsFold(h, N, S, base, F)
  BY <1>1, <1>2, <1>3, FoldExists
<1>7. \A u \in SUBSET (1 .. N) : u # {} => Max(u) \in 1 .. N /\ u \ {Max(u)} \in SUBSET (1 .. N)
  BY <1>1, MaxProperty
<1>8. PICK h : h = [u \in SUBSET (1 .. N) |-> Step(h, u)]
  <2>1. PICK h : IsFold(h, N, S, base, F)
    BY <1>6
  <2>2. \A u \in SUBSET (1 .. N) : u # {} => h[u] = AddSize(h[u \ {Max(u)}], t[Max(u)])
    BY <1>5, <1>7, <2>1 DEF IsFold
  <2>3. h = [u \in SUBSET (1 .. N) |-> Step(h, u)]
    BY <2>1, <2>2 DEF IsFold
  <2> QED BY <2>3
<1> HIDE DEF Step
<1>9. it = [u \in SUBSET (1 .. N) |-> Step(it, u)]
  BY <1>8
<1> HIDE DEF it
<1>10. FoldsIn(it, N, S, base, F)
  BY <1>5, <1>7, <1>9 DEF Step, FoldsIn
<1> QED BY <1>3, <1>4, <1>10 DEF N, S, base, F

(* A statement more adds its own phrases. *)
LEMMA SizeAppend ==
  ASSUME NEW t \in Seq(Whole), NEW p \in Whole
  PROVE  /\ StatementsSize(t) \in Nat
         /\ StatementsSize(Append(t, p)) = AddSize(StatementsSize(t), p)
<1> DEFINE N == Len(t)
           u == Append(t, p)
           F == SizeSteps(t)
           H == SizeSteps(u)
<1>1. /\ N \in Nat /\ u \in Seq(Whole) /\ Len(u) = N + 1
      /\ u[N + 1] = p /\ \A n \in 1 .. N : u[n] = t[n]
  BY LenProperties, AppendProperties
<1>2. PICK it : FoldsIn(it, N, Nat, 1, F) /\ StatementsSize(t) = it[1 .. N]
  BY SizeFolds
<1>3. PICK next : FoldsIn(next, N + 1, Nat, 1, H) /\ StatementsSize(u) = next[1 .. N + 1]
  <2> HIDE DEF u
  <2> QED BY <1>1, SizeFolds
<1>4. F \in [1 .. N -> [Nat -> Nat]] /\ H \in [1 .. N + 1 -> [Nat -> Nat]]
  <2> HIDE DEF u
  <2> QED BY <1>1, SizeFolds
<1>5. \A n \in 1 .. N : H[n] = F[n]
  BY <1>1 DEF SizeSteps
<1>6. \A acc \in Nat : H[N + 1][acc] = AddSize(acc, p)
  <2> DEFINE m == N + 1
  <2>1. m \in 1 .. Len(u) /\ u[m] = p
    BY <1>1
  <2> HIDE DEF m, u
  <2> QED BY <2>1 DEF SizeSteps, m
<1>7. 1 \in Nat
  OBVIOUS
<1> HIDE DEF N, u, F, H
<1>8. Continues(next, it, N, Nat, H)
  <2>1. OneStepMore(N, Nat, F, H)
    BY <1>4, <1>5 DEF OneStepMore
  <2> QED BY <1>1, <1>2, <1>3, <1>7, <2>1, FoldAppend
<1> QED BY <1>2, <1>3, <1>6, <1>8 DEF u, Continues

(* Where both begin. *)
LEMMA EmptyFolds ==
  Parsed(<< >>) = Nothing /\ StatementsSize(<< >>) = 1
<1> DEFINE e == << >>
<1>1. e \in Seq(Phrase) /\ e \in Seq(Whole) /\ Len(e) = 0 /\ 1 .. 0 = {}
  BY EmptySeq
<1> HIDE DEF e
<1>2. Parsed(e) = Nothing
  <2>1. PICK it : FoldsIn(it, 0, ParseAcc, Nothing, ParseSteps(e)) /\ Parsed(e) = it[1 .. 0]
    BY <1>1, ParsedFolds
  <2> QED BY <1>1, <2>1 DEF FoldsIn
<1>3. StatementsSize(e) = 1
  <2>1. PICK it : FoldsIn(it, 0, Nat, 1, SizeSteps(e)) /\ StatementsSize(e) = it[1 .. 0]
    BY <1>1, SizeFolds
  <2> QED BY <1>1, <2>1 DEF FoldsIn
<1> QED BY <1>2, <1>3 DEF e

-----------------------------------------------------------------------------
(* The tree under the parser.                                              *)

Types == {"UNDEFINED", "SELECT", "ADD_NODE", "ADD_EDGE", "DELETE_EDGE",
          "OPEN", "CREATE", "CLOSE"}

StatementList == List(Statement \cup {Null})

Tree ==
  [type : Types, schema_name : Names \cup {Null}, name : Names \cup {Null},
   statements : StatementList \cup {Null}, attribute_values : List(Pair) \cup {Null},
   ids : (Value \X Value) \cup {Null}]

(* A has() without conditions was typed. *)
EmptyHas ==
  \E j \in 1 .. Len(typed) - 1 : typed[j].what = "has(" /\ typed[j + 1].what = ")"

(* The statements in the tree are those that were typed to their end; NULL *)
(* stands for a has() without conditions.                                  *)
Matching(items, done, empty) ==
  \A j \in 1 .. Len(done) :
    \/ items[j] = Null /\ empty
    \/ items[j] \in Statement /\ StatementJson(items[j]) = done[j]

Listed(done) ==
  /\ GoodList(Statements, Statement \cup {Null})
  /\ Statements.size = Len(done)
  /\ Matching(Items(Statements), done, EmptyHas)
  /\ array_list_created \/ tree.statements = Null

(* The statement under construction has the conditions that were typed     *)
(* since its has( began.                                                   *)
Building(open) ==
  \/ /\ cur_statement = Null /\ open = << >>
     /\ parsed = "has" => Last(typed).what = "has("
  \/ /\ cur_statement \in [type : {SELECT_CONDITION}, conditions : List(Condition)]
     /\ GoodList(cur_statement.conditions, Condition)
     /\ Items(cur_statement.conditions) = open
     /\ Last(typed).what = "condition"
     /\ parsed # "select"

(* From a V(...), what was typed is in the tree. *)
Selected ==
  /\ typed # << >> /\ typed[1].what = "V"
  /\ parsed \notin {"nothing", "vertex", "command"}
  /\ tree.type = "SELECT" /\ tree.schema_name = typed[1].name
  /\ tree.attribute_values = Null
  /\ Listed(Parsed(typed).done)
  /\ Building(Parsed(typed).open)
  /\ StatementsSize(Parsed(typed).done) + Len(Parsed(typed).open) <= Len(typed)

(* From an addVertex, what was typed is in the tree or on the stack. *)
PairsTyped == IF Last(typed).what = ")" THEN Len(typed) - 2 ELSE Len(typed) - 1

Values == IF array_list_created THEN tree.attribute_values ELSE arraylist_create

Vertex ==
  /\ typed # << >> /\ typed[1].what = "addVertex" /\ held = typed[1].name
  /\ parsed \notin {"nothing", "select", "has"}
  /\ parsed = "vertex" => Last(typed).what # ")"
  /\ parsed = "command" => Last(typed).what = ")"
  /\ cur_statement = Null /\ tree.statements = Null
  /\ IF Last(typed).what = ")" THEN tree.type = "ADD_NODE" /\ tree.name = held
                               ELSE tree.type = "UNDEFINED"
  /\ array_list_created <=> PairsTyped > 0
  /\ array_list_created \/ tree.attribute_values = Null
  /\ GoodList(Values, Pair)
  /\ Items(Values) =
       [j \in 1 .. PairsTyped |-> Json(typed[j + 1].name, typed[j + 1].val)]

(* Other commands are one phrase. *)
Single ==
  /\ \/ /\ typed = << >> /\ tree.type = "UNDEFINED"
        /\ parsed \notin {"select", "has", "vertex", "command"}
     \/ /\ Len(typed) = 1 /\ parsed \notin {"nothing", "select", "has", "vertex"}
        /\ typed[1].what = tree.type
        /\ \/ tree.type \in {"OPEN", "CREATE", "CLOSE"}
           \/ /\ tree.type \in {"ADD_EDGE", "DELETE_EDGE"}
              /\ tree.name = typed[1].name
              /\ tree.ids = <<Lex(typed[1].ids[1]).v, Lex(typed[1].ids[2]).v>>
  /\ tree.statements = Null /\ tree.attribute_values = Null
  /\ ~array_list_created /\ cur_statement = Null

GInv ==
  /\ typed \in Seq(Phrase)
  /\ tree \in Tree
  /\ held \in Names \cup {Null}
  /\ array_list_created \in BOOLEAN
  /\ request # << >> <=> parsed = "sent"
  /\ Single \/ Selected \/ Vertex

(* A phrase is read.                                                       *)
LEMMA OnePhrase ==
  ASSUME typed \in Seq(Phrase), NEW p \in Phrase, NEW from, NEW to, Takes(from, p, to)
  PROVE  /\ typed' = Append(typed, p) /\ typed' \in Seq(Phrase) /\ typed' # << >>
         /\ Len(typed) \in Nat /\ Len(typed') = Len(typed) + 1
         /\ typed'[Len(typed) + 1] = p /\ Last(typed') = p
         /\ \A j \in 1 .. Len(typed) : typed'[j] = typed[j]
         /\ Parsed(typed) \in ParseAcc
         /\ Parsed(typed') = Parse(Parsed(typed), p)
         /\ parsed = from /\ parsed' = to /\ request' = request
         /\ EmptyHas => EmptyHas'
<1>1. typed' = Append(typed, p) /\ parsed = from /\ parsed' = to /\ request' = request
  BY DEF Takes
<1>2. /\ Len(typed) \in Nat /\ typed' \in Seq(Phrase) /\ Len(typed') = Len(typed) + 1
      /\ typed'[Len(typed) + 1] = p /\ \A j \in 1 .. Len(typed) : typed'[j] = typed[j]
  BY <1>1, LenProperties, AppendProperties
<1>3. Parsed(typed) \in ParseAcc /\ Parsed(typed') = Parse(Parsed(typed), p)
  BY <1>1, ParsedAppend
<1>4. Last(typed') = p
  BY <1>2 DEF Last
<1>5. typed' # << >>
  BY <1>2
<1>6. EmptyHas => EmptyHas'
  <2> SUFFICES ASSUME EmptyHas PROVE EmptyHas'
    OBVIOUS
  <2>1. PICK j \in 1 .. Len(typed) - 1 : typed[j].what = "has(" /\ typed[j + 1].what = ")"
    BY DEF EmptyHas
  <2>2. j \in 1 .. Len(typed) /\ j + 1 \in 1 .. Len(typed) /\ j \in 1 .. Len(typed') - 1
    BY <1>2
  <2>3. typed'[j].what = "has(" /\ typed'[j + 1].what = ")"
    BY <1>2, <2>1, <2>2
  <2> QED BY <2>2, <2>3 DEF EmptyHas
<1> QED BY <1>1, <1>2, <1>3, <1>4, <1>5, <1>6

(* A statement is added to the tree.                                       *)
LEMMA AddStatementInv ==
  ASSUME GInv, Selected, NEW p \in Phrase, NEW from, Takes(from, p, "select"),
         NEW s \in Statement \cup {Null}, AddStatement(s), NEW w \in Whole,
         Parse(Parsed(typed), p) =
           [open |-> << >>, done |-> Append(Parsed(typed).done, w)],
         \/ s = Null /\ EmptyHas'
         \/ s \in Statement /\ StatementJson(s) = w,
         \A n \in Nat : AddSize(n, w) <= n + 1 + Len(Parsed(typed).open)
  PROVE  Selected' /\ tree' \in Tree /\ array_list_created' = TRUE
<1> DEFINE S == Statement \cup {Null}
           l == Statements
           m == arraylist_add(l, s)
           done == Parsed(typed).done
           done2 == Append(done, w)
           open == Parsed(typed).open
<1>1. typed \in Seq(Phrase) /\ tree \in Tree
  BY DEF GInv
<1>2. /\ typed' # << >> /\ Len(typed) \in Nat /\ Len(typed') = Len(typed) + 1
      /\ \A j \in 1 .. Len(typed) : typed'[j] = typed[j]
      /\ Parsed(typed) \in ParseAcc /\ Parsed(typed') = Parse(Parsed(typed), p)
      /\ parsed' = "select" /\ (EmptyHas => EmptyHas')
  BY <1>1, OnePhrase
<1>3. /\ tree' = [tree EXCEPT !.statements = m] /\ array_list_created' = TRUE
      /\ cur_statement' = Null
  BY DEF AddStatement
<1>4. done \in Seq(Whole) /\ open \in Seq(Condition) /\ Len(done) \in Nat /\ Len(open) \in Nat
  BY <1>2, LenProperties DEF ParseAcc
<1>5. /\ GoodList(l, S) /\ l.size = Len(done) /\ Matching(Items(l), done, EmptyHas)
  BY DEF Selected, Listed
<1>6. /\ GoodList(m, S) /\ Items(m) = Append(Items(l), s) /\ m.size = l.size + 1
  BY <1>5, ListAdd
<1>7. Items(l) \in Seq(S) /\ Len(Items(l)) = Len(done)
  BY <1>5, ListItems
<1>8. /\ tree' \in Tree /\ tree'.statements = m /\ tree'.type = tree.type
      /\ tree'.schema_name = tree.schema_name /\ tree'.attribute_values = tree.attribute_values
  <2>1. m \in StatementList
    BY <1>6 DEF GoodList, StatementList
  <2> HIDE DEF m
  <2> QED BY <1>1, <1>3, <2>1 DEF Tree
<1>9. /\ done2 \in Seq(Whole) /\ Len(done2) = Len(done) + 1
      /\ \A j \in 1 .. Len(done) : done2[j] = done[j]
      /\ done2[Len(done) + 1] = w
  BY <1>4, AppendProperties
<1>10. /\ \A j \in 1 .. Len(done) : Items(m)[j] = Items(l)[j]
       /\ Items(m)[Len(done) + 1] = s
  BY <1>6, <1>7, AppendProperties
<1>11. Parsed(typed') = [open |-> << >>, done |-> done2]
  BY <1>2
<1> HIDE DEF l, m, done, done2, open
<1>12. Statements' = m
  BY <1>3, <1>8 DEF Statements
<1>13. Matching(Items(m), done2, EmptyHas')
  <2> SUFFICES ASSUME NEW j \in 1 .. Len(done) + 1
               PROVE  \/ Items(m)[j] = Null /\ EmptyHas'
                      \/ Items(m)[j] \in Statement /\ StatementJson(Items(m)[j]) = done2[j]
    BY <1>9 DEF Matching
  <2>1. CASE j \in 1 .. Len(done)
    BY <1>2, <1>5, <1>9, <1>10, <2>1 DEF Matching
  <2>2. CASE j = Len(done) + 1
    BY <1>9, <1>10, <2>2
  <2> QED BY <1>4, <2>1, <2>2
<1>14. Listed(Parsed(typed).done)'
  <2>1. Parsed(typed').done = done2 /\ m.size = Len(done2)
    BY <1>5, <1>6, <1>9, <1>11
  <2> QED BY <1>3, <1>6, <1>12, <1>13, <2>1 DEF Listed
<1>15. Building(Parsed(typed).open)'
  BY <1>2, <1>3, <1>11 DEF Building
<1>16. (StatementsSize(Parsed(typed).done) + Len(Parsed(typed).open) <= Len(typed))'
  <2>1. Parsed(typed').done = done2 /\ Len(Parsed(typed').open) = 0
    BY <1>11
  <2>2. StatementsSize(done) \in Nat /\ StatementsSize(done2) = AddSize(StatementsSize(done), w)
    BY <1>4, SizeAppend DEF done2
  <2>3. StatementsSize(done) + Len(open) <= Len(typed)
    BY DEF Selected, done, open
  <2>4. /\ AddSize(StatementsSize(done), w) <= StatementsSize(done) + 1 + Len(open)
        /\ AddSize(StatementsSize(done), w) \in Nat
    BY <2>2, AddSizeType DEF open
  <2>5. StatementsSize(done2) + 0 <= Len(typed')
    BY <1>2, <1>4, <2>2, <2>3, <2>4
  <2> QED BY <2>1, <2>5
<1>17. typed'[1] = typed[1] /\ typed[1].what = "V"
  BY <1>2 DEF Selected
<1> QED BY <1>2, <1>3, <1>8, <1>14, <1>15, <1>16, <1>17 DEF Selected

(* Where the parser is says what was typed. *)
LEMMA Places ==
  ASSUME GInv
  PROVE  /\ parsed = "nothing" => Single /\ typed = << >> /\ tree.type = "UNDEFINED"
         /\ parsed \in {"select", "has"} => Selected
         /\ parsed = "vertex" => Vertex
         /\ typed \in Seq(Phrase) /\ tree \in Tree /\ held \in Names \cup {Null}
         /\ array_list_created \in BOOLEAN
BY DEF GInv, Single, Selected, Vertex

(* A phrase leaves the request as it is. *)
LEMMA StillTyping ==
  ASSUME GInv, NEW p \in Phrase, NEW from \in {"nothing", "select", "has", "vertex"},
         NEW to \in {"select", "has", "vertex", "command"}, Takes(from, p, to),
         tree' \in Tree, held' \in Names \cup {Null}, array_list_created' \in BOOLEAN,
         Single' \/ Selected' \/ Vertex'
  PROVE  GInv'
BY OnePhrase DEF GInv

(* V(...). *)
LEMMA SelectNodesInv ==
  ASSUME GInv, NEW name \in Names \cup {Null}, select_nodes(name)
  PROVE  GInv'
<1> DEFINE p == [what |-> "V", name |-> name]
<1>1. p \in Phrase /\ p.what = "V" /\ p.name = name
  BY DEF Phrase
<1>2. Takes("nothing", p, "select")
  BY DEF select_nodes
<1> HIDE DEF p
<1>3. Single /\ typed = << >> /\ typed \in Seq(Phrase) /\ tree \in Tree /\ Len(typed) = 0
  BY <1>2, Places DEF Takes
<1>4. /\ typed' # << >> /\ Len(typed') = 1 /\ typed'[1] = p
      /\ Parsed(typed') = Nothing /\ parsed' = "select"
  <2>1. Parsed(typed) = Nothing
    BY <1>3, EmptyFolds
  <2>2. /\ typed' # << >> /\ Len(typed') = Len(typed) + 1 /\ typed'[Len(typed) + 1] = p
        /\ Parsed(typed') = Parse(Parsed(typed), p) /\ parsed' = "select"
    BY <1>1, <1>2, <1>3, OnePhrase
  <2>3. Parse(Parsed(typed), p) = Parsed(typed)
    BY <1>1 DEF Parse
  <2> QED BY <1>3, <2>1, <2>2, <2>3
<1>5. /\ tree' \in Tree /\ tree'.type = "SELECT" /\ tree'.schema_name = name
      /\ tree'.attribute_values = tree.attribute_values /\ tree'.statements = tree.statements
  BY <1>3 DEF select_nodes, Tree, Types
<1>6. held' = held /\ cur_statement' = Null /\ array_list_created' = FALSE
  BY <1>3 DEF select_nodes, Single, GInv
<1>7. Listed(<< >>)'
  <2>1. Statements' = arraylist_create
    BY <1>6 DEF Statements
  <2>2. GoodList(arraylist_create, Statement \cup {Null}) /\ arraylist_create.size = 0
    BY ListCreate
  <2>3. tree'.statements = Null /\ Len(<< >>) = 0
    BY <1>3, <1>5 DEF Single
  <2> QED BY <2>1, <2>2, <2>3 DEF Listed, Matching
<1>8. Building(<< >>)'
  BY <1>4, <1>6 DEF Building
<1>9. Selected'
  BY <1>1, <1>3, <1>4, <1>5, <1>7, <1>8, EmptyFolds DEF Selected, Nothing, Single
<1> QED BY <1>1, <1>2, <1>5, <1>6, <1>9, StillTyping, Places

(* .has( *)
LEMMA BeginConditionInv ==
  ASSUME GInv, begin_condition
  PROVE  GInv'
<1> DEFINE p == [what |-> "has("]
<1>1. p \in Phrase /\ p.what = "has("
  BY DEF Phrase
<1>2. Takes("select", p, "has")
  BY DEF begin_condition
<1> HIDE DEF p
<1>3. Selected /\ typed \in Seq(Phrase) /\ parsed = "select" /\ tree \in Tree
  BY <1>2, Places DEF Takes
<1>4. /\ typed' # << >> /\ Len(typed) \in Nat /\ Len(typed') = Len(typed) + 1
      /\ \A j \in 1 .. Len(typed) : typed'[j] = typed[j]
      /\ Parsed(typed) \in ParseAcc
      /\ Parsed(typed') = Parsed(typed) /\ parsed' = "has" /\ Last(typed') = p
      /\ EmptyHas => EmptyHas'
  BY <1>1, <1>2, <1>3, OnePhrase DEF Parse
<1>5. tree' = tree /\ held' = held /\ cur_statement' = cur_statement
      /\ array_list_created' = array_list_created
  BY DEF begin_condition
<1>6. Listed(Parsed(typed).done)'
  <2>1. Listed(Parsed(typed).done)
    BY <1>3 DEF Selected
  <2>2. Statements' = Statements
    BY <1>5 DEF Statements
  <2> QED BY <1>4, <1>5, <2>1, <2>2 DEF Listed, Matching
<1>7. Building(Parsed(typed).open)'
  BY <1>1, <1>3, <1>4, <1>5 DEF Building, Selected
<1>8. (StatementsSize(Parsed(typed).done) + Len(Parsed(typed).open) <= Len(typed))'
  <2>1. StatementsSize(Parsed(typed).done) \in Nat /\ Len(Parsed(typed).open) \in Nat
    <3>1. Parsed(typed).done \in Seq(Whole) /\ Parsed(typed).open \in Seq(Condition)
      BY <1>4 DEF ParseAcc
    <3>2. [type |-> DELETE] \in Whole
      BY DEF Whole
    <3> QED BY <3>1, <3>2, SizeAppend, LenProperties
  <2> QED BY <1>3, <1>4, <2>1 DEF Selected
<1>9. Selected'
  BY <1>3, <1>4, <1>5, <1>6, <1>7, <1>8 DEF Selected
<1> QED BY <1>1, <1>2, <1>3, <1>5, <1>9, StillTyping, Places

(* A condition. *)
LEMMA SelectStatementInv ==
  ASSUME GInv, NEW name \in Names, NEW option \in Options, NEW s \in Compared,
         select_statement(name, option, s)
  PROVE  GInv'
<1> DEFINE p == [what |-> "condition", name |-> name, option |-> option, val |-> s]
           c == [name |-> name, option |-> option, type |-> Lex(s).type, val |-> Lex(s).v]
           fresh == [type |-> SELECT_CONDITION, conditions |-> arraylist_create]
           cur == IF cur_statement # Null THEN cur_statement ELSE fresh
           done == Parsed(typed).done
           open == Parsed(typed).open
<1>1. p \in Phrase /\ p.what = "condition"
  BY DEF Phrase
<1>2. Takes("has", p, "has")
  BY DEF select_statement
<1>3. cur_statement' = [cur EXCEPT !.conditions = arraylist_add(@, c)]
  BY DEF select_statement
<1>4. tree' = tree /\ held' = held /\ array_list_created' = array_list_created
  BY DEF select_statement
<1>5. Selected /\ typed \in Seq(Phrase) /\ parsed = "has" /\ tree \in Tree
  BY <1>2, Places DEF Takes
<1>6. c \in Condition
  BY LexType, ScalarsAssumption DEF Condition
<1>7. Parse(Parsed(typed), p) = [open |-> Append(open, c), done |-> done]
  BY DEF Parse
<1> HIDE DEF p, c
<1>8. /\ typed' # << >> /\ Len(typed) \in Nat /\ Len(typed') = Len(typed) + 1
      /\ \A j \in 1 .. Len(typed) : typed'[j] = typed[j]
      /\ Parsed(typed) \in ParseAcc
      /\ Parsed(typed') = [open |-> Append(open, c), done |-> done]
      /\ parsed' = "has" /\ Last(typed') = p
      /\ EmptyHas => EmptyHas'
  BY <1>1, <1>2, <1>5, <1>7, OnePhrase
<1>9. /\ cur \in [type : {SELECT_CONDITION}, conditions : List(Condition)]
      /\ GoodList(cur.conditions, Condition) /\ Items(cur.conditions) = open
  <2>1. Building(open)
    BY <1>5 DEF Selected
  <2>2. CASE cur_statement = Null /\ open = << >>
    <3>1. cur = fresh
      BY <2>2
    <3>2. GoodList(arraylist_create, Condition) /\ arraylist_create.size = 0
      BY ListCreate
    <3>3. arraylist_create \in List(Condition)
      BY <3>2 DEF GoodList
    <3>4. Items(arraylist_create) = << >>
      BY <3>2, ListItems
    <3> QED BY <2>2, <3>1, <3>2, <3>3, <3>4
  <2>3. CASE /\ cur_statement \in [type : {SELECT_CONDITION}, conditions : List(Condition)]
             /\ GoodList(cur_statement.conditions, Condition)
             /\ Items(cur_statement.conditions) = open
    <3>1. cur_statement # Null
      BY <2>3, PointersAssumption DEF Statement
    <3> QED BY <2>3, <3>1
  <2> QED BY <2>1, <2>2, <2>3 DEF Building
<1> HIDE DEF cur
<1> DEFINE l == arraylist_add(cur.conditions, c)
<1>10. GoodList(l, Condition) /\ Items(l) = Append(open, c)
  BY <1>6, <1>9, ListAdd
<1>11. l \in List(Condition)
  BY <1>10 DEF GoodList
<1>12. /\ cur_statement' \in [type : {SELECT_CONDITION}, conditions : List(Condition)]
       /\ cur_statement'.conditions = l
  <2>1. cur_statement' = [cur EXCEPT !.conditions = l]
    BY <1>3, <1>9
  <2> HIDE DEF l
  <2> QED BY <1>9, <1>11, <2>1
<1>13. Building(Parsed(typed).open)'
  <2>1. Parsed(typed').open = Append(open, c)
    BY <1>8
  <2> HIDE DEF l, open
  <2> QED BY <1>1, <1>8, <1>10, <1>12, <2>1 DEF Building
<1>14. Listed(Parsed(typed).done)'
  <2>1. Listed(done)
    BY <1>5 DEF Selected
  <2>2. Statements' = Statements
    BY <1>4 DEF Statements
  <2>3. Parsed(typed').done = done
    BY <1>8
  <2> HIDE DEF done
  <2> QED BY <1>4, <1>8, <2>1, <2>2, <2>3 DEF Listed, Matching
<1>15. (StatementsSize(Parsed(typed).done) + Len(Parsed(typed).open) <= Len(typed))'
  <2>1. done \in Seq(Whole) /\ open \in Seq(Condition)
    BY <1>8 DEF ParseAcc
  <2>2. [type |-> DELETE] \in Whole
    BY DEF Whole
  <2>3. StatementsSize(done) \in Nat /\ Len(open) \in Nat /\ Len(Append(open, c)) = Len(open) + 1
    BY <1>6, <2>1, <2>2, SizeAppend, LenProperties, AppendProperties
  <2>4. Parsed(typed').done = done /\ Parsed(typed').open = Append(open, c)
    BY <1>8
  <2>5. StatementsSize(done) + Len(open) <= Len(typed)
    BY <1>5 DEF Selected
  <2> HIDE DEF done, open
  <2>6. StatementsSize(done) + Len(Append(open, c)) <= Len(typed')
    BY <1>8, <2>3, <2>5
  <2> QED BY <2>4, <2>6
<1>16. Selected'
  BY <1>4, <1>5, <1>8, <1>13, <1>14, <1>15 DEF Selected
<1> QED BY <1>1, <1>2, <1>4, <1>5, <1>16, StillTyping, Places

(* The closing brace of .has( ). *)
LEMMA SelectConditionInv ==
  ASSUME GInv, select_condition
  PROVE  GInv'
<1> DEFINE p == [what |-> ")"]
           w == [type |-> SELECT_CONDITION, conditions |-> Parsed(typed).open]
<1>1. p \in Phrase /\ p.what = ")"
  BY DEF Phrase
<1>2. Takes("has", p, "select") /\ AddStatement(cur_statement) /\ held' = held
  BY DEF select_condition
<1>3. Parse(Parsed(typed), p) = [open |-> << >>, done |-> Append(Parsed(typed).done, w)]
  BY DEF Parse
<1>4. Selected /\ typed \in Seq(Phrase) /\ parsed = "has" /\ tree \in Tree
  BY <1>2, Places DEF Takes
<1> HIDE DEF p
<1>5. /\ typed \in Seq(Phrase) /\ Len(typed) \in Nat /\ Len(typed') = Len(typed) + 1
      /\ \A j \in 1 .. Len(typed) : typed'[j] = typed[j]
      /\ typed'[Len(typed) + 1] = p
      /\ Parsed(typed) \in ParseAcc
  BY <1>1, <1>2, <1>4, OnePhrase
<1>6. w \in Whole
  BY <1>5 DEF Whole, ParseAcc
<1>7. /\ cur_statement \in Statement \cup {Null}
      /\ \/ cur_statement = Null /\ EmptyHas'
         \/ cur_statement \in Statement /\ StatementJson(cur_statement) = w
  <2>1. Building(Parsed(typed).open)
    BY <1>4 DEF Selected
  <2>2. CASE cur_statement = Null /\ Last(typed).what = "has("
    <3>1. Len(typed) > 0
      BY <1>4, <1>5 DEF Selected
    <3>2. typed[Len(typed)].what = "has("
      BY <2>2 DEF Last
    <3>3. /\ Len(typed) \in 1 .. Len(typed') - 1
          /\ typed'[Len(typed)].what = "has(" /\ typed'[Len(typed) + 1].what = ")"
      BY <1>1, <1>5, <3>1, <3>2
    <3> QED BY <2>2, <3>3 DEF EmptyHas
  <2>3. CASE /\ cur_statement \in [type : {SELECT_CONDITION}, conditions : List(Condition)]
             /\ Items(cur_statement.conditions) = Parsed(typed).open
    <3>1. cur_statement \in Statement /\ cur_statement.type = SELECT_CONDITION
      BY <2>3 DEF Statement
    <3>2. StatementJson(cur_statement) =
            [cur_statement EXCEPT !.conditions = Items(cur_statement.conditions)]
      BY <2>3, <3>1 DEF StatementJson
    <3>3. StatementJson(cur_statement) = w
      BY <2>3, <3>2
    <3> QED BY <3>1, <3>3
  <2> QED BY <1>4, <2>1, <2>2, <2>3 DEF Building
<1>8. \A n \in Nat : AddSize(n, w) <= n + 1 + Len(Parsed(typed).open)
  <2>1. Len(Parsed(typed).open) \in Nat
    BY <1>5, LenProperties DEF ParseAcc
  <2>2. \A n \in Nat : AddSize(n, w) = n + (1 + Len(Parsed(typed).open))
    BY DEF AddSize
  <2> DEFINE m == Len(Parsed(typed).open)
  <2> HIDE DEF m, w
  <2>3. m \in Nat /\ \A n \in Nat : AddSize(n, w) = n + (1 + m)
    BY <2>1, <2>2 DEF m
  <2>4. \A n \in Nat : AddSize(n, w) <= n + 1 + m
    BY <2>3
  <2> QED BY <2>4 DEF m
<1> HIDE DEF w
<1>9. Selected' /\ tree' \in Tree /\ array_list_created' = TRUE
  BY <1>1, <1>2, <1>3, <1>4, <1>6, <1>7, <1>8, AddStatementInv
<1> QED BY <1>1, <1>2, <1>9, StillTyping, Places

(* .out( ) and .delete(). *)
LEMMA JoinDeleteInv ==
  ASSUME GInv, delete_command \/ \E name \in Names : join(name)
  PROVE  GInv'
<1>1. ASSUME NEW p \in Phrase, Takes("select", p, "select"), NEW s \in Statement \cap Whole,
             s.type # SELECT_CONDITION, AddStatement(s), held' = held,
             Parse(Parsed(typed), p) =
               [open |-> Parsed(typed).open, done |-> Append(Parsed(typed).done, s)]
      PROVE  GInv'
  <2>1. Selected /\ typed \in Seq(Phrase) /\ parsed = "select"
    BY <1>1, Places DEF Takes
  <2>2. Parsed(typed).open = << >>
    BY <2>1 DEF Selected, Building
  <2>3. StatementJson(s) = s
    BY <1>1 DEF StatementJson
  <2>4. Len(<< >>) = 0 /\ \A n \in Nat : AddSize(n, s) = n + 1
    BY <1>1 DEF AddSize
  <2>5. \A n \in Nat : AddSize(n, s) <= n + 1 + Len(Parsed(typed).open)
    BY <2>2, <2>4
  <2>6. Selected' /\ tree' \in Tree /\ array_list_created' = TRUE
    BY <1>1, <2>1, <2>2, <2>3, <2>5, AddStatementInv
  <2> QED BY <1>1, <2>6, StillTyping, Places
<1>2. CASE delete_command
  <2> DEFINE p == [what |-> "delete"]
             s == [type |-> DELETE]
  <2>1. p \in Phrase /\ s \in Statement \cap Whole /\ s.type # SELECT_CONDITION
    BY DEF Phrase, Statement, Whole, DELETE, SELECT_CONDITION
  <2>2. Takes("select", p, "select") /\ AddStatement(s) /\ held' = held
    BY <1>2 DEF delete_command
  <2>3. Parse(Parsed(typed), p) =
          [open |-> Parsed(typed).open, done |-> Append(Parsed(typed).done, s)]
    BY DEF Parse
  <2> HIDE DEF p, s
  <2> QED BY <1>1, <2>1, <2>2, <2>3
<1>3. ASSUME NEW name \in Names, join(name)
      PROVE  GInv'
  <2> DEFINE p == [what |-> "out", name |-> name]
             s == [type |-> OUT, value |-> name]
  <2>1. p \in Phrase /\ s \in Statement \cap Whole /\ s.type # SELECT_CONDITION
    BY DEF Phrase, Statement, Whole, OUT, SELECT_CONDITION
  <2>2. Takes("select", p, "select") /\ AddStatement(s) /\ held' = held
    BY <1>3 DEF join
  <2>3. Parse(Parsed(typed), p) =
          [open |-> Parsed(typed).open, done |-> Append(Parsed(typed).done, s)]
    BY DEF Parse
  <2> HIDE DEF p, s
  <2> QED BY <1>1, <2>1, <2>2, <2>3
<1> QED BY <1>2, <1>3

(* addVertex( *)
LEMMA BeginVertexInv ==
  ASSUME GInv, NEW name \in Names, begin_vertex(name)
  PROVE  GInv'
<1> DEFINE p == [what |-> "addVertex", name |-> name]
<1>1. p \in Phrase /\ p.what = "addVertex" /\ p.name = name
  BY DEF Phrase
<1>2. Takes("nothing", p, "vertex")
  BY DEF begin_vertex
<1> HIDE DEF p
<1>3. /\ held' = name /\ tree' = tree /\ cur_statement' = cur_statement
      /\ array_list_created' = array_list_created
  BY DEF begin_vertex
<1>4. Single /\ typed = << >> /\ typed \in Seq(Phrase) /\ tree \in Tree /\ Len(typed) = 0
      /\ tree.type = "UNDEFINED"
  BY <1>2, Places DEF Takes
<1>5. /\ typed' # << >> /\ Len(typed') = 1 /\ typed'[1] = p /\ Last(typed') = p
      /\ parsed' = "vertex"
  BY <1>1, <1>2, <1>4, OnePhrase
<1>6. PairsTyped' = 0 /\ Last(typed').what # ")"
  BY <1>1, <1>5 DEF PairsTyped
<1>7. Values' = arraylist_create /\ ~array_list_created' /\ cur_statement' = Null
      /\ tree'.statements = Null /\ tree'.attribute_values = Null
  BY <1>3, <1>4 DEF Values, Single
<1>8. /\ GoodList(arraylist_create, Pair) /\ arraylist_create.size = 0
      /\ Items(arraylist_create) = << >>
  BY ListCreate, ListItems
<1>9. GoodList(Values', Pair) /\ Items(Values') = << >>
  BY <1>7, <1>8
<1>10. Vertex'
  <2>1. Items(Values)' =
          [j \in 1 .. PairsTyped |-> Json(typed[j + 1].name, typed[j + 1].val)]'
    BY <1>6, <1>9
  <2>2. (array_list_created <=> PairsTyped > 0)'
    BY <1>6, <1>7
  <2>3. GoodList(Values, Pair)'
    BY <1>9
  <2> HIDE DEF PairsTyped, Values
  <2> QED BY <1>1, <1>3, <1>4, <1>5, <1>6, <1>7, <2>1, <2>2, <2>3 DEF Vertex
<1> QED BY <1>1, <1>2, <1>3, <1>4, <1>10, StillTyping, Places

(* An attribute and its value. *)
LEMMA PairInv ==
  ASSUME GInv, NEW name \in Names, NEW s \in Stored, attribute_value_pair(name, s)
  PROVE  GInv'
<1> DEFINE p == [what |-> "pair", name |-> name, val |-> s]
           c == Json(name, s)
           n == PairsTyped
           l == arraylist_add(Values, c)
<1>1. p \in Phrase /\ p.what = "pair" /\ p.name = name /\ p.val = s
  BY DEF Phrase
<1>2. Takes("vertex", p, "vertex")
  BY DEF attribute_value_pair
<1> HIDE DEF p
<1>3. /\ held' = held /\ cur_statement' = cur_statement /\ array_list_created' = TRUE
      /\ tree' = [tree EXCEPT !.attribute_values = l]
  BY DEF attribute_value_pair, Values, Json
<1>4. c \in Pair
  BY LexType, ScalarsAssumption DEF Pair, Json
<1>5. Vertex /\ typed \in Seq(Phrase) /\ tree \in Tree /\ parsed = "vertex"
  BY <1>2, Places DEF Takes
<1>6. /\ typed' # << >> /\ Len(typed) \in Nat /\ Len(typed') = Len(typed) + 1
      /\ typed'[Len(typed) + 1] = p /\ Last(typed') = p
      /\ \A j \in 1 .. Len(typed) : typed'[j] = typed[j]
      /\ parsed' = "vertex"
  BY <1>1, <1>2, <1>5, OnePhrase
<1>7. /\ n = Len(typed) - 1 /\ PairsTyped' = n + 1 /\ n \in Nat
      /\ Last(typed).what # ")" /\ Last(typed').what # ")"
  <2>1. Last(typed).what # ")" /\ typed # << >>
    BY <1>5 DEF Vertex
  <2>2. Len(typed) # 0
    BY <1>5, <2>1
  <2> QED BY <1>1, <1>6, <2>1, <2>2 DEF PairsTyped
<1>8. /\ GoodList(Values, Pair)
      /\ Items(Values) = [j \in 1 .. n |-> Json(typed[j + 1].name, typed[j + 1].val)]
  BY <1>5 DEF Vertex
<1>9. GoodList(l, Pair) /\ Items(l) = Append(Items(Values), c)
  BY <1>4, <1>8, ListAdd
<1>10. Items(Values) \in Seq(Pair)
  BY <1>8, ListItems
<1> HIDE DEF n, c, l
<1>11. Items(l) = [j \in 1 .. n + 1 |-> Json(typed'[j + 1].name, typed'[j + 1].val)]
  <2> DEFINE a == Items(Values)
             b == [j \in 1 .. n + 1 |-> Json(typed'[j + 1].name, typed'[j + 1].val)]
  <2>1. Len(a) = n /\ \A j \in 1 .. n : a[j] = Json(typed[j + 1].name, typed[j + 1].val)
    BY <1>7, <1>8
  <2>2. /\ Append(a, c) \in Seq(Pair) /\ Len(Append(a, c)) = n + 1
        /\ \A j \in 1 .. n : Append(a, c)[j] = a[j]
        /\ Append(a, c)[n + 1] = c
    BY <1>4, <1>10, <2>1, AppendProperties
  <2> HIDE DEF a
  <2> DEFINE d == Append(a, c)
  <2> HIDE DEF d
  <2>3. \A j \in 1 .. n + 1 : d[j] = Json(typed'[j + 1].name, typed'[j + 1].val)
    <3> SUFFICES ASSUME NEW j \in 1 .. n + 1
                 PROVE  d[j] = Json(typed'[j + 1].name, typed'[j + 1].val)
      OBVIOUS
    <3>1. CASE j = n + 1
      <4>1. typed'[j + 1] = p
        BY <1>6, <1>7, <3>1
      <4> QED BY <1>1, <2>2, <3>1, <4>1 DEF c, d
    <3>2. CASE j \in 1 .. n
      <4>1. typed'[j + 1] = typed[j + 1]
        BY <1>6, <1>7, <3>2
      <4> QED BY <2>1, <2>2, <3>2, <4>1 DEF d
    <3> QED BY <1>7, <3>1, <3>2
  <2>4. d = [j \in 1 .. n + 1 |-> d[j]]
    <3>1. d \in Seq(Pair) /\ Len(d) = n + 1
      BY <2>2 DEF d
    <3>2. d \in [1 .. n + 1 -> Pair]
      BY <3>1, LenProperties
    <3> QED BY <3>2
  <2>5. d = b
    BY <2>3, <2>4
  <2> QED BY <1>9, <2>5 DEF a, b, d
<1>12. /\ tree' \in Tree /\ tree'.attribute_values = l /\ tree'.type = tree.type
       /\ tree'.statements = tree.statements
  <2>1. l \in List(Pair)
    BY <1>9 DEF GoodList
  <2> QED BY <1>3, <1>5, <2>1 DEF Tree
<1>13. Values' = l
  BY <1>3, <1>12 DEF Values
<1>14. Vertex'
  <2>1. typed'[1] = typed[1] /\ typed[1].what = "addVertex" /\ held = typed[1].name
    BY <1>6, <1>7, <1>5 DEF Vertex
  <2>2. Items(Values)' =
          [j \in 1 .. PairsTyped |-> Json(typed[j + 1].name, typed[j + 1].val)]'
    BY <1>7, <1>11, <1>13
  <2>3. (array_list_created <=> PairsTyped > 0)'
    BY <1>3, <1>7
  <2>4. GoodList(Values, Pair)'
    BY <1>9, <1>13
  <2>5. tree.type = "UNDEFINED" /\ cur_statement = Null /\ tree.statements = Null
    BY <1>5, <1>7 DEF Vertex
  <2> HIDE DEF PairsTyped, Values
  <2> QED BY <1>3, <1>6, <1>7, <1>12, <2>1, <2>2, <2>3, <2>4, <2>5 DEF Vertex
<1> QED BY <1>1, <1>2, <1>3, <1>5, <1>12, <1>14, StillTyping, Places

(* The closing brace of addVertex( ). *)
LEMMA AddVertexInv ==
  ASSUME GInv, add_vertex
  PROVE  GInv'
<1> DEFINE p == [what |-> ")"]
           n == PairsTyped
<1>1. p \in Phrase /\ p.what = ")"
  BY DEF Phrase
<1>2. Takes("vertex", p, "command")
  BY DEF add_vertex
<1> HIDE DEF p
<1>3. /\ held' = held /\ cur_statement' = cur_statement
      /\ array_list_created' = array_list_created
      /\ tree' = [tree EXCEPT !.type = "ADD_NODE", !.name = held]
  BY DEF add_vertex
<1>4. Vertex /\ typed \in Seq(Phrase) /\ tree \in Tree /\ parsed = "vertex"
      /\ held \in Names \cup {Null}
  BY <1>2, Places DEF Takes
<1>5. /\ typed' # << >> /\ Len(typed) \in Nat /\ Len(typed') = Len(typed) + 1
      /\ Last(typed') = p
      /\ \A j \in 1 .. Len(typed) : typed'[j] = typed[j]
      /\ parsed' = "command"
  BY <1>1, <1>2, <1>4, OnePhrase
<1>6. /\ n = Len(typed) - 1 /\ PairsTyped' = n /\ n \in Nat /\ Last(typed').what = ")"
  <2>1. Last(typed).what # ")" /\ typed # << >>
    BY <1>4 DEF Vertex
  <2>2. Len(typed) # 0
    BY <1>4, <2>1
  <2> QED BY <1>1, <1>5, <2>1, <2>2 DEF PairsTyped
<1>7. /\ tree' \in Tree /\ tree'.attribute_values = tree.attribute_values
      /\ tree'.type = "ADD_NODE" /\ tree'.name = held /\ tree'.statements = tree.statements
  BY <1>3, <1>4 DEF Tree, Types
<1>8. Values' = Values
  BY <1>3, <1>7 DEF Values
<1>9. /\ GoodList(Values, Pair)
      /\ array_list_created <=> n > 0
      /\ array_list_created \/ tree.attribute_values = Null
      /\ Items(Values) = [j \in 1 .. n |-> Json(typed[j + 1].name, typed[j + 1].val)]
  BY <1>4 DEF Vertex
<1> HIDE DEF n
<1>10. \A j \in 1 .. n : typed'[j + 1] = typed[j + 1]
  BY <1>5, <1>6
<1>11. Items(Values) = [j \in 1 .. n |-> Json(typed'[j + 1].name, typed'[j + 1].val)]
  BY <1>9, <1>10
<1>12. Vertex'
  <2>1. typed'[1] = typed[1] /\ typed[1].what = "addVertex" /\ held = typed[1].name
    BY <1>4, <1>5, <1>6 DEF Vertex
  <2>2. Items(Values)' =
          [j \in 1 .. PairsTyped |-> Json(typed[j + 1].name, typed[j + 1].val)]'
    BY <1>6, <1>8, <1>11
  <2>3. (array_list_created <=> PairsTyped > 0)'
    BY <1>3, <1>6, <1>9
  <2>4. GoodList(Values, Pair)'
    BY <1>8, <1>9
  <2>5. cur_statement = Null /\ tree.statements = Null
    BY <1>4 DEF Vertex
  <2> HIDE DEF PairsTyped, Values
  <2> QED BY <1>3, <1>5, <1>6, <1>7, <1>9, <2>1, <2>2, <2>3, <2>4, <2>5 DEF Vertex
<1> QED BY <1>1, <1>2, <1>3, <1>4, <1>7, <1>12, StillTyping, Places

(* Commands of one phrase. *)
LEMMA SingleInv ==
  ASSUME GInv,
         \/ \E type \in {"OPEN", "CREATE", "CLOSE"} : file_command(type)
         \/ \E name \in Names, s1, s2 \in Stored : add_edge(name, s1, s2) \/ delete_edge(name, s1, s2)
  PROVE  GInv'
<1>1. ASSUME NEW p \in Phrase, Takes("nothing", p, "command"), tree' \in Tree,
             tree'.type = p.what, tree'.statements = tree.statements,
             tree'.attribute_values = tree.attribute_values,
             held' = held, cur_statement' = cur_statement,
             array_list_created' = array_list_created,
             \/ p.what \in {"OPEN", "CREATE", "CLOSE"}
             \/ /\ p.what \in {"ADD_EDGE", "DELETE_EDGE"}
                /\ tree'.name = p.name
                /\ tree'.ids = <<Lex(p.ids[1]).v, Lex(p.ids[2]).v>>
      PROVE  GInv'
  <2>1. Single /\ typed = << >> /\ typed \in Seq(Phrase)
    BY <1>1, Places DEF Takes
  <2>2. Len(typed) = 0
    BY <2>1
  <2>3. Len(typed') = 1 /\ typed'[1] = p /\ parsed' = "command"
    BY <1>1, <2>1, <2>2, OnePhrase
  <2>4. Single'
    BY <1>1, <2>1, <2>3 DEF Single
  <2> QED BY <1>1, <2>4, StillTyping, Places
<1>2. ASSUME NEW type \in {"OPEN", "CREATE", "CLOSE"}, file_command(type)
      PROVE  GInv'
  <2> DEFINE p == [what |-> type]
  <2>1. p \in Phrase /\ p.what = type
    BY DEF Phrase
  <2>2. Takes("nothing", p, "command")
    BY <1>2 DEF file_command
  <2>3. /\ tree' \in Tree /\ tree'.type = type /\ tree'.statements = tree.statements
        /\ tree'.attribute_values = tree.attribute_values
    BY <1>2, Places DEF file_command, Tree, Types
  <2> HIDE DEF p
  <2> QED BY <1>1, <1>2, <2>1, <2>2, <2>3 DEF file_command
<1>3. ASSUME NEW type \in {"ADD_EDGE", "DELETE_EDGE"}, NEW name \in Names,
             NEW s1 \in Stored, NEW s2 \in Stored, edge_command(type, name, s1, s2)
      PROVE  GInv'
  <2> DEFINE p == [what |-> type, name |-> name, ids |-> <<s1, s2>>]
             ids == <<Lex(s1).v, Lex(s2).v>>
  <2>1. p \in Phrase /\ p.what = type /\ p.name = name /\ p.ids[1] = s1 /\ p.ids[2] = s2
    BY DEF Phrase
  <2>2. Takes("nothing", p, "command")
    BY <1>3 DEF edge_command
  <2>3. ids \in Value \X Value
    BY LexType, ScalarsAssumption
  <2>4. tree' = [tree EXCEPT !.type = type, !.name = name, !.ids = ids]
    BY <1>3 DEF edge_command
  <2> HIDE DEF p
  <2>5. ids = <<Lex(p.ids[1]).v, Lex(p.ids[2]).v>>
    BY <2>1
  <2> HIDE DEF ids
  <2>6. /\ tree' \in Tree /\ tree'.type = type /\ tree'.statements = tree.statements
        /\ tree'.attribute_values = tree.attribute_values
        /\ tree'.name = name /\ tree'.ids = ids
    BY <2>3, <2>4, Places DEF Tree, Types
  <2> QED BY <1>1, <1>3, <2>1, <2>2, <2>5, <2>6 DEF edge_command
<1> QED BY <1>2, <1>3 DEF add_edge, delete_edge

(* The parser returns, and the client ends, with what was typed. *)
LEMMA EndsInv ==
  ASSUME GInv, yyparse_returns \/ client_returns \/ client_sends \/ client_crashes
  PROVE  GInv' /\ typed' = typed /\ tree' = tree
<1>1. /\ held' = held /\ tree' = tree /\ cur_statement' = cur_statement
      /\ array_list_created' = array_list_created /\ typed' = typed
  BY DEF yyparse_returns, client_returns, client_sends, client_crashes
<1>2. parsed' \in {"all", "closed", "sent", "crashed"}
  BY DEF yyparse_returns, client_returns, client_sends, client_crashes
<1>3. request' # << >> <=> parsed' = "sent"
  <2>1. CASE client_sends
    <3>1. \A r : <<r>> # << >>
      OBVIOUS
    <3> HIDE DEF GInv
    <3> QED BY <2>1, <3>1 DEF client_sends
  <2>2. CASE yyparse_returns \/ client_returns \/ client_crashes
    <3>1. request' = request /\ parsed # "sent" /\ parsed' # "sent"
      BY <2>2 DEF yyparse_returns, client_returns, client_crashes
    <3> QED BY <3>1 DEF GInv
  <2> QED BY <2>1, <2>2
<1>4. Single => Single'
  BY <1>1, <1>2 DEF Single
<1>5. Vertex => Vertex'
  <2>1. Values' = Values /\ PairsTyped' = PairsTyped
    BY <1>1 DEF Values, PairsTyped
  <2> QED BY <1>1, <1>2, <2>1 DEF Vertex
<1>6. Selected => Selected'
  <2>1. Statements' = Statements /\ EmptyHas' = EmptyHas /\ Parsed(typed') = Parsed(typed)
    BY <1>1 DEF Statements, EmptyHas
  <2>2. Listed(Parsed(typed).done) => Listed(Parsed(typed).done)'
    BY <1>1, <2>1 DEF Listed
  <2>3. Building(Parsed(typed).open) => Building(Parsed(typed).open)'
    BY <1>1, <1>2, <2>1 DEF Building
  <2> QED BY <1>1, <1>2, <2>1, <2>2, <2>3 DEF Selected
<1> QED BY <1>1, <1>3, <1>4, <1>5, <1>6 DEF GInv

(* The tree is what was typed, always. *)
LEMMA GInitInv == GInit => GInv
<1> SUFFICES ASSUME GInit PROVE GInv
  OBVIOUS
<1>1. typed \in Seq(Phrase) /\ typed = << >>
  BY EmptySeq DEF GInit
<1>2. tree \in Tree
  BY DEF GInit, Tree, Types
<1>3. Single
  BY DEF GInit, Single
<1> QED BY <1>1, <1>2, <1>3 DEF GInit, GInv

(* Every action keeps it so. *)
LEMMA GNextInv == GInv /\ [GNext]_gvars => GInv'
<1> SUFFICES ASSUME GInv, [GNext]_gvars
             PROVE  GInv'
  OBVIOUS
<1>1. CASE UNCHANGED gvars
  <2>1. Values' = Values /\ PairsTyped' = PairsTyped
    BY <1>1 DEF gvars, Values, PairsTyped
  <2>2. Statements' = Statements /\ EmptyHas' = EmptyHas /\ Parsed(typed') = Parsed(typed)
    BY <1>1 DEF gvars, Statements, EmptyHas
  <2>3. Vertex => Vertex'
    BY <1>1, <2>1 DEF gvars, Vertex
  <2>4. Selected => Selected'
    BY <1>1, <2>2 DEF gvars, Selected, Listed, Building
  <2>5. Single => Single'
    BY <1>1 DEF gvars, Single
  <2> QED BY <1>1, <2>3, <2>4, <2>5 DEF gvars, GInv
<1>2. CASE GNext
  BY <1>2, SelectNodesInv, BeginConditionInv, SelectStatementInv, SelectConditionInv,
     JoinDeleteInv, BeginVertexInv, PairInv, AddVertexInv, SingleInv, EndsInv DEF GNext
<1> QED BY <1>1, <1>2

(* Hence it is always so. *)
LEMMA AlwaysGInv == GSpec => []GInv
BY GInitInv, GNextInv, PTL DEF GSpec

-----------------------------------------------------------------------------
(* What is sent, and what crashes.                                         *)

(* A list is no pointer to nothing.                                        *)
LEMMA NoList ==
  /\ \A l : GoodList(l, Pair) \/ GoodList(l, Statement \cup {Null}) => l # Null
  /\ Null \notin Statement /\ Garbage \notin Statement \cup {Null} /\ Garbage \notin Pair
BY PointersAssumption DEF GoodList

(* Lists have room for what was put in them, the flag says whether there   *)
(* is one, and a statement is being built only between the braces of its   *)
(* has().                                                                  *)
THEOREM GTypeCorrect == GSpec => []GTypeOK
<1>1. GInv => GTypeOK
  <2> SUFFICES ASSUME GInv
               PROVE  GTypeOK
    OBVIOUS
  <2>1. cur_statement # Null => Last(typed).what = "condition"
    BY DEF GInv, Single, Selected, Vertex, Building
  <2>2. request # << >> <=> parsed = "sent"
    BY DEF GInv
  <2>3. ASSUME NEW l, NEW S, GoodList(l, S), Garbage \notin S
        PROVE  l.size <= capacity(l) /\ Garbage \notin Range(Items(l))
    <3>1. l.size <= capacity(l) /\ Items(l) \in Seq(S) /\ Len(Items(l)) \in Nat
      BY <2>3, ListItems DEF GoodList
    <3>2. Range(Items(l)) \subseteq S
      BY <3>1, LenProperties, ElementOfSeq DEF Range
    <3> QED BY <2>3, <3>1, <3>2
  <2>4. CASE Single
    BY <2>1, <2>2, <2>4 DEF Single, GTypeOK
  <2>5. CASE Selected
    <3>1. /\ GoodList(Statements, Statement \cup {Null})
          /\ array_list_created \/ tree.statements = Null
          /\ tree.attribute_values = Null
      BY <2>5 DEF Selected, Listed
    <3>2. CASE array_list_created
      <4>1. GoodList(tree.statements, Statement \cup {Null}) /\ tree.statements # Null
        BY <3>1, <3>2, NoList DEF Statements
      <4>2. /\ tree.statements.size <= capacity(tree.statements)
            /\ Garbage \notin Range(Items(tree.statements))
        BY <2>3, <4>1, NoList
      <4> QED BY <2>1, <2>2, <3>1, <3>2, <4>1, <4>2 DEF GTypeOK
    <3>3. CASE ~array_list_created
      BY <2>1, <2>2, <3>1, <3>3 DEF GTypeOK
    <3> QED BY <3>2, <3>3
  <2>6. CASE Vertex
    <3>1. /\ GoodList(Values, Pair)
          /\ array_list_created \/ tree.attribute_values = Null
          /\ tree.statements = Null
      BY <2>6 DEF Vertex
    <3>2. CASE array_list_created
      <4>1. GoodList(tree.attribute_values, Pair) /\ tree.attribute_values # Null
        BY <3>1, <3>2, NoList DEF Values
      <4>2. /\ tree.attribute_values.size <= capacity(tree.attribute_values)
            /\ Garbage \notin Range(Items(tree.attribute_values))
        BY <2>3, <4>1, NoList
      <4> QED BY <2>1, <2>2, <3>1, <3>2, <4>1, <4>2 DEF GTypeOK
    <3>3. CASE ~array_list_created
      BY <2>1, <2>2, <3>1, <3>3 DEF GTypeOK
    <3> QED BY <3>2, <3>3
  <2> QED BY <2>4, <2>5, <2>6 DEF GInv
<1> QED BY <1>1, AlwaysGInv, PTL

(* A V(...) of which nothing is NULL is sent as it was typed. *)
LEMMA SelectSent ==
  ASSUME GInv, Selected, ~JsonEnds
  PROVE  tree_to_json = Asked /\ Size(tree_to_json) <= Len(typed)
<1> DEFINE done == Parsed(typed).done
           l == tree.statements
           items == Items(l)
           json == IF l = Null THEN << >>
                   ELSE [j \in DOMAIN items |-> StatementJson(items[j])]
<1>1. /\ typed \in Seq(Phrase) /\ typed # << >> /\ typed[1].what = "V"
      /\ tree.type = "SELECT" /\ tree.schema_name = typed[1].name
      /\ Listed(done)
      /\ StatementsSize(done) + Len(Parsed(typed).open) <= Len(typed)
  BY DEF GInv, Selected
<1>2. Parsed(typed) \in ParseAcc
  BY <1>1, ParsedAppend, [what |-> "delete"] \in Phrase DEF Phrase
<1>3. done \in Seq(Whole) /\ Len(done) \in Nat /\ Len(Parsed(typed).open) \in Nat
  BY <1>2, LenProperties DEF ParseAcc
<1>4. json = done
  <2>1. CASE ~array_list_created
    <3>1. l = Null /\ Len(done) = 0
      BY <1>1, <2>1, ListCreate DEF Listed, Statements
    <3> QED BY <1>3, <3>1
  <2>2. CASE array_list_created
    <3>1. /\ GoodList(l, Statement \cup {Null}) /\ l.size = Len(done) /\ l # Null
          /\ Matching(items, done, EmptyHas)
      BY <1>1, <2>2, NoList DEF Listed, Statements
    <3>2. items \in Seq(Statement \cup {Null}) /\ Len(items) = Len(done)
      BY <3>1, ListItems
    <3>3. DOMAIN items = 1 .. Len(done) /\ DOMAIN done = 1 .. Len(done)
      BY <1>3, <3>2, LenProperties
    <3>4. Null \notin Range(items)
      BY <1>1, <3>1 DEF JsonEnds
    <3> HIDE DEF done, items, l
    <3>5. \A j \in 1 .. Len(done) : items[j] # Null
      BY <3>3, <3>4 DEF Range
    <3>6. \A j \in 1 .. Len(done) : StatementJson(items[j]) = done[j]
      BY <3>1, <3>5 DEF Matching
    <3>7. json = [j \in 1 .. Len(done) |-> done[j]]
      BY <3>1, <3>3, <3>6
    <3>8. done = [j \in 1 .. Len(done) |-> done[j]]
      BY <1>3, <3>3
    <3> QED BY <3>7, <3>8
  <2> QED BY <2>1, <2>2
<1>5. tree_to_json = [oper |-> "select", name |-> tree.schema_name, statements |-> json]
  BY <1>1 DEF tree_to_json
<1>6. Asked = [oper |-> "select", name |-> typed[1].name, statements |-> done]
  BY <1>1 DEF Asked, WholeStatements
<1> HIDE DEF json, done
<1>7. tree_to_json = Asked
  BY <1>1, <1>4, <1>5, <1>6
<1>8. Size(tree_to_json) = StatementsSize(done)
  BY <1>4, <1>5 DEF Size
<1>9. StatementsSize(done) \in Nat
  BY <1>3, SizeAppend, [type |-> DELETE] \in Whole DEF Whole
<1>10. Len(typed) \in Nat
  BY <1>1, LenProperties
<1> QED BY <1>1, <1>3, <1>7, <1>8, <1>9, <1>10 DEF done

(* An addVertex with attributes is sent as it was typed, or not at all. *)
LEMMA VertexSent ==
  ASSUME GInv, Vertex
  PROVE  /\ JsonEnds => Len(typed) = 2 /\ typed[1].what = "addVertex" /\ typed[2].what = ")"
         /\ ~JsonEnds => /\ tree_to_json = Asked
                         /\ Size(tree_to_json) \in Nat /\ Size(tree_to_json) <= Len(typed)
<1> DEFINE n == PairsTyped
           l == tree.attribute_values
<1>1. /\ typed \in Seq(Phrase) /\ typed # << >> /\ typed[1].what = "addVertex"
      /\ held = typed[1].name /\ Len(typed) \in Nat
      /\ GoodList(Values, Pair)
      /\ Items(Values) = [j \in 1 .. n |-> Json(typed[j + 1].name, typed[j + 1].val)]
      /\ array_list_created <=> n > 0
      /\ array_list_created \/ l = Null
  BY LenProperties DEF GInv, Vertex
<1>2. Len(typed) # 0
  BY <1>1
<1>3. Last(typed) = typed[Len(typed)]
  BY DEF Last
<1>4. CASE Last(typed).what # ")"
  <2>1. tree.type = "UNDEFINED"
    BY <1>4 DEF Vertex
  <2>2. ~JsonEnds /\ tree_to_json = [oper |-> "none"]
    BY <2>1 DEF JsonEnds, tree_to_json
  <2>3. Asked = [oper |-> "none"]
    BY <1>1, <1>4 DEF Asked
  <2>4. Size(tree_to_json) = 1
    BY <2>2 DEF Size
  <2> QED BY <1>1, <1>2, <2>2, <2>3, <2>4
<1>5. CASE Last(typed).what = ")"
  <2>1. tree.type = "ADD_NODE" /\ tree.name = held /\ n = Len(typed) - 2
    BY <1>5 DEF Vertex, PairsTyped
  <2>2. Len(typed) # 1
    BY <1>1, <1>3, <1>5
  <2>3. n \in Nat
    BY <1>1, <1>2, <2>1, <2>2
  <2>4. CASE array_list_created
    <3>1. l # Null /\ Values = l
      BY <1>1, <2>4, NoList DEF Values
    <3>2. ~JsonEnds
      BY <2>1, <3>1 DEF JsonEnds
    <3>3. tree_to_json = [oper |-> "add_node", name |-> tree.name, att |-> Items(l)]
      BY <2>1 DEF tree_to_json
    <3>4. Asked = [oper |-> "add_node", name |-> typed[1].name,
                   att |-> [j \in 1 .. Len(typed) - 2 |->
                              Json(typed[j + 1].name, typed[j + 1].val)]]
      BY <1>1, <1>5 DEF Asked
    <3>5. Items(l) = [j \in 1 .. Len(typed) - 2 |-> Json(typed[j + 1].name, typed[j + 1].val)]
      BY <1>1, <2>1, <3>1
    <3>6. tree_to_json = Asked
      BY <1>1, <2>1, <3>3, <3>4, <3>5
    <3>7. Len(Items(l)) = n
      BY <1>1, <2>3, <3>1
    <3>8. Size(tree_to_json) = 1 + n
      BY <3>3, <3>7 DEF Size
    <3> QED BY <1>1, <2>1, <2>3, <3>2, <3>6, <3>8
  <2>5. CASE ~array_list_created
    <3>1. l = Null /\ n = 0
      BY <1>1, <2>3, <2>5
    <3>2. JsonEnds
      BY <2>1, <3>1 DEF JsonEnds
    <3>3. Len(typed) = 2
      BY <1>1, <2>1, <3>1
    <3> QED BY <1>1, <1>3, <1>5, <3>2, <3>3
  <2> QED BY <2>4, <2>5
<1> QED BY <1>4, <1>5

(* Another command is sent as it was typed. *)
LEMMA SingleSent ==
  ASSUME GInv, Single, tree.type # "CLOSE"
  PROVE  ~JsonEnds /\ tree_to_json = Asked /\ Size(tree_to_json) = 1
<1>0. Len(typed) = 1 => typed # << >>
  OBVIOUS
<1>1. CASE typed = << >> /\ tree.type = "UNDEFINED"
  <2>1. tree_to_json = [oper |-> "none"] /\ ~JsonEnds
    BY <1>1 DEF tree_to_json, JsonEnds
  <2>2. Asked = [oper |-> "none"]
    BY <1>1 DEF Asked
  <2> QED BY <2>1, <2>2 DEF Size
<1>2. CASE Len(typed) = 1 /\ typed[1].what = tree.type /\ tree.type \in {"OPEN", "CREATE"}
  <2>0. typed # << >>
    BY <1>0, <1>2
  <2>1. tree_to_json = [oper |-> "none"] /\ ~JsonEnds
    BY <1>2 DEF tree_to_json, JsonEnds
  <2>2. Asked = [oper |-> "none"]
    BY <1>2, <2>0 DEF Asked
  <2> QED BY <2>1, <2>2 DEF Size
<1>3. CASE /\ Len(typed) = 1 /\ typed[1].what = tree.type
           /\ tree.type \in {"ADD_EDGE", "DELETE_EDGE"}
           /\ tree.name = typed[1].name
           /\ tree.ids = <<Lex(typed[1].ids[1]).v, Lex(typed[1].ids[2]).v>>
  <2>0. typed # << >>
    <3>1. Len(typed) = 1
      BY <1>3
    <3> QED BY <1>0, <3>1
  <2>1. tree_to_json = [oper |-> tree.type, name |-> tree.name, ids |-> tree.ids] /\ ~JsonEnds
    BY <1>3 DEF tree_to_json, JsonEnds
  <2>2. Asked = [oper |-> typed[1].what, name |-> typed[1].name,
                 ids |-> <<Lex(typed[1].ids[1]).v, Lex(typed[1].ids[2]).v>>]
    BY <1>3, <2>0 DEF Asked
  <2>3. Size(tree_to_json) = 1
    BY <1>3, <2>1 DEF Size
  <2> QED BY <1>3, <2>1, <2>2, <2>3
<1> QED BY <1>1, <1>2, <1>3 DEF Single

(* The client dereferences NULL in a V(...) only for an empty has().       *)
LEMMA SelectEnds ==
  ASSUME GInv, Selected, JsonEnds
  PROVE  EmptyHas
<1> DEFINE l == tree.statements
           items == Items(l)
           done == Parsed(typed).done
<1>1. /\ l # Null /\ {Null, Garbage} \cap Range(items) # {} /\ Listed(done)
  BY DEF Selected, JsonEnds
<1>2. /\ GoodList(l, Statement \cup {Null}) /\ l.size = Len(done)
      /\ Matching(items, done, EmptyHas)
  BY <1>1 DEF Listed, Statements
<1>3. /\ items \in Seq(Statement \cup {Null}) /\ Len(items) = Len(done)
      /\ DOMAIN items = 1 .. Len(done)
  BY <1>2, ListItems, LenProperties
<1> HIDE DEF l, items, done
<1>4. PICK j \in 1 .. Len(done) : items[j] \in {Null, Garbage}
  BY <1>1, <1>3 DEF Range
<1>5. items[j] \in Statement \cup {Null}
  BY <1>3, ElementOfSeq
<1>6. items[j] = Null
  BY <1>4, <1>5, NoList
<1> QED BY <1>2, <1>6, NoList DEF Matching

(* What the client makes of what was typed, whatever was typed.            *)
LEMMA ClientEnds ==
  ASSUME GInv, tree.type # "CLOSE"
  PROVE  /\ ~JsonEnds => tree_to_json = Asked
         /\ JsonEnds \/ Size(tree_to_json) > RequestSize =>
              \/ EmptyHas
              \/ Len(typed) = 2 /\ typed[1].what = "addVertex" /\ typed[2].what = ")"
              \/ Len(typed) > RequestSize
<1>1. RequestSize \in Nat /\ RequestSize >= 1
  BY GrammarAssumption
<1>2. Len(typed) \in Nat
  BY LenProperties DEF GInv
<1>3. CASE Single
  <2>1. ~JsonEnds /\ tree_to_json = Asked /\ Size(tree_to_json) = 1
    BY <1>3, SingleSent
  <2> QED BY <1>1, <2>1
<1>4. CASE Selected
  <2>1. CASE JsonEnds
    BY <1>4, <2>1, SelectEnds
  <2>2. CASE ~JsonEnds
    <3>1. tree_to_json = Asked /\ Size(tree_to_json) <= Len(typed)
      BY <1>4, <2>2, SelectSent
    <3>2. Size(tree_to_json) \in Nat
      <4>1. Parsed(typed).done \in Seq(Whole) /\ typed # << >> /\ typed[1].what = "V"
        BY <1>4, ParsedAppend, [what |-> "delete"] \in Phrase
           DEF GInv, Selected, ParseAcc, Phrase
      <4>2. Asked.oper = "select" /\ Asked.statements = Parsed(typed).done
        BY <4>1 DEF Asked, WholeStatements
      <4>3. Size(tree_to_json) = StatementsSize(Parsed(typed).done)
        BY <3>1, <4>2 DEF Size
      <4> QED BY <4>1, <4>3, SizeAppend, [type |-> DELETE] \in Whole DEF Whole
    <3> QED BY <1>1, <1>2, <2>2, <3>1, <3>2
  <2> QED BY <2>1, <2>2
<1>5. CASE Vertex
  <2>1. CASE JsonEnds
    BY <1>5, <2>1, VertexSent
  <2>2. CASE ~JsonEnds
    <3>1. tree_to_json = Asked /\ Size(tree_to_json) <= Len(typed) /\ Size(tree_to_json) \in Nat
      BY <1>5, <2>2, VertexSent
    <3> QED BY <1>1, <1>2, <2>2, <3>1
  <2> QED BY <2>1, <2>2
<1> QED BY <1>3, <1>4, <1>5 DEF GInv

(* A client that has sent or crashed does nothing more.                    *)
LEMMA AtTheEnd ==
  ASSUME GNext
  PROVE  /\ parsed \notin {"sent", "crashed"}
         /\ parsed' = "sent" => client_sends
         /\ parsed' = "crashed" => client_crashes
BY DEF GNext, select_nodes, begin_condition, select_statement, select_condition, join,
       delete_command, begin_vertex, attribute_value_pair, add_vertex, add_edge, delete_edge,
       edge_command, file_command, Takes, yyparse_returns, client_returns, client_sends,
       client_crashes

(* What is sent is what was typed: every finished statement with its own   *)
(* conditions, in order, and of an unfinished one nothing.                 *)
THEOREM AlwaysSentAsTyped == GSpec => []SentAsTyped
<1>1. GInit => SentAsTyped
  BY DEF GInit, SentAsTyped
<1>2. GInv /\ SentAsTyped /\ [GNext]_gvars => SentAsTyped'
  <2> SUFFICES ASSUME GInv, SentAsTyped, [GNext]_gvars, parsed' = "sent"
               PROVE  request'[1] = Asked' \/ request'[1].oper = "too_long"
    BY DEF SentAsTyped
  <2>1. CASE UNCHANGED gvars
    <3>1. Asked' = Asked
      BY <2>1 DEF gvars, Asked, WholeStatements
    <3> QED BY <2>1, <3>1 DEF gvars, SentAsTyped
  <2>2. CASE GNext
    <3>1. client_sends
      BY <2>2, AtTheEnd
    <3>2. ~JsonEnds /\ tree.type # "CLOSE" /\ typed' = typed
      BY <3>1 DEF client_sends
    <3>3. Asked' = Asked /\ tree_to_json = Asked
      BY <3>2, ClientEnds DEF Asked, WholeStatements
    <3>4. request' = <<IF Size(tree_to_json) <= RequestSize THEN tree_to_json
                       ELSE [oper |-> "too_long"]>>
      BY <3>1 DEF client_sends
    <3>5. request'[1] \in {tree_to_json, [oper |-> "too_long"]}
      BY <3>4
    <3>6. [oper |-> "too_long"].oper = "too_long"
      OBVIOUS
    <3> HIDE DEF Asked, tree_to_json
    <3> QED BY <3>3, <3>5, <3>6
  <2> QED BY <2>1, <2>2
<1> QED BY <1>1, <1>2, AlwaysGInv, PTL DEF GSpec

(* The client crashes only for a has() without conditions, an addVertex    *)
(* without attributes, or a command that is too long.                      *)
THEOREM CrashesAlwaysForCause == GSpec => []CrashesForCause
<1>1. GInit => CrashesForCause
  BY DEF GInit, CrashesForCause
<1>2. GInv /\ CrashesForCause /\ [GNext]_gvars => CrashesForCause'
  <2> SUFFICES ASSUME GInv, CrashesForCause, [GNext]_gvars, parsed' = "crashed"
               PROVE  CrashesForCause'
    BY DEF CrashesForCause
  <2>1. CASE UNCHANGED gvars
    BY <2>1 DEF gvars, CrashesForCause
  <2>2. CASE GNext
    <3>1. client_crashes
      BY <2>2, AtTheEnd
    <3>2. /\ JsonEnds \/ Size(tree_to_json) > RequestSize
          /\ tree.type # "CLOSE" /\ typed' = typed
      BY <3>1 DEF client_crashes
    <3> QED BY <3>2, ClientEnds DEF CrashesForCause, EmptyHas
  <2> QED BY <2>1, <2>2
<1> QED BY <1>1, <1>2, AlwaysGInv, PTL DEF GSpec
=============================================================================
