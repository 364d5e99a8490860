------------------------------- MODULE CString -------------------------------
(***************************************************************************)
(* The kernel's strings and numbers (core/string.c and sscanf of           *)
(* core/printf.c), which every command line, file name and address goes    *)
(* through. A character is its code less that of '0', so that a digit is   *)
(* its own value; NUL ends a string. The functions without memory are       *)
(* checked on every input of a small width against what they are to give;  *)
(* strtok, which remembers where it was, is a state machine.               *)
(***************************************************************************)
EXTENDS Integers, Sequences, SequencesExt, FiniteSets

CONSTANTS
  MaxInt,     \* the largest int, one less than the smallest one's size
  Size,       \* bound: bytes of the memory the copies work on
  Quad,       \* numbers an address is made of
  StrChar,    \* what the texts are made of, and dots
  MaxStr      \* bound: length of a text

ASSUME CStringAssumption ==
  /\ MaxInt \in Nat /\ Size \in Nat \ {0} /\ MaxStr \in Nat
  /\ Quad \subseteq 0 .. MaxInt /\ StrChar \subseteq 0 .. 9

Minus == -3   \* '-'
Dot == -2     \* '.'
NUL == -48

(* The call under test: of names it; a strtok goes on with in, saved and   *)
(* tokens, the string, strtok_saved_ptr (0 for a null pointer) and what    *)
(* was returned so far.                                                    *)
VARIABLE str

-----------------------------------------------------------------------------
Wrapped(n) == IF n > MaxInt THEN n - 2 * (MaxInt + 1) ELSE n

(* The digits of a number that is not negative, the last one first, as the *)
(* loop of itoa puts them down.                                            *)
Digits[n \in 0 .. MaxInt] ==
  IF n \div 10 > 0 THEN <<n % 10>> \o Digits[n \div 10] ELSE <<n % 10>>

itoa(n) == Reverse(IF n < 0 THEN Append(Digits[Wrapped(-n)], Minus) ELSE Digits[n])

DigitsOf(s) ==
  LET others == {i \in 1 .. Len(s) : s[i] \notin 0 .. 9}
  IN  IF others = {} THEN s ELSE SubSeq(s, 1, Min(others) - 1)

ValueOf(digits) ==
  LET res[k \in 0 .. Len(digits)] == IF k = 0 THEN 0 ELSE 10 * res[k - 1] + digits[k]
  IN  res[Len(digits)]

atoi(s) ==
  IF s # <<>> /\ s[1] = Minus THEN -ValueOf(DigitsOf(Tail(s))) ELSE ValueOf(DigitsOf(s))

(* sscanf with "%d.%d.%d.%d": what is behind the n-th dot, if it is there. *)
Behind(s) ==
  LET dots == {i \in 1 .. Len(s) : s[i] = Dot}
  IN  IF dots = {} THEN <<>> ELSE SubSeq(s, Min(dots) + 1, Len(s))

sscanf(s) ==
  <<atoi(s), atoi(Behind(s)), atoi(Behind(Behind(s))), atoi(Behind(Behind(Behind(s))))>>

(* The first difference decides, the NUL being a character of a string.    *)
strcmp(s, t) ==
  LET a == Append(s, NUL)
      b == Append(t, NUL)
      i == CHOOSE k \in DOMAIN a : /\ \A j \in 1 .. k - 1 : a[j] = b[j]
                                   /\ a[k] = NUL \/ a[k] # b[k]
  IN  a[i] - b[i]

(* memmove and memcpy of n bytes, one at a time, within memory m. *)
CopyOne(m, to, from) == [m EXCEPT ![to] = m[from]]

memcpy(m, d, s, n) ==
  LET after[k \in 0 .. n] == IF k = 0 THEN m ELSE CopyOne(after[k - 1], d + k - 1, s + k - 1)
  IN  after[n]

AlwaysForward(m, d, s, n) == memcpy(m, d, s, n)

memmove(m, d, s, n) ==
  LET after[k \in 0 .. n] == IF k = 0 THEN m ELSE CopyOne(after[k - 1], d + n - k, s + n - k)
  IN  IF d < s THEN memcpy(m, d, s, n) ELSE after[n]

(* strncpy of a string shorter than n: the rest is filled with NUL.        *)
strncpy(s, n) == s \o [i \in 1 .. n - Len(s) |-> NUL]

-----------------------------------------------------------------------------
(* strtok with one delimiter, the dot: in the string, a token ends where   *)
(* its delimiter was overwritten.                                          *)
TokenStart(s, from) ==
  {i \in from .. Len(s) : s[i] # Dot /\ \A j \in from .. i - 1 : s[j] = Dot}

TokenEnd(s, start) ==
  CHOOSE e \in start .. Len(s) + 1 : /\ e <= Len(s) => s[e] = Dot
                                     /\ \A j \in start .. e - 1 : s[j] # Dot

Saved(s, e) == IF e <= Len(s) THEN e + 1 ELSE 0

Strtok ==
  /\ str.of = "tokens" /\ str.saved # 0
  /\ \/ /\ TokenStart(str.in, str.saved) = {}
        /\ str' = [str EXCEPT !.saved = 0]
     \/ \E start \in TokenStart(str.in, str.saved) :
          LET end == TokenEnd(str.in, start)
          IN str' = [str EXCEPT !.saved = Saved(str.in, end),
                                !.tokens = Append(@, SubSeq(str.in, start, end - 1))]

Strings(C, n) == UNION {[1 .. k -> C] : k \in 0 .. n}

StrInit ==
  \/ \E n \in -(MaxInt + 1) .. MaxInt : str = [of |-> "number", n |-> n]
  \/ \E q \in [1 .. 4 -> Quad] : str = [of |-> "address", q |-> q]
  \/ \E s, t \in Strings(StrChar, MaxStr) : str = [of |-> "pair", s |-> s, t |-> t]
  \/ \E d, s \in 1 .. Size : \E n \in 0 .. Size - (IF d > s THEN d ELSE s) + 1 :
       str = [of |-> "copy", d |-> d, s |-> s, n |-> n]
  \/ \E s \in Strings(StrChar \union {Dot}, MaxStr) :
       str = [of |-> "tokens", in |-> s, saved |-> 1, tokens |-> <<>>]

StrNext == Strtok

-----------------------------------------------------------------------------
Dotted(q) == itoa(q[1]) \o <<Dot>> \o itoa(q[2]) \o <<Dot>> \o itoa(q[3]) \o <<Dot>> \o itoa(q[4])

(* What is written as a number or an address is read back as that number,  *)
(* for every int but the smallest, whose magnitude is not an int.          *)
(* (itoa, atoi, sscanf)                                                    *)
NumbersReadBack ==
  /\ str.of = "number" /\ str.n # -(MaxInt + 1) => atoi(itoa(str.n)) = str.n
  /\ str.of = "address" => sscanf(Dotted(str.q)) = str.q

(* A copy within one buffer leaves there what was at its source, however   *)
(* the two overlap; two strings compare equal only if they are.            *)
(* (memmove, strcmp, strncpy)                                              *)
CopiesAreExact ==
  /\ str.of = "copy" =>
       LET old == [i \in 1 .. Size |-> i]
           new == memmove(old, str.d, str.s, str.n)
       IN \A i \in 1 .. Size :
            new[i] = IF i \in str.d .. str.d + str.n - 1 THEN old[i - str.d + str.s] ELSE old[i]
  /\ str.of = "pair" =>
       /\ strcmp(str.s, str.t) = 0 <=> str.s = str.t
       /\ strcmp(str.s, str.t) < 0 <=> strcmp(str.t, str.s) > 0
       /\ strcmp(DigitsOf(strncpy(str.s, MaxStr + 1)), str.s) = 0

Starts(s) == {i \in 1 .. Len(s) : s[i] # Dot /\ (i = 1 \/ s[i - 1] = Dot)}

IsFieldAt(t, s, i) ==
  \E e \in i .. Len(s) + 1 :
    /\ t = SubSeq(s, i, e - 1)
    /\ e <= Len(s) => s[e] = Dot
    /\ \A j \in i .. e - 1 : s[j] # Dot

(* The tokens of strtok are the fields between delimiters, the k-th token  *)
(* the k-th of them, however many delimiters stand together or at the ends. *)
TokensAreTheFields ==
  str.of = "tokens" /\ str.saved = 0 =>
    /\ Len(str.tokens) = Cardinality(Starts(str.in))
    /\ \A i \in Starts(str.in) :
         IsFieldAt(str.tokens[Cardinality({j \in Starts(str.in) : j <= i})], str.in, i)
=============================================================================
