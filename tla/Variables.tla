------------------------------ MODULE Variables ------------------------------
(***************************************************************************)
(* The variables of the shell of hw4 (store.c): a list of pairs <<name,    *)
(* value>>, the newest first, and the conversions between a value and an   *)
(* integer.  A value is a text: a sequence of digits, Dash and Letter, the *)
(* last of which stands for any character that is in no number.            *)
(***************************************************************************)
EXTENDS Integers, Sequences, SequencesExt

CONSTANTS NoValue,   \* NULL, where store.c returns a value
          Error      \* a function has returned -1, or has jumped to onerror

Dash == 10
Letter == 11

\* store_get_data.
Entry(store, var) == {i \in DOMAIN store : store[i][1] = var}

FirstEntry(store, var) == CHOOSE i \in Entry(store, var) : \A j \in Entry(store, var) : i <= j

GetString(store, var) ==
  IF Entry(store, var) = {} THEN NoValue ELSE store[FirstEntry(store, var)][2]

\* The integer the first k digits make.
Number(base, digits, k) ==
  LET ans[i \in 0..k] == IF i = 0 THEN 0 ELSE base * ans[i - 1] + digits[i]
  IN ans[k]

IsNegative(text) == text # <<>> /\ Head(text) = Dash

Unsigned(text) == IF IsNegative(text) THEN Tail(text) ELSE text

\* The integer of a text: a sign and digits, of which there may be none.
IntegerOf(base, text) ==
  LET digits == Unsigned(text)
      ans    == Number(base, digits, Len(digits))
  IN IF \A i \in 1..Len(digits) : digits[i] \in 0..base - 1
     THEN IF IsNegative(text) THEN -ans ELSE ans ELSE Error

IntOf(text) == IntegerOf(10, text)

\* What store_get_int may leave at valp, or Error.  A variable that does not
\* exist is no error: `garbage' is what the caller's variable may hold.
GetInt(store, var, garbage) ==
  IF Entry(store, var) = {} THEN garbage ELSE {IntOf(GetString(store, var))}

Removed(store, i) == RemoveAt(store, i)

Added(store, var, val) == <<<<var, val>>>> \o store

\* store_set_string, which replaces, removes or adds an entry.
SetString(store, var, val) ==
  IF val = NoValue THEN IF Entry(store, var) = {} THEN store ELSE Removed(store, FirstEntry(store, var))
  ELSE IF Entry(store, var) = {} THEN Added(store, var, val)
  ELSE [store EXCEPT ![FirstEntry(store, var)] = <<var, val>>]

\* The remainders of a number, reversed.
Digits[k \in Nat] == IF k < 10 THEN <<k>> ELSE Append(Digits[k \div 10], k % 10)

\* The text store_set_int gives an integer.  A variant the checks refute: the
\* sign is left out.
IntTextUnsigned(n) == Digits[IF n < 0 THEN -n ELSE n]

IntText(n) == IF n < 0 THEN <<Dash>> \o Digits[-n] ELSE Digits[n]

SetInt(store, var, n) == SetString(store, var, IntText(n))
=============================================================================
