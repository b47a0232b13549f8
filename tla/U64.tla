--------------------------------- MODULE U64 ---------------------------------
(* The u64 arithmetic the code uses, over a maximum that a model keeps small.  *)
EXTENDS Naturals

CONSTANT U64_MAX

ASSUME U64Assumption == U64_MAX \in Nat \ {0}

\* isize::MAX, the most bytes a Vec may have.
ISIZE_MAX == U64_MAX \div 2

saturating_add(a, b) == IF a + b > U64_MAX THEN U64_MAX ELSE a + b
saturating_sub(a, b) == IF a > b THEN a - b ELSE 0

\* AtomicU64::fetch_add and fetch_sub, and += and -= of a release build.
wrapping_add(a, b) == (a + b) % (U64_MAX + 1)
wrapping_sub(a, b) == (a + U64_MAX + 1 - b) % (U64_MAX + 1)
=============================================================================
